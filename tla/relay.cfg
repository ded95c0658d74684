SPECIFICATION FairSpec
CONSTANTS
  Kinds = {"h1", "upgrade", "web", "rev", "socks", "connect", "udp", "webudp", "stdio"}
  Carriers = {"mux", "quic"}
  Informational = 1
INVARIANTS WithheldUntil101
PROPERTIES ResponseDelivered RelayEnds
CHECK_DEADLOCK FALSE
