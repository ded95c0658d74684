SPECIFICATION FairSpec
CONSTANTS
  MaxSess = 2
  MaxToken = 3
  MaxTries = 3
  Configs <- SomeConfigs
  Advertised <- SomeAdvertised
INVARIANTS CarrierIsCurrent RouteHandedOver QuicClosedAtExit
PROPERTIES DisconnectHeard ShutdownEnds
CHECK_DEADLOCK FALSE
