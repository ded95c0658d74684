-------------------------- MODULE MCClientConnection --------------------------
(* Small instances of ClientConnection for TLC. *)
EXTENDS ClientConnection

\* A server with every transport, and one behind a proxy that ends QUIC.
SomeAdvertised == {{"quic", "http2", "wss"}, {"http2", "wss"}}

Flag(t, proxy, l, reconnect, max) ==
  [transport |-> t, proxy |-> proxy, local |-> l, reconnect |-> reconnect, max |-> max]

\* Each transport and each listener, with and without a proxy, reconnecting and
\* a limit.
SomeConfigs ==
  {Flag("auto", FALSE, "none", TRUE, 0), Flag("auto", TRUE, "socks", TRUE, 2), Flag("quic", FALSE, "folder", TRUE, 0),
   Flag("http2", FALSE, "proxy", FALSE, 0), Flag("wss", TRUE, "udp", TRUE, 1)}
================================================================================
