---------------------------- MODULE MCProxyDaemon ----------------------------
(* Small instances of ProxyDaemon for TLC. *)
EXTENDS ProxyDaemon
=============================================================================
