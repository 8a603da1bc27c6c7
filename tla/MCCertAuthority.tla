--------------------------- MODULE MCCertAuthority ---------------------------
\* A launch and a daemon, and two handshakes at the daemon.
EXTENDS CertAuthority, TLC

CONSTANTS launch, daemon, t1, t2, host

MCWriters == {launch, daemon}
MCPaths == {"pem", "key"}
MCData == 1 .. MaxPairs
MCHome == [t \in Threads |-> daemon]
=============================================================================
