----------------------------- MODULE MCLogTail -----------------------------
\* Two sessions of agy, whose logs become the newest in turn.
EXTENDS LogTail

CONSTANTS log1, log2, alice
=============================================================================
