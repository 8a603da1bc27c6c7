---------------------------- MODULE MCLogReadings ----------------------------
\* Two sessions of agy, whose logs are read in turn.
EXTENDS LogReadings, TLC

CONSTANTS log1, log2, alice
=============================================================================
