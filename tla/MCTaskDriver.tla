---------------------------- MODULE MCTaskDriver -----------------------------
EXTENDS TaskDriver

CONSTANTS c1

=============================================================================
