---------------------------- MODULE MCTaskSession ----------------------------
EXTENDS PolledSession

CONSTANTS c1

=============================================================================
