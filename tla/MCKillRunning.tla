--------------------------- MODULE MCKillRunning ---------------------------
EXTENDS KillRunning
=============================================================================
