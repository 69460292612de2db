--------------------------- MODULE MCMessageHistory ---------------------------
EXTENDS MessageHistory

SmallTimes == 1..6
=============================================================================
