---------------------------- MODULE MCPostgresTx ----------------------------
EXTENDS PostgresTx, TLC
=============================================================================
