----------------------------- MODULE MCRollover -----------------------------
EXTENDS Rollover, TLC
MCContracts == {1, 2}
=============================================================================
