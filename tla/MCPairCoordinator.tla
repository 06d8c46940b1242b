------------------------- MODULE MCPairCoordinator -------------------------
EXTENDS PairCoordinator, TLC
=============================================================================
