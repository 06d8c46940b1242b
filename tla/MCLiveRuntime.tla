--------------------------- MODULE MCLiveRuntime ---------------------------
EXTENDS LiveRuntime, TLC
=============================================================================
