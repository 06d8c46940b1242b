--------------------------- MODULE MCBrokerWorker ---------------------------
EXTENDS BrokerWorker, TLC
MCIds == 1..4
=============================================================================
