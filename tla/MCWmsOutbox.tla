---------------------------- MODULE MCWmsOutbox ----------------------------
EXTENDS WmsOutbox, TLC
=============================================================================
