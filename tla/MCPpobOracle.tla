---------------------------- MODULE MCPpobOracle ----------------------------
EXTENDS PpobOracle, TLC
=============================================================================
