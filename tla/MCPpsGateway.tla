---------------------------- MODULE MCPpsGateway ----------------------------
EXTENDS PpsGateway, TLC

\* Requests are interchangeable.
Symmetry == Permutations(Session)
=============================================================================
