---------------------------- MODULE MCPpobWallet ----------------------------
EXTENDS PpobWallet, TLC

\* Wallets and sessions are interchangeable.
Symmetry == Permutations(Session) \cup Permutations(Wallet)
=============================================================================
