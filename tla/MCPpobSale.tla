----------------------------- MODULE MCPpobSale -----------------------------
EXTENDS PpobSale, TLC

CONSTANTS t1, t2, w1, w2

\* Every transaction on one wallet, or each on its own.
OneWallet  == [t \in Txn |-> w1]
TwoWallets == [t \in Txn |-> IF t = t1 THEN w1 ELSE w2]

\* Requests are interchangeable.
Symmetry == Permutations(Session)
=============================================================================
