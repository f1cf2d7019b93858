------------------------------ MODULE MCPpobVa ------------------------------
EXTENDS PpobVa, TLC

\* A transfer is named by the reference its callback carries; the bank prints the
\* same one on the statement.
MCRefOf == [p \in Payment |-> p]

\* One wallet: jobs on different references meet in its row.
MCWalletOf == [r \in Ref |-> CHOOSE w \in Wallet : TRUE]

Symmetry == Permutations(Worker) \cup Permutations(Ref)
=============================================================================
