---------------------------- MODULE MCPpobBooks ----------------------------
EXTENDS PpobBooks, TLC

\* Each transaction has a mitra of its own: one mitra's invoice may fail alone.
MCMitraOf == [t \in Txn |-> t]

Symmetry == Permutations(Worker) \cup Permutations(Txn)
=============================================================================
