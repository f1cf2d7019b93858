---------------------------- MODULE MCPpobBucket ----------------------------
EXTENDS PpobBucket, TLC

\* Requests and sessions are interchangeable.
Symmetry == Permutations(Session) \cup Permutations(Request)

\* Bounds of the run: once a second pair of bills is committed, one session at a time;
\* usages and refunds are not combined with a committed pair that has nothing to credit
\* or has lost a bill.
Bounded ==
  \A p \in Pair : LET topup == db.topup[p] IN
    /\ p[2] > 1 /\ topup.made => Cardinality(open) <= 1
    /\ topup.made /\ (topup.deposit <= 0 \/ topup.gone # {}) =>
         \A s \in Session, b \in Bucket : LET moves == db.moves[b] \o draft[s][b] IN
           \A i \in DOMAIN moves : moves[i].bill # NoBill
=============================================================================
