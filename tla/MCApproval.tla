----------------------------- MODULE MCApproval -----------------------------
EXTENDS Approval, TLC

CONSTANTS u1, u2, u3

\* The first tier needs two approvers; the third tier cannot resolve its own.
MCApprovers == <<{u1, u2}, {u2}, {u1}>>

\* A third user stands in for the first, and is the fallback.
MCDelegate == [u \in User |-> IF u = u1 THEN u3 ELSE u]
MCOverdue  == <<"escalate_to_user", "escalate_to_next", "auto_approve">>
MCFallback == <<u3, u3, u3>>

Symmetry == Permutations(Worker) \cup Permutations(Request)
=============================================================================
