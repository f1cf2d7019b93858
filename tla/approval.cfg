SPECIFICATION Spec
CONSTANTS
  u1 = u1
  u2 = u2
  u3 = u3
  Doc = {d1}
  Request = {r1, r2}
  User = {u1, u2, u3}
  Root = root
  None = none
  Worker = {s1, s2}
  Tiers = 3
  RequireAll = {1}
  Approvers <- MCApprovers
  Delegate <- MCDelegate
  Overdue <- MCOverdue
  Fallback <- MCFallback
  Unsound = {3}
SYMMETRY Symmetry
INVARIANTS IInv CompleteTiersAreLeft
PROPERTIES DecisionsStand
