SPECIFICATION Spec
CONSTANTS
  Notrx = {n1, n2}
  Session = {s1}
  NoSession = NoSession
  HasUrl = {n1, n2}
  Uses = {"crash", "timeout", "refund"}
  Mapped = TRUE
  MaxAttempts = 2
  MaxFired = 3
  MaxOrders = 3
SYMMETRY Symmetry
INVARIANTS VerdictStands SentIsHeard GivesUp
