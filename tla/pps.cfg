SPECIFICATION FairSpec
CONSTANTS
  Notrx = {n1, n2}
  Session = {s1, s2}
  NoSession = NoSession
  HasUrl = {n1, n2}
  Uses = {"refund", "timeout"}
  Mapped = TRUE
  MaxAttempts = 2
  MaxFired = 6
  MaxOrders = 2
INVARIANTS SoldOnce SellInv
PROPERTY Reported
