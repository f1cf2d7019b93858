SPECIFICATION FairSpec
CONSTANTS
  Key = {n1, k1}
  Native = {n1}
  MaxId = 3
  BackfillAhead = FALSE
INVARIANTS IInv NothingLost SuccessIsDelivered
PROPERTIES LegacyArrives
