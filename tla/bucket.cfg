SPECIFICATION BucketSpec
CONSTANTS
  Bucket = {b1}
  Request = {r1}
  Session = {s1, s2}
  NoSession = NoSession
  NoBill = NoBill
  Amount = {1}
  Dpp = {2}
  Discount = {0, 3}
  MaxPairs = 2
  MaxMoves = 2
SYMMETRY Symmetry
CONSTRAINT Bounded
INVARIANTS BucketInv NeverNegative CreditedOnce TiesOut
PROPERTY ImplementsLedger
