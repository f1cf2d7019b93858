SPECIFICATION Spec
CONSTANTS
  Wallet = {w1}
  Session = {s1, s2, s3}
  NoSession = NoSession
  Amount = {1, 12}
  Limit = {0, 1}
  TaxRate = 11
  MaxMoves = 3
SYMMETRY Symmetry
INVARIANT IInv
PROPERTIES DebitCovered FrozenIsStill ImplementsLedger
