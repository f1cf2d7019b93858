SPECIFICATION Spec
CONSTANTS
  Ref = {r1, r2}
  Payment = {r1, r2}
  Wallet = {w1}
  Worker = {s1, s2}
  RefOf <- MCRefOf
  LineRef <- MCRefOf
  WalletOf <- MCWalletOf
SYMMETRY Symmetry
INVARIANTS IInv AckedIsBooked
PROPERTIES DecisionStands
