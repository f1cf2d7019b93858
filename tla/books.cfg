SPECIFICATION Spec
CONSTANTS
  Txn = {t1, t2}
  Mitra = {t1, t2}
  MitraOf <- MCMitraOf
  Scope = {c1}
  Worker = {s1, s2}
  MaxDay = 3
SYMMETRY Symmetry
INVARIANTS IInv DayIsClosed
