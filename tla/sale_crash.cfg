SPECIFICATION Spec
CONSTANTS
  t1 = t1
  t2 = t2
  w1 = w1
  w2 = w2
  Txn = {t1, t2}
  Wallet = {w1, w2}
  WalletOf <- TwoWallets
  Session = {s1}
  Cron = {c1}
  NoSession = NoSession
  NoTxn = NoTxn
  Bucket = bucket
  Prepaid = {t1, t2}
  Inquiry = {t2}
  Routed = {t1, t2}
  Price = 2
  Cost = 1
  Funds = 3
  Deposit = 1
  Cap = 3
  Uses = {"create", "dispatch", "batch", "confirm", "reap", "refund", "freeze", "crash"}
  Lossy = TRUE
  StatusErrors = "failure"
  Dedup = TRUE
  MaxOrders = 1
SYMMETRY Symmetry
INVARIANTS MoneyFollowsState
PROPERTIES OnlyForward ImplementsEscrow
