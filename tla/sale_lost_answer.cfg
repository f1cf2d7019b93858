SPECIFICATION Spec
CONSTANTS
  t1 = t1
  t2 = t2
  w1 = w1
  w2 = w2
  Txn = {t1}
  Wallet = {w1}
  WalletOf <- OneWallet
  Session = {s1}
  Cron = {c1}
  NoSession = NoSession
  NoTxn = NoTxn
  Bucket = bucket
  Prepaid = {t1}
  Inquiry = {}
  Routed = {t1}
  Price = 2
  Cost = 1
  Funds = 3
  Deposit = 1
  Cap = 0
  Uses = {"sell"}
  Lossy = TRUE
  StatusErrors = "failure"
  Dedup = FALSE
  MaxOrders = 2
SYMMETRY Symmetry
INVARIANTS NeverGivenAway
CHECK_DEADLOCK FALSE
