SPECIFICATION FairSpec
CONSTANTS
  t1 = t1
  t2 = t2
  w1 = w1
  w2 = w2
  Txn = {t1, t2}
  Wallet = {w1, w2}
  WalletOf <- TwoWallets
  Session = {s1, s2}
  Cron = {c1}
  NoSession = NoSession
  NoTxn = NoTxn
  Bucket = bucket
  Prepaid = {t1, t2}
  Inquiry = {}
  Routed = {t1, t2}
  Price = 2
  Cost = 1
  Funds = 3
  Deposit = 1
  Cap = 0
  Uses = {"sell", "create", "dispatch", "reap", "refund", "retry"}
  Lossy = FALSE
  StatusErrors = "failure"
  Dedup = FALSE
  MaxOrders = 2
INVARIANTS OrderInv BalancesAddUp NeverGivenAway OrderedOnce DeliveredIsCharged
PROPERTY StaleIsResolved
