--------------------------- MODULE PpobSaleProofs ---------------------------
(***************************************************************************)
(* The sale engine, for any number of transactions, wallets and sessions.  *)
(*                                                                         *)
(* Three inductive invariants, each resting on the one before: what a      *)
(* transaction has moved follows from its state (IInv); wallets and bucket *)
(* add up to what the transactions took, and a transaction only goes       *)
(* forward (BooksInv); and the provider is asked once for a transaction    *)
(* and is never asked in vain (OrderInv).  The first two hold with crashes *)
(* and whatever the provider answers; the last one needs the instance to   *)
(* be Steady, and what it says of returned money that no answer is lost.   *)
(***************************************************************************)
EXTENDS PpobSale, FiniteSetTheorems, TLAPS

\* A fresh database has its type.
LEMMA NewType == NoRow \in TxnRow /\ NewDatabase \in Database /\ Idle \in Job
BY MoneyAssumption DEF NoRow, TxnRow, State, NewDatabase, Database, Idle, Job, Step, Kind

\* Writing a state changes that row's state and nothing else.
LEMMA MarkedRow ==
  ASSUME NEW d \in Database, NEW t \in Txn, NEW state \in State
  PROVE  /\ Marked(d, t, state) \in Database
         /\ Marked(d, t, state).txn[t] = [d.txn[t] EXCEPT !.state = state]
         /\ \A u \in Txn : u # t => Marked(d, t, state).txn[u] = d.txn[u]
<1>1. d.txn \in [Txn -> TxnRow]
  BY DEF Database
<1>2. [d.txn[t] EXCEPT !.state = state] \in TxnRow
  BY <1>1 DEF TxnRow
<1>3. Marked(d, t, state) = [d EXCEPT !.txn = [d.txn EXCEPT ![t] = [d.txn[t] EXCEPT !.state = state]]]
  BY <1>1 DEF Marked, Database
<1> QED BY <1>1, <1>2, <1>3 DEF Database

\* Debiting the wallet records the wallet move in the row and leaves the other rows alone.
LEMMA DebitWalletRow ==
  ASSUME NEW d \in Database, NEW t \in Txn
  PROVE  /\ DebitWallet(d, t) \in Database
         /\ DebitWallet(d, t).txn[t] = [d.txn[t] EXCEPT !.debited = TRUE]
         /\ \A u \in Txn : u # t => DebitWallet(d, t).txn[u] = d.txn[u]
<1> DEFINE w == WalletOf[t]
           row == [d.txn[t] EXCEPT !.debited = TRUE]
           purse == [d.wallet[w] EXCEPT !.balance = d.wallet[w].balance - Price]
<1>1. /\ d.txn \in [Txn -> TxnRow] /\ d.wallet \in [Wallet -> [balance: Int, frozen: BOOLEAN]]
      /\ w \in Wallet /\ Price \in Int
  BY RowAssumption, MoneyAssumption DEF Database
<1>2. row \in TxnRow
  BY <1>1 DEF TxnRow
<1>3. purse \in [balance: Int, frozen: BOOLEAN]
  <2>1. d.wallet[w] \in [balance: Int, frozen: BOOLEAN]
    BY <1>1
  <2> QED BY <1>1, <2>1
<1>4. DebitWallet(d, t) = [d EXCEPT !.wallet = [d.wallet EXCEPT ![w] = purse],
                     !.txn = [d.txn EXCEPT ![t] = row]]
  BY <1>1 DEF DebitWallet, Database
<1>5. /\ [d.txn EXCEPT ![t] = row] \in [Txn -> TxnRow]
      /\ [d.wallet EXCEPT ![w] = purse] \in [Wallet -> [balance: Int, frozen: BOOLEAN]]
  BY <1>1, <1>2, <1>3
<1>6. /\ DebitWallet(d, t) \in Database
      /\ DebitWallet(d, t).txn = [d.txn EXCEPT ![t] = row]
  BY <1>4, <1>5 DEF Database
<1> QED BY <1>1, <1>6

\* Debiting the bucket records the bucket move in the row and leaves the other rows alone.
LEMMA DebitBucketRow ==
  ASSUME NEW d \in Database, NEW t \in Txn
  PROVE  /\ DebitBucket(d, t) \in Database
         /\ DebitBucket(d, t).txn[t] = [d.txn[t] EXCEPT !.drawn = TRUE]
         /\ \A u \in Txn : u # t => DebitBucket(d, t).txn[u] = d.txn[u]
<1> DEFINE row == [d.txn[t] EXCEPT !.drawn = TRUE]
<1>1. d.txn \in [Txn -> TxnRow] /\ Cost \in Int /\ d.bucket \in Int
  BY MoneyAssumption DEF Database
<1>2. row \in TxnRow
  BY <1>1 DEF TxnRow
<1>3. DebitBucket(d, t) = [d EXCEPT !.bucket = d.bucket - Cost,
                     !.txn = [d.txn EXCEPT ![t] = row]]
  BY <1>1 DEF DebitBucket, Database
<1>4. [d.txn EXCEPT ![t] = row] \in [Txn -> TxnRow] /\ d.bucket - Cost \in Int
  BY <1>1, <1>2
<1>5. /\ DebitBucket(d, t) \in Database
      /\ DebitBucket(d, t).txn = [d.txn EXCEPT ![t] = row]
  BY <1>3, <1>4 DEF Database
<1> QED BY <1>1, <1>5

\* Crediting the wallet back records the refund in the row and leaves the other rows alone.
LEMMA CreditWalletRow ==
  ASSUME NEW d \in Database, NEW t \in Txn
  PROVE  /\ CreditWallet(d, t) \in Database
         /\ CreditWallet(d, t).txn[t] = [d.txn[t] EXCEPT !.refunded = TRUE]
         /\ \A u \in Txn : u # t => CreditWallet(d, t).txn[u] = d.txn[u]
<1> DEFINE w == WalletOf[t]
           row == [d.txn[t] EXCEPT !.refunded = TRUE]
           purse == [d.wallet[w] EXCEPT !.balance = d.wallet[w].balance + Price]
<1>1. /\ d.txn \in [Txn -> TxnRow] /\ d.wallet \in [Wallet -> [balance: Int, frozen: BOOLEAN]]
      /\ w \in Wallet /\ Price \in Int
  BY RowAssumption, MoneyAssumption DEF Database
<1>2. row \in TxnRow
  BY <1>1 DEF TxnRow
<1>3. purse \in [balance: Int, frozen: BOOLEAN]
  <2>1. d.wallet[w] \in [balance: Int, frozen: BOOLEAN]
    BY <1>1
  <2> QED BY <1>1, <2>1
<1>4. CreditWallet(d, t) = [d EXCEPT !.wallet = [d.wallet EXCEPT ![w] = purse],
                     !.txn = [d.txn EXCEPT ![t] = row]]
  BY <1>1 DEF CreditWallet, Database
<1>5. /\ [d.txn EXCEPT ![t] = row] \in [Txn -> TxnRow]
      /\ [d.wallet EXCEPT ![w] = purse] \in [Wallet -> [balance: Int, frozen: BOOLEAN]]
  BY <1>1, <1>2, <1>3
<1>6. /\ CreditWallet(d, t) \in Database
      /\ CreditWallet(d, t).txn = [d.txn EXCEPT ![t] = row]
  BY <1>4, <1>5 DEF Database
<1> QED BY <1>1, <1>6

\* Crediting the bucket back records it in the row and leaves the other rows alone.
LEMMA CreditBucketRow ==
  ASSUME NEW d \in Database, NEW t \in Txn
  PROVE  /\ CreditBucket(d, t) \in Database
         /\ CreditBucket(d, t).txn[t] = [d.txn[t] EXCEPT !.restored = TRUE]
         /\ \A u \in Txn : u # t => CreditBucket(d, t).txn[u] = d.txn[u]
<1> DEFINE row == [d.txn[t] EXCEPT !.restored = TRUE]
<1>1. d.txn \in [Txn -> TxnRow] /\ Cost \in Int /\ d.bucket \in Int
  BY MoneyAssumption DEF Database
<1>2. row \in TxnRow
  BY <1>1 DEF TxnRow
<1>3. CreditBucket(d, t) = [d EXCEPT !.bucket = d.bucket + Cost,
                     !.txn = [d.txn EXCEPT ![t] = row]]
  BY <1>1 DEF CreditBucket, Database
<1>4. [d.txn EXCEPT ![t] = row] \in [Txn -> TxnRow] /\ d.bucket + Cost \in Int
  BY <1>1, <1>2
<1>5. /\ CreditBucket(d, t) \in Database
      /\ CreditBucket(d, t).txn = [d.txn EXCEPT ![t] = row]
  BY <1>3, <1>4 DEF Database
<1> QED BY <1>1, <1>5

\* A refund of a sale in progress returns everything it took; a second refund does nothing.
LEMMA RefundRow ==
  ASSUME NEW d \in Database, NEW t \in Txn, RowMoney(t, d.txn[t]),
         d.txn[t].state \in {"in_progress", "failed", "timeout"}
  PROVE  /\ Refund(d, t) \in Database
         /\ \A u \in Txn : u # t => Refund(d, t).txn[u] = d.txn[u]
         /\ \A state \in {"failed", "timeout", "refunded"} :
              RowMoney(t, [Refund(d, t).txn[t] EXCEPT !.state = state])
<1> DEFINE row == d.txn[t]
           credited == CreditWallet(d, t)
<1>1. row \in TxnRow
  BY DEF Database
<1>2. CASE row.state = "in_progress"
  <2>1. /\ row.debited /\ ~row.refunded /\ ~row.restored
        /\ row.drawn = (t \in Prepaid)
    BY <1>2 DEF RowMoney
  <2>2. /\ credited \in Database
        /\ credited.txn[t] = [row EXCEPT !.refunded = TRUE]
        /\ \A u \in Txn : u # t => credited.txn[u] = d.txn[u]
    BY CreditWalletRow
  <2>3. CASE row.drawn
    <3>1. Refund(d, t) = CreditBucket(credited, t)
      BY <2>1, <2>3 DEF Refund
    <3>2. /\ CreditBucket(credited, t) \in Database
          /\ CreditBucket(credited, t).txn[t] = [credited.txn[t] EXCEPT !.restored = TRUE]
          /\ \A u \in Txn : u # t => CreditBucket(credited, t).txn[u] = credited.txn[u]
      BY <2>2, CreditBucketRow
    <3>3. Refund(d, t).txn[t] = [row EXCEPT !.refunded = TRUE, !.restored = TRUE]
      BY <3>1, <3>2, <2>2
    <3>4. \A state \in {"failed", "timeout", "refunded"} :
            RowMoney(t, [Refund(d, t).txn[t] EXCEPT !.state = state])
      BY <1>1, <2>1, <2>3, <3>3 DEF RowMoney, TxnRow
    <3> QED BY <2>2, <3>1, <3>2, <3>4
  <2>4. CASE ~row.drawn
    <3>1. Refund(d, t) = credited
      BY <2>1, <2>4 DEF Refund
    <3>2. \A state \in {"failed", "timeout", "refunded"} :
            RowMoney(t, [credited.txn[t] EXCEPT !.state = state])
      BY <1>1, <2>1, <2>2, <2>4 DEF RowMoney, TxnRow
    <3> QED BY <2>2, <3>1, <3>2
  <2> QED BY <2>3, <2>4
<1>3. CASE row.state \in {"failed", "timeout"}
  <2>1. row.debited /\ row.refunded /\ row.restored = row.drawn /\ row.drawn = (t \in Prepaid)
    BY <1>3 DEF RowMoney
  <2>2. Refund(d, t) = d
    BY <2>1 DEF Refund
  <2>3. \A state \in {"failed", "timeout", "refunded"} : RowMoney(t, [row EXCEPT !.state = state])
    BY <1>1, <2>1 DEF RowMoney, TxnRow
  <2> QED BY <2>2, <2>3
<1> QED BY <1>2, <1>3
-----------------------------------------------------------------------------
\* A session that moves on to a job and a database that agree keeps the invariant.
LEMMA SessionStep ==
  ASSUME IInv, NEW s \in Worker, NEW j \in Job, NEW d \in Database, SessionOK(j, d),
         job' = [job EXCEPT ![s] = j], view' = [view EXCEPT ![s] = d], db' = db,
         remote' \in [Txn -> Orders],
         holder' \in [Row -> Worker \cup {NoSession}],
         written' \in [Worker -> SUBSET Txn],
         missed' \in [Worker -> SUBSET (Row \cup Txn)]
  PROVE  IInv'
<1>1. TypeOK'
  BY DEF IInv, TypeOK
<1>2. MoneyFollowsState'
  BY DEF IInv, MoneyFollowsState
<1>3. ASSUME NEW z \in Worker PROVE SessionOK(job'[z], view'[z])
  <2>1. CASE z = s
    BY <2>1 DEF IInv, TypeOK
  <2>2. CASE z # s
    BY <2>2 DEF IInv, TypeOK
  <2> QED BY <2>1, <2>2
<1> QED BY <1>1, <1>2, <1>3 DEF IInv

\* A statement on one transaction or wallet that leaves the rows consistent keeps it too.
LEMMA UpdateStep ==
  ASSUME IInv, NEW d \in Database, NEW rows \in SUBSET (Row \cup Txn),
         \A t \in Txn : RowMoney(t, d.txn[t]), Update(d, rows)
  PROVE  IInv'
<1>1. TypeOK'
  BY DEF IInv, TypeOK, Update
<1>2. MoneyFollowsState'
  BY DEF Update, MoneyFollowsState
<1>3. \A z \in Worker : SessionOK(job'[z], view'[z])
  BY DEF IInv, Update
<1> QED BY <1>1, <1>2, <1>3 DEF IInv

\* Marking a transaction that is consistent in its new state keeps every row consistent.
LEMMA MarkedMoney ==
  ASSUME NEW d \in Database, NEW t \in Txn, NEW state \in State,
         RowMoney(t, [d.txn[t] EXCEPT !.state = state]),
         \A u \in Txn : u # t => RowMoney(u, d.txn[u])
  PROVE  /\ Marked(d, t, state) \in Database
         /\ \A u \in Txn : RowMoney(u, Marked(d, t, state).txn[u])
         /\ \A u \in Txn : u # t => Marked(d, t, state).txn[u] = d.txn[u]
         /\ Marked(d, t, state).txn[t].state = state
<1>1. Marked(d, t, state).txn[t] = [d.txn[t] EXCEPT !.state = state]
  BY MarkedRow
<1>2. d.txn[t] \in TxnRow
  BY DEF Database
<1> QED BY <1>1, <1>2, MarkedRow DEF TxnRow

\* The initial state satisfies the invariant.
LEMMA InitIInv == Init => IInv
<1> SUFFICES ASSUME Init PROVE IInv
  OBVIOUS
<1>1. TypeOK
  BY NewType DEF Init, TypeOK, Orders, NoOrders
<1>2. \A t \in Txn : NewDatabase.txn[t] = NoRow
  BY DEF NewDatabase
<1>3. \A t \in Txn : RowMoney(t, NoRow)
  BY DEF RowMoney, NoRow
<1>4. MoneyFollowsState
  BY <1>2, <1>3 DEF Init, MoneyFollowsState
<1>5. SessionOK(Idle, NewDatabase)
  BY <1>2, <1>3 DEF SessionOK, Idle
<1> QED BY <1>1, <1>4, <1>5 DEF Init, IInv

\* Facts about a session that IInv gives and every step uses.
LEMMA SessionFacts ==
  ASSUME IInv, NEW s \in Worker
  PROVE  /\ job[s] \in Job /\ view[s] \in Database /\ SessionOK(job[s], view[s])
         /\ db \in Database /\ \A t \in Txn : RowMoney(t, db.txn[t])
         /\ \A t \in Txn : view[s].txn[t] \in TxnRow /\ db.txn[t] \in TxnRow
<1>1. job[s] \in Job /\ view[s] \in Database /\ db \in Database
  BY DEF IInv, TypeOK
<1> QED BY <1>1 DEF IInv, MoneyFollowsState, Database

\* Opening a session on a consistent database keeps the invariant.
LEMMA BeginStep ==
  ASSUME IInv, NEW s \in Worker, NEW kind \in Kind, NEW todo \in SUBSET Txn,
         NEW d \in Database, \A t \in Txn : RowMoney(t, d.txn[t]),
         kind = "reap" => \A t \in todo : d.txn[t].state = "in_progress",
         Begin(s, kind, todo, d), written' \in [Worker -> SUBSET Txn]
  PROVE  IInv'
<1> DEFINE j == [step |-> "next", kind |-> kind, txn |-> NoTxn, todo |-> todo]
<1>1. j \in Job
  BY DEF Job, Step
<1>2. SessionOK(j, d)
  BY DEF SessionOK
<1>3. /\ job' = [job EXCEPT ![s] = j] /\ view' = [view EXCEPT ![s] = d]
      /\ UNCHANGED <<db, remote, holder, missed>>
  BY DEF Begin
<1>4. /\ remote' \in [Txn -> Orders] /\ holder' \in [Row -> Worker \cup {NoSession}]
      /\ missed' \in [Worker -> SUBSET (Row \cup Txn)]
  BY <1>3 DEF IInv, TypeOK
<1> HIDE DEF j
<1> QED BY <1>1, <1>2, <1>3, <1>4, SessionStep

\* Opening a session, whichever request or cron it is, keeps the invariant.
LEMMA BeginKeeps ==
  ASSUME IInv, NEW s \in Worker,
         \/ \E t \in Txn : BeginSell(s, t)
         \/ \E todo \in SUBSET Txn \ {{}} : BeginDispatch(s, todo) \/ BeginReap(s, todo)
  PROVE  IInv'
<1>1. ASSUME NEW t \in Txn, BeginSell(s, t) PROVE IInv'
  <2>1. Begin(s, "dispatch", {t}, Marked(db, t, "pending")) /\ db.txn[t].state = "none"
    BY <1>1 DEF BeginSell
  <2>2. RowMoney(t, [db.txn[t] EXCEPT !.state = "pending"])
    <3>1. db.txn[t] \in TxnRow /\ RowMoney(t, db.txn[t])
      BY SessionFacts
    <3>2. ~db.txn[t].debited /\ ~db.txn[t].drawn /\ ~db.txn[t].refunded /\ ~db.txn[t].restored
      BY <2>1, <3>1 DEF RowMoney
    <3> QED BY <3>1, <3>2 DEF RowMoney, TxnRow
  <2>3. /\ Marked(db, t, "pending") \in Database
        /\ \A u \in Txn : RowMoney(u, Marked(db, t, "pending").txn[u])
    BY <2>2, SessionFacts, MarkedMoney DEF State
  <2>4. written' \in [Worker -> SUBSET Txn]
    BY <1>1 DEF BeginSell, IInv, TypeOK
  <2>5. {t} \in SUBSET Txn /\ "dispatch" \in Kind
    BY DEF Kind
  <2> QED BY <2>1, <2>3, <2>4, <2>5, BeginStep
<1>2. ASSUME NEW todo \in SUBSET Txn, BeginDispatch(s, todo) PROVE IInv'
  <2>1. Begin(s, "dispatch", todo, db) /\ written' \in [Worker -> SUBSET Txn]
    BY <1>2 DEF BeginDispatch, IInv, TypeOK
  <2> QED BY <2>1, SessionFacts, BeginStep DEF Kind
<1>3. ASSUME NEW todo \in SUBSET Txn, BeginReap(s, todo) PROVE IInv'
  <2>1. /\ Begin(s, "reap", todo, db) /\ written' \in [Worker -> SUBSET Txn]
        /\ \A t \in todo : db.txn[t].state = "in_progress"
    BY <1>3 DEF BeginReap, IInv, TypeOK
  <2> QED BY <2>1, SessionFacts, BeginStep DEF Kind
<1> QED BY <1>1, <1>2, <1>3

\* Debiting the wallet leaves the transaction midway between its two debits.
LEMMA DispatchWalletKeeps ==
  ASSUME IInv, NEW s \in Worker, NEW t \in Txn, DispatchWallet(s, t)
  PROVE  IInv'
<1> DEFINE j == [job[s] EXCEPT !.step = "bucket", !.txn = t, !.todo = @ \ {t}]
           d == DebitWallet(view[s], t)
<1>1. /\ job[s] \in Job /\ view[s] \in Database /\ SessionOK(job[s], view[s])
      /\ job[s].step = "next" /\ job[s].kind = "dispatch"
      /\ view[s].txn[t].state \in {"pending", "inquiry_ok"}
  BY SessionFacts DEF DispatchWallet, Dispatchable
<1>2. j \in Job /\ j.step = "bucket" /\ j.txn = t /\ j.kind = "dispatch"
  BY <1>1 DEF Job, Step, Kind
<1>3. /\ d \in Database /\ d.txn[t] = [view[s].txn[t] EXCEPT !.debited = TRUE]
      /\ \A u \in Txn : u # t => d.txn[u] = view[s].txn[u]
  BY <1>1, DebitWalletRow
<1>4. \A u \in Txn : RowMoney(u, view[s].txn[u])
  BY <1>1 DEF SessionOK
<1>5. Midway(d.txn[t])
  <2>1. ~view[s].txn[t].drawn /\ ~view[s].txn[t].refunded /\ ~view[s].txn[t].restored
    BY <1>1, <1>4 DEF RowMoney
  <2>2. view[s].txn[t] \in TxnRow
    BY SessionFacts
  <2> QED BY <1>3, <2>1, <2>2 DEF Midway, TxnRow
<1> HIDE DEF d, j
<1>6. SessionOK(j, d)
  BY <1>2, <1>3, <1>4, <1>5 DEF SessionOK
<1>7. job' = [job EXCEPT ![s] = j] /\ view' = [view EXCEPT ![s] = d]
  BY DEF d, j, DispatchWallet, IInv, TypeOK
<1>8. WalletOf[t] \in Row
  BY RowAssumption DEF Row
<1>9. /\ remote' \in [Txn -> Orders] /\ holder' \in [Row -> Worker \cup {NoSession}]
      /\ written' \in [Worker -> SUBSET Txn] /\ missed' \in [Worker -> SUBSET (Row \cup Txn)]
      /\ db' = db
  BY <1>8 DEF DispatchWallet, IInv, TypeOK
<1> QED BY <1>2, <1>3, <1>6, <1>7, <1>9, SessionStep

\* Debiting the bucket, or not when the provider is not prepaid, completes the sale's money.
LEMMA DispatchBucketKeeps ==
  ASSUME IInv, NEW s \in Worker, DispatchBucket(s)
  PROVE  IInv'
<1> DEFINE t == job[s].txn
           j == [step |-> "pay", kind |-> "dispatch", txn |-> t, todo |-> job[s].todo]
           d0 == IF t \in Prepaid THEN DebitBucket(view[s], t) ELSE view[s]
           d == Marked(d0, t, "in_progress")
<1>1. /\ job[s] \in Job /\ view[s] \in Database /\ SessionOK(job[s], view[s])
      /\ job[s].step = "bucket"
  BY SessionFacts DEF DispatchBucket
<1>2. /\ t \in Txn /\ job[s].kind = "dispatch" /\ Midway(view[s].txn[t])
      /\ \A u \in Txn : u # t => RowMoney(u, view[s].txn[u])
  BY <1>1 DEF SessionOK
<1>3. j \in Job
  BY <1>1, <1>2 DEF Job, Step, Kind
<1>4. /\ d0 \in Database
      /\ d0.txn[t] = [view[s].txn[t] EXCEPT !.drawn = (t \in Prepaid)]
      /\ \A u \in Txn : u # t => d0.txn[u] = view[s].txn[u]
  <2>1. view[s].txn[t] \in TxnRow
    BY <1>2, SessionFacts
  <2>2. CASE t \in Prepaid
    <3>1. d0 = DebitBucket(view[s], t) /\ (t \in Prepaid) = TRUE
      BY <2>2
    <3> QED BY <1>1, <1>2, <3>1, DebitBucketRow
  <2>3. CASE t \notin Prepaid
    <3>1. view[s].txn[t] = [view[s].txn[t] EXCEPT !.drawn = FALSE]
      BY <1>2, <2>1 DEF Midway, TxnRow
    <3>2. d0 = view[s] /\ (t \in Prepaid) = FALSE
      BY <2>3
    <3> QED BY <1>1, <3>1, <3>2
  <2> HIDE DEF d0
  <2> QED BY <2>2, <2>3
<1>5. RowMoney(t, [d0.txn[t] EXCEPT !.state = "in_progress"])
  <2>1. view[s].txn[t] \in TxnRow
    BY <1>2, SessionFacts
  <2> QED BY <1>2, <1>4, <2>1 DEF Midway, RowMoney, TxnRow
<1>6. /\ d \in Database /\ \A u \in Txn : RowMoney(u, d.txn[u])
      /\ d.txn[t].state = "in_progress"
  <2> HIDE DEF d0
  <2>1. \A u \in Txn : u # t => RowMoney(u, d0.txn[u])
    BY <1>2, <1>4
  <2>2. "in_progress" \in State
    BY DEF State
  <2>3. t \in Txn /\ d0 \in Database
    BY <1>2, <1>4
  <2> HIDE DEF t
  <2> QED BY <1>5, <2>1, <2>2, <2>3, MarkedMoney
<1>7. SessionOK(j, d)
  <2> HIDE DEF d
  <2> QED BY <1>2, <1>6 DEF SessionOK
<1>8. job' = [job EXCEPT ![s] = j] /\ view' = [view EXCEPT ![s] = d]
  <2>1. [job[s] EXCEPT !.step = "pay"] = j
    BY <1>1, <1>2 DEF Job
  <2>2. job' = [job EXCEPT ![s] = j]
    BY <2>1 DEF DispatchBucket, IInv, TypeOK
  <2>3. view' = [view EXCEPT ![s] = d]
    BY DEF DispatchBucket
  <2> QED BY <2>2, <2>3
<1>9. /\ remote' \in [Txn -> Orders] /\ holder' \in [Row -> Worker \cup {NoSession}]
      /\ written' \in [Worker -> SUBSET Txn] /\ missed' \in [Worker -> SUBSET (Row \cup Txn)]
      /\ db' = db
  <2>1. holder' = holder \/ holder' = [holder EXCEPT ![Bucket] = s]
    BY DEF DispatchBucket
  <2>2. holder' \in [Row -> Worker \cup {NoSession}]
    BY <2>1 DEF Row, IInv, TypeOK
  <2> QED BY <2>2 DEF DispatchBucket, IInv, TypeOK
<1> HIDE DEF j, d
<1> QED BY <1>3, <1>6, <1>7, <1>8, <1>9, SessionStep

\* The provider's orders keep their type, whatever it answers and whatever gets lost.
LEMMA OrdersType ==
  ASSUME NEW o \in Orders
  PROVE  /\ [o EXCEPT !.pending = @ + 1] \in Orders
         /\ [o EXCEPT !.delivered = @ + 1] \in Orders
         /\ [o EXCEPT !.rejected = @ + 1] \in Orders
BY DEF Orders

\* An answer to pay() or inquiry() is one of the three verdicts, with well-typed orders.
LEMMA OutcomeType ==
  ASSUME NEW o \in Orders, NEW outcome \in PayOutcomes(o) \cup InquiryOutcomes(o)
  PROVE  outcome[1] \in Orders /\ outcome[2] \in {"yes", "unsettled", "no"}
<1>1. Verdicts(o) \subseteq {"yes", "unsettled", "no"}
  BY DEF Verdicts
<1>2. CASE outcome \in InquiryOutcomes(o)
  BY <1>2 DEF InquiryOutcomes
<1>3. CASE outcome \in PayOutcomes(o)
  <2> DEFINE taken == IF Dedup /\ Total(o) > 0
                      THEN {<<o, v>> : v \in Verdicts(o)}
                      ELSE {<<[o EXCEPT !.pending = @ + 1], "unsettled">>,
                            <<[o EXCEPT !.delivered = @ + 1], "yes">>,
                            <<[o EXCEPT !.rejected = @ + 1], "no">>}
  <2>1. \A p \in taken : p[1] \in Orders /\ p[2] \in {"yes", "unsettled", "no"}
    <3>1. CASE Dedup /\ Total(o) > 0
      BY <1>1, <3>1
    <3>2. CASE ~(Dedup /\ Total(o) > 0)
      <4> DEFINE a == [o EXCEPT !.pending = @ + 1]
                 b == [o EXCEPT !.delivered = @ + 1]
                 c == [o EXCEPT !.rejected = @ + 1]
      <4>1. taken = {<<a, "unsettled">>, <<b, "yes">>, <<c, "no">>}
        BY <3>2
      <4>2. a \in Orders /\ b \in Orders /\ c \in Orders
        BY OrdersType
      <4> HIDE DEF taken, a, b, c
      <4> QED BY <4>1, <4>2
    <3> QED BY <3>1, <3>2
  <2>2. \/ outcome \in taken \/ outcome \in {<<p[1], "no">> : p \in taken}
        \/ outcome = <<o, "no">>
    BY <1>3 DEF PayOutcomes
  <2> HIDE DEF taken
  <2> QED BY <2>1, <2>2
<1> QED BY <1>2, <1>3

\* Every verdict on a sale in progress leaves it consistent: charged or given back.
LEMMA ResolvedMoney ==
  ASSUME NEW d \in Database, NEW t \in Txn, NEW verdict \in {"yes", "unsettled", "no"},
         \A u \in Txn : RowMoney(u, d.txn[u]), d.txn[t].state = "in_progress"
  PROVE  /\ Resolved(d, t, verdict) \in Database
         /\ \A u \in Txn : RowMoney(u, Resolved(d, t, verdict).txn[u])
<1>1. CASE verdict = "yes"
  <2>1. d.txn[t] \in TxnRow /\ RowMoney(t, d.txn[t])
    BY DEF Database
  <2>2. /\ d.txn[t].debited /\ d.txn[t].drawn = (t \in Prepaid)
        /\ ~d.txn[t].refunded /\ ~d.txn[t].restored
    BY <2>1 DEF RowMoney
  <2>3. RowMoney(t, [d.txn[t] EXCEPT !.state = "success"])
    BY <2>1, <2>2 DEF RowMoney, TxnRow
  <2>4. Resolved(d, t, verdict) = Marked(d, t, "success")
    BY <1>1 DEF Resolved
  <2>5. /\ Marked(d, t, "success") \in Database
        /\ \A u \in Txn : RowMoney(u, Marked(d, t, "success").txn[u])
    BY <2>3, MarkedMoney DEF State
  <2> QED BY <2>4, <2>5
<1>2. CASE verdict = "unsettled"
  <2>1. Resolved(d, t, verdict) = d
    BY <1>2 DEF Resolved
  <2> QED BY <2>1
<1>3. CASE verdict = "no"
  <2>1. Resolved(d, t, verdict) = Marked(Refund(d, t), t, "failed")
    BY <1>3 DEF Resolved
  <2>2. /\ Refund(d, t) \in Database
        /\ \A u \in Txn : u # t => RowMoney(u, Refund(d, t).txn[u])
        /\ RowMoney(t, [Refund(d, t).txn[t] EXCEPT !.state = "failed"])
    BY RefundRow
  <2>3. /\ Marked(Refund(d, t), t, "failed") \in Database
        /\ \A u \in Txn : RowMoney(u, Marked(Refund(d, t), t, "failed").txn[u])
    BY <2>2, MarkedMoney DEF State
  <2> QED BY <2>1, <2>3
<1> QED BY <1>1, <1>2, <1>3

\* The call to the provider settles or refunds the sale, or leaves it in progress.
LEMMA DispatchPayKeeps ==
  ASSUME IInv, NEW s \in Worker, DispatchPay(s)
  PROVE  IInv'
<1> DEFINE t == job[s].txn
           j == [job[s] EXCEPT !.step = "next", !.txn = NoTxn]
<1>1. /\ job[s] \in Job /\ view[s] \in Database /\ SessionOK(job[s], view[s])
      /\ job[s].step = "pay"
  BY SessionFacts DEF DispatchPay
<1>2. /\ t \in Txn /\ job[s].kind = "dispatch" /\ view[s].txn[t].state = "in_progress"
      /\ \A u \in Txn : RowMoney(u, view[s].txn[u])
  BY <1>1 DEF SessionOK
<1>3. remote[t] \in Orders
  BY <1>2 DEF IInv, TypeOK
<1>4. PICK outcome \in PayOutcomes(remote[t]) \cup InquiryOutcomes(remote[t]) :
        /\ remote' = [remote EXCEPT ![t] = outcome[1]]
        /\ view' = [view EXCEPT ![s] = Resolved(view[s], t, outcome[2])]
  BY DEF DispatchPay
<1>5. outcome[1] \in Orders /\ outcome[2] \in {"yes", "unsettled", "no"}
  BY <1>3, OutcomeType
<1> DEFINE d == Resolved(view[s], t, outcome[2])
<1>6. d \in Database /\ \A u \in Txn : RowMoney(u, d.txn[u])
  BY <1>1, <1>2, <1>5, ResolvedMoney
<1>7. j \in Job /\ j.step = "next" /\ j.txn = NoTxn /\ j.kind = "dispatch"
  BY <1>1, <1>2 DEF Job, Step
<1>8. /\ remote' \in [Txn -> Orders] /\ holder' \in [Row -> Worker \cup {NoSession}]
      /\ written' \in [Worker -> SUBSET Txn] /\ missed' \in [Worker -> SUBSET (Row \cup Txn)]
      /\ db' = db
  BY <1>2, <1>4, <1>5 DEF DispatchPay, IInv, TypeOK
<1>9. job' = [job EXCEPT ![s] = j]
  BY DEF DispatchPay, IInv, TypeOK
<1>10. view' = [view EXCEPT ![s] = d]
  BY <1>4
<1> HIDE DEF j, d
<1>11. SessionOK(j, d)
  BY <1>6, <1>7 DEF SessionOK
<1> QED BY <1>6, <1>7, <1>8, <1>9, <1>10, <1>11, SessionStep

\* The reaper leaves a transaction alone, charges it for good or gives it back whole.
LEMMA ReapKeeps ==
  ASSUME IInv, NEW s \in Worker, NEW t \in Txn,
         ReapLeave(s, t) \/ ReapSuccess(s, t) \/ ReapRefund(s, t)
  PROVE  IInv'
<1> DEFINE j == [job[s] EXCEPT !.todo = @ \ {t}]
<1>1. /\ job[s] \in Job /\ view[s] \in Database /\ SessionOK(job[s], view[s])
      /\ job[s].step = "next" /\ job[s].kind = "reap" /\ t \in job[s].todo
  BY SessionFacts DEF ReapLeave, ReapSuccess, ReapRefund
<1>2. /\ \A u \in Txn : RowMoney(u, view[s].txn[u])
      /\ \A u \in job[s].todo : view[s].txn[u].state = "in_progress"
      /\ job[s].txn = NoTxn
  BY <1>1 DEF SessionOK
<1>3. /\ j \in Job /\ j.step = "next" /\ j.kind = "reap" /\ j.txn = NoTxn
      /\ j.todo = job[s].todo \ {t} /\ j.todo \subseteq Txn
  BY <1>1, <1>2 DEF Job
<1>4. /\ job' = [job EXCEPT ![s] = j] /\ remote' = remote /\ db' = db /\ missed' = missed
  BY DEF ReapLeave, ReapSuccess, ReapRefund, IInv, TypeOK
<1>5. written' \in [Worker -> SUBSET Txn]
  BY DEF ReapLeave, ReapSuccess, ReapRefund, IInv, TypeOK
<1>6. holder' \in [Row -> Worker \cup {NoSession}]
  <2>1. holder' = holder \/ holder' = [x \in Row |-> IF x \in RefundRows(t) THEN s ELSE holder[x]]
    BY DEF ReapLeave, ReapSuccess, ReapRefund
  <2> QED BY <2>1 DEF IInv, TypeOK
<1>7. /\ remote' \in [Txn -> Orders] /\ missed' \in [Worker -> SUBSET (Row \cup Txn)]
  BY <1>4 DEF IInv, TypeOK
<1> HIDE DEF j
<1>8. ASSUME NEW d \in Database, view' = [view EXCEPT ![s] = d],
             \A u \in Txn : RowMoney(u, d.txn[u]),
             \A u \in j.todo : d.txn[u].state = "in_progress"
      PROVE  IInv'
  <2>1. SessionOK(j, d)
    BY <1>3, <1>8 DEF SessionOK
  <2> QED BY <1>3, <1>4, <1>5, <1>6, <1>7, <1>8, <2>1, SessionStep
<1>9. CASE ReapLeave(s, t)
  <2>1. view' = [view EXCEPT ![s] = view[s]]
    BY <1>9 DEF ReapLeave, IInv, TypeOK
  <2> QED BY <1>1, <1>2, <1>3, <1>8, <2>1
<1>10. CASE ReapSuccess(s, t)
  <2> DEFINE d == Marked(view[s], t, "success")
  <2>1. view[s].txn[t] \in TxnRow /\ RowMoney(t, view[s].txn[t])
        /\ view[s].txn[t].state = "in_progress"
    BY <1>1, <1>2, SessionFacts
  <2>2. /\ view[s].txn[t].debited /\ view[s].txn[t].drawn = (t \in Prepaid)
        /\ ~view[s].txn[t].refunded /\ ~view[s].txn[t].restored
    BY <2>1 DEF RowMoney
  <2>3. RowMoney(t, [view[s].txn[t] EXCEPT !.state = "success"])
    BY <2>1, <2>2 DEF RowMoney, TxnRow
  <2>4. /\ d \in Database /\ \A u \in Txn : RowMoney(u, d.txn[u])
        /\ \A u \in Txn : u # t => d.txn[u] = view[s].txn[u]
    BY <1>1, <1>2, <2>3, MarkedMoney DEF State
  <2>5. view' = [view EXCEPT ![s] = d]
    BY <1>10 DEF ReapSuccess
  <2> HIDE DEF d
  <2> QED BY <1>2, <1>3, <1>8, <2>4, <2>5
<1>11. CASE ReapRefund(s, t)
  <2> DEFINE r == Refund(view[s], t)
             d == Marked(r, t, "timeout")
  <2>1. RowMoney(t, view[s].txn[t]) /\ view[s].txn[t].state = "in_progress"
    BY <1>1, <1>2
  <2>2. /\ r \in Database /\ \A u \in Txn : u # t => r.txn[u] = view[s].txn[u]
        /\ RowMoney(t, [r.txn[t] EXCEPT !.state = "timeout"])
    BY <1>1, <2>1, RefundRow
  <2>3. view' = [view EXCEPT ![s] = d]
    BY <1>11 DEF ReapRefund
  <2> HIDE DEF r
  <2>4. \A u \in Txn : u # t => RowMoney(u, r.txn[u])
    BY <1>2, <2>2
  <2>5. "timeout" \in State
    BY DEF State
  <2>6. /\ d \in Database /\ \A u \in Txn : RowMoney(u, d.txn[u])
        /\ \A u \in Txn : u # t => d.txn[u] = r.txn[u]
    BY <2>2, <2>4, <2>5, MarkedMoney
  <2> HIDE DEF d
  <2>7. \A u \in j.todo : d.txn[u].state = "in_progress"
    BY <1>2, <1>3, <2>2, <2>6
  <2> QED BY <1>8, <2>3, <2>6, <2>7
<1> QED BY <1>9, <1>10, <1>11

\* The end of a session, with its writes or without, leaves an idle session behind.
LEMMA ReleaseStep ==
  ASSUME IInv, NEW s \in Worker, Release(s), remote' = remote, db' \in Database,
         \A t \in Txn : RowMoney(t, db'.txn[t]),
         missed' \in [Worker -> SUBSET (Row \cup Txn)]
  PROVE  IInv'
<1>1. /\ job' = [job EXCEPT ![s] = Idle] /\ view' = [view EXCEPT ![s] = NewDatabase]
      /\ written' \in [Worker -> SUBSET Txn]
      /\ holder' \in [Row -> Worker \cup {NoSession}]
  BY DEF Release, IInv, TypeOK
<1>2. TypeOK'
  BY <1>1, NewType DEF IInv, TypeOK
<1>3. MoneyFollowsState'
  BY DEF MoneyFollowsState
<1>4. SessionOK(Idle, NewDatabase)
  <2>1. \A t \in Txn : NewDatabase.txn[t] = NoRow
    BY DEF NewDatabase
  <2>2. \A t \in Txn : RowMoney(t, NoRow)
    BY DEF RowMoney, NoRow
  <2> QED BY <2>1, <2>2 DEF SessionOK, Idle
<1>5. ASSUME NEW z \in Worker PROVE SessionOK(job'[z], view'[z])
  <2>1. CASE z = s
    BY <1>1, <1>4, <2>1 DEF IInv, TypeOK
  <2>2. CASE z # s
    BY <1>1, <2>2 DEF IInv, TypeOK
  <2> QED BY <2>1, <2>2
<1> QED BY <1>2, <1>3, <1>5 DEF IInv

\* A commit publishes rows its session left consistent.
LEMMA CommitKeeps ==
  ASSUME IInv, NEW s \in Worker, Commit(s)
  PROVE  IInv'
<1> DEFINE txn == [t \in Txn |-> IF t \in written[s] THEN view[s].txn[t] ELSE db.txn[t]]
           wallet == [w \in Wallet |-> IF holder[w] = s
                                       THEN [db.wallet[w] EXCEPT !.balance = view[s].wallet[w].balance]
                                       ELSE db.wallet[w]]
           bucket == IF holder[Bucket] = s THEN view[s].bucket ELSE db.bucket
<1>1. /\ view[s] \in Database /\ db \in Database /\ SessionOK(job[s], view[s])
      /\ job[s].step = "next" /\ \A t \in Txn : RowMoney(t, db.txn[t])
  BY SessionFacts DEF Commit
<1>2. db' = [txn |-> txn, wallet |-> wallet, bucket |-> bucket]
  BY DEF Commit
<1>3. txn \in [Txn -> TxnRow]
  BY <1>1 DEF Database
<1>4. wallet \in [Wallet -> [balance: Int, frozen: BOOLEAN]]
  <2> SUFFICES ASSUME NEW w \in Wallet
               PROVE  [db.wallet[w] EXCEPT !.balance = view[s].wallet[w].balance]
                        \in [balance: Int, frozen: BOOLEAN]
    BY <1>1 DEF Database
  <2>1. /\ db.wallet[w] \in [balance: Int, frozen: BOOLEAN]
        /\ view[s].wallet[w] \in [balance: Int, frozen: BOOLEAN]
    BY <1>1 DEF Database
  <2> QED BY <2>1
<1>5. bucket \in Int
  BY <1>1 DEF Database
<1>6. \A t \in Txn : RowMoney(t, txn[t])
  BY <1>1 DEF SessionOK
<1> HIDE DEF txn, wallet, bucket
<1>7. db' \in Database /\ \A t \in Txn : RowMoney(t, db'.txn[t])
  BY <1>2, <1>3, <1>4, <1>5, <1>6 DEF Database
<1>8. missed' \in [Worker -> SUBSET (Row \cup Txn)]
  <2>1. Held(s) \cup written[s] \subseteq Row \cup Txn
    BY DEF Held, IInv, TypeOK
  <2> QED BY <2>1 DEF Commit, Stale, IInv, TypeOK
<1>9. Release(s) /\ remote' = remote
  BY DEF Commit
<1> QED BY <1>7, <1>8, <1>9, ReleaseStep

\* A rollback changes nothing that is committed.
LEMMA RollbackKeeps ==
  ASSUME IInv, NEW s \in Worker, Rollback(s)
  PROVE  IInv'
<1>1. db' \in Database /\ \A t \in Txn : RowMoney(t, db'.txn[t])
  BY SessionFacts DEF Rollback
<1>2. missed' \in [Worker -> SUBSET (Row \cup Txn)]
  BY DEF Rollback, IInv, TypeOK
<1>3. Release(s) /\ remote' = remote
  BY DEF Rollback
<1> QED BY <1>1, <1>2, <1>3, ReleaseStep

\* Statements on one transaction or wallet, each in a transaction of its own.
LEMMA UpdatesKeep ==
  ASSUME IInv,
         \/ \E t \in Txn : Create(t) \/ ConfirmInquiry(t) \/ MarkRefunded(t)
         \/ \E t, clone \in Txn : Retry(t, clone)
         \/ \E w \in Wallet, frozen \in BOOLEAN : EditWallet(w, frozen)
  PROVE  IInv'
<1>0. /\ db \in Database /\ \A u \in Txn : RowMoney(u, db.txn[u])
      /\ \A u \in Txn : db.txn[u] \in TxnRow
  <2>1. db \in Database /\ \A u \in Txn : RowMoney(u, db.txn[u])
    BY DEF IInv, TypeOK, MoneyFollowsState
  <2> QED BY <2>1 DEF Database
<1>1. ASSUME NEW t \in Txn, NEW state \in State, NEW rows \in SUBSET (Row \cup Txn),
             NEW d \in Database, \A u \in Txn : u # t => d.txn[u] = db.txn[u],
             RowMoney(t, [d.txn[t] EXCEPT !.state = state]),
             Update(Marked(d, t, state), rows)
      PROVE  IInv'
  <2>1. \A u \in Txn : u # t => RowMoney(u, d.txn[u])
    BY <1>0, <1>1
  <2>2. /\ Marked(d, t, state) \in Database
        /\ \A u \in Txn : RowMoney(u, Marked(d, t, state).txn[u])
    BY <1>1, <2>1, MarkedMoney
  <2> QED BY <1>1, <2>2, UpdateStep
<1>2. ASSUME NEW t \in Txn, db.txn[t].state \in {"none", "pending"},
             NEW state \in {"pending", "inquiry_ok"}
      PROVE  RowMoney(t, [db.txn[t] EXCEPT !.state = state])
  <2>1. db.txn[t] \in TxnRow /\ RowMoney(t, db.txn[t])
    BY <1>0
  <2>2. ~db.txn[t].debited /\ ~db.txn[t].drawn /\ ~db.txn[t].refunded /\ ~db.txn[t].restored
    BY <1>2, <2>1 DEF RowMoney
  <2> QED BY <2>1, <2>2 DEF RowMoney, TxnRow
<1>3. ASSUME NEW t \in Txn, Create(t) PROVE IInv'
  <2>1. db.txn[t].state = "none" /\ Update(Marked(db, t, "pending"), {t})
    BY <1>3 DEF Create
  <2>2. "pending" \in State /\ {t} \in SUBSET (Row \cup Txn)
    BY DEF State
  <2>3. RowMoney(t, [db.txn[t] EXCEPT !.state = "pending"])
    BY <1>2, <2>1
  <2> QED BY <1>0, <1>1, <2>1, <2>2, <2>3
<1>4. ASSUME NEW t \in Txn, ConfirmInquiry(t) PROVE IInv'
  <2>1. db.txn[t].state = "pending" /\ Update(Marked(db, t, "inquiry_ok"), {t})
    BY <1>4 DEF ConfirmInquiry
  <2>2. "inquiry_ok" \in State /\ {t} \in SUBSET (Row \cup Txn)
    BY DEF State
  <2>3. RowMoney(t, [db.txn[t] EXCEPT !.state = "inquiry_ok"])
    BY <1>2, <2>1
  <2> QED BY <1>0, <1>1, <2>1, <2>2, <2>3
<1>5. ASSUME NEW t \in Txn, MarkRefunded(t) PROVE IInv'
  <2>1. PICK rows \in SUBSET (Row \cup Txn) :
          /\ Update(Marked(Refund(db, t), t, "refunded"), rows)
          /\ db.txn[t].state \in {"failed", "timeout"}
    <3>1. RefundRows(t) \cup {t} \subseteq Row \cup Txn
      BY RowAssumption DEF RefundRows, Row
    <3> QED BY <1>5, <3>1 DEF MarkRefunded
  <2>2. /\ Refund(db, t) \in Database /\ \A u \in Txn : u # t => Refund(db, t).txn[u] = db.txn[u]
        /\ RowMoney(t, [Refund(db, t).txn[t] EXCEPT !.state = "refunded"])
    BY <1>0, <2>1, RefundRow
  <2>3. "refunded" \in State
    BY DEF State
  <2> QED BY <1>1, <2>1, <2>2, <2>3
<1>6. ASSUME NEW t \in Txn, NEW clone \in Txn, Retry(t, clone) PROVE IInv'
  <2> DEFINE row == [NoRow EXCEPT !.state = "pending", !.origin = t]
             d == [db EXCEPT !.txn[clone] = row]
  <2>1. PICK rows \in SUBSET (Row \cup Txn) : Update(d, rows)
    BY <1>6 DEF Retry
  <2>2. row \in TxnRow /\ RowMoney(clone, row)
    BY DEF NoRow, TxnRow, State, RowMoney
  <2> HIDE DEF row
  <2>3. d \in Database /\ d.txn = [db.txn EXCEPT ![clone] = row]
    BY <1>0, <2>2 DEF Database
  <2>4. \A u \in Txn : RowMoney(u, d.txn[u])
    BY <1>0, <2>2, <2>3 DEF Database
  <2> HIDE DEF d
  <2> QED BY <2>1, <2>3, <2>4, UpdateStep
<1>7. ASSUME NEW w \in Wallet, NEW frozen \in BOOLEAN, EditWallet(w, frozen) PROVE IInv'
  <2> DEFINE d == [db EXCEPT !.wallet[w].frozen = frozen]
             purse == [db.wallet[w] EXCEPT !.frozen = frozen]
  <2>1. PICK rows \in SUBSET (Row \cup Txn) : Update(d, rows)
    BY <1>7 DEF EditWallet, Row
  <2>2. db.wallet \in [Wallet -> [balance: Int, frozen: BOOLEAN]]
    BY <1>0 DEF Database
  <2>3. db.wallet[w] \in [balance: Int, frozen: BOOLEAN]
    BY <2>2
  <2>4. purse \in [balance: Int, frozen: BOOLEAN]
    BY <2>3
  <2>5. d = [db EXCEPT !.wallet = [db.wallet EXCEPT ![w] = purse]]
    BY <1>0, <2>2 DEF Database
  <2>6. d \in Database /\ d.txn = db.txn
    BY <1>0, <2>2, <2>4, <2>5 DEF Database
  <2> HIDE DEF d
  <2>7. d \in Database /\ \A u \in Txn : RowMoney(u, d.txn[u])
    BY <1>0, <2>6
  <2> QED BY <2>1, <2>7, UpdateStep
<1> QED BY <1>3, <1>4, <1>5, <1>6, <1>7

\* The provider's decision touches its own orders only.
LEMMA SettleKeeps ==
  ASSUME IInv, NEW t \in Txn, Settle(t)
  PROVE  IInv'
<1>1. /\ remote[t] \in Orders /\ remote[t].pending - 1 \in Nat
      /\ remote[t].delivered + 1 \in Nat /\ remote[t].rejected + 1 \in Nat
  <2>1. remote[t] \in Orders /\ remote[t].pending > 0
    BY DEF IInv, TypeOK, Settle
  <2> QED BY <2>1 DEF Orders
<1>2. /\ [remote[t] EXCEPT !.pending = @ - 1, !.delivered = @ + 1] \in Orders
      /\ [remote[t] EXCEPT !.pending = @ - 1, !.rejected = @ + 1] \in Orders
  BY <1>1 DEF Orders
<1>3. \/ remote' = [remote EXCEPT ![t] = [remote[t] EXCEPT !.pending = @ - 1, !.delivered = @ + 1]]
      \/ remote' = [remote EXCEPT ![t] = [remote[t] EXCEPT !.pending = @ - 1, !.rejected = @ + 1]]
  BY DEF Settle, IInv, TypeOK
<1>4. remote' \in [Txn -> Orders]
  BY <1>2, <1>3 DEF IInv, TypeOK
<1>5. UNCHANGED <<db, holder, job, view, written, missed>>
  BY DEF Settle
<1>6. TypeOK' /\ MoneyFollowsState'
  BY <1>4, <1>5 DEF IInv, TypeOK, MoneyFollowsState
<1> QED BY <1>5, <1>6 DEF IInv

\* Every step keeps the invariant.
LEMMA NextIInv == IInv /\ [Next]_vars => IInv'
<1> SUFFICES ASSUME IInv, [Next]_vars PROVE IInv'
  OBVIOUS
<1>1. CASE UNCHANGED vars
  BY <1>1 DEF vars, IInv, TypeOK, MoneyFollowsState
<1>2. CASE \E s \in Session, t \in Txn : BeginSell(s, t) \/ DispatchWallet(s, t)
  BY <1>2, BeginKeeps, DispatchWalletKeeps DEF Worker
<1>3. CASE \E s \in Cron, t \in Txn : ReapLeave(s, t) \/ ReapSuccess(s, t) \/ ReapRefund(s, t)
  BY <1>3, ReapKeeps DEF Worker
<1>4. CASE \E s \in Session, todo \in SUBSET Txn \ {{}} : BeginDispatch(s, todo)
  BY <1>4, BeginKeeps DEF Worker
<1>5. CASE \E s \in Cron, todo \in SUBSET Txn \ {{}} : BeginReap(s, todo)
  BY <1>5, BeginKeeps DEF Worker
<1>6. CASE \E s \in Worker : DispatchBucket(s) \/ DispatchPay(s) \/ Commit(s) \/ Rollback(s)
  BY <1>6, DispatchBucketKeeps, DispatchPayKeeps, CommitKeeps, RollbackKeeps
<1>7. CASE \E t \in Txn : Settle(t) \/ Create(t) \/ ConfirmInquiry(t) \/ MarkRefunded(t)
  BY <1>7, SettleKeeps, UpdatesKeep
<1>8. CASE \E t, clone \in Txn : Retry(t, clone)
  BY <1>8, UpdatesKeep
<1>9. CASE \E w \in Wallet, frozen \in BOOLEAN : EditWallet(w, frozen)
  BY <1>9, UpdatesKeep
<1> QED BY <1>1, <1>2, <1>3, <1>4, <1>5, <1>6, <1>7, <1>8, <1>9 DEF Next

\* The inductive invariant holds in every reachable state of every instance.
THEOREM SpecIInv == Spec => []IInv
<1> QED BY InitIInv, NextIInv, PTL DEF Spec

\* Every variable keeps its type: the columns of the transaction rows, the balances, the
\* locks and the provider's orders.
THEOREM TypeCorrect == Spec => []TypeOK
<1>1. IInv => TypeOK
  BY DEF IInv
<1> QED BY <1>1, SpecIInv, PTL

\* What a committed transaction debited and refunded follows from its state: _dispatch_one,
\* _mark_failed, the reaper and action_mark_refunded never leave a sale half charged or
\* half refunded, and never refund one twice, for any number of concurrent sessions.
THEOREM MoneyMatches == Spec => []MoneyFollowsState
<1>1. IInv => MoneyFollowsState
  BY DEF IInv
<1> QED BY <1>1, SpecIInv, PTL
-----------------------------------------------------------------------------
\* The columns of a database, as the definitions that update it use them.
LEMMA Columns ==
  ASSUME NEW d \in Database
  PROVE  /\ d.txn \in [Txn -> TxnRow] /\ d.bucket \in Int
         /\ d.wallet \in [Wallet -> [balance: Int, frozen: BOOLEAN]]
         /\ \A w \in Wallet : d.wallet[w] \in [balance: Int, frozen: BOOLEAN]
         /\ \A t \in Txn : d.txn[t] \in TxnRow
BY DEF Database

\* Wallets and the bucket are rows of their own, and no transaction is one of them.
LEMMA Rows ==
  /\ Bucket \in Row /\ Bucket \notin Wallet /\ Row \cap Txn = {} /\ Wallet \subseteq Row
  /\ \A t \in Txn : WalletOf[t] \in Wallet /\ WalletOf[t] \in Row /\ WalletOf[t] # Bucket
  /\ \A t \in Txn : RefundRows(t) \subseteq Row
  /\ Worker = Session \cup Cron /\ NoSession \notin Worker
BY RowAssumption DEF Row, RefundRows, Worker

\* What marking, debiting and crediting do to each balance.
LEMMA MarkedBalance ==
  ASSUME NEW d \in Database, NEW t \in Txn, NEW state \in State, NEW x \in Row
  PROVE  Balance(Marked(d, t, state), x) = Balance(d, x)
BY Columns DEF Marked, Balance, Database

LEMMA DebitWalletBalance ==
  ASSUME NEW d \in Database, NEW t \in Txn, NEW x \in Row
  PROVE  Balance(DebitWallet(d, t), x) =
           IF x = WalletOf[t] THEN Balance(d, x) - Take(x) ELSE Balance(d, x)
<1> DEFINE w == WalletOf[t]
           purse == [d.wallet[w] EXCEPT !.balance = d.wallet[w].balance - Price]
<1>1. /\ DebitWallet(d, t).wallet = [d.wallet EXCEPT ![w] = purse]
      /\ DebitWallet(d, t).bucket = d.bucket
  BY Columns, Rows DEF DebitWallet, Database
<1>2. purse.balance = d.wallet[w].balance - Price
  BY Columns, Rows
<1> HIDE DEF purse
<1> QED BY <1>1, <1>2, Columns, Rows DEF Balance, Take, Row

LEMMA CreditWalletBalance ==
  ASSUME NEW d \in Database, NEW t \in Txn, NEW x \in Row
  PROVE  Balance(CreditWallet(d, t), x) =
           IF x = WalletOf[t] THEN Balance(d, x) + Take(x) ELSE Balance(d, x)
<1> DEFINE w == WalletOf[t]
           purse == [d.wallet[w] EXCEPT !.balance = d.wallet[w].balance + Price]
<1>1. /\ CreditWallet(d, t).wallet = [d.wallet EXCEPT ![w] = purse]
      /\ CreditWallet(d, t).bucket = d.bucket
  BY Columns, Rows DEF CreditWallet, Database
<1>2. purse.balance = d.wallet[w].balance + Price
  BY Columns, Rows
<1> HIDE DEF purse
<1> QED BY <1>1, <1>2, Columns, Rows DEF Balance, Take, Row

LEMMA BucketBalance ==
  ASSUME NEW d \in Database, NEW t \in Txn, NEW x \in Row
  PROVE  /\ Balance(DebitBucket(d, t), x) =
              IF x = Bucket THEN Balance(d, x) - Take(x) ELSE Balance(d, x)
         /\ Balance(CreditBucket(d, t), x) =
              IF x = Bucket THEN Balance(d, x) + Take(x) ELSE Balance(d, x)
<1>1. /\ DebitBucket(d, t).wallet = d.wallet /\ DebitBucket(d, t).bucket = d.bucket - Cost
      /\ CreditBucket(d, t).wallet = d.wallet /\ CreditBucket(d, t).bucket = d.bucket + Cost
  BY Columns DEF DebitBucket, CreditBucket, Database
<1> QED BY <1>1 DEF Balance, Take

\* A row whose columns of money are unchanged has taken what it had taken.
LEMMA SameTaken ==
  ASSUME NEW d, NEW e, NEW t \in Txn, NEW x \in Row,
         e.txn[t].debited = d.txn[t].debited, e.txn[t].refunded = d.txn[t].refunded,
         e.txn[t].drawn = d.txn[t].drawn, e.txn[t].restored = d.txn[t].restored
  PROVE  t \in Taken(e, x) <=> t \in Taken(d, x)
BY DEF Taken

LEMMA TakenIsTxn ==
  ASSUME NEW d, NEW x
  PROVE  Taken(d, x) \subseteq Txn /\ IsFiniteSet(Taken(d, x)) /\ Cardinality(Taken(d, x)) \in Nat
<1>1. Taken(d, x) \subseteq Txn
  BY DEF Taken
<1> QED BY <1>1, TableAssumption, FS_Subset, FS_CardinalityType

LEMMA MoneyType ==
  ASSUME NEW x \in Row
  PROVE  Opening(x) \in Nat /\ Take(x) \in Nat
BY MoneyAssumption DEF Opening, Take

\* A balance that has not moved adds up as before.
LEMMA SameAddsUp ==
  ASSUME NEW d, NEW e, NEW x \in Row, AddsUp(d, x), Balance(e, x) = Balance(d, x),
         \A t \in Txn : t \in Taken(e, x) <=> t \in Taken(d, x)
  PROVE  AddsUp(e, x)
<1>1. Taken(e, x) = Taken(d, x)
  BY TakenIsTxn
<1> QED BY <1>1 DEF AddsUp

\* One more sale takes from x, and there is enough.
LEMMA TakeAddsUp ==
  ASSUME NEW d, NEW e, NEW x \in Row, NEW t \in Txn, AddsUp(d, x),
         Balance(d, x) \in Int, Take(x) <= Balance(d, x),
         Balance(e, x) = Balance(d, x) - Take(x),
         t \notin Taken(d, x), t \in Taken(e, x),
         \A u \in Txn \ {t} : u \in Taken(e, x) <=> u \in Taken(d, x)
  PROVE  AddsUp(e, x)
<1>1. Taken(e, x) = Taken(d, x) \cup {t}
  BY TakenIsTxn
<1>2. Cardinality(Taken(e, x)) = Cardinality(Taken(d, x)) + 1
  BY <1>1, TakenIsTxn, FS_AddElement
<1> DEFINE n == Cardinality(Taken(d, x))
<1>3. n \in Nat /\ Take(x) \in Nat /\ Opening(x) \in Nat
  BY TakenIsTxn, MoneyType
<1>4. Balance(d, x) = Opening(x) - Take(x) * n
  BY DEF AddsUp
<1>5. Balance(e, x) = Opening(x) - Take(x) * (n + 1)
  <2> HIDE DEF n
  <2>1. \A k, m, p \in Nat : p - k * m - k = p - k * (m + 1)
    OBVIOUS
  <2> QED BY <1>3, <1>4, <2>1
<1>6. Balance(e, x) >= 0
  BY <1>3
<1> QED BY <1>2, <1>5, <1>6 DEF AddsUp

\* One sale gives back what it took from x.
LEMMA GiveAddsUp ==
  ASSUME NEW d, NEW e, NEW x \in Row, NEW t \in Txn, AddsUp(d, x),
         Balance(d, x) \in Int,
         Balance(e, x) = Balance(d, x) + Take(x),
         t \in Taken(d, x), t \notin Taken(e, x),
         \A u \in Txn \ {t} : u \in Taken(e, x) <=> u \in Taken(d, x)
  PROVE  AddsUp(e, x)
<1>1. Taken(e, x) = Taken(d, x) \ {t}
  BY TakenIsTxn
<1>2. Cardinality(Taken(e, x)) = Cardinality(Taken(d, x)) - 1
  BY <1>1, TakenIsTxn, FS_RemoveElement
<1> DEFINE n == Cardinality(Taken(d, x))
<1>3. n \in Nat /\ Take(x) \in Nat /\ Opening(x) \in Nat
  BY TakenIsTxn, MoneyType
<1>4. Balance(d, x) = Opening(x) - Take(x) * n /\ Balance(d, x) >= 0
  BY DEF AddsUp
<1>5. Balance(e, x) = Opening(x) - Take(x) * (n - 1)
  <2> HIDE DEF n
  <2>1. \A k, m, p \in Nat : p - k * m + k = p - k * (m - 1)
    OBVIOUS
  <2> QED BY <1>3, <1>4, <2>1
<1>6. Balance(e, x) >= 0
  BY <1>3, <1>4
<1> QED BY <1>2, <1>5, <1>6 DEF AddsUp

LEMMA BalanceType ==
  ASSUME NEW d \in Database, NEW x \in Row
  PROVE  Balance(d, x) \in Int
BY Columns DEF Balance, Row
\* A refund of a sale in progress gives back on each row exactly what it took there.
LEMMA RefundBooks ==
  ASSUME NEW d \in Database, NEW t \in Txn, RowMoney(t, d.txn[t]),
         d.txn[t].state = "in_progress"
  PROVE  /\ Refund(d, t) \in Database
         /\ \A u \in Txn : u # t => Refund(d, t).txn[u] = d.txn[u]
         /\ \A x \in RefundRows(t) : /\ t \in Taken(d, x) /\ t \notin Taken(Refund(d, t), x)
                                     /\ Balance(Refund(d, t), x) = Balance(d, x) + Take(x)
         /\ \A x \in Row \ RefundRows(t) :
              /\ t \in Taken(Refund(d, t), x) <=> t \in Taken(d, x)
              /\ Balance(Refund(d, t), x) = Balance(d, x)
<1> DEFINE row == d.txn[t]
           w == WalletOf[t]
           credited == CreditWallet(d, t)
<1>1. row \in TxnRow
  BY Columns
<1>2. row.debited /\ ~row.refunded /\ ~row.restored /\ row.drawn = (t \in Prepaid)
  BY DEF RowMoney
<1>3. /\ credited \in Database
      /\ credited.txn[t] = [row EXCEPT !.refunded = TRUE]
      /\ \A u \in Txn : u # t => credited.txn[u] = d.txn[u]
      /\ \A x \in Row : Balance(credited, x) = IF x = w THEN Balance(d, x) + Take(x) ELSE Balance(d, x)
  BY CreditWalletRow, CreditWalletBalance
<1> HIDE DEF credited
<1>4. CASE t \in Prepaid
  <2> DEFINE r == CreditBucket(credited, t)
  <2>1. Refund(d, t) = r /\ RefundRows(t) = {w, Bucket}
    BY <1>2, <1>4 DEF Refund, RefundRows, credited
  <2>2. /\ r \in Database
        /\ r.txn[t] = [credited.txn[t] EXCEPT !.restored = TRUE]
        /\ \A u \in Txn : u # t => r.txn[u] = credited.txn[u]
        /\ \A x \in Row : Balance(r, x) = IF x = Bucket THEN Balance(credited, x) + Take(x)
                                          ELSE Balance(credited, x)
    <3>1. \A x \in Row : Balance(CreditBucket(credited, t), x) =
                          IF x = Bucket THEN Balance(credited, x) + Take(x) ELSE Balance(credited, x)
      BY <1>3, BucketBalance
    <3> QED BY <1>3, <3>1, CreditBucketRow
  <2> HIDE DEF r
  <2>3. r.txn[t] = [row EXCEPT !.refunded = TRUE, !.restored = TRUE]
    BY <1>1, <1>3, <2>2 DEF TxnRow
  <2>4. \A x \in {w, Bucket} : t \in Taken(d, x) /\ t \notin Taken(r, x)
    BY <1>1, <1>2, <1>4, <2>3, Rows DEF Taken, TxnRow
  <2>5. \A x \in Row \ {w, Bucket} : t \notin Taken(r, x) /\ t \notin Taken(d, x)
    BY DEF Taken
  <2> QED BY <1>3, <2>1, <2>2, <2>4, <2>5, Rows
<1>5. CASE t \notin Prepaid
  <2>1. Refund(d, t) = credited /\ RefundRows(t) = {w}
    BY <1>2, <1>5 DEF Refund, RefundRows, credited
  <2>2. t \in Taken(d, w) /\ t \notin Taken(credited, w)
    BY <1>1, <1>2, <1>3, Rows DEF Taken, TxnRow
  <2>3. \A x \in Row \ {w} : t \notin Taken(credited, x) /\ t \notin Taken(d, x)
    BY <1>1, <1>2, <1>3, <1>5 DEF Taken, TxnRow
  <2> QED BY <1>3, <2>1, <2>2, <2>3, Rows
<1> QED BY <1>4, <1>5
-----------------------------------------------------------------------------
\* A session that changes the balances of rows it holds, for one sale it writes, still sees
\* books that add up, and elsewhere what the database says.
LEMMA SeesStep ==
  ASSUME NEW s \in Worker, SeesBooks(s), view[s] \in Database, NEW t \in Txn, NEW d \in Database,
         NEW L \in SUBSET Row,
         view'[s] = d, UNCHANGED <<db, missed>>,
         written[s] \subseteq written'[s], t \in written'[s] \/ L = {},
         \A x \in L : holder'[x] = s,
         \A x \in Row : holder'[x] = holder[x] \/ holder'[x] = s,
         \A u \in Txn : u # t => d.txn[u] = view[s].txn[u],
         \A x \in Row \ L : /\ Balance(d, x) = Balance(view[s], x)
                            /\ t \in Taken(d, x) <=> t \in Taken(view[s], x),
         \A x \in L \ missed[s] : AddsUp(d, x)
  PROVE  SeesBooks(s)'
<1>1. \A u \in Txn, x \in Row : u # t => (u \in Taken(d, x) <=> u \in Taken(view[s], x))
  BY SameTaken
<1>2. ASSUME NEW x \in Row \ missed[s]
      PROVE  AddsUp(d, x)
  <2>1. CASE x \in L
    BY <2>1
  <2>2. CASE x \notin L
    <3>1. AddsUp(view[s], x)
      BY DEF SeesBooks
    <3> QED BY <1>1, <2>2, <3>1, SameAddsUp
  <2> QED BY <2>1, <2>2
<1>3. ASSUME NEW x \in Row, NEW u \in Txn,
             \/ x \notin missed[s] /\ (u \notin written'[s] \/ holder'[x] # s)
             \/ u \notin missed[s] /\ holder'[x] # s
      PROVE  u \in Taken(d, x) <=> u \in Taken(db, x)
  <2>1. \/ x \notin missed[s] /\ (u \notin written[s] \/ holder[x] # s)
        \/ u \notin missed[s] /\ holder[x] # s
    BY <1>3
  <2>2. u \in Taken(view[s], x) <=> u \in Taken(db, x)
    BY <2>1 DEF SeesBooks
  <2>3. u # t \/ x \notin L
    BY <1>3
  <2>4. u \in Taken(d, x) <=> u \in Taken(view[s], x)
    BY <1>1, <2>3
  <2> QED BY <2>2, <2>4
<1>4. /\ \A x \in Row \ missed'[s] : AddsUp(view'[s], x)
      /\ \A x \in Row, u \in Txn :
           \/ x \notin missed'[s] /\ (u \notin written'[s] \/ holder'[x] # s)
           \/ u \notin missed'[s] /\ holder'[x] # s
           => (u \in Taken(view'[s], x) <=> u \in Taken(db', x))
  BY <1>2, <1>3
<1> QED BY <1>4 DEF SeesBooks

\* A step of one session leaves what the others see, hold and do alone.
LEMMA LocalStep ==
  ASSUME BooksInv, IInv', NEW s \in Open, UNCHANGED <<db, missed>>,
         \A z \in Worker \ {s} : /\ job'[z] = job[z] /\ view'[z] = view[z]
                                 /\ written'[z] = written[z],
         \A x \in Row : holder'[x] = holder[x] \/ (holder'[x] = s /\ CanLock(s, x)),
         job'[s].step # "idle",
         SeesBooks(s)', HoldsLocks(s)', SessionLife(s)'
  PROVE  BooksInv'
<1>1. s \in Worker /\ Open' = Open
  BY DEF Open
<1>2. BalancesAddUp'
  BY DEF BooksInv, BalancesAddUp
<1>3. ASSUME NEW x \in Row, holder'[x] # NoSession
      PROVE  holder'[x] \in Open' /\ x \notin missed'[holder'[x]]
  <2>1. CASE holder'[x] = holder[x]
    BY <1>1, <1>3, <2>1 DEF BooksInv, HoldersAreFresh
  <2>2. CASE holder'[x] = s /\ CanLock(s, x)
    BY <1>1, <2>2 DEF CanLock
  <2> QED BY <2>1, <2>2
<1>4. HoldersAreFresh'
  BY <1>3 DEF HoldersAreFresh
<1>5. ASSUME NEW z \in Open, z # s
      PROVE  SeesBooks(z)' /\ HoldsLocks(z)' /\ SessionLife(z)'
  <2>1. /\ job'[z] = job[z] /\ view'[z] = view[z] /\ written'[z] = written[z]
        /\ SeesBooks(z) /\ HoldsLocks(z) /\ SessionLife(z) /\ SessionOK(job[z], view[z])
    BY <1>5 DEF Open, BooksInv, IInv
  <2>2. \A x \in Row : (holder'[x] = z) <=> (holder[x] = z)
    BY <1>1, <1>5, Rows DEF CanLock, Open
  <2>3. SeesBooks(z)'
    BY <2>1, <2>2 DEF SeesBooks
  <2>4. HoldsLocks(z)'
    BY <2>1, <2>2, Rows DEF HoldsLocks, SessionOK
  <2>5. SessionLife(z)'
    BY <2>1 DEF SessionLife
  <2> QED BY <2>3, <2>4, <2>5
<1>6. IdleIsClean'
  BY <1>1 DEF BooksInv, IdleIsClean
<1> QED BY <1>1, <1>2, <1>4, <1>5, <1>6 DEF BooksInv

\* What the invariant says of an open session.
LEMMA OpenFacts ==
  ASSUME BooksInv, NEW s \in Worker, job[s].step # "idle"
  PROVE  /\ s \in Open /\ IInv /\ SeesBooks(s) /\ HoldsLocks(s) /\ SessionLife(s)
         /\ job[s] \in Job /\ view[s] \in Database /\ SessionOK(job[s], view[s])
         /\ \A t \in Txn : view[s].txn[t] \in TxnRow /\ db.txn[t] \in TxnRow
         /\ written[s] \subseteq Txn /\ missed[s] \subseteq Row \cup Txn
<1>1. s \in Open /\ IInv
  BY DEF Open, BooksInv
<1> QED BY <1>1, SessionFacts DEF BooksInv, IInv, TypeOK

\* A new session sees the database, or the database and the sale it creates.
LEMMA BeginBooks ==
  ASSUME BooksInv, IInv', NEW s \in Worker, NEW kind \in Kind, NEW todo, NEW d \in Database,
         Begin(s, kind, todo, d),
         \A z \in Worker \ {s} : written'[z] = written[z],
         \A x \in Row : Balance(d, x) = Balance(db, x),
         \A x \in Row, t \in Txn : t \in Taken(d, x) <=> t \in Taken(db, x),
         \A t \in Txn : \/ d.txn[t].state = db.txn[t].state
                        \/ t \in written'[s] /\ d.txn[t].state \in Forward[db.txn[t].state],
         kind = "reap" => written'[s] = {}
  PROVE  BooksInv'
<1>1. /\ s \notin Open
      /\ job'[s] = [step |-> "next", kind |-> kind, txn |-> NoTxn, todo |-> todo]
      /\ view'[s] = d
      /\ \A z \in Worker \ {s} : job'[z] = job[z] /\ view'[z] = view[z]
      /\ UNCHANGED <<db, holder, missed>>
  BY DEF Begin, BooksInv, IInv, TypeOK
<1>2. Open' = Open \cup {s}
  BY <1>1 DEF Open
<1>3. BalancesAddUp' /\ HoldersAreFresh' /\ IdleIsClean'
  BY <1>1, <1>2 DEF BooksInv, BalancesAddUp, HoldersAreFresh, IdleIsClean
<1>4. \A x \in Row : AddsUp(d, x)
  BY SameAddsUp DEF BooksInv, BalancesAddUp
<1>5. SeesBooks(s)'
  BY <1>1, <1>4 DEF SeesBooks
<1>6. HoldsLocks(s)'
  BY <1>1 DEF HoldsLocks
<1>7. SessionLife(s)'
  BY <1>1 DEF SessionLife
<1>8. ASSUME NEW z \in Open
      PROVE  SeesBooks(z)' /\ HoldsLocks(z)' /\ SessionLife(z)'
  <2>1. z \in Worker \ {s}
    BY <1>1 DEF Open
  <2>2. /\ job'[z] = job[z] /\ view'[z] = view[z] /\ written'[z] = written[z]
        /\ SeesBooks(z) /\ HoldsLocks(z) /\ SessionLife(z)
    BY <1>1, <2>1 DEF BooksInv
  <2>3. SeesBooks(z)'
    BY <1>1, <2>2 DEF SeesBooks
  <2>4. HoldsLocks(z)'
    BY <1>1, <2>2 DEF HoldsLocks
  <2>5. SessionLife(z)'
    BY <1>1, <2>2 DEF SessionLife
  <2> QED BY <2>3, <2>4, <2>5
<1> QED BY <1>2, <1>3, <1>5, <1>6, <1>7, <1>8 DEF BooksInv

\* The rows of the books that marking a state leaves alone: all of them.
LEMMA MarkedBooks ==
  ASSUME NEW d \in Database, NEW t \in Txn, NEW state \in State
  PROVE  /\ \A x \in Row : Balance(Marked(d, t, state), x) = Balance(d, x)
         /\ \A x \in Row, u \in Txn : u \in Taken(Marked(d, t, state), x) <=> u \in Taken(d, x)
         /\ Marked(d, t, state).txn[t].state = state
         /\ Marked(d, t, state) \in Database
         /\ \A u \in Txn : u # t => Marked(d, t, state).txn[u] = d.txn[u]
<1> DEFINE e == Marked(d, t, state)
<1>1. /\ e \in Database
      /\ e.txn[t] = [d.txn[t] EXCEPT !.state = state]
      /\ \A u \in Txn : u # t => e.txn[u] = d.txn[u]
  BY MarkedRow
<1>2. d.txn[t] \in TxnRow
  BY Columns
<1> HIDE DEF e
<1>3. \A u \in Txn : /\ e.txn[u].debited = d.txn[u].debited /\ e.txn[u].refunded = d.txn[u].refunded
                     /\ e.txn[u].drawn = d.txn[u].drawn /\ e.txn[u].restored = d.txn[u].restored
  BY <1>1, <1>2 DEF TxnRow
<1>4. e.txn[t].state = state
  BY <1>1, <1>2 DEF TxnRow
<1>5. \A x \in Row, u \in Txn : u \in Taken(e, x) <=> u \in Taken(d, x)
  BY <1>3, SameTaken
<1>6. \A x \in Row : Balance(e, x) = Balance(d, x)
  BY MarkedBalance DEF e
<1> QED BY <1>1, <1>4, <1>5, <1>6 DEF e

\* Which states a transaction may go to from where.
LEMMA ForwardFacts ==
  /\ "pending" \in Forward["none"]
  /\ \A st \in Undispatched : {"in_progress", "success", "failed"} \subseteq Forward[st]
  /\ {"success", "timeout"} \subseteq Forward["in_progress"]
  /\ "inquiry_ok" \in Forward["pending"]
  /\ "refunded" \in Forward["failed"] /\ "refunded" \in Forward["timeout"]
  /\ \A st, to \in State : to \in Forward[st] =>
       /\ to \in {"pending", "inquiry_ok"} => st \in Undispatched
       /\ to # "none"
       /\ to \in Undispatched => st \in Undispatched
BY DEF Forward, Undispatched, State

\* Opening a session keeps the books.
LEMMA BeginKeepsBooks ==
  ASSUME BooksInv, NEW s \in Worker,
         \/ \E t \in Txn : BeginSell(s, t)
         \/ \E todo \in SUBSET Txn \ {{}} : BeginDispatch(s, todo) \/ BeginReap(s, todo)
  PROVE  BooksInv'
<1>0. IInv /\ db \in Database /\ written \in [Worker -> SUBSET Txn]
  BY DEF BooksInv, IInv, TypeOK
<1>1. IInv'
  BY <1>0, BeginKeeps
<1>2. ASSUME NEW t \in Txn, BeginSell(s, t) PROVE BooksInv'
  <2> DEFINE d == Marked(db, t, "pending")
  <2>1. /\ Begin(s, "dispatch", {t}, d) /\ db.txn[t].state = "none"
        /\ written' = [written EXCEPT ![s] = {t}]
    BY <1>2 DEF BeginSell
  <2>2. "pending" \in State /\ "dispatch" \in Kind
    BY DEF State, Kind
  <2>3. /\ d \in Database /\ \A u \in Txn : u # t => d.txn[u] = db.txn[u]
        /\ \A x \in Row : Balance(d, x) = Balance(db, x)
        /\ \A x \in Row, u \in Txn : u \in Taken(d, x) <=> u \in Taken(db, x)
        /\ d.txn[t].state = "pending"
    BY <1>0, <2>2, MarkedBooks
  <2>4. /\ \A z \in Worker \ {s} : written'[z] = written[z]
        /\ written'[s] = {t}
    BY <1>0, <2>1
  <2> HIDE DEF d
  <2>5. \A u \in Txn : \/ d.txn[u].state = db.txn[u].state
                       \/ u \in written'[s] /\ d.txn[u].state \in Forward[db.txn[u].state]
    BY <2>1, <2>3, <2>4, ForwardFacts
  <2> QED BY <1>1, <2>1, <2>2, <2>3, <2>4, <2>5, BeginBooks
<1>3. ASSUME NEW todo, NEW kind \in Kind, Begin(s, kind, todo, db), written' = written
      PROVE  BooksInv'
  <2>1. written'[s] = {}
    BY <1>3 DEF Begin, BooksInv, IdleIsClean
  <2> QED BY <1>0, <1>1, <1>3, <2>1, BeginBooks
<1>4. "dispatch" \in Kind /\ "reap" \in Kind
  BY DEF Kind
<1> QED BY <1>2, <1>3, <1>4 DEF BeginDispatch, BeginReap

\* The wallet is debited under its lock, for a sale that had taken nothing from it.
LEMMA DispatchWalletBooks ==
  ASSUME BooksInv, NEW s \in Worker, NEW t \in Txn, DispatchWallet(s, t)
  PROVE  BooksInv'
<1> DEFINE w == WalletOf[t]
           v == view[s]
           d == DebitWallet(v, t)
<1>1. /\ job[s].step = "next" /\ job[s].kind = "dispatch"
      /\ v.txn[t].state \in {"pending", "inquiry_ok"}
      /\ CanLock(s, w) /\ Price <= v.wallet[w].balance
      /\ holder' = [holder EXCEPT ![w] = s]
      /\ view' = [view EXCEPT ![s] = d]
      /\ written' = [written EXCEPT ![s] = @ \cup {t}]
      /\ job' = [job EXCEPT ![s].step = "bucket", ![s].txn = t, ![s].todo = @ \ {t}]
      /\ UNCHANGED <<db, remote, missed>>
  BY DEF DispatchWallet, Dispatchable, Solvent
<1>2. /\ s \in Open /\ IInv /\ SeesBooks(s) /\ SessionLife(s)
      /\ job[s] \in Job /\ v \in Database /\ v.txn[t] \in TxnRow /\ RowMoney(t, v.txn[t])
  BY <1>1, OpenFacts DEF SessionOK
<1>3. IInv'
  BY <1>2, DispatchWalletKeeps
<1>4. /\ job \in [Worker -> Job] /\ view \in [Worker -> Database]
      /\ written \in [Worker -> SUBSET Txn] /\ holder \in [Row -> Worker \cup {NoSession}]
  BY <1>2 DEF IInv, TypeOK
<1>5. /\ view'[s] = d /\ written'[s] = written[s] \cup {t} /\ holder'[w] = s
      /\ job'[s] = [job[s] EXCEPT !.step = "bucket", !.txn = t, !.todo = @ \ {t}]
      /\ \A x \in Row : x # w => holder'[x] = holder[x]
      /\ \A z \in Worker \ {s} : /\ job'[z] = job[z] /\ view'[z] = view[z]
                                 /\ written'[z] = written[z]
  BY <1>1, <1>4, Rows
<1>6. job'[s].step = "bucket" /\ job'[s].txn = t /\ job'[s].kind = "dispatch"
  <2>1. job[s].kind = "dispatch" /\ job[s] \in Job
    BY <1>1, <1>2
  <2>2. job'[s] = [job[s] EXCEPT !.step = "bucket", !.txn = t, !.todo = job[s].todo \ {t}]
    BY <1>5
  <2> QED BY <2>1, <2>2 DEF Job
<1>7. /\ d \in Database /\ d.txn[t] = [v.txn[t] EXCEPT !.debited = TRUE]
      /\ \A u \in Txn : u # t => d.txn[u] = v.txn[u]
  BY <1>2, DebitWalletRow
<1>8. \A x \in Row : Balance(d, x) = IF x = w THEN Balance(v, x) - Take(x) ELSE Balance(v, x)
  BY <1>2, DebitWalletBalance
<1> HIDE DEF d
<1>9. ~v.txn[t].debited /\ ~v.txn[t].refunded
  BY <1>1, <1>2 DEF RowMoney
<1>10. /\ t \notin Taken(v, w) /\ t \in Taken(d, w)
       /\ \A x \in Row : x # w => (t \in Taken(d, x) <=> t \in Taken(v, x))
  BY <1>2, <1>7, <1>9, Rows DEF Taken, TxnRow
<1>11. AddsUp(d, w)
  <2>1. AddsUp(v, w)
    BY <1>1, <1>2, Rows DEF SeesBooks, CanLock
  <2>2. Balance(v, w) \in Int /\ Take(w) <= Balance(v, w)
    BY <1>1, <1>2, Rows, BalanceType DEF Balance, Take
  <2>3. \A u \in Txn \ {t} : u \in Taken(d, w) <=> u \in Taken(v, w)
    BY <1>7, Rows, SameTaken
  <2> QED BY <1>8, <1>10, <2>1, <2>2, <2>3, Rows, TakeAddsUp
<1>12. SeesBooks(s)'
  <2> DEFINE L == {w}
  <2>1. L \in SUBSET Row /\ \A x \in L : x = w
    BY Rows
  <2>2. \A x \in Row \ L : /\ Balance(d, x) = Balance(v, x)
                           /\ t \in Taken(d, x) <=> t \in Taken(v, x)
    BY <1>8, <1>10
  <2> HIDE DEF L
  <2>3. /\ written[s] \subseteq written'[s] /\ t \in written'[s]
        /\ \A x \in L : holder'[x] = s
        /\ \A x \in Row : holder'[x] = holder[x] \/ holder'[x] = s
        /\ \A x \in L \ missed[s] : AddsUp(d, x)
        /\ UNCHANGED <<db, missed>>
    BY <1>1, <1>5, <1>11, <2>1
  <2> HIDE DEF v
  <2>4. v = view[s]
    BY DEF v
  <2> QED BY <1>2, <1>5, <1>7, <2>1, <2>2, <2>3, <2>4, SeesStep
<1>13. HoldsLocks(s)'
  BY <1>5, <1>6 DEF HoldsLocks
<1>14. d.txn[t].state = v.txn[t].state
  BY <1>2, <1>7 DEF TxnRow
<1>15. SessionLife(s)'
  <2>1. \A u \in Txn : d.txn[u].state = v.txn[u].state
    BY <1>7, <1>14
  <2>2. t \notin missed[s] => db.txn[t].state \in Undispatched
    <3>1. db.txn[t].state \in State /\ v.txn[t].state \in State
      BY <1>2, OpenFacts, <1>1 DEF TxnRow
    <3> QED BY <1>1, <1>2, <3>1, ForwardFacts DEF SessionLife, Undispatched
  <2> QED BY <1>1, <1>2, <1>5, <1>6, <2>1, <2>2 DEF SessionLife
<1> QED BY <1>1, <1>2, <1>3, <1>5, <1>6, <1>12, <1>13, <1>15, LocalStep

\* The bucket is debited under its lock, or the provider is not prepaid.
LEMMA DispatchBucketBooks ==
  ASSUME BooksInv, NEW s \in Worker, DispatchBucket(s)
  PROVE  BooksInv'
<1> DEFINE t == job[s].txn
           v == view[s]
           b == IF t \in Prepaid THEN DebitBucket(v, t) ELSE v
           d == Marked(b, t, "in_progress")
<1>1. /\ job[s].step = "bucket"
      /\ view' = [view EXCEPT ![s] = d]
      /\ job' = [job EXCEPT ![s].step = "pay"]
      /\ UNCHANGED <<db, remote, written, missed>>
      /\ IF t \in Prepaid
         THEN CanLock(s, Bucket) /\ Cost <= v.bucket /\ holder' = [holder EXCEPT ![Bucket] = s]
         ELSE holder' = holder
  BY DEF DispatchBucket
<1>2. /\ s \in Open /\ IInv /\ SeesBooks(s) /\ SessionLife(s) /\ HoldsLocks(s)
      /\ job[s] \in Job /\ v \in Database /\ t \in Txn /\ job[s].kind = "dispatch"
      /\ v.txn[t] \in TxnRow /\ Midway(v.txn[t])
  BY <1>1, OpenFacts DEF SessionOK
<1>3. IInv'
  BY <1>2, DispatchBucketKeeps
<1>4. /\ job \in [Worker -> Job] /\ view \in [Worker -> Database]
      /\ written \in [Worker -> SUBSET Txn] /\ holder \in [Row -> Worker \cup {NoSession}]
  BY <1>2 DEF IInv, TypeOK
<1>5. /\ view'[s] = d /\ written'[s] = written[s]
      /\ job'[s] = [job[s] EXCEPT !.step = "pay"]
      /\ \A z \in Worker \ {s} : /\ job'[z] = job[z] /\ view'[z] = view[z]
                                 /\ written'[z] = written[z]
  BY <1>1, <1>4
<1>6. job'[s].step = "pay" /\ job'[s].txn = t /\ job'[s].kind = "dispatch"
  BY <1>2, <1>5 DEF Job
<1> DEFINE L == IF t \in Prepaid THEN {Bucket} ELSE {}
<1>7. /\ L \in SUBSET Row
      /\ \A x \in L : holder'[x] = s /\ CanLock(s, x) /\ x = Bucket
      /\ \A x \in Row \ L : holder'[x] = holder[x]
      /\ t \in Prepaid => holder'[Bucket] = s
  BY <1>1, <1>4, Rows
<1>8. /\ b \in Database
      /\ \A u \in Txn : u # t => b.txn[u] = v.txn[u]
      /\ \A x \in Row \ L : Balance(b, x) = Balance(v, x) /\ (t \in Taken(b, x) <=> t \in Taken(v, x))
      /\ \A x \in L \ missed[s] : AddsUp(b, x)
  <2>1. CASE t \notin Prepaid
    BY <1>2, <2>1
  <2>2. CASE t \in Prepaid
    <3> DEFINE e == DebitBucket(v, t)
    <3>1. /\ e \in Database /\ e.txn[t] = [v.txn[t] EXCEPT !.drawn = TRUE]
          /\ \A u \in Txn : u # t => e.txn[u] = v.txn[u]
      BY <1>2, DebitBucketRow
    <3>2. \A x \in Row : Balance(e, x) = IF x = Bucket THEN Balance(v, x) - Take(x) ELSE Balance(v, x)
      BY <1>2, BucketBalance
    <3>3. b = e
      BY <2>2
    <3> HIDE DEF e, b
    <3>4. /\ t \notin Taken(v, Bucket) /\ t \in Taken(e, Bucket)
          /\ \A x \in Row : x # Bucket => (t \in Taken(e, x) <=> t \in Taken(v, x))
      BY <1>2, <3>1, Rows DEF Taken, TxnRow, Midway
    <3>5. AddsUp(e, Bucket)
      <4>1. AddsUp(v, Bucket)
        BY <1>1, <1>2, <2>2, Rows DEF SeesBooks, CanLock
      <4>2. Balance(v, Bucket) \in Int /\ Take(Bucket) <= Balance(v, Bucket)
        BY <1>1, <1>2, <2>2, Rows, BalanceType DEF Balance, Take
      <4>3. \A u \in Txn \ {t} : u \in Taken(e, Bucket) <=> u \in Taken(v, Bucket)
        BY <3>1, Rows, SameTaken
      <4> QED BY <1>2, <3>2, <3>4, <4>1, <4>2, <4>3, Rows, TakeAddsUp
    <3> QED BY <1>7, <2>2, <3>1, <3>2, <3>3, <3>4, <3>5
  <2> QED BY <2>1, <2>2
<1> HIDE DEF b
<1>9. "in_progress" \in State
  BY DEF State
<1>10. d \in Database /\ \A u \in Txn : u # t => d.txn[u] = b.txn[u]
  BY <1>2, <1>8, <1>9, MarkedBooks
<1>11. /\ \A x \in Row : Balance(d, x) = Balance(b, x)
       /\ \A x \in Row, u \in Txn : u \in Taken(d, x) <=> u \in Taken(b, x)
       /\ d.txn[t].state = "in_progress"
  BY <1>2, <1>8, <1>9, MarkedBooks
<1> HIDE DEF d, L, t, v
<1>12. \A x \in L \ missed[s] : AddsUp(d, x)
  BY <1>7, <1>8, <1>11, SameAddsUp
<1>13. t \in written[s] /\ holder[WalletOf[t]] = s
  BY <1>1, <1>2 DEF HoldsLocks, t
<1>14. SeesBooks(s)'
  <2>1. /\ \A u \in Txn : u # t => d.txn[u] = v.txn[u]
        /\ \A x \in Row \ L : /\ Balance(d, x) = Balance(v, x)
                              /\ t \in Taken(d, x) <=> t \in Taken(v, x)
    BY <1>2, <1>8, <1>10, <1>11
  <2>2. v = view[s]
    BY DEF v
  <2>3. /\ UNCHANGED <<db, missed>> /\ written[s] \subseteq written'[s] /\ t \in written'[s]
        /\ \A x \in Row : holder'[x] = holder[x] \/ holder'[x] = s
        /\ \A x \in L : holder'[x] = s
    BY <1>1, <1>5, <1>7, <1>13
  <2>4. /\ SeesBooks(s) /\ view[s] \in Database /\ t \in Txn /\ d \in Database
        /\ L \in SUBSET Row /\ view'[s] = d
    BY <1>2, <1>5, <1>7, <1>10, <2>2
  <2> HIDE DEF v
  <2> QED BY <1>12, <2>1, <2>2, <2>3, <2>4, SeesStep
<1>15. HoldsLocks(s)'
  <2>1. holder'[WalletOf[t]] = s
    BY <1>7, <1>13, <1>2, Rows
  <2> QED BY <1>5, <1>6, <1>7, <1>13, <2>1 DEF HoldsLocks
<1>16. SessionLife(s)'
  <2>1. v.txn[t].state \in {"pending", "inquiry_ok"}
        /\ (t \notin missed[s] => db.txn[t].state \in Undispatched)
    BY <1>1, <1>2 DEF SessionLife, v, t
  <2>2. \A u \in Txn : u # t => d.txn[u].state = v.txn[u].state
    BY <1>8, <1>10
  <2>3. t \notin missed[s] => "in_progress" \in Forward[db.txn[t].state]
    BY <2>1, ForwardFacts
  <2> QED BY <1>1, <1>2, <1>5, <1>6, <1>11, <1>13, <2>1, <2>2, <2>3 DEF SessionLife, v
<1>17. \A x \in Row : holder'[x] = holder[x] \/ (holder'[x] = s /\ CanLock(s, x))
  BY <1>7
<1> QED BY <1>1, <1>2, <1>3, <1>5, <1>6, <1>14, <1>15, <1>16, <1>17, LocalStep

\* Giving a sale in progress back and marking it moves money on the rows of its refund only.
LEMMA RefundMarkedBooks ==
  ASSUME NEW d \in Database, NEW t \in Txn, RowMoney(t, d.txn[t]),
         d.txn[t].state = "in_progress", NEW state \in State
  PROVE  LET e == Marked(Refund(d, t), t, state)
         IN  /\ e \in Database
             /\ \A u \in Txn : u # t => e.txn[u] = d.txn[u]
             /\ e.txn[t].state = state
             /\ \A x \in Row \ RefundRows(t) : /\ Balance(e, x) = Balance(d, x)
                                               /\ t \in Taken(e, x) <=> t \in Taken(d, x)
             /\ \A x \in RefundRows(t) : AddsUp(d, x) => AddsUp(e, x)
<1> DEFINE r == Refund(d, t)
           e == Marked(r, t, state)
<1>1. /\ r \in Database
      /\ \A u \in Txn : u # t => r.txn[u] = d.txn[u]
      /\ \A x \in RefundRows(t) : /\ t \in Taken(d, x) /\ t \notin Taken(r, x)
                                  /\ Balance(r, x) = Balance(d, x) + Take(x)
      /\ \A x \in Row \ RefundRows(t) : /\ t \in Taken(r, x) <=> t \in Taken(d, x)
                                        /\ Balance(r, x) = Balance(d, x)
  BY RefundBooks
<1> HIDE DEF r
<1>2. /\ \A x \in Row : Balance(e, x) = Balance(r, x)
      /\ \A x \in Row, u \in Txn : u \in Taken(e, x) <=> u \in Taken(r, x)
      /\ e.txn[t].state = state
      /\ e \in Database
      /\ \A u \in Txn : u # t => e.txn[u] = r.txn[u]
  BY <1>1, MarkedBooks
<1> HIDE DEF e
<1>3. ASSUME NEW x \in RefundRows(t), AddsUp(d, x) PROVE AddsUp(e, x)
  <2>1. x \in Row
    BY Rows
  <2>2. \A u \in Txn \ {t} : u \in Taken(r, x) <=> u \in Taken(d, x)
    BY <1>1, <2>1, SameTaken
  <2>3. AddsUp(r, x)
    BY <1>1, <1>3, <2>1, <2>2, BalanceType, GiveAddsUp
  <2> QED BY <1>2, <2>1, <2>3, SameAddsUp
<1> QED BY <1>1, <1>2, <1>3 DEF e, r

\* The rows of a refund are held, or nothing is refunded: every verdict keeps the books.
LEMMA DispatchPayBooks ==
  ASSUME BooksInv, NEW s \in Worker, DispatchPay(s)
  PROVE  BooksInv'
<1> DEFINE t == job[s].txn
           v == view[s]
<1>1. /\ job[s].step = "pay"
      /\ job' = [job EXCEPT ![s].step = "next", ![s].txn = NoTxn]
      /\ UNCHANGED <<db, holder, written, missed>>
  BY DEF DispatchPay
<1>2. /\ s \in Open /\ IInv /\ SeesBooks(s) /\ SessionLife(s) /\ HoldsLocks(s)
      /\ job[s] \in Job /\ v \in Database /\ t \in Txn /\ job[s].kind = "dispatch"
      /\ v.txn[t].state = "in_progress" /\ RowMoney(t, v.txn[t])
  BY <1>1, OpenFacts DEF SessionOK
<1>3. IInv'
  BY <1>2, DispatchPayKeeps
<1>4. /\ job \in [Worker -> Job] /\ view \in [Worker -> Database]
      /\ remote[t] \in Orders
  BY <1>2 DEF IInv, TypeOK
<1>5. PICK outcome \in PayOutcomes(remote[t]) \cup InquiryOutcomes(remote[t]) :
        view' = [view EXCEPT ![s] = Resolved(v, t, outcome[2])]
  BY DEF DispatchPay
<1> DEFINE d == Resolved(v, t, outcome[2])
<1>6. outcome[2] \in {"yes", "unsettled", "no"}
  BY <1>4, OutcomeType
<1>7. /\ view'[s] = d
      /\ job'[s] = [job[s] EXCEPT !.step = "next", !.txn = NoTxn]
      /\ \A z \in Worker \ {s} : job'[z] = job[z] /\ view'[z] = view[z]
  BY <1>1, <1>4, <1>5
<1>8. job'[s].step = "next" /\ job'[s].kind = "dispatch"
  BY <1>2, <1>7 DEF Job
<1>9. /\ t \in written[s] /\ \A x \in RefundRows(t) : holder[x] = s
      /\ t \notin missed[s] => db.txn[t].state \in Undispatched
  BY <1>1, <1>2 DEF HoldsLocks, SessionLife, RefundRows
<1> DEFINE L == IF outcome[2] = "no" THEN RefundRows(t) ELSE {}
<1>10. /\ d \in Database
       /\ \A u \in Txn : u # t => d.txn[u] = v.txn[u]
       /\ \A x \in Row \ L : /\ Balance(d, x) = Balance(v, x)
                             /\ t \in Taken(d, x) <=> t \in Taken(v, x)
       /\ \A x \in L : AddsUp(v, x) => AddsUp(d, x)
       /\ d.txn[t].state \in {"in_progress", "success", "failed"}
  <2>1. CASE outcome[2] = "yes"
    <3>1. d = Marked(v, t, "success") /\ L = {} /\ "success" \in State
      BY <2>1 DEF Resolved, State
    <3> HIDE DEF d, L
    <3> QED BY <1>2, <3>1, MarkedBooks
  <2>2. CASE outcome[2] = "unsettled"
    <3>1. d = v /\ L = {}
      BY <2>2 DEF Resolved
    <3> HIDE DEF d, L
    <3> QED BY <1>2, <3>1
  <2>3. CASE outcome[2] = "no"
    <3>1. d = Marked(Refund(v, t), t, "failed") /\ L = RefundRows(t) /\ "failed" \in State
      BY <2>3 DEF Resolved, State
    <3> HIDE DEF d, L
    <3> QED BY <1>2, <3>1, RefundMarkedBooks
  <2> QED BY <1>6, <2>1, <2>2, <2>3
<1>11. L \in SUBSET Row /\ \A x \in L : holder[x] = s
  BY <1>2, <1>9, Rows
<1> HIDE DEF d, L, t, v
<1>12. \A x \in L \ missed[s] : AddsUp(d, x)
  BY <1>2, <1>10, <1>11 DEF SeesBooks, v
<1>13. SeesBooks(s)'
  <2>1. /\ SeesBooks(s) /\ view[s] \in Database /\ t \in Txn /\ d \in Database
        /\ L \in SUBSET Row /\ view'[s] = d
        /\ UNCHANGED <<db, missed>> /\ written[s] \subseteq written'[s] /\ t \in written'[s]
        /\ \A x \in L : holder'[x] = s
        /\ \A x \in Row : holder'[x] = holder[x] \/ holder'[x] = s
    BY <1>1, <1>2, <1>7, <1>9, <1>10, <1>11 DEF v
  <2>2. /\ \A u \in Txn : u # t => d.txn[u] = view[s].txn[u]
        /\ \A x \in Row \ L : /\ Balance(d, x) = Balance(view[s], x)
                              /\ t \in Taken(d, x) <=> t \in Taken(view[s], x)
    BY <1>10 DEF v
  <2> QED BY <1>12, <2>1, <2>2, SeesStep
<1>14. HoldsLocks(s)'
  BY <1>8 DEF HoldsLocks
<1>15. SessionLife(s)'
  <2>1. \A u \in Txn : u # t => d.txn[u].state = v.txn[u].state
    BY <1>10
  <2>2. t \notin missed[s] => d.txn[t].state \in Forward[db.txn[t].state]
    BY <1>9, <1>10, ForwardFacts
  <2> QED BY <1>1, <1>2, <1>7, <1>8, <1>9, <2>1, <2>2 DEF SessionLife, v
<1> QED
  <2>1. /\ UNCHANGED <<db, missed>> /\ job'[s].step # "idle" /\ s \in Open
        /\ \A z \in Worker \ {s} : /\ job'[z] = job[z] /\ view'[z] = view[z]
                                   /\ written'[z] = written[z]
        /\ \A x \in Row : holder'[x] = holder[x]
    BY <1>1, <1>2, <1>7, <1>8
  <2> QED BY <1>3, <1>13, <1>14, <1>15, <2>1, LocalStep

\* The reaper refunds under the locks of the rows it credits.
LEMMA ReapBooks ==
  ASSUME BooksInv, NEW s \in Worker, NEW t \in Txn,
         ReapLeave(s, t) \/ ReapSuccess(s, t) \/ ReapRefund(s, t)
  PROVE  BooksInv'
<1> DEFINE v == view[s]
           d == view'[s]
<1>1. /\ job[s].step = "next" /\ job[s].kind = "reap" /\ t \in job[s].todo
      /\ job' = [job EXCEPT ![s].todo = @ \ {t}]
      /\ UNCHANGED <<db, remote, missed>>
  BY DEF ReapLeave, ReapSuccess, ReapRefund
<1>2. /\ s \in Open /\ IInv /\ SeesBooks(s) /\ SessionLife(s) /\ HoldsLocks(s)
      /\ job[s] \in Job /\ v \in Database
      /\ v.txn[t].state = "in_progress" /\ RowMoney(t, v.txn[t])
  BY <1>1, OpenFacts DEF SessionOK
<1>3. IInv'
  BY <1>2, ReapKeeps
<1>4. /\ job \in [Worker -> Job] /\ view \in [Worker -> Database]
      /\ written \in [Worker -> SUBSET Txn] /\ holder \in [Row -> Worker \cup {NoSession}]
  BY <1>2 DEF IInv, TypeOK
<1>5. /\ job'[s] = [job[s] EXCEPT !.todo = job[s].todo \ {t}]
      /\ \A z \in Worker \ {s} : job'[z] = job[z]
  BY <1>1, <1>4
<1>6. job'[s].step = "next" /\ job'[s].kind = "reap" /\ job'[s].todo = job[s].todo \ {t}
  BY <1>1, <1>2, <1>5 DEF Job
<1>7. /\ \A z \in Worker \ {s} : view'[z] = view[z] /\ written'[z] = written[z]
      /\ written'[s] = written[s] \/ written'[s] = written[s] \cup {t}
  BY <1>4 DEF ReapLeave, ReapSuccess, ReapRefund
<1> DEFINE L == IF ReapRefund(s, t) THEN RefundRows(t) ELSE {}
<1>8. /\ L \in SUBSET Row
      /\ \A x \in L : holder'[x] = s /\ CanLock(s, x)
      /\ \A x \in Row \ L : holder'[x] = holder[x]
  <2>1. CASE ReapRefund(s, t)
    <3>1. L = RefundRows(t) /\ RefundRows(t) \subseteq Row
      BY <2>1, Rows
    <3>2. /\ holder' = [x \in Row |-> IF x \in RefundRows(t) THEN s ELSE holder[x]]
          /\ \A x \in RefundRows(t) : CanLock(s, x)
      BY <2>1 DEF ReapRefund
    <3> QED BY <3>1, <3>2
  <2>2. CASE ~ReapRefund(s, t)
    BY <2>2 DEF ReapLeave, ReapSuccess
  <2> QED BY <2>1, <2>2
<1>9. /\ d \in Database
      /\ \A u \in Txn : u # t => d.txn[u] = v.txn[u]
      /\ \A x \in Row \ L : /\ Balance(d, x) = Balance(v, x)
                            /\ t \in Taken(d, x) <=> t \in Taken(v, x)
      /\ \A x \in L : AddsUp(v, x) => AddsUp(d, x)
      /\ \/ d = v /\ L = {}
         \/ d.txn[t].state \in {"success", "timeout"} /\ written'[s] = written[s] \cup {t}
  <2>1. CASE ReapRefund(s, t)
    <3>1. d = Marked(Refund(v, t), t, "timeout") /\ L = RefundRows(t) /\ "timeout" \in State
          /\ written'[s] = written[s] \cup {t}
      BY <1>4, <2>1 DEF ReapRefund, State
    <3> HIDE DEF d, L, v
    <3> QED BY <1>2, <3>1, RefundMarkedBooks
  <2>2. CASE ReapSuccess(s, t) /\ ~ReapRefund(s, t)
    <3>1. d = Marked(v, t, "success") /\ L = {} /\ "success" \in State
          /\ written'[s] = written[s] \cup {t}
      BY <1>4, <2>2 DEF ReapSuccess, State
    <3> HIDE DEF d, L, v
    <3> QED BY <1>2, <3>1, MarkedBooks
  <2>3. CASE ReapLeave(s, t) /\ ~ReapRefund(s, t)
    <3>1. d = v /\ L = {}
      BY <2>3 DEF ReapLeave
    <3> HIDE DEF d, L, v
    <3> QED BY <1>2, <3>1
  <2> QED BY <2>1, <2>2, <2>3
<1> HIDE DEF d, L, v
<1>10. \A x \in L \ missed[s] : AddsUp(d, x)
  BY <1>2, <1>8, <1>9 DEF SeesBooks, v
<1>11. SeesBooks(s)'
  <2>1. /\ SeesBooks(s) /\ view[s] \in Database /\ d \in Database
        /\ L \in SUBSET Row /\ view'[s] = d
        /\ UNCHANGED <<db, missed>> /\ written[s] \subseteq written'[s]
        /\ t \in written'[s] \/ L = {}
        /\ \A x \in L : holder'[x] = s
        /\ \A x \in Row : holder'[x] = holder[x] \/ holder'[x] = s
    BY <1>1, <1>2, <1>7, <1>8, <1>9 DEF v, d
  <2>2. /\ \A u \in Txn : u # t => d.txn[u] = view[s].txn[u]
        /\ \A x \in Row \ L : /\ Balance(d, x) = Balance(view[s], x)
                              /\ t \in Taken(d, x) <=> t \in Taken(view[s], x)
    BY <1>9 DEF v
  <2> QED BY <1>10, <2>1, <2>2, SeesStep
<1>12. HoldsLocks(s)'
  BY <1>6 DEF HoldsLocks
<1>13. SessionLife(s)'
  <2>1. \A u \in Txn : u # t => d.txn[u].state = v.txn[u].state
    BY <1>9
  <2>2. t \notin written[s]
    BY <1>1, <1>2 DEF SessionLife
  <2>3. t \notin missed[s] => db.txn[t].state = "in_progress"
    BY <1>2, <2>2 DEF SessionLife, v
  <2>4. \/ d = v
        \/ t \in written'[s] /\ (t \notin missed[s] => d.txn[t].state \in Forward[db.txn[t].state])
    BY <1>9, <2>3, ForwardFacts
  <2>5. job'[s].todo \cap written'[s] = {}
    BY <1>1, <1>2, <1>6, <1>7 DEF SessionLife
  <2>6. \A u \in Txn \ missed[s] :
          \/ d.txn[u].state = db.txn[u].state
          \/ u \in written'[s] /\ d.txn[u].state \in Forward[db.txn[u].state]
    BY <1>2, <1>7, <2>1, <2>4 DEF SessionLife, v
  <2> QED BY <1>1, <1>6, <2>5, <2>6 DEF SessionLife, d
<1> QED
  <2>1. /\ UNCHANGED <<db, missed>> /\ job'[s].step # "idle" /\ s \in Open
        /\ \A z \in Worker \ {s} : /\ job'[z] = job[z] /\ view'[z] = view[z]
                                   /\ written'[z] = written[z]
        /\ \A x \in Row : holder'[x] = holder[x] \/ (holder'[x] = s /\ CanLock(s, x))
    BY <1>1, <1>2, <1>5, <1>6, <1>7, <1>8
  <2> QED BY <1>3, <1>11, <1>12, <1>13, <2>1, LocalStep

\* What ends with a session: its locks and its writes; the others go on as they were.
LEMMA ReleaseFacts ==
  ASSUME BooksInv, NEW s \in Open, Release(s)
  PROVE  /\ s \in Worker /\ Open' = Open \ {s}
         /\ \A z \in Worker \ {s} : /\ job'[z] = job[z] /\ view'[z] = view[z]
                                    /\ written'[z] = written[z]
         /\ \A x \in Row : holder'[x] = IF holder[x] = s THEN NoSession ELSE holder[x]
         /\ \A z \in Open', x \in Row : (holder'[x] = z) <=> (holder[x] = z)
         /\ written'[s] = {}
<1>1. /\ job \in [Worker -> Job] /\ view \in [Worker -> Database]
      /\ written \in [Worker -> SUBSET Txn] /\ s \in Worker
  BY DEF BooksInv, IInv, TypeOK, Open
<1>2. /\ job' = [job EXCEPT ![s] = Idle] /\ view' = [view EXCEPT ![s] = NewDatabase]
      /\ written' = [written EXCEPT ![s] = {}]
      /\ holder' = [x \in Row |-> IF holder[x] = s THEN NoSession ELSE holder[x]]
  BY DEF Release
<1>3. Open' = Open \ {s}
  BY <1>1, <1>2 DEF Open, Idle
<1>4. \A z \in Open', x \in Row : (holder'[x] = z) <=> (holder[x] = z)
  BY <1>2, <1>3, Rows DEF Open
<1> QED BY <1>1, <1>2, <1>3, <1>4

\* A session goes on when another one has committed: whatever changed, it has missed.
LEMMA OthersGoOn ==
  ASSUME NEW z \in Worker, SeesBooks(z), HoldsLocks(z), SessionLife(z), SessionOK(job[z], view[z]),
         job'[z] = job[z], view'[z] = view[z], written'[z] = written[z],
         \A x \in Row : (holder'[x] = z) <=> (holder[x] = z),
         missed[z] \subseteq missed'[z],
         \A t \in Txn \ missed'[z] : db'.txn[t] = db.txn[t],
         \A x \in Row \ missed'[z], t \in Txn : t \in Taken(db', x) <=> t \in Taken(db, x)
  PROVE  SeesBooks(z)' /\ HoldsLocks(z)' /\ SessionLife(z)'
<1>1. \A t \in Txn \ missed'[z], x \in Row : t \in Taken(db', x) <=> t \in Taken(db, x)
  BY SameTaken
<1>2. SeesBooks(z)'
  <2>1. \A x \in Row \ missed'[z] : AddsUp(view'[z], x)
    BY DEF SeesBooks
  <2>2. ASSUME NEW x \in Row, NEW t \in Txn,
               \/ x \notin missed'[z] /\ (t \notin written'[z] \/ holder'[x] # z)
               \/ t \notin missed'[z] /\ holder'[x] # z
        PROVE  t \in Taken(view'[z], x) <=> t \in Taken(db', x)
    <3>1. \/ x \notin missed[z] /\ (t \notin written[z] \/ holder[x] # z)
          \/ t \notin missed[z] /\ holder[x] # z
      BY <2>2
    <3>2. t \in Taken(view[z], x) <=> t \in Taken(db, x)
      BY <3>1 DEF SeesBooks
    <3>3. t \in Taken(db', x) <=> t \in Taken(db, x)
      BY <1>1, <2>2
    <3> QED BY <3>2, <3>3
  <2> QED BY <2>1, <2>2 DEF SeesBooks
<1>3. HoldsLocks(z)'
  BY Rows DEF HoldsLocks, SessionOK
<1>4. SessionLife(z)'
  <2>1. \A t \in Txn \ missed'[z] :
          \/ view'[z].txn[t].state = db'.txn[t].state
          \/ t \in written'[z] /\ view'[z].txn[t].state \in Forward[db'.txn[t].state]
    BY DEF SessionLife
  <2>2. job'[z].step \in {"bucket", "pay"} /\ job'[z].txn \notin missed'[z] =>
          db'.txn[job'[z].txn].state \in Undispatched
    BY DEF SessionLife, SessionOK
  <2> QED BY <2>1, <2>2 DEF SessionLife
<1> QED BY <1>2, <1>3, <1>4

\* What a commit leaves in the database: on the rows it held, what its session saw there.
LEMMA CommitBalances ==
  ASSUME BooksInv, NEW s \in Worker, Commit(s)
  PROVE  /\ \A x \in Row : AddsUp(db', x)
         /\ \A x \in Row, t \in Txn :
              holder[x] # s => (t \in Taken(db', x) <=> t \in Taken(db, x))
         /\ \A t \in Txn : db'.txn[t] = IF t \in written[s] THEN view[s].txn[t] ELSE db.txn[t]
<1>1. /\ job[s].step = "next" /\ written[s] \cap missed[s] = {}
      /\ db' = [txn    |-> [t \in Txn |-> IF t \in written[s] THEN view[s].txn[t] ELSE db.txn[t]],
                wallet |-> [w \in Wallet |->
                              IF holder[w] = s
                              THEN [db.wallet[w] EXCEPT !.balance = view[s].wallet[w].balance]
                              ELSE db.wallet[w]],
                bucket |-> IF holder[Bucket] = s THEN view[s].bucket ELSE db.bucket]
  BY DEF Commit, Fresh
<1>2. /\ s \in Open /\ SeesBooks(s) /\ view[s] \in Database /\ db \in Database
  BY <1>1, OpenFacts, SessionFacts
<1>3. \A t \in Txn : db'.txn[t] = IF t \in written[s] THEN view[s].txn[t] ELSE db.txn[t]
  BY <1>1
<1>4. \A x \in Row : Balance(db', x) = IF holder[x] = s THEN Balance(view[s], x) ELSE Balance(db, x)
  <2>1. \A w \in Wallet : /\ db.wallet[w] \in [balance: Int, frozen: BOOLEAN]
                          /\ view[s].wallet[w] \in [balance: Int, frozen: BOOLEAN]
    BY <1>2, Columns
  <2>2. \A w \in Wallet : db'.wallet[w].balance = IF holder[w] = s THEN view[s].wallet[w].balance
                                                  ELSE db.wallet[w].balance
    BY <1>1, <2>1
  <2>3. db'.bucket = IF holder[Bucket] = s THEN view[s].bucket ELSE db.bucket
    BY <1>1
  <2> QED BY <2>2, <2>3 DEF Balance, Row
<1>5. ASSUME NEW x \in Row, holder[x] # s, NEW t \in Txn
      PROVE  t \in Taken(db', x) <=> t \in Taken(db, x)
  <2>1. CASE t \in written[s]
    <3>1. t \in Taken(db', x) <=> t \in Taken(view[s], x)
      BY <1>3, <2>1, SameTaken
    <3>2. t \in Taken(view[s], x) <=> t \in Taken(db, x)
      BY <1>1, <1>2, <1>5, <2>1 DEF SeesBooks
    <3> QED BY <3>1, <3>2
  <2>2. CASE t \notin written[s]
    BY <1>3, <2>2, SameTaken
  <2> QED BY <2>1, <2>2
<1>6. ASSUME NEW x \in Row, holder[x] = s
      PROVE  AddsUp(db', x)
  <2>1. x \notin missed[s]
    BY <1>6, Rows DEF BooksInv, HoldersAreFresh
  <2>2. AddsUp(view[s], x)
    BY <1>2, <2>1 DEF SeesBooks
  <2>3. ASSUME NEW t \in Txn PROVE t \in Taken(db', x) <=> t \in Taken(view[s], x)
    <3>1. CASE t \in written[s]
      BY <1>3, <3>1, SameTaken
    <3>2. CASE t \notin written[s]
      <4>1. t \in Taken(db', x) <=> t \in Taken(db, x)
        BY <1>3, <3>2, SameTaken
      <4>2. t \in Taken(view[s], x) <=> t \in Taken(db, x)
        BY <1>2, <2>1, <3>2 DEF SeesBooks
      <4> QED BY <4>1, <4>2
    <3> QED BY <3>1, <3>2
  <2> QED BY <1>4, <1>6, <2>2, <2>3, SameAddsUp
<1>7. ASSUME NEW x \in Row, holder[x] # s
      PROVE  AddsUp(db', x)
  <2>1. AddsUp(db, x)
    BY DEF BooksInv, BalancesAddUp
  <2> QED BY <1>4, <1>5, <1>7, <2>1, SameAddsUp
<1> QED BY <1>3, <1>5, <1>6, <1>7

\* A commit keeps the books.
LEMMA CommitBooks ==
  ASSUME BooksInv, NEW s \in Worker, Commit(s)
  PROVE  BooksInv'
<1>1. job[s].step = "next" /\ missed' = Stale(Held(s) \cup written[s], s) /\ Release(s)
  BY DEF Commit
<1>2. s \in Open /\ IInv /\ written[s] \subseteq Txn
  BY <1>1, OpenFacts
<1>3. IInv'
  BY <1>2, CommitKeeps
<1>4. /\ Open' = Open \ {s}
      /\ \A z \in Worker \ {s} : job'[z] = job[z] /\ view'[z] = view[z] /\ written'[z] = written[z]
      /\ \A x \in Row : holder'[x] = IF holder[x] = s THEN NoSession ELSE holder[x]
      /\ \A z \in Open', x \in Row : (holder'[x] = z) <=> (holder[x] = z)
      /\ written'[s] = {}
  BY <1>1, <1>2, ReleaseFacts
<1>5. \A z \in Open' : missed'[z] = missed[z] \cup Held(s) \cup written[s]
  BY <1>1, <1>4 DEF Stale, Open
<1>6. /\ \A x \in Row : AddsUp(db', x)
      /\ \A x \in Row, t \in Txn : holder[x] # s => (t \in Taken(db', x) <=> t \in Taken(db, x))
      /\ \A t \in Txn : db'.txn[t] = IF t \in written[s] THEN view[s].txn[t] ELSE db.txn[t]
  BY CommitBalances
<1>7. BalancesAddUp'
  BY <1>6 DEF BalancesAddUp
<1>8. HoldersAreFresh'
  <2> SUFFICES ASSUME NEW x \in Row, holder'[x] # NoSession
               PROVE  holder'[x] \in Open' /\ x \notin missed'[holder'[x]]
    BY DEF HoldersAreFresh
  <2>1. holder[x] # s /\ holder'[x] = holder[x]
    BY <1>4
  <2>2. holder[x] \in Open /\ x \notin missed[holder[x]]
    BY <2>1 DEF BooksInv, HoldersAreFresh
  <2>3. x \notin Held(s) /\ x \notin written[s]
    BY <1>2, <2>1, Rows DEF Held
  <2> QED BY <1>4, <1>5, <2>1, <2>2, <2>3
<1>9. ASSUME NEW z \in Open'
      PROVE  SeesBooks(z)' /\ HoldsLocks(z)' /\ SessionLife(z)'
  <2>1. z \in Worker \ {s} /\ z \in Open
    BY <1>4 DEF Open
  <2>2. /\ job'[z] = job[z] /\ view'[z] = view[z] /\ written'[z] = written[z]
        /\ SeesBooks(z) /\ HoldsLocks(z) /\ SessionLife(z) /\ SessionOK(job[z], view[z])
        /\ missed[z] \subseteq missed'[z]
        /\ \A x \in Row : (holder'[x] = z) <=> (holder[x] = z)
    BY <1>4, <1>5, <2>1 DEF BooksInv, IInv
  <2>3. \A t \in Txn \ missed'[z] : db'.txn[t] = db.txn[t]
    BY <1>5, <1>6
  <2>4. \A x \in Row \ missed'[z], t \in Txn : t \in Taken(db', x) <=> t \in Taken(db, x)
    BY <1>5, <1>6 DEF Held
  <2> QED BY <2>1, <2>2, <2>3, <2>4, OthersGoOn
<1>10. IdleIsClean'
  <2> SUFFICES ASSUME NEW z \in Worker, z \notin Open' PROVE written'[z] = {} /\ missed'[z] = {}
    BY DEF IdleIsClean
  <2>1. missed'[z] = {}
    BY <1>1, <1>4 DEF Stale
  <2>2. z = s \/ z \notin Open
    BY <1>4
  <2> QED BY <1>4, <2>1, <2>2 DEF BooksInv, IdleIsClean
<1> QED BY <1>3, <1>4, <1>7, <1>8, <1>9, <1>10 DEF BooksInv

\* A rollback gives up locks, views and writes, and the database stays as it is.
LEMMA RollbackBooks ==
  ASSUME BooksInv, NEW s \in Worker, Rollback(s)
  PROVE  BooksInv'
<1>1. s \in Open /\ missed' = [missed EXCEPT ![s] = {}] /\ Release(s) /\ db' = db
  BY DEF Rollback
<1>2. IInv /\ IInv'
  BY RollbackKeeps DEF BooksInv
<1>3. /\ Open' = Open \ {s}
      /\ \A z \in Worker \ {s} : job'[z] = job[z] /\ view'[z] = view[z] /\ written'[z] = written[z]
      /\ \A x \in Row : holder'[x] = IF holder[x] = s THEN NoSession ELSE holder[x]
      /\ \A z \in Open', x \in Row : (holder'[x] = z) <=> (holder[x] = z)
      /\ written'[s] = {}
  BY <1>1, ReleaseFacts
<1>4. \A z \in Open' : missed'[z] = missed[z] /\ z \in Worker \ {s} /\ z \in Open
  BY <1>1, <1>2, <1>3 DEF IInv, TypeOK, Open
<1>5. BalancesAddUp'
  BY <1>1 DEF BooksInv, BalancesAddUp
<1>6. HoldersAreFresh'
  BY <1>3, <1>4 DEF BooksInv, HoldersAreFresh
<1>7. ASSUME NEW z \in Open'
      PROVE  SeesBooks(z)' /\ HoldsLocks(z)' /\ SessionLife(z)'
  <2>1. /\ z \in Worker
        /\ job'[z] = job[z] /\ view'[z] = view[z] /\ written'[z] = written[z]
        /\ SeesBooks(z) /\ HoldsLocks(z) /\ SessionLife(z) /\ SessionOK(job[z], view[z])
        /\ missed[z] \subseteq missed'[z]
        /\ \A x \in Row : (holder'[x] = z) <=> (holder[x] = z)
    BY <1>3, <1>4 DEF BooksInv, IInv
  <2> QED BY <1>1, <2>1, OthersGoOn
<1>8. IdleIsClean'
  <2>1. \A z \in Worker : missed'[z] = IF z = s THEN {} ELSE missed[z]
    BY <1>1, <1>2 DEF IInv, TypeOK
  <2> QED BY <1>3, <2>1 DEF BooksInv, IdleIsClean
<1> QED BY <1>2, <1>3, <1>5, <1>6, <1>7, <1>8 DEF BooksInv

\* A statement that makes d of the database and changes rows: what it leaves alone.
Harmless(d, rows) ==
  /\ Update(d, rows)
  /\ \A x \in Row \cap rows : holder[x] = NoSession
  /\ \A x \in Row : Balance(d, x) = Balance(db, x)
  /\ \A x \in Row, t \in Txn : t \in Taken(d, x) <=> t \in Taken(db, x)
  /\ \A t \in Txn \ rows : d.txn[t] = db.txn[t]
  /\ \A t \in Txn : \/ d.txn[t].state = db.txn[t].state
                    \/ d.txn[t].state \in Forward[db.txn[t].state]

\* A statement outside the sessions moves no money, takes a transaction one step on, and
\* touches no row that is locked: action_mark_refunded finds everything refunded already.
LEMMA UpdateEffects ==
  ASSUME IInv,
         \/ \E t \in Txn : Create(t) \/ ConfirmInquiry(t) \/ MarkRefunded(t)
         \/ \E t, clone \in Txn : Retry(t, clone)
         \/ \E w \in Wallet, frozen \in BOOLEAN : EditWallet(w, frozen)
  PROVE  \E d \in Database, rows \in SUBSET (Row \cup Txn) : Harmless(d, rows)
<1>0. /\ db \in Database /\ \A t \in Txn : RowMoney(t, db.txn[t]) /\ db.txn[t] \in TxnRow
  <2>1. db \in Database /\ \A t \in Txn : RowMoney(t, db.txn[t])
    BY DEF IInv, TypeOK, MoneyFollowsState
  <2> QED BY <2>1, Columns
<1>1. ASSUME NEW t \in Txn, NEW state \in State, Update(Marked(db, t, state), {t}),
             state \in Forward[db.txn[t].state]
      PROVE  \E d \in Database, rows \in SUBSET (Row \cup Txn) : Harmless(d, rows)
  <2> DEFINE d == Marked(db, t, state)
  <2>1. /\ d \in Database /\ d.txn[t].state = state
        /\ \A x \in Row : Balance(d, x) = Balance(db, x)
        /\ \A x \in Row, u \in Txn : u \in Taken(d, x) <=> u \in Taken(db, x)
        /\ \A u \in Txn : u # t => d.txn[u] = db.txn[u]
    BY <1>0, MarkedBooks
  <2>2. {t} \in SUBSET (Row \cup Txn) /\ \A x \in Row : x \notin {t}
    BY Rows
  <2>3. Update(d, {t})
    BY <1>1
  <2> HIDE DEF d
  <2>4. Harmless(d, {t})
    BY <1>1, <2>1, <2>2, <2>3 DEF Harmless
  <2> QED BY <2>1, <2>2, <2>4
<1>2. ASSUME NEW t \in Txn, Create(t)
      PROVE  Update(Marked(db, t, "pending"), {t}) /\ "pending" \in Forward[db.txn[t].state]
  BY <1>2, ForwardFacts DEF Create
<1>3. ASSUME NEW t \in Txn, ConfirmInquiry(t)
      PROVE  Update(Marked(db, t, "inquiry_ok"), {t}) /\ "inquiry_ok" \in Forward[db.txn[t].state]
  BY <1>3, ForwardFacts DEF ConfirmInquiry
<1>4. ASSUME NEW t \in Txn, MarkRefunded(t)
      PROVE  Update(Marked(db, t, "refunded"), {t}) /\ "refunded" \in Forward[db.txn[t].state]
  <2>1. db.txn[t].state \in {"failed", "timeout"}
    BY <1>4 DEF MarkRefunded
  <2>2. db.txn[t].debited /\ db.txn[t].refunded
    BY <1>0, <2>1 DEF RowMoney
  <2>3. Refund(db, t) = db
    BY <2>2 DEF Refund
  <2>4. Update(Marked(db, t, "refunded"), {} \cup {t})
    BY <1>4, <2>3 DEF MarkRefunded
  <2>5. {} \cup {t} = {t}
    OBVIOUS
  <2> QED BY <2>1, <2>4, <2>5, ForwardFacts
<1>5. {"pending", "inquiry_ok", "refunded"} \subseteq State
  BY DEF State
<1>6. ASSUME NEW t \in Txn, NEW clone \in Txn, Retry(t, clone)
      PROVE  \E d \in Database, rows \in SUBSET (Row \cup Txn) : Harmless(d, rows)
  <2> DEFINE row == [NoRow EXCEPT !.state = "pending", !.origin = t]
             d == [db EXCEPT !.txn[clone] = row]
  <2>1. Update(d, {clone}) /\ db.txn[clone].state = "none"
    BY <1>6 DEF Retry
  <2>2. /\ row \in TxnRow /\ row.state = "pending"
        /\ row.debited = FALSE /\ row.drawn = FALSE /\ row.refunded = FALSE /\ row.restored = FALSE
    BY DEF NoRow, TxnRow, State
  <2> HIDE DEF row
  <2>3. d \in Database /\ d.txn = [db.txn EXCEPT ![clone] = row]
        /\ d.wallet = db.wallet /\ d.bucket = db.bucket
    BY <1>0, <2>2 DEF Database
  <2> HIDE DEF d
  <2>4. d.txn[clone] = row /\ \A u \in Txn : u # clone => d.txn[u] = db.txn[u]
    BY <1>0, <2>3, Columns
  <2>5. /\ db.txn[clone].debited = FALSE /\ db.txn[clone].drawn = FALSE
        /\ db.txn[clone].refunded = FALSE /\ db.txn[clone].restored = FALSE
    BY <1>0, <2>1 DEF RowMoney, TxnRow
  <2>6. \A x \in Row : Balance(d, x) = Balance(db, x)
    BY <2>3 DEF Balance
  <2>7. \A x \in Row, u \in Txn : u \in Taken(d, x) <=> u \in Taken(db, x)
    BY <2>2, <2>4, <2>5, SameTaken
  <2>8. {clone} \in SUBSET (Row \cup Txn) /\ \A x \in Row : x \notin {clone}
    BY Rows
  <2>9. Harmless(d, {clone})
    BY <2>1, <2>2, <2>4, <2>6, <2>7, <2>8, ForwardFacts DEF Harmless
  <2> QED BY <2>3, <2>8, <2>9
<1>7. ASSUME NEW w \in Wallet, NEW frozen \in BOOLEAN, EditWallet(w, frozen)
      PROVE  \E d \in Database, rows \in SUBSET (Row \cup Txn) : Harmless(d, rows)
  <2> DEFINE d == [db EXCEPT !.wallet[w].frozen = frozen]
             purse == [db.wallet[w] EXCEPT !.frozen = frozen]
  <2>1. Update(d, {w}) /\ holder[w] = NoSession
    BY <1>7 DEF EditWallet
  <2>2. /\ db.wallet \in [Wallet -> [balance: Int, frozen: BOOLEAN]]
        /\ db.wallet[w] \in [balance: Int, frozen: BOOLEAN]
    BY <1>0, Columns
  <2>3. purse \in [balance: Int, frozen: BOOLEAN] /\ purse.balance = db.wallet[w].balance
    BY <2>2
  <2>4. d = [db EXCEPT !.wallet = [db.wallet EXCEPT ![w] = purse]]
    BY <1>0, <2>2 DEF Database
  <2> HIDE DEF purse
  <2>5. d \in Database /\ d.txn = db.txn /\ d.bucket = db.bucket
        /\ d.wallet = [db.wallet EXCEPT ![w] = purse]
    BY <1>0, <2>2, <2>3, <2>4 DEF Database
  <2> HIDE DEF d
  <2>6. \A x \in Row : Balance(d, x) = Balance(db, x)
    BY <2>2, <2>3, <2>5 DEF Balance, Row
  <2>7. \A x \in Row, u \in Txn : u \in Taken(d, x) <=> u \in Taken(db, x)
    BY <2>5, SameTaken
  <2>8. {w} \in SUBSET (Row \cup Txn)
    BY Rows
  <2>9. Harmless(d, {w})
    BY <2>1, <2>5, <2>6, <2>7, <2>8 DEF Harmless
  <2> QED BY <2>5, <2>8, <2>9
<1>8. CASE \E t \in Txn : Create(t) \/ ConfirmInquiry(t) \/ MarkRefunded(t)
  <2>1. PICK t \in Txn : Create(t) \/ ConfirmInquiry(t) \/ MarkRefunded(t)
    BY <1>8
  <2>2. PICK state \in State : /\ Update(Marked(db, t, state), {t})
                               /\ state \in Forward[db.txn[t].state]
    BY <1>2, <1>3, <1>4, <1>5, <2>1
  <2> QED BY <1>1, <2>2
<1> QED BY <1>6, <1>7, <1>8

\* A statement outside the sessions keeps the books.
LEMMA UpdateBooks ==
  ASSUME BooksInv,
         \/ \E t \in Txn : Create(t) \/ ConfirmInquiry(t) \/ MarkRefunded(t)
         \/ \E t, clone \in Txn : Retry(t, clone)
         \/ \E w \in Wallet, frozen \in BOOLEAN : EditWallet(w, frozen)
  PROVE  BooksInv'
<1>1. IInv /\ IInv'
  BY UpdatesKeep DEF BooksInv
<1>0. PICK d \in Database, rows \in SUBSET (Row \cup Txn) : Harmless(d, rows)
  BY <1>1, UpdateEffects
<1>2. /\ Update(d, rows)
      /\ \A x \in Row \cap rows : holder[x] = NoSession
      /\ \A x \in Row : Balance(d, x) = Balance(db, x)
      /\ \A x \in Row, t \in Txn : t \in Taken(d, x) <=> t \in Taken(db, x)
      /\ \A t \in Txn \ rows : d.txn[t] = db.txn[t]
  BY <1>0 DEF Harmless
<1>3. /\ db' = d /\ UNCHANGED <<holder, job, view, written>>
      /\ missed' = [s \in Worker |-> IF s \in Open THEN missed[s] \cup rows ELSE {}]
  BY <1>2 DEF Update
<1>4. Open' = Open /\ \A z \in Open : missed'[z] = missed[z] \cup rows
  BY <1>3 DEF Open
<1>5. BalancesAddUp'
  BY <1>2, <1>3, SameAddsUp DEF BooksInv, BalancesAddUp
<1>6. HoldersAreFresh'
  BY <1>2, <1>3, <1>4 DEF BooksInv, HoldersAreFresh
<1>7. IdleIsClean'
  BY <1>3, <1>4 DEF BooksInv, IdleIsClean
<1>8. ASSUME NEW z \in Open
      PROVE  SeesBooks(z)' /\ HoldsLocks(z)' /\ SessionLife(z)'
  <2>1. /\ z \in Worker
        /\ job'[z] = job[z] /\ view'[z] = view[z] /\ written'[z] = written[z]
        /\ SeesBooks(z) /\ HoldsLocks(z) /\ SessionLife(z) /\ SessionOK(job[z], view[z])
        /\ missed[z] \subseteq missed'[z]
        /\ \A x \in Row : (holder'[x] = z) <=> (holder[x] = z)
    BY <1>3, <1>4 DEF BooksInv, IInv, Open
  <2>2. /\ \A t \in Txn \ missed'[z] : db'.txn[t] = db.txn[t]
        /\ \A x \in Row \ missed'[z], t \in Txn : t \in Taken(db', x) <=> t \in Taken(db, x)
    BY <1>2, <1>3, <1>4
  <2> QED BY <2>1, <2>2, OthersGoOn
<1> QED BY <1>1, <1>4, <1>5, <1>6, <1>7, <1>8 DEF BooksInv

\* The provider's decision touches no book.
LEMMA SettleBooks ==
  ASSUME BooksInv, NEW t \in Txn, Settle(t)
  PROVE  BooksInv'
<1>1. IInv' /\ UNCHANGED <<db, holder, job, view, written, missed>>
  BY SettleKeeps DEF BooksInv, Settle
<1>2. Open' = Open
  BY <1>1 DEF Open
<1>3. \A z \in Open : SeesBooks(z)' /\ HoldsLocks(z)' /\ SessionLife(z)'
  BY <1>1 DEF BooksInv, SeesBooks, HoldsLocks, SessionLife
<1> QED BY <1>1, <1>2, <1>3 DEF BooksInv, BalancesAddUp, HoldersAreFresh, IdleIsClean

\* An empty database of opening balances satisfies the invariant.
LEMMA InitBooks == Init => BooksInv
<1> SUFFICES ASSUME Init PROVE BooksInv
  OBVIOUS
<1>1. IInv
  BY InitIInv
<1>2. Open = {} /\ \A x \in Row : holder[x] = NoSession
  BY DEF Init, Open, Idle
<1>3. ASSUME NEW x \in Row PROVE AddsUp(NewDatabase, x)
  <2>1. Taken(NewDatabase, x) = {}
    BY DEF Taken, NewDatabase, NoRow
  <2>2. Cardinality({}) = 0
    BY FS_EmptySet
  <2>3. Balance(NewDatabase, x) = Opening(x)
    BY DEF Balance, NewDatabase, Opening, Row
  <2> QED BY <2>1, <2>2, <2>3, MoneyType DEF AddsUp
<1> QED BY <1>1, <1>2, <1>3 DEF Init, BooksInv, BalancesAddUp, HoldersAreFresh, IdleIsClean

\* Every step keeps the books.
LEMMA NextBooks == BooksInv /\ [Next]_vars => BooksInv'
<1> SUFFICES ASSUME BooksInv, [Next]_vars PROVE BooksInv'
  OBVIOUS
<1>1. CASE UNCHANGED vars
  <2>1. IInv'
    BY <1>1, NextIInv DEF BooksInv
  <2>2. Open' = Open
    BY <1>1 DEF vars, Open
  <2>3. \A z \in Open : SeesBooks(z)' /\ HoldsLocks(z)' /\ SessionLife(z)'
    BY <1>1 DEF vars, BooksInv, SeesBooks, HoldsLocks, SessionLife
  <2> QED BY <1>1, <2>1, <2>2, <2>3 DEF vars, BooksInv, BalancesAddUp, HoldersAreFresh, IdleIsClean
<1>2. CASE \E s \in Session, t \in Txn : BeginSell(s, t) \/ DispatchWallet(s, t)
  BY <1>2, BeginKeepsBooks, DispatchWalletBooks, Rows
<1>3. CASE \E s \in Cron, t \in Txn : ReapLeave(s, t) \/ ReapSuccess(s, t) \/ ReapRefund(s, t)
  BY <1>3, ReapBooks, Rows
<1>4. CASE \E s \in Session, todo \in SUBSET Txn \ {{}} : BeginDispatch(s, todo)
  BY <1>4, BeginKeepsBooks, Rows
<1>5. CASE \E s \in Cron, todo \in SUBSET Txn \ {{}} : BeginReap(s, todo)
  BY <1>5, BeginKeepsBooks, Rows
<1>6. CASE \E s \in Worker : DispatchBucket(s) \/ DispatchPay(s) \/ Commit(s) \/ Rollback(s)
  BY <1>6, DispatchBucketBooks, DispatchPayBooks, CommitBooks, RollbackBooks
<1>7. CASE \E t \in Txn : Settle(t) \/ Create(t) \/ ConfirmInquiry(t) \/ MarkRefunded(t)
  BY <1>7, SettleBooks, UpdateBooks
<1>8. CASE \E t, clone \in Txn : Retry(t, clone)
  BY <1>8, UpdateBooks
<1>9. CASE \E w \in Wallet, frozen \in BOOLEAN : EditWallet(w, frozen)
  BY <1>9, UpdateBooks
<1> QED BY <1>1, <1>2, <1>3, <1>4, <1>5, <1>6, <1>7, <1>8, <1>9 DEF Next

\* The strengthened invariant holds in every reachable state of every instance.
THEOREM SpecBooks == Spec => []BooksInv
<1> QED BY InitBooks, NextBooks, PTL DEF Spec

\* No update is lost between the sale engine's sessions: a wallet holds its opening balance
\* less the price of every sale debited there and not refunded, the bucket its deposit less
\* the cost of every sale drawn and not restored, and neither is ever overdrawn, for any
\* number of sales, sessions and crons, with batches, crashes and a lossy provider.
THEOREM MoneyAddsUp == Spec => []BalancesAddUp
<1>1. BooksInv => BalancesAddUp
  BY DEF BooksInv
<1> QED BY <1>1, SpecBooks, PTL

\* What a step makes of the committed state of a transaction.
LEMMA StepIsForward ==
  ASSUME BooksInv, [Next]_vars, NEW t \in Txn, db'.txn[t].state # db.txn[t].state
  PROVE  db'.txn[t].state \in Forward[db.txn[t].state]
<1>1. CASE \E s \in Worker : Commit(s)
  <2>1. PICK s \in Worker : Commit(s)
    BY <1>1
  <2>2. /\ job[s].step = "next" /\ written[s] \cap missed[s] = {}
        /\ db'.txn[t] = IF t \in written[s] THEN view[s].txn[t] ELSE db.txn[t]
    BY <2>1, CommitBalances DEF Commit, Fresh
  <2>3. SessionLife(s)
    BY <2>2, OpenFacts
  <2> QED BY <2>2, <2>3 DEF SessionLife
<1>2. CASE \/ \E u \in Txn : Create(u) \/ ConfirmInquiry(u) \/ MarkRefunded(u)
           \/ \E u, clone \in Txn : Retry(u, clone)
           \/ \E w \in Wallet, frozen \in BOOLEAN : EditWallet(w, frozen)
  <2>1. PICK d \in Database, rows \in SUBSET (Row \cup Txn) : Harmless(d, rows)
    BY <1>2, UpdateEffects DEF BooksInv
  <2> QED BY <2>1 DEF Harmless, Update
<1>3. CASE UNCHANGED db
  BY <1>3
<1>4. \/ \E s \in Worker : Commit(s)
      \/ \E u \in Txn : Create(u) \/ ConfirmInquiry(u) \/ MarkRefunded(u)
      \/ \E u, clone \in Txn : Retry(u, clone)
      \/ \E w \in Wallet, frozen \in BOOLEAN : EditWallet(w, frozen)
      \/ UNCHANGED db
  BY DEF Next, vars, BeginSell, BeginDispatch, BeginReap, Begin, DispatchWallet, DispatchBucket,
         DispatchPay, ReapLeave, ReapSuccess, ReapRefund, Rollback, Settle
<1> QED BY <1>1, <1>2, <1>3, <1>4

\* A transaction's committed state only goes forward: nothing is dispatched twice, a success
\* is never taken back and a refund never undone, whichever session, cron or button writes it.
THEOREM LifeGoesForward == Spec => OnlyForward
<1>1. BooksInv /\ [Next]_vars =>
        [\A t \in Txn : db'.txn[t].state # db.txn[t].state
           => db'.txn[t].state \in Forward[db.txn[t].state]]_vars
  BY StepIsForward
<1> QED BY <1>1, SpecBooks, PTL DEF Spec, OnlyForward
-----------------------------------------------------------------------------
(***************************************************************************)
(* The escrow.  What a row has taken is decided by the states, so what a   *)
(* step takes and gives back is the difference of two sets of sales.       *)
(***************************************************************************)
Parties(x)   == IF x = Bucket THEN Prepaid ELSE {t \in Txn : WalletOf[t] = x}
Owing(d)   == {t \in Txn : DealOf(d.txn[t].state) \in Esc!Charged}

\* A state is that of one kind of deal.
LEMMA Deals ==
  ASSUME NEW state \in State
  PROVE  /\ DealOf(state) \in Esc!Status
         /\ DealOf(state) \in Esc!Charged <=> state \in {"in_progress", "success"}
BY DEF State, DealOf, Esc!Status, Esc!Charged

\* The sales a row's balance is short of are its parties that are held or kept.
LEMMA TakenIsCharged ==
  ASSUME NEW d \in Database, \A t \in Txn : RowMoney(t, d.txn[t]), NEW x \in Row
  PROVE  Taken(d, x) = Parties(x) \cap Owing(d)
<1>1. ASSUME NEW t \in Txn PROVE t \in Taken(d, x) <=> t \in Parties(x) \cap Owing(d)
  <2>1. d.txn[t] \in TxnRow /\ d.txn[t].state \in State /\ RowMoney(t, d.txn[t])
    BY Columns DEF TxnRow
  <2>2. t \in Owing(d) <=> d.txn[t].state \in {"in_progress", "success"}
    BY <2>1, Deals DEF Owing
  <2>3. /\ d.txn[t].debited /\ ~d.txn[t].refunded <=> d.txn[t].state \in {"in_progress", "success"}
        /\ d.txn[t].drawn /\ ~d.txn[t].restored <=>
             t \in Prepaid /\ d.txn[t].state \in {"in_progress", "success"}
    BY <2>1 DEF RowMoney, TxnRow, State
  <2> QED BY <2>2, <2>3 DEF Taken, Parties
<1>2. Taken(d, x) \subseteq Txn /\ Owing(d) \subseteq Txn
  BY TakenIsTxn DEF Owing
<1> QED BY <1>1, <1>2

LEMMA CardinalityChanges ==
  ASSUME NEW S, NEW T, IsFiniteSet(S), IsFiniteSet(T)
  PROVE  /\ Cardinality(T) = Cardinality(S) + Cardinality(T \ S) - Cardinality(S \ T)
         /\ Cardinality(S) \in Nat /\ Cardinality(T \ S) \in Nat /\ Cardinality(S \ T) \in Nat
<1>1. /\ Cardinality(S \ T) = Cardinality(S) - Cardinality(S \cap T)
      /\ Cardinality(T \ S) = Cardinality(T) - Cardinality(T \cap S)
      /\ IsFiniteSet(S \ T) /\ IsFiniteSet(T \ S)
  BY FS_Difference
<1>2. S \cap T = T \cap S /\ IsFiniteSet(S \cap T)
  BY FS_Intersection
<1>3. /\ Cardinality(S) \in Nat /\ Cardinality(T) \in Nat /\ Cardinality(S \cap T) \in Nat
      /\ Cardinality(S \ T) \in Nat /\ Cardinality(T \ S) \in Nat
  BY <1>1, <1>2, FS_CardinalityType
<1>4. Cardinality(T \ S) = Cardinality(T) - Cardinality(S \cap T)
  BY <1>1, <1>2
<1> QED BY <1>1, <1>3, <1>4

\* Between two databases that add up, a balance moves by what was taken and given back.
LEMMA BalanceMoves ==
  ASSUME NEW d, NEW e, NEW x \in Row, AddsUp(d, x), AddsUp(e, x)
  PROVE  LET taken == Taken(e, x) \ Taken(d, x)
             back  == Taken(d, x) \ Taken(e, x)
         IN  /\ Balance(e, x) = Balance(d, x) - Take(x) * Cardinality(taken)
                                              + Take(x) * Cardinality(back)
             /\ Balance(e, x) >= 0
<1>1. /\ Cardinality(Taken(e, x)) = Cardinality(Taken(d, x))
                                     + Cardinality(Taken(e, x) \ Taken(d, x))
                                     - Cardinality(Taken(d, x) \ Taken(e, x))
      /\ Cardinality(Taken(d, x)) \in Nat
      /\ Cardinality(Taken(e, x) \ Taken(d, x)) \in Nat
      /\ Cardinality(Taken(d, x) \ Taken(e, x)) \in Nat
  BY TakenIsTxn, CardinalityChanges
<1> DEFINE n == Cardinality(Taken(d, x))
           p == Cardinality(Taken(e, x) \ Taken(d, x))
           q == Cardinality(Taken(d, x) \ Taken(e, x))
<1>4. /\ n \in Nat /\ p \in Nat /\ q \in Nat /\ Balance(d, x) = Opening(x) - Take(x) * n
      /\ Balance(e, x) = Opening(x) - Take(x) * (n + p - q) /\ Balance(e, x) >= 0
  BY <1>1 DEF AddsUp
<1> HIDE DEF n, p, q
<1>2. PICK k \in Nat, o \in Nat : k = Take(x) /\ o = Opening(x)
  BY MoneyType
<1>3. o - k * (n + p - q) = (o - k * n) - k * p + k * q
  BY <1>4
<1>5. Balance(e, x) = Balance(d, x) - Take(x) * p + Take(x) * q /\ Balance(e, x) >= 0
  BY <1>2, <1>3, <1>4
<1> QED BY <1>5 DEF p, q

\* Escrow and sale engine count alike.
LEMMA SameCount == \A S : Esc!Cardinality(S) = Cardinality(S)
BY DEF Cardinality, Esc!Cardinality

\* A step along Forward is a step in the life of a deal, or none.
LEMMA ForwardIsLife ==
  ASSUME NEW from \in State, NEW to \in Forward[from], DealOf(to) # DealOf(from)
  PROVE  DealOf(to) \in Esc!Life[DealOf(from)]
<1>1. to \in State
  BY DEF Forward, State
<1>2. DealOf(from) \in Esc!Status
  BY Deals
<1> QED BY <1>1, <1>2 DEF Forward, State, DealOf, Esc!Life, Esc!Status

\* The sale engine is an escrow: a balance only moves with the states that account for it,
\* a sale is charged once and given back at most once, whichever session, cron or button does
\* it and whatever crashes or is lost.
THEOREM SaleIsAnEscrow == Spec => ImplementsEscrow
<1> DEFINE Deal(d) == [t \in Txn |-> DealOf(d.txn[t].state)]
           Fund(d) == [x \in Row |-> Balance(d, x)]
<1>1. Init => Esc!EscrowInit
  <2> SUFFICES ASSUME Init PROVE Esc!EscrowInit
    OBVIOUS
  <2>1. db = NewDatabase
    BY DEF Init
  <2>2. ASSUME NEW t \in Txn PROVE DealOf(db.txn[t].state) = "open"
    BY <2>1 DEF NewDatabase, NoRow, DealOf
  <2>3. ASSUME NEW x \in Row PROVE Balance(db, x) = Opening(x)
    BY <2>1 DEF NewDatabase, Balance, Opening, Row
  <2> QED BY <2>2, <2>3 DEF Esc!EscrowInit
<1>2. ASSUME BooksInv, BooksInv', [Next]_vars
      PROVE  [Esc!Move]_<<Fund(db), Deal(db)>>
  <2>1. /\ db \in Database /\ db' \in Database
        /\ \A t \in Txn : RowMoney(t, db.txn[t]) /\ RowMoney(t, db'.txn[t])
        /\ \A x \in Row : AddsUp(db, x) /\ AddsUp(db', x)
    BY <1>2 DEF BooksInv, IInv, TypeOK, MoneyFollowsState, BalancesAddUp
  <2>2. \A x \in Row : /\ Taken(db, x) = Parties(x) \cap Owing(db)
                        /\ Taken(db', x) = Parties(x) \cap Owing(db')
    BY <2>1, TakenIsCharged
  <2>3. \A x \in Row :
          /\ Balance(db', x) = Balance(db, x) - Take(x) * Cardinality(Taken(db', x) \ Taken(db, x))
                                              + Take(x) * Cardinality(Taken(db, x) \ Taken(db', x))
          /\ Balance(db', x) >= 0
    BY <2>1, BalanceMoves
  <2>4. \A t \in Txn : db.txn[t].state \in State /\ db'.txn[t].state \in State
    BY <2>1, Columns DEF TxnRow
  <2>5. CASE Deal(db') = Deal(db)
    <3>1. Owing(db') = Owing(db)
      BY <2>5 DEF Owing
    <3>2. \A x \in Row : Balance(db', x) = Balance(db, x)
      BY <2>1, <2>2, <3>1 DEF AddsUp
    <3> QED BY <2>5, <3>2
  <2>6. CASE Deal(db') # Deal(db)
    <3>1. ASSUME NEW t \in Txn, DealOf(db'.txn[t].state) # DealOf(db.txn[t].state)
          PROVE  DealOf(db'.txn[t].state) \in Esc!Life[DealOf(db.txn[t].state)]
      BY <1>2, <2>4, <3>1, StepIsForward, ForwardIsLife
    <3>2. ASSUME NEW x \in Row
          PROVE  /\ {t \in Parties(x) : /\ DealOf(db.txn[t].state) \notin Esc!Charged
                                        /\ DealOf(db'.txn[t].state) \in Esc!Charged}
                     = Taken(db', x) \ Taken(db, x)
                 /\ {t \in Parties(x) : /\ DealOf(db.txn[t].state) \in Esc!Charged
                                        /\ DealOf(db'.txn[t].state) \notin Esc!Charged}
                     = Taken(db, x) \ Taken(db', x)
      <4>1. Parties(x) \subseteq Txn
        BY RowAssumption DEF Parties
      <4> QED BY <2>2, <4>1 DEF Owing
    <3>3. \A t \in Txn : DealOf(db'.txn[t].state) \in Esc!Status
      BY <2>4, Deals
    <3>4. ASSUME NEW x \in Row PROVE Esc!Pays(x)
      <4>1. /\ {t \in Parties(x) : /\ Deal(db)[t] \notin Esc!Charged /\ Deal(db')[t] \in Esc!Charged}
                  = Taken(db', x) \ Taken(db, x)
            /\ {t \in Parties(x) : /\ Deal(db)[t] \in Esc!Charged /\ Deal(db')[t] \notin Esc!Charged}
                  = Taken(db, x) \ Taken(db', x)
        <5>1. Parties(x) \subseteq Txn
          BY RowAssumption DEF Parties
        <5> QED BY <3>2, <5>1
      <4>2. Fund(db)[x] = Balance(db, x) /\ Fund(db')[x] = Balance(db', x)
        OBVIOUS
      <4>3. /\ Fund(db')[x] = Fund(db)[x] - Take(x) * Esc!Cardinality(Taken(db', x) \ Taken(db, x))
                                         + Take(x) * Esc!Cardinality(Taken(db, x) \ Taken(db', x))
            /\ Fund(db')[x] >= 0
        BY <2>3, <4>2, SameCount
      <4>4. /\ [y \in Row |-> Take(y)][x] = Take(x)
            /\ [y \in Row |-> IF y = Bucket THEN Prepaid ELSE {t \in Txn : WalletOf[t] = y}][x]
                 = Parties(x)
        BY DEF Parties
      <4> HIDE DEF Deal, Fund
      <4>5. LET taken == {t \in Parties(x) : Deal(db)[t] \notin Esc!Charged
                                              /\ Deal(db')[t] \in Esc!Charged}
                back  == {t \in Parties(x) : Deal(db)[t] \in Esc!Charged
                                              /\ Deal(db')[t] \notin Esc!Charged}
            IN  /\ Fund(db')[x] = Fund(db)[x] - Take(x) * Esc!Cardinality(taken)
                                              + Take(x) * Esc!Cardinality(back)
                /\ Fund(db')[x] >= 0
        BY <4>1, <4>3
      <4> QED BY <4>4, <4>5 DEF Esc!Pays, Deal, Fund
    <3>5. ASSUME NEW t \in Txn PROVE Esc!Lives(t)
      BY <3>1 DEF Esc!Lives
    <3>6. Deal(db') \in [Txn -> Esc!Status]
      BY <3>3
    <3> QED BY <2>6, <3>4, <3>5, <3>6 DEF Esc!Move
  <2> QED BY <2>5, <2>6
<1>3. BooksInv /\ BooksInv' /\ [Next]_vars => [Esc!Move]_Esc!escrowVars
  BY <1>2 DEF Esc!escrowVars
<1> QED BY <1>1, <1>3, SpecBooks, PTL DEF Spec, ImplementsEscrow, Esc!EscrowSpec
-----------------------------------------------------------------------------
\* What the invariant says of an open session and of the provider's orders.
LEMMA OrderFacts ==
  ASSUME OrderInv
  PROVE  /\ BooksInv /\ IInv /\ db \in Database
         /\ \A s \in Open : s \in Worker /\ SessionOrders(s) /\ SessionLife(s)
         /\ \A t \in Txn : /\ remote[t] \in Orders /\ Total(remote[t]) \in Nat
                           /\ Total(remote[t]) <= 1
                           /\ db.txn[t].state \in State
<1>1. IInv /\ db \in Database
  BY DEF OrderInv, BooksInv, IInv, TypeOK
<1>2. \A t \in Txn : remote[t] \in Orders
  BY <1>1 DEF IInv, TypeOK
<1>3. \A t \in Txn : Total(remote[t]) \in Nat
  BY <1>2 DEF Orders, Total
<1>4. \A t \in Txn : db.txn[t].state \in State
  BY <1>1, Columns DEF TxnRow
<1> QED BY <1>1, <1>2, <1>3, <1>4 DEF OrderInv, BooksInv, Open, OrderedOnce

\* A dispatching session with nothing left to do, or at the call, works on its sale under
\* the lock of the sale's wallet; one with a sale to do waits for it.
LEMMA DispatchFacts ==
  ASSUME OrderInv, NEW s \in Open, job[s].kind = "dispatch"
  PROVE  \E t \in Txn : /\ written[s] \subseteq {t}
                        /\ Waiting(s, t) \/ Working(s, t)
                        /\ job[s].todo # {} => Waiting(s, t) /\ job[s].todo = {t}
                        /\ job[s].todo = {} => Working(s, t)
                        /\ job[s].step \in {"bucket", "pay"} => Working(s, t) /\ job[s].txn = t
<1>1. PICK t \in Txn : written[s] \subseteq {t} /\ (Waiting(s, t) \/ Working(s, t))
  BY OrderFacts DEF SessionOrders
<1> QED BY <1>1 DEF Waiting, Working, Paid

\* The session that has placed the order of t, or is about to, is the only one there is.
LEMMA OneWorker ==
  ASSUME OrderInv, NEW s \in Open, NEW z \in Open, NEW t \in Txn, Working(s, t), z # s
  PROVE  /\ ~Paid(z, t)
         /\ t \in written[z] => Waiting(z, t)
<1>1. ASSUME t \in written[z], job[z].kind = "dispatch", ~Waiting(z, t)
      PROVE  FALSE
  <2>1. Working(z, t)
    BY <1>1, DispatchFacts
  <2> QED BY <2>1 DEF Working
<1>2. ASSUME t \in written[z], job[z].kind = "reap"
      PROVE  FALSE
  BY <1>2, OrderFacts DEF Working, SessionOrders
<1>3. job[z].kind \in Kind
  BY OrderFacts DEF Open, IInv, TypeOK, Job
<1>4. ~(Paid(z, t) /\ Waiting(z, t))
  BY DEF Paid, Waiting
<1> QED BY <1>1, <1>2, <1>3, <1>4 DEF Kind, Paid

\* A transaction whose wallet a session holds for it has no order until that session's call.
LEMMA NoOrderYet ==
  ASSUME OrderInv, NEW s \in Open, NEW t \in Txn, Working(s, t), ~Paid(s, t)
  PROVE  Total(remote[t]) = 0
<1>1. ASSUME Total(remote[t]) > 0 PROVE FALSE
  <2>1. PICK z \in Open : Paid(z, t)
    BY <1>1 DEF OrderInv, Working
  <2> QED BY <2>1, OneWorker
<1> QED BY <1>1, OrderFacts

\* What has left the undispatched states never returns to them.
LEMMA NeverBack ==
  ASSUME OrderInv, [Next]_vars, NEW t \in Txn, db.txn[t].state \notin Undispatched
  PROVE  db'.txn[t].state \notin Undispatched
<1>1. CASE db'.txn[t].state = db.txn[t].state
  BY <1>1
<1>2. CASE db'.txn[t].state # db.txn[t].state
  <2>1. db'.txn[t].state \in Forward[db.txn[t].state]
    BY <1>2, OrderFacts, StepIsForward
  <2>2. db'.txn[t].state \in State
    <3>1. IInv'
      BY OrderFacts, NextIInv
    <3>2. db' \in Database
      BY <3>1 DEF IInv, TypeOK
    <3> QED BY <3>2, Columns DEF TxnRow
  <2> QED BY <2>1, <2>2, OrderFacts, ForwardFacts
<1> QED BY <1>1, <1>2

\* A session goes on when others change rows: what it missed was dispatched already, or
\* with a wallet it does not hold, or did not exist for it.
LEMMA OthersOrders ==
  ASSUME OrderInv, [Next]_vars, NEW z \in Open,
         job'[z] = job[z], view'[z] = view[z], written'[z] = written[z], remote' = remote,
         \A x \in Row : (holder'[x] = z) <=> (holder[x] = z),
         missed[z] \subseteq missed'[z],
         \A t \in Txn \ missed'[z] : db'.txn[t] = db.txn[t],
         \A t \in Txn : t \in missed'[z] \ missed[z] =>
           \/ db.txn[t].state \notin Undispatched
           \/ WalletOf[t] \in missed'[z] /\ holder[WalletOf[t]] # z
           \/ view[z].txn[t].state = "none"
  PROVE  SessionOrders(z)'
<1>1. SessionOrders(z) /\ SessionLife(z)
  BY OrderFacts
<1>2. ASSUME NEW t \in Txn, Waiting(z, t) PROVE Waiting(z, t)'
  <2>1. ASSUME view[z].txn[t].state \in Undispatched, WalletOf[t] \notin missed'[z]
        PROVE  t \notin missed'[z]
    <3>1. t \notin missed[z] /\ view[z].txn[t].state # "none"
      BY <1>2, <2>1 DEF Waiting
    <3>2. \/ view[z].txn[t].state = db.txn[t].state
          \/ view[z].txn[t].state \in Forward[db.txn[t].state]
      BY <1>1, <3>1 DEF SessionLife
    <3>3. view[z].txn[t].state \in State /\ db.txn[t].state \in State
      <4>1. view[z] \in Database
        BY OrderFacts, SessionFacts
      <4> QED BY <4>1, OrderFacts, Columns DEF TxnRow
    <3>4. db.txn[t].state \in Undispatched
      BY <2>1, <3>2, <3>3, ForwardFacts
    <3> QED BY <2>1, <3>1, <3>4
  <2> QED BY <1>2, <2>1 DEF Waiting
<1>3. ASSUME NEW t \in Txn, Working(z, t) PROVE Working(z, t)'
  <2>1. /\ t \notin missed[z] /\ db.txn[t].state \in Undispatched /\ holder[WalletOf[t]] = z
        /\ view[z].txn[t].state # "none"
    BY <1>3 DEF Working, Undispatched
  <2>2. t \notin missed'[z]
    BY <2>1
  <2> QED BY <1>3, <2>1, <2>2, Rows DEF Working, Paid
<1>4. job'[z].kind = "dispatch" =>
        \E t \in Txn : written'[z] \subseteq {t} /\ (Waiting(z, t)' \/ Working(z, t)')
  BY <1>1, <1>2, <1>3 DEF SessionOrders
<1>5. job'[z].kind = "reap" => \A t \in job'[z].todo \cup written'[z] :
        db'.txn[t].state \notin Undispatched /\ view'[z].txn[t].state \notin Undispatched
  <2>1. job[z].todo \subseteq Txn /\ written[z] \subseteq Txn
    BY OrderFacts DEF IInv, TypeOK, Job
  <2> QED BY <1>1, <2>1, NeverBack DEF SessionOrders
<1>6. Lossy \/ \A t \in written'[z] :
        view'[z].txn[t].state \in {"failed", "timeout", "refunded"}
          => remote'[t].delivered = 0 /\ remote'[t].pending = 0
  BY <1>1 DEF SessionOrders
<1> QED BY <1>4, <1>5, <1>6 DEF SessionOrders

\* Where no order is placed and the database stays, only the session that moves matters.
LEMMA LocalOrders ==
  ASSUME OrderInv, [Next]_vars, NEW s \in Worker, UNCHANGED <<db, remote>>,
         \A z \in Worker \ {s} : /\ job'[z] = job[z] /\ view'[z] = view[z]
                                 /\ written'[z] = written[z] /\ missed'[z] = missed[z],
         \A z \in Worker \ {s}, x \in Row : (holder'[x] = z) <=> (holder[x] = z),
         \A t \in Txn : s \in Open => ~Paid(s, t),
         s \in Open' => SessionOrders(s)'
  PROVE  OrderInv'
<1>1. BooksInv'
  BY OrderFacts, NextBooks
<1>2. OrderedOnce' /\ (Lossy \/ NeverGivenAway')
  BY DEF OrderInv, OrderedOnce, NeverGivenAway, Returned
<1>3. \A z \in Worker \ {s} : (z \in Open') <=> (z \in Open)
  BY DEF Open
<1>4. ASSUME NEW t \in Txn, Total(remote'[t]) > 0
      PROVE  db'.txn[t].state \notin Undispatched \/ \E z \in Open' : Paid(z, t)'
  <2>1. CASE db.txn[t].state \notin Undispatched
    BY <2>1
  <2>2. CASE db.txn[t].state \in Undispatched
    <3>1. PICK z \in Open : Paid(z, t)
      BY <1>4, <2>2 DEF OrderInv
    <3>2. z \in Worker \ {s} /\ z \in Open'
      BY <1>3, <3>1 DEF Open
    <3> QED BY <3>1, <3>2 DEF Paid
  <2> QED BY <2>1, <2>2
<1>5. ASSUME NEW z \in Open' PROVE SessionOrders(z)'
  <2>1. CASE z = s
    BY <2>1
  <2>2. CASE z # s
    <3>1. z \in Open /\ z \in Worker \ {s}
      BY <1>3, <2>2 DEF Open
    <3> QED BY <3>1, OthersOrders
  <2> QED BY <2>1, <2>2
<1> QED BY <1>1, <1>2, <1>4, <1>5 DEF OrderInv

\* A session begins with a sale that waits, or with stale sales to reap.
LEMMA BeginOrders ==
  ASSUME OrderInv, Steady, NEW s \in Worker,
         \/ \E t \in Txn : BeginSell(s, t)
         \/ \E todo \in SUBSET Txn \ {{}} : BeginDispatch(s, todo) \/ BeginReap(s, todo)
  PROVE  [Next]_vars => OrderInv'
<1> SUFFICES ASSUME [Next]_vars PROVE OrderInv'
  OBVIOUS
<1>1. ASSUME NEW kind \in Kind, NEW todo, NEW d, Begin(s, kind, todo, d),
             \A z \in Worker \ {s} : written'[z] = written[z]
      PROVE  /\ job'[s].step = "next" /\ job'[s].kind = kind /\ job'[s].todo = todo
             /\ view'[s] = d /\ missed'[s] = {} /\ written[s] = {}
             /\ UNCHANGED <<db, remote, holder, missed>> /\ s \notin Open
             /\ \A z \in Worker \ {s} : job'[z] = job[z] /\ view'[z] = view[z]
  BY <1>1, OrderFacts DEF Begin, IInv, TypeOK, BooksInv, IdleIsClean
<1>2. ASSUME NEW kind \in Kind, NEW todo, NEW d, Begin(s, kind, todo, d),
             \A z \in Worker \ {s} : written'[z] = written[z], SessionOrders(s)'
      PROVE  OrderInv'
  BY <1>1, <1>2, LocalOrders
<1>3. /\ "dispatch" \in Kind /\ "reap" \in Kind
      /\ written \in [Worker -> SUBSET Txn] /\ "pending" \in State
  BY OrderFacts DEF Kind, IInv, TypeOK, State
<1>4. ASSUME NEW t \in Txn, BeginSell(s, t)
      PROVE  OrderInv'
  <2> DEFINE d == Marked(db, t, "pending")
  <2>1. /\ Begin(s, "dispatch", {t}, d) /\ written'[s] = {t}
        /\ \A z \in Worker \ {s} : written'[z] = written[z]
    BY <1>3, <1>4 DEF BeginSell
  <2>2. d.txn[t].state = "pending"
    BY <1>3, OrderFacts, MarkedBooks
  <2> HIDE DEF d
  <2>3. /\ job'[s].step = "next" /\ job'[s].kind = "dispatch" /\ job'[s].todo = {t}
        /\ view'[s] = d /\ missed'[s] = {}
    BY <1>1, <1>3, <2>1
  <2>4. Waiting(s, t)'
    BY <2>1, <2>2, <2>3 DEF Waiting
  <2>5. SessionOrders(s)'
    BY <2>1, <2>2, <2>3, <2>4 DEF SessionOrders
  <2> QED BY <1>2, <1>3, <2>1, <2>5
<1>5. ASSUME NEW todo \in SUBSET Txn \ {{}}, BeginDispatch(s, todo)
      PROVE  OrderInv'
  <2>1. /\ Begin(s, "dispatch", todo, db) /\ written' = written
        /\ Cardinality(todo) = 1 /\ \A t \in todo : db.txn[t].state # "none"
    BY <1>5 DEF BeginDispatch, Steady
  <2>2. PICK t \in Txn : todo = {t}
    <3>1. IsFiniteSet(todo)
      BY TableAssumption, FS_Subset
    <3> QED BY <2>1, <3>1, FS_Singleton
  <2>3. /\ job'[s].step = "next" /\ job'[s].kind = "dispatch" /\ job'[s].todo = {t}
        /\ view'[s] = db /\ missed'[s] = {} /\ written'[s] = {}
    BY <1>1, <1>3, <2>1, <2>2
  <2>4. Waiting(s, t)'
    BY <2>1, <2>2, <2>3 DEF Waiting
  <2>5. SessionOrders(s)'
    BY <2>3, <2>4 DEF SessionOrders
  <2> QED BY <1>2, <1>3, <2>1, <2>5
<1>6. ASSUME NEW todo \in SUBSET Txn \ {{}}, BeginReap(s, todo)
      PROVE  OrderInv'
  <2>1. /\ Begin(s, "reap", todo, db) /\ written' = written
        /\ \A t \in todo : db.txn[t].state = "in_progress"
    BY <1>6 DEF BeginReap
  <2>2. /\ job'[s].kind = "reap" /\ job'[s].todo = todo
        /\ view'[s] = db /\ written'[s] = {} /\ db' = db
    BY <1>1, <1>3, <2>1
  <2>3. SessionOrders(s)'
    BY <2>1, <2>2 DEF SessionOrders, Undispatched
  <2> QED BY <1>2, <1>3, <2>1, <2>3
<1> QED BY <1>4, <1>5, <1>6

\* The wallet is locked for a sale the committed database has not dispatched.
LEMMA DispatchWalletOrders ==
  ASSUME OrderInv, NEW s \in Worker, NEW t \in Txn, DispatchWallet(s, t), [Next]_vars
  PROVE  OrderInv'
<1> DEFINE w == WalletOf[t]
           d == DebitWallet(view[s], t)
<1>1. /\ job[s].step = "next" /\ job[s].kind = "dispatch" /\ t \in job[s].todo
      /\ view[s].txn[t].state \in {"pending", "inquiry_ok"}
      /\ CanLock(s, w)
      /\ holder' = [holder EXCEPT ![w] = s]
      /\ view' = [view EXCEPT ![s] = d]
      /\ written' = [written EXCEPT ![s] = written[s] \cup {t}]
      /\ job' = [job EXCEPT ![s].step = "bucket", ![s].txn = t, ![s].todo = @ \ {t}]
      /\ UNCHANGED <<db, remote, missed>>
  BY DEF DispatchWallet, Dispatchable
<1>2. /\ s \in Open /\ SessionLife(s) /\ SessionOrders(s)
      /\ view[s] \in Database /\ view[s].txn[t] \in TxnRow
  BY <1>1, OrderFacts, SessionFacts DEF Open
<1>3. /\ job \in [Worker -> Job] /\ view \in [Worker -> Database]
      /\ written \in [Worker -> SUBSET Txn] /\ holder \in [Row -> Worker \cup {NoSession}]
  BY OrderFacts DEF IInv, TypeOK
<1>4. Waiting(s, t) /\ job[s].todo = {t} /\ written[s] \subseteq {t}
  BY <1>1, <1>2, DispatchFacts
<1>5. d.txn[t].state = view[s].txn[t].state
  BY <1>2, DebitWalletRow DEF TxnRow
<1> HIDE DEF d
<1>6. /\ view'[s] = d /\ written'[s] = {t} /\ holder'[w] = s
      /\ job'[s] = [job[s] EXCEPT !.step = "bucket", !.txn = t, !.todo = job[s].todo \ {t}]
      /\ \A x \in Row : x # w => holder'[x] = holder[x]
      /\ \A z \in Worker \ {s} : /\ job'[z] = job[z] /\ view'[z] = view[z]
                                 /\ written'[z] = written[z]
  BY <1>1, <1>3, <1>4, Rows
<1>7. /\ job'[s].step = "bucket" /\ job'[s].txn = t /\ job'[s].kind = "dispatch"
      /\ job'[s].todo = {}
  <2>1. job[s] \in Job /\ job[s].kind = "dispatch" /\ job[s].todo = {t}
    BY <1>1, <1>3, <1>4
  <2>2. job'[s] = [job[s] EXCEPT !.step = "bucket", !.txn = t, !.todo = job[s].todo \ {t}]
    BY <1>6
  <2> QED BY <2>1, <2>2 DEF Job
<1>8. t \notin missed[s] /\ db.txn[t].state \in Undispatched
  <2>1. t \notin missed[s]
    BY <1>1, <1>4 DEF Waiting, CanLock, Undispatched
  <2>2. \/ view[s].txn[t].state = db.txn[t].state
        \/ view[s].txn[t].state \in Forward[db.txn[t].state]
    BY <1>2, <2>1 DEF SessionLife
  <2> QED BY <1>1, <1>2, <2>1, <2>2, OrderFacts, ForwardFacts DEF TxnRow, Undispatched
<1>9. Working(s, t)'
  BY <1>1, <1>5, <1>6, <1>7, <1>8 DEF Working
<1>10. SessionOrders(s)'
  BY <1>1, <1>5, <1>6, <1>7, <1>9 DEF SessionOrders
<1>11. \A u \in Txn : ~Paid(s, u)
  BY <1>4 DEF Paid
<1>12. \A z \in Worker \ {s}, x \in Row : (holder'[x] = z) <=> (holder[x] = z)
  BY <1>1, <1>6, Rows DEF CanLock
<1> QED BY <1>1, <1>6, <1>10, <1>11, <1>12, LocalOrders

\* The bucket is another row than any wallet.
LEMMA DispatchBucketOrders ==
  ASSUME OrderInv, NEW s \in Worker, DispatchBucket(s), [Next]_vars
  PROVE  OrderInv'
<1>1. job[s].step = "bucket" /\ s \in Open
  BY DEF DispatchBucket, Open
<1>2. /\ SessionOK(job[s], view[s]) /\ view[s] \in Database /\ job[s] \in Job
      /\ job \in [Worker -> Job] /\ view \in [Worker -> Database]
      /\ holder \in [Row -> Worker \cup {NoSession}]
  BY <1>1, OrderFacts, SessionFacts DEF IInv, TypeOK
<1>3. job[s].kind = "dispatch"
  BY <1>1, <1>2 DEF SessionOK
<1>4. PICK t \in Txn : written[s] \subseteq {t} /\ Working(s, t) /\ job[s].txn = t
  BY <1>1, <1>3, DispatchFacts
<1>5. job[s].todo = {}
  BY <1>1, <1>4 DEF Working, Paid
<1> DEFINE d == IF t \in Prepaid THEN DebitBucket(view[s], t) ELSE view[s]
           e == Marked(d, t, "in_progress")
<1>6. /\ view' = [view EXCEPT ![s] = e]
      /\ job' = [job EXCEPT ![s].step = "pay"]
      /\ holder' = holder \/ (holder' = [holder EXCEPT ![Bucket] = s] /\ CanLock(s, Bucket))
      /\ UNCHANGED <<db, remote, written, missed>>
  BY <1>4 DEF DispatchBucket
<1>7. e.txn[t].state = "in_progress"
  <2>1. d \in Database
    BY <1>2, DebitBucketRow
  <2> HIDE DEF d
  <2> QED BY <2>1, MarkedBooks DEF State
<1> HIDE DEF e
<1>8. /\ view'[s] = e
      /\ job'[s] = [job[s] EXCEPT !.step = "pay"]
      /\ \A x \in Row : x # Bucket => holder'[x] = holder[x]
      /\ \A z \in Worker \ {s} : job'[z] = job[z] /\ view'[z] = view[z]
  BY <1>2, <1>6, Rows
<1>9. job'[s].step = "pay" /\ job'[s].txn = t /\ job'[s].kind = "dispatch" /\ job'[s].todo = {}
  BY <1>2, <1>3, <1>4, <1>5, <1>8 DEF Job
<1>10. holder'[WalletOf[t]] = s
  BY <1>4, <1>8, Rows DEF Working
<1>11. Working(s, t)'
  BY <1>4, <1>6, <1>7, <1>8, <1>9, <1>10 DEF Working
<1>12. SessionOrders(s)'
  BY <1>4, <1>6, <1>7, <1>8, <1>9, <1>11 DEF SessionOrders
<1>13. \A u \in Txn : ~Paid(s, u)
  BY <1>1 DEF Paid
<1>14. \A z \in Worker \ {s}, x \in Row : (holder'[x] = z) <=> (holder[x] = z)
  BY <1>2, <1>6, <1>8, Rows DEF CanLock
<1> QED BY <1>6, <1>8, <1>12, <1>13, <1>14, LocalOrders

\* Nothing is lost, so the order of a transaction that has none else says what happened.
LEMMA PayFacts ==
  ASSUME NEW o \in Orders, Total(o) = 0, NEW outcome \in PayOutcomes(o)
  PROVE  /\ outcome[1] \in Orders /\ Total(outcome[1]) <= 1
         /\ outcome[2] \in {"yes", "unsettled", "no"}
         /\ Lossy \/ (outcome[2] = "no" => outcome[1].delivered = 0 /\ outcome[1].pending = 0)
<1> DEFINE p == [o EXCEPT !.pending = o.pending + 1]
           q == [o EXCEPT !.delivered = o.delivered + 1]
           r == [o EXCEPT !.rejected = o.rejected + 1]
<1>1. o.pending = 0 /\ o.delivered = 0 /\ o.rejected = 0
  BY DEF Orders, Total
<1>2. /\ p \in Orders /\ Total(p) = 1
      /\ q \in Orders /\ Total(q) = 1
      /\ r \in Orders /\ Total(r) = 1 /\ r.delivered = 0 /\ r.pending = 0
  BY <1>1 DEF Orders, Total
<1>3. \/ outcome \in {<<p, "unsettled">>, <<q, "yes">>, <<r, "no">>}
      \/ Lossy /\ outcome \in {<<p, "no">>, <<q, "no">>, <<r, "no">>, <<o, "no">>}
  <2> HIDE DEF p, q, r
  <2>1. PayOutcomes(o) =
          LET taken == {<<p, "unsettled">>, <<q, "yes">>, <<r, "no">>}
          IN  taken \cup (IF Lossy THEN {<<u[1], "no">> : u \in taken} \cup {<<o, "no">>} ELSE {})
    BY DEF PayOutcomes, p, q, r
  <2> QED BY <2>1
<1> HIDE DEF p, q, r
<1> QED BY <1>2, <1>3

\* The answer decides the state: only a refusal returns the money.
LEMMA ResolvedState ==
  ASSUME NEW d \in Database, NEW t \in Txn, NEW verdict \in {"yes", "unsettled", "no"},
         RowMoney(t, d.txn[t]), d.txn[t].state = "in_progress"
  PROVE  /\ Resolved(d, t, verdict).txn[t].state \in {"success", "in_progress", "failed"}
         /\ Resolved(d, t, verdict).txn[t].state = "failed" => verdict = "no"
<1>1. CASE verdict = "yes"
  <2>1. Resolved(d, t, verdict) = Marked(d, t, "success")
    BY <1>1 DEF Resolved
  <2>2. Marked(d, t, "success").txn[t].state = "success"
    BY MarkedBooks DEF State
  <2> QED BY <2>1, <2>2
<1>2. CASE verdict = "unsettled"
  BY <1>2 DEF Resolved
<1>3. CASE verdict = "no"
  <2>1. Resolved(d, t, verdict) = Marked(Refund(d, t), t, "failed")
    BY <1>3 DEF Resolved
  <2>2. Marked(Refund(d, t), t, "failed").txn[t].state = "failed"
    BY RefundMarkedBooks DEF State
  <2> QED BY <1>3, <2>1, <2>2
<1> QED BY <1>1, <1>2, <1>3

\* The call: no order was there before it, and the session keeps the wallet to its commit.
LEMMA DispatchPayOrders ==
  ASSUME OrderInv, NEW s \in Worker, DispatchPay(s), [Next]_vars
  PROVE  OrderInv'
<1>1. job[s].step = "pay" /\ s \in Open
  BY DEF DispatchPay, Open
<1>2. /\ SessionOK(job[s], view[s]) /\ view[s] \in Database /\ job[s] \in Job
      /\ job \in [Worker -> Job] /\ view \in [Worker -> Database]
      /\ remote \in [Txn -> Orders]
  BY <1>1, OrderFacts, SessionFacts DEF IInv, TypeOK
<1>3. job[s].kind = "dispatch"
  BY <1>1, <1>2 DEF SessionOK
<1>4. PICK t \in Txn : written[s] \subseteq {t} /\ Working(s, t) /\ job[s].txn = t
  BY <1>1, <1>3, DispatchFacts
<1>5. /\ job[s].todo = {} /\ t \in written[s] /\ view[s].txn[t].state = "in_progress"
      /\ RowMoney(t, view[s].txn[t]) /\ ~Paid(s, t) /\ \A u \in Txn : ~Paid(s, u)
  BY <1>1, <1>2, <1>4, OrderFacts, OpenFacts DEF Working, Paid, SessionOK, HoldsLocks
<1>6. Total(remote[t]) = 0 /\ remote[t] \in Orders
  BY <1>1, <1>2, <1>4, <1>5, NoOrderYet
<1>7. PICK outcome \in PayOutcomes(remote[t]) :
        /\ remote' = [remote EXCEPT ![t] = outcome[1]]
        /\ view' = [view EXCEPT ![s] = Resolved(view[s], t, outcome[2])]
  BY <1>4, <1>5 DEF DispatchPay
<1>8. job' = [job EXCEPT ![s].step = "next", ![s].txn = NoTxn]
  BY DEF DispatchPay
<1>9. UNCHANGED <<db, holder, written, missed>>
  BY DEF DispatchPay
<1>10. /\ outcome[1] \in Orders /\ Total(outcome[1]) <= 1
       /\ outcome[2] \in {"yes", "unsettled", "no"}
       /\ Lossy \/ (outcome[2] = "no" => outcome[1].delivered = 0 /\ outcome[1].pending = 0)
  BY <1>6, PayFacts
<1> DEFINE e == Resolved(view[s], t, outcome[2])
<1>11. e.txn[t].state \in {"success", "in_progress", "failed"}
       /\ (e.txn[t].state = "failed" => outcome[2] = "no")
  BY <1>2, <1>5, <1>10, ResolvedState
<1> HIDE DEF e
<1>12. /\ remote'[t] = outcome[1] /\ \A u \in Txn : u # t => remote'[u] = remote[u]
       /\ view'[s] = e
       /\ job'[s] = [job[s] EXCEPT !.step = "next", !.txn = NoTxn]
       /\ \A z \in Worker \ {s} : job'[z] = job[z] /\ view'[z] = view[z]
  BY <1>2, <1>7, <1>8 DEF e
<1>13. job'[s].step = "next" /\ job'[s].kind = "dispatch" /\ job'[s].todo = {}
  BY <1>2, <1>3, <1>5, <1>12 DEF Job
<1>14. Open' = Open
  BY <1>1, <1>12, <1>13 DEF Open
<1>15. Paid(s, t)' /\ Working(s, t)'
  <2>1. Paid(s, t)'
    BY <1>5, <1>9, <1>13 DEF Paid
  <2>2. view'[s].txn[t].state \notin Undispatched
    BY <1>11, <1>12 DEF Undispatched
  <2> QED BY <1>4, <1>9, <2>1, <2>2 DEF Working
<1>16. SessionOrders(s)'
  <2>1. Lossy \/ \A u \in written'[s] : view'[s].txn[u].state \in {"failed", "timeout", "refunded"}
          => remote'[u].delivered = 0 /\ remote'[u].pending = 0
    BY <1>4, <1>9, <1>10, <1>11, <1>12
  <2> QED BY <1>4, <1>9, <1>13, <1>15, <2>1 DEF SessionOrders
<1>17. ASSUME NEW z \in Open, z # s PROVE SessionOrders(z)'
  <2>1. /\ SessionOrders(z) /\ job'[z] = job[z] /\ view'[z] = view[z]
        /\ written[z] \subseteq Txn
    BY <1>12, <1>17, OrderFacts DEF IInv, TypeOK
  <2>2. t \in written[z] => view[z].txn[t].state = "pending"
    BY <1>1, <1>4, <1>17, OneWorker DEF Waiting
  <2>3. Lossy \/ \A u \in written'[z] : view'[z].txn[u].state \in {"failed", "timeout", "refunded"}
          => remote'[u].delivered = 0 /\ remote'[u].pending = 0
    BY <1>9, <1>12, <2>1, <2>2 DEF SessionOrders
  <2>4. \A u \in Txn : (Waiting(z, u) => Waiting(z, u)') /\ (Working(z, u) => Working(z, u)')
    BY <1>9, <2>1 DEF Waiting, Working, Paid
  <2> QED BY <1>9, <2>1, <2>3, <2>4 DEF SessionOrders
<1>18. OrderedOnce'
  BY <1>10, <1>12, OrderFacts DEF OrderedOnce
<1>19. ASSUME NEW u \in Txn, Total(remote'[u]) > 0
       PROVE  db'.txn[u].state \notin Undispatched \/ \E z \in Open' : Paid(z, u)'
  <2>1. CASE u = t
    BY <1>1, <1>14, <1>15, <2>1
  <2>2. CASE u # t
    <3>1. db.txn[u].state \notin Undispatched \/ \E z \in Open : Paid(z, u)
      BY <1>12, <1>19, <2>2 DEF OrderInv
    <3>2. ASSUME NEW z \in Open, Paid(z, u) PROVE Paid(z, u)'
      BY <1>5, <1>9, <1>12, <3>2, OrderFacts DEF Paid
    <3> QED BY <1>9, <1>14, <3>1, <3>2
  <2> QED BY <2>1, <2>2
<1>20. Lossy \/ NeverGivenAway'
  <2>1. ~Returned(t)
    BY <1>4 DEF Working, Returned, Undispatched
  <2>2. ASSUME NEW u \in Txn, NeverGivenAway, Returned(u)'
        PROVE  remote'[u].delivered = 0 /\ remote'[u].pending = 0
    BY <1>9, <1>12, <2>1, <2>2 DEF Returned, NeverGivenAway
  <2> QED BY <2>2 DEF NeverGivenAway, OrderInv
<1>21. BooksInv'
  BY OrderFacts, NextBooks
<1> QED BY <1>14, <1>16, <1>17, <1>18, <1>19, <1>20, <1>21 DEF OrderInv

\* The reaper works on sales that were dispatched, and returns the money of a refused one.
LEMMA ReapOrders ==
  ASSUME OrderInv, NEW s \in Worker, NEW t \in Txn,
         ReapLeave(s, t) \/ ReapSuccess(s, t) \/ ReapRefund(s, t), [Next]_vars
  PROVE  OrderInv'
<1>1. /\ job[s].step = "next" /\ job[s].kind = "reap" /\ t \in job[s].todo /\ s \in Open
      /\ job' = [job EXCEPT ![s].todo = job[s].todo \ {t}]
      /\ UNCHANGED <<db, remote, missed>>
  BY DEF ReapLeave, ReapSuccess, ReapRefund, Open
<1>2. /\ SessionOK(job[s], view[s]) /\ view[s] \in Database /\ job[s] \in Job
      /\ job \in [Worker -> Job] /\ view \in [Worker -> Database] /\ SessionOrders(s)
      /\ written \in [Worker -> SUBSET Txn] /\ holder \in [Row -> Worker \cup {NoSession}]
  BY <1>1, OrderFacts, SessionFacts DEF IInv, TypeOK
<1>3. /\ job'[s].kind = "reap" /\ job'[s].todo = job[s].todo \ {t}
      /\ \A z \in Worker \ {s} : job'[z] = job[z]
  BY <1>1, <1>2 DEF Job
<1>4. /\ view[s].txn[t].state = "in_progress" /\ RowMoney(t, view[s].txn[t])
      /\ \A u \in job[s].todo \cup written[s] :
           db.txn[u].state \notin Undispatched /\ view[s].txn[u].state \notin Undispatched
  BY <1>1, <1>2 DEF SessionOK, SessionOrders
<1>5. \A u \in Txn : ~Paid(s, u)
  BY <1>1 DEF Paid
<1>6. \A z \in Worker \ {s}, x \in Row : (holder'[x] = z) <=> (holder[x] = z)
  <2>1. holder' = holder \/ ReapRefund(s, t)
    BY DEF ReapLeave, ReapSuccess
  <2>2. ASSUME ReapRefund(s, t), NEW x \in Row
        PROVE  holder'[x] = holder[x] \/ (holder'[x] = s /\ holder[x] \in {s, NoSession})
    BY <2>2 DEF ReapRefund, CanLock
  <2> QED BY <2>1, <2>2, Rows
<1>7. CASE ReapLeave(s, t)
  <2>1. view' = view /\ written' = written
    BY <1>7 DEF ReapLeave
  <2>2. SessionOrders(s)'
    BY <1>1, <1>2, <1>3, <2>1 DEF SessionOrders
  <2> QED BY <1>1, <1>3, <1>5, <1>6, <2>1, <2>2, LocalOrders
<1>8. ASSUME NEW d \in Database, view' = [view EXCEPT ![s] = d],
             written' = [written EXCEPT ![s] = written[s] \cup {t}],
             \A u \in Txn : u # t => d.txn[u] = view[s].txn[u],
             d.txn[t].state \notin Undispatched,
             \/ Lossy
             \/ d.txn[t].state = "success"
             \/ remote[t].delivered = 0 /\ remote[t].pending = 0
      PROVE  OrderInv'
  <2>1. /\ view'[s] = d /\ written'[s] = written[s] \cup {t}
        /\ \A z \in Worker \ {s} : view'[z] = view[z] /\ written'[z] = written[z]
    BY <1>2, <1>8
  <2>2. ASSUME NEW u \in job'[s].todo \cup written'[s]
        PROVE  db'.txn[u].state \notin Undispatched /\ view'[s].txn[u].state \notin Undispatched
    <3>1. u \in Txn /\ (u = t \/ u \in job[s].todo \cup written[s])
      BY <1>2, <1>3, <2>1 DEF Job
    <3> QED BY <1>1, <1>4, <1>8, <2>1, <3>1
  <2>3. ASSUME ~Lossy, NEW u \in written'[s],
               view'[s].txn[u].state \in {"failed", "timeout", "refunded"}
        PROVE  remote'[u].delivered = 0 /\ remote'[u].pending = 0
    <3>1. CASE u = t
      BY <1>1, <1>8, <2>1, <2>3, <3>1
    <3>2. CASE u # t
      BY <1>1, <1>2, <1>8, <2>1, <2>3, <3>2 DEF SessionOrders
    <3> QED BY <3>1, <3>2
  <2>4. SessionOrders(s)'
    BY <1>3, <2>2, <2>3 DEF SessionOrders
  <2> QED BY <1>1, <1>3, <1>5, <1>6, <2>1, <2>4, LocalOrders
<1>9. CASE ReapSuccess(s, t)
  <2> DEFINE d == Marked(view[s], t, "success")
  <2>1. view' = [view EXCEPT ![s] = d] /\ written' = [written EXCEPT ![s] = written[s] \cup {t}]
    BY <1>9 DEF ReapSuccess
  <2>2. /\ d \in Database /\ d.txn[t].state = "success"
        /\ \A u \in Txn : u # t => d.txn[u] = view[s].txn[u]
    BY <1>2, MarkedBooks DEF State
  <2> HIDE DEF d
  <2>3. d.txn[t].state \notin Undispatched
    BY <2>2 DEF Undispatched
  <2> QED BY <1>8, <2>1, <2>2, <2>3
<1>10. CASE ReapRefund(s, t)
  <2> DEFINE d == Marked(Refund(view[s], t), t, "timeout")
  <2>1. view' = [view EXCEPT ![s] = d] /\ written' = [written EXCEPT ![s] = written[s] \cup {t}]
    BY <1>10 DEF ReapRefund
  <2>2. /\ d \in Database /\ d.txn[t].state = "timeout"
        /\ \A u \in Txn : u # t => d.txn[u] = view[s].txn[u]
    BY <1>2, <1>4, RefundMarkedBooks DEF State
  <2> HIDE DEF d
  <2>3. Lossy \/ (remote[t].delivered = 0 /\ remote[t].pending = 0)
    <3>1. Refused(t) /\ remote[t] \in Orders /\ Total(remote[t]) <= 1
      BY <1>10, OrderFacts DEF ReapRefund
    <3>2. Lossy \/ remote[t].rejected > 0 \/ Total(remote[t]) = 0
      BY <3>1 DEF Refused, StatusOutcomes, Verdicts
    <3> QED BY <3>1, <3>2 DEF Orders, Total
  <2>4. d.txn[t].state \notin Undispatched
    BY <2>2 DEF Undispatched
  <2> QED BY <1>8, <2>1, <2>2, <2>3, <2>4
<1> QED BY <1>7, <1>9, <1>10

\* Where nothing crashes, a session that has placed its order cannot fail any more.
LEMMA RollbackOrders ==
  ASSUME OrderInv, Steady, NEW s \in Worker, Rollback(s), [Next]_vars
  PROVE  OrderInv'
<1>1. /\ s \in Open /\ Raises(s) /\ Release(s) /\ UNCHANGED <<db, remote>>
      /\ missed' = [missed EXCEPT ![s] = {}]
  BY DEF Rollback, Steady
<1>2. BooksInv /\ missed \in [Worker -> SUBSET (Row \cup Txn)]
  BY OrderFacts DEF IInv, TypeOK
<1>3. /\ Open' = Open \ {s}
      /\ \A z \in Worker \ {s} : /\ job'[z] = job[z] /\ view'[z] = view[z]
                                 /\ written'[z] = written[z] /\ missed'[z] = missed[z]
      /\ \A x \in Row : holder'[x] = IF holder[x] = s THEN NoSession ELSE holder[x]
  BY <1>1, <1>2, ReleaseFacts
<1>4. \A z \in Worker \ {s}, x \in Row : (holder'[x] = z) <=> (holder[x] = z)
  BY <1>3, Rows
<1>5. ASSUME NEW t \in Txn, Paid(s, t) PROVE FALSE
  <2>1. job[s].step = "next" /\ job[s].kind = "dispatch" /\ job[s].todo = {}
    BY <1>5 DEF Paid
  <2>2. PICK u \in Txn : written[s] \subseteq {u} /\ Working(s, u)
    BY <1>1, <2>1, DispatchFacts
  <2>3. Fresh(s)
    BY <2>2 DEF Working, Fresh
  <2> QED BY <1>1, <2>1, <2>3 DEF Raises
<1> QED BY <1>1, <1>3, <1>4, <1>5, LocalOrders

\* A commit makes public what it did under its locks.
LEMMA CommitOrders ==
  ASSUME OrderInv, NEW s \in Worker, Commit(s), [Next]_vars
  PROVE  OrderInv'
<1>1. /\ job[s].step = "next" /\ job[s].todo = {} /\ s \in Open
      /\ Release(s) /\ missed' = Stale(Held(s) \cup written[s], s) /\ remote' = remote
  BY DEF Commit, Open
<1>2. BooksInv /\ BooksInv' /\ job[s] \in Job /\ written[s] \subseteq Txn
  BY <1>1, OrderFacts, NextBooks, OpenFacts
<1>3. /\ Open' = Open \ {s}
      /\ \A z \in Worker \ {s} : /\ job'[z] = job[z] /\ view'[z] = view[z]
                                 /\ written'[z] = written[z]
      /\ \A z \in Open', x \in Row : (holder'[x] = z) <=> (holder[x] = z)
  BY <1>1, <1>2, ReleaseFacts
<1>4. \A t \in Txn : db'.txn[t] = IF t \in written[s] THEN view[s].txn[t] ELSE db.txn[t]
  BY <1>2, CommitBalances
<1>5. \A z \in Open' : missed'[z] = missed[z] \cup Held(s) \cup written[s]
  BY <1>1, <1>3 DEF Stale, Open
<1>6. ASSUME NEW t \in written[s], job[s].kind = "dispatch"
      PROVE  /\ view[s].txn[t].state \notin Undispatched
             /\ WalletOf[t] \in Held(s) /\ t \in Txn
  <2>1. Working(s, t) /\ t \in Txn
    BY <1>1, <1>6, DispatchFacts
  <2> QED BY <1>1, <2>1, Rows DEF Working, Held
<1>7. ASSUME NEW t \in written[s], job[s].kind # "dispatch"
      PROVE  db.txn[t].state \notin Undispatched
  BY <1>1, <1>2, <1>7, OrderFacts DEF Job, Kind, SessionOrders
<1>8. ASSUME NEW z \in Open' PROVE SessionOrders(z)'
  <2>1. z \in Open /\ z \in Worker \ {s}
    BY <1>3 DEF Open
  <2>2. \A t \in Txn \ missed'[z] : db'.txn[t] = db.txn[t]
    BY <1>4, <1>5
  <2>3. ASSUME NEW t \in Txn, t \in missed'[z] \ missed[z]
        PROVE  \/ db.txn[t].state \notin Undispatched
               \/ WalletOf[t] \in missed'[z] /\ holder[WalletOf[t]] # z
    <3>1. t \in written[s]
      BY <1>5, <2>3, Rows DEF Held
    <3> QED BY <1>5, <1>6, <1>7, <2>1, <3>1 DEF Held
  <2> QED BY <1>1, <1>3, <1>5, <2>1, <2>2, <2>3, OthersOrders
<1>9. ASSUME NEW t \in Txn, Total(remote'[t]) > 0
      PROVE  db'.txn[t].state \notin Undispatched \/ \E z \in Open' : Paid(z, t)'
  <2>1. CASE db.txn[t].state \notin Undispatched
    BY <2>1, NeverBack
  <2>2. CASE db.txn[t].state \in Undispatched
    <3>1. PICK z \in Open : Paid(z, t)
      BY <1>1, <1>9, <2>2 DEF OrderInv
    <3>2. CASE z = s
      BY <1>4, <1>6, <3>1, <3>2 DEF Paid
    <3>3. CASE z # s
      BY <1>3, <3>1, <3>3 DEF Open, Paid
    <3> QED BY <3>2, <3>3
  <2> QED BY <2>1, <2>2
<1>10. OrderedOnce'
  BY <1>1 DEF OrderInv, OrderedOnce
<1>11. ASSUME ~Lossy PROVE NeverGivenAway'
  <2>1. NeverGivenAway /\ SessionOrders(s)
    BY <1>1, <1>11 DEF OrderInv
  <2> QED BY <1>1, <1>4, <1>11, <2>1 DEF SessionOrders, NeverGivenAway, Returned
<1> QED BY <1>2, <1>8, <1>9, <1>10, <1>11 DEF OrderInv

\* An update leaves the orders what they are if it neither dispatches a sale nor returns
\* its money.
LEMMA UpdateOrders ==
  ASSUME OrderInv, [Next]_vars, NEW d, NEW rows, Update(d, rows),
         \A t \in Txn \ rows : d.txn[t] = db.txn[t],
         \A t \in Txn : t \in rows =>
           \/ db.txn[t].state \notin Undispatched
           \/ \A z \in Open : view[z].txn[t].state = "none",
         \A t \in Txn : d.txn[t].state \in {"failed", "timeout", "refunded"} => Returned(t)
  PROVE  OrderInv'
<1>1. /\ db' = d /\ UNCHANGED <<remote, holder, job, view, written>> /\ Open' = Open
      /\ \A z \in Open : missed'[z] = missed[z] \cup rows
  BY DEF Update, Open
<1>2. BooksInv'
  BY OrderFacts, NextBooks
<1>3. ASSUME NEW z \in Open PROVE SessionOrders(z)'
  BY <1>1, OthersOrders
<1>4. ASSUME NEW t \in Txn, Total(remote'[t]) > 0
      PROVE  db'.txn[t].state \notin Undispatched \/ \E z \in Open' : Paid(z, t)'
  <2>1. CASE db.txn[t].state \notin Undispatched
    BY <2>1, NeverBack
  <2>2. CASE db.txn[t].state \in Undispatched
    BY <1>1, <1>4, <2>2 DEF OrderInv, Paid
  <2> QED BY <2>1, <2>2
<1>5. OrderedOnce' /\ (Lossy \/ NeverGivenAway')
  BY <1>1 DEF OrderInv, OrderedOnce, NeverGivenAway, Returned
<1> QED BY <1>1, <1>2, <1>3, <1>4, <1>5 DEF OrderInv

\* Creating, marking, copying and freezing are such updates.
LEMMA RequestOrders ==
  ASSUME OrderInv, [Next]_vars,
         \/ \E t \in Txn : Create(t) \/ MarkRefunded(t)
         \/ \E t, clone \in Txn : Retry(t, clone)
         \/ \E w \in Wallet, frozen \in BOOLEAN : EditWallet(w, frozen)
  PROVE  OrderInv'
<1>1. /\ db \in Database /\ db.txn \in [Txn -> TxnRow]
      /\ \A t \in Txn : RowMoney(t, db.txn[t])
  BY OrderFacts, Columns DEF IInv, MoneyFollowsState
<1>2. ASSUME NEW t \in Txn, Create(t) PROVE OrderInv'
  <2> DEFINE d == Marked(db, t, "pending")
  <2>1. Update(d, {t}) /\ \A z \in Open : view[z].txn[t].state = "none"
    BY <1>2 DEF Create
  <2>2. d.txn[t].state = "pending" /\ \A u \in Txn : u # t => d.txn[u] = db.txn[u]
    BY <1>1, MarkedBooks DEF State
  <2> HIDE DEF d
  <2> QED BY <2>1, <2>2, UpdateOrders DEF Returned
<1>3. ASSUME NEW t \in Txn, MarkRefunded(t) PROVE OrderInv'
  <2> DEFINE e == Refund(db, t)
             d == Marked(e, t, "refunded")
  <2>1. PICK rows \in SUBSET Row : Update(d, rows \cup {t})
    BY <1>3, Rows DEF MarkRefunded
  <2>2. Returned(t) /\ db.txn[t].state \notin Undispatched
    BY <1>3 DEF MarkRefunded, Returned, Undispatched
  <2>3. e \in Database /\ \A u \in Txn : u # t => e.txn[u] = db.txn[u]
    BY <1>1, <2>2, RefundRow, <1>3 DEF MarkRefunded
  <2> HIDE DEF e
  <2>4. \A u \in Txn : u # t => d.txn[u] = db.txn[u]
    BY <2>3, MarkedBooks DEF State
  <2> HIDE DEF d
  <2>5. \A u \in Txn : u \in rows \cup {t} => u = t
    BY <2>1, Rows
  <2>6. \A u \in Txn : d.txn[u].state \in {"failed", "timeout", "refunded"} => Returned(u)
    BY <2>2, <2>4 DEF Returned
  <2>7. \A u \in Txn \ (rows \cup {t}) : d.txn[u] = db.txn[u]
    BY <2>4
  <2>8. \A u \in Txn : u \in rows \cup {t} => db.txn[u].state \notin Undispatched
    BY <2>2, <2>5
  <2> QED BY <2>1, <2>6, <2>7, <2>8, UpdateOrders
<1>4. ASSUME NEW t \in Txn, NEW clone \in Txn, Retry(t, clone) PROVE OrderInv'
  <2> DEFINE row == [NoRow EXCEPT !.state = "pending", !.origin = t]
             d == [db EXCEPT !.txn[clone] = row]
  <2>1. Update(d, {clone}) /\ \A z \in Open : view[z].txn[clone].state = "none"
    BY <1>4 DEF Retry
  <2>2. row.state = "pending"
    BY DEF NoRow
  <2> HIDE DEF row
  <2>3. d.txn[clone].state = "pending" /\ \A u \in Txn : u # clone => d.txn[u] = db.txn[u]
    BY <1>1, <2>2 DEF Database
  <2> HIDE DEF d
  <2> QED BY <2>1, <2>3, UpdateOrders DEF Returned
<1>5. ASSUME NEW w \in Wallet, NEW frozen \in BOOLEAN, EditWallet(w, frozen) PROVE OrderInv'
  <2> DEFINE d == [db EXCEPT !.wallet[w].frozen = frozen]
  <2>1. Update(d, {w})
    BY <1>5 DEF EditWallet
  <2>2. d.txn = db.txn
    BY <1>1 DEF Database
  <2>3. w \notin Txn
    BY RowAssumption
  <2> HIDE DEF d
  <2> QED BY <2>1, <2>2, <2>3, UpdateOrders DEF Returned
<1> QED BY <1>2, <1>3, <1>4, <1>5

\* The one order of a transaction is settled only while it is pending.
LEMMA SettleOrders ==
  ASSUME OrderInv, NEW t \in Txn, Settle(t), [Next]_vars
  PROVE  OrderInv'
<1> DEFINE o == remote[t]
           p == remote'[t]
<1>1. o \in Orders /\ remote \in [Txn -> Orders] /\ BooksInv'
  BY OrderFacts, NextBooks DEF IInv, TypeOK
<1>2. /\ o.pending > 0 /\ UNCHANGED <<db, holder, job, view, written, missed>>
      /\ \/ p = [o EXCEPT !.pending = o.pending - 1, !.delivered = o.delivered + 1]
         \/ p = [o EXCEPT !.pending = o.pending - 1, !.rejected = o.rejected + 1]
      /\ \A u \in Txn : u # t => remote'[u] = remote[u]
  BY <1>1 DEF Settle
<1>3. Total(p) = Total(o) /\ o.pending # 0
  <2>1. /\ o.pending \in Nat /\ o.delivered \in Nat /\ o.rejected \in Nat
        /\ o = [pending |-> o.pending, delivered |-> o.delivered, rejected |-> o.rejected]
    BY <1>1 DEF Orders
  <2>2. /\ p.pending = o.pending - 1
        /\ \/ p.delivered = o.delivered + 1 /\ p.rejected = o.rejected
           \/ p.delivered = o.delivered /\ p.rejected = o.rejected + 1
    BY <1>2, <2>1
  <2> QED BY <1>2, <2>1, <2>2 DEF Total
<1> HIDE DEF o, p
<1>4. \A u \in Txn : Total(remote'[u]) = Total(remote[u])
  BY <1>2, <1>3 DEF o, p
<1>5. Open' = Open
  BY <1>2 DEF Open
<1>6. OrderedOnce'
  BY <1>4 DEF OrderInv, OrderedOnce
<1>7. ASSUME NEW u \in Txn, Total(remote'[u]) > 0
      PROVE  db'.txn[u].state \notin Undispatched \/ \E z \in Open' : Paid(z, u)'
  BY <1>2, <1>4, <1>5, <1>7 DEF OrderInv, Paid
<1>8. ASSUME NEW z \in Open PROVE SessionOrders(z)'
  <2>1. SessionOrders(z)
    BY OrderFacts
  <2>2. ASSUME NEW u \in written[z], ~Lossy,
               view[z].txn[u].state \in {"failed", "timeout", "refunded"}
        PROVE  remote'[u].delivered = 0 /\ remote'[u].pending = 0
    <3>1. remote[u].delivered = 0 /\ remote[u].pending = 0
      BY <2>1, <2>2 DEF SessionOrders
    <3>2. u # t /\ u \in Txn
      BY <1>3, <3>1, OrderFacts DEF o, IInv, TypeOK, Open
    <3> QED BY <1>2, <3>1, <3>2
  <2>3. \A u \in Txn : (Waiting(z, u) => Waiting(z, u)') /\ (Working(z, u) => Working(z, u)')
    BY <1>2 DEF Waiting, Working, Paid
  <2> QED BY <1>2, <2>1, <2>2, <2>3 DEF SessionOrders
<1>9. ASSUME ~Lossy PROVE NeverGivenAway'
  <2>1. NeverGivenAway
    BY <1>9 DEF OrderInv
  <2>2. ~Returned(t)
    BY <1>3, <2>1 DEF NeverGivenAway, o
  <2> QED BY <1>2, <2>1, <2>2 DEF NeverGivenAway, Returned
<1> QED BY <1>1, <1>5, <1>6, <1>7, <1>8, <1>9 DEF OrderInv

\* No session is open and nothing is ordered at the start.
LEMMA InitOrders == Init => OrderInv
<1> SUFFICES ASSUME Init PROVE OrderInv
  OBVIOUS
<1>1. BooksInv /\ Open = {}
  BY InitBooks DEF Init, Open, Idle
<1>2. \A t \in Txn : /\ remote[t] = NoOrders /\ Total(remote[t]) = 0
                     /\ remote[t].delivered = 0 /\ remote[t].pending = 0
  BY DEF Init, NoOrders, Total
<1> QED BY <1>1, <1>2 DEF OrderInv, OrderedOnce, NeverGivenAway

LEMMA NextOrders == Steady /\ OrderInv /\ [Next]_vars => OrderInv'
<1> SUFFICES ASSUME Steady, OrderInv, [Next]_vars PROVE OrderInv'
  OBVIOUS
<1>1. ASSUME NEW s \in Session, NEW t \in Txn, BeginSell(s, t) \/ DispatchWallet(s, t)
      PROVE  OrderInv'
  BY <1>1, Rows, BeginOrders, DispatchWalletOrders
<1>2. ASSUME NEW s \in Cron, NEW t \in Txn,
             ReapLeave(s, t) \/ ReapSuccess(s, t) \/ ReapRefund(s, t)
      PROVE  OrderInv'
  BY <1>2, Rows, ReapOrders
<1>3. ASSUME NEW s \in Worker, NEW todo \in SUBSET Txn \ {{}},
             BeginDispatch(s, todo) \/ BeginReap(s, todo)
      PROVE  OrderInv'
  BY <1>3, BeginOrders
<1>4. ASSUME NEW s \in Worker, DispatchBucket(s) \/ DispatchPay(s) \/ Commit(s) \/ Rollback(s)
      PROVE  OrderInv'
  BY <1>4, DispatchBucketOrders, DispatchPayOrders, CommitOrders, RollbackOrders
<1>5. ASSUME NEW t \in Txn, Settle(t) \/ Create(t) \/ ConfirmInquiry(t) \/ MarkRefunded(t)
      PROVE  OrderInv'
  <2>1. ~ConfirmInquiry(t)
    BY DEF ConfirmInquiry, Steady
  <2> QED BY <1>5, <2>1, SettleOrders, RequestOrders
<1>6. ASSUME NEW t \in Txn, NEW clone \in Txn, Retry(t, clone) PROVE OrderInv'
  BY <1>6, RequestOrders
<1>7. ASSUME NEW w \in Wallet, NEW frozen \in BOOLEAN, EditWallet(w, frozen) PROVE OrderInv'
  BY <1>7, RequestOrders
<1>8. CASE UNCHANGED vars
  <2>1. BooksInv'
    BY OrderFacts, NextBooks
  <2>2. UNCHANGED <<db, remote, holder, job, view, written, missed>> /\ Open' = Open
    BY <1>8 DEF vars, Open
  <2>3. OrderedOnce' /\ (Lossy \/ NeverGivenAway')
    BY <2>2 DEF OrderInv, OrderedOnce, NeverGivenAway, Returned
  <2>4. \A s, t : /\ Paid(s, t)' <=> Paid(s, t)
                  /\ Waiting(s, t)' <=> Waiting(s, t)
                  /\ Working(s, t)' <=> Working(s, t)
    BY <2>2 DEF Waiting, Working, Paid
  <2>5. \A s \in Open' : SessionOrders(s)'
    BY <2>2, <2>4 DEF OrderInv, SessionOrders
  <2>6. \A t \in Txn : Total(remote'[t]) > 0 =>
          db'.txn[t].state \notin Undispatched \/ \E s \in Open' : Paid(s, t)'
    BY <2>2, <2>4 DEF OrderInv
  <2> QED BY <2>1, <2>3, <2>5, <2>6 DEF OrderInv
<1> QED BY <1>1, <1>2, <1>3, <1>4, <1>5, <1>6, <1>7, <1>8, Rows DEF Next

\* The inductive invariant of the orders, where the instance is steady.
THEOREM SpecOrders == ASSUME Steady PROVE Spec => []OrderInv
<1>1. Init => OrderInv
  BY InitOrders
<1>2. OrderInv /\ [Next]_vars => OrderInv'
  BY NextOrders
<1> QED BY <1>1, <1>2, PTL DEF Spec

\* A provider that recognises an order it has takes no second one, whatever it is asked.
LEMMA DedupOrders ==
  ASSUME Dedup, IInv, OrderedOnce, [Next]_vars
  PROVE  OrderedOnce'
<1>1. remote \in [Txn -> Orders] /\ \A t \in Txn : remote[t] \in Orders
  BY DEF IInv, TypeOK
<1>2. ASSUME NEW t \in Txn, NEW outcome \in PayOutcomes(remote[t])
      PROVE  Total(outcome[1]) <= 1
  <2>1. CASE Total(remote[t]) = 0
    BY <1>1, <1>2, <2>1, PayFacts
  <2>2. CASE Total(remote[t]) > 0
    <3>1. outcome[1] = remote[t]
      BY <1>2, <2>2 DEF PayOutcomes
    <3> QED BY <3>1 DEF OrderedOnce
  <2>3. Total(remote[t]) \in Nat
    BY <1>1 DEF Orders, Total
  <2> QED BY <2>1, <2>2, <2>3
<1>3. ASSUME NEW s \in Worker, DispatchPay(s) PROVE OrderedOnce'
  <2>1. job[s].txn \in Txn
    BY <1>3, SessionFacts DEF DispatchPay, SessionOK
  <2>2. PICK t \in Txn : t = job[s].txn
    BY <2>1
  <2>3. PICK outcome \in PayOutcomes(remote[t]) \cup InquiryOutcomes(remote[t]) :
          remote' = [remote EXCEPT ![t] = outcome[1]]
    BY <1>3, <2>2 DEF DispatchPay
  <2>4. Total(outcome[1]) <= 1
    <3>1. CASE outcome \in PayOutcomes(remote[t])
      BY <1>2, <3>1
    <3>2. CASE outcome \in InquiryOutcomes(remote[t])
      BY <3>2 DEF InquiryOutcomes, OrderedOnce
    <3> QED BY <3>1, <3>2
  <2> QED BY <1>1, <2>3, <2>4 DEF OrderedOnce
<1>4. ASSUME NEW t \in Txn, Settle(t) PROVE OrderedOnce'
  <2> DEFINE o == remote[t]
             p == [o EXCEPT !.pending = o.pending - 1, !.delivered = o.delivered + 1]
             q == [o EXCEPT !.pending = o.pending - 1, !.rejected = o.rejected + 1]
  <2>1. remote' = [remote EXCEPT ![t] = p] \/ remote' = [remote EXCEPT ![t] = q]
    BY <1>4 DEF Settle
  <2>2. Total(p) = Total(o) /\ Total(q) = Total(o)
    BY <1>1 DEF Orders, Total
  <2> HIDE DEF p, q
  <2> QED BY <1>1, <2>1, <2>2 DEF OrderedOnce
<1>5. ASSUME UNCHANGED remote PROVE OrderedOnce'
  BY <1>5 DEF OrderedOnce
<1>6. \/ UNCHANGED remote
      \/ \E s \in Worker : DispatchPay(s)
      \/ \E t \in Txn : Settle(t)
  BY DEF Next, vars, BeginSell, BeginDispatch, BeginReap, Begin, DispatchWallet, DispatchBucket,
         ReapLeave, ReapSuccess, ReapRefund, Commit, Rollback, Create, ConfirmInquiry,
         MarkRefunded, Retry, EditWallet, Update
<1> QED BY <1>3, <1>4, <1>5, <1>6

\* The provider takes at most one order for a transaction, whatever it is asked again and
\* whichever answers are lost: if it recognises an order it has, or if no request crashes,
\* dispatches a batch, or is overtaken by the confirmation of the inquiry.
THEOREM OrderedAtMostOnce == ASSUME Steady \/ Dedup PROVE Spec => []OrderedOnce
<1>1. CASE Steady
  <2>1. OrderInv => OrderedOnce
    BY DEF OrderInv
  <2> QED BY <1>1, <2>1, SpecOrders, PTL
<1>2. CASE Dedup
  <2>1. Init => OrderedOnce
    BY InitOrders DEF OrderInv
  <2>2. IInv /\ OrderedOnce /\ [Next]_vars => OrderedOnce'
    BY <1>2, DedupOrders
  <2> QED BY <2>1, <2>2, SpecIInv, PTL DEF Spec
<1> QED BY <1>1, <1>2

\* If moreover every answer arrives, no transaction whose money was returned has an order
\* the provider delivered or may deliver.
THEOREM NothingGivenAway == ASSUME Steady, ~Lossy PROVE Spec => []NeverGivenAway
<1>1. OrderInv => NeverGivenAway
  BY DEF OrderInv
<1> QED BY <1>1, SpecOrders, PTL

\* And what the provider delivered is charged, or the request that ordered it is open.
THEOREM DeliveryIsCharged == ASSUME Steady, ~Lossy PROVE Spec => []DeliveredIsCharged
<1>1. OrderInv => DeliveredIsCharged
  <2> SUFFICES ASSUME OrderInv, NEW t \in Txn, remote[t].delivered > 0
               PROVE  \/ db.txn[t].state \in {"in_progress", "success"}
                      \/ \E s \in Open : t \in written[s]
    BY DEF DeliveredIsCharged
  <2>1. remote[t] \in Orders /\ Total(remote[t]) > 0 /\ db.txn[t].state \in State
    BY OrderFacts DEF Orders, Total
  <2>2. CASE \E s \in Open : Paid(s, t)
    BY <2>2 DEF Paid
  <2>3. CASE db.txn[t].state \notin Undispatched
    <3>1. ~Returned(t)
      <4>1. remote[t].delivered # 0 /\ NeverGivenAway
        BY <2>1 DEF Orders, OrderInv
      <4> QED BY <4>1 DEF NeverGivenAway
    <3> QED BY <2>1, <2>3, <3>1 DEF State, Undispatched, Returned
  <2> QED BY <2>1, <2>2, <2>3 DEF OrderInv
<1> QED BY <1>1, SpecOrders, PTL
=============================================================================
