------------------------------ MODULE PpobSale ------------------------------
(***************************************************************************)
(* The sale engine of custom_ppob_sale: a transaction is created, then     *)
(* dispatched (debit the mitra wallet, debit the provider bucket, call the *)
(* provider) inside one database transaction, and settled by the answer,   *)
(* or later by the reaper cron if the provider has not decided.            *)
(*                                                                         *)
(* A session is one database transaction under REPEATABLE READ, as in      *)
(* PpobWallet, whose guarantees about one row this module uses: a lock is  *)
(* granted only on a row unchanged since the snapshot.  Updates of the     *)
(* transaction row itself may reach the database as late as the commit.    *)
(* The provider is outside the database: an order it took stays taken when *)
(* the session that placed it rolls back.                                  *)
(***************************************************************************)
EXTENDS Integers, FiniteSets

CONSTANTS
  Txn,          \* custom.ppob.transaction rows
  Wallet,       \* mitra wallets, all of one mitra
  WalletOf,     \* the wallet of each transaction, by product class
  Session,      \* database transactions of requests
  Cron,         \* database transactions of the reaper cron
  NoSession,    \* holder of a row nobody has locked
  NoTxn,        \* a session between two transactions
  Bucket,       \* the provider's deposit bucket row
  Prepaid,      \* transactions whose provider is settled from the bucket
  Inquiry,      \* transactions of products with inquiry_required
  Routed,       \* transactions for which a provider route is configured
  Price, Cost,  \* what a sale takes from the wallet and from the bucket
  Funds,        \* opening balance of every wallet
  Deposit,      \* opening balance of the bucket
  Cap,          \* the mitra's daily cap; 0 is none
  Uses,         \* the operations this instance exercises
  Lossy,        \* a request to the provider, or its answer, may be lost
  StatusErrors, \* what status() makes of that: "failure" or "exception"
  Dedup,        \* the provider recognises an order it already has
  MaxOrders     \* bound: orders the provider takes for one transaction

ASSUME RowAssumption ==
  /\ NoSession \notin Session \cup Cron /\ Session \cap Cron = {} /\ NoTxn \notin Txn
  /\ Bucket \notin Wallet \cup Txn /\ Wallet \cap Txn = {}
  /\ WalletOf \in [Txn -> Wallet]
  /\ Prepaid \subseteq Txn /\ Inquiry \subseteq Txn /\ Routed \subseteq Txn
ASSUME TableAssumption == IsFiniteSet(Txn)
ASSUME MoneyAssumption ==
  /\ Price \in Nat \ {0} /\ Cost \in Nat \ {0}
  /\ Funds \in Nat /\ Deposit \in Nat /\ Cap \in Nat
ASSUME ProviderAssumption ==
  /\ Lossy \in BOOLEAN /\ Dedup \in BOOLEAN
  /\ StatusErrors \in {"failure", "exception"}
  /\ MaxOrders \in Nat

VARIABLES
  db,       \* the committed database
  remote,   \* the provider's orders for each transaction
  holder,   \* which session holds the lock of each wallet and of the bucket
  job,      \* what each session is doing
  view,     \* the database as a session sees it
  written,  \* transaction rows a session has updated
  missed    \* rows changed by others since a session took its snapshot

vars == <<db, remote, holder, job, view, written, missed>>

-----------------------------------------------------------------------------
Worker == Session \cup Cron
Row  == Wallet \cup {Bucket}
Step == {"idle", "next", "bucket", "pay"}
Kind == {"dispatch", "reap"}

State == {"none", "pending", "inquiry_ok", "in_progress",
          "success", "failed", "timeout", "refunded"}
\* The flags are wallet_move_id, bucket_move_id and their refund moves; origin is the
\* transaction a retry copied, named by its idempotency_key.
TxnRow == [state: State, debited: BOOLEAN, drawn: BOOLEAN,
           refunded: BOOLEAN, restored: BOOLEAN, origin: Txn \cup {NoTxn}]

NoRow == [state |-> "none", debited |-> FALSE, drawn |-> FALSE,
          refunded |-> FALSE, restored |-> FALSE, origin |-> NoTxn]

Database == [txn: [Txn -> TxnRow],
             wallet: [Wallet -> [balance: Int, frozen: BOOLEAN]],
             bucket: Int]
NewDatabase == [txn |-> [t \in Txn |-> NoRow],
                wallet |-> [w \in Wallet |-> [balance |-> Funds, frozen |-> FALSE]],
                bucket |-> Deposit]

Orders == [pending: Nat, delivered: Nat, rejected: Nat]
NoOrders == [pending |-> 0, delivered |-> 0, rejected |-> 0]
Job == [step: Step, kind: Kind, txn: Txn \cup {NoTxn}, todo: SUBSET Txn]
Idle == [step |-> "idle", kind |-> "dispatch", txn |-> NoTxn, todo |-> {}]

TypeOK ==
  /\ db \in Database
  /\ remote \in [Txn -> Orders]
  /\ holder \in [Row -> Worker \cup {NoSession}]
  /\ job \in [Worker -> Job]
  /\ view \in [Worker -> Database]
  /\ written \in [Worker -> SUBSET Txn]
  /\ missed \in [Worker -> SUBSET (Row \cup Txn)]

Init ==
  /\ db = NewDatabase
  /\ remote = [t \in Txn |-> NoOrders]
  /\ holder = [x \in Row |-> NoSession]
  /\ job = [s \in Worker |-> Idle]
  /\ view = [s \in Worker |-> NewDatabase]
  /\ written = [s \in Worker |-> {}]
  /\ missed = [s \in Worker |-> {}]

-----------------------------------------------------------------------------
(* What the code does to the database it sees. *)

DebitWallet(d, t) ==
  [d EXCEPT !.wallet[WalletOf[t]].balance = @ - Price, !.txn[t].debited = TRUE]

DebitBucket(d, t) ==
  [d EXCEPT !.bucket = @ - Cost, !.txn[t].drawn = TRUE]

CreditWallet(d, t) ==
  [d EXCEPT !.wallet[WalletOf[t]].balance = @ + Price, !.txn[t].refunded = TRUE]

CreditBucket(d, t) ==
  [d EXCEPT !.bucket = @ + Cost, !.txn[t].restored = TRUE]

\* Mutant: a refund that does not ask whether it was already made.
Refund_Again(d, t) ==
  LET credited == IF d.txn[t].debited THEN CreditWallet(d, t) ELSE d
  IN  IF d.txn[t].drawn THEN CreditBucket(credited, t) ELSE credited

\* Mutant: a refund that forgets the bucket.
Refund_WalletOnly(d, t) ==
  IF d.txn[t].debited /\ ~d.txn[t].refunded THEN CreditWallet(d, t) ELSE d

\* _refund_subledgers: credits back what was debited, once.
Refund(d, t) ==
  LET credited == IF d.txn[t].debited THEN CreditWallet(d, t) ELSE d
  IN  IF d.txn[t].refunded \/ d.txn[t].restored THEN d
      ELSE IF d.txn[t].drawn THEN CreditBucket(credited, t) ELSE credited

Marked(d, t, state) == [d EXCEPT !.txn[t].state = state]

\* _check_caps: the sales of the day that count, plus this one.
WithinCap(d) ==
  Cap = 0 \/ Price * (Cardinality({t \in Txn : d.txn[t].state \in {"success", "in_progress"}}) + 1)
               <= Cap
-----------------------------------------------------------------------------
(* The provider. *)

Total(o) == o.pending + o.delivered + o.rejected

\* What the provider can say of orders o: "unsettled" is ok=None.
Verdicts(o) ==
  (IF o.delivered > 0 THEN {"yes"} ELSE {})
    \cup (IF o.pending > 0 THEN {"unsettled"} ELSE {})
    \cup (IF o.rejected > 0 \/ Total(o) = 0 THEN {"no"} ELSE {})

\* pay(): the orders afterwards and what the adapter makes of the answer.  An error on
\* the network, an HTTP error and an exception are all ok=False.
PayOutcomes(o) ==
  LET taken == IF Dedup /\ Total(o) > 0
               THEN {<<o, v>> : v \in Verdicts(o)}
               ELSE {<<[o EXCEPT !.pending = @ + 1], "unsettled">>,
                     <<[o EXCEPT !.delivered = @ + 1], "yes">>,
                     <<[o EXCEPT !.rejected = @ + 1], "no">>}
  IN  taken \cup (IF Lossy THEN {<<p[1], "no">> : p \in taken} \cup {<<o, "no">>} ELSE {})

\* An inquiry places no order.
InquiryOutcomes(o) == {<<o, "yes">>, <<o, "no">>}

\* status(): "skip" is an exception the reaper logs.
StatusOutcomes(o) ==
  Verdicts(o) \cup (IF ~Lossy THEN {} ELSE IF StatusErrors = "failure" THEN {"no"} ELSE {"skip"})

\* Mutant: whatever is not a success is a failure, the unsettled included.
Refused_NotYes(t) == StatusOutcomes(remote[t]) # {"yes"}

\* status() came back with ok=False.
Refused(t) == "no" \in StatusOutcomes(remote[t])

\* The provider makes up its mind about a pending order.
Settle(t) ==
  /\ remote[t].pending > 0
  /\ \/ remote' = [remote EXCEPT ![t].pending = @ - 1, ![t].delivered = @ + 1]
     \/ remote' = [remote EXCEPT ![t].pending = @ - 1, ![t].rejected = @ + 1]
  /\ UNCHANGED <<db, holder, job, view, written, missed>>
-----------------------------------------------------------------------------
(* Sessions. *)

Open == {s \in Worker : job[s].step # "idle"}

Begin(s, kind, todo, d) ==
  /\ s \notin Open
  /\ job' = [job EXCEPT ![s] = [step |-> "next", kind |-> kind, txn |-> NoTxn, todo |-> todo]]
  /\ view' = [view EXCEPT ![s] = d]
  /\ UNCHANGED <<db, remote, holder, missed>>

\* The manual sale wizard and the PPS gateway create and dispatch in one transaction.
BeginSell(s, t) ==
  /\ "sell" \in Uses
  /\ db.txn[t].state = "none"
  /\ \A z \in Open : db.txn[t].state = view[z].txn[t].state
  /\ Begin(s, "dispatch", {t}, Marked(db, t, "pending"))
  /\ written' = [written EXCEPT ![s] = {t}]

\* action_dispatch on a recordset of existing transactions.
BeginDispatch(s, todo) ==
  /\ "dispatch" \in Uses
  /\ Cardinality(todo) = 1 \/ "batch" \in Uses
  /\ \A t \in todo : db.txn[t].state # "none"
  /\ Begin(s, "dispatch", todo, db)
  /\ UNCHANGED written

\* The reaper cron: of the transactions in progress, those past their threshold.
BeginReap(s, todo) ==
  /\ "reap" \in Uses
  /\ \A t \in todo : db.txn[t].state = "in_progress"
  /\ Begin(s, "reap", todo, db)
  /\ UNCHANGED written

CanLock(s, x) == holder[x] \in {s, NoSession} /\ x \notin missed[s]

\* Mutant: a transaction that was already dispatched goes through again.
Dispatchable_Any(s, t) ==
  /\ view[s].txn[t].state # "none"
  /\ WithinCap(view[s])
  /\ t \in Routed

\* The checks _dispatch_one makes before it touches money.
Dispatchable(s, t) ==
  /\ view[s].txn[t].state \in {"pending", "inquiry_ok"}
  /\ WithinCap(view[s])
  /\ t \in Routed

Solvent(s, t) ==
  LET w == view[s].wallet[WalletOf[t]] IN ~w.frozen /\ Price <= w.balance

\* Steps 1 of _dispatch_one: lock and debit the wallet.
DispatchWallet(s, t) ==
  /\ job[s].step = "next" /\ job[s].kind = "dispatch" /\ t \in job[s].todo
  /\ Dispatchable(s, t)
  /\ CanLock(s, WalletOf[t])
  /\ Solvent(s, t)
  /\ holder' = [holder EXCEPT ![WalletOf[t]] = s]
  /\ view' = [view EXCEPT ![s] = DebitWallet(view[s], t)]
  /\ written' = [written EXCEPT ![s] = @ \cup {t}]
  /\ job' = [job EXCEPT ![s].step = "bucket", ![s].txn = t, ![s].todo = @ \ {t}]
  /\ UNCHANGED <<db, remote, missed>>

\* Steps 2 and 3: lock and debit the bucket of a prepaid provider; in progress.
DispatchBucket(s) ==
  LET t == job[s].txn IN
  /\ job[s].step = "bucket"
  /\ IF t \in Prepaid
     THEN /\ CanLock(s, Bucket)
          /\ Cost <= view[s].bucket
          /\ holder' = [holder EXCEPT ![Bucket] = s]
          /\ view' = [view EXCEPT ![s] = Marked(DebitBucket(view[s], t), t, "in_progress")]
     ELSE /\ view' = [view EXCEPT ![s] = Marked(view[s], t, "in_progress")]
          /\ UNCHANGED holder
  /\ job' = [job EXCEPT ![s].step = "pay"]
  /\ UNCHANGED <<db, remote, written, missed>>

\* Mutant: an order the provider has not settled counts as a failure.
Resolved_PendingFails(d, t, verdict) ==
  IF verdict = "yes" THEN Marked(d, t, "success") ELSE Marked(Refund(d, t), t, "failed")

\* Mutant: a failure that keeps the money.
Resolved_NoRefund(d, t, verdict) ==
  CASE verdict = "yes"       -> Marked(d, t, "success")
    [] verdict = "unsettled" -> d
    [] verdict = "no"        -> Marked(d, t, "failed")

\* _mark_success, the tri-state guard, _mark_failed.
Resolved(d, t, verdict) ==
  CASE verdict = "yes"       -> Marked(d, t, "success")
    [] verdict = "unsettled" -> d
    [] verdict = "no"        -> Marked(Refund(d, t), t, "failed")

\* Step 4: the call.  The branch to inquiry() tests a state that step 3 has overwritten.
DispatchPay(s) ==
  LET t == job[s].txn IN
  /\ job[s].step = "pay"
  /\ Total(remote[t]) < MaxOrders \/ (Dedup /\ Total(remote[t]) > 0)
  /\ \E outcome \in IF t \in Inquiry /\ view[s].txn[t].state = "pending"
                    THEN InquiryOutcomes(remote[t])
                    ELSE PayOutcomes(remote[t]) :
       /\ remote' = [remote EXCEPT ![t] = outcome[1]]
       /\ view' = [view EXCEPT ![s] = Resolved(view[s], t, outcome[2])]
  /\ job' = [job EXCEPT ![s].step = "next", ![s].txn = NoTxn]
  /\ UNCHANGED <<db, holder, written, missed>>

\* One stale transaction: ask, then settle, refund or leave alone.
ReapLeave(s, t) ==
  /\ job[s].step = "next" /\ job[s].kind = "reap" /\ t \in job[s].todo
  /\ StatusOutcomes(remote[t]) \cap {"unsettled", "skip"} # {}
  /\ job' = [job EXCEPT ![s].todo = @ \ {t}]
  /\ UNCHANGED <<db, remote, holder, view, written, missed>>

\* Mutant: a success whose answer carries no state is passed over.
ReapSuccess_NoState(s, t) ==
  /\ job[s].step = "next" /\ job[s].kind = "reap" /\ t \in job[s].todo
  /\ "yes" \in StatusOutcomes(remote[t])
  /\ job' = [job EXCEPT ![s].todo = @ \ {t}]
  /\ UNCHANGED <<db, remote, holder, view, written, missed>>

ReapSuccess(s, t) ==
  /\ job[s].step = "next" /\ job[s].kind = "reap" /\ t \in job[s].todo
  /\ "yes" \in StatusOutcomes(remote[t])
  /\ view' = [view EXCEPT ![s] = Marked(view[s], t, "success")]
  /\ written' = [written EXCEPT ![s] = @ \cup {t}]
  /\ job' = [job EXCEPT ![s].todo = @ \ {t}]
  /\ UNCHANGED <<db, remote, holder, missed>>

\* The rows a refund of t locks.
RefundRows(t) == {WalletOf[t]} \cup (IF t \in Prepaid THEN {Bucket} ELSE {})

ReapRefund(s, t) ==
  /\ job[s].step = "next" /\ job[s].kind = "reap" /\ t \in job[s].todo
  /\ Refused(t)
  /\ \A x \in RefundRows(t) : CanLock(s, x)
  /\ ~view[s].wallet[WalletOf[t]].frozen
  /\ holder' = [x \in Row |-> IF x \in RefundRows(t) THEN s ELSE holder[x]]
  /\ view' = [view EXCEPT ![s] = Marked(Refund(view[s], t), t, "timeout")]
  /\ written' = [written EXCEPT ![s] = @ \cup {t}]
  /\ job' = [job EXCEPT ![s].todo = @ \ {t}]
  /\ UNCHANGED <<db, remote, missed>>
-----------------------------------------------------------------------------
Held(s) == {x \in Row : holder[x] = s}

\* Rows that change under other sessions' snapshots.
Stale(rows, s) ==
  [z \in Worker |-> IF z = s \/ z \notin Open THEN {} ELSE missed[z] \cup rows]

Release(s) ==
  /\ holder' = [x \in Row |-> IF holder[x] = s THEN NoSession ELSE holder[x]]
  /\ job' = [job EXCEPT ![s] = Idle]
  /\ view' = [view EXCEPT ![s] = NewDatabase]
  /\ written' = [written EXCEPT ![s] = {}]

\* The UPDATEs of transaction rows fail on a row changed since the snapshot.
Fresh(s) == written[s] \cap missed[s] = {}

Commit(s) ==
  /\ job[s].step = "next" /\ job[s].todo = {}
  /\ Fresh(s)
  /\ db' = [txn    |-> [t \in Txn |-> IF t \in written[s] THEN view[s].txn[t] ELSE db.txn[t]],
            wallet |-> [w \in Wallet |->
                          IF holder[w] = s
                          THEN [db.wallet[w] EXCEPT !.balance = view[s].wallet[w].balance]
                          ELSE db.wallet[w]],
            bucket |-> IF holder[Bucket] = s THEN view[s].bucket ELSE db.bucket]
  /\ missed' = Stale(Held(s) \cup written[s], s)
  /\ Release(s)
  /\ UNCHANGED remote

\* The rows session z may be waiting for.
Wanted(z) ==
  CASE job[z].step = "bucket"                         -> {Bucket}
    [] job[z].step = "next" /\ job[z].kind = "dispatch" -> {WalletOf[t] : t \in job[z].todo}
    [] job[z].step = "next" /\ job[z].kind = "reap"     -> UNION {RefundRows(t) : t \in job[z].todo}
    [] OTHER                                          -> {}

\* The lock fails on a row that changed since the snapshot, and for the victim of a
\* deadlock; on a row that is merely held it waits.
LockFails(s, x) ==
  \/ x \in missed[s]
  \/ /\ holder[x] \in Worker \ {s}
     /\ \E y \in Wanted(holder[x]) : holder[y] = s

\* What makes the code of session s raise where it stands.
Raises(s) ==
  \/ /\ job[s].step = "next" /\ job[s].kind = "dispatch"
     /\ \E t \in job[s].todo :
          ~Dispatchable(s, t) \/ LockFails(s, WalletOf[t]) \/ ~Solvent(s, t)
  \/ /\ job[s].step = "bucket" /\ job[s].txn \in Prepaid
     /\ LockFails(s, Bucket) \/ Cost > view[s].bucket
  \/ /\ job[s].step = "next" /\ job[s].kind = "reap"
     /\ \E t \in job[s].todo :
          /\ Refused(t)
          /\ \/ \E x \in RefundRows(t) : LockFails(s, x)
             \/ view[s].wallet[WalletOf[t]].frozen
  \/ /\ job[s].step = "next" /\ job[s].todo = {} /\ ~Fresh(s)

\* An error rolls the whole request, or the whole cron job, back.
Rollback(s) ==
  /\ s \in Open
  /\ Raises(s) \/ "crash" \in Uses
  /\ missed' = [missed EXCEPT ![s] = {}]
  /\ Release(s)
  /\ UNCHANGED <<db, remote>>
-----------------------------------------------------------------------------
(* Requests of one statement on a transaction or a wallet. *)

Update(d, rows) ==
  /\ db' = d
  /\ missed' = [s \in Worker |-> IF s \in Open THEN missed[s] \cup rows ELSE {}]
  /\ UNCHANGED <<remote, holder, job, view, written>>

Create(t) ==
  /\ "create" \in Uses
  /\ db.txn[t].state = "none"
  /\ \A s \in Open : view[s].txn[t].state = "none"
  /\ Update(Marked(db, t, "pending"), {t})

ConfirmInquiry(t) ==
  /\ "confirm" \in Uses
  /\ db.txn[t].state = "pending"
  /\ Update(Marked(db, t, "inquiry_ok"), {t})

\* Mutant: the button does not ask for a failure.
MarkRefunded_Success(t) ==
  LET rows == IF Refund(db, t) = db THEN {} ELSE RefundRows(t) IN
  /\ "refund" \in Uses
  /\ db.txn[t].state \in {"success", "failed", "timeout"}
  /\ \A x \in rows : holder[x] = NoSession
  /\ rows # {} => ~db.wallet[WalletOf[t]].frozen
  /\ Update(Marked(Refund(db, t), t, "refunded"), rows \cup {t})

\* action_mark_refunded refunds what the failure did not, then only the state changes.
MarkRefunded(t) ==
  LET rows == IF Refund(db, t) = db THEN {} ELSE RefundRows(t) IN
  /\ "refund" \in Uses
  /\ db.txn[t].state \in {"failed", "timeout"}
  /\ \A x \in rows : holder[x] = NoSession
  /\ rows # {} => ~db.wallet[WalletOf[t]].frozen
  /\ Update(Marked(Refund(db, t), t, "refunded"), rows \cup {t})

\* action_retry copies a transaction in any state to a new pending one; the key of the
\* copy is derived from the original's, so a second copy violates its uniqueness.
Retry(t, clone) ==
  /\ "retry" \in Uses
  /\ db.txn[t].state # "none"
  /\ db.txn[clone].state = "none"
  /\ \A u \in Txn : db.txn[u].origin # t
  /\ \A s \in Open : view[s].txn[clone].state = "none"
  /\ Update([db EXCEPT !.txn[clone] = [NoRow EXCEPT !.state = "pending", !.origin = t]], {clone})

EditWallet(w, frozen) ==
  /\ "freeze" \in Uses
  /\ holder[w] = NoSession
  /\ db.wallet[w].frozen # frozen
  /\ Update([db EXCEPT !.wallet[w].frozen = frozen], {w})

Next ==
  \/ \E s \in Session, t \in Txn : BeginSell(s, t) \/ DispatchWallet(s, t)
  \/ \E s \in Cron, t \in Txn : ReapLeave(s, t) \/ ReapSuccess(s, t) \/ ReapRefund(s, t)
  \/ \E s \in Session, todo \in SUBSET Txn \ {{}} : BeginDispatch(s, todo)
  \/ \E s \in Cron, todo \in SUBSET Txn \ {{}} : BeginReap(s, todo)
  \/ \E s \in Worker : DispatchBucket(s) \/ DispatchPay(s) \/ Commit(s) \/ Rollback(s)
  \/ \E t \in Txn : Settle(t) \/ Create(t) \/ ConfirmInquiry(t) \/ MarkRefunded(t)
  \/ \E t, clone \in Txn : Retry(t, clone)
  \/ \E w \in Wallet, frozen \in BOOLEAN : EditWallet(w, frozen)

Spec == Init /\ [][Next]_vars

\* The cron keeps firing and in the end finds everything in progress stale; a request
\* that can go on does; a lock queue serves the reaper in its turn; the provider decides.
Fairness ==
  /\ \A t \in Txn : WF_vars(Settle(t))
  /\ \A s \in Session : WF_vars(\/ \E t \in Txn : DispatchWallet(s, t)
                                \/ DispatchBucket(s) \/ DispatchPay(s) \/ Commit(s) \/ Rollback(s))
  /\ \A s \in Cron :
       /\ SF_vars(BeginReap(s, {t \in Txn : db.txn[t].state = "in_progress"}))
       /\ \A t \in Txn : SF_vars(ReapLeave(s, t) \/ ReapSuccess(s, t) \/ ReapRefund(s, t))
       /\ WF_vars(Commit(s) \/ Rollback(s))

FairSpec == Spec /\ Fairness
-----------------------------------------------------------------------------
\* What a committed transaction has moved follows from its state: nothing before it is
\* dispatched, wallet and (if prepaid) bucket once while it is in progress or
\* successful, and all of it back when it failed, timed out or was marked refunded.
RowMoney(t, row) ==
  CASE row.state \in {"none", "pending", "inquiry_ok"} ->
         ~row.debited /\ ~row.drawn /\ ~row.refunded /\ ~row.restored
    [] row.state \in {"in_progress", "success"} ->
         row.debited /\ row.drawn = (t \in Prepaid) /\ ~row.refunded /\ ~row.restored
    [] row.state \in {"failed", "timeout", "refunded"} ->
         row.debited /\ row.drawn = (t \in Prepaid) /\ row.refunded /\ row.restored = row.drawn

MoneyFollowsState == \A t \in Txn : RowMoney(t, db.txn[t])

\* The balance row x keeps in d, where it started, what a sale takes from it, and the sales
\* that have taken it and not given it back.
Balance(d, x) == IF x = Bucket THEN d.bucket ELSE d.wallet[x].balance
Opening(x)    == IF x = Bucket THEN Deposit ELSE Funds
Take(x)       == IF x = Bucket THEN Cost ELSE Price
Taken(d, x)   == IF x = Bucket
                 THEN {t \in Txn : d.txn[t].drawn /\ ~d.txn[t].restored}
                 ELSE {t \in Txn : WalletOf[t] = x /\ d.txn[t].debited /\ ~d.txn[t].refunded}
AddsUp(d, x) ==
  /\ Balance(d, x) = Opening(x) - Take(x) * Cardinality(Taken(d, x))
  /\ Balance(d, x) >= 0

\* Wallets and bucket hold exactly what the committed transactions left there, and never
\* less than nothing, however sales, refunds, the reaper and crashes interleave.
BalancesAddUp == \A x \in Row : AddsUp(db, x)

\* "We would hand the mitra their money back AND deliver the product": no transaction
\* whose money was returned has an order the provider delivered or may still deliver.
Returned(t) == db.txn[t].state \in {"failed", "timeout", "refunded"}
NeverGivenAway ==
  \A t \in Txn : Returned(t) => remote[t].delivered = 0 /\ remote[t].pending = 0

\* A non-idempotent pay() "cannot double-sell", and a duplicate sell is "never a second
\* sell": the provider takes one order for a transaction.
OrderedOnce == \A t \in Txn : Total(remote[t]) <= 1

\* What the provider delivered is charged: the transaction is in progress or successful,
\* unless the request that placed the order is still at it.
DeliveredIsCharged ==
  \A t \in Txn : remote[t].delivered > 0 =>
    \/ db.txn[t].state \in {"in_progress", "success"}
    \/ \E s \in Open : t \in written[s]

\* The committed life of a transaction only goes forward: success and refunded are final,
\* a failure can only be marked refunded, and nothing is dispatched twice.
Forward ==
  [from \in State |->
     CASE from = "none"        -> {"pending", "in_progress", "success", "failed"}
       [] from = "pending"     -> {"inquiry_ok", "in_progress", "success", "failed"}
       [] from = "inquiry_ok"  -> {"in_progress", "success", "failed"}
       [] from = "in_progress" -> {"success", "timeout"}
       [] from \in {"failed", "timeout"} -> {"refunded"}
       [] OTHER -> {}]
OnlyForward ==
  [][\A t \in Txn : db'.txn[t].state # db.txn[t].state
        => db'.txn[t].state \in Forward[db.txn[t].state]]_vars

\* The deal a transaction is: nothing is taken before it is dispatched, and all of it is
\* given back when it failed.
DealOf(state) ==
  CASE state \in {"none", "pending", "inquiry_ok"}    -> "open"
    [] state = "in_progress"                          -> "held"
    [] state = "success"                              -> "kept"
    [] state \in {"failed", "timeout", "refunded"}    -> "returned"

Esc == INSTANCE Escrow WITH
  Account <- Row,
  Deal    <- Txn,
  Party   <- [x \in Row |-> IF x = Bucket THEN Prepaid ELSE {t \in Txn : WalletOf[t] = x}],
  Charge  <- [x \in Row |-> Take(x)],
  Initial <- [x \in Row |-> Opening(x)],
  funds   <- [x \in Row |-> Balance(db, x)],
  deal    <- [t \in Txn |-> DealOf(db.txn[t].state)]

\* Wallets, bucket and transactions implement an escrow: _dispatch_one, _mark_failed, the
\* reaper and action_mark_refunded move a balance only together with the states that account
\* for it, in one commit, charge a sale once and give it back at most once.
ImplementsEscrow == Esc!EscrowSpec

\* The reaper resolves every stale transaction of a wallet that is not frozen.
StaleIsResolved ==
  \A t \in Txn :
    (db.txn[t].state = "in_progress") ~>
      (db.txn[t].state # "in_progress" \/ db.wallet[WalletOf[t]].frozen)
-----------------------------------------------------------------------------
(***************************************************************************)
(* The inductive invariant behind MoneyFollowsState: the same holds of the *)
(* rows every session sees, except of the one whose wallet is debited and  *)
(* whose bucket is not yet.                                                *)
(***************************************************************************)
Midway(row) == row.debited /\ ~row.drawn /\ ~row.refunded /\ ~row.restored

\* What job j and the database d it sees have in common.
SessionOK(j, d) ==
  /\ j.step \in {"bucket", "pay"} => j.txn \in Txn /\ j.kind = "dispatch"
  /\ j.step \in {"idle", "next"} => j.txn = NoTxn
  /\ \A t \in Txn : IF j.step = "bucket" /\ j.txn = t THEN Midway(d.txn[t])
                                                       ELSE RowMoney(t, d.txn[t])
  /\ j.step = "pay" => d.txn[j.txn].state = "in_progress"
  /\ j.kind = "reap" => \A t \in j.todo : d.txn[t].state = "in_progress"

IInv ==
  /\ TypeOK
  /\ MoneyFollowsState
  /\ \A s \in Worker : SessionOK(job[s], view[s])
(***************************************************************************)
(* The inductive invariant behind BalancesAddUp and OnlyForward.  A row    *)
(* that changed since a session's snapshot cannot be locked by it, and a   *)
(* session changes what a sale has taken from a row only while it holds    *)
(* that row; so what it sees of a row that has not changed adds up, and    *)
(* what it has not locked is what the database says.                       *)
(***************************************************************************)
Undispatched == {"none", "pending", "inquiry_ok"}

HoldersAreFresh ==
  \A x \in Row : holder[x] # NoSession => holder[x] \in Open /\ x \notin missed[holder[x]]

IdleIsClean == \A s \in Worker \ Open : written[s] = {} /\ missed[s] = {}

SeesBooks(s) ==
  /\ \A x \in Row \ missed[s] : AddsUp(view[s], x)
  /\ \A x \in Row, t \in Txn :
       \/ x \notin missed[s] /\ (t \notin written[s] \/ holder[x] # s)
       \/ t \notin missed[s] /\ holder[x] # s
       => (t \in Taken(view[s], x) <=> t \in Taken(db, x))

HoldsLocks(s) ==
  /\ job[s].step \in {"bucket", "pay"} =>
       holder[WalletOf[job[s].txn]] = s /\ job[s].txn \in written[s]
  /\ job[s].step = "pay" /\ job[s].txn \in Prepaid => holder[Bucket] = s

SessionLife(s) ==
  /\ \A t \in Txn \ missed[s] :
       \/ view[s].txn[t].state = db.txn[t].state
       \/ t \in written[s] /\ view[s].txn[t].state \in Forward[db.txn[t].state]
  /\ job[s].step = "bucket" => view[s].txn[job[s].txn].state \in {"pending", "inquiry_ok"}
  /\ job[s].step \in {"bucket", "pay"} /\ job[s].txn \notin missed[s] =>
       db.txn[job[s].txn].state \in Undispatched
  /\ job[s].kind = "reap" => job[s].todo \cap written[s] = {}

BooksInv ==
  /\ IInv
  /\ BalancesAddUp
  /\ HoldersAreFresh
  /\ IdleIsClean
  /\ \A s \in Open : SeesBooks(s) /\ HoldsLocks(s) /\ SessionLife(s)

(***************************************************************************)
(* Where nothing crashes, and a dispatch is neither a batch nor overtaken  *)
(* by the confirmation of an inquiry, the session that has placed an order *)
(* holds the wallet and is certain to commit; a transaction that has an    *)
(* order is then never dispatched again.  If no answer is lost either, its *)
(* orders are what its state says.                                         *)
(***************************************************************************)
Steady == Uses \cap {"crash", "batch", "confirm"} = {}

\* Session s has called the provider for t and has only its commit to make.
Paid(s, t) ==
  /\ job[s].step = "next" /\ job[s].kind = "dispatch" /\ job[s].todo = {}
  /\ t \in written[s]

Waiting(s, t) ==
  /\ job[s].step = "next" /\ job[s].todo = {t}
  /\ view[s].txn[t].state # "none"
  /\ t \in written[s] => view[s].txn[t].state = "pending"
  /\ view[s].txn[t].state \in Undispatched /\ WalletOf[t] \notin missed[s] => t \notin missed[s]

Working(s, t) ==
  /\ \/ /\ job[s].step \in {"bucket", "pay"} /\ job[s].txn = t /\ job[s].todo = {}
        /\ view[s].txn[t].state \in {"pending", "inquiry_ok", "in_progress"}
     \/ Paid(s, t) /\ view[s].txn[t].state \notin Undispatched
  /\ holder[WalletOf[t]] = s /\ t \notin missed[s]
  /\ db.txn[t].state \in Undispatched

SessionOrders(s) ==
  /\ job[s].kind = "dispatch" =>
       \E t \in Txn : written[s] \subseteq {t} /\ (Waiting(s, t) \/ Working(s, t))
  /\ job[s].kind = "reap" => \A t \in job[s].todo \cup written[s] :
       db.txn[t].state \notin Undispatched /\ view[s].txn[t].state \notin Undispatched
  /\ Lossy \/ \A t \in written[s] :
       view[s].txn[t].state \in {"failed", "timeout", "refunded"}
         => remote[t].delivered = 0 /\ remote[t].pending = 0

OrderInv ==
  /\ BooksInv
  /\ OrderedOnce
  /\ \A t \in Txn : Total(remote[t]) > 0 =>
       db.txn[t].state \notin Undispatched \/ \E s \in Open : Paid(s, t)
  /\ \A s \in Open : SessionOrders(s)
  /\ Lossy \/ NeverGivenAway
=============================================================================
