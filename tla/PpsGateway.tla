----------------------------- MODULE PpsGateway -----------------------------
(***************************************************************************)
(* The PPS gateway of custom_ppob_pps_gateway: a point of sale sends Sell  *)
(* with its own number (notrx), may send it again, may poll its status,    *)
(* and is called back by a cron once the sale is decided.                  *)
(*                                                                         *)
(* A Sell is one database transaction: look the number up, create the row  *)
(* (the unique index makes a second insert of the number wait and then     *)
(* fail), dispatch it inside a savepoint, commit, answer.  The callback    *)
(* cron is one database transaction for its whole batch.  The dispatch is  *)
(* PpobSale's: here it is rejected before the provider is called, or ends  *)
(* in one of the states the call leaves.                                   *)
(***************************************************************************)
EXTENDS Integers, FiniteSets

CONSTANTS
  Notrx,        \* the numbers points of sale use, with their mitra
  Session,      \* concurrent Sell requests
  NoSession,    \* holder of a number nobody is inserting
  HasUrl,       \* numbers of mitras with a callback URL
  Uses,         \* the events this instance exercises
  Mapped,       \* the accounts commissions accrue to are mapped
  MaxAttempts,  \* _CALLBACK_MAX_ATTEMPTS
  MaxFired,     \* bound: callbacks fired for one number
  MaxOrders     \* bound: orders placed for one number

ASSUME NumberAssumption == Notrx # {} /\ HasUrl \subseteq Notrx /\ NoSession \notin Session
ASSUME FlagAssumption   == Mapped \in BOOLEAN
ASSUME BoundAssumption  == MaxAttempts \in Nat \ {0} /\ MaxFired \in Nat /\ MaxOrders \in Nat

VARIABLES
  txn,      \* committed gateway transactions, by number
  orders,   \* orders the provider took for each number
  key,      \* which session is inserting each number
  request,  \* what each Sell request is doing
  sweep,    \* the callback cron's database transaction
  fired,    \* callbacks fired for each number
  told      \* what the point of sale has been told about each number

vars == <<txn, orders, key, request, sweep, fired, told>>

-----------------------------------------------------------------------------
State == {"none", "in_progress", "success", "failed", "timeout", "refunded"}
Final == {"success", "failed", "timeout", "refunded"}
Callback == {"none", "pending", "sent", "failed"}

\* The Status of a transaction, or an error: Status 1 too, with no transaction behind it.
Answers == {"0", "1", "9", "error"}

TxnRow == [state: State, callback: Callback, attempts: Nat]
NoRow == [state |-> "none", callback |-> "none", attempts |-> 0]

\* A request between its statements, and the row it has not committed.
Request == [step: {"idle", "create", "dispatch", "answer"}, notrx: Notrx, row: TxnRow]
Idle == [step |-> "idle", notrx |-> CHOOSE n \in Notrx : TRUE, row |-> NoRow]

\* The cron's snapshot, the numbers still to call and those it has updated.
Sweep == [open: BOOLEAN, seen: [Notrx -> TxnRow], todo: SUBSET Notrx, done: SUBSET Notrx,
          stale: BOOLEAN]
NoSweep == [open |-> FALSE, seen |-> [n \in Notrx |-> NoRow], todo |-> {}, done |-> {},
            stale |-> FALSE]

TypeOK ==
  /\ txn \in [Notrx -> TxnRow]
  /\ orders \in [Notrx -> Nat]
  /\ key \in [Notrx -> Session \cup {NoSession}]
  /\ request \in [Session -> Request]
  /\ sweep \in Sweep
  /\ fired \in [Notrx -> Nat]
  /\ told \in [Notrx -> SUBSET Answers]

Init ==
  /\ txn = [n \in Notrx |-> NoRow]
  /\ orders = [n \in Notrx |-> 0]
  /\ key = [n \in Notrx |-> NoSession]
  /\ request = [s \in Session |-> Idle]
  /\ sweep = NoSweep
  /\ fired = [n \in Notrx |-> 0]
  /\ told = [n \in Notrx |-> {}]

-----------------------------------------------------------------------------
\* Mutant: what is still in progress is reported as failed.
Status_NoPending(state) == IF state = "success" THEN "0" ELSE "1"

\* state_to_status
Status(state) ==
  CASE state = "success"                          -> "0"
    [] state \in {"failed", "timeout", "refunded"} -> "1"
    [] OTHER                                      -> "9"

\* The point of sale receives an answer about number n, or the answer gets lost.
Says(n, answer) == told' \in {told, [told EXCEPT ![n] = @ \cup {answer}]}

Tell(n, state) == Says(n, Status(state))

\* _sell_err: every code it is given has Status 1.
TellError(n) == Says(n, "error")

\* Mutant: only successes are flagged.
Flagged_SuccessOnly(n, row) ==
  IF row.callback = "none" /\ n \in HasUrl /\ row.state = "success"
  THEN [row EXCEPT !.callback = "pending"] ELSE row

\* _pps_flag_callback, which _mark_success and _mark_failed call.
Flagged(n, row) ==
  IF row.callback = "none" /\ n \in HasUrl THEN [row EXCEPT !.callback = "pending"] ELSE row

-----------------------------------------------------------------------------
(* Sell and direct-topup. *)

\* A number already sold answers with the original result.
SellAgain(s, n) ==
  /\ request[s].step = "idle"
  /\ txn[n].state # "none"
  /\ Tell(n, txn[n].state)
  /\ UNCHANGED <<txn, orders, key, request, sweep, fired>>

Sell(s, n) ==
  /\ request[s].step = "idle"
  /\ txn[n].state = "none"
  /\ request' = [request EXCEPT ![s] = [step |-> "create", notrx |-> n, row |-> NoRow]]
  /\ UNCHANGED <<txn, orders, key, sweep, fired, told>>

\* Mutant: no unique index on the number.
Create_NotUnique(s) ==
  LET n == request[s].notrx IN
  /\ request[s].step = "create"
  /\ key' = [key EXCEPT ![n] = s]
  /\ request' = [request EXCEPT ![s].step = "dispatch"]
  /\ UNCHANGED <<txn, orders, sweep, fired, told>>

Create(s) ==
  LET n == request[s].notrx IN
  /\ request[s].step = "create"
  /\ key[n] = NoSession /\ txn[n].state = "none"
  /\ key' = [key EXCEPT ![n] = s]
  /\ request' = [request EXCEPT ![s].step = "dispatch"]
  /\ UNCHANGED <<txn, orders, sweep, fired, told>>

\* The request ends with nothing of it kept.
Abandon(s) ==
  /\ request' = [request EXCEPT ![s] = Idle]
  /\ key' = [n \in Notrx |-> IF key[n] = s THEN NoSession ELSE key[n]]

\* The number was committed by another request: the insert raises.
Duplicate(s) ==
  /\ request[s].step = "create"
  /\ txn[request[s].notrx].state # "none"
  /\ Abandon(s)
  /\ UNCHANGED <<txn, orders, sweep, fired, told>>

\* The product is unknown or the insert raises, or the dispatch does before it calls the
\* provider and the savepoint takes the row along: the answer is an error.
Reject(s) ==
  /\ request[s].step \in {"create", "dispatch"}
  /\ Abandon(s)
  /\ TellError(request[s].notrx)
  /\ UNCHANGED <<txn, orders, sweep, fired>>

\* The provider is called.  A sale that is marked successful accrues commissions inside
\* the same savepoint; when their accounts are not mapped that raises, and the answer is
\* the same error.
Pay(s) ==
  LET n == request[s].notrx IN
  /\ request[s].step = "dispatch"
  /\ orders[n] < MaxOrders
  /\ orders' = [orders EXCEPT ![n] = @ + 1]
  /\ \E state \in {"success", "failed", "in_progress"} :
       LET row == [NoRow EXCEPT !.state = state] IN
       IF state = "success" /\ ~Mapped
       THEN Abandon(s) /\ TellError(n)
       ELSE /\ request' = [request EXCEPT ![s].step = "answer",
                             ![s].row = IF state \in Final THEN Flagged(n, row) ELSE row]
            /\ UNCHANGED <<key, told>>
  /\ UNCHANGED <<txn, sweep, fired>>

\* The request commits, then answers.
Answer(s) ==
  LET n == request[s].notrx IN
  /\ request[s].step = "answer"
  /\ txn' = [txn EXCEPT ![n] = request[s].row]
  /\ Abandon(s)
  /\ Tell(n, request[s].row.state)
  /\ UNCHANGED <<orders, sweep, fired>>

\* A worker dies before its commit.
Crash(s) ==
  /\ "crash" \in Uses
  /\ request[s].step # "idle"
  /\ Abandon(s)
  /\ UNCHANGED <<txn, orders, sweep, fired, told>>

\* StatusTrx, with or without the deposit; a number that is not committed is NOT_FOUND.
Poll(n) ==
  /\ IF txn[n].state = "none" THEN TellError(n) ELSE Tell(n, txn[n].state)
  /\ UNCHANGED <<txn, orders, key, request, sweep, fired>>
-----------------------------------------------------------------------------
(* What the engine does later to a committed transaction. *)

Decide(n, row) ==
  /\ txn' = [txn EXCEPT ![n] = row]
  /\ sweep' = [sweep EXCEPT !.stale = @ \/ (sweep.open /\ n \in sweep.todo \cup sweep.done)]
  /\ UNCHANGED <<orders, key, request, fired, told>>

\* The reaper learns that the sale succeeded.
ReapSuccess(n) ==
  /\ txn[n].state = "in_progress"
  /\ Decide(n, Flagged(n, [txn[n] EXCEPT !.state = "success"]))

\* The reaper refunds: it writes the state itself and calls no _mark_ method.
ReapTimeout(n) ==
  /\ "timeout" \in Uses
  /\ txn[n].state = "in_progress"
  /\ Decide(n, [txn[n] EXCEPT !.state = "timeout"])

MarkRefunded(n) ==
  /\ "refund" \in Uses
  /\ txn[n].state \in {"failed", "timeout"}
  /\ Decide(n, [txn[n] EXCEPT !.state = "refunded"])
-----------------------------------------------------------------------------
(* The callback cron. *)

Due(n) == txn[n].callback = "pending" /\ txn[n].state \in Final

BeginSweep ==
  /\ ~sweep.open
  /\ \E n \in Notrx : Due(n)
  /\ sweep' = [open |-> TRUE, seen |-> txn, todo |-> {n \in Notrx : Due(n)}, done |-> {},
               stale |-> FALSE]
  /\ UNCHANGED <<txn, orders, key, request, fired, told>>

\* Mutant: gives up one attempt late.
Called_OneMore(row, ok) ==
  [row EXCEPT !.attempts = @ + 1,
              !.callback = IF ok THEN "sent"
                           ELSE IF row.attempts >= MaxAttempts THEN "failed" ELSE @]

\* Mutant: the first attempt settles it, whatever came back.
Called_SentAnyway(row, ok) == [row EXCEPT !.attempts = @ + 1, !.callback = "sent"]

\* The row after a callback.
Called(row, ok) ==
  [row EXCEPT !.attempts = @ + 1,
              !.callback = IF ok THEN "sent"
                           ELSE IF row.attempts + 1 >= MaxAttempts THEN "failed" ELSE @]

\* _pps_fire_callback: GET the URL with the status of the row seen.  A request that
\* fails may have been received all the same.
Fire(n) ==
  /\ sweep.open /\ n \in sweep.todo
  /\ fired[n] < MaxFired
  /\ \E ok \in BOOLEAN :
       /\ sweep' = [sweep EXCEPT !.todo = @ \ {n}, !.done = @ \cup {n},
                                 !.seen[n] = Called(@, ok)]
       /\ IF ok THEN told' = [told EXCEPT ![n] = @ \cup {Status(sweep.seen[n].state)}]
                ELSE Tell(n, sweep.seen[n].state)
  /\ fired' = [fired EXCEPT ![n] = @ + 1]
  /\ UNCHANGED <<txn, orders, key, request>>

\* The batch commits what _pps_fire_callback has written: the callback columns.
EndSweep ==
  /\ sweep.open /\ sweep.todo = {} /\ ~sweep.stale
  /\ txn' = [n \in Notrx |->
               IF n \in sweep.done
               THEN [txn[n] EXCEPT !.callback = sweep.seen[n].callback,
                                   !.attempts = sweep.seen[n].attempts]
               ELSE txn[n]]
  /\ sweep' = NoSweep
  /\ UNCHANGED <<orders, key, request, fired, told>>

\* A row of the batch changed since the snapshot, or the worker dies: nothing of the
\* batch is kept, though its callbacks were made.
AbortSweep ==
  /\ sweep.open
  /\ sweep.stale \/ "crash" \in Uses
  /\ sweep' = NoSweep
  /\ UNCHANGED <<txn, orders, key, request, fired, told>>

Next ==
  \/ \E s \in Session, n \in Notrx : SellAgain(s, n) \/ Sell(s, n)
  \/ \E s \in Session : Create(s) \/ Duplicate(s) \/ Reject(s) \/ Pay(s) \/ Answer(s) \/ Crash(s)
  \/ \E n \in Notrx : Poll(n) \/ ReapSuccess(n) \/ ReapTimeout(n) \/ MarkRefunded(n) \/ Fire(n)
  \/ BeginSweep \/ EndSweep \/ AbortSweep

Spec == Init /\ [][Next]_vars

\* The cron runs every minute and its calls time out.
Fairness ==
  /\ WF_vars(BeginSweep) /\ WF_vars(EndSweep) /\ WF_vars(AbortSweep)
  /\ \A n \in Notrx : WF_vars(Fire(n))

FairSpec == Spec /\ Fairness
-----------------------------------------------------------------------------
\* "A duplicate Sell with the same notrx returns the ORIGINAL result, never a second
\* sell": however requests for a number overlap, the provider is called once for it.
SoldOnce == \A n \in Notrx : orders[n] <= 1

\* What a point of sale is told of a transaction is never taken back: told "0" it has a
\* success, told "1" a sale that stays undone, whichever answer, repeated Sell, poll or
\* callback of an old snapshot said so.  An error is no such verdict: the number it was
\* given for may still be sold.
VerdictStands ==
  \A n \in Notrx : /\ "0" \in told[n] => txn[n].state = "success"
                   /\ "1" \in told[n] => txn[n].state \in Final \ {"success"}

\* A transaction whose callback is sent: the point of sale knows its final status.
SentIsHeard == \A n \in Notrx : txn[n].callback = "sent" => Status(txn[n].state) \in told[n]

\* The cron "gave up after" _CALLBACK_MAX_ATTEMPTS attempts: never later by its own count,
\* and, whatever batches were rolled back, never before that many calls were made.
GivesUp ==
  \A n \in Notrx : /\ txn[n].attempts <= MaxAttempts
                   /\ txn[n].callback = "failed" => fired[n] >= MaxAttempts

\* "Fire the PPS GET callback for terminal, pending-callback gateway transactions": what
\* _mark_success or _mark_failed decided for a mitra with a URL is called back or given
\* up, whatever ops and the reaper write under the cron's snapshot.  A transaction that
\* the reaper times out, refunded later or not, passes neither and is not reported.
Reported ==
  \A n \in HasUrl :
    (txn[n].state \in {"success", "failed"}) ~> (txn[n].callback \in {"sent", "failed"})
-----------------------------------------------------------------------------
(***************************************************************************)
(* The inductive invariants.  KeyInv: a number is inserted by the one      *)
(* request that holds it, and only while it has no transaction.            *)
(* CallbackInv: what the point of sale has heard, the rows and the cron's  *)
(* snapshot of them agree, whatever raises or dies.  SellInv, when nothing *)
(* raises between the provider's answer and the commit: a number without a *)
(* transaction and without a request inserting it has no order.            *)
(***************************************************************************)
Inserting == {"dispatch", "answer"}
Batch == sweep.todo \cup sweep.done

KeyInv ==
  /\ TypeOK
  /\ \A n \in Notrx : key[n] # NoSession =>
       txn[n].state = "none" /\ request[key[n]].notrx = n /\ request[key[n]].step \in Inserting
  /\ \A s \in Session : request[s].step \in Inserting => key[request[s].notrx] = s

\* A row counts no more than the calls made, is settled by the last of them, and is sent
\* only if its status is among what was heard.
RowOK(row, heard, calls) ==
  /\ row.callback # "none" => row.state \in Final
  /\ row.callback = "none" => row.attempts = 0
  /\ row.callback = "pending" => row.attempts < MaxAttempts
  /\ row.callback = "failed" => row.attempts = MaxAttempts
  /\ row.callback = "sent" => Status(row.state) \in heard
  /\ row.attempts <= MaxAttempts /\ row.attempts <= calls

\* The row a request is about to commit was never called back.
NewRow(row) ==
  /\ row.state # "none" /\ row.attempts = 0 /\ row.callback \in {"none", "pending"}
  /\ row.callback = "pending" => row.state \in Final

\* What the cron has seen of a number of its batch still has the status it reports.
SeenOK(n) ==
  /\ RowOK(sweep.seen[n], told[n], fired[n])
  /\ txn[n].state \in Final /\ sweep.seen[n].state \in Final
  /\ Status(sweep.seen[n].state) = Status(txn[n].state)
  /\ n \in sweep.todo => sweep.seen[n].callback = "pending"
  /\ ~sweep.stale => sweep.seen[n].state = txn[n].state

CallbackInv ==
  /\ KeyInv
  /\ \A n \in Notrx : RowOK(txn[n], told[n], fired[n])
  /\ \A s \in Session : request[s].step = "answer" => NewRow(request[s].row)
  /\ ~sweep.open => Batch = {}
  /\ \A n \in Batch : SeenOK(n)
  /\ VerdictStands

SellInv ==
  /\ CallbackInv
  /\ SoldOnce
  /\ \A n \in Notrx : txn[n].state = "none" /\ key[n] = NoSession => orders[n] = 0
  /\ \A s \in Session : request[s].step = "dispatch" => orders[request[s].notrx] = 0
=============================================================================
