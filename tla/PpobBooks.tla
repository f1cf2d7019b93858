----------------------------- MODULE PpobBooks -----------------------------
(***************************************************************************)
(* What is made of successful PPOB transactions afterwards: the daily      *)
(* rollup of custom_ppob_rollup puts them on one sales order and one       *)
(* summary invoice per mitra and day, and the settlement wizard of         *)
(* custom_ppob_commission pays the commissions they have accrued.          *)
(*                                                                         *)
(* Both select rows that are not marked, write a document and mark the     *)
(* rows, in one database transaction and without locking what they select. *)
(* A job takes its snapshot when it begins and marks when it commits; an   *)
(* update of a row that was changed since the snapshot fails.              *)
(***************************************************************************)
EXTENDS Naturals, FiniteSets

CONSTANTS
  Txn,       \* custom.ppob.transaction rows
  Mitra,     \* partners they belong to
  MitraOf,   \* the mitra of a transaction
  Scope,     \* scopes of commission rules
  Worker,    \* concurrent rollups and settlements
  MaxDay     \* bound: days

ASSUME MitraAssumption == MitraOf \in [Txn -> Mitra]
ASSUME DayAssumption   == MaxDay \in Nat

Day     == 1..MaxDay
Accrual == Txn \X Scope
Row     == Txn \cup Accrual

VARIABLES
  today,     \* the date
  ending,    \* completed_at of transactions that are a success but not committed
  sale,      \* state, completed_at and rollup mark of each transaction
  lines,     \* committed order lines for each transaction
  fakturs,   \* posted summary invoice lines for each transaction
  accrual,   \* state of each commission accrual
  paid,      \* settlement documents for each accrual
  job,       \* what each worker is doing: the rows it has selected, and missed
  closed,    \* days that have been rolled up
  late       \* transactions that were committed after a rollup of their day began

vars == <<today, ending, sale, lines, fakturs, accrual, paid, job, closed, late>>

-----------------------------------------------------------------------------
\* Day 0 is no date.
Date   == Day \cup {0}
Sale   == [success: BOOLEAN, day: Date, rolled: BOOLEAN]
NoSale == [success |-> FALSE, day |-> 0, rolled |-> FALSE]

Job  == [kind: {"idle", "rollup", "settle"}, day: Date, rows: SUBSET Row, missed: SUBSET Row]
Idle == [kind |-> "idle", day |-> 0, rows |-> {}, missed |-> {}]

TypeOK ==
  /\ today   \in Day
  /\ ending  \in [Txn -> Date]
  /\ sale    \in [Txn -> Sale]
  /\ lines   \in [Txn -> Nat]
  /\ fakturs \in [Txn -> Nat]
  /\ accrual \in [Accrual -> {"none", "accrued", "invoiced"}]
  /\ paid    \in [Accrual -> Nat]
  /\ job     \in [Worker -> Job]
  /\ closed  \in SUBSET Day
  /\ late    \in SUBSET Txn

Init ==
  /\ today   = 1 /\ 1 \in Day
  /\ ending  = [t \in Txn |-> 0]
  /\ sale    = [t \in Txn |-> NoSale]
  /\ lines   = [t \in Txn |-> 0]
  /\ fakturs = [t \in Txn |-> 0]
  /\ accrual = [a \in Accrual |-> "none"]
  /\ paid    = [a \in Accrual |-> 0]
  /\ job     = [s \in Worker |-> Idle]
  /\ closed  = {}
  /\ late    = {}

-----------------------------------------------------------------------------
\* The jobs under way miss rows that somebody commits.
Missing(jobs, rows) ==
  [s \in Worker |-> IF jobs[s] = Idle THEN Idle ELSE [jobs[s] EXCEPT !.missed = @ \cup rows]]

\* Midnight.
NextDay ==
  /\ today < MaxDay
  /\ today' = today + 1
  /\ UNCHANGED <<ending, sale, lines, fakturs, accrual, paid, job, closed, late>>

\* _mark_success stamps completed_at; its database transaction is still open.
Stamp(t) ==
  /\ ~sale[t].success /\ ending[t] = 0
  /\ ending' = [ending EXCEPT ![t] = today]
  /\ UNCHANGED <<today, sale, lines, fakturs, accrual, paid, job, closed, late>>

\* It commits, with an accrual for each scope that has a matching rule.  Transactions
\* that the Oracle and ERASPACE bridges create as a success accrue nothing.
Commit(t, scopes) ==
  /\ ending[t] # 0
  /\ ending'  = [ending EXCEPT ![t] = 0]
  /\ sale'    = [sale EXCEPT ![t] = [success |-> TRUE, day |-> ending[t], rolled |-> FALSE]]
  /\ accrual' = [a \in Accrual |-> IF a[1] = t /\ a[2] \in scopes THEN "accrued" ELSE accrual[a]]
  /\ job'     = Missing(job, {t})
  /\ late'    = IF ending[t] \in closed THEN late \cup {t} ELSE late
  /\ UNCHANGED <<today, lines, fakturs, paid, closed>>

\* It rolls back: a crash, a conflict, or an accrual that cannot be posted.
Rollback(t) ==
  /\ ending[t] # 0
  /\ ending' = [ending EXCEPT ![t] = 0]
  /\ UNCHANGED <<today, sale, lines, fakturs, accrual, paid, job, closed, late>>

\* Replay and backfill of the Oracle bridge create a success without completed_at.
Undated(t) ==
  /\ ~sale[t].success /\ ending[t] = 0
  /\ sale' = [sale EXCEPT ![t].success = TRUE]
  /\ job'  = Missing(job, {t})
  /\ UNCHANGED <<today, ending, lines, fakturs, accrual, paid, closed, late>>

-----------------------------------------------------------------------------
\* Mutant: a rollup leaves out the transactions of the day it runs after.
ToRoll_Before(d) == {t \in Txn : sale[t].success /\ ~sale[t].rolled /\ sale[t].day = d - 1}

\* The transactions a rollup of day d selects.
ToRoll(d) == {t \in Txn : sale[t].success /\ ~sale[t].rolled /\ sale[t].day = d}

\* _cron_daily_rollup of yesterday, or of a date somebody gives.
BeginRollup(s, d) ==
  /\ job[s] = Idle
  /\ d <= today
  /\ job' = [job EXCEPT ![s] = [kind |-> "rollup", day |-> d, rows |-> ToRoll(d), missed |-> {}]]
  /\ UNCHANGED <<today, ending, sale, lines, fakturs, accrual, paid, closed, late>>

\* The UPDATE of the selected rows reports no conflict.
Unchanged(s) == job[s].rows \cap job[s].missed = {}

\* One order per mitra, then the mark, then the invoice, whose failure is logged only.
EndRollup(s) ==
  /\ job[s].kind = "rollup"
  /\ Unchanged(s)
  /\ LET rows == job[s].rows
     IN  /\ sale'  = [t \in Txn |-> IF t \in rows THEN [sale[t] EXCEPT !.rolled = TRUE] ELSE sale[t]]
         /\ lines' = [t \in Txn |-> IF t \in rows THEN lines[t] + 1 ELSE lines[t]]
         /\ \E invoiced \in SUBSET Mitra :
              fakturs' = [t \in Txn |-> IF t \in rows /\ MitraOf[t] \in invoiced
                                          THEN fakturs[t] + 1 ELSE fakturs[t]]
         /\ job'   = Missing([job EXCEPT ![s] = Idle], rows)
  /\ closed' = closed \cup {job[s].day}
  /\ late'   = late \cup {t \in Txn : t \in job[s].missed /\ sale[t].day = job[s].day}
  /\ UNCHANGED <<today, ending, accrual, paid>>

\* action_run of the settlement wizard: what is accrued in a scope and a period.
\* Nothing to settle is an error.
BeginSettle(s, scope, from, to) ==
  LET rows == {a \in Accrual : /\ a[2] = scope /\ accrual[a] = "accrued"
                               /\ sale[a[1]].day \in from..to}
  IN  /\ job[s] = Idle
      /\ rows # {}
      /\ job' = [job EXCEPT ![s] = [kind |-> "settle", day |-> 0, rows |-> rows, missed |-> {}]]
      /\ UNCHANGED <<today, ending, sale, lines, fakturs, accrual, paid, closed, late>>

\* Mutant: the accruals are not marked.
EndSettle_NoMark(s) ==
  /\ job[s].kind = "settle"
  /\ Unchanged(s)
  /\ paid' = [a \in Accrual |-> IF a \in job[s].rows THEN paid[a] + 1 ELSE paid[a]]
  /\ job'  = Missing([job EXCEPT ![s] = Idle], job[s].rows)
  /\ UNCHANGED <<today, ending, sale, lines, fakturs, accrual, closed, late>>

\* One bill or payout per partner, and the mark.
EndSettle(s) ==
  /\ job[s].kind = "settle"
  /\ Unchanged(s)
  /\ accrual' = [a \in Accrual |-> IF a \in job[s].rows THEN "invoiced" ELSE accrual[a]]
  /\ paid'    = [a \in Accrual |-> IF a \in job[s].rows THEN paid[a] + 1 ELSE paid[a]]
  /\ job'     = Missing([job EXCEPT ![s] = Idle], job[s].rows)
  /\ UNCHANGED <<today, ending, sale, lines, fakturs, closed, late>>

\* A conflict, an error or a crash.
Abort(s) ==
  /\ job[s] # Idle
  /\ job' = [job EXCEPT ![s] = Idle]
  /\ UNCHANGED <<today, ending, sale, lines, fakturs, accrual, paid, closed, late>>

Next ==
  \/ NextDay
  \/ \E t \in Txn : \/ Stamp(t) \/ Rollback(t) \/ Undated(t)
                    \/ \E scopes \in SUBSET Scope : Commit(t, scopes)
  \/ \E s \in Worker :
       \/ \E d \in Day : BeginRollup(s, d)
       \/ \E scope \in Scope, from, to \in Day : BeginSettle(s, scope, from, to)
       \/ EndRollup(s) \/ EndSettle(s) \/ Abort(s)

Spec == Init /\ [][Next]_vars

-----------------------------------------------------------------------------
\* "Idempotent: transactions already assigned x_custom_ppob_rollup_so_id are skipped;
\* re-running does not double-produce": a transaction is on one order exactly when it is
\* marked, and never on two invoices, although rollups do not lock what they select.
BilledOnce ==
  \A t \in Txn :
    /\ lines[t] = IF sale[t].rolled THEN 1 ELSE 0
    /\ fakturs[t] <= lines[t]

\* A commission is paid once: it is on a settlement document exactly when it is marked,
\* although settlements of overlapping periods may run at once.
SettledOnce ==
  \A a \in Accrual : paid[a] = IF accrual[a] = "invoiced" THEN 1 ELSE 0

\* After a day has been rolled up, a dated success of that day is on an order, or it was
\* committed after that rollup had begun: nothing else is left behind.
DayIsClosed ==
  \A t \in Txn :
    sale[t].success /\ sale[t].day \in closed => sale[t].rolled \/ t \in late

-----------------------------------------------------------------------------
(***************************************************************************)
(* The inductive invariant: what a job has selected is still unmarked or   *)
(* has been missed, and a rollup has selected or missed every unmarked     *)
(* success of its day.                                                     *)
(***************************************************************************)
SelectedIsUnmarked ==
  \A s \in Worker : \A x \in job[s].rows :
    \/ x \in job[s].missed
    \/ job[s].kind = "rollup" /\ x \in Txn /\ sale[x].success /\ ~sale[x].rolled
    \/ job[s].kind = "settle" /\ x \in Accrual /\ accrual[x] = "accrued"

RollupIsComplete ==
  \A s \in Worker : job[s].kind = "rollup" =>
    \A t \in Txn : sale[t].success /\ ~sale[t].rolled /\ sale[t].day = job[s].day =>
      t \in job[s].rows \/ t \in job[s].missed

IdleIsEmpty == \A s \in Worker : job[s].kind = "idle" => job[s].rows = {}

RollupHasDay == \A s \in Worker : job[s].kind = "rollup" => job[s].day \in Day

UncommittedIsNew ==
  \A t \in Txn :
    /\ ~sale[t].success => ~sale[t].rolled /\ \A c \in Scope : accrual[<<t, c>>] = "none"
    /\ ending[t] # 0 => ~sale[t].success
    /\ ~sale[t].success => sale[t].day = 0

IInv ==
  /\ TypeOK
  /\ BilledOnce
  /\ SettledOnce
  /\ DayIsClosed
  /\ SelectedIsUnmarked
  /\ RollupIsComplete
  /\ IdleIsEmpty
  /\ RollupHasDay
  /\ UncommittedIsNew
=============================================================================
