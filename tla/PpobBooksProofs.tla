-------------------------- MODULE PpobBooksProofs --------------------------
(***************************************************************************)
(* A transaction is billed once, a commission settled once, and a rolled   *)
(* up day is complete, for any number of transactions, days and jobs.      *)
(***************************************************************************)
EXTENDS PpobBooks, TLAPS

LEMMA BooksTypes == NoSale \in Sale /\ Idle \in Job
BY DEF NoSale, Sale, Idle, Job, Date

LEMMA InitIInv == Init => IInv
<1> SUFFICES ASSUME Init PROVE IInv
  OBVIOUS
<1>1. TypeOK
  BY BooksTypes DEF Init, TypeOK, Date
<1>2. \A t \in Txn : /\ sale[t].success = FALSE /\ sale[t].rolled = FALSE
                     /\ lines[t] = 0 /\ fakturs[t] = 0 /\ ending[t] = 0 /\ sale[t].day = 0
  BY DEF Init, NoSale
<1>3. \A a \in Accrual : accrual[a] = "none" /\ paid[a] = 0
  BY DEF Init
<1>4. \A s \in Worker : job[s].kind = "idle" /\ job[s].rows = {}
  BY DEF Init, Idle
<1>5. BilledOnce /\ SettledOnce /\ DayIsClosed
  BY <1>2, <1>3 DEF BilledOnce, SettledOnce, DayIsClosed
<1>6. SelectedIsUnmarked /\ RollupIsComplete /\ IdleIsEmpty /\ RollupHasDay
  BY <1>4 DEF SelectedIsUnmarked, RollupIsComplete, IdleIsEmpty, RollupHasDay
<1>7. UncommittedIsNew
  BY <1>2, <1>3 DEF UncommittedIsNew, Accrual
<1> QED BY <1>1, <1>5, <1>6, <1>7 DEF IInv

\* Jobs only ever miss more, and keep what they have selected.
LEMMA MissingJobs ==
  ASSUME NEW jobs \in [Worker -> Job], NEW rows \in SUBSET Row
  PROVE  /\ Missing(jobs, rows) \in [Worker -> Job]
         /\ \A s \in Worker :
              /\ Missing(jobs, rows)[s].kind = jobs[s].kind
              /\ Missing(jobs, rows)[s].day = jobs[s].day
              /\ Missing(jobs, rows)[s].rows = jobs[s].rows
              /\ jobs[s].kind # "idle" =>
                   Missing(jobs, rows)[s].missed = jobs[s].missed \cup rows
<1> SUFFICES ASSUME NEW s \in Worker
             PROVE  /\ Missing(jobs, rows)[s] \in Job
                    /\ Missing(jobs, rows)[s].kind = jobs[s].kind
                    /\ Missing(jobs, rows)[s].day = jobs[s].day
                    /\ Missing(jobs, rows)[s].rows = jobs[s].rows
                    /\ jobs[s].kind # "idle" =>
                         Missing(jobs, rows)[s].missed = jobs[s].missed \cup rows
  BY DEF Missing
<1>1. jobs[s] \in Job
  OBVIOUS
<1>2. CASE jobs[s] = Idle
  <2>1. Missing(jobs, rows)[s] = Idle
    BY <1>2 DEF Missing
  <2> QED BY <1>2, <2>1, BooksTypes DEF Idle
<1>3. CASE jobs[s] # Idle
  <2>1. Missing(jobs, rows)[s] = [jobs[s] EXCEPT !.missed = @ \cup rows]
    BY <1>3 DEF Missing
  <2> QED BY <1>1, <2>1 DEF Job
<1> QED BY <1>2, <1>3

\* A worker that is done selects nothing.
LEMMA DoneJobs ==
  ASSUME TypeOK, NEW s \in Worker
  PROVE  /\ [job EXCEPT ![s] = Idle] \in [Worker -> Job]
         /\ [job EXCEPT ![s] = Idle][s].kind = "idle" /\ [job EXCEPT ![s] = Idle][s].rows = {}
         /\ \A z \in Worker : z # s => [job EXCEPT ![s] = Idle][z] = job[z]
<1>1. job \in [Worker -> Job] /\ Idle \in Job
  BY BooksTypes DEF TypeOK
<1> QED BY <1>1 DEF Idle

\* The two clauses about jobs hold if whoever is not done misses every change.
LEMMA JobsKeep ==
  ASSUME IInv, NEW rows \in SUBSET Row,
         job' \in [Worker -> Job],
         \A s \in Worker :
           \/ job'[s].kind = "idle" /\ job'[s].rows = {}
           \/ /\ job'[s].kind = job[s].kind /\ job'[s].day = job[s].day
              /\ job'[s].rows = job[s].rows
              /\ job'[s].kind # "idle" => job'[s].missed = job[s].missed \cup rows,
         \A t \in Txn : t \notin rows => sale'[t] = sale[t],
         \A a \in Accrual : accrual[a] = "accrued" /\ a \notin rows => accrual'[a] = "accrued"
  PROVE  SelectedIsUnmarked' /\ RollupIsComplete'
<1>1. SelectedIsUnmarked'
  <2> SUFFICES ASSUME NEW s \in Worker, NEW x \in job'[s].rows, x \notin job'[s].missed
               PROVE  \/ job'[s].kind = "rollup" /\ x \in Txn /\ sale'[x].success /\ ~sale'[x].rolled
                      \/ job'[s].kind = "settle" /\ x \in Accrual /\ accrual'[x] = "accrued"
    BY DEF SelectedIsUnmarked
  <2>1. /\ job'[s].kind = job[s].kind /\ job'[s].rows = job[s].rows
        /\ job'[s].kind # "idle" => job'[s].missed = job[s].missed \cup rows
    OBVIOUS
  <2>2. \/ x \in job[s].missed
        \/ job[s].kind = "rollup" /\ x \in Txn /\ sale[x].success /\ ~sale[x].rolled
        \/ job[s].kind = "settle" /\ x \in Accrual /\ accrual[x] = "accrued"
    BY <2>1 DEF IInv, SelectedIsUnmarked
  <2>3. job'[s].kind # "idle" => x \notin job[s].missed /\ x \notin rows
    BY <2>1
  <2>4. job[s].kind # "idle"
    BY <2>1 DEF IInv, SelectedIsUnmarked, IdleIsEmpty
  <2> QED BY <2>1, <2>2, <2>3, <2>4
<1>2. RollupIsComplete'
  <2> SUFFICES ASSUME NEW s \in Worker, job'[s].kind = "rollup", NEW t \in Txn,
                      sale'[t].success, ~sale'[t].rolled, sale'[t].day = job'[s].day
               PROVE  t \in job'[s].rows \/ t \in job'[s].missed
    BY DEF RollupIsComplete
  <2>1. /\ job[s].kind = "rollup" /\ job'[s].day = job[s].day /\ job'[s].rows = job[s].rows
        /\ job'[s].missed = job[s].missed \cup rows
    OBVIOUS
  <2>2. CASE t \in rows
    BY <2>1, <2>2
  <2>3. CASE t \notin rows
    BY <2>1, <2>3 DEF IInv, RollupIsComplete
  <2> QED BY <2>2, <2>3
<1> QED BY <1>1, <1>2

-----------------------------------------------------------------------------
\* Midnight, a stamp, a rollback, an abort: nothing is written.
LEMMA QuietKeeps ==
  ASSUME IInv, UNCHANGED <<sale, lines, fakturs, accrual, paid, closed, late>>,
         today' \in Day, ending' \in [Txn -> Date], job' \in [Worker -> Job],
         \A t \in Txn : ending'[t] # 0 => ~sale[t].success,
         \A s \in Worker : job'[s] = job[s] \/ (job'[s].kind = "idle" /\ job'[s].rows = {})
  PROVE  IInv'
<1>1. TypeOK'
  BY DEF IInv, TypeOK
<1>2. BilledOnce' /\ SettledOnce' /\ DayIsClosed' /\ UncommittedIsNew'
  BY DEF IInv, BilledOnce, SettledOnce, DayIsClosed, UncommittedIsNew
<1>3. SelectedIsUnmarked' /\ RollupIsComplete'
  <2>1. {} \in SUBSET Row
    OBVIOUS
  <2>2. \A s \in Worker :
           \/ job'[s].kind = "idle" /\ job'[s].rows = {}
           \/ /\ job'[s].kind = job[s].kind /\ job'[s].day = job[s].day
              /\ job'[s].rows = job[s].rows
              /\ job'[s].kind # "idle" => job'[s].missed = job[s].missed \cup {}
    OBVIOUS
  <2> QED BY <2>1, <2>2, JobsKeep
<1>4. IdleIsEmpty' /\ RollupHasDay'
  BY DEF IInv, IdleIsEmpty, RollupHasDay
<1> QED BY <1>1, <1>2, <1>3, <1>4 DEF IInv

LEMMA NextDayKeeps ==
  ASSUME IInv, NextDay
  PROVE  IInv'
<1>1. today' \in Day
  BY DayAssumption DEF IInv, TypeOK, NextDay, Day
<1>2. \A t \in Txn : ending[t] # 0 => ~sale[t].success
  BY DEF IInv, UncommittedIsNew
<1>3. /\ UNCHANGED <<sale, lines, fakturs, accrual, paid, closed, late, ending, job>>
      /\ ending \in [Txn -> Date] /\ job \in [Worker -> Job]
  BY DEF NextDay, IInv, TypeOK
<1> QED BY <1>1, <1>2, <1>3, QuietKeeps

LEMMA StampKeeps ==
  ASSUME IInv, NEW t \in Txn, Stamp(t)
  PROVE  IInv'
<1>1. TypeOK /\ \A z \in Txn : ending[z] # 0 => ~sale[z].success
  BY DEF IInv, UncommittedIsNew
<1>2. /\ UNCHANGED <<sale, lines, fakturs, accrual, paid, closed, late, today, job>>
      /\ ending' = [ending EXCEPT ![t] = today] /\ ~sale[t].success
  BY DEF Stamp
<1>3. ending' \in [Txn -> Date] /\ today' \in Day /\ job' \in [Worker -> Job]
  BY <1>1, <1>2 DEF TypeOK, Date
<1>4. \A z \in Txn : ending'[z] # 0 => ~sale[z].success
  BY <1>1, <1>2 DEF TypeOK
<1> QED BY <1>2, <1>3, <1>4, QuietKeeps

LEMMA RollbackKeeps ==
  ASSUME IInv, NEW t \in Txn, Rollback(t)
  PROVE  IInv'
<1>1. TypeOK /\ \A z \in Txn : ending[z] # 0 => ~sale[z].success
  BY DEF IInv, UncommittedIsNew
<1>2. /\ UNCHANGED <<sale, lines, fakturs, accrual, paid, closed, late, today, job>>
      /\ ending' = [ending EXCEPT ![t] = 0]
  BY DEF Rollback
<1>3. ending' \in [Txn -> Date] /\ today' \in Day /\ job' \in [Worker -> Job]
  BY <1>1, <1>2 DEF TypeOK, Date
<1>4. \A z \in Txn : ending'[z] # 0 => ~sale[z].success
  BY <1>1, <1>2 DEF TypeOK
<1> QED BY <1>2, <1>3, <1>4, QuietKeeps

LEMMA AbortKeeps ==
  ASSUME IInv, NEW s \in Worker, Abort(s)
  PROVE  IInv'
<1>1. TypeOK /\ \A z \in Txn : ending[z] # 0 => ~sale[z].success
  BY DEF IInv, UncommittedIsNew
<1>2. /\ UNCHANGED <<sale, lines, fakturs, accrual, paid, closed, late, today, ending>>
      /\ job' = [job EXCEPT ![s] = Idle]
  BY DEF Abort
<1>3. ending' \in [Txn -> Date] /\ today' \in Day
  BY <1>1, <1>2 DEF TypeOK
<1>4. /\ job' \in [Worker -> Job]
      /\ \A z \in Worker : job'[z] = job[z] \/ (job'[z].kind = "idle" /\ job'[z].rows = {})
  BY <1>1, <1>2, DoneJobs
<1> QED BY <1>1, <1>2, <1>3, <1>4, QuietKeeps

-----------------------------------------------------------------------------
\* A selection is what the database holds when it is made.
LEMMA BeginKeeps ==
  ASSUME IInv, NEW s \in Worker, NEW j \in Job, job' = [job EXCEPT ![s] = j],
         UNCHANGED <<today, ending, sale, lines, fakturs, accrual, paid, closed, late>>,
         j.kind # "idle",
         \A x \in j.rows :
           \/ j.kind = "rollup" /\ x \in Txn /\ sale[x].success /\ ~sale[x].rolled
           \/ j.kind = "settle" /\ x \in Accrual /\ accrual[x] = "accrued",
         j.kind = "rollup" =>
           j.day \in Day /\ \A t \in Txn : sale[t].success /\ ~sale[t].rolled /\ sale[t].day = j.day => t \in j.rows
  PROVE  IInv'
<1>1. TypeOK
  BY DEF IInv
<1>2. job' \in [Worker -> Job] /\ job'[s] = j /\ \A z \in Worker : z # s => job'[z] = job[z]
  BY <1>1 DEF TypeOK
<1>3. TypeOK'
  BY <1>1, <1>2 DEF TypeOK
<1>4. BilledOnce' /\ SettledOnce' /\ DayIsClosed' /\ UncommittedIsNew'
  BY DEF IInv, BilledOnce, SettledOnce, DayIsClosed, UncommittedIsNew
<1>5. SelectedIsUnmarked' /\ RollupIsComplete' /\ IdleIsEmpty' /\ RollupHasDay'
  BY <1>2 DEF IInv, SelectedIsUnmarked, RollupIsComplete, IdleIsEmpty, RollupHasDay
<1> QED BY <1>3, <1>4, <1>5 DEF IInv

LEMMA BeginRollupKeeps ==
  ASSUME IInv, NEW s \in Worker, NEW d \in Day, BeginRollup(s, d)
  PROVE  IInv'
<1> DEFINE j == [kind |-> "rollup", day |-> d, rows |-> ToRoll(d), missed |-> {}]
<1>1. j \in Job /\ j.kind = "rollup" /\ j.rows = ToRoll(d) /\ j.day = d
  BY DEF Job, Date, Row, ToRoll
<1>2. /\ job' = [job EXCEPT ![s] = j]
      /\ UNCHANGED <<today, ending, sale, lines, fakturs, accrual, paid, closed, late>>
  BY DEF BeginRollup
<1>3. \A x \in j.rows : j.kind = "rollup" /\ x \in Txn /\ sale[x].success /\ ~sale[x].rolled
  BY <1>1 DEF ToRoll
<1>4. \A t \in Txn : sale[t].success /\ ~sale[t].rolled /\ sale[t].day = j.day => t \in j.rows
  BY <1>1 DEF ToRoll
<1>5. j.kind # "idle"
  BY <1>1
<1> HIDE DEF j
<1> QED BY <1>1, <1>2, <1>3, <1>4, <1>5, BeginKeeps

LEMMA BeginSettleKeeps ==
  ASSUME IInv, NEW s \in Worker, NEW scope \in Scope, NEW from \in Day, NEW to \in Day,
         BeginSettle(s, scope, from, to)
  PROVE  IInv'
<1> DEFINE rows == {a \in Accrual : /\ a[2] = scope /\ accrual[a] = "accrued"
                                    /\ sale[a[1]].day \in from..to}
           j == [kind |-> "settle", day |-> 0, rows |-> rows, missed |-> {}]
<1>1. j \in Job /\ j.kind = "settle" /\ j.rows = rows
  BY DEF Job, Date, Row
<1>2. /\ job' = [job EXCEPT ![s] = j]
      /\ UNCHANGED <<today, ending, sale, lines, fakturs, accrual, paid, closed, late>>
  BY DEF BeginSettle
<1>3. \A x \in j.rows : j.kind = "settle" /\ x \in Accrual /\ accrual[x] = "accrued"
  BY <1>1
<1>4. j.kind # "idle" /\ j.kind # "rollup"
  BY <1>1
<1> HIDE DEF j
<1> QED BY <1>1, <1>2, <1>3, <1>4, BeginKeeps

-----------------------------------------------------------------------------
\* A transaction becomes a success, with or without a date and accruals.
LEMMA SuccessKeeps ==
  ASSUME IInv, NEW t \in Txn, NEW row \in Sale, ~sale[t].success,
         sale' = [sale EXCEPT ![t] = row], row.success, ~row.rolled,
         UNCHANGED <<today, lines, fakturs, paid, closed>>,
         job' = Missing(job, {t}),
         ending' \in [Txn -> Date], ending'[t] = 0,
         \A z \in Txn : z # t => ending'[z] = ending[z],
         accrual' \in [Accrual -> {"none", "accrued", "invoiced"}],
         \A a \in Accrual : \/ accrual'[a] = accrual[a]
                            \/ a[1] = t /\ accrual'[a] = "accrued",
         late' \in SUBSET Txn, late \subseteq late',
         row.day \in closed => t \in late'
  PROVE  IInv'
<1>1. TypeOK
  BY DEF IInv
<1>2. sale' \in [Txn -> Sale] /\ sale'[t] = row /\ \A z \in Txn : z # t => sale'[z] = sale[z]
  BY <1>1 DEF TypeOK
<1>3. {t} \in SUBSET Row /\ job \in [Worker -> Job]
  BY <1>1 DEF Row, TypeOK
<1>4. /\ job' \in [Worker -> Job]
      /\ \A s \in Worker :
           /\ job'[s].kind = job[s].kind /\ job'[s].day = job[s].day
           /\ job'[s].rows = job[s].rows
           /\ job'[s].kind # "idle" => job'[s].missed = job[s].missed \cup {t}
  BY <1>3, MissingJobs
<1>5. TypeOK'
  BY <1>1, <1>2, <1>4 DEF TypeOK
<1>6. ~sale[t].rolled /\ \A c \in Scope : accrual[<<t, c>>] = "none"
  BY DEF IInv, UncommittedIsNew
<1>7. BilledOnce'
  <2> SUFFICES ASSUME NEW z \in Txn
               PROVE  lines[z] = (IF sale'[z].rolled THEN 1 ELSE 0) /\ fakturs[z] <= lines[z]
    BY DEF BilledOnce
  <2>1. lines[z] = (IF sale[z].rolled THEN 1 ELSE 0) /\ fakturs[z] <= lines[z]
    BY DEF IInv, BilledOnce
  <2>2. sale'[z].rolled <=> sale[z].rolled
    BY <1>2, <1>6
  <2> QED BY <2>1, <2>2
<1>8. SettledOnce'
  <2> SUFFICES ASSUME NEW a \in Accrual
               PROVE  paid[a] = IF accrual'[a] = "invoiced" THEN 1 ELSE 0
    BY DEF SettledOnce
  <2>1. paid[a] = IF accrual[a] = "invoiced" THEN 1 ELSE 0
    BY DEF IInv, SettledOnce
  <2>2. accrual'[a] # accrual[a] => accrual[a] = "none" /\ accrual'[a] = "accrued"
    <3>1. a = <<a[1], a[2]>> /\ a[2] \in Scope
      BY DEF Accrual
    <3> QED BY <3>1, <1>6
  <2> QED BY <2>1, <2>2
<1>9. DayIsClosed'
  BY <1>2 DEF IInv, DayIsClosed
<1>10. SelectedIsUnmarked' /\ RollupIsComplete'
  <2>1. \A z \in Txn : z \notin {t} => sale'[z] = sale[z]
    BY <1>2
  <2>2. \A a \in Accrual : accrual[a] = "accrued" /\ a \notin {t} => accrual'[a] = "accrued"
    OBVIOUS
  <2> QED BY <1>3, <1>4, <2>1, <2>2, JobsKeep
<1>11. IdleIsEmpty' /\ RollupHasDay'
  <2>1. \A s \in Worker : /\ job[s].kind = "idle" => job[s].rows = {}
                          /\ job[s].kind = "rollup" => job[s].day \in Day
    BY DEF IInv, IdleIsEmpty, RollupHasDay
  <2>2. \A s \in Worker : /\ job'[s].kind = job[s].kind /\ job'[s].day = job[s].day
                          /\ job'[s].rows = job[s].rows
    BY <1>4
  <2>3. IdleIsEmpty'
    <3> SUFFICES ASSUME NEW s \in Worker, job'[s].kind = "idle" PROVE job'[s].rows = {}
      BY DEF IdleIsEmpty
    <3>1. job[s].kind = "idle" /\ job'[s].rows = job[s].rows
      BY <2>2
    <3> QED BY <2>1, <3>1
  <2>4. RollupHasDay'
    <3> SUFFICES ASSUME NEW s \in Worker, job'[s].kind = "rollup" PROVE job'[s].day \in Day
      BY DEF RollupHasDay, Day
    <3> QED BY <2>1, <2>2
  <2> QED BY <2>3, <2>4
<1>12. UncommittedIsNew'
  <2> SUFFICES ASSUME NEW z \in Txn
               PROVE  /\ ~sale'[z].success => ~sale'[z].rolled /\ \A c \in Scope : accrual'[<<z, c>>] = "none"
                      /\ ending'[z] # 0 => ~sale'[z].success
                      /\ ~sale'[z].success => sale'[z].day = 0
    BY DEF UncommittedIsNew
  <2>1. CASE z = t
    BY <2>1, <1>2
  <2>2. CASE z # t
    <3>1. sale'[z] = sale[z] /\ ending'[z] = ending[z]
      BY <2>2, <1>2
    <3>2. \A c \in Scope : <<z, c>> \in Accrual /\ <<z, c>>[1] = z
      BY DEF Accrual
    <3>3. \A c \in Scope : accrual'[<<z, c>>] = accrual[<<z, c>>]
      BY <2>2, <3>2
    <3> QED BY <3>1, <3>3 DEF IInv, UncommittedIsNew
  <2> QED BY <2>1, <2>2
<1> QED BY <1>5, <1>7, <1>8, <1>9, <1>10, <1>11, <1>12 DEF IInv

LEMMA CommitKeeps ==
  ASSUME IInv, NEW t \in Txn, NEW scopes \in SUBSET Scope, Commit(t, scopes)
  PROVE  IInv'
<1> DEFINE row == [success |-> TRUE, day |-> ending[t], rolled |-> FALSE]
<1>1. TypeOK
  BY DEF IInv
<1>2. row \in Sale /\ row.success /\ ~row.rolled /\ row.day = ending[t]
  BY <1>1 DEF TypeOK, Sale
<1>3. ~sale[t].success
  BY DEF IInv, UncommittedIsNew, Commit
<1>4. /\ ending' = [ending EXCEPT ![t] = 0] /\ sale' = [sale EXCEPT ![t] = row]
      /\ accrual' = [a \in Accrual |-> IF a[1] = t /\ a[2] \in scopes THEN "accrued" ELSE accrual[a]]
      /\ job' = Missing(job, {t})
      /\ UNCHANGED <<today, lines, fakturs, paid, closed>>
  BY DEF Commit
<1>5. /\ ending' \in [Txn -> Date] /\ ending'[t] = 0
      /\ \A z \in Txn : z # t => ending'[z] = ending[z]
  BY <1>1, <1>4 DEF TypeOK, Date
<1>6. /\ accrual' \in [Accrual -> {"none", "accrued", "invoiced"}]
      /\ \A a \in Accrual : accrual'[a] = accrual[a] \/ (a[1] = t /\ accrual'[a] = "accrued")
  BY <1>1, <1>4 DEF TypeOK
<1>7. /\ late' \in SUBSET Txn /\ late \subseteq late'
      /\ ending[t] \in closed => t \in late'
  BY <1>1 DEF Commit, TypeOK
<1> HIDE DEF row
<1> QED BY <1>2, <1>3, <1>4, <1>5, <1>6, <1>7, SuccessKeeps

LEMMA UndatedKeeps ==
  ASSUME IInv, NEW t \in Txn, Undated(t)
  PROVE  IInv'
<1> DEFINE row == [sale[t] EXCEPT !.success = TRUE]
<1>1. TypeOK /\ ~sale[t].success /\ ending[t] = 0
  BY DEF IInv, Undated
<1>2. sale[t] \in Sale /\ ~sale[t].rolled
  BY <1>1 DEF TypeOK, IInv, UncommittedIsNew
<1>3. row \in Sale /\ row.success /\ ~row.rolled /\ row.day = sale[t].day
  BY <1>2 DEF Sale
<1>4. /\ sale' = [sale EXCEPT ![t] = row]
      /\ job' = Missing(job, {t})
      /\ UNCHANGED <<today, ending, lines, fakturs, accrual, paid, closed, late>>
  BY DEF Undated
<1>5. ending' \in [Txn -> Date] /\ ending'[t] = 0
  BY <1>1, <1>4 DEF TypeOK
<1>6. accrual' \in [Accrual -> {"none", "accrued", "invoiced"}] /\ late' \in SUBSET Txn
  BY <1>1, <1>4 DEF TypeOK
<1>7. row.day \notin closed
  <2>1. sale[t].day = 0
    BY <1>1 DEF IInv, UncommittedIsNew
  <2>2. 0 \notin Day
    BY DEF Day
  <2> QED BY <1>1, <1>3, <2>1, <2>2 DEF TypeOK
<1> HIDE DEF row
<1> QED BY <1>1, <1>3, <1>4, <1>5, <1>6, <1>7, SuccessKeeps

-----------------------------------------------------------------------------
\* What is selected and not missed can be marked.
LEMMA Markable ==
  ASSUME IInv, NEW s \in Worker, Unchanged(s)
  PROVE  /\ job[s].kind = "rollup" => \A x \in job[s].rows : x \in Txn /\ sale[x].success /\ ~sale[x].rolled
         /\ job[s].kind = "settle" => \A x \in job[s].rows : x \in Accrual /\ accrual[x] = "accrued"
BY DEF IInv, SelectedIsUnmarked, Unchanged

\* The other jobs miss what a job has marked.
LEMMA DoneAndMissing ==
  ASSUME TypeOK, NEW s \in Worker, NEW rows \in SUBSET Row,
         job' = Missing([job EXCEPT ![s] = Idle], rows)
  PROVE  /\ job' \in [Worker -> Job]
         /\ \A z \in Worker :
              \/ job'[z].kind = "idle" /\ job'[z].rows = {}
              \/ /\ job'[z].kind = job[z].kind /\ job'[z].day = job[z].day
                 /\ job'[z].rows = job[z].rows
                 /\ job'[z].kind # "idle" => job'[z].missed = job[z].missed \cup rows
<1> DEFINE jobs == [job EXCEPT ![s] = Idle]
<1>1. /\ jobs \in [Worker -> Job] /\ jobs[s].kind = "idle" /\ jobs[s].rows = {}
      /\ \A z \in Worker : z # s => jobs[z] = job[z]
  BY DoneJobs
<1> HIDE DEF jobs
<1>2. /\ Missing(jobs, rows) \in [Worker -> Job]
      /\ \A z \in Worker :
              /\ Missing(jobs, rows)[z].kind = jobs[z].kind
              /\ Missing(jobs, rows)[z].day = jobs[z].day
              /\ Missing(jobs, rows)[z].rows = jobs[z].rows
              /\ jobs[z].kind # "idle" =>
                   Missing(jobs, rows)[z].missed = jobs[z].missed \cup rows
  BY <1>1, MissingJobs
<1>3. job' = Missing(jobs, rows)
  BY DEF jobs
<1> QED BY <1>1, <1>2, <1>3

LEMMA EndRollupKeeps ==
  ASSUME IInv, NEW s \in Worker, EndRollup(s)
  PROVE  IInv'
<1> DEFINE rows == job[s].rows
<1>1. TypeOK /\ job[s].kind = "rollup" /\ Unchanged(s)
  BY DEF IInv, EndRollup
<1>2. job[s] \in Job
  BY <1>1 DEF TypeOK
<1>3. rows \in SUBSET Row /\ \A x \in rows : x \in Txn /\ sale[x].success /\ ~sale[x].rolled
  BY <1>1, <1>2, Markable DEF Job
<1>4. /\ sale' = [t \in Txn |-> IF t \in rows THEN [sale[t] EXCEPT !.rolled = TRUE] ELSE sale[t]]
      /\ lines' = [t \in Txn |-> IF t \in rows THEN lines[t] + 1 ELSE lines[t]]
      /\ job' = Missing([job EXCEPT ![s] = Idle], rows)
      /\ closed' = closed \cup {job[s].day}
      /\ late' = late \cup {t \in Txn : t \in job[s].missed /\ sale[t].day = job[s].day}
      /\ UNCHANGED <<today, ending, accrual, paid>>
  BY DEF EndRollup
<1>5. PICK invoiced \in SUBSET Mitra :
        fakturs' = [t \in Txn |-> IF t \in rows /\ MitraOf[t] \in invoiced
                                    THEN fakturs[t] + 1 ELSE fakturs[t]]
  BY DEF EndRollup
<1> HIDE DEF rows
<1>6. \A t \in Txn : sale[t] \in Sale /\ lines[t] \in Nat /\ fakturs[t] \in Nat
  BY <1>1 DEF TypeOK
<1>7. \A t \in Txn : /\ sale'[t] \in Sale
                     /\ sale'[t].success = sale[t].success /\ sale'[t].day = sale[t].day
                     /\ sale'[t].rolled = (sale[t].rolled \/ t \in rows)
  <2> SUFFICES ASSUME NEW t \in Txn
               PROVE  /\ sale'[t] \in Sale
                      /\ sale'[t].success = sale[t].success /\ sale'[t].day = sale[t].day
                      /\ sale'[t].rolled = (sale[t].rolled \/ t \in rows)
    OBVIOUS
  <2>1. CASE t \in rows
    <3>1. sale'[t] = [sale[t] EXCEPT !.rolled = TRUE]
      BY <2>1, <1>4
    <3> QED BY <3>1, <2>1, <1>6 DEF Sale
  <2>2. CASE t \notin rows
    <3>1. sale'[t] = sale[t]
      BY <2>2, <1>4
    <3>2. sale[t].rolled \in BOOLEAN
      BY <1>6 DEF Sale
    <3> QED BY <3>1, <3>2, <2>2, <1>6
  <2> QED BY <2>1, <2>2
<1>8. /\ job' \in [Worker -> Job]
      /\ \A z \in Worker :
           \/ job'[z].kind = "idle" /\ job'[z].rows = {}
           \/ /\ job'[z].kind = job[z].kind /\ job'[z].day = job[z].day
              /\ job'[z].rows = job[z].rows
              /\ job'[z].kind # "idle" => job'[z].missed = job[z].missed \cup rows
  BY <1>1, <1>3, <1>4, DoneAndMissing
<1>9. TypeOK'
  <2>1. sale' \in [Txn -> Sale]
    BY <1>4, <1>7
  <2>2. lines' \in [Txn -> Nat] /\ fakturs' \in [Txn -> Nat]
    BY <1>4, <1>5, <1>6
  <2>3. job[s].day \in Day
    BY <1>1 DEF IInv, RollupHasDay
  <2>4. closed' \in SUBSET Day /\ late' \in SUBSET Txn
    BY <1>1, <1>4, <2>3 DEF TypeOK
  <2> QED BY <1>1, <1>4, <1>8, <2>1, <2>2, <2>4 DEF TypeOK
<1>10. BilledOnce'
  <2> SUFFICES ASSUME NEW t \in Txn
               PROVE  lines'[t] = (IF sale'[t].rolled THEN 1 ELSE 0) /\ fakturs'[t] <= lines'[t]
    BY DEF BilledOnce
  <2>1. lines[t] = (IF sale[t].rolled THEN 1 ELSE 0) /\ fakturs[t] <= lines[t]
    BY DEF IInv, BilledOnce
  <2>2. CASE t \in rows
    <3>1. lines'[t] = lines[t] + 1 /\ fakturs'[t] \in {fakturs[t], fakturs[t] + 1}
      BY <2>2, <1>4, <1>5
    <3>2. ~sale[t].rolled /\ sale'[t].rolled
      BY <2>2, <1>3, <1>7
    <3> QED BY <2>1, <3>1, <3>2, <1>6
  <2>3. CASE t \notin rows
    <3>1. lines'[t] = lines[t] /\ fakturs'[t] = fakturs[t] /\ sale'[t] = sale[t]
      BY <2>3, <1>4, <1>5
    <3> QED BY <2>1, <3>1
  <2> QED BY <2>2, <2>3
<1>11. SettledOnce'
  BY <1>4 DEF IInv, SettledOnce
<1>12. DayIsClosed'
  <2> SUFFICES ASSUME NEW t \in Txn, sale[t].success, sale[t].day \in closed', ~sale'[t].rolled
               PROVE  t \in late'
    BY <1>7 DEF DayIsClosed
  <2>1. ~sale[t].rolled /\ t \notin rows
    BY <1>7
  <2>2. CASE sale[t].day \in closed
    BY <2>1, <2>2, <1>4 DEF IInv, DayIsClosed
  <2>3. CASE sale[t].day = job[s].day
    <3>1. t \in job[s].missed
      BY <2>1, <2>3, <1>1 DEF IInv, RollupIsComplete, rows
    <3> QED BY <3>1, <2>3, <1>4
  <2> QED BY <2>2, <2>3, <1>4
<1>13. SelectedIsUnmarked' /\ RollupIsComplete'
  <2>1. \A t \in Txn : t \notin rows => sale'[t] = sale[t]
    BY <1>4
  <2>2. \A a \in Accrual : accrual[a] = "accrued" /\ a \notin rows => accrual'[a] = "accrued"
    BY <1>4
  <2> QED BY <1>3, <1>8, <2>1, <2>2, JobsKeep
<1>14. IdleIsEmpty' /\ RollupHasDay'
  BY <1>8 DEF IInv, IdleIsEmpty, RollupHasDay
<1>15. UncommittedIsNew'
  BY <1>3, <1>4, <1>7 DEF IInv, UncommittedIsNew
<1> QED BY <1>9, <1>10, <1>11, <1>12, <1>13, <1>14, <1>15 DEF IInv

LEMMA EndSettleKeeps ==
  ASSUME IInv, NEW s \in Worker, EndSettle(s)
  PROVE  IInv'
<1> DEFINE rows == job[s].rows
<1>1. TypeOK /\ job[s].kind = "settle" /\ Unchanged(s)
  BY DEF IInv, EndSettle
<1>2. job[s] \in Job
  BY <1>1 DEF TypeOK
<1>3. rows \in SUBSET Row /\ \A x \in rows : x \in Accrual /\ accrual[x] = "accrued"
  BY <1>1, <1>2, Markable DEF Job
<1>4. /\ accrual' = [a \in Accrual |-> IF a \in rows THEN "invoiced" ELSE accrual[a]]
      /\ paid' = [a \in Accrual |-> IF a \in rows THEN paid[a] + 1 ELSE paid[a]]
      /\ job' = Missing([job EXCEPT ![s] = Idle], rows)
      /\ UNCHANGED <<today, ending, sale, lines, fakturs, closed, late>>
  BY DEF EndSettle
<1> HIDE DEF rows
<1>8. /\ job' \in [Worker -> Job]
      /\ \A z \in Worker :
           \/ job'[z].kind = "idle" /\ job'[z].rows = {}
           \/ /\ job'[z].kind = job[z].kind /\ job'[z].day = job[z].day
              /\ job'[z].rows = job[z].rows
              /\ job'[z].kind # "idle" => job'[z].missed = job[z].missed \cup rows
  BY <1>1, <1>3, <1>4, DoneAndMissing
<1>9. TypeOK'
  <2>1. accrual' \in [Accrual -> {"none", "accrued", "invoiced"}] /\ paid' \in [Accrual -> Nat]
    BY <1>1, <1>4 DEF TypeOK
  <2> QED BY <1>1, <1>4, <1>8, <2>1 DEF TypeOK
<1>10. BilledOnce' /\ DayIsClosed'
  BY <1>4 DEF IInv, BilledOnce, DayIsClosed
<1>11. SettledOnce'
  <2> SUFFICES ASSUME NEW a \in Accrual PROVE paid'[a] = IF accrual'[a] = "invoiced" THEN 1 ELSE 0
    BY DEF SettledOnce
  <2>1. paid[a] = IF accrual[a] = "invoiced" THEN 1 ELSE 0
    BY DEF IInv, SettledOnce
  <2> QED BY <2>1, <1>3, <1>4
<1>13. SelectedIsUnmarked' /\ RollupIsComplete'
  <2>1. \A t \in Txn : t \notin rows => sale'[t] = sale[t]
    BY <1>4
  <2>2. \A a \in Accrual : accrual[a] = "accrued" /\ a \notin rows => accrual'[a] = "accrued"
    BY <1>4
  <2> QED BY <1>3, <1>8, <2>1, <2>2, JobsKeep
<1>14. IdleIsEmpty' /\ RollupHasDay'
  BY <1>8 DEF IInv, IdleIsEmpty, RollupHasDay
<1>15. UncommittedIsNew'
  <2> SUFFICES ASSUME NEW t \in Txn
               PROVE  /\ ~sale[t].success => ~sale[t].rolled /\ \A c \in Scope : accrual'[<<t, c>>] = "none"
                      /\ ending[t] # 0 => ~sale[t].success
                      /\ ~sale[t].success => sale[t].day = 0
    BY <1>4 DEF UncommittedIsNew
  <2>1. \A c \in Scope : <<t, c>> \in Accrual
    BY DEF Accrual
  <2>2. /\ ~sale[t].success => ~sale[t].rolled /\ \A c \in Scope : accrual[<<t, c>>] = "none"
        /\ ending[t] # 0 => ~sale[t].success
        /\ ~sale[t].success => sale[t].day = 0
    BY DEF IInv, UncommittedIsNew
  <2> QED BY <2>1, <2>2, <1>3, <1>4
<1> QED BY <1>9, <1>10, <1>11, <1>13, <1>14, <1>15 DEF IInv

-----------------------------------------------------------------------------
LEMMA NextKeeps == IInv /\ [Next]_vars => IInv'
<1> SUFFICES ASSUME IInv, [Next]_vars PROVE IInv'
  OBVIOUS
<1>1. CASE NextDay
  BY <1>1, NextDayKeeps
<1>2. CASE \E t \in Txn : Stamp(t) \/ Rollback(t) \/ Undated(t)
  BY <1>2, StampKeeps, RollbackKeeps, UndatedKeeps
<1>3. CASE \E t \in Txn : \E scopes \in SUBSET Scope : Commit(t, scopes)
  BY <1>3, CommitKeeps
<1>4. CASE \E s \in Worker : \E d \in Day : BeginRollup(s, d)
  BY <1>4, BeginRollupKeeps
<1>5. CASE \E s \in Worker : \E scope \in Scope, from, to \in Day : BeginSettle(s, scope, from, to)
  BY <1>5, BeginSettleKeeps
<1>6. CASE \E s \in Worker : EndRollup(s) \/ EndSettle(s) \/ Abort(s)
  BY <1>6, EndRollupKeeps, EndSettleKeeps, AbortKeeps
<1>7. CASE UNCHANGED vars
  <2>1. /\ UNCHANGED <<sale, lines, fakturs, accrual, paid, closed, late, ending, job>>
        /\ today' \in Day /\ ending' \in [Txn -> Date] /\ job' \in [Worker -> Job]
    BY <1>7 DEF vars, IInv, TypeOK
  <2>2. \A t \in Txn : ending'[t] # 0 => ~sale[t].success
    BY <2>1 DEF IInv, UncommittedIsNew
  <2> QED BY <2>1, <2>2, QuietKeeps
<1> QED BY <1>1, <1>2, <1>3, <1>4, <1>5, <1>6, <1>7 DEF Next

\* A transaction is on one order and a commission on one document, exactly when they are
\* marked so, however rollups and settlements overlap.
THEOREM MarkedOnce == Spec => []IInv
BY InitIInv, NextKeeps, PTL DEF Spec

\* A rolled up day has left behind only what was committed after its rollup began.
THEOREM DaysAreClosed == Spec => []DayIsClosed
<1>1. IInv => DayIsClosed
  BY DEF IInv
<1> QED BY <1>1, InitIInv, NextKeeps, PTL DEF Spec
=============================================================================
