-------------------------- MODULE WmsOutboxProofs --------------------------
(***************************************************************************)
(* What the outbox says of a delivery is true and stays, for any number of *)
(* events, attempts and crashes and any breaker.                           *)
(***************************************************************************)
EXTENDS WmsOutbox, TLAPS

USE CountAssumption, BoundAssumption, ConfigAssumption, WorkerAssumption, FormAssumption

LEMMA Types == /\ NoRow \in Row /\ Closed \in Breaker /\ Idle \in Job
               /\ NoRow.state = "none" /\ Idle.row = [e \in Event |-> NoRow]
               /\ Idle.todo = {} /\ Idle.wrote = {} /\ Idle.on = FALSE
<1>1. NoRow \in Row /\ NoRow.state = "none"
  BY DEF NoRow, Row, State
<1>2. Closed \in Breaker
  BY DEF Closed, Breaker
<1>3. [e \in Event |-> NoRow] \in [Event -> Row]
  BY <1>1
<1> QED BY <1>1, <1>2, <1>3 DEF Idle, Job

LEMMA ConfigIsNoEvent == Config \notin Event
BY DEF Event

\* An idle job claims nothing.
LEMMA IdleFits == JobFits(Idle)
<1>1. \A e \in Event : Idle.row[e] = NoRow
  BY Types
<1> QED BY <1>1, Types DEF JobFits, Honest

LEMMA InitIInv == Init => IInv
<1> SUFFICES ASSUME Init PROVE IInv
  OBVIOUS
<1>1. TypeOK
  BY Types DEF Init, TypeOK
<1>2. Honest(row)
  BY Types DEF Init, Honest
<1>3. \A w \in Worker : JobFits(job[w])
  BY IdleFits DEF Init
<1> QED BY <1>1, <1>2, <1>3 DEF IInv

-----------------------------------------------------------------------------
\* A job that has not moved still fits, whatever more the host has heard.
LEMMA KeptFits ==
  ASSUME IInv, NEW w \in Worker, job'[w] = job[w], row' = row, heard \subseteq heard'
  PROVE  job'[w] \in Job /\ JobFits(job[w])'
<1>1. job[w] \in Job /\ JobFits(job[w])
  BY DEF IInv, TypeOK
<1> QED BY <1>1 DEF JobFits, Honest

\* So does one that is idle.
LEMMA IdleStays ==
  ASSUME NEW w \in Worker, job'[w] = Idle
  PROVE  job'[w] \in Job /\ JobFits(job[w])'
<1>1. \A e \in Event : Idle.row[e] = NoRow
  BY Types
<1> QED BY <1>1, Types DEF JobFits, Honest

\* And one that has missed a commit.
LEMMA MissedFits ==
  ASSUME IInv, NEW w \in Worker, NEW things \in SUBSET Resource,
         job'[w] = (IF job[w].on THEN Missed(job[w], things) ELSE Idle),
         \A e \in Event \ things : row'[e] = row[e], heard' = heard
  PROVE  job'[w] \in Job /\ JobFits(job[w])'
<1>1. job[w] \in Job /\ JobFits(job[w])
  BY DEF IInv, TypeOK
<1>2. CASE ~job[w].on
  BY <1>2, IdleStays
<1>3. CASE job[w].on
  <2> DEFINE more == things \cap (job[w].todo \cup job[w].wrote \cup {Config})
  <2>1. job'[w] = [job[w] EXCEPT !.missed = @ \cup more]
    BY <1>3 DEF Missed
  <2>2. /\ job'[w] \in Job
        /\ job'[w].todo = job[w].todo /\ job'[w].wrote = job[w].wrote /\ job'[w].row = job[w].row
        /\ job'[w].missed = job[w].missed \cup more
    BY <1>1, <2>1 DEF Job
  <2>3. \A e \in (job[w].todo \cup job[w].wrote) \ job'[w].missed : e \notin things
    BY <2>2
  <2>4. job[w].todo \subseteq Event
    BY <1>1 DEF Job
  <2> QED BY <1>1, <2>2, <2>3, <2>4 DEF JobFits, Honest
<1> QED BY <1>2, <1>3

-----------------------------------------------------------------------------
\* One row written by a short transaction.
LEMMA SetKeeps ==
  ASSUME IInv, NEW e \in Event, NEW r \in Row, Set(e, r), mishaps' \in 0..MaxMishaps,
         r.state = "sent" => e \in heard, r.state = "failed" => r.attempts >= MaxAttempts
  PROVE  IInv'
<1> USE DEF Set
<1>1. row' \in [Event -> Row] /\ Honest(row)'
  BY DEF IInv, TypeOK, Honest
<1>2. \A w \in Worker : job'[w] \in Job /\ JobFits(job[w])'
  <2> SUFFICES ASSUME NEW w \in Worker PROVE job'[w] \in Job /\ JobFits(job[w])'
    OBVIOUS
  <2>1. {e} \in SUBSET Resource /\ \A f \in Event \ {e} : row'[f] = row[f]
    BY DEF Resource, IInv, TypeOK
  <2> QED BY <2>1, MissedFits DEF Commit
<1>3. job' \in [Worker -> Job]
  BY <1>2 DEF Commit
<1> QED BY <1>1, <1>2, <1>3 DEF IInv, TypeOK

LEMMA MishapCounts == ASSUME TypeOK, Mishap PROVE mishaps' \in 0..MaxMishaps
BY DEF TypeOK, Mishap

LEMMA ShortSteps ==
  ASSUME IInv, NEW e \in Event,
         Enqueue(e) \/ Ack(e) \/ MarkAcked(e) \/ Retry(e) \/ Unlink(e) \/ UnlinkAsSuperuser(e)
  PROVE  IInv'
<1>1. TypeOK /\ row[e] \in Row
  BY DEF IInv, TypeOK
<1>2. CASE Enqueue(e)
  <2> DEFINE r == [state |-> "pending", attempts |-> 0]
  <2>1. r \in Row
    BY DEF Row, State
  <2> QED BY <1>1, <1>2, <2>1, SetKeeps DEF Enqueue, TypeOK
<1>3. \A s \in State : [row[e] EXCEPT !.state = s] \in Row /\ [row[e] EXCEPT !.state = s].state = s
  BY <1>1 DEF Row
<1>4. CASE Ack(e)
  <2>1. [row[e] EXCEPT !.state = "acked"] \in Row /\ [row[e] EXCEPT !.state = "acked"].state = "acked"
    BY <1>3 DEF State
  <2> QED BY <1>1, <1>4, <2>1, SetKeeps DEF Ack, TypeOK
<1>5. CASE MarkAcked(e)
  <2>1. [row[e] EXCEPT !.state = "acked"] \in Row /\ [row[e] EXCEPT !.state = "acked"].state = "acked"
    BY <1>3 DEF State
  <2> QED BY <1>1, <1>5, <2>1, SetKeeps, MishapCounts DEF MarkAcked
<1>6. CASE Retry(e)
  <2>1. [row[e] EXCEPT !.state = "pending"] \in Row /\ [row[e] EXCEPT !.state = "pending"].state = "pending"
    BY <1>3 DEF State
  <2> QED BY <1>1, <1>6, <2>1, SetKeeps, MishapCounts DEF Retry
<1>7. CASE Unlink(e) \/ UnlinkAsSuperuser(e)
  <2>1. Gone \in Row /\ Gone.state = "deleted"
    BY DEF Gone, Row, State
  <2> QED BY <1>1, <1>7, <2>1, SetKeeps, MishapCounts DEF Unlink, UnlinkAsSuperuser
<1> QED BY <1>2, <1>4, <1>5, <1>6, <1>7

LEMMA BreakerSteps == ASSUME IInv, Configure \/ Cool PROVE IInv'
<1>1. TypeOK /\ Honest(row)
  BY DEF IInv
<1>2. CASE Configure
  <2>1. breaker' \in Breaker
    <3>1. [breaker EXCEPT !.status = "disabled"] \in Breaker
      BY <1>1 DEF TypeOK, Breaker
    <3> QED BY <1>2, <3>1, Types DEF Configure
  <2>2. \A w \in Worker : job'[w] \in Job /\ JobFits(job[w])'
    <3>1. {Config} \in SUBSET Resource
      BY DEF Resource
    <3> QED BY <1>2, <3>1, MissedFits DEF Configure, Commit
  <2>3. job' \in [Worker -> Job]
    BY <1>2, <2>2 DEF Configure, Commit
  <2>4. mishaps' \in 0..MaxMishaps
    BY <1>1, <1>2, MishapCounts DEF Configure
  <2> QED BY <1>1, <1>2, <2>1, <2>2, <2>3, <2>4 DEF Configure, IInv, TypeOK, Honest
<1>3. CASE Cool
  <2>1. breaker' \in Breaker
    BY <1>1, <1>3 DEF Cool, TypeOK, Breaker
  <2>2. \A w \in Worker : JobFits(job[w])'
    BY <1>3, KeptFits DEF Cool
  <2> QED BY <1>1, <1>3, <2>1, <2>2 DEF Cool, IInv, TypeOK, Honest
<1> QED BY <1>2, <1>3

-----------------------------------------------------------------------------
\* A step of one job that writes nothing yet.
LEMMA JobStep ==
  ASSUME IInv, NEW w \in Worker, NEW j \in Job, job' = [job EXCEPT ![w] = j],
         UNCHANGED <<row, breaker, mishaps>>,
         heard \subseteq heard', heard' \subseteq Event,
         JobFits(job[w])'
  PROVE  IInv'
<1>1. TypeOK
  BY DEF IInv
<1>2. job' \in [Worker -> Job] /\ \A v \in Worker : v # w => job'[v] = job[v]
  BY <1>1 DEF TypeOK
<1>3. \A v \in Worker : JobFits(job[v])'
  BY <1>2, KeptFits
<1>4. Honest(row)'
  BY DEF IInv, Honest
<1> QED BY <1>1, <1>2, <1>3, <1>4 DEF IInv, TypeOK

LEMMA BeginKeeps ==
  ASSUME IInv, NEW w \in Worker, NEW todo \in SUBSET Event, Begin(w, todo),
         \A e \in todo : row[e].attempts < MaxSends
  PROVE  IInv'
<1> DEFINE rows == [e \in Event |-> IF e \in todo THEN row[e] ELSE NoRow]
           j == [on |-> TRUE, todo |-> todo, breaker |-> breaker, wrote |-> {}, missed |-> {},
                 row |-> rows]
<1>1. TypeOK /\ Honest(row)
  BY DEF IInv
<1>2. rows \in [Event -> Row] /\ \A e \in Event : rows[e] = row[e] \/ rows[e] = NoRow
  BY <1>1, Types DEF TypeOK
<1>3. j \in Job
  BY <1>1, <1>2 DEF Job, TypeOK
<1>4. job' = [job EXCEPT ![w] = j] /\ job'[w] = j
  BY <1>1 DEF Begin, TypeOK
<1>5. \A e \in todo : rows[e] = row[e]
  OBVIOUS
<1>6. Honest(rows)
  BY <1>1, <1>2, Types DEF Honest
<1>7. JobFits(job[w])'
  <2>1. row' = row /\ heard' = heard
    BY DEF Begin
  <2>2. j.row = rows /\ j.todo = todo /\ j.wrote = {} /\ j.missed = {}
    OBVIOUS
  <2> HIDE DEF j, rows
  <2> QED BY <1>4, <1>5, <1>6, <2>1, <2>2 DEF JobFits, Honest
<1> HIDE DEF j, rows
<1> QED BY <1>1, <1>3, <1>4, <1>7, JobStep DEF Begin, TypeOK

LEMMA BeginSteps == ASSUME IInv, BeginDrain \/ \E e \in Event : BeginSend(e) PROVE IInv'
<1>1. TypeOK /\ Cron \in Worker /\ User \in Worker
  BY DEF IInv, Worker
<1>2. CASE BeginDrain
  <2>1. Batch \in SUBSET Event /\ \A e \in Batch : row[e].attempts < MaxAttempts
    BY DEF Batch, Waiting
  <2>2. \A e \in Batch : row[e].attempts < MaxSends
    BY <1>1, <2>1 DEF TypeOK, Row
  <2> QED BY <1>1, <1>2, <2>1, <2>2, BeginKeeps DEF BeginDrain
<1>3. ASSUME NEW e \in Event, BeginSend(e) PROVE IInv'
  BY <1>1, <1>3, BeginKeeps DEF BeginSend
<1> QED BY <1>2, <1>3

-----------------------------------------------------------------------------
\* A row passed over.
LEMMA DropKeeps ==
  ASSUME IInv, NEW w \in Worker, NEW todo \in SUBSET job[w].todo,
         job' = [job EXCEPT ![w].todo = todo], UNCHANGED <<row, breaker, heard, mishaps>>
  PROVE  IInv'
<1>1. TypeOK /\ JobFits(job[w]) /\ job[w] \in Job
  BY DEF IInv, TypeOK
<1> DEFINE j == [job[w] EXCEPT !.todo = todo]
<1>2. /\ j \in Job /\ job' = [job EXCEPT ![w] = j] /\ job'[w] = j
      /\ j.todo = todo /\ j.wrote = job[w].wrote /\ j.row = job[w].row /\ j.missed = job[w].missed
  BY <1>1 DEF Job, TypeOK
<1> HIDE DEF j
<1>3. JobFits(job[w])'
  BY <1>1, <1>2 DEF JobFits, Honest
<1> QED BY <1>1, <1>2, <1>3, JobStep DEF TypeOK

\* A row written: it was not delivered when the transaction began.
LEMMA WriteKeeps ==
  ASSUME IInv, NEW w \in Worker, NEW e \in Event, Sends(w, e),
         NEW r \in Row, NEW b \in Breaker, Write(w, e, r, b),
         UNCHANGED <<row, breaker, mishaps>>,
         heard \subseteq heard', heard' \subseteq Event,
         r.state = "sent" => e \in heard', r.state = "failed" => r.attempts >= MaxAttempts
  PROVE  IInv'
<1>1. TypeOK /\ JobFits(job[w]) /\ job[w] \in Job
  BY DEF IInv, TypeOK
<1> DEFINE also == IF b = job[w].breaker THEN {e} ELSE {e, Config}
           rows == [job[w].row EXCEPT ![e] = r]
           j == [on |-> TRUE, todo |-> job[w].todo \ {e}, missed |-> job[w].missed,
                 row |-> rows, breaker |-> b, wrote |-> job[w].wrote \cup also]
<1>2. rows \in [Event -> Row] /\ rows[e] = r /\ \A f \in Event : f # e => rows[f] = job[w].row[f]
  BY <1>1 DEF Job
<1>3. also \in SUBSET Resource /\ also \subseteq {e, Config}
  BY DEF Resource
<1>4. job' = [job EXCEPT ![w] = j] /\ job'[w] = j
  BY <1>1 DEF Write, TypeOK
<1>5. /\ j \in Job
      /\ j.todo = job[w].todo \ {e} /\ j.wrote = job[w].wrote \cup also
      /\ j.row = rows /\ j.missed = job[w].missed
  <2> HIDE DEF rows, also
  <2> QED BY <1>1, <1>2, <1>3 DEF Job
<1>6. e \notin job[w].missed => row[e].state \notin Delivered
  BY <1>1 DEF Sends, First, Skips, JobFits
<1>7. e \in job[w].todo /\ job[w].todo \subseteq Event
  BY <1>1 DEF Sends, First, Job
<1> HIDE DEF rows, also, j
<1>8. JobFits(job[w])'
  <2>1. Honest(job[w].row)'
    BY <1>1, <1>2, <1>4, <1>5 DEF JobFits, Honest
  <2>2. \A f \in j.todo : rows[f] = job[w].row[f]
    BY <1>2, <1>5, <1>7
  <2>3. \A f \in j.wrote \ j.missed : f \in Event => row[f].state \notin Delivered
    BY <1>1, <1>3, <1>5, <1>6, ConfigIsNoEvent DEF JobFits
  <2> QED BY <1>1, <1>4, <1>5, <2>1, <2>2, <2>3 DEF JobFits
<1> QED BY <1>1, <1>4, <1>5, <1>8, JobStep DEF TypeOK

\* What the copy holds of a row that is still to be pushed.
LEMMA Copied ==
  ASSUME IInv, NEW w \in Worker, NEW e \in Event, Sends(w, e)
  PROVE  /\ job[w].row[e] \in Row /\ job[w].breaker \in Breaker
         /\ job[w].row[e].attempts + 1 \in 0..MaxSends
         /\ job[w].row[e].state = "sent" => e \in heard
         /\ job[w].row[e].state = "failed" => job[w].row[e].attempts >= MaxAttempts
<1>1. job[w] \in Job /\ JobFits(job[w])
  BY DEF IInv, TypeOK
<1>2. job[w].row[e] \in Row /\ job[w].breaker \in Breaker /\ e \in job[w].todo
  BY <1>1 DEF Job, Sends, First
<1>3. job[w].row[e].attempts + 1 \in 0..MaxSends
  BY <1>1, <1>2 DEF JobFits, Row
<1> QED BY <1>1, <1>2, <1>3 DEF JobFits, Honest

\* What a row becomes when its push raises.
LEMMA DeferredRow ==
  ASSUME IInv, NEW w \in Worker, NEW e \in Event, Sends(w, e)
  PROVE  Deferred(job[w].row[e]) \in Row /\ Deferred(job[w].row[e]).state = "pending"
<1>1. job[w].row[e].attempts + 1 \in 0..MaxSends
  BY Copied
<1> QED BY <1>1 DEF Deferred, Row, State

\* The breaker before a probe and after failures.
LEMMA ProbingBreaker ==
  ASSUME NEW b \in Breaker
  PROVE  Probing(b) \in Breaker
BY DEF Probing, Breaker

LEMMA FailedBreaker ==
  ASSUME NEW b \in Breaker, NEW n \in Nat
  PROVE  Failed(b, n) \in Breaker
<1>1. b.failures \in 0..Threshold /\ Threshold \in Nat
  BY DEF Breaker
<1>2. b.failures + n < Threshold => [b EXCEPT !.failures = @ + n] \in Breaker
  BY <1>1 DEF Breaker
<1>3. [status |-> "open", failures |-> Threshold] \in Breaker
  BY <1>1 DEF Breaker
<1> QED BY <1>2, <1>3 DEF Failed

LEMMA PushSteps == ASSUME IInv, NEW w \in Worker, Push(w) PROVE IInv'
<1>1. TypeOK
  BY DEF IInv
<1>2. CASE Halt(w)
  <2>1. {} \in SUBSET job[w].todo
    OBVIOUS
  <2> QED BY <1>2, <2>1, DropKeeps DEF Halt
<1>3. ASSUME NEW e \in Event, Skip(w, e) PROVE IInv'
  <2>1. job[w].todo \ {e} \in SUBSET job[w].todo
    OBVIOUS
  <2> QED BY <1>3, <2>1, DropKeeps DEF Skip
<1>4. ASSUME NEW e \in Event, NoAdapter(w, e) PROVE IInv'
  <2>1. Sends(w, e)
    BY <1>4 DEF NoAdapter
  <2>2. Write(w, e, job[w].row[e], job[w].breaker) /\ heard' = heard
        /\ UNCHANGED <<row, breaker, mishaps>>
    BY <1>4 DEF NoAdapter
  <2>3. heard' \subseteq Event /\ heard \subseteq heard'
    BY <1>1, <2>2 DEF TypeOK
  <2>4. /\ job[w].row[e] \in Row /\ job[w].breaker \in Breaker
        /\ job[w].row[e].state = "sent" => e \in heard'
        /\ job[w].row[e].state = "failed" => job[w].row[e].attempts >= MaxAttempts
    BY <2>1, <2>2, Copied
  <2> QED BY <2>1, <2>2, <2>3, <2>4, WriteKeeps
<1>5. ASSUME NEW e \in Event, Defer(w, e) PROVE IInv'
  <2> DEFINE r == Deferred(job[w].row[e])
  <2>1. Sends(w, e)
    BY <1>5 DEF Defer
  <2>2. r \in Row /\ r.state = "pending"
    BY <2>1, DeferredRow
  <2>3. Write(w, e, r, job[w].breaker)
    BY <1>5 DEF Defer
  <2> HIDE DEF r
  <2> QED BY <1>1, <1>5, <2>1, <2>2, <2>3, Copied, WriteKeeps DEF Defer, TypeOK
<1>6. ASSUME NEW e \in Event, Call(w, e) PROVE IInv'
  <2> DEFINE r == job[w].row[e]
             b == Probing(job[w].breaker)
             s == [state |-> "sent", attempts |-> r.attempts + 1]
  <2>1. Sends(w, e)
    BY <1>6 DEF Call
  <2>2. b \in Breaker
    BY <2>1, Copied, ProbingBreaker
  <2>3. CASE heard' = heard \cup {e} /\ Write(w, e, s, Closed)
    <3>1. s \in Row /\ s.state = "sent"
      BY <2>1, Copied DEF Row, State
    <3>2. UNCHANGED <<row, breaker, mishaps>> /\ heard' \subseteq Event
      BY <1>1, <1>6, <2>3 DEF Call, TypeOK
    <3> HIDE DEF s
    <3> QED BY <2>1, <2>3, <3>1, <3>2, Types, WriteKeeps
  <2>4. ASSUME NEW n \in 0..Requests, heard' \in {heard, heard \cup {e}},
               Write(w, e, Rejected(r), Failed(b, n))
        PROVE  IInv'
    <3>1. r.attempts + 1 \in 0..MaxSends
      BY <2>1, Copied
    <3>2. /\ Rejected(r) \in Row /\ Rejected(r).state # "sent"
          /\ Rejected(r).state = "failed" => Rejected(r).attempts >= MaxAttempts
      BY <3>1 DEF Rejected, Row, State
    <3>3. Failed(b, n) \in Breaker
      <4>1. n \in Nat
        OBVIOUS
      <4> HIDE DEF b
      <4> QED BY <2>2, <4>1, FailedBreaker
    <3>4. UNCHANGED <<row, breaker, mishaps>> /\ heard' \subseteq Event /\ heard \subseteq heard'
      BY <1>1, <1>6, <2>4 DEF Call, TypeOK
    <3> HIDE DEF b, r
    <3> QED BY <2>1, <2>4, <3>2, <3>3, <3>4, WriteKeeps
  <2> QED BY <1>6, <2>3, <2>4 DEF Call
<1>7. ASSUME NEW e \in Event, Raise(w, e) PROVE IInv'
  <2> DEFINE r == Deferred(job[w].row[e])
  <2>1. Sends(w, e)
    BY <1>7 DEF Raise
  <2>2. PICK n \in 0..(Requests - 1) :
          Write(w, e, r, Failed(Probing(job[w].breaker), n))
    BY <1>7 DEF Raise
  <2> DEFINE b == Failed(Probing(job[w].breaker), n)
  <2>3. r \in Row /\ r.state = "pending"
    BY <2>1, DeferredRow
  <2>4. b \in Breaker
    <3>1. n \in Nat
      OBVIOUS
    <3> QED BY <2>1, <3>1, Copied, ProbingBreaker, FailedBreaker
  <2>5. UNCHANGED <<row, breaker, mishaps>> /\ heard' \subseteq Event /\ heard \subseteq heard'
    BY <1>1, <1>7 DEF Raise, TypeOK
  <2>6. Write(w, e, r, b)
    BY <2>2
  <2> HIDE DEF r, b
  <2> QED BY <2>1, <2>3, <2>4, <2>5, <2>6, WriteKeeps
<1> QED BY <1>2, <1>3, <1>4, <1>5, <1>6, <1>7 DEF Push

-----------------------------------------------------------------------------
LEMMA EndKeeps == ASSUME IInv, NEW w \in Worker, End(w) PROVE IInv'
<1>1. TypeOK /\ Honest(row) /\ job[w] \in Job /\ JobFits(job[w])
  BY DEF IInv, TypeOK
<1>2. /\ job[w].row \in [Event -> Row] /\ job[w].breaker \in Breaker
      /\ job[w].wrote \in SUBSET Resource
  BY <1>1 DEF Job
<1>3. row' \in [Event -> Row] /\ breaker' \in Breaker
  BY <1>1, <1>2 DEF End, TypeOK
<1>4. Honest(row)'
  BY <1>1 DEF End, JobFits, Honest
<1>5. \A v \in Worker : job'[v] \in Job /\ JobFits(job[v])'
  <2> SUFFICES ASSUME NEW v \in Worker PROVE job'[v] \in Job /\ JobFits(job[v])'
    OBVIOUS
  <2>1. CASE v = w
    BY <2>1, IdleStays DEF End
  <2>2. CASE v # w
    <3>1. job'[v] = IF job[v].on THEN Missed(job[v], job[w].wrote) ELSE Idle
      BY <2>2 DEF End
    <3>2. (\A e \in Event \ job[w].wrote : row'[e] = row[e]) /\ heard' = heard
      BY DEF End
    <3> QED BY <1>2, <3>1, <3>2, MissedFits
  <2> QED BY <2>1, <2>2
<1>6. job' \in [Worker -> Job]
  BY <1>5 DEF End
<1> QED BY <1>1, <1>3, <1>4, <1>5, <1>6 DEF End, IInv, TypeOK

LEMMA RollbackKeeps == ASSUME IInv, NEW w \in Worker, Abort(w) \/ Crash(w) PROVE IInv'
<1>1. TypeOK /\ Honest(row)
  BY DEF IInv
<1>2. Rollback(w) /\ mishaps' \in 0..MaxMishaps
  BY <1>1, MishapCounts DEF Abort, Crash, TypeOK
<1>3. job' \in [Worker -> Job] /\ job'[w] = Idle /\ \A v \in Worker : v # w => job'[v] = job[v]
  BY <1>1, <1>2, Types DEF Rollback, TypeOK
<1>4. \A v \in Worker : JobFits(job[v])'
  BY <1>2, <1>3, IdleStays, KeptFits DEF Rollback
<1> QED BY <1>1, <1>2, <1>3, <1>4 DEF Rollback, IInv, TypeOK, Honest

LEMMA NextIInv == IInv /\ [Next]_vars => IInv'
<1> SUFFICES ASSUME IInv, [Next]_vars PROVE IInv'
  OBVIOUS
<1>1. CASE Next
  <2>1. ASSUME NEW e \in Event,
               \/ Enqueue(e) \/ Ack(e) \/ MarkAcked(e) \/ Retry(e)
               \/ Unlink(e) \/ UnlinkAsSuperuser(e)
        PROVE  IInv'
    BY <2>1, ShortSteps
  <2>2. CASE BeginDrain \/ \E e \in Event : BeginSend(e)
    BY <2>2, BeginSteps
  <2>3. CASE Configure \/ Cool
    BY <2>3, BreakerSteps
  <2>4. ASSUME NEW w \in Worker, Push(w) \/ End(w) \/ Abort(w) \/ Crash(w)
        PROVE  IInv'
    BY <2>4, PushSteps, EndKeeps, RollbackKeeps
  <2> QED BY <1>1, <2>1, <2>2, <2>3, <2>4 DEF Next
<1>2. CASE UNCHANGED vars
  <2>1. \A w \in Worker : JobFits(job[w])'
    BY <1>2, KeptFits DEF vars
  <2> QED BY <1>2, <2>1 DEF vars, IInv, TypeOK, Honest
<1> QED BY <1>1, <1>2

\* What is written of a delivery is true: a row that says sent was received, one that has
\* failed used up its attempts, and a transaction that can still commit has read no stale
\* row (_send and the REPEATABLE READ commit of the drain).
THEOREM WhatIsWrittenIsTrue == Spec => []IInv
BY InitIInv, NextIInv, PTL DEF Spec

-----------------------------------------------------------------------------
Stands(e) ==
  row[e].state \in Delivered => \/ row'[e].state = "acked" \/ row'[e] = row[e]
                                \/ Retry(e) \/ UnlinkAsSuperuser(e)

LEMMA NextStands == IInv /\ [Next]_vars => \A e \in Event : Stands(e)
<1> SUFFICES ASSUME IInv, [Next]_vars, NEW e \in Event, row[e].state \in Delivered
             PROVE  \/ row'[e].state = "acked" \/ row'[e] = row[e]
                    \/ Retry(e) \/ UnlinkAsSuperuser(e)
  BY DEF Stands
<1>1. TypeOK /\ row[e] \in Row /\ row[e].state \in {"sent", "acked"}
  BY DEF IInv, TypeOK, Delivered
<1>2. ASSUME NEW f \in Event, NEW r, Set(f, r), f # e PROVE row'[e] = row[e]
  BY <1>1, <1>2 DEF Set, TypeOK
<1>3. ASSUME NEW f \in Event, Enqueue(f) PROVE row'[e] = row[e]
  <2>1. f # e
    BY <1>1, <1>3 DEF Enqueue, NoRow
  <2> QED BY <1>2, <1>3, <2>1 DEF Enqueue
<1>4. ASSUME NEW f \in Event,
             Ack(f) \/ MarkAcked(f) \/ Retry(f) \/ Unlink(f) \/ UnlinkAsSuperuser(f)
      PROVE  \/ row'[e].state = "acked" \/ row'[e] = row[e]
             \/ Retry(e) \/ UnlinkAsSuperuser(e)
  <2>1. CASE f # e
    BY <1>2, <1>4, <2>1 DEF Ack, MarkAcked, Retry, Unlink, UnlinkAsSuperuser
  <2>2. CASE f = e /\ (Ack(f) \/ MarkAcked(f))
    <3>1. row' = [row EXCEPT ![e] = [row[e] EXCEPT !.state = "acked"]]
      BY <2>2 DEF Ack, MarkAcked, Set
    <3>2. row'[e] = [row[e] EXCEPT !.state = "acked"]
      BY <1>1, <3>1 DEF TypeOK
    <3> QED BY <1>1, <3>2 DEF Row
  <2>3. CASE f = e /\ Unlink(f)
    BY <1>1, <2>3 DEF Unlink
  <2> QED BY <1>4, <2>1, <2>2, <2>3
<1>5. ASSUME NEW w \in Worker, End(w) PROVE row'[e] = row[e]
  <2>1. JobFits(job[w])
    BY DEF IInv
  <2>2. e \notin job[w].wrote
    BY <1>5, <2>1 DEF End, Conflict, JobFits
  <2> QED BY <1>1, <1>5, <2>2 DEF End, TypeOK
<1>6. ASSUME NEW w \in Worker, Push(w) \/ Abort(w) \/ Crash(w) PROVE row' = row
  BY <1>6 DEF Push, Halt, Skip, NoAdapter, Defer, Call, Raise, Abort, Crash, Rollback
<1>7. CASE Configure \/ Cool \/ BeginDrain \/ \E f \in Event : BeginSend(f)
  BY <1>7 DEF Configure, Cool, BeginDrain, BeginSend, Begin
<1>8. CASE UNCHANGED vars
  BY <1>8 DEF vars
<1> QED BY <1>3, <1>4, <1>5, <1>6, <1>7, <1>8 DEF Next

\* A delivered event is not pushed back, un-acknowledged or deleted by any race of cron,
\* users and host; only Retry returns it to the queue, and only the superuser deletes it
\* (_send, _ack, unlink).
THEOREM DeliveriesStand == Spec => DeliveredStands
<1>1. IInv /\ [Next]_vars => [\A e \in Event : Stands(e)]_vars
  BY NextStands
<1>2. Spec => [][\A e \in Event : Stands(e)]_vars
  BY <1>1, InitIInv, NextIInv, PTL DEF Spec
<1> QED BY <1>2 DEF DeliveredStands, Stands
============================================================================
