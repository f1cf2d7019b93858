----------------------------- MODULE WmsOutbox -----------------------------
(***************************************************************************)
(* The outbox of custom_wms_integration.  A warehouse transaction leaves   *)
(* an event in it; a cron, or a user, pushes the event to the host of the  *)
(* tenant through an adapter with a circuit breaker, and the host          *)
(* acknowledges it by a call of its own.                                   *)
(*                                                                         *)
(* The whole drain is one database transaction: rows and the breaker are   *)
(* written to a copy of its snapshot while the host has the events already.*)
(* Whoever writes a row that another has committed since the snapshot      *)
(* fails and loses everything but what the host has heard.                 *)
(***************************************************************************)
EXTENDS Naturals, FiniteSets

CONSTANTS
  MaxEvent,     \* bound: events
  MaxAttempts,  \* MAX_ATTEMPTS: pushes of a row by the cron
  MaxSends,     \* bound: pushes of a row by anybody
  Threshold,    \* circuit_breaker_threshold
  Requests,     \* retry_count, at least 1: requests of one call
  Limit,        \* rows of one drain
  Forms,        \* bound: events that users work on by hand
  Cron, User,   \* the two transactions that push
  Config,       \* the adapter's configuration row
  Pinned,       \* whether wms_integration.adapter_config names it
  MaxMishaps    \* bound: crashes, and operators who retry, reset or disable

ASSUME CountAssumption  == {MaxEvent, MaxAttempts, MaxSends, Threshold, Requests, Limit, MaxMishaps} \subseteq Nat
ASSUME BoundAssumption  == MaxAttempts <= MaxSends /\ Requests >= 1
ASSUME ConfigAssumption == Config \notin 1..MaxEvent
ASSUME WorkerAssumption == Cron # User /\ Pinned \in BOOLEAN

Event  == 1..MaxEvent
Worker == {Cron, User}

ASSUME FormAssumption == Forms \subseteq Event

VARIABLES
  row,       \* wms.integration.event, committed
  breaker,   \* status and failures of custom.adapter.config, committed
  heard,     \* events the host has received
  job,       \* the transaction of each worker
  mishaps    \* how many there were

vars == <<row, breaker, heard, job, mishaps>>

-----------------------------------------------------------------------------
\* "sending" is written and overwritten within one action.
State     == {"none", "pending", "sent", "acked", "failed", "deleted"}
Row       == [state: State, attempts: 0..MaxSends]
NoRow     == [state |-> "none", attempts |-> 0]
Gone      == [state |-> "deleted", attempts |-> 0]
Breaker   == [status: {"active", "disabled", "open", "cooled"}, failures: 0..Threshold]
Closed    == [status |-> "active", failures |-> 0]
Delivered == {"sent", "acked"}
Resource  == Event \cup {Config}

\* A transaction: what it still has to push, its copy, what it has written and what
\* others have committed since its snapshot.
Job  == [on: BOOLEAN, todo: SUBSET Event, row: [Event -> Row], breaker: Breaker,
         wrote: SUBSET Resource, missed: SUBSET Resource]
Idle == [on |-> FALSE, todo |-> {}, row |-> [e \in Event |-> NoRow], breaker |-> Closed,
         wrote |-> {}, missed |-> {}]

Init ==
  /\ row     = [e \in Event |-> NoRow]
  /\ breaker = Closed
  /\ heard   = {}
  /\ job     = [w \in Worker |-> Idle]
  /\ mishaps = 0

-----------------------------------------------------------------------------
\* A commit of others, as far as it concerns a transaction under way.
Missed(j, things) ==
  [j EXCEPT !.missed = @ \cup (things \cap (j.todo \cup j.wrote \cup {Config}))]
Commit(things) == job' = [w \in Worker |-> IF job[w].on THEN Missed(job[w], things) ELSE Idle]

Set(e, r) ==
  /\ row' = [row EXCEPT ![e] = r]
  /\ Commit({e})
  /\ UNCHANGED <<breaker, heard>>

\* enqueue, from the hook of a transfer or of a count: a failure only loses the event.
Enqueue(e) ==
  /\ row[e] = NoRow
  /\ \A f \in 1..(e - 1) : row[f].state # "none"
  /\ Set(e, [state |-> "pending", attempts |-> 0])
  /\ UNCHANGED mishaps

\* /api/wms/ack: the host acknowledges what it has received, perhaps again.
Ack(e) ==
  /\ e \in heard /\ row[e].state # "deleted"
  /\ Set(e, [row[e] EXCEPT !.state = "acked"])
  /\ UNCHANGED mishaps

Mishap ==
  /\ mishaps < MaxMishaps
  /\ mishaps' = mishaps + 1

MarkAcked(e) ==
  /\ row[e].state \notin {"none", "deleted"}
  /\ Set(e, [row[e] EXCEPT !.state = "acked"])
  /\ Mishap

\* action_retry keeps the attempts; the button may be that of a stale form.
Retry(e) ==
  /\ row[e].state \notin {"none", "deleted"}
  /\ Set(e, [row[e] EXCEPT !.state = "pending"])
  /\ Mishap

\* unlink: what was delivered cannot be deleted, except by the superuser.
Unlink(e) ==
  /\ row[e].state \in {"pending", "failed"}
  /\ Set(e, Gone)
  /\ Mishap

UnlinkAsSuperuser(e) ==
  /\ row[e].state \in Delivered
  /\ Set(e, Gone)
  /\ Mishap

\* action_reset_circuit and action_enable, action_disable.
Configure ==
  /\ \E b \in {Closed, [breaker EXCEPT !.status = "disabled"]} : breaker' = b
  /\ Commit({Config})
  /\ UNCHANGED <<row, heard>>
  /\ Mishap

\* The cooldown elapses.
Cool ==
  /\ breaker.status = "open"
  /\ breaker' = [breaker EXCEPT !.status = "cooled"]
  /\ UNCHANGED <<row, heard, job, mishaps>>

-----------------------------------------------------------------------------
Waiting(e) == row[e].state = "pending" /\ row[e].attempts < MaxAttempts

\* The oldest Limit rows of the pool.
Batch ==
  LET pool == {e \in Event : Waiting(e)}
  IN  {e \in pool : Cardinality({f \in pool : f < e}) < Limit}

Begin(w, todo) ==
  /\ ~job[w].on
  /\ job' = [job EXCEPT ![w] =
       [on |-> TRUE, todo |-> todo, breaker |-> breaker, wrote |-> {}, missed |-> {},
        row |-> [e \in Event |-> IF e \in todo THEN row[e] ELSE NoRow]]]
  /\ UNCHANGED <<row, breaker, heard, mishaps>>

BeginDrain == Batch # {} /\ Begin(Cron, Batch)

\* The "Send Now" of a form, perhaps a stale one.
BeginSend(e) ==
  /\ row[e].state \notin {"none", "deleted"} /\ row[e].attempts < MaxSends
  /\ Begin(User, {e})

-----------------------------------------------------------------------------
First(w, e) == job[w].on /\ e \in job[w].todo /\ \A f \in job[w].todo : e <= f

Tripped(b) == b.status \in {"open", "cooled"}

\* _cron_drain_outbox leaves a tripped breaker alone, cooled down or not.
Halts(w) == w = Cron /\ Pinned /\ Tripped(job[w].breaker)

\* _adapter_config finds a pinned configuration in any status, another only when it is
\* active; get_adapter refuses a disabled one.
Unavailable(b) == b.status = "disabled" \/ (~Pinned /\ Tripped(b))

\* Mutant: an acknowledged row is pushed again.
Skips_Sent(r) == r.state = "sent"

\* _send leaves a delivered row alone.
Skips(r) == r.state \in Delivered

\* The row is done with: its new value and that of the breaker in the copy.
Write(w, e, r, b) ==
  job' = [job EXCEPT ![w] =
    [on |-> TRUE, todo |-> job[w].todo \ {e}, missed |-> job[w].missed,
     row |-> [job[w].row EXCEPT ![e] = r], breaker |-> b,
     wrote |-> job[w].wrote \cup (IF b = job[w].breaker THEN {e} ELSE {e, Config})]]

Halt(w) ==
  /\ job[w].on /\ job[w].todo # {} /\ Halts(w)
  /\ job' = [job EXCEPT ![w].todo = {}]
  /\ UNCHANGED <<row, breaker, heard, mishaps>>

Skip(w, e) ==
  /\ First(w, e) /\ ~Halts(w) /\ Skips(job[w].row[e])
  /\ job' = [job EXCEPT ![w].todo = @ \ {e}]
  /\ UNCHANGED <<row, breaker, heard, mishaps>>

Sends(w, e) == First(w, e) /\ ~Halts(w) /\ ~Skips(job[w].row[e])

\* Only last_error is written.
NoAdapter(w, e) ==
  /\ Sends(w, e) /\ Unavailable(job[w].breaker)
  /\ Write(w, e, job[w].row[e], job[w].breaker)
  /\ UNCHANGED <<row, breaker, heard, mishaps>>

\* The row after an exception: the attempt counts, be it the last, the row is pending again.
Deferred(r) == [state |-> "pending", attempts |-> r.attempts + 1]

\* CircuitBreakerOpenError, before any request.
Defer(w, e) ==
  /\ Sends(w, e) /\ ~Unavailable(job[w].breaker) /\ job[w].breaker.status = "open"
  /\ Write(w, e, Deferred(job[w].row[e]), job[w].breaker)
  /\ UNCHANGED <<row, breaker, heard, mishaps>>

\* _cb_precheck lets a probe through a breaker that has cooled down.
Probing(b) == IF b.status = "cooled" THEN [b EXCEPT !.status = "active"] ELSE b

\* _cb_record_failure, n times.
Failed(b, n) ==
  IF n = 0 THEN b
  ELSE IF b.failures + n < Threshold THEN [b EXCEPT !.failures = @ + n]
  ELSE [status |-> "open", failures |-> Threshold]

\* Mutant: gives up one attempt too early.
Rejected_Early(r) ==
  [state    |-> IF r.attempts + 2 >= MaxAttempts THEN "failed" ELSE "pending",
   attempts |-> r.attempts + 1]

\* Mutant: the attempt is not counted.
Rejected_Uncounted(r) ==
  [state    |-> IF r.attempts >= MaxAttempts THEN "failed" ELSE "pending",
   attempts |-> r.attempts]

\* The row after a push the host refused or did not answer.
Rejected(r) ==
  [state    |-> IF r.attempts + 1 >= MaxAttempts THEN "failed" ELSE "pending",
   attempts |-> r.attempts + 1]

\* The call: the host accepts the event; or refuses it, which leaves the breaker alone;
\* or no request is answered.  An unanswered request may still have been received.
Call(w, e) ==
  /\ Sends(w, e) /\ ~Unavailable(job[w].breaker) /\ job[w].breaker.status # "open"
  /\ LET r == job[w].row[e]
         b == Probing(job[w].breaker)
     IN  \/ /\ heard' = heard \cup {e}
            /\ Write(w, e, [state |-> "sent", attempts |-> r.attempts + 1], Closed)
         \/ \E n \in 0..Requests :
              /\ heard' \in {heard, heard \cup {e}}
              /\ Write(w, e, Rejected(r), Failed(b, n))
  /\ UNCHANGED <<row, breaker, mishaps>>

\* Any other error of the client, in one of its requests, after some that failed.
Raise(w, e) ==
  /\ Sends(w, e) /\ ~Unavailable(job[w].breaker) /\ job[w].breaker.status # "open"
  /\ heard' \in {heard, heard \cup {e}}
  /\ \E n \in 0..(Requests - 1) :
       Write(w, e, Deferred(job[w].row[e]), Failed(Probing(job[w].breaker), n))
  /\ UNCHANGED <<row, breaker, mishaps>>

-----------------------------------------------------------------------------
Conflict(w) == job[w].wrote \cap job[w].missed # {}

\* The commit of the whole transaction.
End(w) ==
  /\ job[w].on /\ job[w].todo = {} /\ ~Conflict(w)
  /\ row'     = [e \in Event |-> IF e \in job[w].wrote THEN job[w].row[e] ELSE row[e]]
  /\ breaker' = IF Config \in job[w].wrote THEN job[w].breaker ELSE breaker
  /\ job'     = [v \in Worker |-> IF v # w /\ job[v].on THEN Missed(job[v], job[w].wrote) ELSE Idle]
  /\ UNCHANGED <<heard, mishaps>>

Rollback(w) ==
  /\ job' = [job EXCEPT ![w] = Idle]
  /\ UNCHANGED <<row, breaker, heard>>

Abort(w) == job[w].on /\ Conflict(w) /\ Rollback(w) /\ UNCHANGED mishaps
Crash(w) == job[w].on /\ Rollback(w) /\ Mishap

Push(w) ==
  \/ Halt(w)
  \/ \E e \in Event : Skip(w, e) \/ NoAdapter(w, e) \/ Defer(w, e) \/ Call(w, e) \/ Raise(w, e)

Next ==
  \/ \E e \in Event : Enqueue(e) \/ Ack(e)
  \/ \E e \in Forms : \/ MarkAcked(e) \/ Retry(e) \/ Unlink(e) \/ UnlinkAsSuperuser(e)
                      \/ BeginSend(e)
  \/ Configure \/ Cool \/ BeginDrain
  \/ \E w \in Worker : Push(w) \/ End(w) \/ Abort(w) \/ Crash(w)

Spec == Init /\ [][Next]_vars

\* The cron runs every five minutes, its calls end, and its transaction ends; time passes.
Fairness ==
  /\ WF_vars(BeginDrain)
  /\ WF_vars(Push(Cron) \/ End(Cron) \/ Abort(Cron))
  /\ WF_vars(Cool)

FairSpec == Spec /\ Fairness

-----------------------------------------------------------------------------
TypeOK ==
  /\ row     \in [Event -> Row]
  /\ breaker \in Breaker
  /\ heard   \in SUBSET Event
  /\ job     \in [Worker -> Job]
  /\ mishaps \in 0..MaxMishaps

\* No row is called sent, committed or not, unless the host has the event; and none has
\* failed before its attempts were used up.
Honest(rows) ==
  \A e \in Event : /\ rows[e].state = "sent" => e \in heard
                   /\ rows[e].state = "failed" => rows[e].attempts >= MaxAttempts

\* A transaction that can still commit has the rows as they are, and has written none
\* that was delivered.
JobFits(j) ==
  /\ Honest(j.row)
  /\ \A e \in j.todo : j.row[e].attempts < MaxSends
  /\ \A e \in j.todo \ j.missed : j.row[e] = row[e]
  /\ \A e \in j.wrote \ j.missed : e \in Event => row[e].state \notin Delivered

\* What is written down of a delivery is true, whatever transaction is rolled back:
\* custom_wms_integration/models/wms_integration_event.py, _send.
IInv ==
  /\ TypeOK
  /\ Honest(row)
  /\ \A w \in Worker : JobFits(job[w])

\* An event that is delivered stays so, unless somebody presses Retry or the superuser
\* deletes it: a drain that began before the acknowledgement does not overwrite it, a second
\* push does not undo it, and no other user deletes it.
DeliveredStands ==
  [][\A e \in Event : row[e].state \in Delivered =>
        \/ row'[e].state = "acked" \/ row'[e] = row[e]
        \/ Retry(e) \/ UnlinkAsSuperuser(e)]_vars

\* While the breaker is closed the cron settles every event that waits: it is delivered,
\* failed, or out of attempts.
Settles ==
  <>[](breaker.status = "active") => \A e \in Event : Waiting(e) ~> ~Waiting(e)
============================================================================
