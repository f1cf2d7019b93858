-------------------------- MODULE PpsGatewayProofs --------------------------
(***************************************************************************)
(* The gateway for any number of points of sale, numbers and overlapping   *)
(* requests.  Whatever raises, dies or is sent from an old snapshot, what  *)
(* a point of sale has heard of a transaction is never taken back, a sent  *)
(* callback was heard, and the cron gives up neither early nor late.       *)
(* "Never a second sell" holds as long as nothing raises between the       *)
(* provider's answer and the commit, that is when commission accounts are  *)
(* mapped and no worker dies in between.                                   *)
(***************************************************************************)
EXTENDS PpsGateway, TLAPS

\* The fresh rows have their type.
LEMMA NewTypes == NoRow \in TxnRow /\ Idle \in Request /\ NoSweep \in Sweep
<1>1. NoRow \in TxnRow
  BY DEF NoRow, TxnRow, State, Callback
<1>2. (CHOOSE n \in Notrx : TRUE) \in Notrx
  BY NumberAssumption
<1>3. Idle \in Request
  BY <1>1, <1>2 DEF Idle, Request
<1>4. NoSweep \in Sweep
  BY <1>1 DEF NoSweep, Sweep
<1> QED BY <1>1, <1>3, <1>4

\* Flagging keeps the type, the state and the attempts of a row.
LEMMA FlaggedRow ==
  ASSUME NEW n \in Notrx, NEW row \in TxnRow
  PROVE  /\ Flagged(n, row) \in TxnRow
         /\ Flagged(n, row).state = row.state /\ Flagged(n, row).attempts = row.attempts
         /\ \/ Flagged(n, row).callback = row.callback
            \/ row.callback = "none" /\ Flagged(n, row).callback = "pending"
BY DEF Flagged, TxnRow, Callback

\* A callback keeps the type and the state of a row, counts, and may settle it.
LEMMA CalledRow ==
  ASSUME NEW row \in TxnRow, NEW ok \in BOOLEAN
  PROVE  /\ Called(row, ok) \in TxnRow
         /\ Called(row, ok).state = row.state /\ Called(row, ok).attempts = row.attempts + 1
         /\ Called(row, ok).callback =
              IF ok THEN "sent"
              ELSE IF row.attempts + 1 >= MaxAttempts THEN "failed" ELSE row.callback
<1>1. row.attempts + 1 \in Nat
  BY DEF TxnRow
<1> QED BY <1>1 DEF Called, TxnRow, Callback

\* A row's state can be set to any other.
LEMMA StateRow ==
  ASSUME NEW row \in TxnRow, NEW state \in State
  PROVE  /\ [row EXCEPT !.state = state] \in TxnRow
         /\ [row EXCEPT !.state = state].state = state
         /\ [row EXCEPT !.state = state].callback = row.callback
         /\ [row EXCEPT !.state = state].attempts = row.attempts
BY DEF TxnRow

\* An answer adds itself, or nothing, to what points of sale have heard.
LEMMA SaysType ==
  ASSUME TypeOK, NEW n \in Notrx, NEW answer \in Answers, Says(n, answer)
  PROVE  /\ told' \in [Notrx -> SUBSET Answers]
         /\ \A m \in Notrx : told[m] \subseteq told'[m]
         /\ \A m \in Notrx : m # n => told'[m] = told[m]
         /\ told'[n] \subseteq told[n] \cup {answer}
<1>1. told' = told \/ told' = [told EXCEPT ![n] = told[n] \cup {answer}]
  BY DEF Says
<1> QED BY <1>1 DEF TypeOK

\* ... the status of a transaction, for one.
LEMMA TellType ==
  ASSUME TypeOK, NEW n \in Notrx, NEW state, Tell(n, state)
  PROVE  /\ told' \in [Notrx -> SUBSET Answers]
         /\ \A m \in Notrx : told[m] \subseteq told'[m]
         /\ \A m \in Notrx : m # n => told'[m] = told[m]
         /\ told'[n] \subseteq told[n] \cup {Status(state)}
<1>1. Status(state) \in Answers
  BY DEF Status, Answers
<1>2. Says(n, Status(state))
  BY DEF Tell
<1> QED BY <1>1, <1>2, SaysType

\* What was heard is kept, and nothing of a transaction is added to it.
OnlyErrors ==
  \A m \in Notrx : told[m] \subseteq told'[m] /\ told'[m] \subseteq told[m] \cup {"error"}

\* An error is of no transaction.
LEMMA TellErrorType ==
  ASSUME TypeOK, NEW n \in Notrx, TellError(n)
  PROVE  told' \in [Notrx -> SUBSET Answers] /\ OnlyErrors
<1>1. "error" \in Answers /\ Says(n, "error")
  BY DEF Answers, TellError
<1> QED BY <1>1, SaysType DEF OnlyErrors

-----------------------------------------------------------------------------
(* Types. *)

\* What the engine's later decisions write: a row of its type that exists, flagged only if
\* it is a success.
LEMMA DecidedRow ==
  ASSUME TypeOK, NEW n \in Notrx,
         ReapSuccess(n) \/ ReapTimeout(n) \/ MarkRefunded(n)
  PROVE  \E row \in TxnRow :
           /\ Decide(n, row)
           /\ row.attempts = txn[n].attempts
           /\ \/ /\ txn[n].state = "in_progress" /\ row.state \in {"success", "timeout"}
              \/ /\ txn[n].state \in {"failed", "timeout"} /\ row.state = "refunded"
           /\ \/ row.callback = txn[n].callback
              \/ txn[n].callback = "none" /\ row.callback = "pending" /\ row.state = "success"
<1>1. txn[n] \in TxnRow /\ {"success", "timeout", "refunded"} \subseteq State
  BY DEF TypeOK, State
<1>2. CASE ReapSuccess(n)
  <2> DEFINE r == [txn[n] EXCEPT !.state = "success"]
  <2>1. r \in TxnRow /\ r.state = "success" /\ r.callback = txn[n].callback
        /\ r.attempts = txn[n].attempts
    BY <1>1, StateRow
  <2>2. Decide(n, Flagged(n, r)) /\ txn[n].state = "in_progress"
    BY <1>2 DEF ReapSuccess
  <2> HIDE DEF r
  <2> QED BY <2>1, <2>2, FlaggedRow
<1>3. CASE ReapTimeout(n)
  BY <1>1, <1>3, StateRow DEF ReapTimeout
<1>4. CASE MarkRefunded(n)
  <2> DEFINE r == [txn[n] EXCEPT !.state = "refunded"]
  <2>1. r \in TxnRow /\ r.state = "refunded" /\ r.callback = txn[n].callback
        /\ r.attempts = txn[n].attempts
    BY <1>1, StateRow
  <2>2. Decide(n, r) /\ txn[n].state \in {"failed", "timeout"}
    BY <1>4 DEF MarkRefunded
  <2> HIDE DEF r
  <2> QED BY <2>1, <2>2
<1> QED BY <1>2, <1>3, <1>4

\* A decision replaces one row and tells the cron's open transaction so.
LEMMA DecideStep ==
  ASSUME TypeOK, NEW n \in Notrx, NEW row \in TxnRow, Decide(n, row)
  PROVE  /\ txn' \in [Notrx -> TxnRow] /\ txn'[n] = row
         /\ \A m \in Notrx : m # n => txn'[m] = txn[m]
         /\ sweep' \in Sweep /\ sweep'.todo = sweep.todo /\ sweep'.done = sweep.done
         /\ sweep'.seen = sweep.seen /\ sweep'.open = sweep.open
         /\ sweep'.stale = (sweep.stale \/ (sweep.open /\ n \in Batch))
         /\ UNCHANGED <<orders, key, request, fired, told>>
<1>1. /\ txn' = [txn EXCEPT ![n] = row]
      /\ UNCHANGED <<orders, key, request, fired, told>>
      /\ sweep' = [sweep EXCEPT !.stale = sweep.stale \/ (sweep.open /\ n \in sweep.todo \cup sweep.done)]
  BY DEF Decide
<1>2. sweep \in Sweep /\ txn \in [Notrx -> TxnRow]
  BY DEF TypeOK
<1>3. /\ sweep' \in Sweep /\ sweep'.todo = sweep.todo /\ sweep'.done = sweep.done
      /\ sweep'.seen = sweep.seen /\ sweep'.open = sweep.open
      /\ sweep'.stale = (sweep.stale \/ (sweep.open /\ n \in sweep.todo \cup sweep.done))
  BY <1>1, <1>2 DEF Sweep
<1> QED BY <1>1, <1>2, <1>3 DEF Batch

\* One call of the cron: the row it saw is called, and the point of sale may hear.
LEMMA FireStep ==
  ASSUME TypeOK, NEW n \in Notrx, Fire(n)
  PROVE  \E ok \in BOOLEAN :
           /\ n \in sweep.todo /\ sweep.open
           /\ UNCHANGED <<txn, orders, key, request>>
           /\ sweep' \in Sweep /\ sweep'.open = sweep.open /\ sweep'.stale = sweep.stale
           /\ sweep'.todo = sweep.todo \ {n} /\ sweep'.done = sweep.done \cup {n}
           /\ sweep'.seen = [sweep.seen EXCEPT ![n] = Called(sweep.seen[n], ok)]
           /\ fired' = [fired EXCEPT ![n] = fired[n] + 1] /\ fired' \in [Notrx -> Nat]
           /\ told' \in [Notrx -> SUBSET Answers]
           /\ \A m \in Notrx : told[m] \subseteq told'[m]
           /\ \A m \in Notrx : m # n => told'[m] = told[m]
           /\ told'[n] \subseteq told[n] \cup {Status(sweep.seen[n].state)}
           /\ ok => Status(sweep.seen[n].state) \in told'[n]
<1>1. /\ sweep \in Sweep /\ sweep.seen \in [Notrx -> TxnRow] /\ fired \in [Notrx -> Nat]
      /\ told \in [Notrx -> SUBSET Answers]
      /\ sweep.todo \subseteq Notrx /\ sweep.done \subseteq Notrx
  BY DEF TypeOK, Sweep
<1>2. PICK ok \in BOOLEAN :
        /\ sweep' = [sweep EXCEPT !.todo = sweep.todo \ {n}, !.done = sweep.done \cup {n},
                                  !.seen = [sweep.seen EXCEPT ![n] = Called(sweep.seen[n], ok)]]
        /\ IF ok THEN told' = [told EXCEPT ![n] = told[n] \cup {Status(sweep.seen[n].state)}]
                 ELSE Tell(n, sweep.seen[n].state)
  BY <1>1 DEF Fire, Sweep
<1>3. /\ n \in sweep.todo /\ sweep.open /\ fired' = [fired EXCEPT ![n] = fired[n] + 1]
      /\ UNCHANGED <<txn, orders, key, request>>
  BY DEF Fire
<1>4. /\ told' \in [Notrx -> SUBSET Answers]
      /\ \A m \in Notrx : told[m] \subseteq told'[m]
      /\ \A m \in Notrx : m # n => told'[m] = told[m]
      /\ told'[n] \subseteq told[n] \cup {Status(sweep.seen[n].state)}
      /\ ok => Status(sweep.seen[n].state) \in told'[n]
  <2>1. Status(sweep.seen[n].state) \in Answers
    BY DEF Status, Answers
  <2>2. CASE ok
    BY <1>1, <1>2, <2>1, <2>2
  <2>3. CASE ~ok
    BY <1>2, <2>3, TellType
  <2> QED BY <2>2, <2>3
<1> DEFINE row == Called(sweep.seen[n], ok)
<1>5. row \in TxnRow
  BY <1>1, CalledRow
<1>6. sweep' = [sweep EXCEPT !.todo = sweep.todo \ {n}, !.done = sweep.done \cup {n},
                             !.seen = [sweep.seen EXCEPT ![n] = row]]
  BY <1>2
<1>7. fired' \in [Notrx -> Nat]
  BY <1>1, <1>3
<1> HIDE DEF row
<1>8. /\ sweep' \in Sweep /\ sweep'.open = sweep.open /\ sweep'.stale = sweep.stale
      /\ sweep'.todo = sweep.todo \ {n} /\ sweep'.done = sweep.done \cup {n}
      /\ sweep'.seen = [sweep.seen EXCEPT ![n] = row]
  BY <1>1, <1>5, <1>6 DEF Sweep
<1> QED BY <1>3, <1>4, <1>7, <1>8 DEF row

\* A new batch is what is due in the snapshot.
LEMMA BeginSweepStep ==
  ASSUME TypeOK, BeginSweep
  PROVE  /\ sweep' \in Sweep /\ sweep'.open /\ ~sweep'.stale /\ sweep'.seen = txn
         /\ sweep'.todo = {n \in Notrx : Due(n)} /\ sweep'.done = {}
         /\ UNCHANGED <<txn, orders, key, request, fired, told>>
BY DEF BeginSweep, TypeOK, Sweep

\* The cron's commit writes the callback columns of the rows it has called.
LEMMA EndSweepStep ==
  ASSUME TypeOK, EndSweep
  PROVE  /\ ~sweep.stale /\ sweep.todo = {} /\ sweep' = NoSweep
         /\ txn' \in [Notrx -> TxnRow]
         /\ \A n \in Notrx : txn'[n].state = txn[n].state
         /\ \A n \in Notrx \ sweep.done : txn'[n] = txn[n]
         /\ \A n \in sweep.done : /\ txn'[n].callback = sweep.seen[n].callback
                                  /\ txn'[n].attempts = sweep.seen[n].attempts
         /\ UNCHANGED <<orders, key, request, fired, told>>
<1>1. /\ txn \in [Notrx -> TxnRow] /\ sweep.seen \in [Notrx -> TxnRow]
      /\ sweep.done \subseteq Notrx
  BY DEF TypeOK, Sweep
<1>2. ASSUME NEW n \in Notrx
      PROVE  LET row == [txn[n] EXCEPT !.callback = sweep.seen[n].callback,
                                       !.attempts = sweep.seen[n].attempts]
             IN  /\ row \in TxnRow /\ row.state = txn[n].state
                 /\ row.callback = sweep.seen[n].callback
                 /\ row.attempts = sweep.seen[n].attempts
  <2>1. txn[n] \in TxnRow /\ sweep.seen[n] \in TxnRow
    BY <1>1
  <2> QED BY <2>1 DEF TxnRow
<1>3. txn' = [n \in Notrx |->
               IF n \in sweep.done
               THEN [txn[n] EXCEPT !.callback = sweep.seen[n].callback,
                                   !.attempts = sweep.seen[n].attempts]
               ELSE txn[n]]
  BY DEF EndSweep
<1> QED BY <1>1, <1>2, <1>3 DEF EndSweep

\* A request ends with nothing of it kept.
LEMMA AbandonStep ==
  ASSUME TypeOK, NEW s \in Session, Abandon(s)
  PROVE  /\ request' \in [Session -> Request] /\ request'[s].step = "idle"
         /\ \A z \in Session : z # s => request'[z] = request[z]
         /\ key' \in [Notrx -> Session \cup {NoSession}]
         /\ \A n \in Notrx : key'[n] = IF key[n] = s THEN NoSession ELSE key[n]
<1>1. Idle \in Request /\ Idle.step = "idle"
  BY NewTypes DEF Idle
<1> QED BY <1>1 DEF Abandon, TypeOK

\* A call of the provider that does not raise leaves a row to commit that was never called
\* back; one that does is answered with an error.
LEMMA PayStep ==
  ASSUME TypeOK, NEW s \in Session, Pay(s)
  PROVE  LET n == request[s].notrx IN
         /\ request[s].step = "dispatch" /\ n \in Notrx
         /\ orders' = [orders EXCEPT ![n] = orders[n] + 1] /\ orders' \in [Notrx -> Nat]
         /\ UNCHANGED <<txn, sweep, fired>>
         /\ \/ ~Mapped /\ Abandon(s) /\ TellError(n)
            \/ \E row \in TxnRow :
                 /\ NewRow(row) /\ key' = key /\ told' = told
                 /\ request' = [request EXCEPT ![s] = [request[s] EXCEPT !.step = "answer", !.row = row]]
<1> DEFINE n == request[s].notrx
<1>1. /\ request[s].step = "dispatch" /\ orders' = [orders EXCEPT ![n] = orders[n] + 1]
      /\ UNCHANGED <<txn, sweep, fired>>
  BY DEF Pay
<1>2. request[s] \in Request /\ n \in Notrx
  BY DEF TypeOK, Request
<1>3. orders' \in [Notrx -> Nat] /\ request \in [Session -> Request]
  BY <1>1, <1>2 DEF TypeOK
<1>4. PICK state \in {"success", "failed", "in_progress"} :
        IF state = "success" /\ ~Mapped
        THEN Abandon(s) /\ TellError(n)
        ELSE /\ request' = [request EXCEPT ![s].step = "answer",
                  ![s].row = IF state \in Final THEN Flagged(n, [NoRow EXCEPT !.state = state])
                                                ELSE [NoRow EXCEPT !.state = state]]
             /\ key' = key /\ told' = told
  BY DEF Pay
<1>5. CASE state = "success" /\ ~Mapped
  BY <1>1, <1>2, <1>3, <1>4, <1>5
<1>6. CASE ~(state = "success" /\ ~Mapped)
  <2> DEFINE bare == [NoRow EXCEPT !.state = state]
             row == IF state \in Final THEN Flagged(n, bare) ELSE bare
  <2>1. /\ bare \in TxnRow /\ bare.state = state /\ bare.state # "none"
        /\ bare.callback = "none" /\ bare.attempts = 0
    <3>1. state \in State /\ NoRow \in TxnRow /\ NoRow.callback = "none" /\ NoRow.attempts = 0
      BY NewTypes DEF State, NoRow
    <3> QED BY <3>1, StateRow
  <2>2. row \in TxnRow /\ NewRow(row)
    <3> HIDE DEF bare
    <3> QED BY <1>2, <2>1, FlaggedRow DEF NewRow
  <2>3. request' = [request EXCEPT ![s] = [request[s] EXCEPT !.step = "answer", !.row = row]]
    <3>1. request' = [request EXCEPT ![s].step = "answer", ![s].row = row]
      BY <1>4, <1>6
    <3> HIDE DEF row
    <3> QED BY <1>3, <3>1
  <2> HIDE DEF row
  <2> QED BY <1>1, <1>2, <1>3, <1>4, <1>6, <2>2, <2>3
<1> QED BY <1>5, <1>6

\* The steps of a request that goes on.
LEMMA RequestStep ==
  ASSUME TypeOK, NEW s \in Session, NEW r \in Request, request' = [request EXCEPT ![s] = r]
  PROVE  /\ request' \in [Session -> Request] /\ request'[s] = r
         /\ \A z \in Session : z # s => request'[z] = request[z]
BY DEF TypeOK

\* The commit of a request.
LEMMA AnswerStep ==
  ASSUME TypeOK, NEW s \in Session, Answer(s)
  PROVE  LET n == request[s].notrx IN
         /\ request[s].step = "answer" /\ n \in Notrx /\ request[s].row \in TxnRow
         /\ txn' \in [Notrx -> TxnRow] /\ txn'[n] = request[s].row
         /\ \A m \in Notrx : m # n => txn'[m] = txn[m]
         /\ Abandon(s) /\ Tell(n, request[s].row.state) /\ UNCHANGED <<orders, sweep, fired>>
<1> DEFINE n == request[s].notrx
<1>1. request[s] \in Request /\ n \in Notrx /\ request[s].row \in TxnRow
  BY DEF TypeOK, Request
<1>2. txn' = [txn EXCEPT ![n] = request[s].row] /\ txn \in [Notrx -> TxnRow]
  BY DEF Answer, TypeOK
<1> QED BY <1>1, <1>2 DEF Answer

LEMMA NextTypeOK == TypeOK /\ [Next]_vars => TypeOK'
<1> SUFFICES ASSUME TypeOK, [Next]_vars PROVE TypeOK'
  OBVIOUS
<1>1. CASE UNCHANGED vars
  BY <1>1 DEF vars, TypeOK
<1>2. ASSUME NEW n \in Notrx, Poll(n) \/ \E s \in Session : SellAgain(s, n) PROVE TypeOK'
  <2>1. /\ TellError(n) \/ Tell(n, txn[n].state)
        /\ UNCHANGED <<txn, orders, key, request, sweep, fired>>
    BY <1>2 DEF Poll, SellAgain
  <2> QED BY <2>1, TellType, TellErrorType DEF TypeOK
<1>3. ASSUME NEW s \in Session, NEW n \in Notrx, Sell(s, n) PROVE TypeOK'
  <2>1. [step |-> "create", notrx |-> n, row |-> NoRow] \in Request
    BY NewTypes DEF Request
  <2> QED BY <1>3, <2>1 DEF Sell, TypeOK
<1>4. ASSUME NEW s \in Session, Create(s) PROVE TypeOK'
  <2>1. request[s] \in Request /\ [request[s] EXCEPT !.step = "dispatch"] \in Request
        /\ request[s].notrx \in Notrx
    BY DEF TypeOK, Request
  <2>2. request' = [request EXCEPT ![s] = [request[s] EXCEPT !.step = "dispatch"]]
    BY <1>4 DEF Create, TypeOK
  <2> QED BY <1>4, <2>1, <2>2 DEF Create, TypeOK
<1>5. ASSUME NEW s \in Session, Duplicate(s) \/ Reject(s) \/ Crash(s) PROVE TypeOK'
  <2>1. /\ Abandon(s) /\ UNCHANGED <<txn, orders, sweep, fired>>
        /\ told' = told \/ TellError(request[s].notrx)
    BY <1>5 DEF Duplicate, Reject, Crash
  <2>2. request[s].notrx \in Notrx
    BY DEF TypeOK, Request
  <2> QED BY <2>1, <2>2, AbandonStep, TellErrorType DEF TypeOK
<1>6. ASSUME NEW s \in Session, Pay(s) PROVE TypeOK'
  <2>1. CASE Abandon(s) /\ TellError(request[s].notrx)
    BY <1>6, <2>1, PayStep, AbandonStep, TellErrorType DEF TypeOK
  <2>2. CASE \E row \in TxnRow : key' = key /\ told' = told /\
               request' = [request EXCEPT ![s] = [request[s] EXCEPT !.step = "answer", !.row = row]]
    <3>1. PICK row \in TxnRow : key' = key /\ told' = told /\
               request' = [request EXCEPT ![s] = [request[s] EXCEPT !.step = "answer", !.row = row]]
      BY <2>2
    <3>2. [request[s] EXCEPT !.step = "answer", !.row = row] \in Request
      BY DEF TypeOK, Request
    <3> QED BY <1>6, <3>1, <3>2, PayStep, RequestStep DEF TypeOK
  <2> QED BY <1>6, <2>1, <2>2, PayStep
<1>7. ASSUME NEW s \in Session, Answer(s) PROVE TypeOK'
  BY <1>7, AnswerStep, AbandonStep, TellType DEF TypeOK
<1>8. ASSUME NEW n \in Notrx, ReapSuccess(n) \/ ReapTimeout(n) \/ MarkRefunded(n) PROVE TypeOK'
  BY <1>8, DecidedRow, DecideStep DEF TypeOK
<1>9. ASSUME NEW n \in Notrx, Fire(n) PROVE TypeOK'
  BY <1>9, FireStep DEF TypeOK
<1>10. CASE BeginSweep
  BY <1>10, BeginSweepStep DEF TypeOK
<1>11. CASE EndSweep
  BY <1>11, EndSweepStep, NewTypes DEF TypeOK
<1>12. CASE AbortSweep
  BY <1>12, NewTypes DEF AbortSweep, TypeOK
<1> QED BY <1>1, <1>2, <1>3, <1>4, <1>5, <1>6, <1>7, <1>8, <1>9, <1>10, <1>11, <1>12 DEF Next

-----------------------------------------------------------------------------
(* A number is inserted by one request at a time. *)

\* What the invariant says of a request that has inserted its number.
LEMMA HolderFacts ==
  ASSUME KeyInv, NEW s \in Session, request[s].step \in Inserting
  PROVE  /\ request[s].notrx \in Notrx /\ key[request[s].notrx] = s
         /\ txn[request[s].notrx].state = "none"
         /\ \A n \in Notrx : key[n] = s => n = request[s].notrx
BY NumberAssumption DEF KeyInv, TypeOK, Request

\* Steps that leave requests and numbers alone, if no transaction appears or disappears.
LEMMA OutsideKeys ==
  ASSUME KeyInv, TypeOK', UNCHANGED <<key, request>>,
         \A n \in Notrx : txn'[n].state = "none" <=> txn[n].state = "none"
  PROVE  KeyInv'
BY DEF KeyInv

\* A request that ends gives its number back; only that number's transaction may appear.
LEMMA AbandonKeys ==
  ASSUME KeyInv, TypeOK', NEW s \in Session, Abandon(s),
         \A n \in Notrx : key[n] # s => txn'[n] = txn[n]
  PROVE  KeyInv'
<1>1. /\ request'[s].step = "idle" /\ \A z \in Session : z # s => request'[z] = request[z]
      /\ \A n \in Notrx : key'[n] = IF key[n] = s THEN NoSession ELSE key[n]
  BY AbandonStep DEF KeyInv
<1>2. ASSUME NEW n \in Notrx, key'[n] # NoSession
      PROVE  /\ txn'[n].state = "none" /\ request'[key'[n]].notrx = n
             /\ request'[key'[n]].step \in Inserting
  <2>1. key'[n] = key[n] /\ key[n] # s /\ key[n] # NoSession /\ key[n] \in Session
    BY <1>1, <1>2 DEF KeyInv, TypeOK
  <2> QED BY <1>1, <2>1 DEF KeyInv
<1>3. ASSUME NEW z \in Session, request'[z].step \in Inserting
      PROVE  key'[request'[z].notrx] = z
  <2>1. z # s /\ request'[z] = request[z]
    BY <1>1, <1>3 DEF Inserting
  <2> QED BY <1>1, <1>3, <2>1, HolderFacts
<1> QED BY <1>2, <1>3 DEF KeyInv

\* A request starts without a number of its own.
LEMMA SellKeys ==
  ASSUME KeyInv, TypeOK', NEW s \in Session, NEW n \in Notrx, Sell(s, n)
  PROVE  KeyInv'
<1> DEFINE r == [step |-> "create", notrx |-> n, row |-> NoRow]
<1>1. r \in Request /\ r.step \notin Inserting /\ "idle" \notin Inserting
  BY NewTypes DEF Request, Inserting
<1>2. /\ request[s].step = "idle" /\ request' = [request EXCEPT ![s] = r]
      /\ UNCHANGED <<txn, key>>
  BY DEF Sell
<1> HIDE DEF r
<1>3. request'[s] = r /\ \A z \in Session : z # s => request'[z] = request[z]
  BY <1>1, <1>2, RequestStep DEF KeyInv
<1>4. \A m \in Notrx : key[m] # NoSession => key[m] \in Session /\ key[m] # s
  BY <1>1, <1>2 DEF KeyInv, TypeOK
<1> QED BY <1>1, <1>2, <1>3, <1>4 DEF KeyInv

\* A request takes a number nobody has inserted.
LEMMA CreateKeys ==
  ASSUME KeyInv, TypeOK', NEW s \in Session, Create(s)
  PROVE  KeyInv'
<1> DEFINE n == request[s].notrx
           r == [request[s] EXCEPT !.step = "dispatch"]
<1>1. /\ request[s].step = "create" /\ key[n] = NoSession /\ txn[n].state = "none"
      /\ key' = [key EXCEPT ![n] = s] /\ txn' = txn
  BY DEF Create
<1>2. request[s] \in Request /\ n \in Notrx /\ key \in [Notrx -> Session \cup {NoSession}]
  BY DEF KeyInv, TypeOK, Request
<1>3. r \in Request /\ r.step = "dispatch" /\ r.notrx = n
  BY <1>2 DEF Request
<1>4. request' = [request EXCEPT ![s] = r]
  BY DEF Create, KeyInv, TypeOK
<1> HIDE DEF r
<1>5. request'[s] = r /\ \A z \in Session : z # s => request'[z] = request[z]
  BY <1>3, <1>4, RequestStep DEF KeyInv
<1>6. key'[n] = s /\ \A m \in Notrx : m # n => key'[m] = key[m]
  BY <1>1, <1>2
<1>7. "create" \notin Inserting /\ "dispatch" \in Inserting
  BY DEF Inserting
<1>8. \A m \in Notrx : key[m] # NoSession => key[m] \in Session /\ key[m] # s
  BY <1>1, <1>2, <1>7 DEF KeyInv
<1>9. ASSUME NEW m \in Notrx, key'[m] # NoSession
      PROVE  /\ txn'[m].state = "none" /\ request'[key'[m]].notrx = m
             /\ request'[key'[m]].step \in Inserting
  <2>1. CASE m = n
    BY <1>1, <1>3, <1>5, <1>6, <1>7, <2>1
  <2>2. CASE m # n
    <3>1. key'[m] = key[m] /\ key[m] \in Session /\ key[m] # s
      BY <1>6, <1>8, <1>9, <2>2
    <3>2. request'[key[m]] = request[key[m]]
      BY <1>5, <3>1
    <3> QED BY <1>1, <1>9, <3>1, <3>2 DEF KeyInv
  <2> QED BY <2>1, <2>2
<1>10. ASSUME NEW z \in Session, request'[z].step \in Inserting
       PROVE  key'[request'[z].notrx] = z
  <2>1. CASE z = s
    BY <1>3, <1>5, <1>6, <2>1
  <2>2. CASE z # s
    <3>1. request'[z] = request[z]
      BY <1>5, <2>2
    <3>2. request[z].notrx \in Notrx /\ key[request[z].notrx] = z
      BY <1>10, <3>1, HolderFacts
    <3>3. request[z].notrx # n
      BY <1>1, <3>2, NumberAssumption
    <3> QED BY <1>6, <3>1, <3>2, <3>3
  <2> QED BY <2>1, <2>2
<1> QED BY <1>9, <1>10 DEF KeyInv

\* A request that has called the provider keeps its number.
LEMMA PayKeys ==
  ASSUME KeyInv, TypeOK', NEW s \in Session, Pay(s)
  PROVE  KeyInv'
<1> DEFINE n == request[s].notrx
<1>1. request[s].step = "dispatch" /\ txn' = txn /\ n \in Notrx
  BY PayStep DEF KeyInv
<1>2. CASE Abandon(s)
  BY <1>1, <1>2, AbandonKeys
<1>3. CASE \E row \in TxnRow : key' = key /\
             request' = [request EXCEPT ![s] = [request[s] EXCEPT !.step = "answer", !.row = row]]
  <2>1. PICK row \in TxnRow : key' = key /\
             request' = [request EXCEPT ![s] = [request[s] EXCEPT !.step = "answer", !.row = row]]
    BY <1>3
  <2> DEFINE r == [request[s] EXCEPT !.step = "answer", !.row = row]
  <2>2. r \in Request /\ r.step = "answer" /\ r.notrx = n
    <3>1. request[s] \in Request
      BY DEF KeyInv, TypeOK
    <3> QED BY <3>1 DEF Request
  <2>3. request' = [request EXCEPT ![s] = r]
    BY <2>1
  <2> HIDE DEF r
  <2>4. request'[s] = r /\ \A z \in Session : z # s => request'[z] = request[z]
    BY <2>2, <2>3, RequestStep DEF KeyInv
  <2>5. "dispatch" \in Inserting /\ "answer" \in Inserting
    BY DEF Inserting
  <2>6. ASSUME NEW m \in Notrx, key[m] # NoSession
        PROVE  /\ txn[m].state = "none" /\ request'[key[m]].notrx = m
               /\ request'[key[m]].step \in Inserting
    <3>1. /\ key[m] \in Session /\ txn[m].state = "none" /\ request[key[m]].notrx = m
          /\ request[key[m]].step \in Inserting
      BY <2>6 DEF KeyInv, TypeOK
    <3> QED BY <2>2, <2>4, <2>5, <3>1
  <2>7. \A z \in Session : request'[z].step \in Inserting => key[request'[z].notrx] = z
    BY <1>1, <2>2, <2>4, <2>5 DEF KeyInv
  <2> QED BY <1>1, <2>1, <2>6, <2>7 DEF KeyInv
<1>4. TypeOK
  BY DEF KeyInv
<1> HIDE DEF n
<1> QED BY <1>2, <1>3, <1>4, PayStep

\* A commit puts the transaction where its number was inserted.
LEMMA AnswerKeys ==
  ASSUME KeyInv, TypeOK', NEW s \in Session, Answer(s)
  PROVE  KeyInv'
<1>1. request[s].step \in Inserting
  BY AnswerStep DEF KeyInv, Inserting
<1>2. \A m \in Notrx : key[m] # s => txn'[m] = txn[m]
  BY <1>1, AnswerStep, HolderFacts DEF KeyInv
<1> QED BY <1>2, AnswerStep, AbandonKeys DEF KeyInv

\* The callback cron writes only rows of transactions that exist.
LEMMA NextKeyInv == CallbackInv /\ [Next]_vars => KeyInv'
<1> SUFFICES ASSUME CallbackInv, [Next]_vars PROVE KeyInv'
  OBVIOUS
<1>1. KeyInv /\ TypeOK /\ TypeOK'
  BY NextTypeOK DEF CallbackInv, KeyInv
<1>2. CASE UNCHANGED vars
  BY <1>1, <1>2, OutsideKeys DEF vars
<1>3. ASSUME NEW n \in Notrx, Poll(n) \/ \E s \in Session : SellAgain(s, n) PROVE KeyInv'
  BY <1>1, <1>3, OutsideKeys DEF Poll, SellAgain
<1>4. ASSUME NEW s \in Session, Duplicate(s) \/ Reject(s) \/ Crash(s) PROVE KeyInv'
  BY <1>1, <1>4, AbandonKeys DEF Duplicate, Reject, Crash
<1>5. ASSUME NEW n \in Notrx, ReapSuccess(n) \/ ReapTimeout(n) \/ MarkRefunded(n) PROVE KeyInv'
  <2>1. PICK row \in TxnRow : Decide(n, row) /\ row.state # "none" /\ txn[n].state # "none"
    BY <1>1, <1>5, DecidedRow
  <2> QED BY <1>1, <2>1, DecideStep, OutsideKeys
<1>6. ASSUME NEW n \in Notrx, Fire(n) PROVE KeyInv'
  BY <1>1, <1>6, FireStep, OutsideKeys
<1>7. CASE BeginSweep
  BY <1>1, <1>7, BeginSweepStep, OutsideKeys
<1>8. CASE EndSweep
  BY <1>1, <1>8, EndSweepStep, OutsideKeys
<1>9. CASE AbortSweep
  BY <1>1, <1>9, OutsideKeys DEF AbortSweep
<1> QED BY <1>1, <1>2, <1>3, <1>4, <1>5, <1>6, <1>7, <1>8, <1>9,
           SellKeys, CreateKeys, PayKeys, AnswerKeys DEF Next

-----------------------------------------------------------------------------
(* What the point of sale has heard, the rows, and the cron's snapshot. *)

\* What a status says of the state it was made from.
LEMMA StatusFacts ==
  ASSUME NEW state
  PROVE  /\ Status(state) = "0" <=> state = "success"
         /\ Status(state) = "1" <=> state \in Final \ {"success"}
BY DEF Status, Final

\* A row stays right while more is heard and more calls are made.
LEMMA RowGrows ==
  ASSUME NEW row \in TxnRow, NEW heard, NEW more, heard \subseteq more,
         NEW calls \in Nat, NEW later \in Nat, calls <= later, RowOK(row, heard, calls)
  PROVE  RowOK(row, more, later)
<1>1. row.attempts \in Nat
  BY DEF TxnRow
<1> QED BY <1>1 DEF RowOK

\* The row of a new transaction is right whatever was heard before.
LEMMA NewRowOK ==
  ASSUME NEW row \in TxnRow, NewRow(row), NEW heard, NEW calls \in Nat
  PROVE  RowOK(row, heard, calls)
BY BoundAssumption DEF NewRow, RowOK

\* A request's own steps and the errors it answers with, as long as what it is about to
\* commit is new.
LEMMA RequestKeeps ==
  ASSUME CallbackInv, KeyInv', UNCHANGED <<txn, sweep, fired>>, OnlyErrors,
         \A s \in Session : request'[s].step = "answer" =>
           request'[s] = request[s] \/ NewRow(request'[s].row)
  PROVE  CallbackInv'
<1>1. /\ txn \in [Notrx -> TxnRow] /\ fired \in [Notrx -> Nat] /\ Batch \subseteq Notrx
      /\ sweep.seen \in [Notrx -> TxnRow] /\ Batch' = Batch
  BY DEF CallbackInv, KeyInv, TypeOK, Sweep, Batch
<1>2. \A m \in Notrx : RowOK(txn'[m], told'[m], fired'[m])
  BY <1>1, RowGrows DEF CallbackInv, OnlyErrors
<1>3. \A m \in Batch' : SeenOK(m)'
  <2> SUFFICES ASSUME NEW m \in Batch PROVE SeenOK(m)'
    BY <1>1
  <2>1. m \in Notrx /\ SeenOK(m) /\ told[m] \subseteq told'[m]
    BY <1>1 DEF CallbackInv, OnlyErrors
  <2>2. RowOK(sweep'.seen[m], told'[m], fired'[m])
    BY <1>1, <2>1, RowGrows DEF SeenOK
  <2> QED BY <2>1, <2>2 DEF SeenOK
<1>4. VerdictStands'
  BY DEF CallbackInv, VerdictStands, OnlyErrors
<1> QED BY <1>1, <1>2, <1>3, <1>4 DEF CallbackInv

\* Answers to repeated sells and to polls.
LEMMA TellingKeeps ==
  ASSUME CallbackInv, KeyInv', NEW n \in Notrx, Tell(n, txn[n].state),
         UNCHANGED <<txn, request, sweep, fired>>
  PROVE  CallbackInv'
<1>1. /\ \A m \in Notrx : told[m] \subseteq told'[m]
      /\ \A m \in Notrx : m # n => told'[m] = told[m]
      /\ told'[n] \subseteq told[n] \cup {Status(txn[n].state)}
  BY TellType DEF CallbackInv, KeyInv
<1>2. /\ txn \in [Notrx -> TxnRow] /\ fired \in [Notrx -> Nat] /\ Batch \subseteq Notrx
      /\ sweep.seen \in [Notrx -> TxnRow]
  BY DEF CallbackInv, KeyInv, TypeOK, Sweep, Batch
<1>3. \A m \in Notrx : RowOK(txn'[m], told'[m], fired'[m])
  BY <1>1, <1>2, RowGrows DEF CallbackInv
<1>4. Batch' = Batch
  BY DEF Batch
<1>5. \A m \in Batch' : SeenOK(m)'
  BY <1>1, <1>2, <1>4, RowGrows DEF CallbackInv, SeenOK
<1>6. VerdictStands'
  BY <1>1, StatusFacts DEF CallbackInv, VerdictStands
<1> QED BY <1>3, <1>4, <1>5, <1>6 DEF CallbackInv

\* The commit and the answer of a request: nothing final was heard of its number before.
LEMMA AnswerKeeps ==
  ASSUME CallbackInv, KeyInv', NEW s \in Session, Answer(s)
  PROVE  CallbackInv'
<1> DEFINE n == request[s].notrx
           row == request[s].row
<1>1. /\ n \in Notrx /\ row \in TxnRow /\ NewRow(row) /\ txn[n].state = "none"
      /\ txn'[n] = row /\ \A m \in Notrx : m # n => txn'[m] = txn[m]
      /\ Abandon(s) /\ Tell(n, row.state) /\ UNCHANGED <<orders, sweep, fired>>
  BY AnswerStep, HolderFacts DEF CallbackInv, KeyInv, Inserting
<1>2. /\ \A m \in Notrx : told[m] \subseteq told'[m]
      /\ \A m \in Notrx : m # n => told'[m] = told[m]
      /\ told'[n] \subseteq told[n] \cup {Status(row.state)}
  BY <1>1, TellType DEF CallbackInv, KeyInv
<1> HIDE DEF n, row
<1>3. /\ txn \in [Notrx -> TxnRow] /\ fired \in [Notrx -> Nat] /\ Batch \subseteq Notrx
      /\ Batch' = Batch
  BY <1>1 DEF CallbackInv, KeyInv, TypeOK, Sweep, Batch
<1>4. n \notin Batch
  BY <1>1 DEF CallbackInv, SeenOK, Final
<1>5. \A m \in Notrx : RowOK(txn'[m], told'[m], fired'[m])
  BY <1>1, <1>2, <1>3, NewRowOK DEF CallbackInv
<1>6. \A z \in Session : request'[z].step = "answer" => request'[z] = request[z]
  BY <1>1, AbandonStep DEF CallbackInv, KeyInv
<1>7. \A m \in Batch' : SeenOK(m)'
  BY <1>1, <1>2, <1>3, <1>4 DEF CallbackInv, SeenOK
<1>8. "0" \notin told[n] /\ "1" \notin told[n]
  BY <1>1 DEF CallbackInv, VerdictStands, Final
<1>9. VerdictStands'
  BY <1>1, <1>2, <1>8, StatusFacts DEF CallbackInv, VerdictStands
<1> QED BY <1>1, <1>3, <1>5, <1>6, <1>7, <1>9 DEF CallbackInv

\* A decision on a transaction: what was heard of it is still true, or was only "9".
LEMMA DecisionKeeps ==
  ASSUME CallbackInv, KeyInv', NEW n \in Notrx,
         ReapSuccess(n) \/ ReapTimeout(n) \/ MarkRefunded(n)
  PROVE  CallbackInv'
<1>1. TypeOK /\ RowOK(txn[n], told[n], fired[n]) /\ txn[n] \in TxnRow /\ fired[n] \in Nat
  BY DEF CallbackInv, KeyInv, TypeOK
<1>2. PICK row \in TxnRow :
        /\ Decide(n, row)
        /\ row.attempts = txn[n].attempts
        /\ \/ /\ txn[n].state = "in_progress" /\ row.state \in {"success", "timeout"}
           \/ /\ txn[n].state \in {"failed", "timeout"} /\ row.state = "refunded"
        /\ \/ row.callback = txn[n].callback
           \/ txn[n].callback = "none" /\ row.callback = "pending" /\ row.state = "success"
  BY <1>1, DecidedRow
<1>3. /\ txn'[n] = row /\ \A m \in Notrx : m # n => txn'[m] = txn[m]
      /\ sweep'.todo = sweep.todo /\ sweep'.done = sweep.done
      /\ sweep'.seen = sweep.seen /\ sweep'.open = sweep.open
      /\ sweep'.stale = (sweep.stale \/ (sweep.open /\ n \in Batch))
      /\ UNCHANGED <<orders, key, request, fired, told>>
  BY <1>1, <1>2, DecideStep
<1>4. row.state \in Final
  BY <1>2 DEF Final
<1>5. Status(row.state) = Status(txn[n].state) \/ txn[n].state = "in_progress"
  BY <1>2 DEF Status
<1>6. txn[n].state = "in_progress" => txn[n].callback = "none" /\ n \notin Batch
  BY <1>1 DEF CallbackInv, SeenOK, RowOK, Final
<1>7. RowOK(row, told[n], fired[n])
  BY <1>1, <1>2, <1>4, <1>5, <1>6, BoundAssumption DEF RowOK
<1>8. Batch' = Batch /\ Batch \subseteq Notrx /\ (n \in Batch => sweep.open)
  BY <1>1, <1>3 DEF Batch, CallbackInv, TypeOK, Sweep
<1>9. ASSUME NEW m \in Batch PROVE SeenOK(m)'
  <2>1. SeenOK(m) /\ m \in Notrx
    BY <1>8 DEF CallbackInv
  <2>2. CASE m = n
    BY <1>3, <1>4, <1>5, <1>6, <1>8, <2>1, <2>2 DEF SeenOK
  <2>3. CASE m # n
    BY <1>3, <2>1, <2>3 DEF SeenOK
  <2> QED BY <2>2, <2>3
<1>10. VerdictStands'
  BY <1>2, <1>3, <1>4 DEF CallbackInv, VerdictStands, Final
<1>11. \A m \in Notrx : RowOK(txn'[m], told'[m], fired'[m])
  BY <1>3, <1>7 DEF CallbackInv
<1> QED BY <1>3, <1>8, <1>9, <1>10, <1>11 DEF CallbackInv

\* A call of the cron: it reports what the transaction still is, whatever its snapshot.
LEMMA FireKeeps ==
  ASSUME CallbackInv, KeyInv', NEW n \in Notrx, Fire(n)
  PROVE  CallbackInv'
<1>1. TypeOK /\ Batch \subseteq Notrx /\ sweep.seen \in [Notrx -> TxnRow] /\ fired \in [Notrx -> Nat]
      /\ txn \in [Notrx -> TxnRow]
  BY DEF CallbackInv, KeyInv, TypeOK, Sweep, Batch
<1>2. PICK ok \in BOOLEAN :
        /\ n \in sweep.todo /\ sweep.open
        /\ UNCHANGED <<txn, orders, key, request>>
        /\ sweep'.open = sweep.open /\ sweep'.stale = sweep.stale
        /\ sweep'.todo = sweep.todo \ {n} /\ sweep'.done = sweep.done \cup {n}
        /\ sweep'.seen = [sweep.seen EXCEPT ![n] = Called(sweep.seen[n], ok)]
        /\ fired' = [fired EXCEPT ![n] = fired[n] + 1]
        /\ \A m \in Notrx : told[m] \subseteq told'[m]
        /\ \A m \in Notrx : m # n => told'[m] = told[m]
        /\ told'[n] \subseteq told[n] \cup {Status(sweep.seen[n].state)}
        /\ ok => Status(sweep.seen[n].state) \in told'[n]
  BY <1>1, FireStep
<1> DEFINE old == sweep.seen[n]
           row == Called(old, ok)
<1>3. /\ old \in TxnRow /\ RowOK(old, told[n], fired[n]) /\ old.callback = "pending"
      /\ old.state \in Final /\ Status(old.state) = Status(txn[n].state) /\ old.attempts \in Nat
  BY <1>1, <1>2 DEF CallbackInv, SeenOK, Batch, TxnRow
<1>4. /\ row.state = old.state /\ row.attempts = old.attempts + 1
      /\ row.callback = IF ok THEN "sent"
                        ELSE IF old.attempts + 1 >= MaxAttempts THEN "failed" ELSE old.callback
  BY <1>3, CalledRow
<1>5. /\ sweep'.seen[n] = row /\ \A m \in Notrx : m # n => sweep'.seen[m] = sweep.seen[m]
      /\ fired'[n] = fired[n] + 1 /\ \A m \in Notrx : m # n => fired'[m] = fired[m]
      /\ fired[n] \in Nat
  BY <1>1, <1>2
<1> HIDE DEF row, old
<1>6. RowOK(row, told'[n], fired'[n])
  BY <1>2, <1>3, <1>4, <1>5, BoundAssumption DEF RowOK, old
<1>7. Batch' = Batch
  BY <1>2 DEF Batch
<1>8. ASSUME NEW m \in Batch PROVE SeenOK(m)'
  <2>1. SeenOK(m) /\ m \in Notrx
    BY <1>1 DEF CallbackInv
  <2>2. CASE m = n
    <3>1. n \notin sweep'.todo /\ sweep'.seen[n].state = sweep.seen[n].state
      BY <1>2, <1>4, <1>5 DEF old
    <3> QED BY <1>2, <1>5, <1>6, <2>1, <2>2, <3>1 DEF SeenOK
  <2>3. CASE m # n
    <3>1. m \in sweep'.todo <=> m \in sweep.todo
      BY <1>2, <2>3
    <3> QED BY <1>2, <1>5, <2>1, <2>3, <3>1 DEF SeenOK
  <2> QED BY <2>2, <2>3
<1>9. \A m \in Notrx : RowOK(txn'[m], told'[m], fired'[m])
  <2> SUFFICES ASSUME NEW m \in Notrx PROVE RowOK(txn'[m], told'[m], fired'[m])
    OBVIOUS
  <2>1. /\ txn'[m] = txn[m] /\ txn[m] \in TxnRow /\ RowOK(txn[m], told[m], fired[m])
        /\ told[m] \subseteq told'[m] /\ fired[m] \in Nat /\ fired'[m] \in Nat
        /\ fired[m] <= fired'[m]
    BY <1>1, <1>2, <1>5 DEF CallbackInv
  <2> QED BY <2>1, RowGrows
<1>10. VerdictStands'
  BY <1>2, <1>3, StatusFacts DEF CallbackInv, VerdictStands, old
<1> QED BY <1>2, <1>7, <1>8, <1>9, <1>10 DEF CallbackInv

\* A new batch agrees with its own snapshot; its commit writes the states already there.
LEMMA SweepKeeps ==
  ASSUME CallbackInv, KeyInv', BeginSweep \/ EndSweep \/ AbortSweep
  PROVE  CallbackInv'
<1>1. TypeOK /\ sweep.done \subseteq Notrx
  BY DEF CallbackInv, KeyInv, TypeOK, Sweep
<1>2. CASE BeginSweep
  <2>1. /\ sweep'.open /\ ~sweep'.stale /\ sweep'.seen = txn
        /\ sweep'.todo = {n \in Notrx : Due(n)} /\ Batch' = {n \in Notrx : Due(n)}
        /\ UNCHANGED <<txn, orders, key, request, fired, told>>
    BY <1>1, <1>2, BeginSweepStep DEF Batch
  <2>2. \A n \in Batch' : SeenOK(n)'
    BY <2>1 DEF CallbackInv, SeenOK, Due
  <2> QED BY <2>1, <2>2 DEF CallbackInv, VerdictStands
<1>3. NoSweep.todo = {} /\ NoSweep.done = {} /\ NoSweep.open = FALSE
  BY DEF NoSweep
<1>4. CASE EndSweep
  <2>1. /\ ~sweep.stale /\ Batch' = {}
        /\ \A n \in Notrx : txn'[n].state = txn[n].state
        /\ \A n \in Notrx \ sweep.done : txn'[n] = txn[n]
        /\ \A n \in sweep.done : /\ txn'[n].callback = sweep.seen[n].callback
                                 /\ txn'[n].attempts = sweep.seen[n].attempts
        /\ UNCHANGED <<orders, key, request, fired, told>>
    BY <1>1, <1>3, <1>4, EndSweepStep DEF Batch
  <2>2. \A n \in sweep.done : /\ RowOK(sweep.seen[n], told[n], fired[n])
                              /\ sweep.seen[n].state = txn[n].state
    BY <2>1 DEF CallbackInv, SeenOK, Batch
  <2>3. ASSUME NEW n \in Notrx PROVE RowOK(txn'[n], told'[n], fired'[n])
    <3>1. CASE n \in sweep.done
      BY <2>1, <2>2, <3>1 DEF RowOK
    <3>2. CASE n \notin sweep.done
      BY <2>1, <3>2 DEF CallbackInv
    <3> QED BY <3>1, <3>2
  <2>4. VerdictStands'
    BY <2>1 DEF CallbackInv, VerdictStands
  <2> QED BY <2>1, <2>3, <2>4 DEF CallbackInv
<1>5. CASE AbortSweep
  <2>1. Batch' = {} /\ UNCHANGED <<txn, orders, key, request, fired, told>>
    BY <1>3, <1>5 DEF AbortSweep, Batch
  <2> QED BY <2>1 DEF CallbackInv, VerdictStands
<1> QED BY <1>2, <1>4, <1>5

LEMMA InitCallbackInv == Init => CallbackInv
<1> SUFFICES ASSUME Init PROVE CallbackInv
  OBVIOUS
<1>1. TypeOK
  BY NewTypes DEF Init, TypeOK
<1>2. /\ \A s \in Session : request[s].step = "idle"
      /\ \A n \in Notrx : key[n] = NoSession /\ told[n] = {} /\ fired[n] = 0
      /\ \A n \in Notrx : txn[n].callback = "none" /\ txn[n].attempts = 0
      /\ Batch = {}
  BY DEF Init, Idle, NoRow, NoSweep, Batch
<1>3. KeyInv
  BY <1>1, <1>2 DEF KeyInv, Inserting
<1>4. \A n \in Notrx : RowOK(txn[n], told[n], fired[n])
  BY <1>2, BoundAssumption DEF RowOK
<1>5. VerdictStands
  BY <1>2 DEF VerdictStands
<1> QED BY <1>2, <1>3, <1>4, <1>5 DEF CallbackInv

LEMMA NextCallbackInv == CallbackInv /\ [Next]_vars => CallbackInv'
<1> SUFFICES ASSUME CallbackInv, [Next]_vars PROVE CallbackInv'
  OBVIOUS
<1>1. KeyInv' /\ TypeOK /\ request \in [Session -> Request]
  BY NextKeyInv DEF CallbackInv, KeyInv, TypeOK
<1> told' = told => OnlyErrors
  BY DEF OnlyErrors
<1>2. CASE UNCHANGED vars
  BY <1>1, <1>2, RequestKeeps DEF vars
<1>3. ASSUME NEW n \in Notrx, Poll(n) \/ \E s \in Session : SellAgain(s, n) PROVE CallbackInv'
  <2>1. /\ TellError(n) \/ Tell(n, txn[n].state)
        /\ UNCHANGED <<txn, orders, key, request, sweep, fired>>
    BY <1>3 DEF Poll, SellAgain
  <2> QED BY <1>1, <2>1, TellErrorType, TellingKeeps, RequestKeeps
<1>4. ASSUME NEW s \in Session, Duplicate(s) \/ Reject(s) \/ Crash(s) PROVE CallbackInv'
  <2>1. /\ Abandon(s) /\ UNCHANGED <<txn, sweep, fired>>
        /\ told' = told \/ TellError(request[s].notrx)
    BY <1>4 DEF Duplicate, Reject, Crash
  <2>2. request[s].notrx \in Notrx
    BY <1>1 DEF TypeOK, Request
  <2> QED BY <1>1, <2>1, <2>2, AbandonStep, TellErrorType, RequestKeeps
<1>5. ASSUME NEW s \in Session, NEW n \in Notrx, Sell(s, n) PROVE CallbackInv'
  <2>1. [step |-> "create", notrx |-> n, row |-> NoRow] \in Request
    BY NewTypes DEF Request
  <2> QED BY <1>1, <1>5, <2>1, RequestStep, RequestKeeps DEF Sell
<1>6. ASSUME NEW s \in Session, Create(s) PROVE CallbackInv'
  BY <1>1, <1>6, RequestKeeps DEF Create
<1>7. ASSUME NEW s \in Session, Pay(s) PROVE CallbackInv'
  <2>1. UNCHANGED <<txn, sweep, fired>> /\ request[s].notrx \in Notrx
    BY <1>1, <1>7, PayStep
  <2>2. CASE Abandon(s) /\ TellError(request[s].notrx)
    BY <1>1, <2>1, <2>2, AbandonStep, TellErrorType, RequestKeeps
  <2>3. CASE \E row \in TxnRow : NewRow(row) /\ told' = told /\
               request' = [request EXCEPT ![s] = [request[s] EXCEPT !.step = "answer", !.row = row]]
    <3>1. PICK row \in TxnRow : NewRow(row) /\ told' = told /\
               request' = [request EXCEPT ![s] = [request[s] EXCEPT !.step = "answer", !.row = row]]
      BY <2>3
    <3>2. request[s] \in Request
      BY <1>1
    <3>3. [request[s] EXCEPT !.step = "answer", !.row = row].row = row
      BY <3>2 DEF Request
    <3> QED BY <1>1, <2>1, <3>1, <3>3, RequestKeeps
  <2> QED BY <1>1, <1>7, <2>2, <2>3, PayStep
<1> QED BY <1>1, <1>2, <1>3, <1>4, <1>5, <1>6, <1>7,
           AnswerKeeps, DecisionKeeps, FireKeeps, SweepKeeps DEF Next

-----------------------------------------------------------------------------
(* Theorems. *)

\* Rows, what points of sale have heard and the cron's snapshots agree, with crashes,
\* commissions that raise, refunds and timeouts.
THEOREM CallbacksAgree == Spec => []CallbackInv
BY InitCallbackInv, NextCallbackInv, PTL DEF Spec

\* What a point of sale was told of a transaction stays true of it, whatever snapshot an
\* answer, a poll or a callback was made from; errors, of no transaction, are told apart.
THEOREM VerdictsStand == Spec => []VerdictStands
<1>1. CallbackInv => VerdictStands
  BY DEF CallbackInv
<1> QED BY <1>1, CallbacksAgree, PTL

\* A callback that is marked sent was heard, and said what the transaction is now.
THEOREM SentWasHeard == Spec => []SentIsHeard
<1>1. CallbackInv => SentIsHeard
  BY DEF CallbackInv, RowOK, SentIsHeard
<1> QED BY <1>1, CallbacksAgree, PTL

\* _CALLBACK_MAX_ATTEMPTS bounds the attempts a row counts, and a row that is given up was
\* called at least that often, batches that were rolled back included.
THEOREM GivesUpInTime == Spec => []GivesUp
<1>1. CallbackInv => GivesUp
  <2> SUFFICES ASSUME CallbackInv, NEW n \in Notrx
               PROVE  /\ txn[n].attempts <= MaxAttempts
                      /\ txn[n].callback = "failed" => fired[n] >= MaxAttempts
    BY DEF GivesUp
  <2>1. RowOK(txn[n], told[n], fired[n]) /\ fired[n] \in Nat /\ txn[n].attempts \in Nat
    BY DEF CallbackInv, KeyInv, TypeOK, TxnRow
  <2> QED BY <2>1, BoundAssumption DEF RowOK
<1> QED BY <1>1, CallbacksAgree, PTL

\* An order is placed by the request that inserted the number, once.
LEMMA NextSellInv ==
  ASSUME Mapped, "crash" \notin Uses
  PROVE  SellInv /\ [Next]_vars => SellInv'
<1> SUFFICES ASSUME SellInv, [Next]_vars PROVE SellInv'
  OBVIOUS
<1>1. /\ CallbackInv /\ CallbackInv' /\ KeyInv /\ TypeOK
      /\ orders \in [Notrx -> Nat] /\ \A s \in Session : request[s].notrx \in Notrx
  BY NextCallbackInv DEF SellInv, CallbackInv, KeyInv, TypeOK, Request
<1>2. ASSUME UNCHANGED <<orders, key, request>>,
             \A n \in Notrx : txn'[n].state = "none" => txn[n].state = "none"
      PROVE  SellInv'
  BY <1>1, <1>2 DEF SellInv, SoldOnce
<1>3. CASE UNCHANGED vars
  BY <1>2, <1>3 DEF vars
<1>4. ASSUME NEW s \in Session, Duplicate(s) \/ Reject(s) PROVE SellInv'
  <2>1. Abandon(s) /\ UNCHANGED <<txn, orders>> /\ request[s].step \in {"create", "dispatch"}
    BY <1>4 DEF Duplicate, Reject
  <2>2. \A n \in Notrx : key[n] = s => orders[n] = 0
    BY <1>1, <2>1, NumberAssumption DEF SellInv, KeyInv, Inserting
  <2>3. /\ \A z \in Session : request'[z].step = "dispatch" => request'[z] = request[z]
        /\ \A n \in Notrx : key'[n] = NoSession => key[n] = NoSession \/ key[n] = s
    BY <1>1, <2>1, AbandonStep
  <2> QED BY <1>1, <2>1, <2>2, <2>3 DEF SellInv, SoldOnce
<1>5. ASSUME NEW s \in Session, NEW n \in Notrx, Sell(s, n) PROVE SellInv'
  <2>1. [step |-> "create", notrx |-> n, row |-> NoRow] \in Request
    BY NewTypes DEF Request
  <2>2. \A z \in Session : request'[z].step = "dispatch" => request'[z] = request[z]
    BY <1>1, <1>5, <2>1, RequestStep DEF Sell
  <2> QED BY <1>1, <1>5, <2>2 DEF Sell, SellInv, SoldOnce
<1>6. ASSUME NEW s \in Session, Create(s) PROVE SellInv'
  <2> DEFINE n == request[s].notrx
  <2>1. n \in Notrx /\ orders[n] = 0 /\ UNCHANGED <<txn, orders>>
        /\ key' = [key EXCEPT ![n] = s]
        /\ request' = [request EXCEPT ![s].step = "dispatch"]
    BY <1>1, <1>6 DEF SellInv, Create
  <2>2. \A z \in Session : request'[z].notrx = request[z].notrx
                           /\ (request'[z].step = "dispatch" => z = s \/ request'[z] = request[z])
    BY <1>1, <2>1 DEF TypeOK, Request
  <2>3. \A m \in Notrx : key'[m] = NoSession => key[m] = NoSession
    BY <1>1, <2>1, NumberAssumption DEF TypeOK
  <2> QED BY <1>1, <2>1, <2>2, <2>3 DEF SellInv, SoldOnce
<1>7. ASSUME NEW s \in Session, Pay(s) PROVE SellInv'
  <2> DEFINE n == request[s].notrx
  <2>1. n \in Notrx /\ orders[n] = 0 /\ key[n] = s /\ txn' = txn
        /\ orders' = [orders EXCEPT ![n] = orders[n] + 1]
    BY <1>1, <1>7, PayStep DEF SellInv, KeyInv, Inserting
  <2>2. PICK row \in TxnRow : key' = key /\
          request' = [request EXCEPT ![s] = [request[s] EXCEPT !.step = "answer", !.row = row]]
    BY <1>1, <1>7, PayStep
  <2>3. /\ request'[s].step = "answer" /\ \A z \in Session : z # s => request'[z] = request[z]
        /\ orders'[n] = 1 /\ \A m \in Notrx : m # n => orders'[m] = orders[m]
    BY <1>1, <2>1, <2>2 DEF TypeOK, Request
  <2>4. \A z \in Session : z # s /\ request[z].step = "dispatch" => request[z].notrx # n
    BY <1>1, <2>1 DEF KeyInv, Inserting
  <2>5. \A m \in Notrx : txn'[m].state = "none" /\ key'[m] = NoSession => orders'[m] = 0
    BY <2>1, <2>2, <2>3, NumberAssumption DEF SellInv
  <2>6. \A z \in Session : request'[z].step = "dispatch" => orders'[request'[z].notrx] = 0
    BY <1>1, <2>3, <2>4 DEF SellInv
  <2> QED BY <1>1, <2>3, <2>5, <2>6 DEF SellInv, SoldOnce
<1>8. ASSUME NEW s \in Session, Answer(s) PROVE SellInv'
  <2> DEFINE n == request[s].notrx
  <2>1. /\ n \in Notrx /\ key[n] = s /\ txn'[n].state # "none" /\ Abandon(s)
        /\ UNCHANGED orders /\ \A m \in Notrx : m # n => txn'[m] = txn[m]
        /\ \A m \in Notrx : key[m] = s => m = n
    BY <1>1, <1>8, AnswerStep, HolderFacts DEF CallbackInv, NewRow, Inserting
  <2> HIDE DEF n
  <2>2. /\ \A z \in Session : request'[z].step = "dispatch" => request'[z] = request[z]
        /\ \A m \in Notrx : key'[m] = NoSession => key[m] = NoSession \/ m = n
    BY <1>1, <2>1, AbandonStep
  <2> QED BY <1>1, <2>1, <2>2 DEF SellInv, SoldOnce
<1>9. ASSUME NEW n \in Notrx, ReapSuccess(n) \/ ReapTimeout(n) \/ MarkRefunded(n) PROVE SellInv'
  <2>1. PICK row \in TxnRow : Decide(n, row) /\ row.state # "none"
    BY <1>1, <1>9, DecidedRow
  <2> QED BY <1>1, <1>2, <2>1, DecideStep
<1>10. CASE EndSweep
  BY <1>1, <1>2, <1>10, EndSweepStep
<1> QED BY <1>2, <1>3, <1>4, <1>5, <1>6, <1>7, <1>8, <1>9, <1>10
        DEF Next, SellAgain, Poll, Fire, BeginSweep, AbortSweep, Crash

\* Whoever inserts a number holds its key, and a number with neither a row nor a holder
\* was never ordered: what sell() relies on between its look-up and its insert.
THEOREM SalesAreKeyed ==
  ASSUME Mapped, "crash" \notin Uses
  PROVE  Spec => []SellInv
<1>1. Init => SellInv
  BY InitCallbackInv DEF Init, Idle, SellInv, SoldOnce
<1>2. SellInv /\ [Next]_vars => SellInv'
  BY NextSellInv
<1> QED BY <1>1, <1>2, PTL DEF Spec

\* However requests for a number overlap, are repeated or fail before the provider is
\* called, the provider is called once for it: the guarantee pps_gateway.py states, with
\* the two conditions it needs.
THEOREM NeverASecondSell ==
  ASSUME Mapped, "crash" \notin Uses
  PROVE  Spec => []SoldOnce
<1>1. SellInv => SoldOnce
  BY DEF SellInv
<1> QED BY <1>1, SalesAreKeyed, PTL
=============================================================================
