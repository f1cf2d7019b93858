---------------------------- MODULE PpobVaProofs ----------------------------
(***************************************************************************)
(* A bank reference is credited once, an ok to the bank is the truth, and  *)
(* decisions stand: for any number of references, wallets and concurrent   *)
(* callbacks, sweeps and buttons.                                          *)
(***************************************************************************)
EXTENDS PpobVa, TLAPS

\* The initial values have their type.
LEMMA NewTypes == NoRow \in Row /\ Idle \in Job /\ Nothing \in Snapshot
<1>1. NoRow \in Row
  BY DEF NoRow, Row, State, Source
<1>2. Idle \in Job
  BY DEF Idle, Job
<1>3. Nothing \in Snapshot
  BY <1>1 DEF Nothing, Snapshot
<1> QED BY <1>1, <1>2, <1>3

LEMMA InitIInv == Init => IInv
<1> SUFFICES ASSUME Init PROVE IInv
  OBVIOUS
<1>1. TypeOK
  BY NewTypes DEF Init, TypeOK
<1>2. \A r \in Ref : topup[r] = NoRow /\ moves[r] = 0
  BY DEF Init
<1>3. \A s \in Worker : job[s] = Idle /\ snap[s] = Nothing
  BY DEF Init
<1>4. CreditedOnce /\ LinkedIsCredited /\ RowsAreBooked
  BY <1>2 DEF NoRow, CreditedOnce, LinkedIsCredited, RowsAreBooked
<1>5. ReadsAreFresh
  BY <1>3 DEF ReadsAreFresh, Reads, Idle
<1>6. SeenExists
  BY <1>3 DEF SeenExists, Nothing, NoRow
<1>8. RejectedExists
  BY <1>3 DEF RejectedExists, Idle
<1>7. AckedExists
  BY DEF AckedExists, Init
<1> QED BY <1>1, <1>4, <1>5, <1>6, <1>7, <1>8 DEF IInv

\* What a payment or an operator's job works on is a reference.
LEMMA JobTypes ==
  ASSUME TypeOK, NEW s \in Worker
  PROVE  /\ job[s].kind = "payment" => job[s].of \in Payment /\ RefOf[job[s].of] \in Ref
         /\ job[s].kind \in {"credit", "reject"} => job[s].of \in Ref
         /\ snap[s].topup \in [Ref -> Row]
         /\ snap[s].lines \in SUBSET Payment
<1>1. job[s] \in Job /\ snap[s] \in Snapshot
  BY DEF TypeOK
<1> QED BY <1>1, RefAssumption DEF Job, Snapshot

\* Whatever a job writes, the jobs still running miss it: what they read is fresh or missed.
LEMMA EndKeeps ==
  ASSUME IInv, NEW s \in Worker, NEW wrote \in SUBSET (Ref \cup Wallet), End(s, wrote),
         \A r \in Ref : topup'[r] # topup[r] => r \in wrote,
         \A r \in Ref : topup[r].state # "none" => topup'[r].state # "none"
  PROVE  /\ job' \in [Worker -> Job]
         /\ snap' \in [Worker -> Snapshot]
         /\ missed' \in [Worker -> SUBSET (Ref \cup Wallet)]
         /\ ReadsAreFresh'
         /\ SeenExists'
         /\ RejectedExists'
<1>1. TypeOK
  BY DEF IInv
<1>2. job' \in [Worker -> Job] /\ snap' \in [Worker -> Snapshot]
  BY <1>1, NewTypes DEF End, TypeOK
<1>3. missed' \in [Worker -> SUBSET (Ref \cup Wallet)]
  BY <1>1 DEF End, TypeOK
<1>4. job'[s] = Idle /\ snap'[s] = Nothing
  BY <1>1 DEF End, TypeOK
<1>5. \A z \in Worker : z # s => job'[z] = job[z] /\ snap'[z] = snap[z]
  BY <1>1 DEF End, TypeOK
<1>6. \A z \in Worker : z # s /\ job[z] # Idle => missed'[z] = missed[z] \cup wrote
  BY <1>1 DEF End, TypeOK
<1>7. ReadsAreFresh'
  <2> SUFFICES ASSUME NEW z \in Worker, NEW r \in Reads(job'[z], snap'[z].lines),
                      r \notin missed'[z]
               PROVE  snap'[z].topup[r] = topup'[r]
    BY DEF ReadsAreFresh
  <2>1. z # s
    BY <1>4 DEF Reads, Idle
  <2>2. job[z] # Idle
    BY <1>5, <2>1 DEF Reads, Idle
  <2>3. r \notin missed[z] /\ r \notin wrote
    BY <1>6, <2>1, <2>2
  <2>4. snap[z].topup[r] = topup[r]
    BY <1>5, <2>1, <2>3 DEF IInv, ReadsAreFresh
  <2>5. r \in Ref
    <3>1. job[z] \in Job
      BY <1>1 DEF TypeOK
    <3>2. snap[z].lines \in SUBSET Payment
      BY <1>1 DEF TypeOK, Snapshot
    <3>3. r \in Reads(job[z], snap[z].lines)
      BY <1>5, <2>1
    <3> QED BY <3>1, <3>2, <3>3, RefAssumption DEF Reads, Job
  <2> QED BY <1>5, <2>1, <2>3, <2>4, <2>5
<1>8. SeenExists'
  <2> SUFFICES ASSUME NEW z \in Worker, NEW r \in Ref, snap'[z].topup[r].state # "none"
               PROVE  topup'[r].state # "none"
    BY DEF SeenExists
  <2>1. z # s
    BY <1>4 DEF Nothing, NoRow
  <2> QED BY <1>5, <2>1 DEF IInv, SeenExists
<1>9. RejectedExists'
  <2> SUFFICES ASSUME NEW z \in Worker, job'[z].kind = "reject"
               PROVE  topup'[job'[z].of].state # "none"
    BY DEF RejectedExists
  <2>1. z # s
    BY <1>4 DEF Idle
  <2>2. job[z].kind = "reject" /\ job[z].of \in Ref
    BY <1>1, <1>5, <2>1, JobTypes
  <2> QED BY <1>5, <2>1, <2>2 DEF IInv, RejectedExists
<1> QED BY <1>2, <1>3, <1>7, <1>8, <1>9

\* A job that ends without having written anything changes no row.
LEMMA EndsQuietly ==
  ASSUME IInv, NEW s \in Worker, End(s, {}), UNCHANGED <<topup, moves, frozen, lines>>,
         calling' \in SUBSET Payment, acked' \in SUBSET Payment,
         \A p \in acked' \ acked : topup[RefOf[p]].state # "none"
  PROVE  IInv'
<1>1. /\ job' \in [Worker -> Job] /\ snap' \in [Worker -> Snapshot]
      /\ missed' \in [Worker -> SUBSET (Ref \cup Wallet)]
      /\ ReadsAreFresh' /\ SeenExists' /\ RejectedExists'
  BY EndKeeps
<1>2. TypeOK'
  BY <1>1 DEF IInv, TypeOK
<1>3. CreditedOnce' /\ LinkedIsCredited' /\ RowsAreBooked'
  BY DEF IInv, CreditedOnce, LinkedIsCredited, RowsAreBooked, Booked
<1>4. AckedExists'
  BY DEF IInv, AckedExists
<1> QED BY <1>1, <1>2, <1>3, <1>4 DEF IInv

\* Crediting top-ups that are not yet decided, and that the job has read, moves money once.
LEMMA CreditKeeps ==
  ASSUME IInv, NEW s \in Worker, NEW refs \in SUBSET Ref, NEW source \in [Ref -> Source],
         refs \subseteq Reads(job[s], snap[s].lines),
         \A r \in refs : snap[s].topup[r].state \in {"none", "received", "settled"},
         Credit(s, refs, source), UNCHANGED <<frozen, lines>>,
         calling' \in SUBSET Payment, acked' \in SUBSET Payment,
         \A p \in acked' \ acked : topup'[RefOf[p]].state # "none"
  PROVE  /\ IInv'
         /\ \A r \in Ref : topup[r].state \in {"credited", "rejected"} =>
              topup'[r] = topup[r] /\ moves'[r] = moves[r]
<1>1. \A r \in refs : topup[r].state \in {"none", "received", "settled"}
  <2> SUFFICES ASSUME NEW r \in refs
               PROVE  topup[r].state \in {"none", "received", "settled"}
    OBVIOUS
  <2>1. r \notin missed[s]
    BY DEF Credit, CanCredit
  <2>2. snap[s].topup[r] = topup[r]
    BY <2>1 DEF IInv, ReadsAreFresh
  <2> QED BY <2>2
<1>2. \A r \in refs : moves[r] = 0
  BY <1>1 DEF IInv, CreditedOnce
<1>3. /\ topup' = [r \in Ref |-> IF r \in refs THEN Credited(source[r]) ELSE topup[r]]
      /\ moves' = [r \in Ref |-> IF r \in refs THEN moves[r] + 1 ELSE moves[r]]
  BY DEF Credit
<1>4. \A r \in Ref : source[r] \in Source /\ Credited(source[r]) \in Row
  BY DEF Credited, Row, State
<1>5. topup' \in [Ref -> Row] /\ moves' \in [Ref -> Nat]
  BY <1>3, <1>4 DEF IInv, TypeOK
<1>6. \A r \in Ref : topup[r].state # "none" => topup'[r].state # "none"
  BY <1>3 DEF Credited
<1>7. refs \cup {WalletOf[r] : r \in refs} \in SUBSET (Ref \cup Wallet)
  BY WalletAssumption
<1>8. /\ job' \in [Worker -> Job] /\ snap' \in [Worker -> Snapshot]
      /\ missed' \in [Worker -> SUBSET (Ref \cup Wallet)]
      /\ ReadsAreFresh' /\ SeenExists' /\ RejectedExists'
  <2>1. End(s, refs \cup {WalletOf[r] : r \in refs})
    BY DEF Credit
  <2>2. \A r \in Ref : topup'[r] # topup[r] => r \in refs \cup {WalletOf[q] : q \in refs}
    BY <1>3
  <2> QED BY <2>1, <2>2, <1>6, <1>7, EndKeeps
<1>9. TypeOK'
  BY <1>5, <1>8 DEF IInv, TypeOK
<1>10. CreditedOnce' /\ LinkedIsCredited' /\ RowsAreBooked'
  <2> SUFFICES ASSUME NEW r \in Ref
               PROVE  /\ moves'[r] = IF topup'[r].state = "credited" THEN 1 ELSE 0
                      /\ topup'[r].linked <=> topup'[r].state = "credited"
                      /\ topup'[r].state # "none" => Booked(topup'[r])
    BY DEF CreditedOnce, LinkedIsCredited, RowsAreBooked, Booked
  <2>1. CASE r \in refs
    BY <2>1, <1>2, <1>3 DEF Credited, Booked
  <2>2. CASE r \notin refs
    <3>1. topup'[r] = topup[r] /\ moves'[r] = moves[r]
      BY <2>2, <1>3
    <3> QED BY <3>1 DEF IInv, CreditedOnce, LinkedIsCredited, RowsAreBooked
  <2> QED BY <2>1, <2>2
<1>11. AckedExists'
  BY <1>6, RefAssumption DEF IInv, TypeOK, AckedExists
<1>12. \A r \in Ref : topup[r].state \in {"credited", "rejected"} =>
         topup'[r] = topup[r] /\ moves'[r] = moves[r]
  BY <1>1, <1>3
<1> QED BY <1>8, <1>9, <1>10, <1>11, <1>12 DEF IInv

\* Rows that are decided keep their state and their moves.
Stands ==
  \A r \in Ref : topup[r].state \in {"credited", "rejected"} =>
    topup'[r].state = topup[r].state /\ moves'[r] = moves[r]

LEMMA AnswerTypes ==
  ASSUME TypeOK, NEW p \in Payment, Answer(p)
  PROVE  /\ calling' \in SUBSET Payment /\ acked' \in SUBSET Payment
         /\ \A q \in acked' \ acked : q = p
BY DEF TypeOK, Answer

LEMMA PaymentKeeps ==
  ASSUME IInv, NEW s \in Worker, PaymentCallback(s)
  PROVE  IInv' /\ Stands
<1> DEFINE p == job[s].of
           r == RefOf[p]
<1>1. job[s].kind = "payment" /\ Answer(p) /\ UNCHANGED <<frozen, lines>>
  BY DEF PaymentCallback
<1>2. TypeOK
  BY DEF IInv
<1>3. p \in Payment /\ r \in Ref /\ snap[s].topup \in [Ref -> Row]
  BY <1>1, <1>2, JobTypes
<1>4. calling' \in SUBSET Payment /\ acked' \in SUBSET Payment /\ \A q \in acked' \ acked : q = p
  BY <1>1, <1>2, <1>3, AnswerTypes
<1>5. r \in Reads(job[s], snap[s].lines)
  BY <1>1 DEF Reads
<1>6. CASE ~NoRowSeen(s, r) /\ End(s, {}) /\ UNCHANGED <<topup, moves>>
  <2>1. topup[r].state # "none"
    BY <1>3, <1>6 DEF NoRowSeen, IInv, SeenExists
  <2>2. \A q \in acked' \ acked : topup[RefOf[q]].state # "none"
    BY <1>4, <2>1
  <2>3. IInv'
    BY <1>1, <1>4, <1>6, <2>2, EndsQuietly
  <2> QED BY <1>6, <2>3 DEF Stands
<1>7. CASE NoRowSeen(s, r) /\ Credit(s, {r}, [x \in Ref |-> "h2h_callback"])
  <2> DEFINE source == [x \in Ref |-> "h2h_callback"]
  <2>1. source \in [Ref -> Source]
    BY DEF Source
  <2>2. topup'[r].state # "none"
    BY <1>3, <1>7 DEF Credit, Credited
  <2>3. \A q \in acked' \ acked : topup'[RefOf[q]].state # "none"
    BY <1>4, <2>2
  <2>4. \A q \in {r} : snap[s].topup[q].state \in {"none", "received", "settled"}
    BY <1>7 DEF NoRowSeen
  <2>5. Credit(s, {r}, source) /\ {r} \in SUBSET Ref /\ {r} \subseteq Reads(job[s], snap[s].lines)
    BY <1>3, <1>5, <1>7
  <2> HIDE DEF source, p, r
  <2> QED BY <1>1, <1>4, <2>1, <2>3, <2>4, <2>5, CreditKeeps DEF Stands
<1> QED BY <1>6, <1>7 DEF PaymentCallback

LEMMA ReconcileKeeps ==
  ASSUME IInv, NEW s \in Worker, Reconcile(s)
  PROVE  IInv' /\ Stands
<1> DEFINE refs == {LineRef[p] : p \in snap[s].lines}
           new == {r \in refs : NoRowSeen(s, r)}
           source == [r \in Ref |-> "csv_import"]
<1>1. TypeOK
  BY DEF IInv
<1>2. snap[s].lines \in SUBSET Payment
  BY <1>1, JobTypes
<1>3. new \in SUBSET Ref
  BY <1>2, RefAssumption
<1>4. new \subseteq Reads(job[s], snap[s].lines)
  BY DEF Reconcile, Reads
<1>5. source \in [Ref -> Source]
  BY DEF Source
<1>6. \A r \in new : snap[s].topup[r].state \in {"none", "received", "settled"}
  BY DEF NoRowSeen
<1>7. Credit(s, new, source) /\ UNCHANGED <<frozen, lines, calling, acked>>
  BY DEF Reconcile
<1>8. calling' \in SUBSET Payment /\ acked' \in SUBSET Payment /\ acked' \ acked = {}
  BY <1>1, <1>7 DEF TypeOK
<1> HIDE DEF new, source
<1> QED BY <1>3, <1>4, <1>5, <1>6, <1>7, <1>8, CreditKeeps DEF Stands

LEMMA CreditByHandKeeps ==
  ASSUME IInv, NEW s \in Worker, CreditByHand(s)
  PROVE  IInv' /\ Stands
<1> DEFINE r == job[s].of
           source == [x \in Ref |-> snap[s].topup[x].source]
<1>1. job[s].kind = "credit" /\ UNCHANGED <<frozen, lines, calling, acked>>
  BY DEF CreditByHand
<1>2. TypeOK
  BY DEF IInv
<1>3. r \in Ref /\ snap[s].topup \in [Ref -> Row]
  BY <1>1, <1>2, JobTypes
<1>4. calling' \in SUBSET Payment /\ acked' \in SUBSET Payment /\ acked' \ acked = {}
  BY <1>1, <1>2 DEF TypeOK
<1>5. CASE End(s, {}) /\ UNCHANGED <<topup, moves>>
  <2>1. IInv'
    BY <1>1, <1>4, <1>5, EndsQuietly
  <2> QED BY <1>5, <2>1 DEF Stands
<1>6. CASE snap[s].topup[r].state \in {"received", "settled"} /\ Credit(s, {r}, source)
  <2>1. {r} \in SUBSET Ref /\ {r} \subseteq Reads(job[s], snap[s].lines)
    BY <1>1, <1>3 DEF Reads
  <2>2. source \in [Ref -> Source]
    BY <1>3 DEF Row
  <2>3. \A q \in {r} : snap[s].topup[q].state \in {"none", "received", "settled"}
    BY <1>6
  <2> HIDE DEF source, r
  <2> QED BY <1>1, <1>4, <1>6, <2>1, <2>2, <2>3, CreditKeeps DEF Stands
<1> QED BY <1>5, <1>6 DEF CreditByHand

\* Changing one row that is not credited into another that is not credited, by hand.
LEMMA RejectKeeps ==
  ASSUME IInv, NEW s \in Worker, Reject(s)
  PROVE  IInv' /\ Stands
<1> DEFINE r == job[s].of
<1>1. /\ job[s].kind = "reject" /\ UNCHANGED <<moves, frozen, lines, calling, acked>>
      /\ snap[s].topup[r].state # "credited" /\ r \notin missed[s] /\ End(s, {r})
      /\ topup' = [topup EXCEPT ![r].state = "rejected"]
  BY DEF Reject
<1>2. TypeOK
  BY DEF IInv
<1>3. r \in Ref
  BY <1>1, <1>2, JobTypes
<1>4. topup[r] = snap[s].topup[r]
  <2>1. r \in Reads(job[s], snap[s].lines)
    BY <1>1 DEF Reads
  <2> QED BY <1>1, <2>1 DEF IInv, ReadsAreFresh
<1>5. topup[r].state \notin {"none", "credited"} /\ topup[r] \in Row
  BY <1>1, <1>2, <1>3, <1>4 DEF TypeOK, IInv, RejectedExists
<1>6. /\ topup' \in [Ref -> Row]
      /\ \A q \in Ref : q # r => topup'[q] = topup[q]
      /\ topup'[r] = [topup[r] EXCEPT !.state = "rejected"]
  BY <1>1, <1>2, <1>3, <1>5 DEF TypeOK, Row, State
<1>7. /\ topup'[r].state = "rejected"
      /\ topup'[r].source = topup[r].source
      /\ topup'[r].linked = topup[r].linked
  BY <1>5, <1>6 DEF Row
<1>8. {r} \in SUBSET (Ref \cup Wallet)
  BY <1>3
<1>9. /\ job' \in [Worker -> Job] /\ snap' \in [Worker -> Snapshot]
      /\ missed' \in [Worker -> SUBSET (Ref \cup Wallet)]
      /\ ReadsAreFresh' /\ SeenExists' /\ RejectedExists'
  <2>1. \A q \in Ref : topup'[q] # topup[q] => q \in {r}
    BY <1>6
  <2>2. \A q \in Ref : topup[q].state # "none" => topup'[q].state # "none"
    BY <1>6, <1>7
  <2> HIDE DEF r
  <2> QED BY <1>1, <1>8, <2>1, <2>2, EndKeeps
<1>10. TypeOK'
  BY <1>1, <1>2, <1>6, <1>9 DEF TypeOK
<1>11. CreditedOnce' /\ LinkedIsCredited' /\ RowsAreBooked'
  <2> SUFFICES ASSUME NEW q \in Ref
               PROVE  /\ moves'[q] = IF topup'[q].state = "credited" THEN 1 ELSE 0
                      /\ topup'[q].linked <=> topup'[q].state = "credited"
                      /\ topup'[q].state # "none" => Booked(topup'[q])
    BY DEF CreditedOnce, LinkedIsCredited, RowsAreBooked, Booked
  <2>1. CASE q = r
    <3>1. moves'[r] = 0 /\ ~topup[r].linked
      BY <1>1, <1>3, <1>5 DEF IInv, CreditedOnce, LinkedIsCredited
    <3>2. topup[r].source = "manual_post"
      BY <1>3, <1>5 DEF IInv, RowsAreBooked, Booked
    <3> QED BY <2>1, <3>1, <3>2, <1>7 DEF Booked
  <2>2. CASE q # r
    BY <2>2, <1>1, <1>6 DEF IInv, CreditedOnce, LinkedIsCredited, RowsAreBooked
  <2> QED BY <2>1, <2>2
<1>12. AckedExists'
  BY <1>1, <1>2, <1>6, <1>7, RefAssumption DEF IInv, TypeOK, AckedExists
<1>13. Stands
  BY <1>1, <1>5, <1>6, <1>7 DEF Stands
<1> QED BY <1>9, <1>10, <1>11, <1>12, <1>13 DEF IInv

LEMMA AbortKeeps ==
  ASSUME IInv, NEW s \in Worker, Abort(s)
  PROVE  IInv'
<1>1. End(s, {}) /\ UNCHANGED <<topup, moves, frozen, lines, calling, acked>>
  BY DEF Abort
<1>2. calling' \in SUBSET Payment /\ acked' \in SUBSET Payment /\ acked' \ acked = {}
  BY <1>1 DEF IInv, TypeOK
<1> QED BY <1>1, <1>2, EndsQuietly

\* A snapshot is what the rows are at that moment.
LEMMA BeginKeeps ==
  ASSUME IInv, NEW s \in Worker, NEW j \in Job, Begin(s, j),
         j.kind = "reject" => topup[j.of].state # "none"
  PROVE  IInv'
<1>1. TypeOK
  BY DEF IInv
<1>2. /\ UNCHANGED <<topup, moves, frozen, lines, calling, acked>>
      /\ job'[s] = j /\ snap'[s] = Sees(j) /\ missed'[s] = {}
      /\ \A z \in Worker : z # s =>
           job'[z] = job[z] /\ snap'[z] = snap[z] /\ missed'[z] = missed[z]
  BY <1>1 DEF Begin, TypeOK
<1>3. NoRow \in Row
  BY NewTypes
<1>4. Sees(j) \in Snapshot
  <2>1. [r \in Ref |-> IF r \in Reads(j, lines) THEN topup[r] ELSE NoRow] \in [Ref -> Row]
    BY <1>1, <1>3 DEF TypeOK
  <2>2. frozen \cap {WalletOf[r] : r \in Reads(j, lines)} \in SUBSET Wallet
    BY <1>1 DEF TypeOK
  <2>3. (IF j.kind = "sweep" THEN lines ELSE {}) \in SUBSET Payment
    BY <1>1 DEF TypeOK
  <2> QED BY <2>1, <2>2, <2>3 DEF Sees, Snapshot
<1>5. TypeOK'
  BY <1>1, <1>2, <1>4 DEF TypeOK, Begin
<1>6. ReadsAreFresh'
  <2> SUFFICES ASSUME NEW z \in Worker, NEW r \in Reads(job'[z], snap'[z].lines),
                      r \notin missed'[z]
               PROVE  snap'[z].topup[r] = topup[r]
    BY <1>2 DEF ReadsAreFresh
  <2>1. CASE z # s
    BY <2>1, <1>2 DEF IInv, ReadsAreFresh
  <2>2. CASE z = s
    <3>1. r \in Reads(j, Sees(j).lines)
      BY <2>2, <1>2
    <3>2. r \in Reads(j, lines)
      <4>1. Sees(j).lines = IF j.kind = "sweep" THEN lines ELSE {}
        BY DEF Sees
      <4> QED BY <3>1, <4>1 DEF Reads
    <3>3. r \in Ref
      BY <3>2, <1>1, RefAssumption DEF Reads, Job, TypeOK
    <3> QED BY <2>2, <3>2, <3>3, <1>2 DEF Sees
  <2> QED BY <2>1, <2>2
<1>7. SeenExists'
  <2> SUFFICES ASSUME NEW z \in Worker, NEW r \in Ref, snap'[z].topup[r].state # "none"
               PROVE  topup[r].state # "none"
    BY <1>2 DEF SeenExists
  <2>1. CASE z # s
    BY <2>1, <1>2 DEF IInv, SeenExists
  <2>2. CASE z = s
    BY <2>2, <1>2 DEF Sees, NoRow
  <2> QED BY <2>1, <2>2
<1>8. RejectedExists'
  BY <1>2 DEF IInv, RejectedExists
<1>9. CreditedOnce' /\ LinkedIsCredited' /\ RowsAreBooked' /\ AckedExists'
  BY <1>2 DEF IInv, CreditedOnce, LinkedIsCredited, RowsAreBooked, Booked, AckedExists
<1> QED BY <1>5, <1>6, <1>7, <1>8, <1>9 DEF IInv

\* What happens outside of jobs: rows may appear, and rows may be missed.
LEMMA OutsideKeeps ==
  ASSUME IInv, UNCHANGED <<moves, acked, job, snap>>,
         frozen' \in SUBSET Wallet, lines' \in SUBSET Payment, calling' \in SUBSET Payment,
         missed' \in [Worker -> SUBSET (Ref \cup Wallet)],
         \A s \in Worker : missed[s] \subseteq missed'[s],
         topup' \in [Ref -> Row],
         \A r \in Ref : \/ topup'[r] = topup[r]
                        \/ /\ topup[r].state = "none"
                           /\ topup'[r] = [state |-> "received", source |-> "manual_post",
                                          linked |-> FALSE]
                           /\ \A s \in Worker : job[s] # Idle => r \in missed'[s]
  PROVE  IInv'
<1>1. TypeOK
  BY DEF IInv
<1>2. TypeOK'
  BY <1>1 DEF TypeOK
<1>3. CreditedOnce' /\ LinkedIsCredited' /\ RowsAreBooked'
  <2> SUFFICES ASSUME NEW q \in Ref
               PROVE  /\ moves'[q] = IF topup'[q].state = "credited" THEN 1 ELSE 0
                      /\ topup'[q].linked <=> topup'[q].state = "credited"
                      /\ topup'[q].state # "none" => Booked(topup'[q])
    BY DEF CreditedOnce, LinkedIsCredited, RowsAreBooked, Booked
  <2> QED BY DEF IInv, CreditedOnce, LinkedIsCredited, RowsAreBooked, Booked
<1>4. ReadsAreFresh'
  <2> SUFFICES ASSUME NEW z \in Worker, NEW r \in Reads(job[z], snap[z].lines),
                      r \notin missed'[z]
               PROVE  snap[z].topup[r] = topup'[r]
    BY DEF ReadsAreFresh
  <2>1. job[z] # Idle
    BY DEF Reads, Idle
  <2>2. r \in Ref
    BY <1>1, JobTypes, RefAssumption DEF Reads, TypeOK, Job
  <2>3. topup'[r] = topup[r]
    BY <2>1, <2>2
  <2>4. r \notin missed[z]
    OBVIOUS
  <2> QED BY <2>3, <2>4 DEF IInv, ReadsAreFresh
<1>5. \A r \in Ref : topup[r].state # "none" => topup'[r].state # "none"
  OBVIOUS
<1>6. SeenExists'
  BY <1>5 DEF IInv, SeenExists
<1>7. RejectedExists'
  BY <1>1, <1>5, JobTypes DEF IInv, RejectedExists
<1>8. AckedExists'
  BY <1>1, <1>5, RefAssumption DEF IInv, AckedExists, TypeOK
<1> QED BY <1>2, <1>3, <1>4, <1>6, <1>7, <1>8 DEF IInv

\* The actions without a worker, and those that only read.
LEMMA EnvironmentKeeps ==
  ASSUME IInv,
         \/ \E r \in Ref : EnterByHand(r)
         \/ \E w \in Wallet : Freeze(w)
         \/ \E p \in Payment : Notify(p) \/ ImportLine(p)
  PROVE  IInv' /\ Stands
<1>1. TypeOK
  BY DEF IInv
<1>2. CASE \E r \in Ref : EnterByHand(r)
  <2>1. PICK r \in Ref : EnterByHand(r)
    BY <1>2
  <2> DEFINE new == [state |-> "received", source |-> "manual_post", linked |-> FALSE]
  <2>2. new \in Row
    BY DEF Row, State, Source
  <2>3. /\ topup' \in [Ref -> Row] /\ topup[r].state = "none"
        /\ topup'[r] = new /\ \A q \in Ref : q # r => topup'[q] = topup[q]
    BY <1>1, <2>1, <2>2 DEF EnterByHand, TypeOK
  <2>4. /\ missed' \in [Worker -> SUBSET (Ref \cup Wallet)]
        /\ \A s \in Worker : missed[s] \subseteq missed'[s]
        /\ \A s \in Worker : job[s] # Idle => r \in missed'[s]
    BY <1>1, <2>1 DEF EnterByHand, TypeOK
  <2>5. UNCHANGED <<moves, frozen, lines, calling, acked, job, snap>>
    BY <2>1 DEF EnterByHand
  <2>6. IInv'
    BY <1>1, <2>3, <2>4, <2>5, OutsideKeeps DEF TypeOK
  <2>7. Stands
    BY <2>3, <2>5 DEF Stands
  <2> QED BY <2>6, <2>7
<1>3. CASE \E w \in Wallet : Freeze(w)
  <2>1. PICK w \in Wallet : Freeze(w)
    BY <1>3
  <2>2. /\ missed' \in [Worker -> SUBSET (Ref \cup Wallet)]
        /\ \A s \in Worker : missed[s] \subseteq missed'[s]
        /\ frozen' \in SUBSET Wallet
    BY <1>1, <2>1 DEF Freeze, TypeOK
  <2>3. UNCHANGED <<topup, moves, lines, calling, acked, job, snap>>
    BY <2>1 DEF Freeze
  <2>4. IInv'
    BY <1>1, <2>2, <2>3, OutsideKeeps DEF TypeOK
  <2> QED BY <2>3, <2>4 DEF Stands
<1>4. CASE \E p \in Payment : Notify(p) \/ ImportLine(p)
  <2>1. PICK p \in Payment : Notify(p) \/ ImportLine(p)
    BY <1>4
  <2>2. /\ calling' \in SUBSET Payment /\ lines' \in SUBSET Payment
        /\ UNCHANGED <<topup, moves, frozen, acked, job, snap, missed>>
    BY <1>1, <2>1 DEF Notify, ImportLine, TypeOK
  <2>3. IInv'
    BY <1>1, <2>2, OutsideKeeps DEF TypeOK
  <2> QED BY <2>2, <2>3 DEF Stands
<1> QED BY <1>2, <1>3, <1>4

LEMMA NextKeeps ==
  ASSUME IInv, [Next]_vars
  PROVE  IInv' /\ Stands
<1>1. CASE UNCHANGED vars
  <2>1. UNCHANGED <<topup, moves, frozen, lines, calling, acked, job, snap, missed>>
    BY <1>1 DEF vars
  <2>2. IInv'
    BY <2>1, OutsideKeeps DEF IInv, TypeOK
  <2> QED BY <2>1, <2>2 DEF Stands
<1>2. CASE \E s \in Worker, p \in calling : Begin(s, [kind |-> "payment", of |-> p])
  <2>1. PICK s \in Worker, p \in calling : Begin(s, [kind |-> "payment", of |-> p])
    BY <1>2
  <2>2. [kind |-> "payment", of |-> p] \in Job
    BY DEF IInv, TypeOK, Job
  <2>3. IInv'
    BY <2>1, <2>2, BeginKeeps
  <2> QED BY <2>1, <2>3 DEF Stands, Begin
<1>3. CASE \E s \in Worker, r \in Ref : /\ topup[r].state # "none"
                                        /\ \/ Begin(s, [kind |-> "credit", of |-> r])
                                           \/ Begin(s, [kind |-> "reject", of |-> r])
  <2>1. PICK s \in Worker, r \in Ref, k \in {"credit", "reject"} :
          topup[r].state # "none" /\ Begin(s, [kind |-> k, of |-> r])
    BY <1>3
  <2>2. [kind |-> k, of |-> r] \in Job
    BY DEF Job
  <2>3. IInv'
    BY <2>1, <2>2, BeginKeeps
  <2> QED BY <2>1, <2>3 DEF Stands, Begin
<1>4. CASE \E s \in Worker : Begin(s, [kind |-> "sweep"])
  <2>1. PICK s \in Worker : Begin(s, [kind |-> "sweep"])
    BY <1>4
  <2>2. [kind |-> "sweep"] \in Job
    BY DEF Job
  <2>3. IInv'
    BY <2>1, <2>2, BeginKeeps
  <2> QED BY <2>1, <2>3 DEF Stands, Begin
<1>5. CASE \E s \in Worker : PaymentCallback(s) \/ Reconcile(s) \/ CreditByHand(s) \/ Reject(s)
  BY <1>5, PaymentKeeps, ReconcileKeeps, CreditByHandKeeps, RejectKeeps
<1>6. CASE \E s \in Worker : Abort(s)
  <2>1. PICK s \in Worker : Abort(s)
    BY <1>6
  <2>2. IInv'
    BY <2>1, AbortKeeps
  <2> QED BY <2>1, <2>2 DEF Stands, Abort
<1>7. CASE \/ \E r \in Ref : EnterByHand(r)
           \/ \E w \in Wallet : Freeze(w)
           \/ \E p \in Payment : Notify(p) \/ ImportLine(p)
  BY <1>7, EnvironmentKeeps
<1> QED BY <1>1, <1>2, <1>3, <1>4, <1>5, <1>6, <1>7 DEF Next

-----------------------------------------------------------------------------
\* The inductive invariant, and with it: a bank reference moves money once, when its
\* top-up is credited (unique bank_ref, row locks, the guard of action_credit_wallet).
THEOREM CreditsOnce == Spec => []IInv
<1>1. IInv /\ [Next]_vars => IInv'
  BY NextKeeps
<1> QED BY InitIInv, <1>1, PTL DEF Spec

\* An ok the bank has heard is the truth: the money is in the wallet, or an operator had
\* entered the reference by hand (the early return of the payment callback).
THEOREM OkIsTrue == Spec => []AckedIsBooked
<1>1. IInv => AckedIsBooked
  BY RefAssumption DEF IInv, TypeOK, AckedExists, RowsAreBooked, AckedIsBooked
<1> QED BY CreditsOnce, <1>1, PTL

\* No interleaving of buttons, callbacks and sweeps undoes a credit or a rejection
\* (the guards of action_credit_wallet and action_reject, and the row conflicts).
THEOREM DecisionsStand == Spec => DecisionStands
<1>1. IInv /\ [Next]_vars => [\A r \in Ref : topup[r].state \in {"credited", "rejected"} =>
                                 topup'[r].state = topup[r].state /\ moves'[r] = moves[r]]_vars
  BY NextKeeps DEF Stands
<1> QED BY CreditsOnce, <1>1, PTL DEF Spec, DecisionStands
=============================================================================
