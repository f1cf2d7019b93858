------------------------------- MODULE PpobVa -------------------------------
(***************************************************************************)
(* Virtual-account top-ups of custom_ppob_va.  Three ways lead from a      *)
(* bank transfer to a mitra wallet: the bank's payment callback, a bank    *)
(* statement line that a va_match rule picks up, and a top-up an operator  *)
(* enters and credits by hand.  All three write custom.ppob.va.topup,      *)
(* whose bank_ref is unique, and credit the wallet in the same database    *)
(* transaction.                                                            *)
(*                                                                         *)
(* A job is one such transaction.  It has no effect outside the database   *)
(* before its commit, so it is two actions: Begin takes the REPEATABLE     *)
(* READ snapshot, Commit does everything the code does on that snapshot.   *)
(* A row that another job committed since the snapshot cannot be inserted  *)
(* again (unique index), updated or locked (serialization failure): the    *)
(* job then ends in Abort, as it does after a UserError or a crash.        *)
(***************************************************************************)
EXTENDS Naturals, FiniteSets

CONSTANTS
  Ref,         \* bank references
  Payment,     \* transfers customers make
  Wallet,      \* mitra wallets
  Worker,      \* concurrent requests and crons
  RefOf,       \* the bank_ref of a payment in the callback
  LineRef,     \* the reference _apply_va_match reads from its statement line
  WalletOf     \* the wallet of the virtual account a reference is paid into

ASSUME RefAssumption    == RefOf \in [Payment -> Ref] /\ LineRef \in [Payment -> Ref]
ASSUME WalletAssumption == WalletOf \in [Ref -> Wallet]

VARIABLES
  topup,    \* custom.ppob.va.topup rows by bank_ref
  moves,    \* committed wallet moves that carry the top-up of a reference
  frozen,   \* wallets ops have frozen
  lines,    \* payments whose statement line has been imported
  calling,  \* payments the bank is notifying and has no ok for
  acked,    \* payments whose callback the bank knows to be booked
  job,      \* what each worker is doing
  snap,     \* the rows each worker sees
  missed    \* rows committed by others since a worker's snapshot

vars == <<topup, moves, frozen, lines, calling, acked, job, snap, missed>>

-----------------------------------------------------------------------------
State  == {"none", "received", "settled", "credited", "rejected"}
Source == {"none", "h2h_callback", "csv_import", "manual_post"}
Row    == [state: State, source: Source, linked: BOOLEAN]

NoRow  == [state |-> "none", source |-> "none", linked |-> FALSE]

Job == [kind: {"idle", "sweep"}]
         \cup [kind: {"payment"}, of: Payment]
         \cup [kind: {"credit", "reject"}, of: Ref]

Idle == [kind |-> "idle"]

Snapshot == [topup: [Ref -> Row], frozen: SUBSET Wallet, lines: SUBSET Payment]
Nothing  == [topup |-> [r \in Ref |-> NoRow], frozen |-> {}, lines |-> {}]

\* The references a job asks for.
Reads(j, imported) ==
  CASE j.kind = "idle"    -> {}
    [] j.kind = "payment" -> {RefOf[j.of]}
    [] j.kind = "sweep"   -> {LineRef[p] : p \in imported}
    [] OTHER              -> {j.of}

\* The part of the snapshot that a job looks at.
Sees(j) ==
  [topup  |-> [r \in Ref |-> IF r \in Reads(j, lines) THEN topup[r] ELSE NoRow],
   frozen |-> frozen \cap {WalletOf[r] : r \in Reads(j, lines)},
   lines  |-> IF j.kind = "sweep" THEN lines ELSE {}]

TypeOK ==
  /\ topup   \in [Ref -> Row]
  /\ moves   \in [Ref -> Nat]
  /\ frozen  \in SUBSET Wallet
  /\ lines   \in SUBSET Payment
  /\ calling \in SUBSET Payment
  /\ acked   \in SUBSET Payment
  /\ job     \in [Worker -> Job]
  /\ snap    \in [Worker -> Snapshot]
  /\ missed  \in [Worker -> SUBSET (Ref \cup Wallet)]

Init ==
  /\ topup   = [r \in Ref |-> NoRow]
  /\ moves   = [r \in Ref |-> 0]
  /\ frozen  = {}
  /\ lines   = {}
  /\ calling = {}
  /\ acked   = {}
  /\ job     = [s \in Worker |-> Idle]
  /\ snap    = [s \in Worker |-> Nothing]
  /\ missed  = [s \in Worker |-> {}]

-----------------------------------------------------------------------------
Begin(s, j) ==
  /\ job[s] = Idle
  /\ job'    = [job EXCEPT ![s] = j]
  /\ snap'   = [snap EXCEPT ![s] = Sees(j)]
  /\ missed' = [missed EXCEPT ![s] = {}]
  /\ UNCHANGED <<topup, moves, frozen, lines, calling, acked>>

\* The worker is free again; the others now miss what it wrote.
End(s, wrote) ==
  /\ job'    = [job EXCEPT ![s] = Idle]
  /\ snap'   = [snap EXCEPT ![s] = Nothing]
  /\ missed' = [z \in Worker |->
                  IF z = s THEN {}
                  ELSE IF job[z] = Idle THEN missed[z] ELSE missed[z] \cup wrote]

\* Mutant: no unique index, no row lock.
CanCredit_NoConflict(s, r) == WalletOf[r] \notin snap[s].frozen

\* _atomic_credit gets through: the wallet is active in the snapshot, its row lock
\* reports no conflict, and the top-up row can be inserted or updated.
CanCredit(s, r) ==
  /\ WalletOf[r] \notin snap[s].frozen
  /\ {r, WalletOf[r]} \cap missed[s] = {}

Credited(source) == [state |-> "credited", source |-> source, linked |-> TRUE]

\* action_credit_wallet on a set of top-ups, and what it writes.
Credit(s, refs, source) ==
  /\ \A r \in refs : CanCredit(s, r)
  /\ topup' = [r \in Ref |-> IF r \in refs THEN Credited(source[r]) ELSE topup[r]]
  /\ moves' = [r \in Ref |-> IF r \in refs THEN moves[r] + 1 ELSE moves[r]]
  /\ End(s, refs \cup {WalletOf[r] : r \in refs})

\* The answer of the controller reaches the bank, or is lost after the commit.
Answer(p) ==
  \/ calling' = calling \ {p} /\ acked' = acked \cup {p}
  \/ UNCHANGED <<calling, acked>>

NoRowSeen(s, r) == snap[s].topup[r].state = "none"

\* Mutant: a credit that raises is swallowed and the bank is told ok.
PaymentCallback_Swallows(s) ==
  /\ job[s].kind = "payment"
  /\ LET p == job[s].of
         r == RefOf[p]
     IN  /\ Answer(p)
         /\ IF ~NoRowSeen(s, r) \/ ~CanCredit(s, r)
              THEN End(s, {}) /\ UNCHANGED <<topup, moves>>
              ELSE Credit(s, {r}, [x \in Ref |-> "h2h_callback"])
  /\ UNCHANGED <<frozen, lines>>

\* payment: a known reference is acknowledged as a duplicate, whatever its state;
\* otherwise the top-up is created as settled and credited at once.
PaymentCallback(s) ==
  /\ job[s].kind = "payment"
  /\ LET p == job[s].of
         r == RefOf[p]
     IN  /\ Answer(p)
         /\ \/ ~NoRowSeen(s, r) /\ End(s, {}) /\ UNCHANGED <<topup, moves>>
            \/ NoRowSeen(s, r) /\ Credit(s, {r}, [x \in Ref |-> "h2h_callback"])
  /\ UNCHANGED <<frozen, lines>>

\* _apply_va_match on every open statement line, in one transaction: a reference
\* that has no top-up gets one.  A wallet that cannot be credited raises out of the
\* loop, and no line is applied.
Reconcile(s) ==
  /\ job[s].kind = "sweep"
  /\ LET refs == {LineRef[p] : p \in snap[s].lines}
     IN  Credit(s, {r \in refs : NoRowSeen(s, r)}, [r \in Ref |-> "csv_import"])
  /\ UNCHANGED <<frozen, lines, calling, acked>>

\* Mutant: the guard asks for the wallet move only, not for the state.
CreditByHand_Linked(s) ==
  /\ job[s].kind = "credit"
  /\ LET r == job[s].of
     IN  IF snap[s].topup[r].linked
           THEN End(s, {}) /\ UNCHANGED <<topup, moves>>
           ELSE Credit(s, {r}, [x \in Ref |-> snap[s].topup[x].source])
  /\ UNCHANGED <<frozen, lines, calling, acked>>

\* The button Credit Wallet.  A top-up with a wallet move is skipped, one that is
\* neither received nor settled raises.
CreditByHand(s) ==
  /\ job[s].kind = "credit"
  /\ LET r == job[s].of
     IN  \/ /\ snap[s].topup[r].linked
            /\ End(s, {})
            /\ UNCHANGED <<topup, moves>>
         \/ /\ ~snap[s].topup[r].linked
            /\ snap[s].topup[r].state \in {"received", "settled"}
            /\ Credit(s, {r}, [x \in Ref |-> snap[s].topup[x].source])
  /\ UNCHANGED <<frozen, lines, calling, acked>>

\* action_reject: not after a credit; the UPDATE fails on a row that changed.
Reject(s) ==
  /\ job[s].kind = "reject"
  /\ LET r == job[s].of
     IN  /\ snap[s].topup[r].state # "credited"
         /\ r \notin missed[s]
         /\ topup' = [topup EXCEPT ![r].state = "rejected"]
         /\ End(s, {r})
  /\ UNCHANGED <<moves, frozen, lines, calling, acked>>

\* UserError, unique violation, serialization failure or crash.  The nonce of the
\* callback is spent: a retry by the framework is refused, the bank must call again.
Abort(s) ==
  /\ job[s] # Idle
  /\ End(s, {})
  /\ UNCHANGED <<topup, moves, frozen, lines, calling, acked>>

\* An operator saves a new top-up; the unique index refuses a known reference.
EnterByHand(r) ==
  /\ topup[r].state = "none"
  /\ topup'  = [topup EXCEPT ![r] = [state |-> "received", source |-> "manual_post",
                                     linked |-> FALSE]]
  /\ missed' = [s \in Worker |-> IF job[s] = Idle THEN missed[s] ELSE missed[s] \cup {r}]
  /\ UNCHANGED <<moves, frozen, lines, calling, acked, job, snap>>

\* Ops freeze or thaw a wallet: an UPDATE of its row.
Freeze(w) ==
  /\ frozen' = IF w \in frozen THEN frozen \ {w} ELSE frozen \cup {w}
  /\ missed' = [s \in Worker |-> IF job[s] = Idle THEN missed[s] ELSE missed[s] \cup {w}]
  /\ UNCHANGED <<topup, moves, lines, calling, acked, job, snap>>

\* The bank: it notifies a payment (again, as long as it has heard no ok), and the
\* statement is imported some day.
Notify(p) ==
  /\ p \notin calling
  /\ calling' = calling \cup {p}
  /\ UNCHANGED <<topup, moves, frozen, lines, acked, job, snap, missed>>

ImportLine(p) ==
  /\ p \notin lines
  /\ lines' = lines \cup {p}
  /\ UNCHANGED <<topup, moves, frozen, calling, acked, job, snap, missed>>

Next ==
  \/ \E s \in Worker :
       \/ \E p \in calling : Begin(s, [kind |-> "payment", of |-> p])
       \/ \E r \in Ref : /\ topup[r].state # "none"
                         /\ \/ Begin(s, [kind |-> "credit", of |-> r])
                            \/ Begin(s, [kind |-> "reject", of |-> r])
       \/ Begin(s, [kind |-> "sweep"])
       \/ PaymentCallback(s) \/ Reconcile(s) \/ CreditByHand(s) \/ Reject(s)
       \/ Abort(s)
  \/ \E r \in Ref : EnterByHand(r)
  \/ \E w \in Wallet : Freeze(w)
  \/ \E p \in Payment : Notify(p) \/ ImportLine(p)

Spec == Init /\ [][Next]_vars

-----------------------------------------------------------------------------
\* unique(bank_ref) is "the authoritative idempotency line for the actual money
\* movement": however callbacks, statement lines and buttons interleave, a bank
\* reference has moved money exactly once if its top-up is credited, and never
\* otherwise.
CreditedOnce ==
  \A r \in Ref : moves[r] = IF topup[r].state = "credited" THEN 1 ELSE 0

Booked(t) ==
  \/ t.state = "credited"
  \/ t.source = "manual_post" /\ t.state \in {"received", "rejected"}

\* "Idempotent: duplicate callback -> credit already done, return the ack": when the
\* bank has an ok for a payment, the payment is in the wallet, or an operator had
\* entered that reference by hand before and has still to credit it, or rejected it.
AckedIsBooked == \A p \in acked : Booked(topup[RefOf[p]])

\* What has been decided stays: a rejected top-up is never credited, a credited one
\* never rejected, whichever button was pressed first.
DecisionStands ==
  [][\A r \in Ref : topup[r].state \in {"credited", "rejected"} =>
       topup'[r].state = topup[r].state /\ moves'[r] = moves[r]]_vars

-----------------------------------------------------------------------------
(***************************************************************************)
(* The inductive invariant: a row a worker has not missed is what it       *)
(* reads, a row links a move exactly when it is credited, and only rows    *)
(* entered by hand are ever left uncredited.                               *)
(***************************************************************************)
LinkedIsCredited == \A r \in Ref : topup[r].linked <=> topup[r].state = "credited"

RowsAreBooked == \A r \in Ref : topup[r].state # "none" => Booked(topup[r])

ReadsAreFresh ==
  \A s \in Worker : \A r \in Reads(job[s], snap[s].lines) :
    r \notin missed[s] => snap[s].topup[r] = topup[r]

SeenExists ==
  \A s \in Worker, r \in Ref :
    snap[s].topup[r].state # "none" => topup[r].state # "none"

RejectedExists ==
  \A s \in Worker : job[s].kind = "reject" => topup[job[s].of].state # "none"

AckedExists == \A p \in acked : topup[RefOf[p]].state # "none"

IInv ==
  /\ TypeOK
  /\ CreditedOnce
  /\ LinkedIsCredited
  /\ RowsAreBooked
  /\ ReadsAreFresh
  /\ SeenExists
  /\ RejectedExists
  /\ AckedExists
=============================================================================
