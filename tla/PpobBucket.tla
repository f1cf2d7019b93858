----------------------------- MODULE PpobBucket -----------------------------
(***************************************************************************)
(* The provider deposit bucket of custom_ppob_provider.  Sales debit it    *)
(* and refunds credit it under a row lock; deposits reach it through a     *)
(* pair of vendor bills (a 100% down payment and its settlement,           *)
(* "pelunasan") that the topup wizard creates and posts, the posting hook  *)
(* of account.move crediting the bucket for the bill that carries the      *)
(* deposit.  Bills are reset, posted again and deleted; once the down      *)
(* payment its log row links to is deleted, a request is applied again,    *)
(* with another pair.  Sessions are database transactions, as in           *)
(* PpobWallet; the rows they contend for are the buckets, the log rows     *)
(* with their unique request_uid, and the pairs of bills.                  *)
(***************************************************************************)
EXTENDS Integers, Sequences, FiniteSets

CONSTANTS
  Bucket,      \* bucket rows
  Request,     \* values of request_uid
  Session,     \* concurrent requests and crons
  NoSession,   \* holder of a row nobody has locked
  NoBill,      \* the bill of a move no bill made
  Amount,      \* amounts of usages and refunds
  Dpp,         \* tax bases of deposits
  Discount,    \* vendor discounts that reduce the inventory (discount_handling)
  MaxPairs,    \* bound: pairs of bills of one request
  MaxMoves     \* bound: moves per bucket

\* The pairs of bills of a request, in the order they are made.
Pair == Request \X (1..MaxPairs)

ASSUME BucketAssumption   == Bucket # {} /\ IsFiniteSet(Request)
ASSUME RowAssumption      == /\ Bucket \cap Request = {} /\ Bucket \cap Pair = {}
                             /\ Request \cap Pair = {}
ASSUME SessionAssumption  == NoSession \notin Session
ASSUME AmountAssumption   == Amount \subseteq Nat \ {0}
ASSUME DppAssumption      == Dpp \subseteq Nat \ {0}
ASSUME DiscountAssumption == Discount \subseteq Nat
ASSUME BillAssumption     == NoBill \notin Pair \X {"dp_100", "pelunasan"}
ASSUME LengthAssumption   == MaxMoves \in Nat /\ MaxPairs \in Nat

VARIABLES
  db,       \* the committed database
  holder,   \* which session holds the lock of each row
  open,     \* sessions whose database transaction is open
  view,     \* the database as a session sees it: its snapshot and its own updates
  draft,    \* bucket moves a session has inserted and not committed
  missed    \* rows changed by others since a session took its snapshot

bucketVars == <<db, holder, open, view, draft, missed>>

-----------------------------------------------------------------------------
Role   == {"dp_100", "pelunasan"}
Timing == {"dp_post", "pelunasan_post"}
Bill   == Pair \X Role
Row    == Bucket \cup Request \cup Pair

Move == [amount: Int, after: Int, bill: Bill \cup {NoBill}]

\* A pair of bills: the timing it was built for, its bucket, what the lines of the bill
\* that carries the deposit add up to on the bucket's account, and the bills that are
\* posted or deleted.
Topup == [made: BOOLEAN, timing: Timing, bucket: Bucket, deposit: Int,
          posted: SUBSET Role, gone: SUBSET Role]
NoTopup == [made |-> FALSE, timing |-> "dp_post", bucket |-> CHOOSE b \in Bucket : TRUE,
            deposit |-> 0, posted |-> {}, gone |-> {}]

\* The tables of this component; moves are custom.ppob.provider.bucket.move rows,
\* oldest first, timing is the provider's topup_dp_timing.
Database == [balance: [Bucket -> Int], moves: [Bucket -> Seq(Move)],
             topup: [Pair -> Topup], timing: Timing]

NewDatabase == [balance |-> [b \in Bucket |-> 0], moves |-> [b \in Bucket |-> << >>],
                topup |-> [p \in Pair |-> NoTopup], timing |-> "dp_post"]

NoDrafts == [b \in Bucket |-> << >>]

BucketTypeOK ==
  /\ db \in Database
  /\ holder \in [Row -> Session \cup {NoSession}]
  /\ open \in SUBSET Session
  /\ view \in [Session -> Database]
  /\ draft \in [Session -> [Bucket -> Seq(Move)]]
  /\ missed \in [Session -> SUBSET Row]

BucketInit ==
  /\ db = NewDatabase
  /\ holder = [x \in Row |-> NoSession]
  /\ open = {}
  /\ view = [s \in Session |-> NewDatabase]
  /\ draft = [s \in Session |-> NoDrafts]
  /\ missed = [s \in Session |-> {}]

-----------------------------------------------------------------------------
Begin(s) ==
  /\ s \notin open
  /\ open' = open \cup {s}
  /\ view' = [view EXCEPT ![s] = db]
  /\ missed' = [missed EXCEPT ![s] = {}]
  /\ UNCHANGED <<db, holder, draft>>

\* Mutant: locks that report no conflict with what committed since the snapshot.
Lock_NoConflict(s, rows) ==
  /\ \A x \in rows : holder[x] \in {s, NoSession}
  /\ holder' = [x \in Row |-> IF x \in rows THEN s ELSE holder[x]]

\* SELECT ... FOR UPDATE on a bucket, UPDATE or DELETE of a bill, INSERT or UPDATE of a
\* log row: each waits for the row's holder and fails if it changed since the snapshot.
Lock(s, rows) ==
  /\ \A x \in rows : holder[x] \in {s, NoSession} /\ x \notin missed[s]
  /\ holder' = [x \in Row |-> IF x \in rows THEN s ELSE holder[x]]

\* The view and the drafts of session s after a move of amount on bucket b.
Posting(s, b, amount, bill) ==
  LET after == view[s].balance[b] + amount
  IN  [room  |-> Len(db.moves[b]) + Len(draft[s][b]) < MaxMoves,
       view  |-> [view[s] EXCEPT !.balance[b] = after],
       draft |-> [draft[s] EXCEPT ![b] =
                    Append(@, [amount |-> amount, after |-> after, bill |-> bill])]]

PostMove(s, b, amount) ==
  LET post == Posting(s, b, amount, NoBill)
  IN  /\ post.room
      /\ view'  = [view EXCEPT ![s] = post.view]
      /\ draft' = [draft EXCEPT ![s] = post.draft]
      /\ UNCHANGED <<db, open, missed>>

\* Mutant: the test lets one unit too many through.
AtomicDebit_OffByOne(s, b, amount) ==
  /\ s \in open
  /\ Lock(s, {b})
  /\ amount <= view[s].balance[b] + 1
  /\ PostMove(s, b, -amount)

AtomicDebit(s, b, amount) ==
  /\ s \in open
  /\ Lock(s, {b})
  /\ amount <= view[s].balance[b]
  /\ PostMove(s, b, -amount)

\* A sale refund; deposits come through CreditFromMove.
AtomicCredit(s, b, amount) ==
  /\ s \in open
  /\ Lock(s, {b})
  /\ PostMove(s, b, amount)

\* The sum of the amounts of moves.
Total(moves) ==
  LET sum[i \in 0..Len(moves)] == IF i = 0 THEN 0 ELSE sum[i - 1] + moves[i].amount
  IN  sum[Len(moves)]

\* Mutant: only the moves other transactions committed are added up.
Recompute_Committed(s, b) ==
  /\ s \in open
  /\ Lock(s, {b})
  /\ view' = [view EXCEPT ![s].balance[b] = Total(view[s].moves[b])]
  /\ UNCHANGED <<db, open, draft, missed>>

\* action_recompute_balance reads the moves without the lock, then UPDATEs the row.
Recompute(s, b) ==
  /\ s \in open
  /\ Lock(s, {b})
  /\ view' = [view EXCEPT ![s].balance[b] = Total(view[s].moves[b] \o draft[s][b])]
  /\ UNCHANGED <<db, open, draft, missed>>
-----------------------------------------------------------------------------
\* The bill that carries the deposit.
CreditRole(timing) == IF timing = "dp_post" THEN "dp_100" ELSE "pelunasan"

\* Mutant: a settlement bill built for dp_post without its reversal line.
BucketDelta_NoReversal(topup, role) == IF role = "pelunasan" \/ topup.timing = "dp_post"
                                       THEN topup.deposit ELSE 0

\* What the lines of a bill add up to on the bucket account: the deposit sits on the
\* bill its timing names, the other bill nets to zero there.
BucketDelta(topup, role) ==
  IF role = CreditRole(topup.timing) THEN topup.deposit ELSE 0

\* The deposit of a pair built for timing: a discount that reduces the inventory is a
\* line of the down payment, on the account the deposit is on.
DepositFor(timing, dpp, discount) == IF timing = "dp_post" THEN dpp - discount ELSE dpp

\* Mutant: the credit is not tied to the bill that caused it.
AlreadyCredited_Never(s, b, bill) == FALSE

\* _atomic_credit_from_move searches for a move of the bill, before it locks.
AlreadyCredited(s, b, bill) ==
  \E i \in DOMAIN (view[s].moves[b] \o draft[s][b]) :
    (view[s].moves[b] \o draft[s][b])[i].bill = bill

\* The provider's current setting says which role credits; the bill's own lines, how
\* much.  A delta that is not positive is skipped.
HookCredits(s, p, topup, role) ==
  /\ role = CreditRole(view[s].timing)
  /\ BucketDelta(topup, role) > 0
  /\ ~AlreadyCredited(s, topup.bucket, <<p, role>>)

\* _post of one or both bills of pair p: topup is the pair afterwards, roles the bills
\* being posted, rows what else is written.
PostBills(s, p, topup, roles, rows) ==
  LET b == topup.bucket
      credit == {role \in roles : HookCredits(s, p, topup, role)}
  IN  \/ /\ credit = {}
         /\ Lock(s, {p} \cup rows)
         /\ view' = [view EXCEPT ![s].topup[p] = topup]
         /\ UNCHANGED <<db, open, draft, missed>>
      \/ \E role \in credit :
           LET post == Posting(s, b, BucketDelta(topup, role), <<p, role>>)
           IN  /\ Lock(s, {p, b} \cup rows)
               /\ post.room
               /\ view'  = [view EXCEPT ![s] = [post.view EXCEPT !.topup[p] = topup]]
               /\ draft' = [draft EXCEPT ![s] = post.draft]
               /\ UNCHANGED <<db, open, missed>>

\* The pair whose down payment the log row of its request links to, while it is there.
Stands(topup) == topup.made /\ "dp_100" \notin topup.gone

\* The wizard's action_apply: a request_uid whose log row links to a down payment returns
\* its pair.  Otherwise the log row is created, or found and rewritten, and down payment
\* and settlement are created for it and both posted.
ApplyTopup(s, r, b, dpp, discount) ==
  LET made == {g \in 1..MaxPairs : view[s].topup[<<r, g>>].made}
      timing == view[s].timing
  IN  /\ s \in open
      /\ \A g \in made : ~Stands(view[s].topup[<<r, g>>])
      /\ \E g \in (1..MaxPairs) \ made :
           /\ \A h \in 1..MaxPairs : h < g => h \in made
           /\ PostBills(s, <<r, g>>,
                        [made |-> TRUE, timing |-> timing, bucket |-> b, posted |-> Role,
                         deposit |-> DepositFor(timing, dpp, discount), gone |-> {}],
                        Role, {r})

\* An accountant resets a posted bill to draft; no hook of this code runs.
ResetBill(s, p, role) ==
  /\ s \in open
  /\ role \in view[s].topup[p].posted
  /\ Lock(s, {p})
  /\ view' = [view EXCEPT ![s].topup[p].posted = @ \ {role}]
  /\ UNCHANGED <<db, open, draft, missed>>

\* ... and posts it again, the provider's timing possibly changed since.
RepostBill(s, p, role) ==
  /\ s \in open
  /\ view[s].topup[p].made
  /\ role \notin view[s].topup[p].posted \cup view[s].topup[p].gone
  /\ PostBills(s, p, [view[s].topup[p] EXCEPT !.posted = @ \cup {role}], {role}, {})

\* ... or deletes it, unless a bucket move refers to it (restrict).  The log row's link to
\* its down payment is set to null.
DeleteBill(s, p, role) ==
  /\ s \in open
  /\ view[s].topup[p].made
  /\ role \notin view[s].topup[p].posted \cup view[s].topup[p].gone
  /\ ~AlreadyCredited(s, view[s].topup[p].bucket, <<p, role>>)
  /\ Lock(s, IF role = "dp_100" THEN {p, p[1]} ELSE {p})
  /\ view' = [view EXCEPT ![s].topup[p].gone = @ \cup {role}]
  /\ UNCHANGED <<db, open, draft, missed>>

\* The provider form: topup_dp_timing is free to change at any time.
SetTiming(timing) ==
  /\ db.timing # timing
  /\ db' = [db EXCEPT !.timing = timing]
  /\ UNCHANGED <<holder, open, view, draft, missed>>
-----------------------------------------------------------------------------
Held(s) == {x \in Row : holder[x] = s}

Release(s) ==
  /\ open'   = open \ {s}
  /\ holder' = [x \in Row |-> IF holder[x] = s THEN NoSession ELSE holder[x]]
  /\ view'   = [view EXCEPT ![s] = NewDatabase]
  /\ draft'  = [draft EXCEPT ![s] = NoDrafts]

Commit(s) ==
  /\ s \in open
  /\ db' = [db EXCEPT
       !.balance = [b \in Bucket |-> IF holder[b] = s THEN view[s].balance[b] ELSE @[b]],
       !.moves   = [b \in Bucket |-> @[b] \o draft[s][b]],
       !.topup   = [p \in Pair |-> IF holder[p] = s THEN view[s].topup[p] ELSE @[p]]]
  /\ missed' = [z \in Session |-> IF z \in open \ {s} THEN missed[z] \cup Held(s) ELSE {}]
  /\ Release(s)

Rollback(s) ==
  /\ s \in open
  /\ missed' = [missed EXCEPT ![s] = {}]
  /\ Release(s)
  /\ UNCHANGED db

BucketNext ==
  \/ \E s \in Session : Begin(s) \/ Commit(s) \/ Rollback(s)
  \/ \E s \in Session, b \in Bucket, amount \in Amount :
       AtomicDebit(s, b, amount) \/ AtomicCredit(s, b, amount)
  \/ \E s \in Session, b \in Bucket : Recompute(s, b)
  \/ \E s \in Session, r \in Request, b \in Bucket, dpp \in Dpp, discount \in Discount :
       ApplyTopup(s, r, b, dpp, discount)
  \/ \E s \in Session, p \in Pair, role \in Role :
       ResetBill(s, p, role) \/ RepostBill(s, p, role) \/ DeleteBill(s, p, role)
  \/ \E timing \in Timing : SetTiming(timing)

BucketSpec == BucketInit /\ [][BucketNext]_bucketVars
-----------------------------------------------------------------------------
Sub == INSTANCE Ledger WITH
         Account <- Bucket,
         balance <- db.balance,
         entries <- [b \in Bucket |-> [i \in DOMAIN db.moves[b] |->
                       [amount |-> db.moves[b][i].amount, after |-> db.moves[b][i].after]]]

\* The bucket implements the abstract sub-ledger: however debits, refunds, deposits
\* and recomputations of the balance interleave, no update is lost and
\* action_recompute_balance never changes a balance.
ImplementsLedger == Sub!LedgerSpec

\* "Bucket balance cannot be negative": the constraint that says so is not reached by
\* the raw UPDATEs; what keeps it is the test under the lock.
NeverNegative ==
  \A b \in Bucket : /\ db.balance[b] >= 0
                    /\ \A i \in DOMAIN db.moves[b] : db.moves[b][i].after >= 0

CreditsOf(p) ==
  UNION {{b} \X {i \in DOMAIN db.moves[b] : db.moves[b][i].bill \in {p} \X Role} : b \in Bucket}

\* Where a request has a later pair, the down payment of each earlier one was deleted.
InTurn(topup) ==
  \A r \in Request, g, h \in 1..MaxPairs :
    g < h /\ topup[<<r, h>>].made =>
      topup[<<r, g>>].made /\ "dp_100" \in topup[<<r, g>>].gone

\* A committed pair of bills has credited its own bucket exactly once, with its deposit if
\* that is positive, whatever bills were reset, posted again or deleted and however the
\* timing was changed; and one request_uid has a second pair only after the down payment
\* of the first, which had itself credited nothing, was deleted.
CreditedOnce ==
  /\ \A p \in Pair : LET topup == db.topup[p] IN
       IF topup.made /\ topup.deposit > 0
       THEN \E k \in CreditsOf(p) : /\ CreditsOf(p) = {k}
                                    /\ k[1] = topup.bucket
                                    /\ db.moves[k[1]][k[2]].amount = topup.deposit
                                    /\ db.moves[k[1]][k[2]].bill \notin {p} \X topup.gone
       ELSE CreditsOf(p) = {}
  /\ InTurn(db.topup)

\* What the posted bills of pair p left on the account of bucket b.
BilledTo(b) ==
  [p \in Pair |->
     LET topup == db.topup[p]
         line(role) == IF role \in topup.posted THEN BucketDelta(topup, role) ELSE 0
     IN  IF topup.bucket = b THEN line("dp_100") + line("pelunasan") ELSE 0]

\* ... and what the hook has skipped of it.
Skipped(b) == [p \in Pair |-> IF BilledTo(b)[p] < 0 THEN -BilledTo(b)[p] ELSE 0]

\* The sum of f over the pairs of S.
SumOver(f, S) ==
  LET sum[T \in SUBSET S] ==
        IF T = {} THEN 0
        ELSE LET p == CHOOSE p \in T : TRUE IN f[p] + sum[T \ {p}]
  IN  sum[S]

\* The moves of usages and refunds, whose entries are posted with them.
Usage(moves) ==
  [i \in DOMAIN moves |->
     IF moves[i].bill = NoBill THEN moves[i] ELSE [moves[i] EXCEPT !.amount = 0]]

\* The general ledger's balance on the account of bucket b.
GeneralLedger(b) == SumOver(BilledTo(b), Pair) + Total(Usage(db.moves[b]))

\* "This guarantees subledger == GL": once every bill of a bucket is posted that was not
\* deleted, the bucket's balance is the balance of its account in the general ledger,
\* plus what down payments with a negative delta took off the account alone.
TiesOut ==
  \A b \in Bucket :
    (\A p \in Pair : db.topup[p].made /\ db.topup[p].bucket = b =>
                       Role \subseteq db.topup[p].posted \cup db.topup[p].gone)
      => db.balance[b] = GeneralLedger(b) + SumOver(Skipped(b), Pair)
-----------------------------------------------------------------------------
(***************************************************************************)
(* The inductive invariant.  A session that holds a bucket read it at its  *)
(* committed balance, and its moves chain onto the committed ones; one     *)
(* that holds a pair of bills either found it made, and has credited       *)
(* nothing for it, or made it, and has credited it once.  What has not     *)
(* changed since a session's snapshot, and is not locked by it, is what    *)
(* the session sees.  Whether a pair is made and its down payment deleted  *)
(* changes only under the lock of its request's log row.                   *)
(***************************************************************************)
BalanceIsJournal ==
  \A b \in Bucket : /\ Sub!Chained(0, db.moves[b])
                    /\ db.balance[b] = Sub!Closing(0, db.moves[b])

\* The moves on bucket b, in the journals m, that a bill of pair p made.
Credits(m, b, p) == {i \in DOMAIN m[b] : m[b][i].bill \in {p} \X Role}

None(m, p) == \A b \in Bucket : Credits(m, b, p) = {}

\* The journals m hold the one credit that pair p is due, or none if none is due.
Once(m, p, topup) ==
  IF topup.made /\ topup.deposit > 0
  THEN /\ \A b \in Bucket : b # topup.bucket => Credits(m, b, p) = {}
       /\ \E i \in Credits(m, topup.bucket, p) :
            /\ Credits(m, topup.bucket, p) = {i}
            /\ m[topup.bucket][i].amount = topup.deposit
            /\ m[topup.bucket][i].bill = <<p, CreditRole(topup.timing)>>
  ELSE None(m, p)

\* A pair nobody has made has no bills; a deleted bill is not posted; a bill that has
\* credited its bucket is not deleted.
Sound(topup) ==
  /\ ~topup.made => topup.posted = {} /\ topup.gone = {}
  /\ topup.posted \cap topup.gone = {}
  /\ topup.deposit > 0 => CreditRole(topup.timing) \notin topup.gone

SamePair(t, u) ==
  t.made = u.made /\ t.timing = u.timing /\ t.bucket = u.bucket /\ t.deposit = u.deposit

SameStage(t, u) == t.made = u.made /\ ("dp_100" \in t.gone <=> "dp_100" \in u.gone)

\* The committed database.
CommittedOK ==
  /\ BalanceIsJournal
  /\ NeverNegative
  /\ \A p \in Pair : Once(db.moves, p, db.topup[p]) /\ Sound(db.topup[p])
  /\ InTurn(db.topup)

\* What an open session sees of the buckets and has posted to them.
SeesBuckets(s) ==
  \A b \in Bucket :
    /\ holder[b] = s =>
         /\ b \notin missed[s]
         /\ Sub!Chained(db.balance[b], draft[s][b])
         /\ view[s].balance[b] = Sub!Closing(db.balance[b], draft[s][b])
    /\ holder[b] # s => draft[s][b] = << >>
    /\ b \notin missed[s] =>
         /\ view[s].moves[b] = db.moves[b]
         /\ holder[b] # s => view[s].balance[b] = db.balance[b]
    /\ view[s].balance[b] >= 0
    /\ \A i \in DOMAIN draft[s][b] : draft[s][b][i].after >= 0

\* What it sees of the pairs of bills and has credited for them.
SeesPairs(s) ==
  \A p \in Pair :
    /\ Sound(view[s].topup[p])
    /\ IF view[s].topup[p].made
       THEN \/ Once(view[s].moves, p, view[s].topup[p])
            \/ Once(draft[s], p, view[s].topup[p])
       ELSE None(view[s].moves, p)
    /\ holder[p] = s =>
         /\ p \notin missed[s]
         /\ view[s].topup[p].made
         /\ IF db.topup[p].made
            THEN SamePair(view[s].topup[p], db.topup[p]) /\ None(draft[s], p)
            ELSE Once(draft[s], p, view[s].topup[p])
    /\ holder[p] # s =>
         /\ None(draft[s], p)
         /\ p \notin missed[s] => view[s].topup[p] = db.topup[p]

\* What it sees of the log rows.
SeesRequests(s) ==
  /\ InTurn(view[s].topup)
  /\ \A p \in Pair :
       /\ holder[p[1]] = s => p[1] \notin missed[s]
       /\ (IF holder[p] = s THEN holder[p[1]] # s ELSE p[1] \notin missed[s])
            => SameStage(view[s].topup[p], db.topup[p])

BucketInv ==
  /\ BucketTypeOK
  /\ CommittedOK
  /\ \A x \in Row : holder[x] \in open \cup {NoSession}
  /\ \A s \in Session \ open, b \in Bucket : draft[s][b] = << >>
  /\ \A s \in open : SeesBuckets(s) /\ SeesPairs(s) /\ SeesRequests(s)
=============================================================================
