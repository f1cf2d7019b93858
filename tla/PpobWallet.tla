----------------------------- MODULE PpobWallet -----------------------------
(***************************************************************************)
(* The mitra wallet of custom_ppob_wallet: the row-locked primitives       *)
(* _atomic_debit, _atomic_credit and _atomic_credit_with_tax, called by    *)
(* any number of concurrent requests and crons (Session), each of which is *)
(* one PostgreSQL transaction that may call them several times, on several *)
(* wallets, before it commits or rolls back.                               *)
(*                                                                         *)
(* Odoo opens every cursor in REPEATABLE READ.  A session reads the        *)
(* snapshot it took when it began, plus its own writes; SELECT ... FOR     *)
(* UPDATE waits for the row's holder and then fails if another session has *)
(* committed a change to that row since the snapshot.  The failure, a      *)
(* UserError and a crash all end in Rollback.                              *)
(***************************************************************************)
EXTENDS Integers, Sequences

CONSTANTS
  Wallet,      \* wallet rows
  Session,     \* concurrent requests and crons
  NoSession,   \* holder of a row nobody has locked
  Amount,      \* amounts a caller may pass, in minor units
  Limit,       \* credit limits an administrator may set
  TaxRate,     \* percent of the price-included output tax
  MaxMoves     \* bound: moves per wallet

ASSUME SessionAssumption == NoSession \notin Session
ASSUME AmountAssumption  == Amount \subseteq Nat \ {0}
ASSUME LimitAssumption   == Limit \subseteq Nat /\ 0 \in Limit
ASSUME TaxAssumption     == TaxRate \in Nat
ASSUME BoundAssumption   == MaxMoves \in Nat

VARIABLES
  wallet,   \* committed wallet rows
  moves,    \* committed custom.ppob.wallet.move rows, oldest first
  holder,   \* which session holds the lock of each row
  open,     \* sessions whose database transaction is open
  view,     \* wallet rows as a session sees them: its snapshot and its own updates
  draft,    \* moves a session has inserted and not committed
  missed    \* rows changed by others since a session took its snapshot

vars == <<wallet, moves, holder, open, view, draft, missed>>

-----------------------------------------------------------------------------
WalletRow == [balance: Int, limit: Limit, state: {"active", "frozen"}]
Move      == [amount: Int, after: Int]

NewWallet == [balance |-> 0, limit |-> 0, state |-> "active"]

TypeOK ==
  /\ wallet \in [Wallet -> WalletRow]
  /\ moves  \in [Wallet -> Seq(Move)]
  /\ holder \in [Wallet -> Session \cup {NoSession}]
  /\ open   \in SUBSET Session
  /\ view   \in [Session -> [Wallet -> WalletRow]]
  /\ draft  \in [Session -> [Wallet -> Seq(Move)]]
  /\ missed \in [Session -> SUBSET Wallet]

Init ==
  /\ wallet = [w \in Wallet |-> NewWallet]
  /\ moves  = [w \in Wallet |-> << >>]
  /\ holder = [w \in Wallet |-> NoSession]
  /\ open   = {}
  /\ view   = [s \in Session |-> [w \in Wallet |-> NewWallet]]
  /\ draft  = [s \in Session |-> [w \in Wallet |-> << >>]]
  /\ missed = [s \in Session |-> {}]

-----------------------------------------------------------------------------
\* The first statement of a request takes its snapshot.
Begin(s) ==
  /\ s \notin open
  /\ open'   = open \cup {s}
  /\ view'   = [view EXCEPT ![s] = wallet]
  /\ missed' = [missed EXCEPT ![s] = {}]
  /\ UNCHANGED <<wallet, moves, holder, draft>>

\* Mutant: a lock that reports no conflict with what committed since the snapshot.
Lock_NoConflict(s, w) ==
  /\ holder[w] \in {s, NoSession}
  /\ holder' = [holder EXCEPT ![w] = s]

\* _lock: SELECT ... FOR UPDATE returns, so the row is free or already ours and
\* nobody has changed it since the snapshot.
Lock(s, w) ==
  /\ holder[w] \in {s, NoSession}
  /\ w \notin missed[s]
  /\ holder' = [holder EXCEPT ![w] = s]

\* Mutant: balance_after records the balance before the move.
PostMove_Before(s, w, amount) ==
  /\ Len(moves[w]) + Len(draft[s][w]) < MaxMoves
  /\ view'  = [view EXCEPT ![s][w].balance = @ + amount]
  /\ draft' = [draft EXCEPT ![s][w] =
                 Append(@, [amount |-> amount, after |-> view[s][w].balance])]

\* Insert the sub-ledger line and UPDATE the balance from the one read under lock.
PostMove(s, w, amount) ==
  LET after == view[s][w].balance + amount
  IN  /\ Len(moves[w]) + Len(draft[s][w]) < MaxMoves
      /\ view'  = [view EXCEPT ![s][w].balance = after]
      /\ draft' = [draft EXCEPT ![s][w] = Append(@, [amount |-> amount, after |-> after])]

\* Mutant: the ceiling lets one unit too many through.
AtomicDebit_OffByOne(s, w, amount) ==
  /\ s \in open
  /\ view[s][w].state = "active"
  /\ Lock(s, w)
  /\ amount - 1 <= view[s][w].balance + view[s][w].limit
  /\ PostMove(s, w, -amount)
  /\ UNCHANGED <<wallet, moves, open, missed>>

AtomicDebit(s, w, amount) ==
  /\ s \in open
  /\ view[s][w].state = "active"
  /\ Lock(s, w)
  /\ amount <= view[s][w].balance + view[s][w].limit
  /\ PostMove(s, w, -amount)
  /\ UNCHANGED <<wallet, moves, open, missed>>

\* Mutant: a credit that does not ask whether the wallet is frozen.
AtomicCredit_AnyState(s, w, amount) ==
  /\ s \in open
  /\ Lock(s, w)
  /\ PostMove(s, w, amount)
  /\ UNCHANGED <<wallet, moves, open, missed>>

AtomicCredit(s, w, amount) ==
  /\ s \in open
  /\ view[s][w].state = "active"
  /\ Lock(s, w)
  /\ PostMove(s, w, amount)
  /\ UNCHANGED <<wallet, moves, open, missed>>

\* The tax base of a tax-inclusive amount, round(gross / (1 + rate)); the rest is PPN.
Dpp(gross) == (200 * gross + 100 + TaxRate) \div (2 * (100 + TaxRate))

\* Only the base reaches the wallet; a zero rate falls back to _atomic_credit.
AtomicCreditWithTax(s, w, gross) ==
  AtomicCredit(s, w, IF TaxRate = 0 THEN gross ELSE Dpp(gross))

Held(s) == {w \in Wallet : holder[w] = s}

Release(s) ==
  /\ open'   = open \ {s}
  /\ holder' = [w \in Wallet |-> IF holder[w] = s THEN NoSession ELSE holder[w]]
  /\ draft'  = [draft EXCEPT ![s] = [w \in Wallet |-> << >>]]

Commit(s) ==
  /\ s \in open
  /\ wallet' = [w \in Wallet |->
                  IF holder[w] = s THEN [wallet[w] EXCEPT !.balance = view[s][w].balance]
                                   ELSE wallet[w]]
  /\ moves'  = [w \in Wallet |-> moves[w] \o draft[s][w]]
  /\ missed' = [z \in Session |-> IF z = s THEN {} ELSE missed[z] \cup Held(s)]
  /\ view'   = [view EXCEPT ![s] = [w \in Wallet |-> NewWallet]]
  /\ Release(s)

\* UserError, serialization failure, deadlock victim or crash: nothing is kept.
\* Odoo retries a request that failed to serialize: it begins again.
Rollback(s) ==
  /\ s \in open
  /\ view'   = [view EXCEPT ![s] = [w \in Wallet |-> NewWallet]]
  /\ missed' = [missed EXCEPT ![s] = {}]
  /\ Release(s)
  /\ UNCHANGED <<wallet, moves>>

\* An administrator saves the wallet form: a one-statement UPDATE of the other columns.
EditWallet(w, limit, state) ==
  /\ holder[w] = NoSession
  /\ wallet' = [wallet EXCEPT ![w].limit = limit, ![w].state = state]
  /\ wallet' # wallet
  /\ missed' = [s \in Session |-> IF s \in open THEN missed[s] \cup {w} ELSE missed[s]]
  /\ UNCHANGED <<moves, holder, open, view, draft>>

Next ==
  \/ \E s \in Session : Begin(s) \/ Commit(s) \/ Rollback(s)
  \/ \E s \in Session, w \in Wallet, amount \in Amount :
       \/ AtomicDebit(s, w, amount)
       \/ AtomicCredit(s, w, amount)
       \/ AtomicCreditWithTax(s, w, amount)
  \/ \E w \in Wallet, limit \in Limit, state \in {"active", "frozen"} :
       EditWallet(w, limit, state)

Spec == Init /\ [][Next]_vars

-----------------------------------------------------------------------------
Sub == INSTANCE Ledger WITH
         Account <- Wallet,
         balance <- [w \in Wallet |-> wallet[w].balance],
         entries <- moves

\* "balance ... updated atomically": however the sessions interleave, a wallet's
\* stored balance is the closing balance of its moves, and each move's
\* balance_after is the previous one's plus its own amount: no update is lost.
BalanceIsJournal ==
  \A w \in Wallet :
    /\ Sub!Chained(0, moves[w])
    /\ wallet[w].balance = Sub!Closing(0, moves[w])

\* balance + credit_limit is the hard ceiling for debits: no debit that reaches
\* the database leaves less than minus the credit limit then in force.
DebitCovered ==
  [][\A w \in Wallet : \A i \in (Len(moves[w]) + 1)..Len(moves'[w]) :
       moves'[w][i].amount < 0 => moves'[w][i].after >= -wallet[w].limit]_vars

\* A freeze that has committed stops every move, those of sessions that read the
\* wallet while it was still active included.
FrozenIsStill ==
  [][\A w \in Wallet : moves'[w] # moves[w] => wallet[w].state = "active"]_vars

\* The wallet implements the abstract sub-ledger.
ImplementsLedger == Sub!LedgerSpec

-----------------------------------------------------------------------------
(***************************************************************************)
(* The inductive invariant.  A session that holds a row read it at its     *)
(* committed value, and its moves chain onto the committed ones; a row a   *)
(* session has neither locked nor missed is still what it read.            *)
(***************************************************************************)
HolderIsOpen == \A w \in Wallet : holder[w] \in open \cup {NoSession}

HeldIsFresh ==
  \A s \in open, w \in Wallet : holder[w] = s =>
    /\ w \notin missed[s]
    /\ Sub!Chained(wallet[w].balance, draft[s][w])
    /\ view[s][w].balance = Sub!Closing(wallet[w].balance, draft[s][w])
    /\ view[s][w].limit = wallet[w].limit
    /\ view[s][w].state = wallet[w].state

UnheldIsSnapshot ==
  \A s \in open, w \in Wallet :
    holder[w] # s /\ w \notin missed[s] => view[s][w] = wallet[w]

UnheldIsClean ==
  \A s \in Session, w \in Wallet : holder[w] # s => draft[s][w] = << >>

DraftAllowed ==
  \A s \in open, w \in Wallet : draft[s][w] # << >> =>
    /\ view[s][w].state = "active"
    /\ \A i \in 1..Len(draft[s][w]) :
         draft[s][w][i].amount < 0 => draft[s][w][i].after >= -view[s][w].limit

IInv ==
  /\ TypeOK
  /\ BalanceIsJournal
  /\ HolderIsOpen
  /\ HeldIsFresh
  /\ UnheldIsSnapshot
  /\ UnheldIsClean
  /\ DraftAllowed
=============================================================================
