# A TLA+ development of odoo-platform: prepaid payments and their surroundings

The repository is a multi-tenant Odoo 19 platform with about two hundred
addons and a dozen services around them. Its own hardest code is the PPOB vertical
(`src/addons/verticals/custom_ppob_*`, "payment point online bank"): resellers
(mitra) hold prepaid wallets, points of sale sell phone credit, electricity
tokens and game top-ups, and a provider outside the database delivers them
against a deposit. Money is taken before the answer is known, answers get lost,
crons repair what requests left behind, and everything runs in concurrent
database transactions. This development models that core, the ways money comes in
(bank top-ups) and is accounted for (rollup, commissions), the bridge to the legacy
Oracle system, and two engines other modules build on: approvals and the outbox to a
warehouse host with its circuit breaker.

Contents: [inventory](#inventory), [modules](#modules-and-the-code),
[runs](#runs), [findings](#where-the-code-and-its-words-differ),
[proofs](#what-is-proved), [limits](#what-is-only-checked-and-what-is-not-modelled),
[plan](#plan).

## Inventory

### The money path (modelled first)

| Component | State | Operations | Hard behaviour |
|---|---|---|---|
| Mitra wallet, `custom_ppob_wallet` | balance, credit limit, `state` active/frozen; an append-only journal of moves with `balance_after` | `_lock`, `_atomic_debit`, `_atomic_credit`, `_atomic_credit_with_tax`, freezing, adjust wizard | many requests on one row; snapshot older than the lock; limit and freeze edited meanwhile |
| Provider bucket, `custom_ppob_provider` | balance, moves; top-up log with unique `request_uid` and a link to its down payment; two bills per top-up, with discounts; `topup_dp_timing` | debit, credit, credit from a posted bill, recompute, `action_apply`, posting hook | bills reset, posted again or deleted, timing changed in between, duplicate submit, a request applied again, recompute without the lock |
| Sale engine, `custom_ppob_sale` | the transaction's `state`, its four move references, the key of its retry family | create, dispatch (caps, route, wallet, bucket, call), success, failure and refund, confirm inquiry, manual refund, retry, reaper cron | a call to the outside in the middle of a database transaction; lost answers, crashes, batches that roll back, races with the reaper |
| HTTP adapter | none | `inquiry`, `pay`, `status` | what a network error is turned into |
| PPS gateway, `custom_ppob_pps_gateway` | `pps_callback_state`, attempts; uniqueness of (mitra, number) | sell, direct top-up, status, callback cron | duplicate requests, callbacks sent from an old snapshot, at-least-once sending |
| Virtual accounts, `custom_ppob_va` | top-ups with a unique `bank_ref`, their state and wallet move | payment callback, statement matching, entry, credit and rejection by hand | three ways to one wallet; repeated callbacks, lost answers, a credit that raises |
| Rollup and commission, `custom_ppob_rollup`, `custom_ppob_commission` | rollup mark and date of a transaction; accruals | daily rollup with its invoice, accrual inside a success, settlement of a period | selections without a lock, late commits, swallowed invoice errors |
| Oracle bridge, `custom_ppob_oracle_bridge` | `oracle_msg016t_id` and state of a transaction, the cursor, skipped rows | dispatch by stored procedure, status sync, ingestion, replay, backfill | a queue two systems write, a cursor, calls that commit over there before they do here |

They interact as follows. The gateway (or the manual wizard, or the form) creates a
transaction and calls `action_dispatch` in the same database transaction. Dispatch
calls the wallet and then the bucket, both of which lock their row with
`SELECT ... FOR UPDATE` and keep it until the commit; then it calls the adapter,
and the adapter the provider. `_mark_success` and `_mark_failed` are extended by the
gateway (flag the callback) and by the commission module (accrue). The reaper cron
asks `status()` for what stayed `in_progress` and settles or refunds it. The callback
cron reports final states to the point of sale. Odoo runs every request and cron job
in one PostgreSQL transaction at REPEATABLE READ: a row that somebody else
committed after the snapshot cannot be locked or updated, the request fails
and is rolled back (and retried by the framework, which is a new attempt here).
Bank top-ups credit the same wallets through `_atomic_credit`. Rollup and settlement read
what became a success, long after. A provider in bridge mode takes the place of
wallet, bucket and adapter: its dispatch is the Oracle bridge's, its settlement the status
cron's.

What makes them correct:

- wallet: no update is lost, no debit without cover, nothing moves on a frozen wallet;
- bucket: never negative, every pair of top-up bills credited exactly once and a request given a
  second pair only after the first down payment is gone, equal to its
  general-ledger account when all bills are posted, but for negative deltas;
- sale engine: what a row has debited and refunded agrees with its state, balances
  add up over all rows, no goods for refunded money, one order per transaction,
  final states stay, caps hold, stale transactions are resolved;
- gateway: one sale per number, no verdict taken back, a sent callback was
  true, every outcome the engine marks is reported;
- virtual accounts: a bank reference moves money once, an ok to the bank is true,
  decisions are final;
- books: a success is billed once, a commission paid once, a closed day is complete;
- Oracle bridge: the cursor loses only what came late or raised, a success was delivered, legacy sales arrive.

### Platform engines

| Component | State | Operations | Hard behaviour | Correct if |
|---|---|---|---|---|
| Approval engine, `ee_gap/custom_approval_engine` | requests: state, tier, pending approvers, history; the document's link and confirmation | confirmation gate, submit, approve, reject, cancel, escalation cron | no locks: every decision is made on a snapshot; history lines conflict with nobody | tiers are earned, the gate holds, complete tiers move on, decisions are final |
| WMS outbox, `ee_gap/custom_wms_integration` on `core/custom_adapter_framework` | outbox rows: state, attempts; breaker: status, failures | enqueue, drain cron, Send Now, retry, acknowledge, delete; call with retries, breaker | a whole drain is one database transaction around many calls; the host acknowledges by a call of its own | what is written of a delivery is true and stays; every event is settled while the breaker is closed |

### Everything else

| Part | Note |
|---|---|
| `custom_ppob_biller_digiflazz` | a real provider: `status()` re-sends the order, which outside the provider's retention window is a new sale. Planned. |
| `custom_ppob_eraspace_bridge` | feeds of a point-of-sale system: a refund that carries the `pos_trx_ref` of its sale derives the same reference and is taken for a repeat. Planned. |
| `custom_ppob_sla`, `custom_ppob_core` | measurement; master data that appears here as constants. |
| `addons/core` | nonce store and signed endpoints (planned), roles, operating units, AI bridge; the adapter framework's breaker is modelled with the outbox. |
| `addons/compliance`, `addons/control_plane`, `addons/operations` | tax, personal data, tenant records, onboarding, boards. |
| `addons/ee_gap` | about 115 replacements of Odoo Enterprise modules, mostly document workflows within one database transaction; the approval engine and the WMS outbox are modelled. |
| `addons/_tenants`, `addons/_vendor`, `_template`, `custom_fnb_stock_ops` | customer fields, third-party code, skeleton, forms. |
| `tenant-orchestrator`, `ai-gateway`, `custom-predictor`, `services/*` | services; the orchestrator's tenant lifecycle is planned. |
| cockpits, portals, nginx, caddy, postgres, observability, scripts | user interfaces, configuration. |

`PROJECT.json` lists each part with its reason, and under "hazards" the places where
this code can go wrong and a unit test would hardly reach, those of the parts
still to be modelled included.

## Modules and the code

| Module | Models | Kind |
|---|---|---|
| `Ledger` | what a sub-ledger promises: entries are only appended, and the balance is the closing balance of the last one | abstract specification |
| `Escrow` | what the sale engine promises about money: deals are held, then kept or returned, and charge the accounts of their parties meanwhile | abstract specification |
| `PpobWallet` | `ppob_wallet.py`, `ppob_wallet_move.py` | implements `Ledger` |
| `PpobBucket` | `ppob_provider_bucket.py`, the top-up wizard, the `account.move` hook | implements `Ledger` |
| `PpobSale` | `custom_ppob_sale/models/ppob_transaction.py`, the wizard, the outcomes of the HTTP adapter | composes wallets, bucket, transactions, reaper, provider; implements `Escrow` |
| `PpsGateway` | the gateway's controller and its extension of the transaction | on top of the sale engine's outcomes |
| `PpobVa` | `ppob_va_topup.py`, the payment callback, the `va_match` rule | three writers of one table |
| `PpobBooks` | `ppob_rollup.py`, accruals and the settlement wizard | readers of committed transactions |
| `PpobOracle` | the bridge's transaction extension and adapter, replay, backfill | composes Odoo with the Oracle queue |
| `Approval` | `approval_request.py`, `approval_mixin.py`, the purchase order's gate | request, document, cron |
| `WmsOutbox` | `wms_integration_event.py`, breaker and call of the adapter framework | composes outbox, breaker, host |
| `...Proofs` of wallet, provider (bucket and Oracle bridge), sale, gateway, VA, books, approval, outbox | theorems | TLAPS |
| `MC...` | symmetry and the maps of the runs | TLC |

### Database transactions

Wallet, bucket and sale share one picture of PostgreSQL. `db` is the committed
database. A session that begins copies it into `view[s]`, works on the copy, and
publishes what it wrote at `Commit`; `Rollback` forgets it. `holder` says who holds
each row lock. `missed[s]` is the set of rows other sessions committed since the
snapshot of `s`: a lock on one of them fails, as PostgreSQL's serialization error does.
Nothing here is Odoo code, so these definitions are marked external in the map,
except the locks, which are the code's own `SELECT ... FOR UPDATE`.

### PpobWallet

`AtomicDebit`, `AtomicCredit` and `AtomicCreditWithTax` are the three methods with
their guards in order (active, lock, re-read, limit). `PostMove` appends the move with
its `balance_after` and writes the balance. `Dpp` is the tax base of a gross amount,
rounded to the nearest unit. `EditWallet` is the form: freeze,
thaw, change the credit limit. The journal entry each move posts in the general ledger is
a pair of the move and is not repeated.

### PpobBucket

As the wallet, without a credit limit, and with the deposits. A `Pair` is the down payment and the settlement
that one run of the wizard makes for a request. `Topup` is such a pair: `timing` is the setting of the provider
when it was built, `deposit` what the bill that carries it adds up to on the bucket's account, `posted` and `gone`
which of the two bills are posted or deleted. `DepositFor` is the tax base less a discount with `reduce_inventory`
(`_prepare_dp_vals`), so the deposit of a `dp_post` pair may be zero or negative. `BucketDelta` is what the lines of a bill add
up to on the bucket account, for each role and timing. `PostBills` is `_post` with its hook, which asks the *current* setting
which role credits, skips a delta that is not positive (`HookCredits`) and asks whether the bill has already credited
(`AlreadyCredited`).

`ApplyTopup` is `action_apply` with both of its branches: a log row that links to a down payment returns its pair (`Stands`);
one whose link is empty, because the bill was deleted and the foreign key set to null, gets another pair. Reset, posting
again and deletion (`ResetBill`, `RepostBill`, `DeleteBill`) are Odoo's own; a bill that has credited is protected by the
`restrict` of the move that names it. `Recompute` writes the `Total` of the moves the session sees, which it read
before it locks; the update then fails if somebody else changed the bucket.

### PpobSale

A transaction row is its state, four flags for its four move references, and the
transaction it is a retry of. `_dispatch_one` is three actions, because other sessions
can act between them: `DispatchWallet` (checks and wallet debit), `DispatchBucket`
(bucket debit, `in_progress`), `DispatchPay` (call and outcome). `Resolved` is the
tri-state answer; `Refund` is `_refund_subledgers` with its early return.
`Raises` collects every condition under which the code raises: only there, or in a
crash, may a session roll back. `Commit` first checks that no transaction row
it updates was changed meanwhile (`Fresh`): Odoo flushes these updates late,
possibly after the provider was called.

The provider is a bag of orders for each transaction: pending, delivered, rejected. It
keeps what it was sent when the session rolls back. `PayOutcomes` are the pairs
of what it did and what the adapter made of the answer: if `Lossy`, the request or the answer may be
lost, which the HTTP adapter reports as `ok=False`. `Dedup` says whether the provider
recognises an order it has. `StatusErrors` says what `status()` makes of a lost
answer: `"failure"` is the HTTP adapter, `"exception"` an adapter that raises. These
are parameters because the repository has adapters of both kinds and the provider is
outside of it. `Uses` names the operations an instance exercises, so that a run can ask a
question about a part without paying for all of it.

### PpsGateway

A Sell is look-up, insert, dispatch, answer, each an action; `key` is the unique
index, on which a second insert waits and then fails. `Pay` has the outcomes of the
engine's dispatch; `Reject` is a product that is not mapped, or a dispatch that raises before the call. The callback
cron is a sweep with its snapshot: `BeginSweep`, one `Fire` per number, then
`EndSweep`, which writes the two callback columns and nothing else, or, if a row changed or the worker died, `AbortSweep`.

`told` records what the point of sale has received, by answer, poll or callback. `_sell_err` and the NOT_FOUND branch of
the status poll answer Status 1 as well, but with no transaction behind it; `told` keeps these apart as `"error"`
(`TellError`), because the number may still be sold: only a Status 1 that comes with a transaction is a verdict. A point of sale that goes by Status alone cannot tell them apart
(see [below](#where-the-code-and-its-words-differ)).

### Jobs (VA, books, approval)

These three take no lock before they decide and call nobody outside while their transaction is open, so a database
transaction is two actions: its begin, which takes the snapshot and makes the decisions that
are made on it, and its end, which writes everything at once. `missed` is what others have
committed since the snapshot; an `UPDATE` or lock of a missed row, or an insert under
a unique index, fails, and only `Abort` is left.

### PpobVa

`PaymentCallback`, `Reconcile` and `CreditByHand` each end in `Credit`, which is
`action_credit_wallet` with everything that can make it raise (`CanCredit`). A reference that exists is
acknowledged as a duplicate whatever its state, as the code does; the answer may be
lost after the commit (`Answer`). `Reconcile` is the loop over all imported lines in
one transaction, so one wallet that cannot be credited undoes all. `RefOf` and `LineRef` are the
references of callback and statement for one payment; the run has them equal.

### PpobBooks

`Stamp` is `_mark_success` in a transaction that is still open, `Commit` its commit with
the accruals, which may come after midnight. `BeginRollup` selects a day, `EndRollup` writes order, mark and
invoice, where the invoice of any subset of the mitra may fail. `BeginSettle` and
`EndSettle` are the wizard's `action_run`. `Undated` is a success that replay or backfill creates without
`completed_at`. `closed` and `late` are history: days rolled up, and transactions
committed after a rollup of their day had begun.

### PpobOracle

`msg` is the queue MSG016T; Oracle gives out ids in order, but a desktop client's row becomes visible
when its transaction commits. `Dispatch` is the call of the stored procedure, which commits in
Oracle, `EndDispatch` the commit in Odoo; between them the ingestion may see the row.
`BeginIngest` reads the cursor and the rows above it, `EndIngest` writes transactions,
skipped rows and the cursor; per key `Ingested` says what the row's savepoint leaves. Any set of rows may raise
(`raised`): the code logs whatever exception it is and moves the cursor all the same (`AdvanceCursor`); `broken` is the ghost that
marks those rows whose key was left without a transaction. `Replay` and `Backfill` create what the cursor has passed.
`ReapUnreachable` is the sale engine's reaper, which selects by `dispatched_at` and so sees only what Odoo dispatched; an answer
`ok=False` makes the transaction `timeout`.

### Approval

`BeginConfirm` is `_approval_request_or_proceed`; `EndProceed` and `EndSubmit` are its two ends. An approval decides
at its begin whether it completes the tier (`Completes`) and ends in `EndWait`,
which inserts a history line and conflicts with nobody, or `EndAdvance`. `EndSweep` is
the escalation cron over all overdue requests in one transaction: `Handled` is `_handle_overdue`, including
the error it swallows when the next tier's domain cannot be searched (`Unsound`). `Resolved` is every list
that absence and delegation may make of a tier's approvers.

### WmsOutbox

A drain is `BeginDrain`, one of `Skip`, `NoAdapter`, `Defer` or `Call` for each row of its
batch, perhaps a `Halt`, and `End`, all on a copy of its snapshot, while `heard` (the host) changes
at once. `Send Now` is the same for one row. `Breaker` is the configuration row; `cooled` is an
open breaker whose cooldown has elapsed. `Call` is `push_event` with its retries:
success closes the breaker, each unanswered request counts as a failure, a refusal leaves it alone; `Raise` is any other
exception of the client, after which the row is pending with one more attempt, be it the last. `Unlink` is deletion by a user,
`UnlinkAsSuperuser` the exemption from the test for delivered rows.

## Runs

`expect: pass`:

| Run | Question | Bounds | States |
|---|---|---|---|
| `wallet` | cover, freeze; inductive invariant (no lost update); refinement of `Ledger` | 1 wallet, 3 sessions, 3 moves | 298,596 |
| `bucket` | negative balance, credited once, equals the general ledger; inductive invariant; refinement of `Ledger` | 1 bucket, 1 request with up to 2 pairs of bills, tax base 2, discount 0 or 3, 2 sessions, 2 moves; constraint `Bounded` | 271,784 |
| `sale` | money and deliveries agree while nothing is lost; inductive invariant; stale transactions are resolved | 2 transactions, 2 wallets, 1 shared bucket, 2 requests, reaper | 57,641 |
| `sale_crash` | money follows state, only forward, with everything that can fail; refinement of `Escrow` | 2 transactions, 1 request with batches, reaper, crashes, lost answers, freezing; the provider recognises a repeated order; a cap that refuses the second sale, one product with inquiry | 853,784 |
| `pps` | sold once, marked outcomes reported; inductive invariant | 2 numbers, 2 requests, timeouts and refunds, fair cron | 388,836 |
| `va` | a reference moves money once, an ok is true, decisions stand; inductive invariant | 2 references, 1 wallet, 2 workers | 1,796,564 |
| `oracle` | the cursor loses nothing, a success was delivered, legacy sales arrive; inductive invariant | 1 own and 1 legacy transaction, 3 queue rows, any of which may raise | 234,337 |
| `books` | billed once, paid once, a closed day is complete; inductive invariant | 2 transactions of 2 mitra, 1 commission scope, 2 workers, 3 days | 561,768 |
| `approval` | tiers are earned, the gate holds, complete tiers move on, decisions stand; inductive invariant | 1 document, 2 requests, 3 users, 3 tiers, 2 workers | 874,413 |
| `wms` | what is written is true and stays, events are settled; inductive invariant | 2 events that the cron drains in one batch, one of them also worked on by hand (`Forms`), 2 attempts, breaker threshold 2, 1 mishap | 206,254 |
| `pps_crash` | no verdict taken back, sent means heard, gives up in time | 2 numbers, crashes, timeouts, refunds | 2,185,700 |

Why these bounds are enough to be interesting: a lost update needs two sessions and one
row, a deadlock two sessions and two rows, a stale snapshot a third commit
between; a double refund one transaction and two actors; a duplicate credit one top-up
whose bill is posted twice; two ways to credit one reference two workers, and a third reference
adds nothing to the conflict on one wallet; a lost queue row needs one row above the cursor and
one that comes between read and commit; a request applied again one request and two pairs; a batch that rolls back two events; a late commit one midnight; two overlapping approvals
one tier of two approvers; an overwritten delivery one drain, one event and one acknowledgement. Amounts are such that a second debit fails where the first
passed. `MaxMoves`, `MaxOrders` and `MaxFired` bound otherwise unbounded counters and
appear in the guards of `PostMove`, `DispatchPay`/`Pay` and `Fire`; `MaxDay`, `MaxId`, `MaxEvent`,
`MaxSends` and `MaxMishaps` bound days, queue rows, events, pushes and mishaps in the guards of `NextDay`,
`Insert`, `Enqueue`, `BeginSend` and `Mishap`; where a property counts
orders or calls the bound is larger than what a correct behaviour needs, so that a violation has
room to show (`sale_crash`, which counts neither, has a provider that recognises repeats and one order).

`MaxPairs` bounds the pairs of one request (`ApplyTopup`). `bucket` is the one run with a state constraint (`Bounded` in
`MCPpobBucket`): once a second pair is committed only one session is open at a time, and usages and refunds are not combined
with a committed pair that has nothing to credit or has lost a bill, since neither touches what the other reads. It checks invariants and a refinement without
fairness, so the constraint only cuts the state space; the theorems have no such bound.

`CHECK_DEADLOCK FALSE` stands in `sale_lost_answer`, where few operations are used and, once
everything has settled, nothing is left to do, and in `wms`, where the outbox really is quiet
once all events are settled and the one mishap has happened.

Fairness. `PpobSale!Fairness`: the provider decides its pending orders; a request that can
go on does (the worker's thread runs, its calls have time-outs); the reaper cron fires
again and again, and finally finds all that is in progress older than the threshold; a
lock it waits for is granted in its turn (strong fairness: PostgreSQL queues lock waiters).
`PpsGateway!Fairness`: the cron runs every minute (`data/cron_callback_dispatch.xml`) and
each of its calls ends (`_CALLBACK_TIMEOUT_S`). `PpobOracle!Fairness`: ingestion and status cron run every
minute (`data/cron_oracle.xml`), a request that waits for Oracle ends, Oracle's own pipeline decides; strong fairness
where a dispatch that is still open may get in between. `WmsOutbox!Fairness`: the drain runs every five minutes (its
cron is seeded active), its calls time out and its transaction ends, the cooldown elapses. The statement-matching and
the escalation cron are in no data file, so `va` and `approval` have no liveness property; and nothing repeats a rollup for
a day it missed, so `books` has none. No request is assumed to be repeated and
no operator to act.

What some runs leave out, and why it matters:

- `sale` has no crash, no lost message, no `confirm` and no batch. `OrderedOnce` and
  `DeliveredIsCharged` do not survive those: a worker that dies after `pay()` leaves an order no row knows
  of, and an error in a later transaction of a batch does the same for an earlier one. The code
  says nothing to the contrary, so these are hazards and not findings.
- `pps` has no crash (an order placed by a dead worker would be placed again); `pps_crash` has. `Reported` speaks of
  successes and failures: a transaction the reaper times out is never flagged (see below).
- `oracle` backfills only rows the cursor has passed (see below). `NothingLost` and `LegacyArrives` except rows that
  become visible after a higher one (`late`) and rows whose ingestion raised (`broken`); both are losses of the code, and the
  ghosts mark at most those rows, some of which a later event may still save.
- `CreditedOnce` is said of a pair of bills; of a request it says that its pairs come in turn, each after the down payment of the
  last was deleted. `TiesOut` adds back what the hook skips of negative deltas, and allows no other difference.
- `books` excepts, through the ghost `late`, what was committed after a rollup of its day had begun, `approval`, through
  `overlap`, approvals of one tier that did not see each other.
- `wms` asks `Settles` only of behaviours in which the breaker is closed in the end (see below), and counts a pending row
  that is out of attempts as settled. `DeliveredStands` excepts Retry and the superuser's deletion by name.

## Where the code and its words differ

The first is a run with `expect: violation`, listed under "findings" with the line quoted.
The others were met while modelling; each is reproduced by changing the constant or the condition named.

| Where | What happens | To see it |
|---|---|---|
| sale, `ppob_transaction.py:448` | the answer of `pay()` is lost, `ok=False`, refund; the provider delivers. The comment in `_dispatch_one` names this outcome as the one to avoid. The same holds of `status()`: a network error there makes the reaper refund, though its docstring says "never blindly refund". | run `sale_lost_answer` |
| sale, line 417 | the inquiry branch tests a state already overwritten: a product that requires an inquiry ("2-step flow (inquiry, then pay)") is paid at once. | `Inquiry` |
| sale, line 258 | two sales on two wallets of one mitra pass the cap check side by side and exceed the cap. | `Cap`, two sessions |
| sale, line 637 | a refund to a frozen wallet raises out of the reaper's loop, every time, and blocks the resolution of transactions on other wallets. | `Uses` with `"freeze"`, `StaleIsResolved` |
| commission, `ppob_transaction.py:14` | unmapped commission accounts raise after the payment; the savepoint drops the row, the same number is sold again, though "a duplicate Sell with the same notrx returns the ORIGINAL result". | `Mapped = FALSE`, `SoldOnce` |
| bucket, wizard lines 131, 145 | with `pelunasan_post` the down payment has credited nothing and may be reset and deleted; the log row's link becomes empty, and the same `request_uid` makes a second pair and a second credit, though the log's docstring says that "a re-run with the same `request_uid` returns the existing pair instead of duplicating" (and the field's help, "no-op"). | `ApplyTopup` after `DeleteBill`; second part of `CreditedOnce` |
| bucket, `account_move.py:95` | a discount with `reduce_inventory` above the tax base makes the bucket's delta negative; the hook skips it while the general ledger moves, though line 88 says "This guarantees subledger == GL". | `TiesOut` without `Skipped` |
| gateway, `pps_gateway.py:207`, `:226` | a Sell that is rejected, and a poll for a number not yet committed, answer Status 1; a later Sell of the number may answer Status 0. Only the wording of the message tells such an answer from that of a failed sale (a rejected Sell even carries a server id). | `VerdictStands` with errors counted as `"1"` |
| gateway, `ppob_transaction.py:94` | a sale that the reaper times out is never flagged and never called back, though the cron's domain lists "timeout". | `Reported` with `"timeout"` among its states |
| VA, `va_h2h.py:162` | "duplicate callback -> credit already done": a callback for a reference an operator entered by hand, or rejected, is told ok although nothing is credited. | second disjunct of `Booked` |
| Oracle, `ppob_transaction.py:236` | the backfill wizard quarantines an unmapped row ahead of the cursor; the cron's own record then violates the unique index, outside of the savepoint, at every run: the cursor never moves again. | `BackfillAhead = TRUE`, two legacy sales (`Key = {k1, k2}`, `Native = {}`, `MaxId = 2`), `LegacyArrives` |
| Oracle, line 217 | a row that becomes visible after a higher id was read is never ingested. | `NothingLost` without `late` |
| Oracle, line 257 | a row whose ingestion raises for any reason is logged and the cursor passes it; there is no record to replay, though the table of skipped rows is there for that ("The cursor advances past skipped rows; this table allows replay"). | `NothingLost` without `broken` |
| WMS, `wms_integration_event.py:284` | once the breaker is open the cron halts before the probe that would close it (pinned), or no longer finds the configuration (unpinned): nobody probes "once the cooldown elapsed", as the comment in `_send` expects, until an operator resets it. | `<>[]` of the closed breaker dropped from `Settles` |
| WMS, line 188 | Retry keeps the attempts: a row that has used them up is pending and never selected again, though the comment at line 36 says it "waits for a human to press Retry". An exception other than a refusal or a lost answer (line 214) at the last attempt leaves the same. | third case of `Settles` |
| Approval, `approval_request.py:175` | the last two approvers of a `require_all` tier approve at once: neither sees the other, the tier is complete and stays pending. | `CompleteTiersAreLeft` without `overlap` |
| Rollup, `ppob_rollup.py:36`, `:54` | a transaction that commits after the rollup of its day is never rolled up; a failed invoice is logged and never made. | `DayIsClosed` without `late` |

Smaller observations. VA: the nonce of a callback is spent when the framework retries it, the retry is refused and the bank
must call again; statement and callback may carry different references for one payment, which is then credited twice; a
manager may delete a credited top-up, after which its reference is new; an outgoing statement line counts by its absolute amount.
Oracle: a crash after the stored procedure leaves the transaction pending, and a second dispatch orders again; a lost answer is a
failure in Odoo while Oracle delivers, and nothing settles it. Books: a day on which the cron does not run is never rolled up; undated
successes are never billed; successes that come from the bridges accrue no commission. Approval: `escalate_to_next` on the last tier
approves although nobody did; an escalation that raises has moved the request already. WMS: a conflict or crash at
the end of a drain forgets every push of it, and the host gets them again.

## What is proved

All theorems hold for any values of the constants that satisfy the ASSUMEs
of the modules (sets disjoint where they must be, amounts natural numbers); TLC
evaluates the assumptions in every run. Nothing is assumed about sizes; where amounts are added up over
all rows of a table, the set of rows is finite. Every inductive invariant is also an invariant of a run.

**Wallet** (`PpobWalletProofs`). `SpecIInv` (`IInv`), `TypeCorrect`, `NoLostUpdate` (`BalanceIsJournal`),
`DebitsAreCovered`, `FreezeStopsMoves`, `WalletImplementsLedger`. `BalanceIsJournal`
is not inductive: it speaks of the committed database, and a commit publishes
what a session computed from its snapshot. `IInv` adds that a wallet held by a session has
not changed since that session's snapshot, and that the session's own view is the closing
balance of the committed moves followed by its drafts. Chains of moves are
stated pointwise (each `after` is the previous one plus the amount), so that appending
and concatenating need no induction (`ChainAppend`, `ChainConcat`). The action
properties and the refinement follow: only `Commit` changes the moves (`MovesOnlyByCommit`),
and what it appends is a chain.

**Bucket** (`PpobProviderProofs`). `SpecBucketInv` (`BucketInv`), `BucketNeverNegative`, `TopupsCreditedOnce`,
`BucketImplementsLedger`, `SubledgerTiesOut`. As in the wallet, a session that holds a bucket
read it at its committed balance and its drafts chain onto it. The pairs of bills are
what is new. A pair the session holds was either made before, and then its drafts hold no credit for it, or is made by the
session, and then they hold the one it is due; a session that does not see a pair made sees no move of its
bills; and the credit is of the bill its *own* timing names (`Once`), which is why a
later change of the setting finds either that bill credited or a bill whose delta is zero or negative. A bill that has credited
is never deleted (`Sound`). That pairs come in turn rests on the lock of the log row: whether a pair is made and its down payment
deleted (`SameStage`) changes only under it, so a session that has not missed the log row sees both as they are committed.
That `Recompute` changes nothing is `TotalIsClosing`: the sum of a chain is its closing balance. `TiesOut` splits the journal into
usages, which the general ledger has too, and credits, of which each pair with a positive deposit has one
(`UsageIsTheRest`); a pair with a negative one has left its deposit in the ledger alone, and that is `Skipped`. It takes
a sum over a finite set of pairs, and an induction on the length of the journal. The deposits are any integers.

**Sale engine** (`PpobSaleProofs`). Three layers.

`SpecIInv` (`IInv`), with `TypeCorrect` and `MoneyMatches` (`MoneyFollowsState`). The property is about committed rows;
`IInv` says the same of the rows in every session's view, except of the one row between `DispatchWallet` and
`DispatchBucket`, which is `Midway`; and that what a paying session or the reaper is
working on is in progress in its own view. It needs nothing about locks: a row is published as a whole,
so it is enough that every copy of every row is consistent. This is why the theorem
holds for every provider, with crashes, lost answers, retries and batches.

`SpecBooks` (`BooksInv`), with `MoneyAddsUp` (`BalancesAddUp`) and `LifeGoesForward` (`OnlyForward`). Balances need
the locks. `SeesBooks`: what a session sees of a wallet nobody has changed since its snapshot adds up, and
the sales it counts there are the committed ones except those it has itself written while holding the wallet.
`SessionLife`: a row the session has not missed is the committed one, or one step of `Forward` beyond it and in its
write set; `Fresh` then makes the commit that step. Both hold for every provider, with everything that can fail. The
number of transactions and wallets is arbitrary; `Txn` is finite, because the books add up over it.
`SaleIsAnEscrow` (`ImplementsEscrow`) puts the three together: `DealOf` maps a state to open, held, kept or returned; by
`MoneyFollowsState` the sales a balance is short of are those held or kept (`TakenIsCharged`), so, as it adds up before and
after a step, it moves by the difference of two sets (`BalanceMoves`), along `Forward` (`ForwardIsLife`). In the escrow one
step may move any number of deals: a batch or the reaper commits many rows at once.

`SpecOrders` (`OrderInv`), with `OrderedAtMostOnce` (`OrderedOnce`), `NothingGivenAway` (`NeverGivenAway`) and
`DeliveryIsCharged` (`DeliveredIsCharged`). These join rows with a provider that does not roll back, and the theorems state
their conditions as hypotheses. `Steady` excludes a crash, a batch and the confirmation of an inquiry: each of them really
breaks the properties (see the hazards), by rolling back a row after its order was placed, or by dispatching a row a second
time. Under `Steady`, the session that called the provider holds the wallet, has missed nothing
it wrote and has only its commit to make (`Paid`), so an order is never forgotten, and a transaction with an order is
never dispatchable again. `OrderedAtMostOnce` needs `Steady` or a provider that recognises repeats
(`Dedup`), whatever is lost; the two others also need that no answer is lost (`~Lossy`), and run `sale_lost_answer` shows
that they do. What a session writes as failed or refunded then has no order pending or delivered.

**Gateway** (`PpsGatewayProofs`). `SalesAreKeyed` (`SellInv`) and `NeverASecondSell`: if the commission accounts are
mapped and no worker dies before its commit, `SoldOnce`. `SellInv` adds that the
holder of a number is the one request that is inserting it, and that a number with
neither a row nor a holder was never ordered. Both hypotheses are necessary: without the first there is
the sale whose commission cannot be posted; without the second, an order placed by a dead worker.
The callbacks need neither. `CallbacksAgree` (`CallbackInv`), with `VerdictsStand`, `SentWasHeard` and `GivesUpInTime`:
the cron reports from a snapshot, so the invariant says of every number of its batch that the status
seen there is still the one it reports (a success is final, a failure may at most become a refund, which is
reported alike), that a row counts no more attempts than calls were made, and that it is sent only with a status among what was
heard. Errors are among what is heard and bind nobody.

**Virtual accounts** (`PpobVaProofs`). `CreditsOnce` (`IInv`), `OkIsTrue` (`AckedIsBooked`), `DecisionsStand`. That a
reference moves money once is not inductive: a worker writes what its snapshot told it. `IInv` adds that a row a worker has
not missed is what it reads, that a row links a move exactly when it is credited, and that only
rows entered by hand are ever left uncredited, which is what makes an acknowledged duplicate true.

**Books** (`PpobBooksProofs`). `MarkedOnce` (`IInv`), `DaysAreClosed`. The strengthening says that what a job has selected is
unmarked or has been missed, and that a rollup has selected or missed every unmarked success of its day.

**Oracle bridge** (`PpobProviderProofs`). `BridgeInOrder` (`IInv`), `CursorLosesNothing`, `SuccessesAreDelivered`. The strengthening
places what the cron under way has not read: below the cursor, above everything it has read, or late; what it misses exists; and a
linked id is a visible row of the same key, also while a dispatch is open. Any set of rows of a batch may raise: the step of
`EndIngest` shows that each row the cursor passes was read, and that one that did not raise, and is not recorded, leaves its key with a
transaction, be it another's that it conflicts with. The theorems hold for
either value of `BackfillAhead`: the clash costs progress, not rows.

**Approval** (`ApprovalProofs`). `ApprovalIsEarned` (`IInv`), `CompleteTiersMoveOn`, `DecisionsAreFinal`. `JobStands` carries the
proof: what a job has decided on its snapshot (the request is pending, this approval completes the tier, no live request
exists) still stands as long as it has not missed the row that it writes.

**WMS outbox** (`WmsOutboxProofs`). `WhatIsWrittenIsTrue` (`IInv`), `DeliveriesStand`. `Honest` is said of the database and
of the copy of every open transaction, as for the sale engine; `JobFits` adds that a transaction that can still commit has
written no row that was delivered meanwhile.

## What is only checked, and what is not modelled

Only model-checked: the liveness properties `StaleIsResolved`, `Reported`, `LegacyArrives` and `Settles`. Their proofs need
fairness, hence ENABLED, which is out of the prover's reach. Every other property of a passing run is a theorem, under the hypotheses
named above.

Sums over journals, rows and requests are recursive functions, not RECURSIVE operators. The library's induction
theorems take an operator as a parameter, which the installed provers cannot instantiate; the few inductions
needed are derived from the well-foundedness of `<` on the naturals, with a set in the place of the operator
(`Induct`, `InductOverSets`).

Not modelled in the components above: general-ledger accounts and taxes of a move,
stock pickings, the wording of errors, authentication and signatures, the read-only
endpoints, SLA timings, the monthly cap (the daily one with a longer window), price edits
between debit and refund, time itself (a stale transaction is one the reaper selects, an overdue request one the cron does); the balance
mirror of the Oracle bridge, which overwrites wallets Oracle owns; the request button on an approved document, and history lines of rejections;
the inbound end points of the WMS integration; amounts of bank top-ups, orders and commissions, which no property tells apart.

Not modelled at all is most of the repository: forms, views, reports, tenant-specific fields, dashboards and
generators of documents, which are sequential and live within one database transaction; `PROJECT.json` gives the reason for
each part. The share of the repository's lines that is modelled is therefore small and stays so: what is concurrent,
remote or repeated is what the models are for.

## Plan

Next, in this order.

1. `PpobDigiflazz`: `status()` as a guarded re-send over a provider with a
   retention window; refines the provider of `PpobSale`.
2. `PpobEraspace`: join of two feeds with derived references.
3. The balance mirror of the Oracle bridge, over `PpobWallet`.
4. Tenant lifecycle of the orchestrator; nonce store of `custom_core`.
5. An escrow that also delivers what it keeps, which `PpobSale` implements under the
   assumptions of run `sale`; an abstract outbox (at least once, acknowledged once) for `WmsOutbox`.
6. Proofs: the refinements of 5; that of the wallet's and the bucket's copies inside `PpobSale` from
   `PpobWallet` and `PpobBucket`.
