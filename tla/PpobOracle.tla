----------------------------- MODULE PpobOracle -----------------------------
(***************************************************************************)
(* The Oracle bridge of custom_ppob_oracle_bridge.  A legacy Oracle queue, *)
(* MSG016T, sells for Odoo and for desktop clients.  Odoo sends its own    *)
(* transactions through a stored procedure, asks for their status, and     *)
(* ingests every row of the queue it does not know, in the order of the    *)
(* row ids, with a cursor.  A transaction is identified on both sides by   *)
(* its key (idempotency_key there, trx_number_client here).                *)
(*                                                                         *)
(* A dispatch keeps its database transaction open while the stored         *)
(* procedure commits in Oracle; the ingestion cron reads its snapshot and  *)
(* the queue and commits later.  Whoever writes a key that the other has   *)
(* committed meanwhile fails.  In the cron the savepoint of a row absorbs  *)
(* this error and any other, and the cursor passes the row all the same.   *)
(***************************************************************************)
EXTENDS Naturals, FiniteSets

CONSTANTS
  Key,            \* transaction keys
  Native,         \* keys of transactions created in Odoo
  MaxId,          \* bound: rows of the queue
  BackfillAhead   \* whether ops backfill rows the cursor has not reached

ASSUME NativeAssumption == Native \subseteq Key /\ Key # {}
ASSUME BoundAssumption  == MaxId \in Nat
ASSUME AheadAssumption  == BackfillAhead \in BOOLEAN

Id == 1..MaxId

VARIABLES
  msg,         \* MSG016T: key and status of each row
  last,        \* the last row id Oracle has given out
  late,        \* rows that became visible after a row with a higher id
  txn,         \* custom.ppob.transaction rows, committed
  sending,     \* native keys whose dispatch is open, with the answer of the procedure
  mapped,      \* keys whose member and voucher are mapped
  quarantine,  \* rows with an ingest.skipped record
  replayed,    \* those that have been replayed
  broken,      \* rows whose ingestion raised and left their key without a transaction
  cursor,      \* last_seen_msg016t_id
  sweep        \* the ingestion under way: its snapshot and what it read

vars == <<msg, last, late, txn, sending, mapped, quarantine, replayed, broken, cursor, sweep>>

-----------------------------------------------------------------------------
Status  == {"absent", "hidden", "P", "D", "C"}
State   == {"none", "pending", "in_progress", "success", "failed", "timeout"}
TxnRow  == [state: State, oid: Id \cup {0}]
NoTxn   == [state |-> "none", oid |-> 0]
Call    == [step: {"idle", "refused", "queued"}, oid: Id \cup {0}]
NoCall  == [step |-> "idle", oid |-> 0]
Refused == [step |-> "refused", oid |-> 0]

Off == [on |-> FALSE, rows |-> {}, status |-> [i \in Id |-> "absent"],
        mapped |-> {}, missed |-> {}]

Sweep == [on: BOOLEAN, rows: SUBSET Id, status: [Id -> Status],
          mapped: SUBSET Key, missed: SUBSET Key]

TypeOK ==
  /\ msg        \in [Id -> [key: Key, status: Status]]
  /\ last       \in Id \cup {0}
  /\ late       \in SUBSET Id
  /\ txn        \in [Key -> TxnRow]
  /\ sending    \in [Native -> Call]
  /\ mapped     \in SUBSET Key
  /\ quarantine \in SUBSET Id
  /\ replayed   \in SUBSET quarantine
  /\ broken     \in SUBSET Id
  /\ cursor     \in Id \cup {0}
  /\ sweep      \in Sweep

Init ==
  /\ msg        = [i \in Id |-> [key |-> CHOOSE k \in Key : TRUE, status |-> "absent"]]
  /\ last       = 0
  /\ late       = {}
  /\ txn        = [k \in Key |-> NoTxn]
  /\ sending    = [k \in Native |-> NoCall]
  /\ mapped     \in SUBSET Key
  /\ quarantine = {}
  /\ replayed   = {}
  /\ broken     = {}
  /\ cursor     = 0
  /\ sweep      = Off

-----------------------------------------------------------------------------
Visible(i) == msg[i].status \in {"P", "D", "C"}

\* ORACLE_STATUS_MAP
OdooState(status) ==
  CASE status = "D" -> "success" [] status = "C" -> "failed" [] OTHER -> "in_progress"

\* The cron under way misses what others commit on the keys it has read.
Misses(keys) ==
  [sweep EXCEPT !.missed = @ \cup (keys \cap {msg[i].key : i \in sweep.rows})]

\* Oracle gives out ids in order.  A desktop client's row becomes visible when its
\* transaction commits, which may be after that of a higher id.
Insert(k, status) ==
  /\ last < MaxId
  /\ last' = last + 1
  /\ msg'  = [msg EXCEPT ![last + 1] = [key |-> k, status |-> status]]

LegacySale(k) ==
  /\ k \notin Native
  /\ \A i \in Id : msg[i].status = "absent" \/ msg[i].key # k
  /\ Insert(k, "hidden")
  /\ UNCHANGED <<late, txn, sending, mapped, quarantine, replayed, broken, cursor, sweep>>

Publish(i) ==
  /\ msg[i].status = "hidden"
  /\ msg'  = [msg EXCEPT ![i].status = "P"]
  /\ late' = IF \E j \in Id : j > i /\ Visible(j) THEN late \cup {i} ELSE late
  /\ UNCHANGED <<last, txn, sending, mapped, quarantine, replayed, broken, cursor, sweep>>

\* The pipeline delivers or cancels.
Decide(i) ==
  /\ msg[i].status = "P"
  /\ \E end \in {"D", "C"} : msg' = [msg EXCEPT ![i].status = end]
  /\ UNCHANGED <<last, late, txn, sending, mapped, quarantine, replayed, broken, cursor, sweep>>

-----------------------------------------------------------------------------
Create(k) ==
  /\ txn[k].state = "none"
  /\ txn'   = [txn EXCEPT ![k].state = "pending"]
  /\ sweep' = Misses({k})
  /\ UNCHANGED <<msg, last, late, sending, mapped, quarantine, replayed, broken, cursor>>

\* _dispatch_oracle_bridge up to the answer of the stored procedure.  Unmapped, refused
\* and unreachable all come back as ok=False, the last perhaps after the row was queued.
Dispatch(k) ==
  /\ txn[k].state = "pending" /\ sending[k] = NoCall
  /\ \/ /\ k \in mapped
        /\ Insert(k, "P")
        /\ \E answer \in {[step |-> "queued", oid |-> last + 1], Refused} :
             sending' = [sending EXCEPT ![k] = answer]
     \/ sending' = [sending EXCEPT ![k] = Refused] /\ UNCHANGED <<msg, last>>
  /\ UNCHANGED <<late, txn, mapped, quarantine, replayed, broken, cursor, sweep>>

\* The rest of it, and the commit.
EndDispatch(k) ==
  /\ sending[k] # NoCall
  /\ txn' = [txn EXCEPT ![k] = IF sending[k] = Refused
                                 THEN [@ EXCEPT !.state = "failed"]
                                 ELSE [state |-> "in_progress", oid |-> sending[k].oid]]
  /\ sending' = [sending EXCEPT ![k] = NoCall]
  /\ sweep' = Misses({k})
  /\ UNCHANGED <<msg, last, late, mapped, quarantine, replayed, broken, cursor>>

\* The worker dies or the commit fails: the row is pending again, the order stays.
AbortDispatch(k) ==
  /\ sending[k] # NoCall
  /\ sending' = [sending EXCEPT ![k] = NoCall]
  /\ UNCHANGED <<msg, last, late, txn, mapped, quarantine, replayed, broken, cursor, sweep>>

\* Mutant: a row that is still pending in Oracle is settled as a success.
SyncStatus_Pending(k) ==
  /\ txn[k].state = "in_progress" /\ txn[k].oid # 0
  /\ txn'   = [txn EXCEPT ![k].state =
                 IF msg[txn[k].oid].status = "C" THEN "failed" ELSE "success"]
  /\ sweep' = Misses({k})
  /\ UNCHANGED <<msg, last, late, sending, mapped, quarantine, replayed, broken, cursor>>

\* _cron_oracle_sync_status on one transaction, in its savepoint.
SyncStatus(k) ==
  /\ txn[k].state = "in_progress" /\ txn[k].oid # 0
  /\ msg[txn[k].oid].status \in {"D", "C"}
  /\ txn'   = [txn EXCEPT ![k].state = OdooState(msg[txn[k].oid].status)]
  /\ sweep' = Misses({k})
  /\ UNCHANGED <<msg, last, late, sending, mapped, quarantine, replayed, broken, cursor>>

\* The reaper of the sale engine looks at what Odoo has dispatched.  status() answers
\* ok=False when Oracle cannot be reached or has cancelled: the transaction times out.
ReapUnreachable(k) ==
  /\ txn[k].state = "in_progress"
  /\ txn'   = [txn EXCEPT ![k].state = "timeout"]
  /\ sweep' = Misses({k})
  /\ UNCHANGED <<msg, last, late, sending, mapped, quarantine, replayed, broken, cursor>>

-----------------------------------------------------------------------------
\* _cron_oracle_inbound_ingest reads the cursor, the queue above it and its snapshot.
BeginIngest ==
  /\ ~sweep.on
  /\ sweep' = [on |-> TRUE, rows |-> {i \in Id : i > cursor /\ Visible(i)},
               status |-> [i \in Id |-> IF i > cursor /\ Visible(i) THEN msg[i].status ELSE "absent"],
               mapped |-> {k \in mapped : \E i \in Id : i > cursor /\ Visible(i) /\ msg[i].key = k},
               missed |-> {}]
  /\ UNCHANGED <<msg, last, late, txn, sending, mapped, quarantine, replayed, broken, cursor>>

Unmapped == {i \in sweep.rows : msg[i].key \notin sweep.mapped}
RowsOf(k) == {i \in sweep.rows \ Unmapped : msg[i].key = k}
First(S)  == CHOOSE i \in S : \A j \in S : i <= j

\* Mutant: a transaction is created without the id of its row.
Ingested_NoLink(k, raised) ==
  IF RowsOf(k) \ raised = {} \/ k \in sweep.missed \/ txn[k].state # "none"
    THEN txn[k]
    ELSE [state |-> OdooState(sweep.status[First(RowsOf(k) \ raised)]), oid |-> 0]

\* _ingest_one_msg016t_row on the rows of one key, those in raised left out: the first
\* creates the transaction, or links one that has no row yet; its state is not looked at.
\* A conflict raises and is absorbed.
Ingested(k, raised) ==
  IF RowsOf(k) \ raised = {} \/ k \in sweep.missed
    THEN txn[k]
    ELSE LET i == First(RowsOf(k) \ raised)
         IN  IF txn[k].state = "none"
               THEN [state |-> OdooState(sweep.status[i]), oid |-> i]
               ELSE IF txn[k].oid = 0 THEN [txn[k] EXCEPT !.oid = i] ELSE txn[k]

\* The cursor goes to the last row read, whatever became of it.
AdvanceCursor ==
  IF sweep.rows = {} THEN cursor' = cursor
  ELSE \E c \in sweep.rows : (\A i \in sweep.rows : i <= c) /\ cursor' = c

\* Mutant: the cursor is moved past the rows, the unmapped ones are not recorded.
EndIngest_NoRecord(raised) ==
  /\ sweep.on /\ raised \subseteq sweep.rows
  /\ \A k \in Native : sending[k] = NoCall \/ RowsOf(k) = {}
  /\ txn'    = [k \in Key |-> Ingested(k, raised)]
  /\ broken' = broken \cup {i \in raised : txn'[msg[i].key].state = "none"}
  /\ AdvanceCursor
  /\ sweep' = Off
  /\ UNCHANGED <<msg, last, late, sending, mapped, quarantine, replayed>>

\* The commit.  A row whose dispatch is still open waits for it.  Any row may raise (an
\* amount that is no number, a required field, a constraint): it is logged.  An unmapped
\* row is recorded outside of its savepoint: if it has a record already, the cron fails.
EndIngest(raised) ==
  /\ sweep.on /\ raised \subseteq sweep.rows
  /\ (Unmapped \ raised) \cap quarantine = {}
  /\ \A k \in Native : sending[k] = NoCall \/ RowsOf(k) = {}
  /\ txn'        = [k \in Key |-> Ingested(k, raised)]
  /\ quarantine' = quarantine \cup (Unmapped \ raised)
  /\ broken'     = broken \cup {i \in raised : txn'[msg[i].key].state = "none"}
  /\ AdvanceCursor
  /\ sweep' = Off
  /\ UNCHANGED <<msg, last, late, sending, mapped, replayed>>

\* The record exists, or the worker dies: nothing is kept, the cursor stays.
AbortIngest ==
  /\ sweep.on
  /\ sweep' = Off
  /\ UNCHANGED <<msg, last, late, txn, sending, mapped, quarantine, replayed, broken, cursor>>

-----------------------------------------------------------------------------
\* Ops map the member or the voucher of a key.
MapKey(k) ==
  /\ k \notin mapped
  /\ mapped' = mapped \cup {k}
  /\ UNCHANGED <<msg, last, late, txn, sending, quarantine, replayed, broken, cursor, sweep>>

\* action_replay: re-reads the row and creates the transaction; a key that has one
\* raises on the unique index.
Replay(i) ==
  LET k == msg[i].key
  IN  /\ i \in quarantine \ replayed
      /\ k \in mapped
      /\ txn[k].state = "none"
      /\ txn'      = [txn EXCEPT ![k] = [state |-> OdooState(msg[i].status), oid |-> i]]
      /\ replayed' = replayed \cup {i}
      /\ sweep'    = Misses({k})
      /\ UNCHANGED <<msg, last, late, sending, mapped, quarantine, broken, cursor>>

\* The backfill wizard on one row: quarantined if unmapped (and a second record raises),
\* left alone if the key exists, otherwise created.
Backfill(i) ==
  LET k == msg[i].key
  IN  /\ Visible(i)
      /\ i <= cursor \/ BackfillAhead
      /\ \/ /\ k \notin mapped
            /\ i \notin quarantine
            /\ quarantine' = quarantine \cup {i}
            /\ UNCHANGED <<txn, sweep>>
         \/ /\ k \in mapped
            /\ txn[k].state = "none"
            /\ txn'   = [txn EXCEPT ![k] = [state |-> OdooState(msg[i].status), oid |-> i]]
            /\ sweep' = Misses({k})
            /\ UNCHANGED quarantine
      /\ UNCHANGED <<msg, last, late, sending, mapped, replayed, broken, cursor>>

Next ==
  \/ \E k \in Key : LegacySale(k) \/ SyncStatus(k) \/ MapKey(k)
  \/ \E k \in Native : ReapUnreachable(k) \/ Create(k) \/ Dispatch(k) \/ EndDispatch(k) \/ AbortDispatch(k)
  \/ \E i \in Id : Publish(i) \/ Decide(i) \/ Replay(i) \/ Backfill(i)
  \/ BeginIngest \/ AbortIngest \/ \E raised \in SUBSET Id : EndIngest(raised)

Spec == Init /\ [][Next]_vars

\* The crons run every minute (data/cron_oracle.xml) and their calls time out; a
\* request that waits for Oracle ends; the pipeline decides.  Strong fairness where a
\* dispatch, a dying worker or a row that raises may get in between.
Fairness ==
  /\ WF_vars(BeginIngest) /\ SF_vars(EndIngest({}))
  /\ \A k \in Key : SF_vars(SyncStatus(k))
  /\ \A k \in Native : WF_vars(EndDispatch(k) \/ AbortDispatch(k)) /\ SF_vars(EndDispatch(k))
  /\ \A i \in Id : WF_vars(Publish(i)) /\ WF_vars(Decide(i))

FairSpec == Spec /\ Fairness

-----------------------------------------------------------------------------
\* "The cursor advances past skipped rows; this table allows replay": a row the cursor
\* has passed has a transaction or a record to replay, whatever dispatches, replays and
\* backfills committed while the cron was reading.  The cursor loses the rows that became
\* visible after a higher one, and those whose ingestion raised, and no other.
NothingLost ==
  \A i \in Id : Visible(i) /\ i <= cursor /\ i \notin late \cup broken =>
    txn[msg[i].key].state # "none" \/ i \in quarantine

\* What Odoo calls a success the Oracle pipeline has delivered, under the row the
\* transaction is linked to.
SuccessIsDelivered ==
  \A k \in Key : txn[k].state = "success" =>
    txn[k].oid # 0 /\ msg[txn[k].oid] = [key |-> k, status |-> "D"]

\* Every sale of a desktop client that becomes visible in order reaches Odoo under its
\* own row and with the outcome the pipeline gave it, or waits in the table of skipped
\* rows, or raised when it was ingested.
LegacyArrives ==
  \A k \in Key \ Native :
    (\E i \in Id \ late : Visible(i) /\ msg[i].key = k) ~>
      \E i \in Id : /\ msg[i].key = k
                   /\ \/ i \in quarantine \cup broken
                      \/ /\ msg[i].status \in {"D", "C"}
                         /\ txn[k] = [state |-> OdooState(msg[i].status), oid |-> i]

-----------------------------------------------------------------------------
(***************************************************************************)
(* The inductive invariant: what the cron under way has not read lies      *)
(* below the cursor, above all it has read, or became visible late; and    *)
(* what it misses exists.                                                  *)
(***************************************************************************)
SweepIsInOrder ==
  sweep.on => \A i \in Id : Visible(i) /\ i > cursor /\ i \notin late =>
                i \in sweep.rows \/ \A j \in sweep.rows : j < i

ReadIsVisible ==
  \A i \in sweep.rows :
    /\ sweep.on
    /\ Visible(i)
    /\ sweep.status[i] \in {"D", "C"} => msg[i].status = sweep.status[i]

MissedExists == \A k \in sweep.missed : txn[k].state # "none"

SendingIsOwn ==
  \A k \in Native : sending[k] # NoCall =>
    /\ txn[k].state # "none"
    /\ sending[k] # Refused =>
         sending[k].oid # 0 /\ Visible(sending[k].oid) /\ msg[sending[k].oid].key = k

LinkIsOwn ==
  \A k \in Key : txn[k].oid # 0 => Visible(txn[k].oid) /\ msg[txn[k].oid].key = k

IdsInOrder == \A i \in Id : i > last => msg[i].status = "absent"

CursorIsRow == cursor # 0 => Visible(cursor)

QuarantineIsVisible == \A i \in quarantine : Visible(i)

IInv ==
  /\ TypeOK
  /\ NothingLost
  /\ SuccessIsDelivered
  /\ SweepIsInOrder
  /\ ReadIsVisible
  /\ MissedExists
  /\ SendingIsOwn
  /\ LinkIsOwn
  /\ IdsInOrder
  /\ CursorIsRow
  /\ QuarantineIsVisible
=============================================================================
