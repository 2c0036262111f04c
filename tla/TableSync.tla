----------------------------- MODULE TableSync -----------------------------
(***************************************************************************)
(* Synchronising single tables while a subscription replicates: the apply  *)
(* worker (process_syncing_tables, pglogical_apply.c), the sync workers    *)
(* (pglogical_sync.c), the catalog local_sync_status they share and the    *)
(* requests made from SQL (pglogical_functions.c).                         *)
(*                                                                         *)
(* A sync worker copies the table as of a snapshot of the provider, waits  *)
(* in SYNCWAIT until the apply worker tells it in CATCHUP how far to       *)
(* replay, replays to there and sets READY.  The apply worker skips the    *)
(* table's changes until then.                                             *)
(*                                                                         *)
(* An LSN is a number of provider transactions.  A transaction either      *)
(* changes every table or is the queue message that adds one table to the  *)
(* replication set.  A process in slot s of the shared memory is written   *)
(* as the slot itself: WorkerRegistry shows that it is the only one there. *)
(***************************************************************************)
EXTENDS Integers, Sequences, FiniteSets, Functions

CONSTANTS
  Tables,
  NoTable,     \* a slot that holds no sync worker
  AddedAt,     \* the transaction that queues TABLESYNC for each table, 0 if none does
  MaxTx,       \* bound: transactions on the provider, one less if rough
  NSync,       \* slots left for sync workers
  MaxFaults,   \* bound: crashes, signals and restarts
  MaxRequests, \* bound: resynchronize_table calls
  Roughness    \* the values rough may have

ASSUME SyncAssumption ==
  /\ Cardinality(Tables) \in Nat /\ MaxTx \in Nat /\ NSync \in Nat \ {0}
  /\ MaxFaults \in Nat /\ MaxRequests \in Nat
  /\ AddedAt \in [Tables -> 0 .. MaxTx]
  /\ NoTable \notin Tables
  /\ Roughness \subseteq BOOLEAN

VARIABLES
  rough,        \* sync workers may get SIGTERM, and may still be starting when the
                \* apply worker that launched them is replaced
  head,         \* transactions committed on the provider
  rslot,        \* whether the table's replication slot exists there
  status,       \* local_sync_status, "NONE" if there is no row
  count,        \* how often each transaction's change is in the local table
  apc,          \* where the apply worker is
  asig,         \* got_SIGTERM of the apply worker
  syncing,      \* SyncingTables
  sync_pending, \* MyApplyWorker->sync_pending
  ai,           \* the table of syncing it is at, or the slot it waits for
  apos,         \* last_received: the last transaction it received
  alsn,         \* replorigin_session_origin_lsn
  done,         \* progress of its replication origin
  conf,         \* confirmed position of its replication slot
  sw,           \* the sync workers' slots and processes
  request,      \* the table a SQL session is resynchronising, or NoTable, and
                \* whether its commit signals the workers
  requests,     \* calls so far
  faults        \* crashes, signals and restarts so far

apply == <<apc, asig, syncing, ai, apos, alsn, done, conf>>

vars == <<rough, head, rslot, status, count, apply, sync_pending, sw, request, requests,
          faults>>

Txs == 1 .. MaxTx

\* Bound: "this often or more" is not told apart.
MaxCount == 2

SlotNos == 1 .. NSync

Statuses == {"NONE", "INIT", "DATA", "SYNCWAIT", "CATCHUP", "READY"}

\* Steps of pglogical_sync_main; "none" is no process.
SyncSteps == {"none", "starting", "table", "slot", "data", "copy", "setwait",
              "wait", "decide", "stream", "drop", "commit", "exit"}

ApplySteps == {"down", "idle", "sync", "check", "ack", "wait", "look", "start",
               "startwait"}

SyncSlot == [tbl : Tables \cup {NoTable}, stop : 0 .. MaxTx, crashed : BOOLEAN, pc : SyncSteps,
             snap : 0 .. MaxTx, pos : 0 .. MaxTx, term : BOOLEAN, acked : BOOLEAN]

\* One type invariant for the module.
TypeOK ==
  /\ rough \in Roughness
  /\ head \in 0 .. MaxTx
  /\ rslot \in [Tables -> BOOLEAN]
  /\ status \in [Tables -> Statuses]
  /\ count \in [Tables -> [Txs -> 0 .. MaxCount]]
  /\ apc \in ApplySteps
  /\ asig \in BOOLEAN
  /\ syncing \in Seq(Tables)
  /\ sync_pending \in BOOLEAN
  /\ ai \in Nat
  /\ {apos, alsn, done, conf} \subseteq 0 .. MaxTx
  /\ sw \in [SlotNos -> SyncSlot]
  /\ request \in [tbl : Tables \cup {NoTable}, hook : BOOLEAN]
  /\ requests \in 0 .. MaxRequests
  /\ faults \in 0 .. MaxFaults

-----------------------------------------------------------------------------
\* A transaction that changes the tables, rather than queueing a message.
IsRowTx(i) == \A t \in Tables : AddedAt[t] # i

\* A change is applied once more.
Once(n) == IF n < MaxCount THEN n + 1 ELSE n

EmptySw == [tbl |-> NoTable, stop |-> 0, crashed |-> FALSE, pc |-> "none",
            snap |-> 0, pos |-> 0, term |-> FALSE, acked |-> FALSE]

NoRequest == [tbl |-> NoTable, hook |-> FALSE]

\* The subscription is synchronised and replicates the tables added before.
Init ==
  /\ rough \in Roughness
  /\ head = 0
  /\ rslot = [t \in Tables |-> FALSE]
  /\ status = [t \in Tables |-> IF AddedAt[t] = 0 THEN "READY" ELSE "NONE"]
  /\ count = [t \in Tables |-> [i \in Txs |-> 0]]
  /\ apc = "down" /\ asig = FALSE /\ syncing = <<>> /\ ai = 0
  /\ apos = 0 /\ alsn = 0 /\ done = 0 /\ conf = 0
  /\ sync_pending = FALSE
  /\ sw = [s \in SlotNos |-> EmptySw]
  /\ request = NoRequest /\ requests = 0
  /\ faults = 0

ProviderCommit ==
  /\ head < IF rough THEN MaxTx - 1 ELSE MaxTx
  /\ head' = head + 1
  /\ UNCHANGED <<rough, rslot, status, count, apply, sync_pending, sw, request, requests,
                 faults>>

\* pglogical_sync_find: the first slot of type SYNC for the table, or 0.  The
\* slot of a crashed worker keeps its type.
SyncFind(t) ==
  IF \E s \in SlotNos : sw[s].tbl = t
  THEN CHOOSE s \in SlotNos :
         sw[s].tbl = t /\ \A r \in SlotNos : sw[r].tbl = t => s <= r
  ELSE 0

\* pglogical_worker_running: attached and not yet detached.
Running(s) == sw[s].pc \notin {"none", "starting"}

\* find_empty_worker_slot.
FreeSlot(s) ==
  /\ sw[s].tbl = NoTable \/ sw[s].crashed
  /\ \A r \in SlotNos : r < s => ~(sw[r].tbl = NoTable \/ sw[r].crashed)

\* set_table_sync_status of another process waits for, and then fails on, the
\* row that a sync worker has set to READY and not yet committed.
RowLocked(t) == \E s \in SlotNos : sw[s].tbl = t /\ sw[s].pc \in {"drop", "commit"}

Later(m, n) == IF m >= n THEN m ELSE n

-----------------------------------------------------------------------------
(***************************************************************************)
(* The apply worker.                                                       *)
(***************************************************************************)
\* The manager starts it; registration sets sync_pending.
ApplyStart ==
  /\ apc = "down"
  /\ ~rough => \A s \in SlotNos : sw[s].pc # "starting"
  /\ apc' = "idle" /\ asig' = FALSE
  /\ syncing' = <<>> /\ ai' = 0
  /\ apos' = 0 /\ alsn' = 0
  /\ sync_pending' = TRUE
  /\ UNCHANGED <<rough, head, rslot, status, count, done, conf, sw, request, requests,
                 faults>>

\* The process ends: an ERROR, or proc_exit after SIGTERM.
ApplyDown ==
  /\ apc' = "down" /\ asig' = FALSE
  /\ syncing' = <<>> /\ ai' = 0 /\ apos' = 0 /\ alsn' = 0
  /\ UNCHANGED <<done, conf>>

\* What the walsender sends next.  The progress of the origin is a commit LSN, so
\* a new apply worker gets the last transaction again if it was not confirmed.
NextTx ==
  CASE apos # 0 -> apos + 1
    [] apos = 0 /\ conf >= done -> conf + 1
    [] OTHER -> done

\* The tables whose changes in transaction i the apply worker applies:
\* should_apply_changes_for_rel leaves out the ones in SyncingTables.
Applicable(i) ==
  {t \in Tables : IsRowTx(i) /\ AddedAt[t] < i /\ t \notin Range(syncing)}

\* The lists of the tables in S, in any order.
Lists(S) == UNION {Bijection(1 .. n, S) : n \in 0 .. Cardinality(Tables)}

\* handle_table_sync.
QueuedTables(i) == {t \in Tables : AddedAt[t] = i /\ status[t] = "NONE"}

\* BEGIN to COMMIT of one transaction, which waits for the lock of a TRUNCATE.  A
\* local transaction without writes does not move the origin.
\* process_syncing_tables follows.
ApplyTx ==
  /\ apc = "idle" /\ ~asig
  /\ NextTx <= head
  /\ request.tbl \notin Applicable(NextTx)
  /\ LET i == NextTx IN
     /\ count' = [t \in Tables |->
                    IF t \in Applicable(i) THEN [count[t] EXCEPT ![i] = Once(@)]
                    ELSE count[t]]
     /\ status' = [t \in Tables |-> IF t \in QueuedTables(i) THEN "INIT"
                                    ELSE status[t]]
     /\ \E q \in Lists(QueuedTables(i)) : syncing' = syncing \o q
     /\ done' = IF Applicable(i) \cup QueuedTables(i) # {} THEN Later(done, i)
                ELSE done
     /\ apos' = i /\ alsn' = i
  /\ apc' = "sync"
  /\ UNCHANGED <<rough, head, rslot, asig, sync_pending, ai, conf, sw, request, requests,
                 faults>>

\* The loop of apply_work comes round without a message.
ApplyPoll ==
  /\ apc = "idle" /\ ~asig
  /\ apc' = "sync"
  /\ UNCHANGED <<rough, head, rslot, status, count, asig, syncing, ai, apos, alsn, done,
                 conf, sync_pending, sw, request, requests, faults>>

\* send_feedback, whose safety is ApplyProgress.
ApplyFeedback ==
  /\ apc = "idle" /\ apos > conf
  /\ conf' = apos
  /\ UNCHANGED <<rough, head, rslot, status, count, apc, asig, syncing, ai, apos, alsn,
                 done, sync_pending, sw, request, requests, faults>>

\* get_unsynced_tables returns the rows in the order of the heap.
Unsynced == {t \in Tables : status[t] \notin {"NONE", "READY"}}

RereadUnsynced ==
  /\ apc = "sync"
  /\ apc' = "check" /\ ai' = 1
  /\ \/ ~sync_pending /\ UNCHANGED <<sync_pending, syncing>>
     \/ /\ sync_pending
        /\ sync_pending' = FALSE
        /\ syncing' \in Lists(Unsynced)
  /\ UNCHANGED <<rough, head, rslot, status, count, asig, apos, alsn, done, conf, sw,
                 request, requests, faults>>

NextTable == /\ apc' = "check" /\ ai' = ai + 1 /\ UNCHANGED syncing

DropTable ==
  /\ apc' = "check"
  /\ syncing' = SubSeq(syncing, 1, ai - 1) \o SubSeq(syncing, ai + 1, Len(syncing))
  /\ UNCHANGED ai

\* get_table_sync_status for the table the loop is at.
CheckTable ==
  /\ apc = "check" /\ ai <= Len(syncing)
  /\ CASE status[syncing[ai]] \in {"READY", "NONE"} -> DropTable
       [] status[syncing[ai]] = "SYNCWAIT" ->
            apc' = "ack" /\ UNCHANGED <<syncing, ai>>
       [] OTHER -> NextTable
  /\ UNCHANGED <<rough, head, rslot, status, count, asig, apos, alsn, done, conf,
                 sync_pending, sw, request, requests, faults>>

\* Mutant: the stop position has to be passed, not reached.
CanAck_Past(t) ==
  /\ SyncFind(t) # 0
  /\ Running(SyncFind(t))
  /\ apos > sw[SyncFind(t)].stop

\* The worker's stop position has been reached, so that it can be moved here.
CanAck(t) ==
  /\ SyncFind(t) # 0
  /\ Running(SyncFind(t))
  /\ apos >= sw[SyncFind(t)].stop

\* Mutant: the stop position is not moved.
AckPosition_KeepsStop(t) == sw[SyncFind(t)].stop

\* The position the sync worker is told to replay to.
AckPosition(t) == apos

\* Under the lock: the new stop position and CATCHUP, whose commit also moves
\* the origin.  The status was read before the lock was taken.
AckCatchup ==
  /\ apc = "ack"
  /\ LET t == syncing[ai] IN
     \/ ~CanAck(t) /\ NextTable /\ UNCHANGED <<status, asig, apos, alsn, done, conf, sw>>
     \/ CanAck(t) /\ RowLocked(t) /\ ApplyDown /\ UNCHANGED <<status, sw>>
     \/ /\ CanAck(t) /\ ~RowLocked(t)
        /\ status' = [status EXCEPT ![t] = "CATCHUP"]
        /\ sw' = [sw EXCEPT ![SyncFind(t)].stop = AckPosition(t),
                            ![SyncFind(t)].acked = TRUE]
        /\ done' = Later(done, alsn)
        /\ apc' = "wait"
        /\ UNCHANGED <<asig, syncing, ai, apos, alsn, conf>>
  /\ UNCHANGED <<rough, head, rslot, count, sync_pending, request, requests, faults>>

\* wait_for_sync_status_change(READY): the status first, ...
WaitReady ==
  /\ apc = "wait"
  /\ CASE asig \/ status[syncing[ai]] = "NONE" -> NextTable
       [] ~asig /\ status[syncing[ai]] = "READY" -> DropTable
       [] OTHER -> apc' = "look" /\ UNCHANGED <<syncing, ai>>
  /\ UNCHANGED <<rough, head, rslot, status, count, asig, apos, alsn, done, conf,
                 sync_pending, sw, request, requests, faults>>

\* ... then whether there is still a sync worker, in a separate step.
WaitLooks ==
  /\ apc = "look"
  /\ IF SyncFind(syncing[ai]) = 0 THEN NextTable
     ELSE apc' = "wait" /\ UNCHANGED <<syncing, ai>>
  /\ UNCHANGED <<rough, head, rslot, status, count, asig, apos, alsn, done, conf,
                 sync_pending, sw, request, requests, faults>>

\* Mutant: only a worker in SYNCWAIT counts as running.
SyncRuns_Waiting == \E s \in SlotNos : sw[s].tbl # NoTable /\ sw[s].pc = "wait"

\* pglogical_sync_find_all has a worker that is running.
SyncRuns == \E s \in SlotNos : sw[s].tbl # NoTable /\ Running(s)

\* The loop is over: one sync worker at a time.
CheckDone ==
  /\ apc = "check" /\ ai > Len(syncing)
  /\ apc' = IF syncing # <<>> /\ ~SyncRuns THEN "start" ELSE "idle"
  /\ ai' = 0
  /\ UNCHANGED <<rough, head, rslot, status, count, asig, syncing, apos, alsn, done, conf,
                 sync_pending, sw, request, requests, faults>>

\* start_sync_worker; the registration fails when no slot is free.
StartSyncWorker ==
  /\ apc = "start"
  /\ \/ /\ ~\E s \in SlotNos : FreeSlot(s)
        /\ ApplyDown
        /\ UNCHANGED sw
     \/ \E s \in SlotNos :
          /\ FreeSlot(s)
          /\ sw' = [sw EXCEPT ![s] = [EmptySw EXCEPT !.tbl = Head(syncing),
                                                     !.stop = alsn,
                                                     !.pc = "starting"]]
          /\ apc' = "startwait" /\ ai' = s
          /\ UNCHANGED <<asig, syncing, apos, alsn, done, conf>>
  /\ UNCHANGED <<rough, head, rslot, status, count, sync_pending, request, requests, faults>>

\* wait_for_worker_startup: the worker has attached, or is gone.
SyncWorkerStarted ==
  /\ apc = "startwait"
  /\ \/ asig /\ ApplyDown
     \/ /\ ~asig /\ sw[ai].pc # "starting"
        /\ apc' = "idle" /\ ai' = 0
        /\ UNCHANGED <<asig, syncing, apos, alsn, done, conf>>
  /\ UNCHANGED <<rough, head, rslot, status, count, sync_pending, sw, request, requests,
                 faults>>

\* The loop of apply_work sees got_SIGTERM.
ApplyTermExit ==
  /\ apc = "idle" /\ asig
  /\ ApplyDown
  /\ UNCHANGED <<rough, head, rslot, status, count, sync_pending, sw, request, requests,
                 faults>>

-----------------------------------------------------------------------------
(***************************************************************************)
(* The sync worker in slot s.                                              *)
(***************************************************************************)
\* It ends with an ERROR or FATAL: the slot keeps its type and is marked.  A
\* worker that never attached is marked by the apply worker that waits for it.
Crashed(s) ==
  [sw[s] EXCEPT !.pc = "none",
                !.crashed = sw[s].pc # "starting" \/ (apc = "startwait" /\ ai = s)]

\* While it copies, cleanup_error_cb drops the slot on the provider, if it can
\* reach it.
SyncFails(s) ==
  /\ sw' = [sw EXCEPT ![s] = Crashed(s)]
  /\ \/ UNCHANGED rslot
     \/ /\ sw[s].pc \in {"data", "copy"}
        /\ rslot' = [rslot EXCEPT ![sw[s].tbl] = FALSE]

Goto(s, pc) == [sw EXCEPT ![s].pc = pc]

SyncAttach(s) ==
  /\ sw[s].pc = "starting"
  /\ sw' = Goto(s, "table")
  /\ UNCHANGED <<rough, head, rslot, status, count, apply, sync_pending, request, requests,
                 faults>>

\* Mutant: a table that is READY is synchronised again.
SyncTableBegin_Always(s) ==
  /\ sw[s].pc = "table"
  /\ ~RowLocked(sw[s].tbl)
  /\ status' = [status EXCEPT ![sw[s].tbl] = "INIT"]
  /\ sw' = Goto(s, "slot")
  /\ UNCHANGED <<rough, head, rslot, count, apply, sync_pending, request, requests, faults>>

\* pglogical_sync_table, up to the commit of INIT.  For a table that is READY it
\* returns with its transaction open, and starting the next one fails.
SyncTableBegin(s) ==
  /\ sw[s].pc = "table"
  /\ LET t == sw[s].tbl IN
     \/ /\ status[t] \in {"NONE", "READY"} \/ RowLocked(t)
        /\ sw' = [sw EXCEPT ![s] = Crashed(s)]
        /\ UNCHANGED status
     \/ /\ status[t] \notin {"NONE", "READY"} /\ ~RowLocked(t)
        /\ status' = [status EXCEPT ![t] = "INIT"]
        /\ sw' = Goto(s, "slot")
  /\ UNCHANGED <<rough, head, rslot, count, apply, sync_pending, request, requests, faults>>

\* Mutant: an existing slot is used again.
SyncCreateSlot_Reuses(s) ==
  /\ sw[s].pc = "slot"
  /\ rslot' = [rslot EXCEPT ![sw[s].tbl] = TRUE]
  /\ sw' = [sw EXCEPT ![s].pc = "data", ![s].snap = head, ![s].pos = head]
  /\ UNCHANGED <<rough, head, status, count, apply, sync_pending, request, requests, faults>>

\* ensure_replication_slot_snapshot: a slot that exists is FATAL.
SyncCreateSlot(s) ==
  /\ sw[s].pc = "slot"
  /\ LET t == sw[s].tbl IN
     \/ /\ rslot[t]
        /\ sw' = [sw EXCEPT ![s] = Crashed(s)]
        /\ UNCHANGED rslot
     \/ /\ ~rslot[t]
        /\ rslot' = [rslot EXCEPT ![t] = TRUE]
        /\ sw' = [sw EXCEPT ![s].pc = "data", ![s].snap = head, ![s].pos = head]
  /\ UNCHANGED <<rough, head, status, count, apply, sync_pending, request, requests, faults>>

\* set_table_sync_status, which fails on a row another worker holds.
SyncSetStatus(s, from, st, to) ==
  /\ sw[s].pc = from
  /\ \/ RowLocked(sw[s].tbl) /\ SyncFails(s) /\ UNCHANGED status
     \/ /\ ~RowLocked(sw[s].tbl)
        /\ status' = [status EXCEPT ![sw[s].tbl] = st]
        /\ sw' = Goto(s, to)
        /\ UNCHANGED rslot
  /\ UNCHANGED <<rough, head, count, apply, sync_pending, request, requests, faults>>

SyncData(s) == SyncSetStatus(s, "data", "DATA", "copy")

\* copy_tables_data: the rows the snapshot shows.
SyncCopy(s) ==
  /\ sw[s].pc = "copy"
  /\ count' = [count EXCEPT ![sw[s].tbl] =
                 [i \in Txs |-> IF i <= sw[s].snap /\ IsRowTx(i) THEN Once(@[i]) ELSE @[i]]]
  /\ sw' = Goto(s, "setwait")
  /\ UNCHANGED <<rough, head, rslot, status, apply, sync_pending, request, requests, faults>>

SyncSetWait(s) == SyncSetStatus(s, "setwait", "SYNCWAIT", "wait")

\* Mutant: the worker does not wait for CATCHUP.
SyncWait_AnyStatus(s) ==
  /\ sw[s].pc = "wait"
  /\ sw' = Goto(s, "decide")
  /\ UNCHANGED <<rough, head, rslot, status, count, apply, sync_pending, request, requests,
                 faults>>

\* wait_for_sync_status_change(CATCHUP); the caller ignores its result.
SyncWait(s) ==
  /\ sw[s].pc = "wait"
  /\ status[sw[s].tbl] \in {"CATCHUP", "NONE"} \/ sw[s].term
  /\ sw' = Goto(s, "decide")
  /\ UNCHANGED <<rough, head, rslot, status, count, apply, sync_pending, request, requests,
                 faults>>

\* Nothing to catch up: the snapshot is at the stop position or past it.
SyncDecide(s) ==
  /\ sw[s].pc = "decide"
  /\ sw' = Goto(s, IF sw[s].snap >= sw[s].stop THEN "drop" ELSE "stream")
  /\ UNCHANGED <<rough, head, rslot, status, count, apply, sync_pending, request, requests,
                 faults>>

\* Mutant: replay ends one transaction early.
ReplayDone_OneLess(s, end_lsn) == sw[s].stop # 0 /\ sw[s].stop <= end_lsn + 1

\* handle_commit of a sync worker: it has replayed to the stop position.
ReplayDone(s, end_lsn) == sw[s].stop # 0 /\ sw[s].stop <= end_lsn

\* apply_work in a sync worker: one transaction, or the exit SIGTERM asks for.
SyncStream(s) ==
  /\ sw[s].pc = "stream"
  /\ \/ /\ sw[s].term
        /\ sw' = [sw EXCEPT ![s] = Crashed(s)]
        /\ UNCHANGED count
     \/ /\ ~sw[s].term /\ sw[s].pos < head
        /\ LET i == sw[s].pos + 1 IN
           /\ count' = IF IsRowTx(i) THEN [count EXCEPT ![sw[s].tbl][i] = Once(@)] ELSE count
           /\ sw' = [sw EXCEPT ![s].pos = i,
                               ![s].pc = IF ReplayDone(s, i) THEN "drop" ELSE @]
  /\ UNCHANGED <<rough, head, rslot, status, apply, sync_pending, request, requests, faults>>

\* pglogical_sync_worker_finish: the row is READY but not committed while the
\* slot on the provider is dropped; ...
SyncDropSlot(s) ==
  /\ sw[s].pc = "drop"
  /\ rslot' = [rslot EXCEPT ![sw[s].tbl] = FALSE]
  /\ sw' = Goto(s, "commit")
  /\ UNCHANGED <<rough, head, status, count, apply, sync_pending, request, requests, faults>>

\* ... then READY commits; ...
SyncReady(s) ==
  /\ sw[s].pc = "commit"
  /\ status' = [status EXCEPT ![sw[s].tbl] = "READY"]
  /\ sw' = Goto(s, "exit")
  /\ UNCHANGED <<rough, head, rslot, count, apply, sync_pending, request, requests, faults>>

\* ... and last the worker detaches.
SyncExit(s) ==
  /\ sw[s].pc = "exit"
  /\ sw' = [sw EXCEPT ![s] = EmptySw]
  /\ UNCHANGED <<rough, head, rslot, status, count, apply, sync_pending, request, requests,
                 faults>>

-----------------------------------------------------------------------------
(***************************************************************************)
(* Requests from SQL, and faults.                                          *)
(***************************************************************************)
\* pglogical_alter_subscription_resynchronize_table with truncate, of a table that
\* has a row in local_sync_status.  It sets sync_pending of a running apply
\* worker, or else has the commit signal the workers; the new status is not
\* visible yet.
Resynchronize(t) ==
  /\ requests < MaxRequests
  /\ request = NoRequest
  /\ status[t] = "READY"
  /\ request' = [tbl |-> t, hook |-> apc = "down"]
  /\ requests' = requests + 1
  /\ sync_pending' = (sync_pending \/ apc # "down")
  /\ UNCHANGED <<rough, head, rslot, status, count, apply, sw, faults>>

\* The transaction of the SQL session commits; signal_worker_xact_callback
\* terminates the apply worker that has come up since.
RequestCommits ==
  /\ request # NoRequest
  /\ status' = [status EXCEPT ![request.tbl] = "INIT"]
  /\ count' = [count EXCEPT ![request.tbl] = [i \in Txs |-> 0]]
  /\ asig' = (asig \/ (request.hook /\ apc # "down"))
  /\ request' = NoRequest
  /\ UNCHANGED <<rough, head, rslot, apc, syncing, ai, apos, alsn, done, conf, sync_pending,
                 sw, requests, faults>>

Fault == faults < MaxFaults /\ faults' = faults + 1

ApplySignal ==
  /\ Fault
  /\ apc # "down" /\ ~asig
  /\ asig' = TRUE
  /\ UNCHANGED <<rough, head, rslot, status, count, apc, syncing, ai, apos, alsn, done, conf,
                 sync_pending, sw, request, requests>>

ApplyFails ==
  /\ Fault
  /\ apc # "down"
  /\ ApplyDown
  /\ UNCHANGED <<rough, head, rslot, status, count, sync_pending, sw, request, requests>>

SyncSignal(s) ==
  /\ rough
  /\ Fault
  /\ sw[s].pc \notin {"none", "starting"} /\ ~sw[s].term
  /\ sw' = [sw EXCEPT ![s].term = TRUE]
  /\ UNCHANGED <<rough, head, rslot, status, count, apply, sync_pending, request, requests>>

SyncCrash(s) ==
  /\ Fault
  /\ sw[s].pc # "none"
  /\ SyncFails(s)
  /\ UNCHANGED <<rough, head, status, count, apply, sync_pending, request, requests>>

\* The subscriber's server restarts, with empty shared memory.
ServerRestart ==
  /\ Fault
  /\ sw' = [s \in SlotNos |-> EmptySw]
  /\ ApplyDown
  /\ request' = NoRequest
  /\ UNCHANGED <<rough, head, rslot, status, count, sync_pending, requests>>

ApplyStep ==
  \/ ApplyStart \/ ApplyTx \/ ApplyPoll \/ RereadUnsynced \/ CheckTable
  \/ AckCatchup \/ WaitReady \/ WaitLooks \/ CheckDone \/ StartSyncWorker
  \/ SyncWorkerStarted \/ ApplyTermExit

SyncStep(s) ==
  \/ SyncAttach(s) \/ SyncTableBegin(s) \/ SyncCreateSlot(s) \/ SyncData(s)
  \/ SyncCopy(s) \/ SyncSetWait(s) \/ SyncWait(s) \/ SyncDecide(s) \/ SyncStream(s)
  \/ SyncDropSlot(s) \/ SyncReady(s) \/ SyncExit(s)

Next ==
  \/ ProviderCommit \/ ApplyStep \/ ApplyFeedback
  \/ \E s \in SlotNos : SyncStep(s)
  \/ \E t \in Tables : Resynchronize(t)
  \/ RequestCommits
  \/ ApplySignal \/ ApplyFails \/ ServerRestart
  \/ \E s \in SlotNos : SyncSignal(s) \/ SyncCrash(s)

Spec == Init /\ [][Next]_vars

\* The processes run, a message that has arrived is handled before the loop of
\* apply_work sleeps again, and a SQL transaction ends.
Fairness ==
  /\ WF_vars(ApplyStep) /\ SF_vars(ApplyTx)
  /\ \A s \in SlotNos : WF_vars(SyncStep(s))
  /\ WF_vars(RequestCommits)

FairSpec == Spec /\ Fairness

-----------------------------------------------------------------------------
(***************************************************************************)
(* Properties.                                                             *)
(***************************************************************************)
\* While the apply worker waits for READY, a sync worker that is done replaying
\* has left the table with exactly the changes up to the position the apply
\* worker continues from, or up to its snapshot where that is later: none that
\* the apply worker skipped is lost, and none past both is there to be applied
\* a second time.  The apply worker has received a transaction: its position is
\* not InvalidXLogRecPtr; and no sync worker got SIGTERM or was starting when its
\* apply worker was replaced.
HandoverExact ==
  \A s \in SlotNos, i \in Txs :
    /\ ~rough /\ apc \in {"wait", "look"} /\ apos # 0 /\ sw[s].tbl = syncing[ai]
    /\ sw[s].pc \in {"drop", "commit", "exit"} /\ status[sw[s].tbl] \in {"CATCHUP", "READY"}
    /\ IsRowTx(i)
    => (count[sw[s].tbl][i] >= 1 <=> i <= Later(apos, sw[s].snap))

\* The replication slot of the table on the provider, whose creation fails when
\* it exists, keeps a second sync worker for the table (started by an apply
\* worker that restarted) from copying it at the same time.
OneCopier ==
  \A s, r \in SlotNos :
    /\ sw[s].tbl = sw[r].tbl
    /\ sw[s].pc \in {"data", "copy", "setwait", "wait", "decide", "stream", "drop"}
    /\ sw[r].pc \in {"data", "copy", "setwait", "wait", "decide", "stream", "drop"}
    => s = r

\* A sync worker sets READY only after the ack of the apply worker ("Wait for ack
\* from the main apply thread"), unless it got SIGTERM.
AckedBeforeReady ==
  ~rough => \A s \in SlotNos : sw[s].pc \in {"drop", "commit", "exit"} => sw[s].acked

\* Tables are synchronised one by one: process_syncing_tables starts a sync worker
\* only when none is running.
OneByOne ==
  \A s, r \in SlotNos : Running(s) /\ Running(r) => s = r

\* Only a request takes a table out of READY, unless a second sync worker of the
\* table is on its way, as above.
ReadyUntilRequest ==
  [][\A t \in Tables : ~rough /\ status[t] = "READY" /\ status'[t] # "READY" => request.tbl = t]_vars

\* A table that is to be synchronised becomes READY, and the apply worker
\* resumes applying its changes, unless a fault strikes: after one, the apply
\* worker may wait for good (NoWaitForTheDead, below, fails).
SyncCompletes ==
  \A t \in Tables :
    status[t] = "INIT" ~> (status[t] = "READY" /\ t \notin Range(syncing)) \/ faults > 0

-----------------------------------------------------------------------------
(***************************************************************************)
(* What a comment of the code, or its design, promises and the code does   *)
(* not establish.  README.md says with which constants TLC refutes each.   *)
(***************************************************************************)
\* A sync worker that finishes without replaying ("In case there is nothing to
\* catchup, finish immediately") has copied every change that the apply worker
\* will not receive any more.
NothingToCatchUp ==
  \A s \in SlotNos :
    /\ apc \in {"wait", "look"} /\ sw[s].tbl = syncing[ai]
    /\ sw[s].pc = "drop" /\ sw[s].pos = sw[s].snap
    => sw[s].snap >= NextTx - 1

\* A retry can begin again ("If previous sync attempt failed, we need to start from
\* beginning"): when no other sync worker of the table is running, the slot it is
\* about to create does not exist.
RetryStartsClean ==
  \A s \in SlotNos :
    /\ sw[s].pc = "slot"
    /\ \A r \in SlotNos \ {s} : sw[r].tbl = sw[s].tbl => ~Running(r)
    => ~rslot[sw[s].tbl]

\* The apply worker applies no change to a table that is being synchronised.
SkipsSyncing ==
  [][ApplyTx => \A t \in Tables :
       status[t] \in {"INIT", "DATA", "SYNCWAIT"} => count'[t] = count[t]]_vars

\* The wait for READY gives up on a sync worker that is not there only if
\* "something bad happened to it", not when it has finished.
GivesUpOnlyOnTrouble ==
  apc = "look" /\ SyncFind(syncing[ai]) = 0 => status[syncing[ai]] # "READY"

\* The apply worker does not wait for a sync worker that died ("no point waiting
\* if it died").
NoWaitForTheDead ==
  (apc \in {"wait", "look"}
     /\ ~\E s \in SlotNos : sw[s].tbl = syncing[ai] /\ Running(s)) ~>
  apc \notin {"wait", "look"}
\* A sync worker sets READY only after the ack ("Wait for ack from the main apply
\* thread"), also when it gets SIGTERM while it waits.
AlwaysAcked == \A s \in SlotNos : sw[s].pc \in {"drop", "commit", "exit"} => sw[s].acked
=============================================================================
