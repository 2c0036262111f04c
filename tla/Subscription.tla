---------------------------- MODULE Subscription ----------------------------
(***************************************************************************)
(* The life of one subscription: created and dropped from SQL              *)
(* (pglogical_functions.c), synchronised once by its apply worker          *)
(* (pglogical_sync_subscription, pglogical_sync.c) and then streamed       *)
(* (pglogical_apply_main, pglogical_apply.c).                              *)
(*                                                                         *)
(* Its state is spread over two servers: the replication slot on the       *)
(* provider, and on the subscriber the catalog rows, the replication       *)
(* origin and the data.  Each is changed by a transaction or a remote      *)
(* command of its own, and a process may end between any two.              *)
(*                                                                         *)
(* Provider transactions are numbered, and a position in its WAL is the    *)
(* commit record of one or the place behind it.  Streaming applies a       *)
(* transaction and moves the origin to its commit record in one step, and  *)
(* the provider confirms what is durable: ApplyProgress has the detail.    *)
(***************************************************************************)
EXTENDS Integers, FiniteSets

CONSTANTS
  Kinds,         \* what create_subscription is asked to synchronise
  MaxTx,         \* bound: transactions on the provider
  MaxCalls,      \* bound: subscriptions created, enabled or disabled
  MaxFaults      \* bound: errors, lost connections, cancelled calls, restarts

ASSUME SubscriptionAssumption ==
  /\ Kinds \subseteq {"FULL", "STRUCTURE", "DATA", "INIT"}
  /\ MaxTx \in Nat /\ MaxCalls \in Nat /\ MaxFaults \in Nat

VARIABLES
  head,    \* transactions committed on the provider
  slot,    \* the subscription's replication slot on the provider
  sub,     \* its row in pglogical.subscription
  status,  \* its row in local_sync_status, "NONE" if there is none
  tables,  \* the rows of its tables there
  origin,  \* progress of its replication origin, NoOrigin if there is none
  schema,  \* what of the structure is there: nothing, tables, constraints
  count,   \* how often each transaction was copied or applied to the local tables
  again,   \* history: the transactions a new stream began with although it had them
  worker,  \* the apply worker
  mwait,   \* the manager waits for it to attach, and holds the lock of the node
  dpc,     \* where drop_subscription is
  calls, faults,
  mishap   \* history: the mishaps the properties make exceptions for

vars == <<head, slot, sub, status, tables, origin, schema, count, again, worker, mwait, dpc,
          calls, faults, mishap>>

Txs == 1 .. MaxTx

\* Bound: "this often or more" is not told apart.
MaxCount == 2

\* The positions of a commit record, and of what follows it.
CommitLsn(i) == 2 * i - 1
EndLsn(i) == 2 * i

Lsns == 0 .. EndLsn(MaxTx)

NoOrigin == -1

NoSlot == [here |-> FALSE, pos |-> 0, active |-> FALSE]

NoWorker == [pc |-> "down", sigterm |-> FALSE, kind |-> "INIT", snap |-> 0,
             next |-> 1]

\* Steps of the apply worker; the ones of InCleanup have the error callback.
WorkerSteps == {"down", "launched", "load", "status", "slot", "origin", "structure", "predata",
                "data", "copy", "mark", "constraints", "postdata", "catchup", "ready",
                "setup", "start", "stream"}

InCleanup == {"origin", "structure", "predata", "data", "copy", "mark", "constraints", "postdata"}

SlotRecord == [here : BOOLEAN, pos : Lsns, active : BOOLEAN]
SubRecord == [here : BOOLEAN, enabled : BOOLEAN, kind : Kinds \cup {"INIT"}]
WorkerRecord == [pc : WorkerSteps, sigterm : BOOLEAN, kind : Kinds \cup {"INIT"}, snap : 0 .. MaxTx,
                 next : 1 .. MaxTx + 1]

\* One type invariant for the module.
TypeOK ==
  /\ head \in 0 .. MaxTx
  /\ slot \in SlotRecord
  /\ sub \in SubRecord
  /\ status \in {"NONE", "INIT", "STRUCTURE", "DATA", "CONSTRAINTS", "CATCHUP", "READY"}
  /\ tables \in {"NONE", "READY"}
  /\ origin \in Lsns \cup {NoOrigin}
  /\ schema \in {"none", "tables", "constraints"}
  /\ count \in [Txs -> 0 .. MaxCount]
  /\ again \subseteq Txs
  /\ worker \in WorkerRecord
  /\ mwait \in BOOLEAN
  /\ dpc \in {"idle", "wait", "slot", "origin"}
  /\ calls \in 0 .. MaxCalls
  /\ faults \in 0 .. MaxFaults
  /\ mishap \subseteq {"manager_failed", "slot_lost"}

Init ==
  /\ head = 0 /\ slot = NoSlot
  /\ sub = [here |-> FALSE, enabled |-> FALSE, kind |-> "INIT"]
  /\ status = "NONE" /\ tables = "NONE" /\ origin = NoOrigin
  /\ schema = "none" /\ count = [i \in Txs |-> 0] /\ again = {}
  /\ worker = NoWorker /\ mwait = FALSE /\ dpc = "idle"
  /\ calls = 0 /\ faults = 0 /\ mishap = {}

ProviderCommit ==
  /\ head < MaxTx
  /\ head' = head + 1
  /\ UNCHANGED <<slot, sub, status, tables, origin, schema, count, again, worker, mwait, dpc, calls,
                 faults, mishap>>

SyncKindStructure(kind) == kind \in {"FULL", "STRUCTURE"}
SyncKindData(kind) == kind \in {"FULL", "DATA"}

\* pglogical_worker_running: attached and not yet detached.
Running == worker.pc \notin {"down", "launched"}

\* get_local_node(for_update): one transaction at a time.
NodeLockFree == ~mwait /\ dpc = "idle"

Once(n) == IF n < MaxCount THEN n + 1 ELSE n

-----------------------------------------------------------------------------
(***************************************************************************)
(* The functions called from SQL.                                          *)
(***************************************************************************)
\* pglogical_create_subscription.  The target is prepared as the manual asks: no
\* objects if the structure is to be copied, empty tables if the data is.
CreateSubscription(kind) ==
  /\ calls < MaxCalls /\ calls' = calls + 1
  /\ NodeLockFree
  /\ ~sub.here
  /\ sub' = [here |-> TRUE, enabled |-> TRUE, kind |-> kind]
  /\ status' = "INIT"
  /\ schema' = IF SyncKindStructure(kind) THEN "none" ELSE "constraints"
  /\ count' = [i \in Txs |-> 0] /\ again' = {}
  /\ UNCHANGED <<head, slot, tables, origin, worker, mwait, dpc, faults, mishap>>

\* Mutant: the signal is not sent.
Signalled_Not == worker

\* pglogical_worker_kill, and the commit callback of a changed subscription.
Signalled == [worker EXCEPT !.sigterm = @ \/ Running]

\* pglogical_alter_subscription_enable and _disable.
AlterEnabled ==
  /\ calls < MaxCalls /\ calls' = calls + 1
  /\ NodeLockFree
  /\ sub.here
  /\ sub' = [sub EXCEPT !.enabled = ~@]
  /\ worker' = Signalled
  /\ UNCHANGED <<head, slot, status, tables, origin, schema, count, again, mwait, dpc, faults, mishap>>

\* pglogical_drop_subscription up to its wait: the rows are deleted, and locked
\* until it commits; the apply worker is told to stop.
DropBegin ==
  /\ NodeLockFree
  /\ sub.here
  /\ dpc' = "wait"
  /\ worker' = Signalled
  /\ UNCHANGED <<head, slot, sub, status, tables, origin, schema, count, again, mwait, calls, faults, mishap>>

\* Mutant: it does not wait for the apply worker.
DropWaited_Not ==
  /\ dpc = "wait"
  /\ dpc' = "slot"
  /\ UNCHANGED <<head, slot, sub, status, tables, origin, schema, count, again, worker, mwait, calls,
                 faults, mishap>>

\* The loop that waits for the apply worker; one that is not attached yet does not
\* count.
DropWaited ==
  /\ dpc = "wait" /\ ~Running
  /\ dpc' = "slot"
  /\ UNCHANGED <<head, slot, sub, status, tables, origin, schema, count, again, worker, mwait, calls,
                 faults, mishap>>

\* pglogical_drop_remote_slot: a slot that is not there is no error, ...
RemoteSlotDropped == ~slot.active /\ slot' = NoSlot

\* ... and an error of it becomes a warning.
DropSlot ==
  /\ dpc = "slot"
  /\ dpc' = "origin"
  /\ \/ RemoteSlotDropped /\ UNCHANGED faults
     \/ slot.active /\ UNCHANGED <<slot, faults>>
     \/ faults < MaxFaults /\ faults' = faults + 1 /\ UNCHANGED slot
  /\ UNCHANGED <<head, sub, status, tables, origin, schema, count, again, worker, mwait, calls, mishap>>

\* The origin, which another process must not be using, and the commit; or the
\* error that brings the rows back.
DropOrigin ==
  /\ dpc = "origin"
  /\ dpc' = "idle"
  /\ \/ /\ worker.pc \in {"start", "stream"} /\ origin # NoOrigin
        /\ mishap' = mishap \cup {"slot_lost"}
        /\ UNCHANGED <<sub, status, tables, origin, worker>>
     \/ /\ ~(worker.pc \in {"start", "stream"} /\ origin # NoOrigin)
        /\ origin' = NoOrigin
        /\ sub' = [sub EXCEPT !.here = FALSE, !.enabled = FALSE]
        /\ status' = "NONE" /\ tables' = "NONE"
        /\ worker' = Signalled
        /\ UNCHANGED mishap
  /\ UNCHANGED <<head, slot, schema, count, again, mwait, calls, faults>>

Fault == faults < MaxFaults /\ faults' = faults + 1

\* The caller cancels the wait.
DropCancelled ==
  /\ Fault
  /\ dpc = "wait"
  /\ dpc' = "idle"
  /\ UNCHANGED <<head, slot, sub, status, tables, origin, schema, count, again, worker, mwait, calls, mishap>>

-----------------------------------------------------------------------------
(***************************************************************************)
(* The manager and the apply worker.                                       *)
(***************************************************************************)
\* manage_apply_workers for this subscription.
Launch ==
  /\ sub.here /\ sub.enabled
  /\ worker.pc = "down"
  /\ NodeLockFree
  /\ worker' = [NoWorker EXCEPT !.pc = "launched"]
  /\ mwait' = TRUE
  /\ UNCHANGED <<head, slot, sub, status, tables, origin, schema, count, again, dpc, calls, faults, mishap>>

Attach ==
  /\ worker.pc = "launched"
  /\ worker' = [worker EXCEPT !.pc = "load"]
  /\ mwait' = FALSE
  /\ UNCHANGED <<head, slot, sub, status, tables, origin, schema, count, again, dpc, calls, faults, mishap>>

\* The manager ends, and with it its transaction, while the worker comes up.
ManagerFails ==
  /\ Fault
  /\ mwait
  /\ mwait' = FALSE
  /\ mishap' = mishap \cup {"manager_failed"}
  /\ UNCHANGED <<head, slot, sub, status, tables, origin, schema, count, again, worker, dpc, calls>>

Goto(pc) == worker' = [worker EXCEPT !.pc = pc]

\* The process ends and its connections close; the walsender of a stream ends
\* too.
Exit ==
  /\ worker' = NoWorker
  /\ slot' = [slot EXCEPT !.active = @ /\ worker.pc # "stream"]

\* get_subscription.
Load ==
  /\ worker.pc = "load"
  /\ \/ ~sub.here /\ Exit
     \/ /\ sub.here
        /\ worker' = [worker EXCEPT !.pc = "status", !.kind = sub.kind]
        /\ UNCHANGED slot
  /\ UNCHANGED <<head, sub, status, tables, origin, schema, count, again, mwait, dpc, calls, faults, mishap>>

\* Mutant: only a subscription that was synchronised before starts.
Recovery_NotInit(st) ==
  CASE st = "READY" -> "setup"
    [] st = "CATCHUP" -> "ready"
    [] OTHER -> "down"

\* Where pglogical_sync_subscription goes on from; "down" is its error for a step
\* that cannot be recovered.
Recovery(st) ==
  CASE st = "READY" -> "setup"
    [] st = "INIT" -> "slot"
    [] st = "CATCHUP" -> "ready"
    [] OTHER -> "down"

ReadStatus ==
  /\ worker.pc = "status"
  /\ IF Recovery(status) = "down" THEN Exit ELSE Goto(Recovery(status)) /\ UNCHANGED slot
  /\ UNCHANGED <<head, sub, status, tables, origin, schema, count, again, mwait, dpc, calls, faults, mishap>>

\* ensure_replication_slot_snapshot: the slot begins where its snapshot is taken.
SnapshotSlot == [here |-> TRUE, pos |-> EndLsn(head), active |-> FALSE]

\* The slot and its snapshot; FATAL for a slot that exists.
CreateSlot ==
  /\ worker.pc = "slot"
  /\ \/ slot.here /\ Exit
     \/ /\ ~slot.here
        /\ slot' = SnapshotSlot
        /\ worker' = [worker EXCEPT !.pc = "origin", !.snap = head]
  /\ UNCHANGED <<head, sub, status, tables, origin, schema, count, again, mwait, dpc, calls, faults, mishap>>

\* What follows a step, for the kind of synchronisation.
AfterOrigin == CASE SyncKindStructure(worker.kind) -> "structure"
                 [] worker.kind = "DATA" -> "data"
                 [] OTHER -> "catchup"
AfterStructure == IF SyncKindData(worker.kind) THEN "data" ELSE "constraints"
AfterData == IF SyncKindStructure(worker.kind) THEN "constraints" ELSE "catchup"

\* Mutant: an origin that exists keeps its position.
OriginAt_Kept == IF origin = NoOrigin THEN EndLsn(worker.snap) ELSE origin

\* ensure_replication_origin and replorigin_advance, which may go backwards.
OriginAt == EndLsn(worker.snap)

EnsureOrigin ==
  /\ worker.pc = "origin"
  /\ origin' = OriginAt
  /\ Goto(AfterOrigin)
  /\ UNCHANGED <<head, slot, sub, status, tables, schema, count, again, mwait, dpc, calls, faults, mishap>>

\* pglogical_sync_worker_cleanup_error_cb, then the exit.
CleanupAndExit ==
  /\ worker' = NoWorker
  /\ \/ slot' = IF worker.pc \in InCleanup THEN NoSlot ELSE
                [slot EXCEPT !.active = @ /\ worker.pc # "stream"]
     \/ worker.pc \in InCleanup /\ UNCHANGED slot

\* A transaction with set_subscription_sync_status.  It waits for a transaction
\* that has deleted the row, ...
SetStatus(from, st, to) ==
  /\ worker.pc = from
  /\ dpc = "idle"
  /\ status # "NONE"
  /\ status' = st
  /\ Goto(to)
  /\ UNCHANGED <<head, slot, sub, tables, origin, schema, count, again, mwait, dpc, calls, faults, mishap>>

SetStructure == SetStatus("structure", "STRUCTURE", "predata")
SetData == SetStatus("data", "DATA", "copy")
SetConstraints == SetStatus("constraints", "CONSTRAINTS", "postdata")
SetCatchup == SetStatus("catchup", "CATCHUP", "ready")
SetReady == SetStatus("ready", "READY", "setup")

\* ... and fails if the row is gone.
RowIsGone ==
  /\ worker.pc \in {"structure", "data", "constraints", "catchup", "ready"}
  /\ dpc = "idle"
  /\ status = "NONE"
  /\ CleanupAndExit
  /\ UNCHANGED <<head, sub, status, tables, origin, schema, count, again, mwait, dpc, calls, faults, mishap>>

\* dump_structure and restore_structure of a section, ...
Restore(from, before, after, to) ==
  /\ worker.pc = from
  /\ schema = before
  /\ schema' = after
  /\ Goto(to)
  /\ UNCHANGED <<head, slot, sub, status, tables, origin, count, again, mwait, dpc, calls, faults, mishap>>

RestorePreData == Restore("predata", "none", "tables", AfterStructure)
RestorePostData == Restore("postdata", "tables", "constraints", "catchup")

\* ... which fails on what is there already.
RestoreFails ==
  /\ \/ worker.pc = "predata" /\ schema # "none"
     \/ worker.pc = "postdata" /\ schema # "tables"
  /\ CleanupAndExit
  /\ UNCHANGED <<head, sub, status, tables, origin, schema, count, again, mwait, dpc, calls, faults, mishap>>

\* copy_table_data: the rows the snapshot shows.
Copied == [i \in Txs |-> IF i <= worker.snap THEN Once(count[i]) ELSE count[i]]

\* copy_replication_sets_data: all tables in one transaction.
CopyData ==
  /\ worker.pc = "copy"
  /\ count' = Copied
  /\ Goto("mark")
  /\ UNCHANGED <<head, slot, sub, status, tables, origin, schema, again, mwait, dpc, calls, faults,
                 mishap>>

\* The rows of the copied tables; existing ones are updated, and waited for.
MarkTables ==
  /\ worker.pc = "mark"
  /\ tables = "READY" => dpc = "idle"
  /\ tables' = "READY"
  /\ Goto(AfterData)
  /\ UNCHANGED <<head, slot, sub, status, origin, schema, count, again, mwait, dpc, calls, faults, mishap>>

\* pglogical_apply_main: the origin becomes the session's, ...
SetupOrigin ==
  /\ worker.pc = "setup"
  /\ IF origin = NoOrigin THEN Exit ELSE Goto("start") /\ UNCHANGED slot
  /\ UNCHANGED <<head, sub, status, tables, origin, schema, count, again, mwait, dpc, calls, faults, mishap>>

\* Mutant: the origin is not looked at.
FirstTx_Slot == slot.pos \div 2 + 1

\* What the walsender begins with: the first transaction whose commit record is not
\* before the origin's position and the one it has confirmed itself.  When the origin
\* is at the commit record of the last transaction, and that is not confirmed, it is
\* sent again.
FirstTx == (IF origin > slot.pos THEN origin ELSE slot.pos) \div 2 + 1

\* ... and START_REPLICATION needs a slot that nobody else uses.
StartReplication ==
  /\ worker.pc = "start"
  /\ \/ (~slot.here \/ slot.active) /\ Exit /\ UNCHANGED again
     \/ /\ slot.here /\ ~slot.active
        /\ worker' = [worker EXCEPT !.pc = "stream", !.next = FirstTx]
        /\ slot' = [slot EXCEPT !.active = TRUE]
        /\ again' = again \cup {i \in Txs : i = FirstTx /\ origin = CommitLsn(i)}
  /\ UNCHANGED <<head, sub, status, tables, origin, schema, count, mwait, dpc, calls, faults, mishap>>

\* handle_commit: the origin is at the commit record.
ApplyTx ==
  /\ worker.pc = "stream" /\ ~worker.sigterm
  /\ worker.next <= head
  /\ count' = [count EXCEPT ![worker.next] = Once(@)]
  /\ origin' = CommitLsn(worker.next)
  /\ worker' = [worker EXCEPT !.next = @ + 1]
  /\ UNCHANGED <<head, slot, sub, status, tables, schema, again, mwait, dpc, calls, faults, mishap>>

\* send_feedback, of everything applied by now.
Feedback ==
  /\ worker.pc = "stream" /\ slot.pos < EndLsn(worker.next - 1)
  /\ slot' = [slot EXCEPT !.pos = EndLsn(worker.next - 1)]
  /\ UNCHANGED <<head, sub, status, tables, origin, schema, count, again, worker, mwait, dpc, calls,
                 faults, mishap>>

\* apply_work sees got_SIGTERM; nothing before it does.
TermExit ==
  /\ worker.pc = "stream" /\ worker.sigterm
  /\ Exit
  /\ UNCHANGED <<head, sub, status, tables, origin, schema, count, again, mwait, dpc, calls, faults, mishap>>

\* An ERROR in the worker.
WorkerFails ==
  /\ Fault
  /\ worker.pc \notin {"down", "launched"}
  /\ CleanupAndExit
  /\ UNCHANGED <<head, sub, status, tables, origin, schema, count, again, mwait, dpc, calls, mishap>>

\* The subscriber's server restarts: no cleanup runs, transactions are rolled
\* back, and the provider does not notice yet.
ServerRestart ==
  /\ Fault
  /\ worker' = NoWorker /\ mwait' = FALSE /\ dpc' = "idle"
  /\ mishap' = IF dpc = "origin" THEN mishap \cup {"slot_lost"} ELSE mishap
  /\ UNCHANGED <<head, slot, sub, status, tables, origin, schema, count, again, calls>>

\* The provider ends a walsender whose client is gone.
WalsenderEnds ==
  /\ slot.active /\ worker.pc # "stream"
  /\ slot' = [slot EXCEPT !.active = FALSE]
  /\ UNCHANGED <<head, sub, status, tables, origin, schema, count, again, worker, mwait, dpc, calls,
                 faults, mishap>>

WorkerStep ==
  \/ Attach \/ Load \/ ReadStatus \/ CreateSlot \/ EnsureOrigin
  \/ SetStructure \/ RestorePreData \/ SetData \/ CopyData \/ MarkTables
  \/ SetConstraints \/ RestorePostData \/ SetCatchup \/ SetReady
  \/ RowIsGone \/ RestoreFails
  \/ SetupOrigin \/ StartReplication \/ ApplyTx \/ TermExit

DropStep == DropWaited \/ DropSlot \/ DropOrigin

Next ==
  \/ ProviderCommit
  \/ \E kind \in Kinds : CreateSubscription(kind)
  \/ AlterEnabled \/ DropBegin \/ DropStep \/ DropCancelled
  \/ Launch \/ WorkerStep \/ Feedback
  \/ ManagerFails \/ WorkerFails \/ ServerRestart \/ WalsenderEnds

Spec == Init /\ [][Next]_vars

\* The manager and the worker run, and so does a call of drop_subscription; the
\* provider times out a dead client.
Fairness ==
  /\ WF_vars(Launch) /\ WF_vars(WorkerStep) /\ WF_vars(DropStep) /\ WF_vars(WalsenderEnds)

FairSpec == Spec /\ Fairness

-----------------------------------------------------------------------------
(***************************************************************************)
(* Properties.                                                             *)
(***************************************************************************)
\* The last transaction the origin covers.
LastTx == (origin + 1) \div 2

\* Every transaction the origin covers is there, once unless a stream began with it
\* again, and nothing after it.
ExactlyTo(last) ==
  \A i \in Txs : /\ i <= last => count[i] = 1 \/ (count[i] > 1 /\ i \in again)
                 /\ i > last => count[i] = 0

\* A synchronised subscription that copied the data has every transaction up to
\* the progress of its origin and nothing after it, whatever failed on the way but the
\* manager while the worker was coming up: the snapshot of the copy and the start of
\* the stream meet.  None is there twice, but for the last one before a stream ended:
\* the next stream begins with it if the slot has not confirmed it.
CopyMeetsStream ==
  SyncKindData(sub.kind) /\ sub.here /\ status \in {"CATCHUP", "READY"}
    /\ "manager_failed" \notin mishap =>
  ExactlyTo(LastTx)

\* The provider keeps what a synchronised subscription has not applied: its slot
\* is there and not past the last transaction its origin covers, unless
\* drop_subscription failed after it had dropped the slot or met a worker of a failed
\* manager.
SlotKeepsTheRest ==
  sub.here /\ status = "READY" /\ dpc = "idle" /\ mishap = {} =>
    slot.here /\ slot.pos <= EndLsn(LastTx)

\* A subscription that is to be synchronised becomes READY, unless it is disabled
\* or dropped, or a fault strikes: pglogical_sync_subscription goes through all of
\* its states.
Synchronises ==
  (sub.here /\ status = "INIT") ~>
    (status = "READY" \/ ~sub.enabled \/ dpc # "idle" \/ faults > 0)

\* Dropping a subscription that is synchronised comes to its end: the one signal
\* reaches the apply worker, unless the manager failed while it was coming up or
\* an earlier drop_subscription lost the slot.
DropOfReadyEnds ==
  (dpc # "idle" /\ status = "READY") ~> (dpc = "idle" \/ mishap # {})

-----------------------------------------------------------------------------
(***************************************************************************)
(* What a comment of the code, or its design, promises and the code does   *)
(* not establish.  README.md says with which constants TLC refutes each.   *)
(***************************************************************************)
\* "Wait for the apply to die": the wait of drop_subscription ends.
DropEnds == dpc # "idle" ~> dpc = "idle"

\* "We can recover from crashes during these": an attempt in state INIT does not
\* meet the slot of an earlier one.
InitRecovers == worker.pc = "slot" => ~slot.here

\* A subscription that is synchronised has its slot on the provider, or is being
\* dropped.
ReadyHasSlot == sub.here /\ status = "READY" /\ dpc = "idle" => slot.here

\* A subscription that copied the data has no transaction twice: the progress of the
\* origin, which handle_begin sets, commits with the rows.
AppliedOnce ==
  SyncKindData(sub.kind) /\ sub.here /\ status = "READY" /\ "manager_failed" \notin mishap =>
    \A i \in Txs : count[i] <= 1
=============================================================================
