-------------------------- MODULE CreateSubscriber --------------------------
(***************************************************************************)
(* pglogical_create_subscriber: a subscriber made from a physical copy of  *)
(* the provider, composed with the life of the subscription it creates.    *)
(*                                                                         *)
(* The tool creates the replication slot, takes (or is given) a base       *)
(* backup, creates a restore point on the provider and lets the copy       *)
(* recover to it.  What committed before the restore point is then in the  *)
(* copy; the rest is streamed, from an origin set to the restore point.    *)
(* The subscription is created by one transaction and its status set to    *)
(* READY by another, while the manager is already running.                 *)
(***************************************************************************)
EXTENDS Subscription, Sequences

CONSTANTS
  MaxRuns,   \* bound: runs of the tool
  ReuseDir   \* TRUE: a run may use the data directory a failed run left

ASSUME ToolAssumption == MaxRuns \in Nat /\ ReuseDir \in BOOLEAN

VARIABLES
  tool,    \* the subscriber is made by the tool, not by create_subscription
  tpc,     \* where the tool is
  dir,     \* the data directory: its position, the restore points before it
  points,  \* positions of the restore points with the slot's name, in order
  lsn,     \* remote_lsn: the position of the restore point of this run
  runs     \* runs so far

toolvars == <<tool, tpc, dir, points, lsn, runs>>

allvars == <<vars, toolvars>>

NoDir == [here |-> FALSE, pos |-> 0, before |-> 0, promoted |-> FALSE]

ToolSteps == {"off", "slot", "backup", "point", "recover", "clean", "origin", "create", "ready",
              "done"}

\* The type invariant of the composition.
ToolTypeOK ==
  /\ TypeOK
  /\ tool \in BOOLEAN
  /\ tpc \in ToolSteps
  /\ dir \in [here : BOOLEAN, pos : 0 .. MaxTx, before : 0 .. MaxRuns, promoted : BOOLEAN]
  /\ points \in Seq(0 .. MaxTx) /\ Len(points) <= MaxRuns
  /\ lsn \in Lsns
  /\ runs \in 0 .. MaxRuns

\* The tool may be given a backup that was taken before.
ToolInit ==
  /\ Init
  /\ tool \in BOOLEAN
  /\ dir \in {NoDir, [NoDir EXCEPT !.here = tool]}
  /\ tpc = "off" /\ points = <<>> /\ lsn = 0 /\ runs = 0

\* The subscriber's server is up, with pglogical.
Up == ~tool \/ tpc \in {"ready", "done"}

\* The rows of the subscription and its worker are not there.
Blank ==
  /\ sub' = [here |-> FALSE, enabled |-> FALSE, kind |-> "INIT"]
  /\ status' = "NONE" /\ tables' = "NONE" /\ origin' = NoOrigin
  /\ worker' = NoWorker /\ mwait' = FALSE /\ dpc' = "idle"

\* check_data_dir: a directory with a cluster is used, and must be a copy of the
\* provider.
DirFound == IF runs = 0 \/ ReuseDir THEN dir ELSE NoDir

\* main up to the creation of the slot.
ToolStart ==
  /\ tool /\ tpc = "off" /\ runs < MaxRuns
  /\ runs' = runs + 1
  /\ tpc' = "slot"
  /\ dir' = DirFound
  /\ UNCHANGED <<vars, tool, points, lsn>>

\* initialize_replication_slot, with the option that drops one that exists.
ToolSlot ==
  /\ tpc = "slot"
  /\ ~slot.active
  /\ slot' = SnapshotSlot
  /\ tpc' = "backup"
  /\ UNCHANGED <<head, sub, status, tables, origin, schema, count, again, worker, mwait, dpc, calls,
                 faults, mishap, tool, dir, points, lsn, runs>>

\* run_basebackup.
BaseBackup == [here |-> TRUE, pos |-> head, before |-> Len(points), promoted |-> FALSE]

\* initialize_data_dir: pg_basebackup into an empty directory.
ToolBackup ==
  /\ tpc = "backup"
  /\ dir' = IF dir.here THEN dir ELSE BaseBackup
  /\ tpc' = "point"
  /\ UNCHANGED <<vars, tool, points, lsn, runs>>

\* Mutant: the tool uses the position of its slot instead.
PointLsn_Slot == slot.pos

\* create_restore_point, named after the slot.
PointLsn == EndLsn(head)

ToolRestorePoint ==
  /\ tpc = "point"
  /\ points' = Append(points, head)
  /\ lsn' = PointLsn
  /\ tpc' = "recover"
  /\ UNCHANGED <<vars, tool, dir, runs>>

\* The server recovers until it meets a restore point of that name, the first
\* after the backup, and is promoted there.  A copy that was promoted before
\* cannot follow the provider any more.
RecoveredTo == points[dir.before + 1]

ToolRecover ==
  /\ tpc = "recover"
  /\ ~dir.promoted
  /\ dir' = [dir EXCEPT !.pos = RecoveredTo, !.promoted = TRUE]
  /\ count' = [i \in Txs |-> IF i <= RecoveredTo THEN 1 ELSE 0]
  /\ schema' = "constraints"
  /\ tpc' = "clean"
  /\ again' = {}
  /\ UNCHANGED <<head, slot, sub, status, tables, origin, worker, mwait, dpc, calls, faults,
                 mishap, tool, points, lsn, runs>>

\* remove_unwanted_data: the copy's origins and extension; then the server is
\* restarted with pglogical and the extension installed.
ToolClean ==
  /\ tpc = "clean"
  /\ Blank
  /\ tpc' = "origin"
  /\ UNCHANGED <<head, slot, schema, count, again, calls, faults, mishap, tool, dir, points, lsn, runs>>

\* initialize_replication_origin.
ToolOrigin ==
  /\ tpc = "origin"
  /\ origin' = lsn
  /\ tpc' = "create"
  /\ UNCHANGED <<head, slot, sub, status, tables, schema, count, again, worker, mwait, dpc, calls,
                 faults, mishap, tool, dir, points, lsn, runs>>

\* pglogical_subscribe: create_node and create_subscription without
\* synchronisation; ...
ToolCreate ==
  /\ tpc = "create"
  /\ sub' = [here |-> TRUE, enabled |-> TRUE, kind |-> "INIT"]
  /\ status' = "INIT"
  /\ tpc' = "ready"
  /\ UNCHANGED <<head, slot, tables, origin, schema, count, again, worker, mwait, dpc, calls, faults,
                 mishap, tool, dir, points, lsn, runs>>

\* ... then the status, by an UPDATE of its own.
ToolReady ==
  /\ tpc = "ready"
  /\ dpc = "idle"
  /\ status' = IF status = "NONE" THEN "NONE" ELSE "READY"
  /\ tpc' = "done"
  /\ UNCHANGED <<head, slot, sub, tables, origin, schema, count, again, worker, mwait, dpc, calls,
                 faults, mishap, tool, dir, points, lsn, runs>>

\* die: the server is stopped; the slot stays, and so does the directory.
ToolDies ==
  /\ tpc \notin {"off", "done"}
  /\ tpc' = "off"
  /\ Blank
  /\ slot' = [slot EXCEPT !.active = FALSE]
  /\ UNCHANGED <<head, schema, count, again, calls, faults, mishap, tool, dir, points, lsn, runs>>

ToolStep ==
  \/ ToolSlot \/ ToolBackup \/ ToolRestorePoint \/ ToolRecover
  \/ ToolClean \/ ToolOrigin \/ ToolCreate \/ ToolReady

SubscriptionStep ==
  \/ \E kind \in Kinds : ~tool /\ CreateSubscription(kind)
  \/ AlterEnabled \/ DropBegin \/ DropStep \/ DropCancelled
  \/ Launch \/ WorkerStep \/ Feedback
  \/ ManagerFails \/ WorkerFails \/ ServerRestart \/ WalsenderEnds

ToolNext ==
  \/ ToolStart \/ ToolStep \/ ToolDies
  \/ (ProviderCommit \/ (Up /\ SubscriptionStep)) /\ UNCHANGED toolvars

ToolSpec == ToolInit /\ [][ToolNext]_allvars

\* A run of the tool goes on until it is done or dies.
ToolFairSpec ==
  /\ ToolSpec
  /\ WF_allvars(ToolStep)
  /\ WF_allvars(Launch /\ UNCHANGED toolvars) /\ WF_allvars(WorkerStep /\ UNCHANGED toolvars)
  /\ WF_allvars(DropStep /\ UNCHANGED toolvars) /\ WF_allvars(WalsenderEnds /\ UNCHANGED toolvars)

-----------------------------------------------------------------------------
(***************************************************************************)
(* Properties, besides the ones of Subscription.                           *)
(***************************************************************************)
\* drop_subscription takes the origin along ("Drop the origin tracking locally"),
\* and no apply worker of the subscription is left that could bring it back,
\* unless the manager failed while a worker was coming up.
DropLeavesNothing ==
  ~sub.here /\ tpc # "create" /\ "manager_failed" \notin mishap => origin = NoOrigin /\ ~Running

\* A subscriber made by the tool has every transaction up to the progress of its
\* origin and nothing after it, as long as it does not reuse the directory of a failed
\* run: what recovery brought and what is streamed meet, although the manager may
\* start the apply worker between the creation of the subscription and the update of
\* its status.  None is there twice, but for the last one before a stream ended.
RecoveryMeetsStream ==
  tool /\ sub.here /\ status = "READY" /\ "slot_lost" \notin mishap => ExactlyTo(LastTx)
=============================================================================
