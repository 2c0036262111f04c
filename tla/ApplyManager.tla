---------------------------- MODULE ApplyManager ----------------------------
(***************************************************************************)
(* How the apply workers of a database's subscriptions are started,        *)
(* restarted after a crash and killed: the manager (pglogical_manager.c),  *)
(* the supervisor that restarts the manager (pglogical.c), and the commit  *)
(* callback of the SQL functions that change a subscription                *)
(* (pglogical_worker.c).                                                   *)
(*                                                                         *)
(* The manager takes a list of slots under the lock and then works on the  *)
(* slots without it, one subscription after the other, while workers end   *)
(* and slots are used again.  The slots here are the ones left by the      *)
(* manager itself; WorkerRegistry shows that a process has its slot to     *)
(* itself.                                                                 *)
(***************************************************************************)
EXTENDS Integers, Sequences, FiniteSets, Functions

CONSTANTS
  Subs,        \* the subscriptions of the node
  NoSub,
  NSlots,      \* worker slots
  MaxFaults,   \* bound: workers that end by themselves, SQL transactions that abort
  MaxChanges,  \* bound: subscriptions enabled or disabled
  MaxEvents,   \* bound: both together
  SyncWorkers  \* the values syncs may have

ASSUME ManagerAssumption ==
  /\ IsFiniteSet(Subs) /\ NoSub \notin Subs
  /\ NSlots \in Nat \ {0}
  /\ MaxFaults \in Nat /\ MaxChanges \in Nat /\ MaxEvents \in Nat
  /\ SyncWorkers \subseteq BOOLEAN

VARIABLES
  syncs,    \* whether apply workers start sync workers
  enabled,  \* sub_enabled in the catalog
  heap,     \* the order in which get_node_subscriptions returns the rows
  slots,    \* PGLogicalCtx->workers and their processes
  changed,  \* PGLogicalCtx->subscriptions_changed
  spc,      \* where the supervisor is
  mpc,      \* where the manager is
  workers,  \* manager: the list of slots of apply workers not matched yet, which has
            \* them in their order
  todo,     \* manager: subscriptions not looked at yet
  subs_to_start,
  mwait,    \* manager: the slot it waits for, 0 if none
  faults, changes

manager == <<mpc, workers, todo, subs_to_start, mwait>>

vars == <<syncs, enabled, heap, slots, changed, spc, manager, faults, changes>>

Slots == 1 .. NSlots

WorkerSlot ==
  [worker_type : {"NONE", "APPLY", "SYNC"}, subid : Subs \cup {NoSub},
   proc : {"none", "starting", "running"}, crashed : {"no", "recently", "long_ago"},
   sigterm : BOOLEAN]

\* One type invariant for the module.
TypeOK ==
  /\ syncs \in SyncWorkers
  /\ enabled \in [Subs -> BOOLEAN]
  /\ heap \in Seq(Subs)
  /\ slots \in [Slots -> WorkerSlot]
  /\ changed \in BOOLEAN
  /\ spc \in {"idle", "start"}
  /\ mpc \in {"down", "idle", "list", "scan", "start", "startwait", "kill"}
  /\ workers \subseteq Slots
  /\ todo \in Seq(Subs)
  /\ subs_to_start \in Seq(Subs)
  /\ mwait \in IF mpc = "startwait" THEN Slots ELSE {0}
  /\ faults \in 0 .. MaxFaults
  /\ changes \in 0 .. MaxChanges

EmptySlot == [worker_type |-> "NONE", subid |-> NoSub, proc |-> "none", crashed |-> "no",
              sigterm |-> FALSE]

\* The orders the rows of pglogical.subscription may have.
Orders == Bijection(1 .. Cardinality(Subs), Subs)

Init ==
  /\ syncs \in SyncWorkers
  /\ enabled \in [Subs -> BOOLEAN]
  /\ heap \in Orders
  /\ slots = [s \in Slots |-> EmptySlot]
  /\ changed = TRUE /\ spc = "idle"
  /\ mpc = "down" /\ workers = {} /\ todo = <<>> /\ subs_to_start = <<>> /\ mwait = 0
  /\ faults = 0 /\ changes = 0

Running(s) == slots[s].proc = "running"

Free(s) == slots[s].worker_type = "NONE" \/ slots[s].crashed # "no"

\* Mutant: any free slot is taken.
IsFirstFree_Any(s) == Free(s)

\* find_empty_worker_slot.
IsFirstFree(s) == Free(s) /\ \A r \in Slots : r < s => ~Free(r)

\* pglogical_apply_find.
IsApplyOf(s, x) == slots[s].worker_type = "APPLY" /\ slots[s].subid = x

IsApplyFound(s, x) == IsApplyOf(s, x) /\ \A r \in Slots : r < s => ~IsApplyOf(r, x)

NewWorker(type, x) ==
  [worker_type |-> type, subid |-> x, proc |-> "starting", crashed |-> "no",
   sigterm |-> FALSE]

-----------------------------------------------------------------------------
(***************************************************************************)
(* The supervisor.                                                         *)
(***************************************************************************)
SupervisorWakes ==
  /\ spc = "idle" /\ changed
  /\ changed' = FALSE
  /\ spc' = "start"
  /\ UNCHANGED <<syncs, enabled, heap, slots, manager, faults, changes>>

\* start_manager_workers, for this database.
StartManager ==
  /\ spc = "start"
  /\ spc' = "idle"
  /\ mpc' = IF mpc = "down" THEN "idle" ELSE mpc
  /\ UNCHANGED <<syncs, enabled, heap, slots, changed, workers, todo, subs_to_start, mwait,
                 faults, changes>>

-----------------------------------------------------------------------------
(***************************************************************************)
(* The manager.                                                            *)
(***************************************************************************)
\* An ERROR: pglogical_worker_detach asks the supervisor for a new manager.
ManagerDown ==
  /\ mpc' = "down" /\ workers' = {} /\ todo' = <<>> /\ subs_to_start' = <<>>
  /\ mwait' = 0
  /\ changed' = TRUE

\* pglogical_apply_find_all, under the lock.
ListWorkers ==
  /\ mpc = "idle"
  /\ workers' = {s \in Slots : slots[s].worker_type = "APPLY"}
  /\ mpc' = "list"
  /\ UNCHANGED <<syncs, enabled, heap, slots, changed, spc, todo, subs_to_start, mwait, faults,
                 changes>>

\* The transaction starts and locks out the functions that change subscriptions.
ReadSubscriptions ==
  /\ mpc = "list"
  /\ todo' = heap
  /\ subs_to_start' = <<>>
  /\ mpc' = "scan"
  /\ UNCHANGED <<syncs, enabled, heap, slots, changed, spc, workers, mwait, faults, changes>>

\* The slot the search loop leaves the variable "apply" at: the first one of the
\* subscription, and the last one looked at when none matches.
EndsAt(s, x) ==
  IF \E r \in workers : slots[r].subid = x
  THEN slots[s].subid = x /\ \A r \in workers : r < s => slots[r].subid # x
  ELSE \A r \in workers : r <= s

\* What it takes off the list.
Matched(x) == {s \in workers : EndsAt(s, x) /\ slots[s].subid = x}

\* Mutant: a registered worker that has not attached is started again.
MayStart_NotRunning(x) == \A s \in workers : EndsAt(s, x) => ~Running(s)


\* Neither running nor just registered nor recently crashed.
MayStart(x) ==
  \A s \in workers : EndsAt(s, x) => ~Running(s) /\ slots[s].crashed = "long_ago"


Wanted(x) == enabled[x]

\* One round of the loop over the subscriptions.
ScanSubscription ==
  /\ mpc = "scan" /\ todo # <<>>
  /\ LET x == Head(todo) IN
     \/ ~Wanted(x) /\ UNCHANGED <<workers, subs_to_start>>
     \/ /\ Wanted(x)
        /\ workers' = workers \ Matched(x)
        /\ subs_to_start' = IF MayStart(x) THEN Append(subs_to_start, x)
                            ELSE subs_to_start
  /\ todo' = Tail(todo)
  /\ UNCHANGED <<syncs, enabled, heap, slots, changed, spc, mpc, mwait, faults, changes>>

ScanDone ==
  /\ mpc = "scan" /\ todo = <<>>
  /\ mpc' = "start"
  /\ UNCHANGED <<syncs, enabled, heap, slots, changed, spc, workers, todo, subs_to_start, mwait,
                 faults, changes>>

\* pglogical_worker_register for the next one; without a free slot it fails.
StartWorker ==
  /\ mpc = "start" /\ subs_to_start # <<>>
  /\ \/ /\ ~\E s \in Slots : Free(s)
        /\ ManagerDown
        /\ UNCHANGED slots
     \/ \E s \in Slots :
          /\ IsFirstFree(s)
          /\ slots' = [slots EXCEPT ![s] = NewWorker("APPLY", Head(subs_to_start))]
          /\ mpc' = "startwait" /\ mwait' = s
          /\ subs_to_start' = Tail(subs_to_start)
          /\ UNCHANGED <<workers, todo, changed>>
  /\ UNCHANGED <<syncs, enabled, heap, spc, faults, changes>>

\* wait_for_worker_startup.
WorkerStarted ==
  /\ mpc = "startwait" /\ slots[mwait].proc # "starting"
  /\ mpc' = "start" /\ mwait' = 0
  /\ UNCHANGED <<syncs, enabled, heap, slots, changed, spc, workers, todo, subs_to_start, faults,
                 changes>>

\* The transaction ends.
StartsDone ==
  /\ mpc = "start" /\ subs_to_start = <<>>
  /\ mpc' = "kill"
  /\ UNCHANGED <<syncs, enabled, heap, slots, changed, spc, workers, todo, subs_to_start, mwait,
                 faults, changes>>

\* pglogical_worker_kill, and the cleanup of a slot whose worker crashed.
Killed(s) ==
  [slots[s] EXCEPT !.sigterm = @ \/ Running(s),
                   !.worker_type = IF slots[s].crashed # "no" THEN "NONE" ELSE @,
                   !.crashed = "no"]

KillRemaining ==
  /\ mpc = "kill"
  /\ slots' = [s \in Slots |-> IF s \in workers THEN Killed(s) ELSE slots[s]]
  /\ mpc' = "idle" /\ workers' = {}
  /\ UNCHANGED <<syncs, enabled, heap, changed, spc, todo, subs_to_start, mwait, faults, changes>>

-----------------------------------------------------------------------------
(***************************************************************************)
(* The workers, and the functions called from SQL.                         *)
(***************************************************************************)
Attach(s) ==
  /\ slots[s].proc = "starting"
  /\ slots' = [slots EXCEPT ![s].proc = "running"]
  /\ UNCHANGED <<syncs, enabled, heap, changed, spc, manager, faults, changes>>

\* pglogical_worker_detach: a clean exit gives the slot back, with the subid in
\* it; a crash keeps the type.
Detached(w, crash) ==
  [w EXCEPT !.proc = "none", !.sigterm = FALSE,
            !.worker_type = IF crash THEN @ ELSE "NONE",
            !.crashed = IF crash THEN "recently" ELSE @]

\* A worker that got SIGTERM: an apply worker exits cleanly, a sync worker not.
ExitOnSigterm(s) ==
  /\ Running(s) /\ slots[s].sigterm
  /\ slots' = [slots EXCEPT ![s] = Detached(@, slots[s].worker_type = "SYNC")]
  /\ UNCHANGED <<syncs, enabled, heap, changed, spc, manager, faults, changes>>

\* Bounds are one less with sync workers.
Bounded(n, max) == n < IF syncs THEN max - 1 ELSE max

Fault ==
  /\ Bounded(faults, MaxFaults) /\ faults + changes < MaxEvents
  /\ faults' = faults + 1

\* An ERROR of an attached worker.
WorkerCrashes(s) ==
  /\ Fault
  /\ Running(s)
  /\ slots' = [slots EXCEPT ![s] = Detached(@, TRUE)]
  /\ UNCHANGED <<syncs, enabled, heap, changed, spc, manager, changes>>

\* A worker ends before it attached, or is never launched.  Only the process that
\* registered it marks it, in wait_for_worker_startup: the manager for an apply
\* worker, an apply worker for a sync worker.  If that one has ended, nobody does.
EndsUnattached(s) ==
  /\ Fault
  /\ slots[s].proc = "starting"
  /\ \/ /\ slots[s].worker_type = "APPLY" => mwait = s
        /\ slots' = [slots EXCEPT ![s] = Detached(@, TRUE)]
     \/ /\ slots[s].worker_type = "APPLY" => mwait # s
        /\ slots' = [slots EXCEPT ![s].proc = "none"]
  /\ UNCHANGED <<syncs, enabled, heap, changed, spc, manager, changes>>

\* MIN_SLEEP has passed since the crash.
CrashAges(s) ==
  /\ slots[s].crashed = "recently"
  /\ slots' = [slots EXCEPT ![s].crashed = "long_ago"]
  /\ UNCHANGED <<syncs, enabled, heap, changed, spc, manager, faults, changes>>

ManagerCrashes ==
  /\ Fault
  /\ mpc # "down"
  /\ ManagerDown
  /\ UNCHANGED <<syncs, enabled, heap, slots, spc, changes>>

\* start_sync_worker of a running apply worker.
StartSync(x) ==
  /\ syncs
  /\ Fault
  /\ \E s \in Slots : IsApplyOf(s, x) /\ Running(s)
  /\ \E s \in Slots : IsFirstFree(s) /\ slots' = [slots EXCEPT ![s] = NewWorker("SYNC", x)]
  /\ UNCHANGED <<syncs, enabled, heap, changed, spc, manager, changes>>

\* The updated rows may be anywhere in the heap.
Moved(xs) ==
  {h \in Orders :
     SelectSeq(h, LAMBDA y : y \notin xs) = SelectSeq(heap, LAMBDA y : y \notin xs)}

\* A transaction with pglogical_alter_subscription_enable and _disable, and its
\* commit callback.  pglogical_subscription_changed remembers the first
\* subscription only; when an earlier transaction of the session aborted, its flag
\* is still set and the id is read from memory that was freed.
SetEnabled(xs, subid) ==
  /\ changes' = changes + Cardinality(xs) /\ Bounded(changes' - 1, MaxChanges)
  /\ faults + changes' <= MaxEvents
  /\ mpc \notin {"scan", "start", "startwait"}
  /\ enabled' = [x \in Subs |-> IF x \in xs THEN ~enabled[x] ELSE enabled[x]]
  /\ heap' \in Moved(xs)
  /\ slots' = [s \in Slots |->
                 IF subid # NoSub /\ IsApplyFound(s, subid) /\ Running(s)
                 THEN [slots[s] EXCEPT !.sigterm = TRUE] ELSE slots[s]]
  /\ changed' = TRUE
  /\ IF subid \in xs THEN UNCHANGED faults ELSE Fault
  /\ UNCHANGED <<syncs, spc, manager>>

ManagerStep ==
  \/ ListWorkers \/ ReadSubscriptions \/ ScanSubscription \/ ScanDone \/ StartWorker
  \/ WorkerStarted \/ StartsDone \/ KillRemaining

SupervisorStep == SupervisorWakes \/ StartManager

Next ==
  \/ SupervisorStep \/ ManagerStep \/ ManagerCrashes
  \/ \E s \in Slots : Attach(s) \/ ExitOnSigterm(s) \/ WorkerCrashes(s) \/ EndsUnattached(s) \/ CrashAges(s)
  \/ \E x \in Subs : StartSync(x)
  \/ \E xs \in SUBSET Subs \ {{}}, subid \in Subs \cup {NoSub} : SetEnabled(xs, subid)

Spec == Init /\ [][Next]_vars

\* Processes run, a launched worker comes up, SIGTERM is obeyed, time passes.
Fairness ==
  /\ WF_vars(ManagerStep) /\ WF_vars(SupervisorStep)
  /\ \A s \in Slots : WF_vars(Attach(s)) /\ WF_vars(ExitOnSigterm(s)) /\ WF_vars(CrashAges(s))

FairSpec == Spec /\ Fairness

-----------------------------------------------------------------------------
(***************************************************************************)
(* Properties.                                                             *)
(***************************************************************************)
LiveApply(s, x) == IsApplyOf(s, x) /\ slots[s].proc # "none"

\* A subscription never has two apply workers, although the manager decides from
\* a list that ages and may be replaced between registering a worker and seeing
\* it attach: manage_apply_workers skips a slot that is registered and not yet
\* attached.  A sync worker in a slot of the list would spoil it.
OneApplyPerSubscription ==
  ~syncs => \A x \in Subs, s, r \in Slots : LiveApply(s, x) /\ LiveApply(r, x) => s = r

\* pglogical_apply_find returns the worker that lives, not the slot of an earlier
\* one that crashed: a new worker gets the first free slot, and no sync worker has
\* taken it.
FindsTheLiving ==
  ~syncs => \A x \in Subs, s, r \in Slots : LiveApply(s, x) /\ IsApplyFound(r, x) => s = r

Runs(x) == \E s \in Slots : IsApplyOf(s, x) /\ Running(s)

\* The slot of an apply worker that ended before it attached and that nobody marked:
\* the manager takes it for a worker that is about to attach, and leaves it so.
Orphaned(s) ==
  slots[s].worker_type = "APPLY" /\ slots[s].proc = "none" /\ slots[s].crashed = "no"



-----------------------------------------------------------------------------
(***************************************************************************)
(* What a comment of the code, or its design, promises and the code does   *)
(* not establish.  README.md says with which constants TLC refutes each.   *)
(***************************************************************************)
\* "Kill any remaining running workers that should not be running": the worker
\* is one of a subscription that is not enabled.
KillsOnlyUnwanted ==
  [][\A s \in Slots :
       mpc = "kill" /\ mpc' = "idle" /\ ~slots[s].sigterm /\ slots'[s].sigterm =>
         ~enabled[slots[s].subid]]_vars

\* An enabled subscription gets an apply worker ("Check for active workers for
\* each subscription").
EnabledRuns == \A x \in Subs : [](enabled[x] => <>(Runs(x) \/ ~enabled[x]))

\* The only enabled subscription gets one, also when the manager that registered its
\* worker and then the worker itself end before it attached (wait_for_worker_startup
\* foresees a worker that "launched then crashed/exited before attaching").
OneEnabledRuns ==
  \A x \in Subs :
    [](enabled[x] => <>(Runs(x) \/ ~enabled[x] \/ \E y \in Subs \ {x} : enabled[y]))

\* A subscription never has two apply workers, also when sync workers use the slots
\* ("Check if the subscriber already has registered worker").
AlwaysOneApply == \A x \in Subs, s, r \in Slots : LiveApply(s, x) /\ LiveApply(r, x) => s = r
=============================================================================
