-------------------------- MODULE WorkerRegistry --------------------------
(***************************************************************************)
(* The array of worker slots in shared memory (pglogical_worker.c).        *)
(*                                                                         *)
(* A process that wants a manager, apply or sync worker takes a slot,      *)
(* launches a background worker that attaches to it, and waits until the   *)
(* worker has attached or has died.  The worker detaches when it exits.    *)
(* A background worker is identified by a member of Procs and is launched  *)
(* at most once; the process that launched it is called its waiter.        *)
(*                                                                         *)
(* The LWLock PGLogicalCtx->lock protects the array in most places, so a   *)
(* locked region is one step.  The launch, the read of the generation and  *)
(* the marking of a prematurely dead worker happen outside it and are      *)
(* steps of their own.                                                     *)
(***************************************************************************)
EXTENDS Integers

CONSTANTS
  NSlots,        \* max_worker_processes
  Procs,         \* background workers that may be launched
  WorkerTypes,   \* of PGLogicalWorkerType, without NONE
  NULL,          \* a NULL proc pointer
  GenMod,        \* the generation counter runs through 0 .. GenMod - 1 (UINT16_MAX + 1)
  LaunchGap,     \* TRUE: a slot may be reused between launching and reading its generation
  WaiterSigterm  \* TRUE: a waiter may be terminated while it waits

ASSUME RegistryAssumption ==
  /\ NSlots \in Nat \ {0}
  /\ GenMod \in Nat \ {0, 1}
  /\ NULL \notin Procs
  /\ "APPLY" \in WorkerTypes
  /\ "NONE" \notin WorkerTypes
  /\ LaunchGap \in BOOLEAN
  /\ WaiterSigterm \in BOOLEAN

Slots == 1 .. NSlots

VARIABLES
  workers,  \* PGLogicalCtx->workers
  bgw,      \* life of each background worker
  ptype,    \* the type each background worker was registered with
  slot,     \* the slot number handed to each background worker
  mygen,    \* MyPGLogicalWorkerGeneration
  waiter,   \* where the process that registers the worker is
  wgen,     \* the generation the waiter compares with
  owner     \* history: the background worker last registered at each slot

vars == <<workers, bgw, ptype, slot, mygen, waiter, wgen, owner>>

WorkerSlot == [worker_type : WorkerTypes \cup {"NONE"},
               generation  : 0 .. GenMod - 1,
               proc        : Procs \cup {NULL},
               crashed_at  : {0, 1}]    \* 0 or a timestamp

\* The life of a background worker: "taken" has a slot but is not launched.
BgwStates == {"unused", "taken", "starting", "attached", "stopped"}

\* The steps of pglogical_worker_register after it has taken the slot.
WaiterStates == {"none", "launch", "read", "wait", "mark", "done", "terminated"}

\* One type invariant for the module.
TypeOK ==
  /\ workers \in [Slots -> WorkerSlot]
  /\ bgw \in [Procs -> BgwStates]
  /\ ptype \in [Procs -> WorkerTypes]
  /\ slot \in [Procs -> Slots]
  /\ mygen \in [Procs -> 0 .. GenMod - 1]
  /\ waiter \in [Procs -> WaiterStates]
  /\ wgen \in [Procs -> 0 .. GenMod - 1]
  /\ owner \in [Slots -> Procs \cup {NULL}]

-----------------------------------------------------------------------------
EmptySlot == [worker_type |-> "NONE", generation |-> 0, proc |-> NULL,
              crashed_at |-> 0]

\* pglogical_worker_shmem_startup zeroes the array.
Init ==
  /\ workers = [s \in Slots |-> EmptySlot]
  /\ bgw = [p \in Procs |-> "unused"]
  /\ ptype = [p \in Procs |-> "APPLY"]
  /\ slot = [p \in Procs |-> 1]
  /\ mygen = [p \in Procs |-> 0]
  /\ waiter = [p \in Procs |-> "none"]
  /\ wgen = [p \in Procs |-> 0]
  /\ owner = [s \in Slots |-> NULL]

\* Mutant: a slot without a process counts as empty.
Reusable_NotRunning(w) == w.worker_type = "NONE" \/ w.proc = NULL

\* The test of find_empty_worker_slot.
Reusable(w) == w.worker_type = "NONE" \/ w.crashed_at # 0

\* find_empty_worker_slot returns the first slot that can be reused.
IsFirstEmptySlot(s) ==
  /\ Reusable(workers[s])
  /\ \A r \in Slots : r < s => ~Reusable(workers[r])

NextGeneration(g) == IF g = GenMod - 1 THEN 0 ELSE g + 1

\* Environment assumption: while a waiter sleeps, at most a second at a time,
\* its slot is not registered GenMod times over.
NoGenerationLap(s) ==
  \A q \in Procs :
    (waiter[q] = "wait" /\ slot[q] = s)
      => wgen[q] # NextGeneration(workers[s].generation)

\* Environment assumption unless LaunchGap: the few instructions between the
\* launch and the read of the generation are not overtaken by the life of the
\* worker and a second registration of its slot.
NoLaunchGap(s) ==
  LaunchGap \/ \A q \in Procs : slot[q] = s => waiter[q] # "read"

\* pglogical_worker_register: take a slot under the lock.
RegisterSlot(p, type) ==
  /\ bgw[p] = "unused"
  /\ \E s \in Slots :
       /\ IsFirstEmptySlot(s)
       /\ NoGenerationLap(s)
       /\ NoLaunchGap(s)
       /\ workers' = [workers EXCEPT ![s] =
                        [worker_type |-> type,
                         generation  |-> NextGeneration(@.generation),
                         proc        |-> NULL,
                         crashed_at  |-> 0]]
       /\ slot' = [slot EXCEPT ![p] = s]
       /\ owner' = [owner EXCEPT ![s] = p]
  /\ bgw' = [bgw EXCEPT ![p] = "taken"]
  /\ ptype' = [ptype EXCEPT ![p] = type]
  /\ waiter' = [waiter EXCEPT ![p] = "launch"]
  /\ UNCHANGED <<mygen, wgen>>

\* RegisterDynamicBackgroundWorker succeeds: the postmaster will start p.
LaunchOk(p) ==
  /\ waiter[p] = "launch"
  /\ bgw' = [bgw EXCEPT ![p] = "starting"]
  /\ waiter' = [waiter EXCEPT ![p] = "read"]
  /\ UNCHANGED <<workers, ptype, slot, mygen, wgen, owner>>

\* RegisterDynamicBackgroundWorker fails: mark the slot and raise an error.
LaunchFail(p) ==
  /\ waiter[p] = "launch"
  /\ workers' = [workers EXCEPT ![slot[p]].crashed_at = 1]
  /\ bgw' = [bgw EXCEPT ![p] = "stopped"]
  /\ waiter' = [waiter EXCEPT ![p] = "done"]
  /\ UNCHANGED <<ptype, slot, mygen, wgen, owner>>

\* wait_for_worker_startup begins by reading the generation, without the lock.
ReadGeneration(p) ==
  /\ waiter[p] = "read"
  /\ wgen' = [wgen EXCEPT ![p] = workers[slot[p]].generation]
  /\ waiter' = [waiter EXCEPT ![p] = "wait"]
  /\ UNCHANGED <<workers, bgw, ptype, slot, mygen, owner>>

\* The waiter sees the worker started and attached.
WaitSeesStarted(p) ==
  /\ waiter[p] = "wait"
  /\ bgw[p] \in {"starting", "attached"}
  /\ workers[slot[p]].proc # NULL
  /\ waiter' = [waiter EXCEPT ![p] = "done"]
  /\ UNCHANGED <<workers, bgw, ptype, slot, mygen, wgen, owner>>

\* Mutant: the generation is not compared.
DiedUnattached_NoGeneration(p) ==
  LET w == workers[slot[p]]
  IN  w.worker_type # "NONE" /\ w.crashed_at = 0

\* Mutant: the comparison of the generation is inverted.
DiedUnattached_OtherGeneration(p) ==
  LET w == workers[slot[p]]
  IN  w.worker_type # "NONE" /\ w.generation # wgen[p] /\ w.crashed_at = 0

\* The worker that was launched died before it attached to its slot.
DiedUnattached(p) ==
  LET w == workers[slot[p]]
  IN  /\ w.worker_type # "NONE"
      /\ w.generation = wgen[p]
      /\ w.crashed_at = 0

\* The waiter sees that the worker has stopped and decides whether to mark it.
WaitSeesStopped(p) ==
  /\ waiter[p] = "wait"
  /\ bgw[p] = "stopped"
  /\ waiter' = [waiter EXCEPT ![p] = IF DiedUnattached(p) THEN "mark" ELSE "done"]
  /\ UNCHANGED <<workers, bgw, ptype, slot, mygen, wgen, owner>>

\* The waiter marks the slot crashed, without the lock.
MarkCrashed(p) ==
  /\ waiter[p] = "mark"
  /\ workers' = [workers EXCEPT ![slot[p]].crashed_at = 1]
  /\ waiter' = [waiter EXCEPT ![p] = "done"]
  /\ UNCHANGED <<bgw, ptype, slot, mygen, wgen, owner>>

\* got_SIGTERM in the waiter: proc_exit(0) without marking anything.
WaiterExits(p) ==
  /\ WaiterSigterm
  /\ waiter[p] = "wait"
  /\ waiter' = [waiter EXCEPT ![p] = "terminated"]
  /\ UNCHANGED <<workers, bgw, ptype, slot, mygen, wgen, owner>>

\* pglogical_worker_attach.
Attach(p) ==
  /\ bgw[p] = "starting"
  /\ workers' = [workers EXCEPT ![slot[p]].proc = p]
  /\ mygen' = [mygen EXCEPT ![p] = workers[slot[p]].generation]
  /\ bgw' = [bgw EXCEPT ![p] = "attached"]
  /\ UNCHANGED <<ptype, slot, waiter, wgen, owner>>

\* The worker fails to start, or exits before it attaches.
DieUnattached(p) ==
  /\ bgw[p] = "starting"
  /\ bgw' = [bgw EXCEPT ![p] = "stopped"]
  /\ UNCHANGED <<workers, ptype, slot, mygen, waiter, wgen, owner>>

\* What pglogical_worker_detach leaves of the slot.  The type of a crashed
\* worker stays, and so does the generation of any worker.
DetachedSlot(w, crash) ==
  IF crash THEN [w EXCEPT !.proc = NULL, !.crashed_at = 1]
           ELSE [w EXCEPT !.proc = NULL, !.worker_type = "NONE"]

\* pglogical_worker_detach, run by the exit callback with the exit code.
Detach(p, crash) ==
  /\ bgw[p] = "attached"
  /\ workers' = [workers EXCEPT ![slot[p]] = DetachedSlot(@, crash)]
  /\ bgw' = [bgw EXCEPT ![p] = "stopped"]
  /\ UNCHANGED <<ptype, slot, mygen, waiter, wgen, owner>>

\* manage_apply_workers forgets a crashed worker nobody wants any more.
CleanCrashed(s) ==
  /\ workers[s].crashed_at # 0
  /\ workers' = [workers EXCEPT ![s].worker_type = "NONE", ![s].crashed_at = 0]
  /\ UNCHANGED <<bgw, ptype, slot, mygen, waiter, wgen, owner>>

\* A crash of the whole server: the postmaster restarts with zeroed shared
\* memory and no workers.
ServerCrash ==
  /\ workers' = [s \in Slots |-> EmptySlot]
  /\ bgw' = [p \in Procs |-> IF bgw[p] = "unused" THEN "unused" ELSE "stopped"]
  /\ waiter' = [p \in Procs |-> IF waiter[p] = "none" THEN "none" ELSE "done"]
  /\ owner' = [s \in Slots |-> NULL]
  /\ UNCHANGED <<ptype, slot, mygen, wgen>>

WaiterStep(p) ==
  \/ LaunchOk(p)
  \/ LaunchFail(p)
  \/ ReadGeneration(p)
  \/ WaitSeesStarted(p)
  \/ WaitSeesStopped(p)
  \/ MarkCrashed(p)
  \/ WaiterExits(p)

WorkerStep(p) ==
  \/ Attach(p)
  \/ DieUnattached(p)
  \/ Detach(p, TRUE)
  \/ Detach(p, FALSE)

Next ==
  \/ \E p \in Procs :
       \/ \E type \in WorkerTypes : RegisterSlot(p, type)
       \/ WaiterStep(p)
       \/ WorkerStep(p)
  \/ \E s \in Slots : CleanCrashed(s)
  \/ ServerCrash

\* A waiter polls at least once a second, and the postmaster starts a
\* registered worker; a running worker need never exit.
Fairness ==
  \A p \in Procs : WF_vars(WaiterStep(p)) /\ WF_vars(Attach(p) \/ DieUnattached(p))

Spec == Init /\ [][Next]_vars

FairSpec == Spec /\ Fairness
-----------------------------------------------------------------------------
\* A worker that is about to attach finds its slot as it was registered: the
\* asserts of pglogical_worker_attach (proc is NULL, the type is the one
\* asked for) hold although the lock was released since the registration.
AttachAsserts ==
  \A p \in Procs :
    bgw[p] = "starting" =>
      /\ workers[slot[p]].proc = NULL
      /\ workers[slot[p]].worker_type = ptype[p]

\* A running worker keeps its slot until it detaches: the slot points at its
\* process and has the generation the worker attached with, as
\* pglogical_worker_detach asserts, so no two running workers share a slot.
SlotOwnership ==
  \A p \in Procs :
    bgw[p] = "attached" =>
      /\ workers[slot[p]].proc = p
      /\ workers[slot[p]].generation = mygen[p]
      /\ workers[slot[p]].worker_type = ptype[p]
      /\ workers[slot[p]].crashed_at = 0

\* wait_for_worker_startup marks as crashed only the worker it launched
\* itself, never a later worker that reused the slot: what the generation
\* counter is for.
MarksOnlyItsOwn ==
  \A p \in Procs :
    waiter[p] = "mark" => owner[slot[p]] = p /\ bgw[p] = "stopped"

\* The strengthening that makes the invariants above inductive: every process
\* that still has a claim on a slot (to launch, attach, detach or mark it) is
\* the last one registered there, and the slot is not reusable meanwhile.
SlotClaims ==
  \A p \in Procs :
    /\ bgw[p] = "taken" =>
         /\ owner[slot[p]] = p
         /\ ~Reusable(workers[slot[p]])
         /\ workers[slot[p]].proc = NULL
         /\ workers[slot[p]].worker_type = ptype[p]
    /\ bgw[p] = "starting" =>
         owner[slot[p]] = p /\ workers[slot[p]].crashed_at = 0
    /\ bgw[p] = "attached" => owner[slot[p]] = p
    /\ waiter[p] = "launch" => bgw[p] = "taken"
    /\ waiter[p] = "read" => owner[slot[p]] = p
    /\ waiter[p] = "wait" =>
         (workers[slot[p]].generation = wgen[p] => owner[slot[p]] = p)
    /\ waiter[p] = "mark" => ~Reusable(workers[slot[p]])

\* A slot that holds a worker nobody can mark any more is leaked: it is
\* neither running nor reusable.
DeadSlot(s) ==
  /\ ~Reusable(workers[s])
  /\ workers[s].proc = NULL
  /\ owner[s] # NULL
  /\ bgw[owner[s]] = "stopped"

\* The slot of a worker that died before attaching becomes reusable again
\* ("Mark it crashed so the slot can be re-used", pglogical_worker.c:242),
\* unless the process that waits for the worker has itself been terminated:
\* wait_for_worker_startup then exits and nobody marks the slot.
DeadSlotReclaimed ==
  \A s \in Slots :
    DeadSlot(s) ~> ~DeadSlot(s) \/ waiter[owner[s]] = "terminated"

-----------------------------------------------------------------------------
(***************************************************************************)
(* What a comment of the code, or its design, promises and the code does   *)
(* not establish.  README.md says with which constants TLC refutes it.     *)
(***************************************************************************)
\* The slot of a worker that died before attaching becomes reusable again, also
\* if the waiter is terminated.
SlotsNeverLeak == \A s \in Slots : DeadSlot(s) ~> ~DeadSlot(s)
=============================================================================
