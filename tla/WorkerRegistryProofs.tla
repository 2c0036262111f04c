----------------------- MODULE WorkerRegistryProofs -----------------------
(***************************************************************************)
(* Proofs about the worker slots of WorkerRegistry, for any number of      *)
(* slots and workers and any width of the generation counter, when the     *)
(* generation is read before the slot is registered again.                 *)
(***************************************************************************)
EXTENDS WorkerRegistry, TLAPS

\* The inductive invariant.
RegistryInv ==
  TypeOK /\ AttachAsserts /\ SlotOwnership /\ MarksOnlyItsOwn /\ SlotClaims

USE DEF Slots

\* The generation counter of pglogical_worker_register stays within its width.
LEMMA NextGenerationType ==
  ASSUME NEW g \in 0 .. GenMod - 1
  PROVE  NextGeneration(g) \in 0 .. GenMod - 1
BY RegistryAssumption DEF NextGeneration

\* Attaching to, detaching from or marking a slot leaves a well-formed slot.
LEMMA SlotUpdateType ==
  ASSUME NEW w \in WorkerSlot
  PROVE  /\ \A p \in Procs : [w EXCEPT !.proc = p] \in WorkerSlot
         /\ [w EXCEPT !.crashed_at = 1] \in WorkerSlot
         /\ DetachedSlot(w, TRUE) \in WorkerSlot
         /\ DetachedSlot(w, FALSE) \in WorkerSlot
<1>1. [w EXCEPT !.crashed_at = 1] \in WorkerSlot
  BY DEF WorkerSlot
<1>2. [w EXCEPT !.proc = NULL, !.crashed_at = 1] \in WorkerSlot
  BY DEF WorkerSlot
<1>3. [w EXCEPT !.proc = NULL, !.worker_type = "NONE"] \in WorkerSlot
  BY DEF WorkerSlot
<1>4. \A p \in Procs : [w EXCEPT !.proc = p] \in WorkerSlot
  BY DEF WorkerSlot
<1>5. QED
  BY <1>1, <1>2, <1>3, <1>4 DEF DetachedSlot

\* Detaching keeps the slot's generation.
LEMMA DetachedGeneration ==
  ASSUME NEW w \in WorkerSlot, NEW crash \in BOOLEAN
  PROVE  DetachedSlot(w, crash).generation = w.generation
<1>1. [w EXCEPT !.proc = NULL, !.crashed_at = 1].generation = w.generation
  BY DEF WorkerSlot
<1>2. [w EXCEPT !.proc = NULL, !.worker_type = "NONE"].generation = w.generation
  BY DEF WorkerSlot
<1>3. QED
  BY <1>1, <1>2 DEF DetachedSlot

\* Every step of Next keeps the type invariant.
LEMMA RegistryTypeStep == TypeOK /\ [Next]_vars => TypeOK'
<1> SUFFICES ASSUME TypeOK, [Next]_vars PROVE TypeOK'
  OBVIOUS
<1> USE RegistryAssumption
<1>1. ASSUME NEW p \in Procs, NEW type \in WorkerTypes, RegisterSlot(p, type)
      PROVE  TypeOK'
  <2>1. PICK s \in Slots :
          /\ workers' = [workers EXCEPT ![s] =
                        [worker_type |-> type,
                         generation  |-> NextGeneration(@.generation),
                         proc        |-> NULL,
                         crashed_at  |-> 0]]
          /\ slot' = [slot EXCEPT ![p] = s]
          /\ owner' = [owner EXCEPT ![s] = p]
    BY <1>1 DEF RegisterSlot
  <2>2. NextGeneration(workers[s].generation) \in 0 .. GenMod - 1
    BY NextGenerationType DEF TypeOK, WorkerSlot
  <2>3. workers' \in [Slots -> WorkerSlot]
    BY <2>1, <2>2 DEF TypeOK, WorkerSlot
  <2>4. QED
    BY <1>1, <2>1, <2>3 DEF TypeOK, RegisterSlot, BgwStates, WaiterStates
<1>2. ASSUME NEW p \in Procs, WaiterStep(p)
      PROVE  TypeOK'
  <2>1. CASE LaunchOk(p)
    BY <2>1 DEF TypeOK, LaunchOk, BgwStates, WaiterStates
  <2>2. CASE LaunchFail(p)
    BY <2>2, SlotUpdateType DEF TypeOK, LaunchFail, BgwStates, WaiterStates
  <2>3. CASE ReadGeneration(p)
    BY <2>3 DEF TypeOK, ReadGeneration, WorkerSlot, WaiterStates
  <2>4. CASE WaitSeesStarted(p)
    BY <2>4 DEF TypeOK, WaitSeesStarted, WaiterStates
  <2>5. CASE WaitSeesStopped(p)
    BY <2>5 DEF TypeOK, WaitSeesStopped, WaiterStates
  <2>6. CASE MarkCrashed(p)
    BY <2>6, SlotUpdateType DEF TypeOK, MarkCrashed, WaiterStates
  <2>7. CASE WaiterExits(p)
    BY <2>7 DEF TypeOK, WaiterExits, WaiterStates
  <2>8. QED
    BY <1>2, <2>1, <2>2, <2>3, <2>4, <2>5, <2>6, <2>7 DEF WaiterStep
<1>3. ASSUME NEW p \in Procs, WorkerStep(p)
      PROVE  TypeOK'
  <2>1. CASE Attach(p)
    <3>1. workers' \in [Slots -> WorkerSlot]
      BY <2>1, SlotUpdateType DEF TypeOK, Attach
    <3>2. mygen' \in [Procs -> 0 .. GenMod - 1]
      BY <2>1 DEF TypeOK, Attach, WorkerSlot
    <3>3. QED
      BY <2>1, <3>1, <3>2 DEF TypeOK, Attach, BgwStates
  <2>2. CASE DieUnattached(p)
    BY <2>2 DEF TypeOK, DieUnattached, BgwStates
  <2>3. CASE Detach(p, TRUE)
    BY <2>3, SlotUpdateType DEF TypeOK, Detach, BgwStates
  <2>4. CASE Detach(p, FALSE)
    BY <2>4, SlotUpdateType DEF TypeOK, Detach, BgwStates
  <2>5. QED
    BY <1>3, <2>1, <2>2, <2>3, <2>4 DEF WorkerStep
<1>4. ASSUME NEW s \in Slots, CleanCrashed(s)
      PROVE  TypeOK'
  BY <1>4 DEF TypeOK, CleanCrashed, WorkerSlot
<1>5. CASE ServerCrash
  BY <1>5 DEF TypeOK, ServerCrash, EmptySlot, WorkerSlot,
              BgwStates, WaiterStates
<1>6. CASE UNCHANGED vars
  BY <1>6 DEF TypeOK, vars
<1>7. QED
  BY <1>1, <1>2, <1>3, <1>4, <1>5, <1>6 DEF Next

\* The parts of the invariant other than the types.
ClaimsInv == AttachAsserts /\ SlotOwnership /\ MarksOnlyItsOwn /\ SlotClaims

\* What ClaimsInv says of one process q: b, t and g are its state, type and
\* generation as a worker, m and n the state and generation of its waiter, w its
\* slot and o the owner of the slot.
ClaimOn(q, b, t, g, m, n, w, o) ==
  /\ b \in {"taken", "starting"} => w.proc = NULL /\ w.worker_type = t
  /\ b = "attached" => /\ w.proc = q /\ w.generation = g
                       /\ w.worker_type = t /\ w.crashed_at = 0
  /\ b = "taken" => ~Reusable(w)
  /\ b = "starting" => w.crashed_at = 0
  /\ b \in {"taken", "starting", "attached"} => o = q
  /\ m = "launch" => b = "taken"
  /\ m = "read" => o = q
  /\ m = "wait" => (w.generation = n => o = q)
  /\ m = "mark" => o = q /\ b = "stopped" /\ ~Reusable(w)

Claim(q) == ClaimOn(q, bgw[q], ptype[q], mygen[q], waiter[q], wgen[q],
                    workers[slot[q]], owner[slot[q]])

\* The invariant holds iff each process has its claim.
LEMMA ClaimsByProcess ==
  /\ ClaimsInv <=> \A q \in Procs : Claim(q)
  /\ ClaimsInv' <=> \A q \in Procs : Claim(q)'
<1>1. ClaimsInv => \A q \in Procs : Claim(q)
  BY DEF ClaimsInv, AttachAsserts, SlotOwnership, MarksOnlyItsOwn, SlotClaims,
         Claim, ClaimOn
<1>2. (\A q \in Procs : Claim(q)) => ClaimsInv
  BY DEF ClaimsInv, AttachAsserts, SlotOwnership, MarksOnlyItsOwn, SlotClaims,
         Claim, ClaimOn
<1>3. ClaimsInv' => \A q \in Procs : Claim(q)'
  BY DEF ClaimsInv, AttachAsserts, SlotOwnership, MarksOnlyItsOwn, SlotClaims,
         Claim, ClaimOn
<1>4. (\A q \in Procs : Claim(q)') => ClaimsInv'
  BY DEF ClaimsInv, AttachAsserts, SlotOwnership, MarksOnlyItsOwn, SlotClaims,
         Claim, ClaimOn
<1>5. QED
  BY <1>1, <1>2, <1>3, <1>4

\* A process keeps its claim if nothing of it, its slot or its owner changes.
LEMMA Unmoved ==
  ASSUME NEW q \in Procs, Claim(q),
         bgw'[q] = bgw[q], ptype'[q] = ptype[q], slot'[q] = slot[q],
         mygen'[q] = mygen[q], waiter'[q] = waiter[q], wgen'[q] = wgen[q],
         workers'[slot[q]] = workers[slot[q]], owner'[slot[q]] = owner[slot[q]]
  PROVE  Claim(q)'
BY DEF Claim, ClaimOn, Reusable

\* A process that does not own its slot keeps its claim, which is empty but for
\* the generation its waiter compares, if the slot's generation stays.
LEMMA NotOwner ==
  ASSUME NEW q \in Procs, Claim(q), owner[slot[q]] # q,
         bgw'[q] = bgw[q], slot'[q] = slot[q],
         waiter'[q] = waiter[q], wgen'[q] = wgen[q],
         workers'[slot[q]].generation = workers[slot[q]].generation
  PROVE  Claim(q)'
<1>1. /\ bgw'[q] \notin {"taken", "starting", "attached"}
      /\ waiter'[q] \notin {"launch", "read", "mark"}
      /\ waiter'[q] = "wait" => workers'[slot'[q]].generation # wgen'[q]
  BY DEF Claim, ClaimOn
<1>2. QED
  BY <1>1 DEF Claim, ClaimOn

\* Taking a slot disturbs nobody who has a claim on it.
LEMMA RegisterSlotStep ==
  ASSUME TypeOK, \A q \in Procs : Claim(q), ~LaunchGap,
         NEW p \in Procs, NEW type \in WorkerTypes, RegisterSlot(p, type),
         NEW q \in Procs
  PROVE  Claim(q)'
<1> USE RegistryAssumption
<1>1. PICK s \in Slots :
        /\ Reusable(workers[s])
        /\ (waiter[q] = "wait" /\ slot[q] = s)
              => wgen[q] # NextGeneration(workers[s].generation)
        /\ slot[q] = s => waiter[q] # "read"
        /\ workers' = [workers EXCEPT ![s] =
                        [worker_type |-> type,
                         generation  |-> NextGeneration(@.generation),
                         proc        |-> NULL,
                         crashed_at  |-> 0]]
        /\ slot' = [slot EXCEPT ![p] = s]
        /\ owner' = [owner EXCEPT ![s] = p]
  BY DEF RegisterSlot, IsFirstEmptySlot, NoGenerationLap, NoLaunchGap
<1>2. /\ bgw' = [bgw EXCEPT ![p] = "taken"]
      /\ ptype' = [ptype EXCEPT ![p] = type]
      /\ waiter' = [waiter EXCEPT ![p] = "launch"]
      /\ UNCHANGED <<mygen, wgen>>
  BY DEF RegisterSlot
<1>3. /\ workers'[s].worker_type = type
      /\ type # "NONE"
      /\ workers'[s].generation = NextGeneration(workers[s].generation)
      /\ workers'[s].proc = NULL
      /\ workers'[s].crashed_at = 0
      /\ \A r \in Slots \ {s} : workers'[r] = workers[r] /\ owner'[r] = owner[r]
  BY <1>1 DEF TypeOK
<1>4. CASE q = p
  <2>1. /\ bgw'[p] = "taken" /\ slot'[p] = s /\ waiter'[p] = "launch"
        /\ owner'[s] = p /\ ptype'[p] = type
    BY <1>1, <1>2 DEF TypeOK
  <2>2. ~Reusable(workers'[s])
    BY <1>3 DEF Reusable
  <2>3. QED
    BY <1>3, <1>4, <2>1, <2>2 DEF Claim, ClaimOn
<1>5. CASE q # p
  <2>1. /\ bgw'[q] = bgw[q] /\ ptype'[q] = ptype[q] /\ slot'[q] = slot[q]
        /\ waiter'[q] = waiter[q] /\ mygen'[q] = mygen[q] /\ wgen'[q] = wgen[q]
        /\ slot[q] \in Slots /\ ptype[q] # "NONE"
    BY <1>1, <1>2, <1>5 DEF TypeOK
  <2>2. CASE slot[q] # s
    BY <1>3, <2>1, <2>2, Unmoved
  <2>3. CASE slot[q] = s
    <3>1. /\ bgw[q] \notin {"taken", "starting", "attached"}
          /\ waiter[q] \notin {"launch", "read", "mark"}
      BY <1>1, <2>1, <2>3 DEF Claim, ClaimOn, Reusable
    <3>2. waiter'[q] = "wait" => workers'[slot'[q]].generation # wgen'[q]
      BY <1>1, <1>3, <2>1, <2>3
    <3>3. QED
      BY <2>1, <3>1, <3>2 DEF Claim, ClaimOn
  <2>4. QED
    BY <2>2, <2>3
<1>6. QED
  BY <1>4, <1>5

\* A step of p that changes its slot, which it owns, but not the slot's
\* generation, leaves the claims of the others alone.
LEMMA OwnSlotStep ==
  ASSUME TypeOK, NEW p \in Procs, NEW q \in Procs, q # p, Claim(q),
         owner[slot[p]] = p,
         bgw'[q] = bgw[q], waiter'[q] = waiter[q], mygen'[q] = mygen[q],
         workers'[slot[p]].generation = workers[slot[p]].generation,
         \A r \in Slots \ {slot[p]} : workers'[r] = workers[r],
         UNCHANGED <<ptype, slot, wgen, owner>>
  PROVE  Claim(q)'
<1>1. slot[q] \in Slots
  BY DEF TypeOK
<1>2. CASE slot[q] = slot[p]
  BY <1>2, NotOwner
<1>3. CASE slot[q] # slot[p]
  BY <1>1, <1>3, Unmoved
<1>4. QED
  BY <1>2, <1>3

\* No step of the registering process disturbs a claim.
LEMMA WaiterStepInv ==
  ASSUME TypeOK, \A r \in Procs : Claim(r), NEW p \in Procs, WaiterStep(p),
         NEW q \in Procs
  PROVE  Claim(q)'
<1> USE RegistryAssumption
<1>0. slot[p] \in Slots /\ workers[slot[p]] \in WorkerSlot
  BY DEF TypeOK
<1>1. CASE LaunchOk(p)
  <2>1. CASE q # p
    <3>1. bgw'[q] = bgw[q] /\ waiter'[q] = waiter[q] /\ wgen'[q] = wgen[q]
      BY <1>1, <2>1 DEF LaunchOk, TypeOK
    <3>2. QED
      BY <1>1, <3>1, Unmoved DEF LaunchOk
  <2>2. CASE q = p
    <3>0. bgw[p] = "taken"
      BY <1>1 DEF LaunchOk, Claim, ClaimOn
    <3>1. bgw[p] = "taken" /\ bgw'[p] = "starting" /\ waiter'[p] = "read"
      BY <1>1, <3>0 DEF LaunchOk, TypeOK
    <3>2. QED
      BY <1>1, <2>2, <3>1 DEF LaunchOk, Claim, ClaimOn, Reusable, TypeOK, WorkerSlot
  <2>3. QED
    BY <2>1, <2>2
<1>2. CASE LaunchFail(p)
  <2>1. bgw[p] = "taken" /\ owner[slot[p]] = p
    BY <1>2 DEF LaunchFail, Claim, ClaimOn
  <2>2. CASE q # p
    <3>1. /\ workers'[slot[p]].generation = workers[slot[p]].generation
          /\ \A r \in Slots \ {slot[p]} : workers'[r] = workers[r]
      BY <1>0, <1>2 DEF LaunchFail, TypeOK, WorkerSlot
    <3>2. bgw'[q] = bgw[q] /\ waiter'[q] = waiter[q]
      BY <1>2, <2>2 DEF LaunchFail, TypeOK
    <3>3. QED
      BY <1>2, <2>1, <2>2, <3>1, <3>2, OwnSlotStep DEF LaunchFail
  <2>3. CASE q = p
    <3>1. bgw'[p] = "stopped" /\ waiter'[p] = "done"
      BY <1>2 DEF LaunchFail, TypeOK
    <3>2. QED
      BY <2>3, <3>1 DEF Claim, ClaimOn
  <2>4. QED
    BY <2>2, <2>3
<1>3. CASE ReadGeneration(p)
  <2>1. CASE q # p
    <3>1. bgw'[q] = bgw[q] /\ waiter'[q] = waiter[q] /\ wgen'[q] = wgen[q]
      BY <1>3, <2>1 DEF ReadGeneration, TypeOK
    <3>2. QED
      BY <1>3, <3>1, Unmoved DEF ReadGeneration
  <2>2. CASE q = p
    <3>1. waiter[p] = "read" /\ waiter'[p] = "wait"
      BY <1>3 DEF ReadGeneration, TypeOK
    <3>2. QED
      BY <1>3, <2>2, <3>1 DEF ReadGeneration, Claim, ClaimOn
  <2>3. QED
    BY <2>1, <2>2
<1>4. ASSUME NEW m \in {"done", "terminated"},
             waiter' = [waiter EXCEPT ![p] = m],
             UNCHANGED <<workers, bgw, ptype, slot, mygen, wgen, owner>>
      PROVE  Claim(q)'
  <2>1. CASE q # p
    <3>1. waiter'[q] = waiter[q]
      BY <1>4, <2>1 DEF TypeOK
    <3>2. QED
      BY <1>4, <3>1, Unmoved
  <2>2. CASE q = p
    <3>1. waiter'[p] \notin {"launch", "read", "wait", "mark"}
      BY <1>4 DEF TypeOK
    <3>2. QED
      BY <1>4, <2>2, <3>1 DEF Claim, ClaimOn
  <2>3. QED
    BY <2>1, <2>2
<1>5. CASE WaitSeesStarted(p)
  BY <1>4, <1>5 DEF WaitSeesStarted
<1>6. CASE WaitSeesStopped(p)
  <2>1. CASE ~DiedUnattached(p)
    BY <1>4, <1>6, <2>1 DEF WaitSeesStopped
  <2>2. CASE DiedUnattached(p) /\ q # p
    <3>1. bgw'[q] = bgw[q] /\ waiter'[q] = waiter[q] /\ wgen'[q] = wgen[q]
      BY <1>6, <2>2 DEF WaitSeesStopped, TypeOK
    <3>2. QED
      BY <1>6, <3>1, Unmoved DEF WaitSeesStopped
  <2>3. CASE DiedUnattached(p) /\ q = p
    <3>1. owner[slot[p]] = p /\ ~Reusable(workers[slot[p]])
      BY <1>6, <2>3 DEF WaitSeesStopped, DiedUnattached, Reusable, Claim, ClaimOn
    <3>2. waiter'[p] = "mark" /\ bgw[p] = "stopped"
      BY <1>6, <2>3 DEF WaitSeesStopped, TypeOK
    <3>3. QED
      BY <1>6, <2>3, <3>1, <3>2 DEF WaitSeesStopped, Claim, ClaimOn
  <2>4. QED
    BY <2>1, <2>2, <2>3
<1>7. CASE MarkCrashed(p)
  <2>1. bgw[p] = "stopped" /\ owner[slot[p]] = p
    BY <1>7 DEF MarkCrashed, Claim, ClaimOn
  <2>2. CASE q # p
    <3>1. /\ workers'[slot[p]].generation = workers[slot[p]].generation
          /\ \A r \in Slots \ {slot[p]} : workers'[r] = workers[r]
      BY <1>0, <1>7 DEF MarkCrashed, TypeOK, WorkerSlot
    <3>2. bgw'[q] = bgw[q] /\ waiter'[q] = waiter[q]
      BY <1>7, <2>2 DEF MarkCrashed, TypeOK
    <3>3. QED
      BY <1>7, <2>1, <2>2, <3>1, <3>2, OwnSlotStep DEF MarkCrashed
  <2>3. CASE q = p
    <3>1. bgw'[p] = "stopped" /\ waiter'[p] = "done"
      BY <1>7, <2>1 DEF MarkCrashed, TypeOK
    <3>2. QED
      BY <2>3, <3>1 DEF Claim, ClaimOn
  <2>4. QED
    BY <2>2, <2>3
<1>8. CASE WaiterExits(p)
  BY <1>4, <1>8 DEF WaiterExits
<1>9. QED
  BY <1>1, <1>2, <1>3, <1>5, <1>6, <1>7, <1>8 DEF WaiterStep

\* No step of a background worker disturbs a claim.
LEMMA WorkerStepInv ==
  ASSUME TypeOK, \A r \in Procs : Claim(r), NEW p \in Procs, WorkerStep(p),
         NEW q \in Procs
  PROVE  Claim(q)'
<1> USE RegistryAssumption
<1>0. slot[p] \in Slots /\ workers[slot[p]] \in WorkerSlot
  BY DEF TypeOK
<1>1. CASE Attach(p)
  <2> DEFINE w == [workers[slot[p]] EXCEPT !.proc = p]
  <2>1. /\ w.proc = p
        /\ w.generation = workers[slot[p]].generation
        /\ w.worker_type = workers[slot[p]].worker_type
        /\ w.crashed_at = workers[slot[p]].crashed_at
    BY <1>0 DEF WorkerSlot
  <2>2. workers' = [workers EXCEPT ![slot[p]] = w]
    BY <1>1 DEF Attach
  <2> HIDE DEF w
  <2>3. bgw[p] = "starting" /\ owner[slot[p]] = p
    BY <1>1 DEF Attach, Claim, ClaimOn
  <2>4. CASE q # p
    <3>1. /\ workers'[slot[p]].generation = workers[slot[p]].generation
          /\ \A r \in Slots \ {slot[p]} : workers'[r] = workers[r]
      BY <1>0, <2>1, <2>2 DEF TypeOK
    <3>2. bgw'[q] = bgw[q] /\ mygen'[q] = mygen[q]
      BY <1>1, <2>4 DEF Attach, TypeOK
    <3>3. QED
      BY <1>1, <2>3, <2>4, <3>1, <3>2, OwnSlotStep DEF Attach
  <2>5. CASE q = p
    <3>1. /\ bgw'[p] = "attached" /\ workers'[slot[p]] = w
          /\ mygen'[p] = workers[slot[p]].generation
      BY <1>1, <2>2 DEF Attach, TypeOK
    <3>2. waiter[p] \notin {"launch", "mark"}
      BY <2>3 DEF Claim, ClaimOn
    <3>3. QED
      BY <1>1, <2>1, <2>3, <2>5, <3>1, <3>2 DEF Attach, Claim, ClaimOn
  <2>6. QED
    BY <2>4, <2>5
<1>2. CASE DieUnattached(p)
  <2>1. CASE q # p
    <3>1. bgw'[q] = bgw[q] /\ waiter'[q] = waiter[q] /\ wgen'[q] = wgen[q]
      BY <1>2, <2>1 DEF DieUnattached, TypeOK
    <3>2. QED
      BY <1>2, <3>1, Unmoved DEF DieUnattached
  <2>2. CASE q = p
    <3>1. bgw[p] = "starting" /\ bgw'[p] = "stopped"
      BY <1>2 DEF DieUnattached, TypeOK
    <3>2. QED
      BY <1>2, <2>2, <3>1 DEF DieUnattached, Claim, ClaimOn
  <2>3. QED
    BY <2>1, <2>2
<1>3. ASSUME NEW crash \in BOOLEAN, Detach(p, crash)
      PROVE  Claim(q)'
  <2> DEFINE w == DetachedSlot(workers[slot[p]], crash)
  <2>1. w.generation = workers[slot[p]].generation
    BY <1>0, DetachedGeneration
  <2>2. workers' = [workers EXCEPT ![slot[p]] = w]
    BY <1>3 DEF Detach
  <2> HIDE DEF w
  <2>3. bgw[p] = "attached" /\ owner[slot[p]] = p
    BY <1>3 DEF Detach, Claim, ClaimOn
  <2>4. CASE q # p
    <3>1. /\ workers'[slot[p]].generation = workers[slot[p]].generation
          /\ \A r \in Slots \ {slot[p]} : workers'[r] = workers[r]
      BY <1>0, <2>1, <2>2 DEF TypeOK
    <3>2. bgw'[q] = bgw[q] /\ mygen'[q] = mygen[q]
      BY <1>3, <2>4 DEF Detach, TypeOK
    <3>3. QED
      BY <1>3, <2>3, <2>4, <3>1, <3>2, OwnSlotStep DEF Detach
  <2>5. CASE q = p
    <3>1. bgw'[p] = "stopped"
      BY <1>3 DEF Detach, TypeOK
    <3>2. waiter[p] \notin {"launch", "mark"}
      BY <2>3 DEF Claim, ClaimOn
    <3>3. QED
      BY <1>3, <2>3, <2>5, <3>1, <3>2 DEF Detach, Claim, ClaimOn
  <2>6. QED
    BY <2>4, <2>5
<1>4. QED
  BY <1>1, <1>2, <1>3 DEF WorkerStep

\* Forgetting a crashed worker disturbs no claim.
LEMMA CleanCrashedInv ==
  ASSUME TypeOK, \A r \in Procs : Claim(r), NEW s \in Slots, CleanCrashed(s),
         NEW q \in Procs
  PROVE  Claim(q)'
<1> USE RegistryAssumption
<1>1. /\ \A r \in Slots \ {s} : workers'[r] = workers[r]
      /\ workers'[s].generation = workers[s].generation
      /\ slot[q] \in Slots
  BY DEF CleanCrashed, TypeOK, WorkerSlot
<1>2. CASE slot[q] # s
  BY <1>1, <1>2, Unmoved DEF CleanCrashed
<1>3. CASE slot[q] = s
  <2>1. /\ bgw[q] \notin {"taken", "starting", "attached"}
        /\ waiter[q] \notin {"launch", "mark"}
    BY <1>3 DEF CleanCrashed, Claim, ClaimOn, Reusable
  <2>2. QED
    BY <1>1, <1>3, <2>1 DEF CleanCrashed, Claim, ClaimOn
<1>4. QED
  BY <1>2, <1>3

\* A restart of the server leaves no claims.
LEMMA ServerCrashInv ==
  ASSUME TypeOK, ServerCrash, NEW q \in Procs
  PROVE  Claim(q)'
<1>1. bgw'[q] \in {"unused", "stopped"} /\ waiter'[q] \in {"none", "done"}
  BY DEF ServerCrash
<1>2. QED
  BY <1>1 DEF Claim, ClaimOn

\* The invariant is inductive.
LEMMA RegistryInvStep ==
  ~LaunchGap /\ RegistryInv /\ [Next]_vars => RegistryInv'
<1> SUFFICES ASSUME ~LaunchGap, RegistryInv, [Next]_vars PROVE RegistryInv'
  OBVIOUS
<1>1. TypeOK /\ TypeOK'
  BY RegistryTypeStep DEF RegistryInv
<1>2. \A q \in Procs : Claim(q)
  BY ClaimsByProcess DEF RegistryInv, ClaimsInv
<1>3. ASSUME NEW q \in Procs PROVE Claim(q)'
  <2>1. CASE UNCHANGED vars
    BY <1>2, <2>1, Unmoved DEF vars
  <2>2. QED
    BY <1>1, <1>2, <2>1, RegisterSlotStep, WaiterStepInv, WorkerStepInv,
       CleanCrashedInv, ServerCrashInv DEF Next
<1>4. ClaimsInv'
  BY <1>3, ClaimsByProcess
<1>5. QED
  BY <1>1, <1>4 DEF RegistryInv, ClaimsInv

\* The initial state satisfies the invariant.
LEMMA RegistryInvInit == Init => RegistryInv
BY RegistryAssumption
   DEF Init, RegistryInv, TypeOK, AttachAsserts, SlotOwnership, MarksOnlyItsOwn,
       SlotClaims, WorkerSlot, EmptySlot, BgwStates, WaiterStates

\* The types of the registry's state hold in every behaviour, also when slots
\* are reused in the launch gap.
THEOREM RegistryTypeCorrect == Spec => []TypeOK
<1>1. Init => TypeOK
  BY RegistryInvInit DEF RegistryInv
<1>2. QED
  BY <1>1, RegistryTypeStep, PTL DEF Spec

\* With any number of slots, workers and registrations, a running worker owns
\* its slot until it detaches and the asserts of pglogical_worker_attach and
\* pglogical_worker_detach hold.
THEOREM SlotOwnershipCorrect ==
  ~LaunchGap => (Spec => [](SlotOwnership /\ AttachAsserts))
<1> SUFFICES ASSUME ~LaunchGap PROVE Spec => [](SlotOwnership /\ AttachAsserts)
  OBVIOUS
<1>1. RegistryInv /\ [Next]_vars => RegistryInv'
  BY RegistryInvStep
<1>2. RegistryInv => SlotOwnership /\ AttachAsserts
  BY DEF RegistryInv
<1>3. QED
  BY RegistryInvInit, <1>1, <1>2, PTL DEF Spec

\* wait_for_worker_startup never marks a slot that another worker has reused.
THEOREM MarksOnlyItsOwnCorrect == ~LaunchGap => (Spec => []MarksOnlyItsOwn)
<1> SUFFICES ASSUME ~LaunchGap PROVE Spec => []MarksOnlyItsOwn
  OBVIOUS
<1>1. RegistryInv /\ [Next]_vars => RegistryInv'
  BY RegistryInvStep
<1>2. RegistryInv => MarksOnlyItsOwn
  BY DEF RegistryInv
<1>3. QED
  BY RegistryInvInit, <1>1, <1>2, PTL DEF Spec
=============================================================================
