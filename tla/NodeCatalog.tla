---------------------------- MODULE NodeCatalog -----------------------------
(***************************************************************************)
(* The catalogs of a database: nodes, interfaces, subscriptions and        *)
(* replication sets, and the functions that change them, called by         *)
(* several sessions at once (pglogical_functions.c, pglogical_node.c,      *)
(* pglogical_repset.c).                                                    *)
(*                                                                         *)
(* A scan of a catalog sees what is committed when it starts; the rows     *)
(* are written without the checks of their foreign keys.  Most functions   *)
(* lock the local_node table against each other, some after they have      *)
(* read what they are going to write.  A call is therefore a step that     *)
(* reads and one that writes and commits.  A row that another open         *)
(* transaction has changed is waited for, and is then an error:            *)
(* CallFails.                                                              *)
(***************************************************************************)
EXTENDS Integers, FiniteSets

CONSTANTS
  Sessions,
  Locals,    \* names for the local node
  Provider,  \* the node subscriptions are for
  Subs,      \* names of subscriptions
  Sets,      \* replication sets
  Tables,
  NSlots,    \* bound: replication slots for subscribers of this node
  MaxCalls,  \* bound: calls
  NoSession, NoLocal

ASSUME CatalogAssumption ==
  /\ IsFiniteSet(Sessions) /\ NSlots \in Nat /\ MaxCalls \in Nat
  /\ Provider \notin Locals /\ NoLocal \notin Locals /\ NoSession \notin Sessions
  /\ Subs \cap Tables = {}

VARIABLES
  nodes,    \* node
  ifs,      \* node_interface: <<node, name>>
  local,    \* local_node
  subs,     \* subscription
  repset,   \* replication_set of the local node
  member,   \* replication_set_table
  keyed,    \* the tables with a replica identity index; ...
  dropped,  \* ... the ones that are not there
  slots,    \* the replication slots on this node
  lock,     \* who holds ShareUpdateExclusiveLock on local_node
  call,     \* what a session is doing
  calls,
  odd       \* history: see where it changes

catvars == <<nodes, ifs, local, subs, repset, member, keyed, dropped, slots, lock, call, calls, odd>>

IfNames == {"main", "alt"}

Sub == [here : BOOLEAN, target : Locals \cup {NoLocal}, oif : IfNames, enabled : BOOLEAN,
        sets : SUBSET Sets]
NoSub == [here |-> FALSE, target |-> NoLocal, oif |-> "main", enabled |-> FALSE, sets |-> {}]

\* A set replicates updates or deletes, or neither.
RepSet == {"none", "inserts", "changes"}

Idle == [op |-> "idle"]

Alters == {"disable", "enable", "set_interface", "add_set", "remove_set"}

\* One type invariant for the module; a table that is dropped is in no set.
CatalogTypeOK ==
  /\ nodes \subseteq Locals \cup {Provider}
  /\ ifs \subseteq (Locals \cup {Provider}) \X IfNames
  /\ local \subseteq Locals
  /\ subs \in [Subs -> Sub]
  /\ repset \in [Sets -> RepSet]
  /\ member \subseteq Sets \X (Tables \ dropped)
  /\ keyed \subseteq Tables /\ dropped \subseteq Tables
  /\ slots \in [1 .. NSlots -> {"none", "idle", "active"}]
  /\ lock \in Sessions \cup {NoSession}
  /\ calls \in 0 .. MaxCalls

\* The replication sets create_node makes: "default" replicates updates and deletes,
\* "default_insert_only" and "ddl_sql" do not.
Predefined == {f \in [Sets -> RepSet \ {"none"}] : Cardinality({r \in Sets : f[r] = "changes"}) = 1}

\* A database without a node, or with one; a table with a replica identity, the
\* others without.
CatalogInit ==
  /\ \/ /\ nodes = {} /\ ifs = {} /\ local = {}
        /\ repset = [r \in Sets |-> "none"]
     \/ /\ \E n \in Locals : nodes = {n} /\ ifs = {<<n, "main">>} /\ local = {n}
        /\ repset \in Predefined
  /\ subs = [x \in Subs |-> NoSub]
  /\ member = {}
  /\ \E t \in Tables : keyed = {t}
  /\ dropped = {}
  /\ slots = [i \in 1 .. NSlots |-> "none"]
  /\ lock = NoSession
  /\ call = [s \in Sessions |-> Idle]
  /\ calls = 0 /\ odd = {}

-----------------------------------------------------------------------------
(***************************************************************************)
(* Calls.                                                                  *)
(***************************************************************************)
nodevars == <<nodes, ifs, local>>
setvars == <<repset, member, keyed, dropped>>

Begins(s, c) ==
  /\ call[s] = Idle /\ calls < MaxCalls
  /\ call' = [call EXCEPT ![s] = c] /\ calls' = calls + 1

\* A call that is done in one step.
AtOnce(s) == call[s] = Idle /\ calls < MaxCalls /\ calls' = calls + 1 /\ UNCHANGED call

Commits(s) ==
  /\ call' = [call EXCEPT ![s] = Idle]
  /\ lock' = IF lock = s THEN NoSession ELSE lock
  /\ UNCHANGED calls

Locks(s) == lock = NoSession /\ lock' = s

\* get_local_node takes the first row there is, and loads its node and interface.
FirstLocal == {n \in local : n \in nodes /\ <<n, "main">> \in ifs}

\* A call that locks the local node and commits in one step.
HasNode == FirstLocal # {} /\ lock = NoSession

\* An error, or the transaction is rolled back; what a call did to slots stays.
CallFails(s) ==
  /\ call[s] # Idle
  /\ Commits(s)
  /\ UNCHANGED <<nodevars, setvars, subs, slots, odd>>

-----------------------------------------------------------------------------
(***************************************************************************)
(* Nodes and interfaces.                                                   *)
(***************************************************************************)
\* create_local_node looks for another local node under a lock, which it gives up
\* before the commit.
NoLocalNode == local = {} /\ lock = NoSession

\* pglogical_create_node up to its commit; the sets of a second local node are left
\* out.
CreateNode(s, n) ==
  /\ n \notin nodes /\ NoLocalNode
  /\ Begins(s, [op |-> "create_node", n |-> n])
  /\ UNCHANGED <<nodevars, setvars, subs, slots, lock, odd>>

CreateNodeCommit(s) ==
  /\ call[s].op = "create_node"
  /\ LET n == call[s].n
     IN /\ n \notin nodes /\ <<n, "main">> \notin ifs
        /\ nodes' = nodes \cup {n}
        /\ ifs' = ifs \cup {<<n, "main">>}
        /\ local' = local \cup {n}
  /\ IF local = {} THEN repset' \in Predefined ELSE UNCHANGED repset
  /\ Commits(s)
  /\ UNCHANGED <<subs, member, keyed, dropped, slots, odd>>

\* get_node_subscriptions loads every subscription with its nodes and interfaces,
\* and fails if one of them is not there.
Loads(x) ==
  /\ {Provider, subs[x].target} \subseteq nodes
  /\ <<Provider, subs[x].oif>> \in ifs /\ <<subs[x].target, "main">> \in ifs

Users(n) == {x \in Subs : subs[x].here /\ n \in {Provider, subs[x].target}}

\* drop_node_interfaces.
InterfacesLeft(n) == {f \in ifs : f[1] # n}

\* drop_node_replication_sets, with the tables of the sets.
SetsLeft(mine) == IF mine THEN [r \in Sets |-> "none"] ELSE repset

\* pglogical_drop_node looks for subscriptions, ...
DropNode(s, n) ==
  /\ n \in nodes /\ Users(n) = {}
  /\ Begins(s, [op |-> "drop_node", n |-> n])
  /\ UNCHANGED <<nodevars, setvars, subs, slots, lock, odd>>

\* ... locks the local node and drops its slots, in order and at once, up to one
\* that is in use, which is an error, ...
DropNodeSlots(s) ==
  /\ call[s].op = "drop_node" /\ lock = NoSession
  /\ \E first \in IF local = {} THEN {NoLocal} ELSE FirstLocal :
       LET active == {i \in 1 .. NSlots : slots[i] = "active"}
           mine == first = call[s].n
       IN /\ slots' = [i \in 1 .. NSlots |->
                         IF mine /\ \A j \in active : i < j THEN "none" ELSE slots[i]]
          /\ \/ mine /\ active # {} /\ Commits(s)
             \/ /\ mine => active = {}
                /\ Locks(s)
                /\ call' = [call EXCEPT ![s] = [op |-> "drop_node_rows", n |-> @.n, mine |-> mine]]
                /\ UNCHANGED calls
  /\ UNCHANGED <<nodevars, setvars, subs, odd>>

\* ... and deletes the rows.  Subscriptions that came in between are odd.
DropNodeCommit(s) ==
  /\ call[s].op = "drop_node_rows"
  /\ LET n == call[s].n
         mine == call[s].mine
     IN /\ n \in nodes
        /\ nodes' = nodes \ {n}
        /\ ifs' = InterfacesLeft(n)
        /\ local' = IF mine THEN local \ {n} ELSE local
        /\ repset' = SetsLeft(mine)
        /\ member' = IF mine THEN {} ELSE member
        /\ odd' = odd \cup Users(n)
  /\ Commits(s)
  /\ UNCHANGED <<subs, keyed, dropped, slots>>

\* pglogical_alter_node_add_interface; the node may be gone when it commits.
AddInterface(s, n, f) ==
  /\ n \in nodes /\ <<n, f>> \notin ifs
  /\ Begins(s, [op |-> "add_interface", n |-> n, f |-> f])
  /\ UNCHANGED <<nodevars, setvars, subs, slots, lock, odd>>

AddInterfaceCommit(s) ==
  /\ call[s].op = "add_interface"
  /\ <<call[s].n, call[s].f>> \notin ifs
  /\ ifs' = ifs \cup {<<call[s].n, call[s].f>>}
  /\ Commits(s)
  /\ UNCHANGED <<nodes, local, setvars, subs, slots, odd>>

\* pglogical_alter_node_drop_interface, whether or not it is in use.
DropInterface(s, n, f) ==
  /\ <<n, f>> \in ifs
  /\ ifs' = ifs \ {<<n, f>>}
  /\ odd' = odd \cup {x \in Users(n) : f = (IF n = Provider THEN subs[x].oif ELSE "main")}
  /\ AtOnce(s)
  /\ UNCHANGED <<nodes, local, setvars, subs, slots, lock>>

-----------------------------------------------------------------------------
(***************************************************************************)
(* Subscriptions.                                                          *)
(***************************************************************************)
\* Mutant: the lists are compared as a whole.
Overlaps_Same(sets) == \E y \in Subs : subs[y].here /\ subs[y].sets = sets

\* "Check for overlapping replication sets."
Overlaps(sets) == \E y \in Subs : subs[y].here /\ subs[y].sets \cap sets # {}

\* pglogical_create_subscription up to its commit: the local node is locked first;
\* a provider node that is known must have its own interface.
CreateSub(s, x, sets) ==
  /\ \E n \in FirstLocal :
       /\ Provider \in nodes => <<Provider, "main">> \in ifs
       /\ \A y \in Subs : subs[y].here => Loads(y)
       /\ ~subs[x].here /\ ~Overlaps(sets)
       /\ Locks(s)
       /\ Begins(s, [op |-> "create_sub", x |-> x, n |-> n, known |-> Provider \in nodes,
                     sets |-> sets])
  /\ UNCHANGED <<nodevars, setvars, subs, slots, odd>>

\* What it read may have been dropped since by a call that takes no lock; its own
\* insertion of a node that another call inserted would fail.
CreateSubCommit(s) ==
  /\ call[s].op = "create_sub"
  /\ LET c == call[s]
     IN /\ ~c.known => Provider \notin nodes /\ <<Provider, "main">> \notin ifs
        /\ nodes' = nodes \cup (IF c.known THEN {} ELSE {Provider})
        /\ ifs' = ifs \cup (IF c.known THEN {} ELSE {<<Provider, "main">>})
        /\ subs' = [subs EXCEPT ![c.x] = [here |-> TRUE, target |-> c.n, oif |-> "main",
                                          enabled |-> TRUE, sets |-> c.sets]]
        /\ odd' = (odd \ {c.x})
                    \cup (IF {<<c.n, "main">>, <<Provider, "main">>} \subseteq ifs' THEN {} ELSE {c.x})
  /\ Commits(s)
  /\ UNCHANGED <<local, setvars, slots>>

\* Mutant: the provider goes with any of its subscriptions.
LastOne_Any(x) == TRUE

\* "If the provider node record existed only for the dropped, subscription, it
\* should be dropped as well."
LastOne(x) == \A y \in Subs \ {x} : ~subs[y].here

\* pglogical_drop_subscription.  Subscription.tla has the worker and the slot.
DropSub(s, x) ==
  /\ subs[x].here /\ Loads(x)
  /\ HasNode
  /\ \A y \in Subs \ {x} : subs[y].here => Loads(y)
  /\ subs' = [subs EXCEPT ![x] = NoSub]
  /\ nodes' = IF LastOne(x) THEN nodes \ {Provider} ELSE nodes
  /\ ifs' = IF LastOne(x) THEN InterfacesLeft(Provider) ELSE ifs
  /\ odd' = odd \ {x}
  /\ AtOnce(s)
  /\ UNCHANGED <<local, setvars, slots, lock>>

\* pglogical_alter_subscription_disable, _enable, _interface, _add_replication_set
\* and _remove_replication_set read the subscription, ...
AlterSub(s, x, op, arg) ==
  /\ subs[x].here /\ Loads(x)
  /\ op = "add_set" => arg \notin subs[x].sets
  /\ op = "remove_set" => arg \in subs[x].sets
  /\ Begins(s, [op |-> op, x |-> x, arg |-> arg, seen |-> subs[x]])
  /\ UNCHANGED <<nodevars, setvars, subs, slots, lock, odd>>

Altered(row, op, arg) ==
  CASE op = "disable" -> [row EXCEPT !.enabled = FALSE]
    [] op = "enable" -> [row EXCEPT !.enabled = TRUE]
    [] op = "set_interface" -> [row EXCEPT !.oif = arg]
    [] op = "add_set" -> [row EXCEPT !.sets = @ \cup {arg}]
    [] op = "remove_set" -> [row EXCEPT !.sets = @ \ {arg}]

\* ... _interface locks the local node and looks for the interface, ...
FindInterface(s) ==
  /\ call[s].op = "interface"
  /\ FirstLocal # {} /\ Locks(s)
  /\ <<Provider, call[s].arg>> \in ifs /\ call[s].arg # call[s].seen.oif
  /\ call' = [call EXCEPT ![s].op = "set_interface"]
  /\ UNCHANGED <<nodevars, setvars, subs, slots, calls, odd>>

\* ... and they write all of it, the first two under the lock too.  A set that was
\* added, a row that changed in between and an interface that is gone by now make the
\* subscription odd.
AlterSubCommit(s) ==
  /\ call[s].op \in Alters
  /\ LET c == call[s]
     IN /\ c.op \in {"disable", "enable"} => HasNode
        /\ subs[c.x].here
        /\ subs' = [subs EXCEPT ![c.x] = Altered(c.seen, c.op, c.arg)]
        /\ odd' = IF \/ c.op = "add_set" \/ c.seen # subs[c.x]
                     \/ c.op = "set_interface" /\ <<Provider, c.arg>> \notin ifs
                  THEN odd \cup {c.x} ELSE odd
  /\ Commits(s)
  /\ UNCHANGED <<nodevars, setvars, slots>>

-----------------------------------------------------------------------------
(***************************************************************************)
(* Replication sets and tables.                                            *)
(***************************************************************************)
\* A table in use by an open transaction: pglogical_replication_set_add_table locks
\* it, pglogical_alter_replication_set the tables of the set.
InUse(t) ==
  \E s \in Sessions :
    \/ call[s].op = "add_table" /\ t \in call[s].ts
    \/ call[s].op = "alter_set" /\ call[s].to = "changes" /\ <<call[s].r, t>> \in member

\* pglogical_create_replication_set.
CreateSet(s, r, flags) ==
  /\ HasNode
  /\ repset[r] = "none"
  /\ repset' = [repset EXCEPT ![r] = flags]
  /\ AtOnce(s)
  /\ UNCHANGED <<nodevars, member, keyed, dropped, subs, slots, lock, odd>>

\* Mutant: the local node is not locked.
SetLock_Not(s) == UNCHANGED lock

\* check_local_node(true).
SetLock(s) == FirstLocal # {} /\ Locks(s)

\* alter_replication_set: "Validate that replication is not being changed to
\* replicate UPDATEs and DELETEs if it contains any tables without replication
\* identity."
AlterSet(s, r, flags) ==
  /\ SetLock(s)
  /\ repset[r] # "none"
  /\ flags = "changes" => \A t \in Tables : <<r, t>> \in member => t \in keyed
  /\ Begins(s, [op |-> "alter_set", r |-> r, to |-> flags])
  /\ UNCHANGED <<nodevars, setvars, subs, slots, odd>>

AlterSetCommit(s) ==
  /\ call[s].op = "alter_set"
  /\ repset' = [repset EXCEPT ![call[s].r] = call[s].to]
  /\ Commits(s)
  /\ UNCHANGED <<nodevars, member, keyed, dropped, subs, slots, odd>>

\* drop_replication_set.
DropSet(s, r) ==
  /\ HasNode
  /\ repset[r] # "none"
  /\ repset' = [repset EXCEPT ![r] = "none"]
  /\ member' = {m \in member : m[1] # r}
  /\ AtOnce(s)
  /\ UNCHANGED <<nodevars, keyed, dropped, subs, slots, lock, odd>>

\* The check of replication_set_add_table for a replica identity.
MayReplicate(r, ts) == repset[r] = "changes" => ts \subseteq keyed

\* pglogical_replication_set_add_table for one table, _add_all_tables for the ones
\* that are not in the set.
AddTables(s, r, ts) ==
  /\ SetLock(s)
  /\ repset[r] # "none"
  /\ \A t \in ts : t \notin dropped /\ ~InUse(t) /\ <<r, t>> \notin member
  /\ MayReplicate(r, ts)
  /\ Begins(s, [op |-> "add_table", r |-> r, ts |-> ts])
  /\ UNCHANGED <<nodevars, setvars, subs, slots, odd>>

AddTablesCommit(s) ==
  /\ call[s].op = "add_table"
  /\ member' = member \cup ({call[s].r} \X call[s].ts)
  /\ Commits(s)
  /\ UNCHANGED <<nodevars, repset, keyed, dropped, subs, slots, odd>>

\* pglogical_replication_set_remove_table.
RemoveTable(s, r, t) ==
  /\ HasNode
  /\ repset[r] # "none" /\ <<r, t>> \in member
  /\ member' = member \ {<<r, t>>}
  /\ AtOnce(s)
  /\ UNCHANGED <<nodevars, repset, keyed, dropped, subs, slots, lock, odd>>

\* What pglogical_dependency_check_trigger leaves of the memberships.
MembersLeft(t) == {m \in member : m[2] # t}

\* A table is dropped: DROP ... CASCADE, or by an apply worker, takes it out of its
\* sets; without that, and with a set, it is an error.  It does not wait for
\* the lock on the local node.
DropTable(t, cascade) ==
  /\ t \notin dropped /\ ~InUse(t) /\ calls < MaxCalls
  /\ local # {} => FirstLocal # {}
  /\ cascade \/ \A r \in Sets : <<r, t>> \notin member
  /\ dropped' = dropped \cup {t}
  /\ member' = MembersLeft(t)
  /\ calls' = calls + 1
  /\ UNCHANGED <<nodevars, repset, keyed, subs, slots, lock, call, odd>>

\* A user drops the primary key, or adds one.
AlterTable(t) ==
  /\ t \notin dropped /\ ~InUse(t) /\ calls < MaxCalls
  /\ keyed' = IF t \in keyed THEN keyed \ {t} ELSE keyed \cup {t}
  /\ odd' = IF t \in keyed THEN odd \cup {t} ELSE odd
  /\ calls' = calls + 1
  /\ UNCHANGED <<nodevars, repset, member, dropped, subs, slots, lock, call>>

\* Subscribers of this node create, use and leave their slots.
SlotChanges(i, to) ==
  /\ slots[i] # to /\ local # {}
  /\ to = "none" => slots[i] = "idle"
  /\ slots[i] = "none" => to = "idle"
  /\ slots' = [slots EXCEPT ![i] = to]
  /\ UNCHANGED <<nodevars, setvars, subs, lock, call, calls, odd>>

-----------------------------------------------------------------------------
NodeStep(s) ==
  \/ \E n \in Locals : CreateNode(s, n)
  \/ \E n \in nodes : DropNode(s, n)
  \/ \E n \in nodes, f \in IfNames : AddInterface(s, n, f) \/ DropInterface(s, n, f)
  \/ CreateNodeCommit(s) \/ AddInterfaceCommit(s) \/ DropNodeSlots(s) \/ DropNodeCommit(s)

SubStep(s) ==
  \/ \E x \in Subs :
       \/ \E sets \in SUBSET Sets : CreateSub(s, x, sets)
       \/ DropSub(s, x)
       \/ \E op \in {"disable", "enable"} : AlterSub(s, x, op, "none")
       \/ \E f \in IfNames : AlterSub(s, x, "interface", f)
       \/ \E r \in Sets, op \in {"add_set", "remove_set"} : AlterSub(s, x, op, r)
  \/ CreateSubCommit(s) \/ FindInterface(s) \/ AlterSubCommit(s)

SetStep(s) ==
  \/ \E r \in Sets :
       \/ DropSet(s, r)
       \/ \E flags \in RepSet \ {"none"} : CreateSet(s, r, flags) \/ AlterSet(s, r, flags)
       \/ \E t \in Tables : AddTables(s, r, {t}) \/ RemoveTable(s, r, t)
       \/ AddTables(s, r, {t \in Tables \ dropped : <<r, t>> \notin member})
  \/ AlterSetCommit(s) \/ AddTablesCommit(s)

TableStep == \E t \in Tables : AlterTable(t) \/ \E cascade \in BOOLEAN : DropTable(t, cascade)

SlotStep == \E i \in 1 .. NSlots, to \in {"none", "idle", "active"} : SlotChanges(i, to)

CatalogNext ==
  \/ \E s \in Sessions : NodeStep(s) \/ SubStep(s) \/ SetStep(s) \/ CallFails(s)
  \/ TableStep \/ SlotStep

CatalogSpec == CatalogInit /\ [][CatalogNext]_catvars

-----------------------------------------------------------------------------
(***************************************************************************)
(* Properties.                                                             *)
(***************************************************************************)
\* Two subscriptions of a node have no set in common, whichever sessions created
\* them, as long as no set was added to them later and no call wrote back a row it had
\* read before another one: the overlap is looked for under the lock.
SetsDisjoint ==
  \A x, y \in Subs :
    x # y /\ subs[x].here /\ subs[y].here /\ {x, y} \cap odd = {} => subs[x].sets \cap subs[y].sets = {}

\* A subscription has its nodes and interfaces, without which no worker and no
\* function can load it (subscription_fromtuple), although rows are deleted without
\* the checks of the foreign keys; unless an interface was dropped while in use or
\* while alter_subscription_interface was choosing it, its node while it was being
\* created, or a call wrote back what it had read before another one.
SubscriptionLoads == \A x \in Subs \ odd : subs[x].here => Loads(x)

\* A table in a set that replicates updates or deletes has a replica identity, as
\* long as it was not taken away from it later: what alter_replication_set and
\* replication_set_add_table check still holds when they commit.
MembersHaveIdentity ==
  \A r \in Sets, t \in Tables \ odd : repset[r] = "changes" /\ <<r, t>> \in member => t \in keyed

-----------------------------------------------------------------------------
(***************************************************************************)
(* What one may expect of the catalogs and the code does not establish.    *)
(* README.md says with which constants TLC refutes each.                   *)
(***************************************************************************)
\* "current database is already configured as pglogical node": there is one local
\* node.
OneLocalNode == Cardinality(local) <= 1

\* What one call changes is not undone by a call that changes something else.
NoLostAlter ==
  [][\A x \in Subs :
       subs[x].here /\ subs'[x].here /\ subs[x].enabled # subs'[x].enabled =>
         \E s \in Sessions : call[s].op \in {"disable", "enable"} /\ call'[s] = Idle]_catvars

\* drop_node drops the slots of the node with the node.
SlotsGoWithNode ==
  [][\A i \in 1 .. NSlots :
       slots[i] # "none" /\ slots'[i] = "none" =>
         (\E s \in Sessions : call'[s].op = "drop_node_rows") \/ UNCHANGED call]_catvars
=============================================================================
