---------------------------- MODULE TruncateQueue ----------------------------
(***************************************************************************)
(* How TRUNCATE reaches the subscribers.  TRUNCATE is not decoded.  A      *)
(* trigger on every replicated table notes the table in a list of the      *)
(* backend, pglogical_truncated_tables, and the hook around the utility    *)
(* statement queues a message for each table of the list when the          *)
(* statement is done (pglogical_executor.c).  The messages are rows of the *)
(* queue table and reach the subscriber in the order of the other changes  *)
(* of the transaction.                                                     *)
(*                                                                         *)
(* The module models one backend of a node, with the triggers its users    *)
(* put on the tables, and one subscriber, which applies a transaction as a *)
(* whole.                                                                  *)
(***************************************************************************)
EXTENDS Integers, Sequences, Functions

CONSTANTS
  Tables,     \* tables of the node
  RepSets,    \* replication sets the subscriber follows
  TruncSets,  \* the ones that replicate TRUNCATE
  Before,     \* triggers of users, before queue_truncate_trigger by name ...
  After,      \* ... and after it, on each table
  MaxRows,    \* bound: rows inserted
  MaxSteps    \* bound: statements

\* A trigger that is not for TRUNCATE, one that inserts into its table, one that
\* truncates another table.
UserTriggers == [on : {"row", "insert"}] \cup [on : {"truncate"}, rel : Tables]

Triggers == UserTriggers \cup [on : {"queue"}]

ASSUME TruncateAssumption ==
  /\ TruncSets \subseteq RepSets
  /\ \A f \in {Before, After} : \A t \in Tables : f[t] \in Seq(UserTriggers)
  /\ MaxRows \in Nat /\ MaxSteps \in Nat

VARIABLES
  rows,    \* what each table holds
  srows,   \* what it holds on the subscriber
  known,   \* tables with a row in local_sync_status there
  member,  \* the sets each table is in
  nq,      \* how many queue_truncate_triggers each table has
  wal,     \* what the open transaction has written, for the subscriber
  base,    \* what to go back to if it is rolled back; [on |-> FALSE] outside one
  stack,   \* the statements that execute, innermost first
  list,    \* pglogical_truncated_tables, and whether its memory is still there
  ids,     \* rows so far
  steps,
  odd,     \* history: tables the properties make exceptions for
  direct   \* history: a table was truncated without a utility statement

truncvars == <<rows, srows, known, member, nq, wal, base, stack, list, ids, steps, odd, direct>>

Ids == 1 .. MaxRows

NoTransaction == [on |-> FALSE]

\* The sequences of a loop, one after the other.
Concatenated(seqs) ==
  LET upto[i \in 0 .. Len(seqs)] == IF i = 0 THEN <<>> ELSE upto[i - 1] \o seqs[i]
  IN upto[Len(seqs)]

\* The tables a TRUNCATE of the user names.
TableLists == {rels \in UNION {[1 .. n -> Tables] : n \in 1 .. 2} : IsInjective(rels)}

\* A trigger to fire.
Firing == [trig : Triggers, rel : Tables]

\* A change or a message.
Item ==
  [op : {"insert"}, rel : Tables, id : Ids]
    \cup [op : {"tablesync"}, rel : Tables]
    \cup [op : {"truncate"}, rel : Tables, sets : SUBSET RepSets]
    \cup [op : {"sql"}, rels : TableLists]

\* The types of the variables.
TruncateTypeOK ==
  /\ rows \in [Tables -> SUBSET Ids] /\ srows \in [Tables -> SUBSET Ids]
  /\ known \subseteq Tables /\ member \in [Tables -> SUBSET RepSets]
  /\ nq \in [Tables -> Nat]
  /\ wal \in Seq(Item)
  /\ base \in {NoTransaction} \cup [on : {TRUE}, rows : [Tables -> SUBSET Ids],
                                   member : [Tables -> SUBSET RepSets], nq : [Tables -> Nat]]
  /\ stack \in Seq([todo : Seq(Firing), utility : BOOLEAN])
  /\ list \in [rels : Seq(Tables), live : BOOLEAN]
  /\ ids \in 0 .. MaxRows /\ steps \in 0 .. MaxSteps
  /\ odd \subseteq Tables /\ direct \in BOOLEAN

TruncateInit ==
  /\ rows = [t \in Tables |-> {}] /\ srows = rows /\ known = {}
  /\ member = [t \in Tables |-> {}] /\ nq = [t \in Tables |-> 0]
  /\ wal = <<>> /\ base = NoTransaction /\ stack = <<>>
  /\ list = [rels |-> <<>>, live |-> TRUE]
  /\ ids = 0 /\ steps = 0 /\ odd = {} /\ direct = FALSE

\* A statement of the user, in a transaction.
Statement ==
  /\ stack = <<>>
  /\ steps < MaxSteps /\ steps' = steps + 1
  /\ base' = IF base.on THEN base
             ELSE [on |-> TRUE, rows |-> rows, member |-> member, nq |-> nq]

Followed(t) == member[t] # {}

\* A row change is decoded if the table is in a set of the subscription.
Decoded(item) == IF Followed(item.rel) THEN <<item>> ELSE <<>>

Insert(t) ==
  /\ Statement
  /\ ids < MaxRows /\ ids' = ids + 1
  /\ rows' = [rows EXCEPT ![t] = @ \cup {ids'}]
  /\ wal' = wal \o Decoded([op |-> "insert", rel |-> t, id |-> ids'])
  /\ UNCHANGED <<srows, known, member, nq, stack, list, odd, direct>>

-----------------------------------------------------------------------------
(***************************************************************************)
(* Membership of tables.                                                   *)
(***************************************************************************)
\* The triggers of a table in the order of their names; only the kind matters.
TriggersOf(t) == Before[t] \o [i \in 1 .. nq[t] |-> [on |-> "queue"]] \o After[t]

\* The loop of create_truncate_trigger over the triggers: it goes on to the next
\* one only from a trigger for TRUNCATE.
FindsTrigger(t) ==
  \E k \in 1 .. Len(TriggersOf(t)) :
    /\ TriggersOf(t)[k].on = "queue"
    /\ \A j \in 1 .. k - 1 : TriggersOf(t)[j].on # "row"

\* pglogical_replication_set_add_table with synchronize_data, and
\* replication_set_add_table.
AddTable(t, set) ==
  /\ Statement
  /\ set \notin member[t]
  /\ member' = [member EXCEPT ![t] = @ \cup {set}]
  /\ nq' = IF FindsTrigger(t) THEN nq ELSE [nq EXCEPT ![t] = @ + 1]
  /\ wal' = Append(wal, [op |-> "tablesync", rel |-> t])
  /\ odd' = IF t \in known /\ member[t] \cap TruncSets = {} THEN odd \cup {t} ELSE odd
  /\ UNCHANGED <<rows, srows, known, stack, list, ids, direct>>

\* pglogical_replication_set_remove_table; the trigger stays.
RemoveTable(t, set) ==
  /\ Statement
  /\ set \in member[t]
  /\ member' = [member EXCEPT ![t] = @ \ {set}]
  /\ UNCHANGED <<rows, srows, known, nq, wal, stack, list, ids, odd, direct>>

-----------------------------------------------------------------------------
(***************************************************************************)
(* TRUNCATE.                                                               *)
(***************************************************************************)
\* The AFTER TRUNCATE triggers that a statement fires, in order.
Firings(rels) ==
  Concatenated([i \in 1 .. Len(rels) |->
    [j \in 1 .. Len(TriggersOf(rels[i])) |-> [trig |-> TriggersOf(rels[i])[j], rel |-> rels[i]]]])

\* ExecuteTruncate up to its triggers.
Executes(rels, utility) ==
  /\ rows' = [t \in Tables |-> IF t \in Range(rels) THEN {} ELSE rows[t]]
  /\ stack' = <<[todo |-> Firings(rels), utility |-> utility]>> \o stack

\* Mutant: the list is not reset.
StartTruncate_Not == list

\* pglogical_start_truncate.
StartTruncate == [rels |-> <<>>, live |-> TRUE]

\* pglogical_ProcessUtility for TRUNCATE.
Truncate(rels) ==
  /\ Statement
  /\ list' = StartTruncate
  /\ Executes(rels, TRUE)
  /\ UNCHANGED <<srows, known, member, nq, wal, ids, odd, direct>>

\* pglogical_replicate_ddl_command of a TRUNCATE: queued, then executed.
ReplicateDdl(rels) ==
  /\ Statement
  /\ wal' = Append(wal, [op |-> "sql", rels |-> rels])
  /\ list' = StartTruncate
  /\ Executes(rels, TRUE)
  /\ UNCHANGED <<srows, known, member, nq, ids, odd, direct>>

\* truncate_table of pglogical_alter_subscription_resynchronize_table, which is no
\* utility statement.
Resynchronize(t) ==
  /\ Statement
  /\ Executes(<<t>>, FALSE)
  /\ odd' = odd \cup {t} /\ direct' = TRUE
  /\ UNCHANGED <<srows, known, member, nq, wal, list, ids>>

Rest == [stack EXCEPT ![1].todo = Tail(@)]

Fires(on) == stack # <<>> /\ Head(stack).todo # <<>> /\ Head(Head(stack).todo).trig.on = on

Fired == Head(Head(stack).todo)

\* pglogical_queue_truncate.
FireQueue ==
  /\ Fires("queue")
  /\ list' = [list EXCEPT !.rels = Append(@, Fired.rel)]
  /\ stack' = Rest
  /\ UNCHANGED <<rows, srows, known, member, nq, wal, base, ids, steps, odd, direct>>

FireRow ==
  /\ Fires("row")
  /\ stack' = Rest
  /\ UNCHANGED <<rows, srows, known, member, nq, wal, base, list, ids, steps, odd, direct>>

FireInsert ==
  /\ Fires("insert")
  /\ ids < MaxRows /\ ids' = ids + 1
  /\ rows' = [rows EXCEPT ![Fired.rel] = @ \cup {ids'}]
  /\ wal' = wal \o Decoded([op |-> "insert", rel |-> Fired.rel, id |-> ids'])
  /\ odd' = odd \cup {Fired.rel}
  /\ stack' = Rest
  /\ UNCHANGED <<srows, known, member, nq, base, list, steps, direct>>

\* A TRUNCATE inside a TRUNCATE.
FireTruncate ==
  /\ Fires("truncate")
  /\ list' = StartTruncate
  /\ odd' = odd \cup Range(list.rels)
  /\ LET t == Fired.trig.rel
     IN /\ rows' = [rows EXCEPT ![t] = {}]
        /\ stack' = <<[todo |-> Firings(<<t>>), utility |-> TRUE]>> \o Rest
  /\ UNCHANGED <<srows, known, member, nq, wal, base, ids, steps, direct>>

TruncateMessage(t) == [op |-> "truncate", rel |-> t, sets |-> member[t]]

\* Mutant: the loop ends after the first table.
Messages_First == [i \in 1 .. IF list.rels = <<>> THEN 0 ELSE 1 |-> TruncateMessage(list.rels[i])]

\* pglogical_finish_truncate: a message for each table of the list that is in a
\* set.
Messages ==
  Concatenated([i \in 1 .. Len(list.rels) |->
    IF Followed(list.rels[i]) THEN <<TruncateMessage(list.rels[i])>> ELSE <<>>])

StatementEnds ==
  /\ stack # <<>> /\ Head(stack).todo = <<>>
  /\ stack' = Tail(stack)
  /\ \/ /\ Head(stack).utility
        /\ wal' = wal \o Messages
        /\ list' = [list EXCEPT !.rels = <<>>]
     \/ ~Head(stack).utility /\ UNCHANGED <<wal, list>>
  /\ UNCHANGED <<rows, srows, known, member, nq, base, ids, steps, odd, direct>>

-----------------------------------------------------------------------------
(***************************************************************************)
(* The end of a transaction.  The list was in its memory.                  *)
(***************************************************************************)
ListFreed == list' = [list EXCEPT !.live = @ /\ list.rels = <<>>]

\* pglogical_row_filter_hook for a message.
Sent(item) == item.op # "truncate" \/ item.sets \cap TruncSets # {}

\* handle_truncate.
Truncated(s, rel) == [s EXCEPT !.rows[rel] = {}]

\* handle_sql, for a TRUNCATE of rels.
SqlExecuted(s, rels) ==
  [s EXCEPT !.rows = [t \in Tables |-> IF t \in Range(rels) THEN {} ELSE @[t]]]

\* handle_table_sync: one with a sync status already is not synchronised.
SyncBegun(s, rel) == [s EXCEPT !.syncing = @ \cup ({rel} \ s.known)]

\* handle_insert and handle_queued_message on the subscriber.  A table being
\* synchronised skips what follows, and gets the rows from the copy (TableSync).
Handled(s, item) ==
  CASE item.op = "insert" /\ item.rel \notin s.syncing ->
         [s EXCEPT !.rows[item.rel] = @ \cup {item.id}]
    [] item.op = "truncate" /\ item.rel \notin s.syncing -> Truncated(s, item.rel)
    [] item.op = "sql" -> SqlExecuted(s, item.rels)
    [] item.op = "tablesync" -> SyncBegun(s, item.rel)
    [] OTHER -> s

Replicated(s, item) == IF Sent(item) THEN Handled(s, item) ELSE s

\* The subscriber after each item of a transaction.
Replayed(s, items) ==
  LET after[k \in 0 .. Len(items)] == IF k = 0 THEN s ELSE Replicated(after[k - 1], items[k])
  IN after

Subscriber == [rows |-> srows, known |-> known, syncing |-> {}]

Applied == Replayed(Subscriber, wal)[Len(wal)]

Commit ==
  /\ base.on /\ stack = <<>>
  /\ srows' = [t \in Tables |-> IF t \in Applied.syncing THEN rows[t] ELSE Applied.rows[t]]
  /\ known' = known \cup Applied.syncing
  /\ wal' = <<>> /\ base' = NoTransaction
  /\ ListFreed
  /\ UNCHANGED <<rows, member, nq, stack, ids, steps, odd, direct>>

\* An error, in a trigger or elsewhere.
Abort ==
  /\ base.on
  /\ rows' = base.rows /\ member' = base.member /\ nq' = base.nq
  /\ wal' = <<>> /\ base' = NoTransaction /\ stack' = <<>>
  /\ ListFreed
  /\ UNCHANGED <<srows, known, ids, steps, odd, direct>>

TruncateNext ==
  \/ \E t \in Tables :
       \/ Insert(t) \/ Resynchronize(t)
       \/ \E set \in RepSets : AddTable(t, set) \/ RemoveTable(t, set)
  \/ \E rels \in TableLists : Truncate(rels) \/ ReplicateDdl(rels)
  \/ FireQueue \/ FireRow \/ FireInsert \/ FireTruncate \/ StatementEnds
  \/ Commit \/ Abort

TruncateSpec == TruncateInit /\ [][TruncateNext]_truncvars

-----------------------------------------------------------------------------
(***************************************************************************)
(* Properties.                                                             *)
(***************************************************************************)
\* Between transactions the subscriber has the rows of every table that is in a
\* set replicating TRUNCATE, whatever was truncated and rolled back, except for a
\* table that was noted when a trigger of the statement truncated another one,
\* that a trigger filled again, that was truncated without a utility statement, or
\* that the subscriber knew when it was added to the set.
TruncatesMirrored ==
  ~base.on => \A t \in Tables \ odd : member[t] \cap TruncSets # {} => srows[t] = rows[t]

\* The list of truncated tables is not added to after its memory was freed with
\* the transaction: pglogical_start_truncate makes a new one, unless a table was
\* truncated without a utility statement.
ListIsLive == Fires("queue") /\ ~direct => list.live

-----------------------------------------------------------------------------
(***************************************************************************)
(* What comments of the code promise and the code does not establish.      *)
(* README.md says with which constants TLC refutes each.                   *)
(***************************************************************************)
\* "Check for already existing trigger on the table to avoid adding duplicate
\* ones."
NoDuplicateTrigger == \A t \in Tables : nq[t] <= 1

\* "This function only writes to internal linked list, actual queueing is done by
\* pglogical_finish_truncate": nothing noted is left when a statement is done.
NotedIsQueued == stack = <<>> /\ base.on => list.rels = <<>>

\* README.md:359: "if true, the table data is synchronized on all subscribers": what
\* is added has its rows there.
AddedIsCopied ==
  [][Commit => \A i \in 1 .. Len(wal) :
                 wal[i].op = "tablesync" => srows'[wal[i].rel] = rows[wal[i].rel]]_truncvars

\* The subscriber mirrors TRUNCATE whatever the triggers of users do.
AlwaysMirrored ==
  ~base.on => \A t \in Tables : member[t] \cap TruncSets # {} => srows[t] = rows[t]
=============================================================================
