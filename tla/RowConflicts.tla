---------------------------- MODULE RowConflicts ----------------------------
(***************************************************************************)
(* Row changes between nodes that write to the same table and subscribe    *)
(* to each other: how an apply worker applies INSERT, UPDATE and DELETE    *)
(* (pglogical_apply.c) and resolves conflicts with what its node has       *)
(* (pglogical_conflict.c).                                                 *)
(*                                                                         *)
(* A transaction changes one row and is atomic: a worker that meets a row  *)
(* of an open transaction waits for it and looks again                     *)
(* (find_index_tuple).  A node sends its own transactions, in commit       *)
(* order, and not the ones it applied.  A worker that restarts may get the *)
(* last one it applied again.                                              *)
(*                                                                         *)
(* The table has a primary key, one more unique column, and a column whose *)
(* values are stored out of line: an update that does not change it does   *)
(* not send it.  What is in the other columns is told apart by the node    *)
(* and the timestamp of the commit, which a row keeps with                 *)
(* track_commit_timestamp, also when it is applied elsewhere.              *)
(***************************************************************************)
EXTENDS Integers, Sequences

CONSTANTS
  Nodes,
  Keys,          \* values of the primary key
  Uniques,       \* values of the other unique column
  Resolver,      \* pglogical.conflict_resolver
  Tracked,       \* track_commit_timestamp
  Synchronised,  \* TRUE: the clocks of the nodes agree with the order of commits
  MaxTs,         \* bound: timestamps
  MaxRepeats     \* bound: transactions sent again

\* pglogical_conflict_resolver_check_hook.
ASSUME ConflictAssumption ==
  /\ MaxTs \in Nat /\ MaxRepeats \in Nat
  /\ Resolver \in {"error", "apply_remote", "keep_local", "last_update_wins", "first_update_wins"}
  /\ Tracked \in BOOLEAN /\ Synchronised \in BOOLEAN
  /\ ~Tracked => Resolver = "apply_remote"

VARIABLES
  table,    \* each node's table, by primary key
  log,      \* each node's own transactions
  pos,      \* pos[n][m]: how many transactions of m were applied at n
  now,      \* the last timestamp given
  again,    \* again[n][m]: the next one is the last one applied, sent again
  repeats,
  odd,      \* history: keys that were deleted or changed, or met a row through the
            \* other column
  merged,   \* history: keys whose update met another row than the one it was made of
  since,    \* history: since[n][m], the keys changed at n since the last one of m
  undone    \* history: keys changed between a transaction and its repetition

history == <<odd, merged, since, undone>>

rowvars == <<table, log, pos, now, again, repeats, history>>

NoNode == "none"

Stamps == 0 .. MaxTs

\* Who wrote a value, and when.
Versions == (Nodes \X Stamps) \cup {<<NoNode, 0>>}
NoVersion == <<NoNode, 0>>

Row == [here : BOOLEAN, u : Uniques \cup {NoNode}, big : Versions, at : Versions]
NoRow == [here |-> FALSE, u |-> NoNode, big |-> NoVersion, at |-> NoVersion]

\* What is sent of a transaction: "old" is the key of the old tuple, if there is one,
\* and big is NoVersion if the column is not sent.  "made" is the row an update was
\* made of, and not sent.
Change == [op : {"insert", "update", "delete"}, old : Keys \cup {NoNode}, k : Keys,
           u : Uniques \cup {NoNode}, big : Versions, ts : Stamps, made : Versions]

\* One type invariant for the module.
RowTypeOK ==
  /\ table \in [Nodes -> [Keys -> Row]]
  /\ \A n \in Nodes : log[n] \in Seq(Change)
  /\ \A n, m \in Nodes : pos[n][m] \in 0 .. Len(log[m])
  /\ now \in Stamps
  /\ \A n, m \in Nodes : again[n][m] \in BOOLEAN /\ (again[n][m] => pos[n][m] > 0)
  /\ repeats \in 0 .. MaxRepeats
  /\ odd \subseteq Keys /\ merged \subseteq Keys /\ undone \subseteq Keys
  /\ since \in [Nodes -> [Nodes -> SUBSET Keys]]

RowInit ==
  /\ table = [n \in Nodes |-> [k \in Keys |-> NoRow]]
  /\ log = [n \in Nodes |-> <<>>]
  /\ pos = [n \in Nodes |-> [m \in Nodes |-> 0]]
  /\ now = 0
  /\ again = [n \in Nodes |-> [m \in Nodes |-> FALSE]]
  /\ repeats = 0
  /\ odd = {} /\ merged = {} /\ undone = {}
  /\ since = [n \in Nodes |-> [m \in Nodes |-> {}]]

\* No other row than the ones of keys except has u.
UniqueFree(t, u, except) == \A k \in Keys \ except : ~(t[k].here /\ t[k].u = u)

-----------------------------------------------------------------------------
(***************************************************************************)
(* The users of a node.                                                    *)
(***************************************************************************)
\* The timestamp of a commit.
Clock(ts) == IF Synchronised THEN ts = now + 1 ELSE TRUE

\* The key the row is looked up by: "searchtup = hasoldtup ? &oldtup : &newtup".
SearchKey(c) == IF c.old # NoNode THEN c.old ELSE c.k

KeysOf(c) == {c.k, SearchKey(c)}

\* t with the row of a change instead of the one looked up.
Replaced(t, c, row) == [t EXCEPT ![SearchKey(c)] = NoRow, ![c.k] = row]

\* Keys become odd when their row is deleted or gets another key.
OddBy(c) == IF c.op = "delete" \/ c.k # SearchKey(c) THEN KeysOf(c) ELSE {}

Changed(n, m, keys) ==
  since' = [since EXCEPT ![n] = [x \in Nodes |-> IF x = m THEN {} ELSE @[x] \cup keys]]

LocalCommit(n, c, row) ==
  /\ Clock(c.ts)
  /\ now' = IF c.ts > now THEN c.ts ELSE now
  /\ table' = [table EXCEPT ![n] = Replaced(@, c, row)]
  /\ log' = [log EXCEPT ![n] = Append(@, c)]
  /\ odd' = odd \cup OddBy(c)
  /\ Changed(n, n, KeysOf(c))
  /\ UNCHANGED <<pos, again, repeats, merged, undone>>

LocalInsert(n, k, u, ts) ==
  /\ ~table[n][k].here /\ UniqueFree(table[n], u, {})
  /\ LocalCommit(n, [op |-> "insert", old |-> NoNode, k |-> k, u |-> u, big |-> <<n, ts>>,
                     ts |-> ts, made |-> NoVersion],
                 [here |-> TRUE, u |-> u, big |-> <<n, ts>>, at |-> <<n, ts>>])

\* An update may change the key, and then the old tuple is sent, and may leave the
\* column that is stored out of line alone, and then that is not sent.
LocalUpdate(n, old, k, u, keeps, ts) ==
  /\ table[n][old].here /\ UniqueFree(table[n], u, {old})
  /\ k # old => ~table[n][k].here
  /\ LET row == table[n][old]
     IN LocalCommit(n, [op |-> "update", old |-> IF k = old THEN NoNode ELSE old, k |-> k, u |-> u,
                        big |-> IF keeps THEN NoVersion ELSE <<n, ts>>, ts |-> ts, made |-> row.at],
                    [here |-> TRUE, u |-> u, big |-> IF keeps THEN row.big ELSE <<n, ts>>,
                     at |-> <<n, ts>>])

LocalDelete(n, k, ts) ==
  /\ table[n][k].here
  /\ LocalCommit(n, [op |-> "delete", old |-> k, k |-> k, u |-> NoNode, big |-> NoVersion,
                     ts |-> ts, made |-> NoVersion], NoRow)

-----------------------------------------------------------------------------
(***************************************************************************)
(* The apply worker of n for the changes of m.                             *)
(***************************************************************************)
Pending(n, m) == again[n][m] \/ pos[n][m] < Len(log[m])

NextChange(n, m) == log[m][IF again[n][m] THEN pos[n][m] ELSE pos[n][m] + 1]

\* The worker restarts and the provider has not confirmed what it applied last: the
\* progress of the origin is at the commit record, so that the transaction is sent
\* again.
SentAgain(n, m) ==
  /\ repeats < MaxRepeats
  /\ repeats' = repeats + 1
  /\ pos[n][m] > 0 /\ ~again[n][m]
  /\ again' = [again EXCEPT ![n][m] = TRUE]
  /\ UNCHANGED <<table, log, pos, now, history>>

\* The row a change of m makes, with what is not sent taken from a local row.
Remote(m, c, row) ==
  [here |-> TRUE, u |-> c.u, big |-> IF c.big = NoVersion THEN row.big ELSE c.big,
   at |-> <<m, c.ts>>]

\* get_tuple_origin: without timestamps, the remote origin and its time.
LocalTs(row, c) == IF Tracked THEN row.at[2] ELSE c.ts
LocalOrigin(row, m) == IF Tracked THEN row.at[1] ELSE m

\* Mutant: the comparison is the wrong way round.
RemoteWins_Inverted(row, c) == LocalTs(row, c) >= c.ts

\* try_resolve_conflict and conflict_resolve_by_timestamp; a tie goes to the remote
\* row.
RemoteWins(row, c) ==
  CASE Resolver = "apply_remote" -> TRUE
    [] Resolver = "last_update_wins" -> c.ts >= LocalTs(row, c)
    [] Resolver = "first_update_wins" -> LocalTs(row, c) >= c.ts
    [] OTHER -> FALSE

\* With the resolver "error" the worker ends at a conflict, and meets it again.
Resolves == Resolver # "error"

\* The end of the transaction, and what the history notes of it.
Applied(n, m, keys) ==
  LET c == NextChange(n, m)
  IN /\ pos' = IF again[n][m] THEN pos ELSE [pos EXCEPT ![n][m] = @ + 1]
     /\ again' = [again EXCEPT ![n][m] = FALSE]
     /\ odd' = odd \cup keys
     /\ undone' = IF again[n][m] THEN undone \cup (since[n][m] \cap KeysOf(c)) ELSE undone
     /\ Changed(n, m, keys \cup KeysOf(c))
     /\ UNCHANGED <<log, now, repeats>>

\* find_index_tuple, for the index on the other column.
UniqueMatches(t, c) == {k \in Keys : t[k].here /\ t[k].u = c.u}

\* pglogical_tuple_find_conflict: the primary key is looked up first, then the
\* other column; the first row found counts.
ConflictKeys(t, c) ==
  IF t[c.k].here THEN {c.k} ELSE UniqueMatches(t, c)

\* handle_insert with no row in the way.
ApplyInsert(n, m) ==
  /\ Pending(n, m)
  /\ LET c == NextChange(n, m)
     IN /\ c.op = "insert"
        /\ ConflictKeys(table[n], c) = {}
        /\ table' = [table EXCEPT ![n][c.k] = Remote(m, c, NoRow)]
  /\ Applied(n, m, {})
  /\ UNCHANGED merged

\* handle_insert with a row in the way, which becomes the remote one, or stays.  A
\* third row with the same value in the other column is an error.
ApplyInsertConflict(n, m) ==
  /\ Pending(n, m) /\ Resolves
  /\ LET c == NextChange(n, m)
     IN /\ c.op = "insert"
        /\ \E k \in ConflictKeys(table[n], c) :
             /\ \/ /\ RemoteWins(table[n][k], c)
                   /\ UniqueFree(table[n], c.u, {k})
                   /\ table' = [table EXCEPT ![n] = [@ EXCEPT ![k] = NoRow,
                                                              ![c.k] = Remote(m, c, NoRow)]]
                \/ ~RemoteWins(table[n][k], c) /\ UNCHANGED table
             /\ Applied(n, m, IF k = c.k THEN {} ELSE {k, c.k})
  /\ UNCHANGED merged

\* "If the local tuple was previously updated by different transaction on different
\* server, consider this to be conflict".
IsConflict(row, m) == LocalOrigin(row, m) # m

\* pglogical_tuple_find_replidx: the row is looked up by the replica identity, which
\* is the key here.
FindReplidx(t, c) == t[SearchKey(c)].here

\* Mutant: what is not sent is set to nothing.
Merged_Whole(m, c, row) == Remote(m, c, NoRow)

\* heap_modify_tuple: what is not sent stays as it is.
Merged(m, c, row) == Remote(m, c, row)

\* handle_update of a row that is there.  Another row with the same key or the same
\* value in the other column is an error.
ApplyUpdate(n, m) ==
  /\ Pending(n, m)
  /\ LET c == NextChange(n, m)
         row == table[n][SearchKey(c)]
     IN /\ c.op = "update"
        /\ FindReplidx(table[n], c)
        /\ IsConflict(row, m) => Resolves
        /\ \/ /\ IsConflict(row, m) => RemoteWins(row, c)
              /\ UniqueFree(table[n], c.u, {SearchKey(c)})
              /\ c.k # SearchKey(c) => ~table[n][c.k].here
              /\ table' = [table EXCEPT ![n] = Replaced(@, c, Merged(m, c, row))]
              /\ merged' = IF c.big = NoVersion /\ row.at \notin {c.made, <<m, c.ts>>}
                           THEN merged \cup {c.k} ELSE merged
           \/ /\ IsConflict(row, m) /\ ~RemoteWins(row, c)
              /\ UNCHANGED <<table, merged>>
  /\ Applied(n, m, {})

\* handle_delete of a row that is there, whoever wrote it.
ApplyDelete(n, m) ==
  /\ Pending(n, m)
  /\ LET c == NextChange(n, m)
     IN /\ c.op = "delete"
        /\ FindReplidx(table[n], c)
        /\ table' = [table EXCEPT ![n][SearchKey(c)] = NoRow]
  /\ Applied(n, m, {})
  /\ UNCHANGED merged

\* Mutant: an update of a row that is not there inserts it.
ApplySkips_Upsert(n, m) ==
  /\ Pending(n, m)
  /\ LET c == NextChange(n, m)
     IN /\ c.op \in {"update", "delete"} /\ ~FindReplidx(table[n], c)
        /\ table' = IF c.op = "update" THEN [table EXCEPT ![n][c.k] = Remote(m, c, NoRow)]
                    ELSE table
  /\ Applied(n, m, {})
  /\ UNCHANGED merged

\* handle_update and handle_delete of a row that is not there.
ApplySkips(n, m) ==
  /\ Pending(n, m)
  /\ LET c == NextChange(n, m) IN c.op \in {"update", "delete"} /\ ~FindReplidx(table[n], c)
  /\ Applied(n, m, {})
  /\ UNCHANGED <<table, merged>>

RowNext ==
  \/ \E n \in Nodes, k \in Keys, ts \in Stamps :
       \/ LocalDelete(n, k, ts)
       \/ \E u \in Uniques :
            \/ LocalInsert(n, k, u, ts)
            \/ \E old \in Keys, keeps \in BOOLEAN : LocalUpdate(n, old, k, u, keeps, ts)
  \/ \E n \in Nodes : \E m \in Nodes \ {n} :
       \/ ApplyInsert(n, m) \/ ApplyInsertConflict(n, m) \/ ApplyUpdate(n, m)
       \/ ApplyDelete(n, m) \/ ApplySkips(n, m) \/ SentAgain(n, m)

RowSpec == RowInit /\ [][RowNext]_rowvars

-----------------------------------------------------------------------------
(***************************************************************************)
(* Properties.                                                             *)
(***************************************************************************)
\* A transaction is named by its node and its number there.
Transactions == {e \in Nodes \X (1 .. MaxTs) : e[2] <= Len(log[e[1]])}

At(e) == log[e[1]][e[2]]

\* What n has seen of k: its own changes and the ones it applied.
Seen(n, k) == {e \in Transactions : k \in KeysOf(At(e)) /\ (e[1] = n \/ e[2] <= pos[n][e[1]])}

\* With last_update_wins a row is of the latest of the changes its node has seen, by
\* the timestamp of the commit, in whatever order they came and although some come
\* twice, as long as the key was not deleted or changed and met no other key through
\* the unique column.
LastUpdateWins ==
  \A n \in Nodes, k \in Keys \ odd :
    IF Seen(n, k) = {} THEN ~table[n][k].here
    ELSE \E e \in Seen(n, k) :
           /\ \A f \in Seen(n, k) : At(f).ts <= At(e).ts
           /\ table[n][k].at = <<e[1], At(e).ts>> /\ table[n][k].u = At(e).u

Quiet == \A n, m \in Nodes : n # m => ~Pending(n, m)

\* When everything is applied the nodes agree on such a row, also on the column that
\* is not always sent, unless an update that left it out was applied to another row
\* than the one it was made of.
Converges ==
  Quiet => \A k \in Keys \ odd : \A n, m \in Nodes :
             /\ table[n][k].at = table[m][k].at
             /\ k \notin merged => table[n][k] = table[m][k]

\* If a row was inserted once, kept its key and was deleted, it is gone everywhere.
GoneIfDeleted(k) ==
  LET all == {e \in Transactions : k \in KeysOf(At(e))}
  IN (/\ \E e \in all : At(e).op = "delete"
      /\ \E i \in all : \A e \in all : At(e).op = "insert" <=> e = i
      /\ \A e \in all : KeysOf(At(e)) = {k}) =>
        \A n \in Nodes : ~table[n][k].here

\* A row that was deleted, by whichever node, is gone everywhere when everything is
\* applied: no update that was under way and no transaction that was sent again brings
\* it back, unless the node changed the key itself between a transaction and its
\* repetition.
DeletedStaysGone == Quiet => \A k \in Keys \ undone : GoneIfDeleted(k)

-----------------------------------------------------------------------------
(***************************************************************************)
(* What one may expect of replication in both directions and the code does *)
(* not establish.  README.md says with which constants TLC refutes each.   *)
(***************************************************************************)
\* Nodes that have applied everything agree on every row.
AlwaysConverges == Quiet => \A n, m \in Nodes : table[n] = table[m]

\* They agree on a row that was only updated, whatever its updates left out.
UpdatesConverge == Quiet => \A k \in Keys \ odd : \A n, m \in Nodes : table[n][k] = table[m][k]

\* A transaction that is sent again does not bring back what was deleted since.
RepetitionIsHarmless == Quiet => \A k \in Keys : GoneIfDeleted(k)
=============================================================================
