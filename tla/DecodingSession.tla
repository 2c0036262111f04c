-------------------------- MODULE DecodingSession --------------------------
(***************************************************************************)
(* One subscription's stream as the provider's output plugin writes it:    *)
(* which row changes are sent, which columns, and when the description of  *)
(* a relation is sent before them.  Three caches meet here:                *)
(*   - repcache, a relation's entry of RepSetTableHash                     *)
(*     (pglogical_repset.c), filled from the catalogs as of the change     *)
(*     being decoded and from the sets read when the session started;      *)
(*   - relmeta, RelMetaCache of the plugin (pglogical_relmetacache.c):     *)
(*     the relations whose description the session has sent;               *)
(*   - down, the subscriber's PGLogicalRelationHash                        *)
(*     (pglogical_relcache.c): the last description it received.           *)
(* Transactions are decoded whole and in commit order, but run at the same *)
(* time, as far as their locks allow: others commit while the one in       *)
(* "open" is running, and it is decoded with the catalogs each of its      *)
(* changes was made under, after theirs.  A session ends when the          *)
(* connection does; the next one begins after the last transaction the     *)
(* subscriber confirmed.                                                   *)
(*                                                                         *)
(* The description of a relation is a pair of its version, which every     *)
(* ALTER TABLE changes, and the list of columns sent, {} for all of them   *)
(* (the NULL att_list).                                                    *)
(***************************************************************************)
EXTENDS Integers, Sequences, FiniteSetsExt, Functions

CONSTANTS
  Rels,            \* relations of the provider
  NoRel,
  Sets,            \* replication sets of the subscription
  Ops,             \* row operations a set can replicate
  Cols,            \* columns a column list may name
  Scenarios,       \* by name: what the provider does and the subscriber asks for
  MaxTx,           \* bound: transactions
  MaxItems,        \* bound: items of a transaction
  MaxLog,          \* bound: items of all transactions
  SinvalInCallback \* TRUE: a callback may process invalidations

\* Items of the provider's transactions: a row change, with the sets whose filter it
\* passes, and whether there is a tuple to send (a delete from a table that has lost
\* its replica identity has none); ALTER TABLE; a table added to a set or removed; a
\* set altered.
RowItem == [op : {"row"}, rel : Rels, kind : Ops, match : SUBSET Sets, tuple : BOOLEAN]
DdlItem == [op : {"ddl"}, rel : Rels]
AddItem == [op : {"add"}, rel : Rels, set : Sets, att : SUBSET Cols, filter : BOOLEAN]
RemoveItem == [op : {"remove"}, rel : Rels, set : Sets]
AlterItem == [op : {"alter"}, set : Sets, flags : SUBSET Ops]
Item == RowItem \cup DdlItem \cup AddItem \cup RemoveItem \cup AlterItem

ASSUME SessionAssumption ==
  /\ NoRel \notin Rels
  /\ \A n \in DOMAIN Scenarios :
       Scenarios[n] \in [only : Rels \cup {NoRel}, flags : [Sets -> SUBSET Ops],
                        in : SUBSET Sets, alike : SUBSET Rels, items : SUBSET Item,
                        long : SUBSET Item, again : BOOLEAN, sessions : Nat]
  /\ MaxTx \in Nat /\ MaxItems \in Nat /\ MaxLog \in Nat
  /\ SinvalInCallback \in BOOLEAN

VARIABLES
  sc,        \* the scenario of this behaviour
  log,       \* the committed transactions: their items, and the catalogs they began with
  open,      \* a transaction that is running
  written,   \* how many items all of them have
  cur,       \* the catalogs now
  pc,        \* where the session is
  tx, item,  \* the transaction it decodes, and the items of it decoded
  hist,      \* the catalogs as of that item (the historic snapshot)
  psets,     \* PGLogicalHooksPrivate.replication_sets: operations of each set
  repcache, relmeta, down,
  stale,     \* history: relations whose entry of repcache outlived a change of snapshot
  held,      \* the att_list pg_decode_change holds between two calls
  sinval,    \* invalidation messages the session has not processed
  conf,      \* transactions the subscriber confirmed
  sessions,  \* sessions so far
  out        \* what became of the last row decoded

provider == <<log, open, written, cur>>
session == <<pc, tx, item, hist, psets, repcache, relmeta, down, stale, held>>
vars == <<sc, provider, session, sinval, conf, sessions, out>>

\* pglogical.replicate_only_table, NoRel if the subscriber does not give it; the
\* operations each set replicates and the sets the tables are in at first; the
\* tables whose columns are laid out like those of replication_set_table; what a
\* transaction of the provider may do, and what a long one; whether it may write to
\* what it altered; a bound on the sessions.
OnlyTable == Scenarios[sc].only
InitFlags == Scenarios[sc].flags
InitSets == Scenarios[sc].in
SameLayout == Scenarios[sc].alike
Items == Scenarios[sc].items
LongItems == Scenarios[sc].long
RowsAfterDdl == Scenarios[sc].again
MaxSessions == Scenarios[sc].sessions

Member == [in : BOOLEAN, att : SUBSET Cols, filter : BOOLEAN]
Catalogs ==
  [ver : [Rels -> Nat], member : [Sets -> [Rels -> Member]], flags : [Sets -> SUBSET Ops]]

\* What decoding finds in a transaction that was running when one that changed the
\* catalogs committed: the snapshot to go on with.
SnapshotItem == [op : {"snapshot"}, cat : Catalogs, rels : SUBSET Rels]

Transaction == [items : Seq(Item \cup SnapshotItem), base : Catalogs]

Shape == [ver : Nat, att : SUBSET Cols]
NoShape == [ver |-> 0, att |-> {}]

\* PGLogicalTableRepInfo; filters is the set of sets whose filter is listed.
RepInfo == [isvalid : BOOLEAN, ops : SUBSET Ops, att : SUBSET Cols, filters : SUBSET Sets]
InvalidInfo == [isvalid |-> FALSE, ops |-> {}, att |-> {}, filters |-> {}]

\* PGLRelMetaCacheEntry; here is FALSE when there is no entry.
RelMeta == [here : BOOLEAN, is_cached : BOOLEAN, is_valid : BOOLEAN]
NoEntry == [here |-> FALSE, is_cached |-> FALSE, is_valid |-> FALSE]

\* No list is held.
NoList == [att |-> {}, freed |-> FALSE]

\* right: the lists of the row's table were read right; kept: its entry was stale.
Outcome == [sent : BOOLEAN, due : BOOLEAN, right : BOOLEAN, kept : BOOLEAN, atts : SUBSET Cols,
            live : BOOLEAN, shape : Shape, meta : Shape]
NothingYet == [sent |-> FALSE, due |-> FALSE, right |-> TRUE, kept |-> FALSE,
               atts |-> {}, live |-> TRUE, shape |-> NoShape, meta |-> NoShape]

\* One type invariant for the module.
TypeOK ==
  /\ sc \in DOMAIN Scenarios
  /\ log \in Seq(Transaction) /\ Len(log) <= MaxTx /\ open \in Transaction
  /\ written \in 0 .. MaxLog
  /\ cur \in Catalogs /\ hist \in Catalogs
  /\ pc \in {"off", "idle", "tx", "rel", "row"}
  /\ tx \in 1 .. Len(log) + 1
  /\ item \in Nat
  /\ psets \in [Sets -> SUBSET Ops]
  /\ repcache \in [Rels -> RepInfo]
  /\ relmeta \in [Rels -> RelMeta]
  /\ down \in [Rels -> Shape]
  /\ stale \subseteq Rels
  /\ held \in [att : SUBSET Cols, freed : BOOLEAN]
  /\ sinval \subseteq Rels
  /\ conf \in 0 .. Len(log)
  /\ sessions \in 0 .. MaxSessions
  /\ out \in Outcome

FirstCatalogs ==
  [ver |-> [r \in Rels |-> 1],
   member |-> [s \in Sets |-> [r \in Rels |->
                 [in |-> s \in InitSets, att |-> {}, filter |-> FALSE]]],
   flags |-> InitFlags]

NotOpen == [items |-> <<>>, base |-> FirstCatalogs]

Init ==
  /\ sc \in DOMAIN Scenarios
  /\ log = <<>> /\ open = NotOpen /\ written = 0
  /\ cur = FirstCatalogs /\ hist = FirstCatalogs
  /\ pc = "off" /\ tx = 1 /\ item = 0
  /\ psets = InitFlags
  /\ repcache = [r \in Rels |-> InvalidInfo]
  /\ relmeta = [r \in Rels |-> NoEntry]
  /\ down = [r \in Rels |-> NoShape]
  /\ stale = {} /\ held = NoList
  /\ sinval = {} /\ conf = 0 /\ sessions = 0
  /\ out = NothingYet

-----------------------------------------------------------------------------
(* The provider's transactions.                                            *)

IsCatalogItem(i) == i.op \in {"ddl", "add", "remove"}

\* replication_set_add_table and replication_set_remove_table; the mapping
\* of a set and a relation is unique, and removing what is not there fails.
Possible(cat, i) ==
  /\ i.op = "add" => ~cat.member[i.set][i.rel].in
  /\ i.op = "remove" => cat.member[i.set][i.rel].in

\* What an item leaves in the catalogs.
Catalog(cat, i) ==
  CASE i.op = "row" -> cat
    [] i.op = "ddl" -> [cat EXCEPT !.ver[i.rel] = @ + 1]
    [] i.op = "add" -> [cat EXCEPT !.member[i.set][i.rel] =
                          [in |-> TRUE, att |-> i.att, filter |-> i.filter]]
    [] i.op = "remove" -> [cat EXCEPT !.member[i.set][i.rel] =
                             [in |-> FALSE, att |-> {}, filter |-> FALSE]]
    [] i.op = "alter" -> [cat EXCEPT !.flags[i.set] = i.flags]

\* The catalogs as of each item of a transaction, and at its end.
Snapshots(cat, items) ==
  LET after[k \in 0 .. Len(items)] == IF k = 0 THEN cat ELSE Catalog(after[k - 1], items[k])
  IN after

\* A transaction's own items, without the snapshots.
Own(items) == SelectSeq(items, LAMBDA i : i.op # "snapshot")

\* The catalogs with a transaction's own changes on top.
With(cat, items) == Snapshots(cat, Own(items))[Len(Own(items))]

\* The catalogs as of item k of a transaction: the last snapshot it came by, and its
\* own changes.
CatalogsAt(t, k) ==
  LET snaps == {j \in 1 .. k : t.items[j].op = "snapshot"}
      base == IF snaps = {} THEN t.base ELSE t.items[Max(snaps)].cat
  IN With(base, SubSeq(t.items, 1, k))

\* The relations whose relcache entry a transaction invalidates.
Invalidates(items) == {i.rel : i \in {j \in Range(items) : IsCatalogItem(j)}}

\* Those whose membership or shape another transaction changed while it ran.
ChangedMeanwhile(items) ==
  UNION {i.rels : i \in {j \in Range(items) : j.op = "snapshot"}}

Legal(cat, items) ==
  /\ \A k \in 1 .. Len(items) : Possible(Snapshots(cat, items)[k - 1], items[k])
  /\ RowsAfterDdl \/ \A j, k \in 1 .. Len(items) :
       j < k /\ IsCatalogItem(items[j]) /\ items[k].op = "row"
         => items[j].rel # items[k].rel

\* Locks that two transactions cannot hold together: the pglogical functions lock
\* the local node against each other, check_local_node(true); adding a table locks
\* it against writers, and removing it does not lock it at all; ALTER TABLE locks it
\* against all, alter_replication_set opening the tables of the set if it replicates
\* more than inserts.
Conflict(i, j) ==
  \/ {i.op, j.op} \subseteq {"add", "remove", "alter"}
  \/ {i.op, j.op} \subseteq {"row", "add", "ddl"} /\ {i.op, j.op} # {"row"} /\ i.rel = j.rel
  \/ i.op = "alter" /\ j.op = "ddl" /\ i.flags \ {"insert"} # {} /\ cur.member[i.set][j.rel].in

NoConflict(items) ==
  \A i \in Range(items), j \in Range(open.items) : ~Conflict(i, j) /\ ~Conflict(j, i)

Committed(t, items) ==
  /\ log' = Append(log, t)
  /\ cur' = With(cur, items)
  /\ sinval' = IF pc = "off" THEN {} ELSE sinval \cup Invalidates(items)
  /\ out' = NothingYet
  /\ UNCHANGED <<sc, session, conf, sessions>>

RoomFor(n) == written' = written + n /\ written' <= MaxLog

\* A short transaction, from begin to commit.  If it changes the catalogs the one
\* that is running will be decoded with a new snapshot from here.
ProviderCommit(items) ==
  /\ Len(log) + (IF open.items = <<>> THEN 0 ELSE 1) < MaxTx
  /\ RoomFor(Len(items))
  /\ Legal(cur, items) /\ NoConflict(items)
  /\ Committed([items |-> items, base |-> cur], items)
  /\ open' = IF open.items # <<>> /\ \E i \in Range(items) : i.op # "row"
             THEN [open EXCEPT !.items = Append(@, [op |-> "snapshot", cat |-> With(cur, items),
                                                    rels |-> Invalidates(items)])]
             ELSE open

\* The long transaction begins with its first change, and makes another.
LongWrites(i) ==
  /\ Len(Own(open.items)) < MaxItems
  /\ open.items = <<>> => Len(log) < MaxTx
  /\ RoomFor(1)
  /\ Legal(cur, Append(Own(open.items), i))
  /\ open' = [items |-> Append(open.items, i),
              base |-> IF open.items = <<>> THEN cur ELSE open.base]
  /\ out' = NothingYet
  /\ UNCHANGED <<sc, log, cur, session, sinval, conf, sessions>>

LongCommits ==
  /\ open.items # <<>>
  /\ Committed(open, open.items)
  /\ open' = NotOpen
  /\ UNCHANGED written

-----------------------------------------------------------------------------
(* The session.                                                            *)

\* Where decoding begins.
FirstTxn == conf + 1

\* The plugin's startup: the caches of a new process are empty, and
\* pglogical_startup_hook reads the sets with a snapshot of now, wherever
\* the session begins.  The subscriber's process is new too.
SessionStart ==
  /\ pc = "off"
  /\ sessions < MaxSessions
  /\ sessions' = sessions + 1
  /\ pc' = "idle" /\ tx' = FirstTxn
  /\ psets' = cur.flags
  /\ out' = NothingYet
  /\ UNCHANGED <<sc, provider, item, hist, repcache, relmeta, down, stale, held, sinval, conf>>

\* Both processes are gone, and with them all they cached.
Ended ==
  /\ pc' = "off" /\ tx' = 1 /\ item' = 0
  /\ hist' = FirstCatalogs /\ psets' = InitFlags
  /\ repcache' = [r \in Rels |-> InvalidInfo]
  /\ relmeta' = [r \in Rels |-> NoEntry]
  /\ down' = [r \in Rels |-> NoShape]
  /\ stale' = {} /\ held' = NoList
  /\ sinval' = {}

SessionEnd ==
  /\ pc # "off"
  /\ Ended /\ out' = NothingYet
  /\ UNCHANGED <<sc, provider, conf, sessions>>

\* Mutant: the callback leaves the entries valid.
RepsetInvalidated_Ignored(rels) == repcache

\* repset_relcache_invalidate_callback frees the column list of the entries.
RepsetInvalidated(rels) ==
  [r \in Rels |-> IF r \in rels THEN InvalidInfo ELSE repcache[r]]

\* relmeta_cache_callback: the entry stays, marked.
RelmetaInvalidated(meta, rels) ==
  [r \in Rels |-> IF r \in rels /\ meta[r].here
                  THEN [meta[r] EXCEPT !.is_valid = FALSE] ELSE meta[r]]

Current == log[tx].items[item + 1]

\* The list held by the callback is the one of the entry of its relation.
HeldFreed(rels) ==
  [held EXCEPT !.freed =
     @ \/ /\ pc \in {"rel", "row"} /\ held.att # {}
          /\ Current.rel \in rels /\ repcache[Current.rel].isvalid]

CallbackOpen == pc \in {"rel", "row"}

\* Invalidation messages of transactions that have committed, whatever the
\* session is decoding.
SinvalMessage(r) ==
  /\ pc # "off" /\ r \in sinval
  /\ CallbackOpen => SinvalInCallback
  /\ sinval' = sinval \ {r}
  /\ repcache' = RepsetInvalidated({r})
  /\ relmeta' = RelmetaInvalidated(relmeta, {r})
  /\ stale' = stale \ {r}
  /\ held' = HeldFreed({r})
  /\ out' = NothingYet
  /\ UNCHANGED <<sc, provider, pc, tx, item, hist, psets, down, conf, sessions>>

\* Too many messages: the callbacks are called once with InvalidOid, which
\* relmeta_cache_callback looks up like any other relation.
SinvalReset ==
  /\ pc # "off" /\ sinval # {}
  /\ CallbackOpen => SinvalInCallback
  /\ sinval' = {}
  /\ repcache' = RepsetInvalidated(Rels)
  /\ stale' = {}
  /\ held' = HeldFreed(Rels)
  /\ out' = NothingYet
  /\ UNCHANGED <<sc, provider, pc, tx, item, hist, psets, relmeta, down, conf, sessions>>

\* Relations whose entry is kept while the snapshot it was filled from is not.
KeptAcross(rels) == stale \cup {r \in rels : repcache[r].isvalid}

\* Decoding goes back to the catalogs the transaction began with.  Nothing is
\* invalidated, although others that changed them were decoded before it.
BeginTxn ==
  /\ pc = "idle" /\ tx <= Len(log)
  /\ pc' = "tx" /\ item' = 0
  /\ hist' = log[tx].base
  /\ stale' = KeptAcross(ChangedMeanwhile(log[tx].items))
  /\ out' = NothingYet
  /\ UNCHANGED <<sc, provider, tx, psets, repcache, relmeta, down, held, sinval,
                 conf, sessions>>

AtItem(ops) == pc = "tx" /\ item < Len(log[tx].items) /\ Current.op \in ops

\* The next item is decoded with the catalogs as of this one.
Decoded ==
  /\ item' = item + 1
  /\ hist' = CatalogsAt(log[tx], item + 1)
  /\ out' = NothingYet
  /\ UNCHANGED <<sc, provider, pc, tx, down, held, sinval, conf, sessions>>

\* The invalidations of the whole transaction, after each of its commands that
\* changed a catalog.
InvalidatedBy(items) ==
  LET rels == Invalidates(items) IN
  /\ repcache' = RepsetInvalidated(rels)
  /\ relmeta' = RelmetaInvalidated(relmeta, rels)
  /\ stale' = stale \ rels

DecodeCatalogChange ==
  /\ AtItem({"ddl", "add", "remove"})
  /\ Decoded /\ InvalidatedBy(log[tx].items)
  /\ UNCHANGED psets

\* Decoding goes on with the snapshot of a transaction that committed meanwhile, and
\* was decoded before.  Its invalidations are not run again.
DecodeSnapshot ==
  /\ AtItem({"snapshot"})
  /\ Decoded
  /\ stale' = KeptAcross(Current.rels)
  /\ UNCHANGED <<psets, repcache, relmeta>>

\* Mutant: the change of a set is not applied to the session's copy.
SetsAfter_Kept(i) == psets

\* The row filter hook on a change of the table of replication sets: the
\* sets of the session follow, unless it replicates one table only.
SetsAfter(i) ==
  IF OnlyTable = NoRel THEN [psets EXCEPT ![i.set] = i.flags] ELSE psets

DecodeAlterSet ==
  /\ AtItem({"alter"})
  /\ Decoded /\ InvalidatedBy(log[tx].items)
  /\ psets' = SetsAfter(Current)

SetsOf(cat, r) == {s \in Sets : cat.member[s][r].in}

\* The lists and filters of its sets are read with the table's own descriptor: rightly
\* if it agrees with that of replication_set_table, or if there is none to read.
ReadRight(r) ==
  \/ r \in SameLayout
  \/ \A s \in SetsOf(hist, r) : hist.member[s][r].att = {} /\ ~hist.member[s][r].filter

AttsOf(r) == UNION {hist.member[s][r].att : s \in SetsOf(hist, r)}
FiltersOf(r) == {s \in SetsOf(hist, r) : hist.member[s][r].filter}

\* Mutant: the operations that every set replicates, instead of the union.
FilledInfo_EverySet(r) ==
  {[isvalid |-> TRUE, att |-> AttsOf(r), filters |-> FiltersOf(r),
    ops |-> {o \in Ops : SetsOf(hist, r) # {} /\ \A s \in SetsOf(hist, r) : o \in psets[s]}]}

\* What get_table_replication_info may fill an entry with.  A list or a filter
\* read wrongly can be any, or end the session (SessionEnd).
FilledInfo(r) ==
  [isvalid : {TRUE},
   ops : {UNION {psets[s] : s \in SetsOf(hist, r)}},
   att : IF ReadRight(r) \/ AttsOf(r) = {} THEN {AttsOf(r)} ELSE SUBSET Cols,
   filters : IF ReadRight(r) \/ FiltersOf(r) = {} THEN {FiltersOf(r)} ELSE SUBSET Sets]

TableReplicationInfo(r) ==
  IF repcache[r].isvalid THEN {repcache[r]} ELSE FilledInfo(r)

\* pglogical_row_filter_hook: the operation, then every filter of the list, which
\* an empty change does not pass.
Passes(info, i) ==
  /\ i.kind \in info.ops
  /\ info.filters # {} => i.tuple
  /\ info.filters \subseteq i.match

\* What the replication sets say about a row, by their documentation: it is
\* sent, if there is a tuple to send, when some set of its table replicates the operation and the row, with
\* the columns of any of them, a set without column list having them all.
DueSets(i) ==
  {s \in SetsOf(hist, i.rel) : /\ i.tuple
                               /\ i.kind \in hist.flags[s]
                               /\ hist.member[s][i.rel].filter => s \in i.match}
DueAtts(i) ==
  LET lists == {hist.member[s][i.rel].att : s \in SetsOf(hist, i.rel)} IN
  IF {} \in lists THEN {} ELSE UNION lists

\* pglogical_cache_relmeta: the entry, created if it was not found.
CachedRelmeta(meta) ==
  IF meta.here THEN meta ELSE [here |-> TRUE, is_cached |-> FALSE, is_valid |-> TRUE]

Suppressed(i) ==
  [NothingYet EXCEPT !.due = DueSets(i) # {}, !.right = ReadRight(i.rel),
                     !.kept = i.rel \in stale]

\* pg_decode_change up to the first call that may process invalidations: the
\* row filter, then the entry of the relation metadata cache.
RowFiltered(info, passes, att) ==
  /\ repcache' = [repcache EXCEPT ![Current.rel] = info]
  /\ IF passes
     THEN /\ pc' = "rel"
          /\ relmeta' = [relmeta EXCEPT ![Current.rel] = CachedRelmeta(@)]
          /\ held' = [att |-> att, freed |-> FALSE]
          /\ out' = NothingYet
          /\ UNCHANGED item
     ELSE /\ item' = item + 1
          /\ out' = Suppressed(Current)
          /\ UNCHANGED <<pc, relmeta, held>>
  /\ UNCHANGED <<sc, provider, tx, hist, psets, down, stale, sinval, conf, sessions>>

DecodeRow ==
  /\ AtItem({"row"}) /\ OnlyTable = NoRel
  /\ \E info \in TableReplicationInfo(Current.rel) :
       RowFiltered(info, Passes(info, Current), info.att)

\* The special case of pglogical_row_filter_hook for catching up one table.
DecodeOnlyTable ==
  /\ AtItem({"row"}) /\ OnlyTable # NoRel
  /\ RowFiltered(repcache[Current.rel], Current.rel = OnlyTable, {})

\* The columns written from the list the callback holds: anything, once the
\* list has been freed.
Written == IF held.freed THEN SUBSET Cols ELSE {held.att}

\* pglogical_write_rel, skipped on a hit, and the subscriber's
\* pglogical_relation_cache_update.
WriteRel ==
  /\ pc = "rel"
  /\ pc' = "row"
  /\ IF relmeta[Current.rel].is_cached
     THEN UNCHANGED <<relmeta, down>>
     ELSE /\ relmeta' = [relmeta EXCEPT ![Current.rel].is_cached = TRUE]
          /\ \E att \in Written :
               down' = [down EXCEPT ![Current.rel] =
                          [ver |-> hist.ver[Current.rel], att |-> att]]
  /\ out' = NothingYet
  /\ UNCHANGED <<sc, provider, tx, item, hist, psets, repcache, stale, held, sinval,
                 conf, sessions>>

\* A delete without an old tuple: the description may have been sent, the row is not.
SkipDelete ==
  /\ pc = "row" /\ ~Current.tuple
  /\ pc' = "tx" /\ item' = item + 1 /\ held' = NoList
  /\ out' = Suppressed(Current)
  /\ UNCHANGED <<sc, provider, tx, hist, psets, repcache, relmeta, down, stale, sinval,
                 conf, sessions>>

\* The row, and the subscriber's pglogical_read_tuple, which notices a wrong
\* description when the number of columns differs and ends the session then.
WriteRow ==
  /\ pc = "row" /\ Current.tuple
  /\ \E att \in Written :
       LET shape == [ver |-> hist.ver[Current.rel], att |-> att] IN
       /\ out' = [Suppressed(Current) EXCEPT
                    !.sent = TRUE, !.atts = DueAtts(Current), !.live = ~held.freed,
                    !.shape = shape, !.meta = down[Current.rel]]
       /\ \/ /\ pc' = "tx" /\ item' = item + 1 /\ held' = NoList
             /\ UNCHANGED <<tx, hist, psets, repcache, relmeta, down, stale, sinval>>
          \/ shape # down[Current.rel] /\ Ended
  /\ UNCHANGED <<sc, provider, conf, sessions>>

\* Mutant: nothing is pruned.
Pruned_Nothing(meta) == meta

\* pglogical_prune_relmetacache.
Pruned(meta) ==
  [r \in Rels |-> IF meta[r].is_valid THEN meta[r] ELSE NoEntry]

\* The commit callback prunes; decoding then runs the transaction's
\* invalidations once more.
CommitTxn ==
  /\ pc = "tx" /\ item = Len(log[tx].items)
  /\ LET rels == Invalidates(log[tx].items) IN
     /\ relmeta' = RelmetaInvalidated(Pruned(relmeta), rels)
     /\ repcache' = RepsetInvalidated(rels)
     /\ stale' = stale \ rels
  /\ pc' = "idle" /\ tx' = tx + 1 /\ item' = 0
  /\ out' = NothingYet
  /\ UNCHANGED <<sc, provider, hist, psets, down, held, sinval, conf, sessions>>

\* The subscriber's feedback for what it has been sent whole.
Confirm ==
  /\ pc # "off" /\ conf < tx - 1
  /\ conf' = tx - 1
  /\ out' = NothingYet
  /\ UNCHANGED <<sc, provider, session, sinval, sessions>>

Decode ==
  \/ BeginTxn \/ DecodeCatalogChange \/ DecodeSnapshot \/ DecodeAlterSet \/ DecodeRow
  \/ DecodeOnlyTable \/ WriteRel \/ SkipDelete \/ WriteRow \/ CommitTxn

Next ==
  \/ \E items \in UNION {[1 .. n -> Items] : n \in 1 .. MaxItems} : ProviderCommit(items)
  \/ \E i \in LongItems : LongWrites(i)
  \/ LongCommits
  \/ SessionStart \/ SessionEnd
  \/ \E r \in Rels : SinvalMessage(r)
  \/ SinvalReset
  \/ Decode
  \/ Confirm

Spec == Init /\ [][Next]_vars

-----------------------------------------------------------------------------
(* Properties.                                                             *)

\* No pglogical.alter_replication_set has committed.
Unaltered == \A n \in 1 .. Len(log) : \A i \in Range(log[n].items) : i.op # "alter"

\* A row is read by the subscriber with the description of its relation it
\* was written with: pg_decode_change sends the description again whenever
\* the relation or its column list has changed since it was sent.  (A list that the
\* table's descriptor misreads may be another each time.)
MetadataBeforeRows == out.sent /\ out.right => out.meta = out.shape

\* As long as no set has been altered, a row is sent exactly when it has a tuple to
\* send and some replication set of its table, as it was at that point of the log,
\* replicates the operation and the row: get_table_replication_info unites the
\* sets.  Not so for a table that left a set while a transaction that wrote it was
\* running, until it is invalidated again, nor where the descriptor of the table
\* misreads the filters.
UnionOfSets ==
  Unaltered /\ OnlyTable = NoRel /\ out.right /\ ~out.kept => out.sent = out.due

EntriesFresh(rels) ==
  \A r \in rels : repcache[r].isvalid => repcache[r] \in FilledInfo(r)

\* As long as no set has been altered, a valid entry of RepSetTableHash is what
\* get_table_replication_info would fill in now, from the catalogs as of the
\* change being decoded: every change of the table, its lists and its membership
\* has invalidated it.  The only entries that are not are those kept while the
\* snapshot changed below them.
CachedInfoFresh == Unaltered => EntriesFresh(Rels \ stale)

\* A row is sent with exactly the columns its table's sets name, except while one
\* table is caught up, and for the tables that UnionOfSets excepts.
ColumnsOfSets ==
  out.sent /\ OnlyTable = NoRel /\ out.right /\ ~out.kept => out.shape.att = out.atts

\* When everything is decoded the session's sets are the catalog's, although
\* pglogical_startup_hook may have read them ahead of the log, and the hook
\* then met older changes of them.
SetsCaughtUp ==
  pc = "idle" /\ tx = Len(log) + 1 /\ OnlyTable = NoRel => psets = cur.flags

-----------------------------------------------------------------------------
(***************************************************************************)
(* What a comment of the code, or its design, promises and the code does   *)
(* not establish.  README.md says with which constants TLC refutes each.   *)
(***************************************************************************)
\* A valid entry is fresh after a change of a set, too.
AlwaysFresh == EntriesFresh(Rels \ stale)

\* A valid entry is fresh although a table leaves a set while a transaction that wrote
\* it is running: replication_set_remove_table need not lock the table.
FreshAcrossSnapshots == Unaltered => EntriesFresh(Rels)

\* The rows a table's sets replicate are sent, with their columns, whatever the columns
\* of the table are.
AnyLayout ==
  Unaltered /\ OnlyTable = NoRel /\ ~out.kept =>
    out.sent = out.due /\ (out.sent => out.shape.att = out.atts)

\* The catch-up of one table sends the columns of its sets, too.
CatchUpColumns == out.sent => out.shape.att = out.atts

\* The column list a row is written from is still allocated: no invalidation
\* inside pg_decode_change frees what the callback holds.
HeldListLive == out.live
=============================================================================
