------------------------- MODULE MCDecodingSession -------------------------
(***************************************************************************)
(* Instances of DecodingSession and StartupNegotiation for TLC.  A         *)
(* behaviour is about one of them: how a session starts, or what it sends. *)
(***************************************************************************)
EXTENDS DecodingSession, StartupNegotiation, TLC

CONSTANTS r1, r2, s1, s2

Row(kind, match) ==
  [op |-> "row", rel |-> r1, kind |-> kind, match |-> match, tuple |-> TRUE]
NoTuple == [Row("delete", {}) EXCEPT !.tuple = FALSE]
Ddl == [op |-> "ddl", rel |-> r1]
Add(s, att, filter) == [op |-> "add", rel |-> r1, set |-> s, att |-> att, filter |-> filter]
Drop(s) == [op |-> "remove", rel |-> r1, set |-> s]
Alter(s, flags) == [op |-> "alter", set |-> s, flags |-> flags]

\* Every set replicates everything.
AllOps == [s \in Sets |-> Ops]

\* s1 replicates everything, s2 inserts only.
InsertOnly == [s \in Sets |-> IF s = s2 THEN {"insert"} ELSE Ops]

\* One set: rows, changes of the table, and of its column list and filter.
OneSet ==
  {Row("insert", {}), Row("insert", {s1}), Ddl, Add(s1, {"a"}, TRUE), Drop(s1)}

\* Two sets that differ in the operations they replicate, and are altered.
TwoSets ==
  {Row("delete", {}), Add(s1, {}, FALSE), Drop(s1), Alter(s1, {"insert"}),
   Alter(s1, {"delete"})}

\* A table that leaves its set and comes back with a list of columns.
Leaving == {Row("insert", {}), NoTuple, Drop(s1), Add(s1, {"a"}, FALSE)}

\* One table's changes among those of another.
TwoTables ==
  {Row("insert", {}), [Row("insert", {}) EXCEPT !.rel = r2], Ddl}

\* Parameter lists: pglogical's own, and what other versions and clients send.
Plain == [without |-> "none", extra |-> <<>>]
AllLists ==
  {Plain} \cup
  {[without |-> k, extra |-> <<>>] :
     k \in {"expected_encoding", "max_proto_version", "want_internal_basetypes",
            "hooks.setup_function"}} \cup
  {[without |-> p.key, extra |-> <<p>>] :
     p \in {Param("startup_params_format", 2), Param("min_proto_version", 2),
            Param("max_proto_version", 0), Param("proto_format", "json"),
            Param("proto_format", "xml")}}

Scenario(only, flags, items, again, n) ==
  [only |-> only, flags |-> flags, in |-> {}, alike |-> Rels, items |-> items,
   long |-> {}, again |-> again, sessions |-> n]

\* r1 is in s1 at first, and written by long transactions.
Overlap(alike) ==
  [Scenario(NoRel, AllOps, Leaving, FALSE, 1) EXCEPT !.in = {s1}, !.alike = alike,
                                                     !.long = {Row("insert", {}), Ddl}]

\* The scenarios of the run: one set and all its changes over two sessions; two sets;
\* one table being caught up; long transactions, on a table that is read right and on
\* one that is not.
AllScenarios ==
  [one |-> [Scenario(NoRel, AllOps, OneSet, FALSE, 2) EXCEPT !.in = {s1}],
   two |-> [Scenario(NoRel, InsertOnly, TwoSets, TRUE, 1) EXCEPT !.in = {s2}],
   only |-> Scenario(r1, AllOps, TwoTables, FALSE, 2),
   long |-> Overlap(Rels),
   misread |-> Overlap({})]

\* A set that is altered.
AlteredSet == {Row("insert", {}), Add(s1, {}, FALSE), Alter(s1, {}), Alter(s1, Ops)}

\* Two sets, one of which filters rows.
FilteredSets == {Row("insert", {}), Add(s1, {}, FALSE), Add(s2, {}, TRUE)}

\* Two sets, one of which names columns.
ColumnSets == {Row("insert", {}), Add(s1, {}, FALSE), Add(s2, {"a"}, FALSE)}

\* A negotiation: the subscriber is of the first version and encoding.  Only pglogical's
\* own parameters are combined with every pair of hosts.
SomeHosts ==
  /\ subr.major = CHOOSE m \in Majors : TRUE
  /\ subr.encoding = CHOOSE e \in Encodings : TRUE
  /\ list # Plain \/ ~extension => prov \in {subr} \cup {[subr EXCEPT !.encoding = e] : e \in Encodings}

OneHost == CHOOSE h \in Host : TRUE

MCInit ==
  \/ /\ Init
     /\ prov = OneHost /\ subr = OneHost /\ extension = TRUE /\ list = Plain
     /\ npc = "none" /\ data = NoData
     /\ startup_message_sent = FALSE /\ wire = <<>> /\ agreed = FALSE /\ got = NoValue
  \/ /\ NegotiationInit /\ SomeHosts
     /\ Init /\ sc = CHOOSE n \in DOMAIN Scenarios : TRUE

MCNext ==
  \/ npc = "none" /\ Next /\ UNCHANGED negvars
  \/ npc # "none" /\ NegotiationNext /\ UNCHANGED vars

MCSpec == MCInit /\ [][MCNext]_<<vars, negvars>>

\* Scenarios in which the statements of README.md that the code does not
\* establish fail.
AfterDdl == [one |-> [Scenario(NoRel, AllOps, OneSet, TRUE, 1) EXCEPT !.in = {s1}]]
Altered == [one |-> Scenario(NoRel, AllOps, AlteredSet, FALSE, 1)]
Filtered == [one |-> Scenario(NoRel, AllOps, FilteredSets, FALSE, 1)]
Columns == [one |-> Scenario(NoRel, AllOps, ColumnSets, FALSE, 1)]
Overlapping == [one |-> Overlap(Rels)]
Misread == [one |-> Overlap({})]
CatchUp == [one |-> Scenario(r1, AllOps, OneSet, FALSE, 1)]
=============================================================================
