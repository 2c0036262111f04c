------------------------- MODULE StartupNegotiation -------------------------
(***************************************************************************)
(* What happens before the first row of a session: the subscriber sends    *)
(* its parameters with START_REPLICATION, the output plugin validates      *)
(* them and chooses the formats of values (pglogical_output.c,             *)
(* pglogical_config.c), announces the outcome with the first transaction,  *)
(* and the apply worker checks the announcement (pglogical_apply.c).       *)
(* Values are then written in one of three formats and read on a host that *)
(* may be of another kind.                                                 *)
(*                                                                         *)
(* A host is what the formats depend on.  A value is right if the host     *)
(* that reads it agrees with the one that wrote it in everything the       *)
(* value's representation depends on.                                      *)
(***************************************************************************)
EXTENDS Integers, Sequences, Functions

CONSTANTS
  Majors,     \* major versions of PostgreSQL
  Encodings,  \* encodings of databases
  Lists       \* what else a client's parameters say: how the list is made

\* Whatever a client leaves out or adds, it says of its host what is true, and says
\* of the byte order and the sizes something.
ASSUME NegotiationAssumption ==
  /\ "none" \notin Encodings
  /\ \A l \in Lists :
       /\ l.without \notin {"bigendian", "size"}
       /\ l.extra \in Seq(Range(l.extra))
       /\ \A i \in 1 .. Len(l.extra) : l.extra[i].key \notin {"major", "bigendian", "size"}

Host ==
  {h \in [major : Majors, size : {4, 8}, bigendian : BOOLEAN, float4 : BOOLEAN,
          float8 : BOOLEAN, datetimes : BOOLEAN, encoding : Encodings] :
     h.float8 => h.size = 8}

VARIABLES
  prov, subr,            \* the hosts
  extension,             \* pglogical is installed in the provider's database
  list,                  \* the kind of parameters sent
  npc,                   \* where the session is, "none" if there is none
  data,                  \* PGLogicalOutputData
  startup_message_sent,
  wire,                  \* messages on their way
  agreed,                \* the apply worker has accepted the startup message
  got                    \* the last value read: its format and type

negvars == <<prov, subr, extension, list, npc, data, startup_message_sent, wire, agreed, got>>

Types == {"number", "timestamp", "text", "user", "composite"}
Formats == {"internal", "binary", "text"}

NoData == [api |-> "none", internal |-> FALSE, binary |-> FALSE, encoding |-> "none",
           hooks |-> FALSE]
NoValue == [format |-> "none", type |-> "none"]

\* The type invariant of the module.
NegotiationTypeOK ==
  /\ prov \in Host /\ subr \in Host /\ extension \in BOOLEAN /\ list \in Lists
  /\ npc \in {"none", "off", "asked", "decoding", "failed"}
  /\ data \in [api : {"none", "native", "json"}, internal : BOOLEAN, binary : BOOLEAN,
               encoding : Encodings \cup {"none"}, hooks : BOOLEAN]
  /\ startup_message_sent \in BOOLEAN /\ agreed \in BOOLEAN
  /\ Len(wire) <= 2
  /\ got \in [format : Formats, type : Types] \cup {NoValue}

NegotiationInit ==
  /\ prov \in Host /\ subr \in Host /\ extension \in BOOLEAN /\ list \in Lists
  /\ npc = "off" /\ data = NoData
  /\ startup_message_sent = FALSE /\ wire = <<>> /\ agreed = FALSE /\ got = NoValue

-----------------------------------------------------------------------------
(* The subscriber's parameters.                                            *)

Param(k, v) == [key |-> k, val |-> v]

\* pglogical_start_replication; the three sizes are one here.
PglogicalParams ==
  << Param("expected_encoding", subr.encoding), Param("min_proto_version", 1),
     Param("max_proto_version", 1), Param("startup_params_format", 1),
     Param("want_internal_basetypes", TRUE), Param("want_binary_basetypes", TRUE),
     Param("major", subr.major), Param("size", subr.size),
     Param("bigendian", subr.bigendian), Param("float4", subr.float4),
     Param("float8", subr.float8), Param("datetimes", subr.datetimes),
     Param("hooks.setup_function", TRUE) >>

\* Parameters without the i-th.
Without(ps, i) == SubSeq(ps, 1, i - 1) \o SubSeq(ps, i + 1, Len(ps))

\* What another version or kind of client may send instead: a parameter less,
\* another value, or a parameter more at the end.
ParamsOf(l) ==
  LET left == {i \in 1 .. Len(PglogicalParams) : PglogicalParams[i].key = l.without}
  IN (IF left = {} THEN PglogicalParams ELSE Without(PglogicalParams, CHOOSE i \in left : TRUE))
       \o l.extra

Start ==
  /\ npc = "off"
  /\ npc' = "asked"
  /\ UNCHANGED <<prov, subr, extension, list, data, startup_message_sent, wire, agreed, got>>

-----------------------------------------------------------------------------
(* The output plugin.                                                      *)

\* get_param: the first with the name.
First(ps, k) ==
  LET at == {i \in 1 .. Len(ps) : ps[i].key = k}
  IN ps[CHOOSE i \in at : \A j \in at : i <= j].val
Given(ps, k) == \E i \in 1 .. Len(ps) : ps[i].key = k

\* Mutant: the byte order is forgotten as well.
FieldOf_NoOrder(k) == IF k \in {"bigendian", "float8"} THEN "float4" ELSE k

\* process_parameters_v1: the field of PGLogicalOutputData a parameter is kept
\* in.  The one for float8_byval is that of float4_byval.
FieldOf(k) == IF k = "float8" THEN "float4" ELSE k

\* The last parameter kept in a field.
LastFor(ps, f) ==
  CHOOSE i \in 1 .. Len(ps) :
    FieldOf(ps[i].key) = f /\ \A j \in 1 .. Len(ps) : FieldOf(ps[j].key) = f => j <= i

\* The fields that are set, each by the last parameter kept in it.
Parsed(ps) ==
  [f \in {FieldOf(ps[i].key) : i \in 1 .. Len(ps)} |-> ps[LastFor(ps, f)].val]

\* process_parameters and the checks of versions that pg_decode_startup makes.
Acceptable(ps) ==
  /\ \A k \in {"startup_params_format", "max_proto_version", "min_proto_version"} : Given(ps, k)
  /\ First(ps, "startup_params_format") = 1
  /\ First(ps, "min_proto_version") <= 1
  /\ First(ps, "max_proto_version") >= 1

\* check_binary_compatibility: what the client did not give is not compared, but
\* for the major version.
Compatible(d) ==
  /\ "major" \in DOMAIN d /\ d.major = prov.major
  /\ \A f \in {"bigendian", "size", "float4", "float8", "datetimes"} \cap DOMAIN d : d[f] = prov[f]

Asks(d, k) == k \in DOMAIN d /\ d[k]

Api(d) == IF "proto_format" \in DOMAIN d THEN d.proto_format ELSE "native"

KnownApi(d) == Api(d) \in {"json", "native"}

\* A text protocol is converted to the client's encoding, here that of its
\* database; a binary one is not converted.
EncodingMatches(d) ==
  "expected_encoding" \in DOMAIN d =>
    d.expected_encoding = IF Api(d) = "json" THEN subr.encoding ELSE prov.encoding

\* The formats and hooks chosen.  Without expected_encoding the field keeps 0.
Chosen(d) ==
  [api |-> Api(d),
   internal |-> Api(d) = "native" /\ Asks(d, "want_internal_basetypes") /\ Compatible(d),
   binary |-> /\ Api(d) = "native" /\ Asks(d, "want_binary_basetypes")
              /\ "major" \in DOMAIN d /\ d.major = prov.major,
   encoding |-> IF "expected_encoding" \in DOMAIN d THEN d.expected_encoding ELSE "none",
   hooks |-> "hooks.setup_function" \in DOMAIN d]

\* pg_decode_startup, with load_hooks, whose function the extension has.
DecodeStartup ==
  /\ npc = "asked"
  /\ LET ps == ParamsOf(list) d == Parsed(ps) IN
     IF /\ Acceptable(ps) /\ KnownApi(d) /\ EncodingMatches(d)
        /\ "hooks.setup_function" \in DOMAIN d => extension
     THEN npc' = "decoding" /\ data' = Chosen(d)
     ELSE npc' = "failed" /\ UNCHANGED data
  /\ startup_message_sent' = FALSE
  /\ UNCHANGED <<prov, subr, extension, list, wire, agreed, got>>

Announces == ~startup_message_sent

StartupMessage == [kind |-> "startup", encoding |-> data.encoding, hooks |-> data.hooks]

\* pg_decode_begin_txn: the startup message goes out with the first transaction.
BeginTransaction ==
  /\ npc = "decoding" /\ Len(wire) = 0
  /\ wire' = IF Announces THEN <<StartupMessage, [kind |-> "begin"]>> ELSE <<[kind |-> "begin"]>>
  /\ startup_message_sent' = TRUE
  /\ got' = NoValue
  /\ UNCHANGED <<prov, subr, extension, list, npc, data, agreed>>

Builtin == {"number", "timestamp", "text"}

\* decide_datum_transfer: a user's base type has send and receive functions.
Transfer(t) ==
  CASE data.internal /\ t \in Builtin -> "internal"
    [] ~(data.internal /\ t \in Builtin) /\ data.binary /\ t # "composite" -> "binary"
    [] OTHER -> "text"

\* pglogical_write_tuple, for a value of the open transaction.
WriteValue(t) ==
  /\ npc = "decoding" /\ startup_message_sent /\ Len(wire) = 0
  /\ wire' = <<[kind |-> "value", format |-> Transfer(t), type |-> t]>>
  /\ got' = NoValue
  /\ UNCHANGED <<prov, subr, extension, list, npc, data, startup_message_sent, agreed>>

-----------------------------------------------------------------------------
(* The apply worker.                                                       *)

\* handle_startup_param: the encoding and the hooks.
Agrees(m) == m.encoding = subr.encoding /\ m.hooks

Arrived(kind) == npc = "decoding" /\ wire # <<>> /\ Head(wire).kind = kind

\* handle_startup, for each of the parameters.
HandleStartup ==
  /\ Arrived("startup")
  /\ wire' = Tail(wire)
  /\ IF Agrees(Head(wire)) THEN agreed' = TRUE /\ UNCHANGED npc
     ELSE npc' = "failed" /\ UNCHANGED agreed
  /\ UNCHANGED <<prov, subr, extension, list, data, startup_message_sent, got>>

HandleBegin ==
  /\ Arrived("begin")
  /\ wire' = Tail(wire)
  /\ UNCHANGED <<prov, subr, extension, list, npc, data, startup_message_sent, agreed, got>>

\* pglogical_read_tuple.
ReadValue ==
  /\ Arrived("value")
  /\ got' = [format |-> Head(wire).format, type |-> Head(wire).type]
  /\ wire' = Tail(wire)
  /\ UNCHANGED <<prov, subr, extension, list, npc, data, startup_message_sent, agreed>>

\* The connection ends; the manager starts another apply worker.
Disconnect ==
  /\ npc \in {"decoding", "failed"}
  /\ npc' = "off" /\ data' = NoData /\ wire' = <<>> /\ agreed' = FALSE /\ got' = NoValue
  /\ startup_message_sent' = FALSE
  /\ UNCHANGED <<prov, subr, extension, list>>

\* Between two sessions the provider moves to another version.
Upgrade ==
  /\ npc = "off"
  /\ \E m \in Majors : prov' = [prov EXCEPT !.major = m]
  /\ UNCHANGED <<subr, extension, list, npc, data, startup_message_sent, wire, agreed, got>>

NegotiationNext ==
  \/ Start \/ DecodeStartup \/ BeginTransaction \/ \E t \in Types : WriteValue(t)
  \/ HandleStartup \/ HandleBegin \/ ReadValue \/ Disconnect \/ Upgrade

NegotiationSpec == NegotiationInit /\ [][NegotiationNext]_negvars

-----------------------------------------------------------------------------
(***************************************************************************)
(* Properties.                                                             *)
(***************************************************************************)
\* What the representation of a value depends on, in each format; a text protocol
\* is converted to the client's encoding.
DependsOn(f, t) ==
  (IF f # "text" THEN {"major"} ELSE {})
    \cup (IF f = "internal" THEN {"bigendian", "size"} ELSE {})
    \cup (IF f # "text" /\ t = "timestamp" THEN {"datetimes"} ELSE {})
    \cup (IF t = "text" /\ data.api = "native" THEN {"encoding"} ELSE {})

Right(v) == \A a \in DependsOn(v.format, v.type) : prov[a] = subr[a]

\* Every value the apply worker reads means what the provider wrote, whatever the
\* two hosts are: check_binary_compatibility, the encoding checks of both sides
\* and decide_datum_transfer together leave no format the subscriber cannot read,
\* if both store times alike.
ReadsBack == got # NoValue /\ prov.datetimes = subr.datetimes => Right(got)

Alike ==
  /\ npc = "decoding" /\ prov = subr /\ data.api = "native"
  /\ Asks(Parsed(ParamsOf(list)), "want_internal_basetypes")

-----------------------------------------------------------------------------
(***************************************************************************)
(* What a comment of the code, or its design, promises and the code does   *)
(* not establish.  README.md says with which constants TLC refutes each.   *)
(***************************************************************************)
\* Also if the hosts store times differently, values mean what was written.
AlwaysReadsBack == got # NoValue => Right(got)

\* Hosts that are alike use the internal format, also if they pass float4 and float8
\* in different ways.
AlwaysUseInternal == Alike => data.internal
=============================================================================
