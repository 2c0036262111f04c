---------------------------- MODULE SequenceSync ----------------------------
(***************************************************************************)
(* Replicated sequences.  nextval is not decoded; instead the provider     *)
(* keeps a row per sequence in pglogical.sequence_state with the value it  *)
(* last sent, a buffer ahead of the sequence, and queues a message when    *)
(* the buffer is used up (pglogical_sequences.c).  The manager does so     *)
(* periodically, synchronize_sequence on request, and                      *)
(* replication_set_add_sequence for the first value.  A subscriber sets    *)
(* its sequence to each value it receives (handle_sequence).               *)
(*                                                                         *)
(* There is one sequence.  The transactions of the manager, of             *)
(* synchronize_sequence and of the functions that hold the lock of the     *)
(* local node run side by side; they meet in the row of the sequence.      *)
(***************************************************************************)
EXTENDS Integers, Sequences

CONSTANTS
  Sets,         \* replication sets
  Subs,         \* subscribers
  Subscribes,   \* the sets of each
  MinCache,     \* SEQUENCE_REPLICATION_MIN_CACHE
  MaxCache,     \* SEQUENCE_REPLICATION_MAX_CACHE
  Descending,   \* TRUE: INCREMENT BY is negative
  SeqLimit,     \* the value setval does not exceed
  MaxCalls,     \* bound: nextval
  MaxOps        \* bound: transactions of users, crashes of the manager

ASSUME SequenceAssumption ==
  /\ Subscribes \in [Subs -> SUBSET Sets]
  /\ MinCache \in Nat \ {0, 1} /\ MaxCache \in Nat /\ MinCache <= MaxCache
  /\ Descending \in BOOLEAN /\ SeqLimit \in Nat /\ MaxCalls \in Nat /\ MaxOps \in Nat

VARIABLES
  last,     \* last_value of the sequence, which no transaction guards
  members,  \* the sets the sequence is in
  row,      \* its row of sequence_state
  ntx,      \* the open transaction that holds the lock of the local node
  stx,      \* the open transaction that called synchronize_sequence
  pass,     \* the manager in synchronize_sequences
  chan,     \* messages on their way to each subscriber
  val,      \* each subscriber's sequence
  passed,   \* history: last_value as the manager's last complete pass read it
  extra,    \* history: the sequence was added to a set while it was in another
  ops

seqvars == <<last, members, row, ntx, stx, pass, chan, val, passed, extra, ops>>

Increment == IF Descending THEN -1 ELSE 1

Values == -MaxCalls .. MaxCalls + MaxCache

Message == [sets : SUBSET Sets, value : Values]
NoMessage == [sets |-> {}, value |-> 0]

Row == [here : BOOLEAN, value : Values, cache : 0 .. MaxCache]
NoRow == [here |-> FALSE, value |-> 0, cache |-> 0]

NoNodeTx == [on |-> FALSE, members |-> {}, rowop |-> "keep", row |-> NoRow,
             notify |-> FALSE, msg |-> NoMessage]
NoSyncTx == [on |-> FALSE, row |-> NoRow, msg |-> NoMessage]
NoPass == [pc |-> "idle", last |-> 0, row |-> NoRow, stale |-> FALSE, msg |-> NoMessage]

\* The types of the variables.
SequenceTypeOK ==
  /\ last \in -MaxCalls .. MaxCalls
  /\ members \subseteq Sets
  /\ row \in Row
  /\ ntx \in [on : BOOLEAN, members : SUBSET Sets, rowop : {"keep", "new", "drop"}, row : Row,
             notify : BOOLEAN, msg : Message]
  /\ stx \in [on : BOOLEAN, row : Row, msg : Message]
  /\ pass \in [pc : {"idle", "read", "wrote"}, last : -MaxCalls .. MaxCalls, row : Row,
              stale : BOOLEAN, msg : Message]
  /\ chan \in [Subs -> Seq(Message)]
  /\ val \in [Subs -> Values]
  /\ passed \in -MaxCalls .. MaxCalls /\ extra \in BOOLEAN /\ ops \in 0 .. MaxOps

SequenceInit ==
  /\ last = 0 /\ members = {} /\ row = NoRow
  /\ ntx = NoNodeTx /\ stx = NoSyncTx /\ pass = NoPass
  /\ chan = [s \in Subs |-> <<>>] /\ val = [s \in Subs |-> 0]
  /\ passed = 0 /\ extra = FALSE /\ ops = 0

Call == ops < MaxOps /\ ops' = ops + 1

Nextval ==
  /\ last # MaxCalls * Increment
  /\ last' = last + Increment
  /\ UNCHANGED <<members, row, ntx, stx, pass, chan, val, passed, extra, ops>>

\* queue_message at commit, and pglogical_row_filter_hook for each subscriber: a
\* message without sets is for everybody.
Receives(s, m) == m.sets = {} \/ m.sets \cap Subscribes[s] # {}

Queued(m) ==
  chan' = [s \in Subs |-> IF Receives(s, m) THEN Append(chan[s], m) ELSE chan[s]]

-----------------------------------------------------------------------------
(***************************************************************************)
(* Membership.  The functions hold the lock of the local node until their  *)
(* transaction ends, so that there is one at a time.                       *)
(***************************************************************************)
\* pglogical_create_sequence_state_record.
FreshRow == [here |-> TRUE, value |-> last, cache |-> MinCache]

\* replication_set_add_seq: a sequence that is in a set already has its row.
RowOpOnAdd == IF row.here THEN "keep" ELSE "new"

\* pglogical_replication_set_add_sequence, and the iteration for one sequence of
\* pglogical_replication_set_add_all_relations.
AddSequence(set, synchronize) ==
  /\ Call
  /\ ~ntx.on
  /\ set \notin members
  /\ ntx' = [on |-> TRUE, members |-> members \cup {set},
             rowop |-> RowOpOnAdd, row |-> FreshRow,
             notify |-> synchronize, msg |-> [sets |-> {set}, value |-> last]]
  /\ UNCHANGED <<last, members, row, stx, pass, chan, val, passed, extra>>

\* A transaction that has updated the row and not ended makes others wait.
RowFree == ~stx.on /\ ntx.rowop # "drop" /\ pass.pc # "wrote"

\* Mutant: the row stays.
RowOpAfter_Kept(left) == "keep"

\* The row goes with the last set (sequence_has_replication_sets).
RowOpAfter(left) == IF left = {} THEN "drop" ELSE "keep"

\* pglogical_replication_set_remove_sequence, and drop_replication_set for the
\* sequence.
RemoveSequence(set) ==
  /\ Call
  /\ ~ntx.on
  /\ set \in members
  /\ RowOpAfter(members \ {set}) = "drop" => RowFree
  /\ ntx' = [NoNodeTx EXCEPT !.on = TRUE, !.members = members \ {set},
                             !.rowop = RowOpAfter(members \ {set})]
  /\ UNCHANGED <<last, members, row, stx, pass, chan, val, passed, extra>>

\* The row changed under a pass that has read it.
PassStale == pass' = [pass EXCEPT !.stale = @ \/ pass.pc = "read"]

Several(S) == \E a, b \in S : a # b

\* A new row starts the history of passes anew.
NodeTxCommits ==
  /\ ntx.on
  /\ ntx' = NoNodeTx
  /\ members' = ntx.members
  /\ IF ntx.notify THEN Queued(ntx.msg) ELSE UNCHANGED chan
  /\ \/ /\ ntx.rowop = "keep"
        /\ extra' = (extra \/ Several(ntx.members))
        /\ UNCHANGED <<row, pass, passed>>
     \/ /\ ntx.rowop = "new"
        /\ row' = ntx.row /\ passed' = 0
        /\ PassStale
        /\ UNCHANGED extra
     \/ /\ ntx.rowop = "drop"
        /\ row' = NoRow
        /\ PassStale
        /\ UNCHANGED <<passed, extra>>
  /\ UNCHANGED <<last, stx, val, ops>>

-----------------------------------------------------------------------------
(***************************************************************************)
(* Synchronisation.                                                        *)
(***************************************************************************)
\* synchronize_sequence, up to the end of the caller's transaction.
SyncSequence ==
  /\ Call
  /\ ~stx.on
  /\ row.here /\ RowFree
  /\ stx' = [on |-> TRUE, row |-> [row EXCEPT !.value = last + row.cache],
             msg |-> [sets |-> members, value |-> last + row.cache]]
  /\ UNCHANGED <<last, members, row, ntx, pass, chan, val, passed, extra>>

SyncTxCommits ==
  /\ stx.on
  /\ stx' = NoSyncTx
  /\ row' = stx.row
  /\ Queued(stx.msg)
  /\ PassStale
  /\ UNCHANGED <<last, members, ntx, val, passed, extra, ops>>

\* A transaction of a user is rolled back.
UserAborts ==
  /\ \/ ntx.on /\ ntx' = NoNodeTx /\ UNCHANGED stx
     \/ stx.on /\ stx' = NoSyncTx /\ UNCHANGED ntx
  /\ UNCHANGED <<last, members, row, pass, chan, val, passed, extra, ops>>

\* Mutant: the buffer is taken for unused while the sequence is half a buffer past
\* it.
Enough_Late(value, lastvalue) == value + MinCache \div 2 >= lastvalue

\* "Not enough of the sequence was consumed yet for us to care."
Enough(value, lastvalue) == value >= lastvalue + MinCache \div 2

\* The new row: the buffer doubles when all of it was consumed.
Buffered(r, lastvalue) ==
  LET twice == IF 2 * r.cache < MaxCache THEN 2 * r.cache ELSE MaxCache
      cache == IF r.value + r.cache <= lastvalue THEN twice ELSE r.cache
  IN [here |-> TRUE, value |-> lastvalue + cache, cache |-> cache]

\* synchronize_sequences for the row: the scan and sequence_get_last_value, ...
PassRead ==
  /\ pass.pc = "idle"
  /\ row.here
  /\ \/ /\ Enough(row.value, last)
        /\ passed' = last
        /\ UNCHANGED pass
     \/ /\ ~Enough(row.value, last)
        /\ pass' = [NoPass EXCEPT !.pc = "read", !.last = last, !.row = row]
        /\ UNCHANGED passed
  /\ UNCHANGED <<last, members, row, ntx, stx, chan, val, extra, ops>>

\* ... simple_heap_update, which waits for the row and fails if it has changed
\* (the manager ends and is started again), and get_seq_replication_sets, ...
PassUpdate ==
  /\ pass.pc = "read" /\ RowFree
  /\ \/ pass.stale /\ pass' = NoPass
     \/ /\ ~pass.stale
        /\ LET new == Buffered(pass.row, pass.last)
           IN pass' = [pass EXCEPT !.pc = "wrote", !.row = new,
                                   !.msg = [sets |-> members, value |-> new.value]]
  /\ UNCHANGED <<last, members, row, ntx, stx, chan, val, passed, extra, ops>>

\* ... and the commit.
PassCommit ==
  /\ pass.pc = "wrote"
  /\ pass' = NoPass
  /\ row' = pass.row
  /\ passed' = pass.last
  /\ Queued(pass.msg)
  /\ UNCHANGED <<last, members, ntx, stx, val, extra, ops>>

\* The manager ends.
ManagerDies ==
  /\ Call
  /\ pass.pc # "idle"
  /\ pass' = NoPass
  /\ UNCHANGED <<last, members, row, ntx, stx, chan, val, passed, extra>>

\* handle_sequence: setval fails for a value out of bounds, the worker ends and
\* meets the message again.
ApplySequence(s) ==
  /\ chan[s] # <<>>
  /\ Head(chan[s]).value <= SeqLimit
  /\ val' = [val EXCEPT ![s] = Head(chan[s]).value]
  /\ chan' = [chan EXCEPT ![s] = Tail(@)]
  /\ UNCHANGED <<last, members, row, ntx, stx, pass, passed, extra, ops>>

SequenceNext ==
  \/ Nextval
  \/ \E set \in Sets : RemoveSequence(set) \/ \E b \in BOOLEAN : AddSequence(set, b)
  \/ NodeTxCommits \/ SyncSequence \/ SyncTxCommits \/ UserAborts
  \/ PassRead \/ PassUpdate \/ PassCommit \/ ManagerDies
  \/ \E s \in Subs : ApplySequence(s)

\* The manager's loop runs, transactions of users end, apply workers apply.
SequenceFairness ==
  /\ WF_seqvars(PassRead) /\ WF_seqvars(PassUpdate) /\ WF_seqvars(PassCommit)
  /\ WF_seqvars(NodeTxCommits) /\ WF_seqvars(SyncTxCommits)
  /\ \A s \in Subs : WF_seqvars(ApplySequence(s))

SequenceSpec == SequenceInit /\ [][SequenceNext]_seqvars /\ SequenceFairness

-----------------------------------------------------------------------------
(***************************************************************************)
(* Properties.                                                             *)
(***************************************************************************)
Follows(s) == members \cap Subscribes[s] # {}

\* setval has not refused the value for s.
InBounds(s) == \A i \in 1 .. Len(chan[s]) : chan[s][i].value <= SeqLimit

\* In the direction of the sequence.
Reached(value, target) == (value - target) * Increment >= 0

\* A subscriber that has received everything queued for it is not behind the value
\* of the sequence that the manager's last pass saw ("the subscribers actually
\* receive future state of the sequence"), unless the sequence was in two sets.
SubscribersAhead ==
  \A s \in Subs : Follows(s) /\ chan[s] = <<>> /\ ~extra => Reached(val[s], passed)

\* A message for a sequence names a set, and so is never taken for one that
\* everybody receives: a tracked sequence is in a set, whatever transactions run.
SequenceMessagesHaveSets ==
  /\ row.here => members # {}
  /\ pass.pc = "wrote" => pass.msg.sets # {}
  /\ stx.on => stx.msg.sets # {}

\* When the sequence rests, every subscriber comes to its value or past it, unless
\* it was in two sets or setval refused a value.
SequencesCatchUp ==
  <>[](\A s \in Subs : Follows(s) /\ ~extra /\ InBounds(s) => Reached(val[s], last))

-----------------------------------------------------------------------------
\* What the manual leads one to expect and the code does not establish (README.md):
\* a sequence in two sets is ahead on the subscribers, too.
SubscribersAlwaysAhead ==
  \A s \in Subs : Follows(s) /\ chan[s] = <<>> => Reached(val[s], passed)
=============================================================================
