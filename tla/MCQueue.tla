------------------------------- MODULE MCQueue -------------------------------
(***************************************************************************)
(* The two uses of the queue table for TLC.  They share no state, so a     *)
(* behaviour is about one of them.                                         *)
(***************************************************************************)
EXTENDS SequenceSync, TruncateQueue, TLC

VARIABLE topic

\* A subscriber of one of the two sets.
MCSubscribes == "subscriber" :> {"s1"}

\* The triggers of users are on a: one that is not for TRUNCATE and one that
\* truncates c come before the table is noted, one that fills it again after.
MCBefore == [t \in Tables |-> IF t = "a" THEN <<[on |-> "row"], [on |-> "truncate", rel |-> "c"]>>
                              ELSE <<>>]
MCAfter == [t \in Tables |-> IF t = "a" THEN <<[on |-> "insert"]>> ELSE <<>>]

\* The type invariant of both.
QueueTypeOK == SequenceTypeOK /\ TruncateTypeOK

QueueInit == SequenceInit /\ TruncateInit /\ topic \in {"sequences", "tables"}

QueueNext ==
  \/ topic = "sequences" /\ SequenceNext /\ UNCHANGED <<truncvars, topic>>
  \/ topic = "tables" /\ TruncateNext /\ UNCHANGED <<seqvars, topic>>

QueueSpec == QueueInit /\ [][QueueNext]_<<seqvars, truncvars, topic>> /\ SequenceFairness
=============================================================================
