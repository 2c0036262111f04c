---------------------------- MODULE MCTableSync ----------------------------
(***************************************************************************)
(* Instances of TableSync for TLC.                                         *)
(***************************************************************************)
EXTENDS TableSync, TLC

CONSTANTS t1, t2

\* t1 is replicated from the start, t2 is added by the second transaction.
SecondAdds == t1 :> 0 @@ t2 :> 2

\* Both are added, one after the other.
BothAdded == t1 :> 1 @@ t2 :> 2

\* One table, added by the first transaction.
FirstAdds == t1 :> 1

\* One table, replicated from the start.
AllAlong == t1 :> 0
=============================================================================
