--------------------------- MODULE MCApplyManager ---------------------------
(***************************************************************************)
(* Instances of ApplyManager for TLC.                                      *)
(***************************************************************************)
EXTENDS ApplyManager, TLC

\* Exchanging the subscriptions exchanges the two orders of their rows.
OrderedInit == Init /\ heap[1] = CHOOSE x \in Subs : TRUE

OrderedSpec == OrderedInit /\ [][Next]_vars /\ Fairness
=============================================================================
