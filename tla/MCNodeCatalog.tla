--------------------------- MODULE MCNodeCatalog ----------------------------
(***************************************************************************)
(* The functions of one topic are called in a behaviour: the ones for      *)
(* nodes and subscriptions, or the ones for replication sets.              *)
(***************************************************************************)
EXTENDS NodeCatalog, TLC

VARIABLE topic

MCInit == CatalogInit /\ topic \in {"subscriptions", "sets"}

MCNext ==
  /\ UNCHANGED topic
  /\ \/ \E s \in Sessions :
          \/ NodeStep(s) \/ CallFails(s)
          \/ topic = "subscriptions" /\ SubStep(s)
          \/ topic = "sets" /\ SetStep(s)
     \/ topic = "sets" /\ (TableStep \/ SlotStep)

MCSpec == MCInit /\ [][MCNext]_<<catvars, topic>>

CatalogSymmetry ==
  Permutations(Sessions) \cup Permutations(Locals) \cup Permutations(Subs)
    \cup Permutations(Sets) \cup Permutations(Tables)
=============================================================================
