--------------------------- MODULE MCRowConflicts ---------------------------
EXTENDS RowConflicts, TLC

\* Nothing tells the nodes, the keys or the values apart.
RowSymmetry == Permutations(Nodes) \cup Permutations(Keys) \cup Permutations(Uniques)
=============================================================================
