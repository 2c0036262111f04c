SPECIFICATION RowSpec
CHECK_DEADLOCK FALSE
CONSTANTS
  a = a
  b = b
  k = k
  l = l
  u = u
  v = v
  Nodes = {a, b}
  Keys = {k, l}
  Uniques = {u, v}
  Resolver = "last_update_wins"
  Tracked = TRUE
  Synchronised = TRUE
  MaxTs = 4
  MaxRepeats = 1
SYMMETRY RowSymmetry
INVARIANTS
  LastUpdateWins
  Converges
  DeletedStaysGone
