SPECIFICATION MCSpec
CHECK_DEADLOCK FALSE
CONSTANTS
  s1 = s1
  s2 = s2
  l1 = l1
  l2 = l2
  p = p
  x = x
  y = y
  d = d
  e = e
  t = t
  u = u
  NoSession = NoSession
  NoLocal = NoLocal
  Sessions = {s1, s2}
  Locals = {l1, l2}
  Provider = p
  Subs = {x, y}
  Sets = {d, e}
  Tables = {t, u}
  NSlots = 2
  MaxCalls = 5
SYMMETRY CatalogSymmetry
INVARIANTS
  SetsDisjoint
  SubscriptionLoads
  MembersHaveIdentity
