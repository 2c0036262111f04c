SPECIFICATION MCSpec
CHECK_DEADLOCK FALSE
CONSTANTS
  r1 = r1
  r2 = r2
  s1 = s1
  s2 = s2
  NoRel = NoRel
  Rels = {r1, r2}
  Sets = {s1, s2}
  Ops = {"insert", "delete"}
  Cols = {"a"}
  Scenarios <- AllScenarios
  MaxTx = 4
  MaxItems = 2
  MaxLog = 4
  SinvalInCallback = FALSE
  Majors = {905, 906}
  Encodings = {"utf8", "latin1"}
  Lists <- AllLists
INVARIANTS
  MetadataBeforeRows
  UnionOfSets
  CachedInfoFresh
  ColumnsOfSets
  SetsCaughtUp
  ReadsBack
