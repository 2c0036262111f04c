SPECIFICATION QueueSpec
CHECK_DEADLOCK FALSE
CONSTANTS
  Sets = {"s1", "s2"}
  Subs = {"subscriber"}
  Subscribes <- MCSubscribes
  MinCache = 2
  MaxCache = 3
  Descending = FALSE
  SeqLimit = 6
  MaxCalls = 4
  MaxOps = 3
  Tables = {"a", "b", "c"}
  RepSets = {"s1", "s2"}
  TruncSets = {"s1"}
  Before <- MCBefore
  After <- MCAfter
  MaxRows = 1
  MaxSteps = 4
INVARIANTS
  SubscribersAhead
  SequenceMessagesHaveSets
  TruncatesMirrored
  ListIsLive
PROPERTIES
  SequencesCatchUp
