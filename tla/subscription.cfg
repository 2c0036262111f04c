SPECIFICATION ToolFairSpec
CHECK_DEADLOCK FALSE
CONSTANTS
  Kinds = {"FULL", "DATA", "STRUCTURE"}
  MaxTx = 2
  MaxCalls = 2
  MaxFaults = 2
  MaxRuns = 2
  ReuseDir = FALSE
INVARIANTS
  CopyMeetsStream
  SlotKeepsTheRest
  DropLeavesNothing
  RecoveryMeetsStream
PROPERTIES
  Synchronises
  DropOfReadyEnds
