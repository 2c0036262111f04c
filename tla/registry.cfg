SPECIFICATION FairSpec
CONSTANTS
  NSlots = 2
  Procs = {p1, p2, p3}
  WorkerTypes = {"APPLY", "SYNC"}
  NULL = NULL
  GenMod = 3
  LaunchGap = FALSE
  WaiterSigterm = TRUE
INVARIANTS SlotOwnership MarksOnlyItsOwn
PROPERTIES DeadSlotReclaimed
