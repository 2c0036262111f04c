SPECIFICATION FairSpec
CONSTANTS
  Subs = {x, y}
  NoSub = NoSub
  NSlots = 2
  MaxFaults = 1
  MaxChanges = 0
  MaxEvents = 1
  SyncWorkers = {FALSE}
PROPERTIES
  EnabledRuns
