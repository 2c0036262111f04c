SPECIFICATION OrderedSpec
CONSTANTS
  Subs = {x, y}
  NoSub = NoSub
  NSlots = 3
  MaxFaults = 3
  MaxChanges = 2
  MaxEvents = 4
  SyncWorkers = {TRUE, FALSE}
INVARIANTS
  OneApplyPerSubscription
  FindsTheLiving

  
  
