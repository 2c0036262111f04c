SPECIFICATION FairSpec
CONSTANTS
  t1 = t1
  t2 = t2
  NoTable = NoTable
  Tables = {t1, t2}
  AddedAt <- BothAdded
  MaxTx = 3
  NSync = 2
  MaxFaults = 1
  MaxRequests = 0
  Roughness = {FALSE}
INVARIANTS
  HandoverExact
  OneByOne
PROPERTIES
  SyncCompletes
