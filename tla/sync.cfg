SPECIFICATION Spec
CONSTANTS
  t1 = t1
  t2 = t2
  NoTable = NoTable
  Tables = {t1}
  AddedAt <- FirstAdds
  MaxTx = 3
  NSync = 2
  MaxFaults = 2
  MaxRequests = 1
  Roughness = {TRUE, FALSE}
INVARIANTS
  OneCopier
  HandoverExact
  AckedBeforeReady
PROPERTIES
  ReadyUntilRequest
