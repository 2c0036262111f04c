SPECIFICATION Spec
CONSTANTS
  MaxTx = 2
  Empty = {}
  MaxRestarts = 2
  RestartAfterFlush = FALSE
INVARIANTS ConfirmedIsDurable
