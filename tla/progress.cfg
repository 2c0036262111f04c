SPECIFICATION FairSpec
CONSTANTS
  MaxTx = 3
  Empty = {2}
  MaxRestarts = 2
  RestartAfterFlush = TRUE
INVARIANTS ConfirmedIsDurable
PROPERTIES EventuallyReleased DeliversReliably
