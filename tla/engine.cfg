SPECIFICATION Spec
CONSTANTS
  Queries <- AllQueries
  PushTo <- MCPushTo
  Tables <- MCTables
  MaxRows <- MCMaxRows
  MaxPending = 1
  MaxChanges = 2
INVARIANTS TypeOK HydrationMeansTheQuery SyncedRowsAreEnough ViewFollowsPushes
CHECK_DEADLOCK FALSE
