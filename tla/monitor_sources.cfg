SPECIFICATION Spec
CONSTANTS
  e1 = e1
  e2 = e2
  a = a
  b = b
  Executions <- MCExecutions
  Articles <- MCArticles
  Collections <- MCCollections
  Batches <- MCBatches
  Setups <- MCSetups
  MaxRetries = 1
  Window = 1
  MaxClock = 1
  Never = Never
INVARIANT SourcesFailAlone
CHECK_DEADLOCK FALSE
