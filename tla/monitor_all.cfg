SPECIFICATION FairSpec
CONSTANTS
  e1 = e1
  e2 = e2
  a = a
  b = b
  Executions <- MCExecutions
  Articles <- MCArticles
  Collections <- MCCollections
  Batches <- MCBatches
  Setups <- MCSetups
  MaxRetries = 1
  Window = 1
  MaxClock = 1
  Never = Never
INVARIANT TypeOK
INVARIANT RepeatsNeedARace
INVARIANT MarkedIsDelivered
INVARIANT NothingIsDropped
INVARIANT ResultIsHonest
PROPERTY StepEnds
CHECK_DEADLOCK FALSE
