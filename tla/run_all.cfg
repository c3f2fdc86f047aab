SPECIFICATION Spec
CONSTANTS
  w1 = w1
  w2 = w2
  c1 = c1
  c2 = c2
  Workers <- MCWorkers
  Clients <- MCClients
  Origins <- MCBoth
  Companies = 2
  Faults <- MCAll
  MaxDeliveries = 2
  MaxEvents = 1
SYMMETRY Symmetry
INVARIANT TypeOK
INVARIANT NoSilentAbandon
INVARIANT AbandonInv
PROPERTY FailedIsFinal
INVARIANT FeedAgreesWithRow
INVARIANT OneExecution
PROPERTY CancelHoldsOnceRevoked
CHECK_DEADLOCK FALSE
