SPECIFICATION StreamFair
CONSTANTS
  w1 = w1
  w2 = w2
  c1 = c1
  v1 = v1
  Workers <- MCWorkers
  Clients <- MCClients
  Viewers <- MCViewers
  Origins <- MCRuns
  Companies = 2
  Faults <- MCLiveFaults
  MaxDeliveries = 1
  MaxEvents = 1
INVARIANT StreamTypeOK
INVARIANT CompletedIsCommitted
PROPERTY RunSettles
PROPERTY ViewerIsTold
CHECK_DEADLOCK FALSE
