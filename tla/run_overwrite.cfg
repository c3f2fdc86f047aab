SPECIFICATION Spec
CONSTANTS
  w1 = w1
  w2 = w2
  c1 = c1
  c2 = c2
  Workers <- MCOneWorker
  Clients <- MCClients
  Origins <- MCRuns
  Companies = 1
  Faults <- MCNoFaults
  MaxDeliveries = 1
  MaxEvents = 0
PROPERTY CancelledStays
CHECK_DEADLOCK FALSE
