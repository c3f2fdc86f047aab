SPECIFICATION Spec
CONSTANTS
  w1 = w1
  w2 = w2
  c1 = c1
  c2 = c2
  Workers <- MCOneWorker
  Clients <- MCClients
  Origins <- MCStudio
  Companies = 1
  Faults <- MCNoFaults
  MaxDeliveries = 1
  MaxEvents = 0
INVARIANT CancelStopsTask
CHECK_DEADLOCK FALSE
