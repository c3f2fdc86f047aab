SPECIFICATION Spec
CONSTANTS
  p1 = p1
  p2 = p2
  t1 = t1
  t2 = t2
  Passes <- MCPasses
  Tenants <- MCTenants
  Others <- MCOthers
  MaxMishaps = 0
INVARIANT SkippedIsFullyProcessed
CHECK_DEADLOCK FALSE
