SPECIFICATION Spec
CONSTANTS
  p1 = p1
  p2 = p2
  t1 = t1
  t2 = t2
  Passes <- MCPasses
  Tenants <- MCTenants
  Others <- MCOneOther
  MaxMishaps = 1
SYMMETRY Symmetry
INVARIANT TypeOK
INVARIANT KnownIsSkipped
INVARIANT MarkIsBacked
INVARIANT StoresFailAlone
PROPERTY DecisionsLinearise
CHECK_DEADLOCK FALSE
