SPECIFICATION Spec
CONSTANTS
  demo = demo
  miss = miss
  custom = custom
  p1 = p1
  e1 = e1
  e2 = e2
  Companies <- MCCompanies
  Seed <- MCSeed
  Good <- MCGood
  People <- MCPeople
  Findings <- MCFindings
  Keep = Keep
  Updates <- MCUpdates
  RuleSets <- MCRuleSets
  Extras <- MCExtras
  Similarities <- MCSimilarities
  Growths <- MCGrowths
  Passes <- MCPasses
  Editors <- MCEditors
  MaxConfigs = 2
  MaxEvents = 2
SYMMETRY Symmetry
INVARIANT TypeOK
INVARIANT OutreachIsEarned
INVARIANT OneMissDisqualifies
PROPERTY DeletedStaysDeleted
PROPERTY OwnRulesFirst
CHECK_DEADLOCK FALSE
