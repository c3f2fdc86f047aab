SPECIFICATION Spec
CONSTANTS
  r1 = r1
  r2 = r2
  q1 = q1
  q2 = q2
  q3 = q3
  v1 = v1
  Runs <- MCRuns
  Requests <- MCRequests
  Verdicts <- MCVerdicts
  Undecided = Undecided
  Nobody = Nobody
  Reviewer = Reviewer
  MaxDeliveries = 1
  MaxMishaps = 0
  MaxVisits = 2
PROPERTY CompletedRunShowsVerdict
CHECK_DEADLOCK FALSE
