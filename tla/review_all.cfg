SPECIFICATION Spec
CONSTANTS
  r1 = r1
  r2 = r2
  q1 = q1
  q2 = q2
  q3 = q3
  v1 = v1
  Runs <- MCRuns
  Requests <- MCRequests
  Verdicts <- MCVerdicts
  Undecided = Undecided
  Nobody = Nobody
  Reviewer = Reviewer
  MaxDeliveries = 2
  MaxMishaps = 1
  MaxVisits = 3
SYMMETRY Symmetry
INVARIANT TypeOK
INVARIANT QueueMatchesPauses
INVARIANT OwnVerdictShows
INVARIANT ListedOnce
INVARIANT OnlyRepeatsAreIgnored
INVARIANT EditsAreLostToRacesOnly
CHECK_DEADLOCK FALSE
