SPECIFICATION FairSpec
CONSTANTS
  Selections <- MCSelections
  CustomIds <- MCCustom
INVARIANT TypeOK
PROPERTY NoDecisionBehindReview
INVARIANT ReviewEndsChain
INVARIANT RunnableReturns
INVARIANT DefaultPassRecords
INVARIANT SelectionDecides
PROPERTY ImplementsPass
CHECK_DEADLOCK FALSE
