\* Three attempts, a failure, skewed clocks.
SPECIFICATION FairSpec
CONSTANTS
  Holders = {h1, h2, h3}
  Kinds <- MCKinds
  Cap <- MCCap
  Rank <- MCRank
  Requests <- MCRequests
  StaleAfter = 2
  MaxHold = 1
  MaxSkew = 1
  MaxFailures = 1
INVARIANTS CapRespected NeverReapedAlive
PROPERTIES PoolSpec LeaksAreReaped Answered
