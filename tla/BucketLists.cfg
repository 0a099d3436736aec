\* The cve bucket: two scanners, submissions that name each id once.
SPECIFICATION Spec
CONSTANTS
  Ids = {"cve1", "cve2"}
  Coalesced = TRUE
  Scanners <- MCTrivyGrype
  Reeval = "trivy"
  Outputs <- MCCVEOutputs
  Submissions <- MCSubmitted
  Documents <- MCDocuments
  CVEs = {"cve1"}
  KEVFeeds <- MCKEVFeeds
  EPSSFeeds <- MCEPSSFeeds
  NotFetched = nil
  MaxStamp = 3
INVARIANTS FollowsPerId OneRecordPerId AttributionIsHonest FlagsFollowFeeds
PROPERTIES CorroborationKept
CHECK_DEADLOCK FALSE
