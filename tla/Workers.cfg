\* Two overlapping rounds; and one that is waited for.
CONSTANTS
  Rounds = {"full", "reeval", "both", "unpack"}
  Calls = {"image", "document", "cve", "malware", "archive"}
  RoundOf <- MCRoundOf
  Tool <- MCTool
  Mode <- MCMode
  Docs = {"sbom"}
  MintAttempts = 2
  MaxErrors = 2
  WorkerLimit = 1
  Deadline = 1
  Grace = 1
  Retained = 1
  ScanTimeout = 3
SPECIFICATION SceneSpec
INVARIANTS OnlyOverlapRevokes
PROPERTIES FindingsAreWhole KilledBeforeTimeout JobsGo RoundsEnd
