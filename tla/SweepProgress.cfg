CONSTANTS
  N = 3
  Images = {3}
  Refused = {2}
  Unmirrorable = {}
  Fleet <- MCGrowing
  Settled = {}
  Modes = {"full"}
  BatchSize = 2
  Concurrency = 1
  PageSize = 2
  Slots = {1}
  CapRetries = 0
  ListAttempts = 1
  ScanTimeout = 1
  StaleAfter = 1
  RescanAfter = 0
  MirrorRetry = 1
  Backfill = FALSE
  Retention = 0
  MaxPerRun = 1
  MaxClients = 2
  MaxFaults = 1
SPECIFICATION FairSpec
PROPERTIES EveryoneIsAttempted StuckIsReclaimed RunsEnd
