CONSTANTS
  N = 3
  Images = {3}
  Refused = {2}
  Unmirrorable = {1}
  Fleet <- MCFleet
  Settled = {}
  Modes = {"full", "sbom-only"}
  BatchSize = 2
  Concurrency = 2
  PageSize = 2
  Slots = {1}
  CapRetries = 1
  ListAttempts = 2
  ScanTimeout = 2
  StaleAfter = 1
  RescanAfter = 1
  MirrorRetry = 1
  Backfill = TRUE
  Retention = 2
  MaxPerRun = 1
  MaxClients = 1
  MaxFaults = 1
SPECIFICATION Spec
PROPERTIES ReclaimsOnlyOverdue PruneSparesScans
