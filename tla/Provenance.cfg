\* One full round after another, of an image without a signature.
SPECIFICATION Spec
CONSTANTS
  Ids = {"unsigned", "cve"}
  CVE <- MCCVE
  License <- MCLicense
  Bucket <- MCBucket
  Scanners <- MCWithCosign
  Reeval = {}
  Covers <- MCCovers
  Affinity <- MCAffinity
  Documents = {}
  Rounds = {r1}
  Clients = {c1}
  Modes = {"full"}
  Requests = {}
  ReadErrors = FALSE
  NotifyOnFirstScan = FALSE
  MaxStamp = 2
  MaxCrashes = 0
PROPERTIES NoFalseFix
CHECK_DEADLOCK FALSE
