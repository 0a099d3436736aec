\* One round and one request of any other kind, with unreadable documents
\* and one crash.  Deletion stops the system.
SPECIFICATION Spec
CONSTANTS
  Ids = {"cve", "license"}
  CVE <- MCCVE
  License <- MCLicense
  Bucket <- MCBucket
  Scanners <- MCImage
  Reeval <- MCReevaluation
  Covers <- MCCovers
  Affinity <- MCAffinity
  Documents <- MCSuppressAndRetract
  Rounds = {r1}
  Clients = {c1}
  Modes = {"full", "sbom-only"}
  Requests = {"submit", "vex", "fleet", "license", "accept", "delete"}
  ReadErrors = TRUE
  NotifyOnFirstScan = FALSE
  MaxStamp = 3
  MaxCrashes = 1
PROPERTIES LifecycleSpec SBOMOnlyIsConservative
CHECK_DEADLOCK FALSE
