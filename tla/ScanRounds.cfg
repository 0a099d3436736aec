\* Two overlapping rounds of either mode while an SBOM may arrive; and
\* requests of every other kind but deletion, one at a time, without rounds.
SPECIFICATION SceneSpec
CONSTANTS
  Ids = {"cve", "malware"}
  CVE <- MCCVE
  License <- MCLicense
  Bucket <- MCBucket
  Scanners <- MCImage
  Reeval <- MCReevaluation
  Covers <- MCCovers
  Affinity <- MCAffinity
  Documents <- MCAllDocuments
  Rounds = {r1, r2}
  Clients = {c1}
  Modes = {"full", "sbom-only"}
  Requests = {"submit", "vex", "fleet", "license"}
  ReadErrors = FALSE
  NotifyOnFirstScan = TRUE
  MaxStamp = 4
  MaxCrashes = 0
SYMMETRY RoundSymmetry
INVARIANTS NotStranded AnnouncedOnce DocumentSuppresses PerArtifactWins
PROPERTIES NoFalseFix
CHECK_DEADLOCK FALSE
