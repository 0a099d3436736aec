\* Two requests and a scan round at a time, refs that may share content.
SPECIFICATION SceneSpec
CONSTANTS
  Requesters = {q1, q2}
  Refs = {"a", "b"}
  Copies <- MCCopies
  CopyOf <- MCCopyOf
  Contents = {x}
  Movable = {"a"}
  Batches <- MCBatches
  MaxBatch = 2
  Quotas = {1, 2}
  Slots = {s1, s2, s3}
  Rounds = {r1}
SYMMETRY Symmetries
INVARIANTS BatchCreatesOnce OvershootBounded
PROPERTIES NothingTwice DuplicateBeatsQuota
