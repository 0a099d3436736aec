\* Two overlapping registrations or scans of a tag that moves and of a path;
\* and one scan at a time whose copies fail any finite number of times.
SPECIFICATION SceneSpec
CONSTANTS
  Artifacts = {"a1", "a2"}
  Refs = {"tag", "path", "mirror/tag"}
  Origin <- MCTagAndPath
  CopyOf <- MCCopyOf
  Contents = {"old", "new"}
  Movable = {"tag"}
  Workers = {w1, w2}
  Sweeper = w1
INVARIANTS OriginKept ProvenanceKept
PROPERTIES SweepConverges
