--------------------------- MODULE ArtifactStore ----------------------------
(***************************************************************************)
(* What the Store interface promises for one artifact: every operation on  *)
(* it happens at once, on the value the last one left (store.go; MemStore  *)
(* keeps the promise with one mutex).  PgStore is shown to keep it with    *)
(* transactions.                                                           *)
(*                                                                         *)
(* The artifact is a record [unsafe, scanAt, provenance, checkedAt,        *)
(* findings, stage, stages, team], see Policy; stages is the history of    *)
(* stage; its documents are the SBOM alone.                                *)
(***************************************************************************)
EXTENDS Policy, Sequences

CONSTANTS
  Reports,     \* sets of findings a scan may report in bucket "cve"
  Denials,     \* sets of findings the license denylist may report
  Verdicts,    \* what a scan may learn of provenance, or "unchecked"
  Stages,      \* PIPELINE_STAGES
  Teams,       \* maintainers, a team with its address
  Documents,   \* contents of an SBOM
  NoDocument,
  Times        \* the moments a request may read off the clock

VARIABLES exists, artifact, document
vars == <<exists, artifact, document>>

Ids(findings) == {f.id : f \in findings}

\* A report merged into what is on record: an id it names is open unless a
\* document suppressed it, an open one it does not name is fixed if the
\* report is complete, and an acceptance stays with its id.
Merged(prev, reported, complete) ==
  {IF f.id \in Ids(reported)
     THEN IF f.status = "not_affected" THEN f ELSE [f EXCEPT !.status = "open"]
     ELSE IF complete /\ f.status = "open" THEN [f EXCEPT !.status = "fixed"]
     ELSE f : f \in prev}
    \cup {f \in reported : f.id \notin Ids(prev)}

\* A scan's outcome; a verdict is replaced only by one reached in the scan.
Scanned(a, now, reported, complete, verdict) ==
  [a EXCEPT !.scanAt = now,
            !.provenance = IF verdict = "unchecked" THEN @ ELSE verdict,
            !.checkedAt = IF verdict = "unchecked" THEN @ ELSE now,
            !.findings["cve"] = Merged(@, reported, complete)]

\* License findings are a partition of bucket "other".
Licensed(a, denied) ==
  [a EXCEPT !.findings["other"] =
     {f \in @ : ~f.license} \cup Merged({f \in @ : f.license}, denied, TRUE)]

\* An acceptance is recorded wherever its id is found.
WithAcceptance(a, id, until) ==
  [a EXCEPT !.findings = [b \in Buckets |->
     {IF f.id = id THEN [f EXCEPT !.until = until] ELSE f : f \in @[b]}]]

\* A stage is entered in the history as it becomes the current one.
Staged(a, stage) == [a EXCEPT !.stage = stage, !.stages = Append(@, stage)]

Assigned(a, team) == [a EXCEPT !.team = team]

Outcomes(a, now) ==
  {Scanned(a, now, r, c, v) : r \in Reports, c \in BOOLEAN, v \in Verdicts}

Acceptances(a, now) ==
  {WithAcceptance(a, id, now + 1) : id \in Ids(UNION {a.findings[b] : b \in Buckets})}
    \cup {a}

Edits(a) == {Staged(a, s) : s \in Stages} \cup {Assigned(a, t) : t \in Teams}

Reviewed(a) == {Licensed(a, d) : d \in Denials}

Update == /\ exists
          /\ \/ \E now \in Times : artifact' \in Outcomes(artifact, now)
             \/ \E now \in Times : artifact' \in Acceptances(artifact, now)
             \/ artifact' \in Reviewed(artifact)
             \/ artifact' \in Edits(artifact)
          /\ UNCHANGED <<exists, document>>

SaveDocument == /\ exists
                /\ document' \in Documents
                /\ UNCHANGED <<exists, artifact>>

Delete == /\ exists
          /\ exists' = FALSE
          /\ document' = NoDocument
          /\ UNCHANGED artifact

Init == exists \in BOOLEAN /\ document \in Documents \cup {NoDocument}

Next == Update \/ SaveDocument \/ Delete

Spec == Init /\ [][Next]_vars
=============================================================================
