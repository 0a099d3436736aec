------------------------------ MODULE Findings ------------------------------
(***************************************************************************)
(* The lifecycle of one finding of one artifact and the merge that moves   *)
(* it (internal/artifact/merge.go).  An artifact's findings are a total    *)
(* function from finding ids to records; an id nobody ever reported is     *)
(* "untracked".  Severity, title and source are left out: no lifecycle     *)
(* decision reads them, except the source "license", which the importing   *)
(* module turns into a set of ids.  What a merge does to LISTS, with their *)
(* order, sources and duplicated ids, is module MergeLists.                *)
(***************************************************************************)
EXTENDS Naturals

CONSTANT Ids        \* the finding ids one artifact can carry

FindingStatuses == {"untracked", "open", "fixed", "not_affected"}

\* What a VEX document says about an id: nothing, an opinion that changes
\* nothing ("under_investigation" or a word the parser does not know), one
\* of the two suppressing assertions, or the retraction.
Assertions == {"silent", "noted", "not_affected", "fixed", "affected"}

Suppressing == {"not_affected", "fixed"}

\* Times are stamps taken from a clock; 0 stands for Go's nil *time.Time.
Unset == 0

Finding == [status     : FindingStatuses,
            justified  : BOOLEAN,    \* carries a VEX statement's justification
            firstSeen  : Nat,
            resolvedAt : Nat,
            accepted   : BOOLEAN]    \* carries a risk acceptance

Untracked == [status |-> "untracked", justified |-> FALSE,
              firstSeen |-> Unset, resolvedAt |-> Unset, accepted |-> FALSE]

\* A finding reported for the first time: nothing the reporter says about
\* the lifecycle, an acceptance included, is believed.
NewFinding(now) == [Untracked EXCEPT !.status = "open", !.firstSeen = now]

Tracked(f) == f.status # "untracked"

\* applyVEX: a suppressing statement stamped on a finding.  "fixed" keeps
\* the resolution time it finds; "not_affected" was never a problem, so it
\* has none.
ApplyVEX(f, statement, now) ==
  [f EXCEPT !.status = statement,
            !.justified = TRUE,
            !.resolvedAt = IF statement = "not_affected" THEN Unset
                           ELSE IF f.resolvedAt = Unset THEN now
                           ELSE f.resolvedAt]

Reopened(f) == [f EXCEPT !.status = "open",
                         !.justified = FALSE,
                         !.resolvedAt = Unset]

Resolved(f, now) == [f EXCEPT !.status = "fixed",
                              !.justified = FALSE,
                              !.resolvedAt = now]

\* A bug: being reported again reopens whatever a document had suppressed.
ReportedReopens(f) == Reopened(f)

\* A finding already suppressed by a document stays so when a scanner
\* reports it again.
StillReported(f) ==
  IF f.status = "not_affected" THEN [f EXCEPT !.resolvedAt = Unset]
                               ELSE Reopened(f)

\* "affected" takes back an earlier "not_affected"; anything else leaves it.
Retracts(f, statement) == statement = "affected" /\ f.status = "not_affected"

\* One iteration of MergeFindings' first loop: a finding on record, which
\* the document speaks about, or this round reports, or reports no more.
MergeRecorded(f, reported, now, detectFixed, statement) ==
  CASE statement \in Suppressing -> ApplyVEX(f, statement, now)
    [] Retracts(f, statement)    -> Reopened(f)
    [] OTHER ->
         IF reported THEN StillReported(f)
         ELSE IF detectFixed /\ f.status = "open" THEN Resolved(f, now)
         ELSE f

\* A bug: the document is only held against findings on record.
MergeNewUnassessed(now, statement) == NewFinding(now)

\* One iteration of its second loop: a finding reported that is not on
\* record, which a document may have assessed before any scan saw it.
MergeNew(now, statement) ==
  IF statement \in Suppressing
  THEN ApplyVEX(NewFinding(now), statement, now)
  ELSE NewFinding(now)

MergeFinding(f, reported, now, detectFixed, statement) ==
  IF Tracked(f) THEN MergeRecorded(f, reported, now, detectFixed, statement)
  ELSE IF reported THEN MergeNew(now, statement)
  ELSE f

\* MergePartition: merge the findings the producer owns and carry the
\* others through.  `fixable` holds the ids of the buckets in which this
\* merge may conclude that an absent finding is fixed.
MergePartition(findings, owned, reported, now, fixable, vex) ==
  [id \in Ids |->
     IF id \in owned
     THEN MergeFinding(findings[id], id \in reported, now,
                       id \in fixable, vex[id])
     ELSE findings[id]]

\* applyVEXToEveryBucket: nothing reported, nothing concluded fixed.
ApplyDocument(findings, now, vex) ==
  MergePartition(findings, Ids, {}, now, {}, vex)

\* A bug: the layers the wrong way round.
FleetOnTop(fleet, perArtifact) ==
  [id \in Ids |-> IF fleet[id] = "silent" THEN perArtifact[id] ELSE fleet[id]]

\* A per-artifact document layered over the fleet's statements: any
\* statement it makes about an id, an opinion included, replaces theirs.
Layered(fleet, perArtifact) ==
  [id \in Ids |-> IF perArtifact[id] = "silent" THEN fleet[id]
                                                ELSE perArtifact[id]]

NoStatements == [id \in Ids |-> "silent"]
=============================================================================
