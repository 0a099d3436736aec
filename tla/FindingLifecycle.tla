-------------------------- MODULE FindingLifecycle --------------------------
(***************************************************************************)
(* What the service promises about the findings of one artifact, whoever   *)
(* writes them and in whatever order: the abstract specification that      *)
(* ArtifactScan implements.  A step may move any number of findings, each  *)
(* by one transition below.                                                *)
(*                                                                         *)
(*  - a finding is discovered once and is never forgotten while its        *)
(*    artifact lives: its first-seen date never moves;                     *)
(*  - a suppression needs a document that asserts it, and so does its      *)
(*    retraction: no scan reopens or "fixes" a suppressed finding;         *)
(*  - a resolution date is kept, unmoved, while the finding is fixed and    *)
(*    only then;                                                           *)
(*  - a justification comes from a document, and goes with the status it   *)
(*    explains;                                                            *)
(*  - a risk acceptance is set and withdrawn only by a decision of its     *)
(*    own, which touches nothing else.                                     *)
(***************************************************************************)
EXTENDS Findings

VARIABLES
  exists,      \* the artifact is registered
  findings,    \* [Ids -> Finding]
  asserted     \* [Ids -> what any document has ever said of the id]

lifecycle == <<exists, findings, asserted>>

Init ==
  /\ exists = TRUE
  /\ findings = [id \in Ids |-> Untracked]
  /\ asserted = [id \in Ids |-> {}]

\* A finding enters, open or already assessed, and never accepted.
Discovered(id, new) ==
  /\ new.status # "untracked"
  /\ new.status = "open" \/ new.status \in asserted[id]
  /\ new.justified => new.status \in asserted[id]
  /\ ~new.accepted

\* The status changes a finding on record may make.
Moved(id, old, new) ==
  /\ new.firstSeen = old.firstSeen
  /\ new.accepted = old.accepted
  /\ old.status = "fixed" /\ new.status = "fixed" => new.resolvedAt = old.resolvedAt
  /\ \/ new.status = old.status
     \/ old.status = "open" /\ new.status = "fixed"
     \/ old.status = "fixed" /\ new.status = "open"
     \/ new.status \in Suppressing /\ new.status \in asserted[id]
     \/ old.status = "not_affected" /\ new.status = "open" /\ "affected" \in asserted[id]
  /\ new.justified =>
       \/ old.justified /\ new.status = old.status
       \/ new.status \in asserted[id]

WellFormed(f) ==
  /\ f.resolvedAt # Unset <=> f.status = "fixed"
  /\ f.justified => f.status \in Suppressing

Evolves(id, old, new) ==
  /\ WellFormed(new)
  /\ IF Tracked(old) THEN Moved(id, old, new) ELSE Discovered(id, new)

\* A document is uploaded and stays on the record for good.
Assert ==
  /\ asserted' \in [Ids -> SUBSET Assertions]
  /\ \A id \in Ids : asserted[id] \subseteq asserted'[id]
  /\ UNCHANGED <<exists, findings>>

\* A scan, a submission, a document or a license evaluation is merged.
Merge ==
  /\ exists
  /\ findings' \in [Ids -> Finding]
  /\ \A id \in Ids : findings'[id] = findings[id]
                     \/ Evolves(id, findings[id], findings'[id])
  /\ UNCHANGED <<exists, asserted>>

Decide ==
  /\ exists
  /\ \E id \in Ids, accepted \in BOOLEAN :
       /\ Tracked(findings[id])
       /\ findings' = [findings EXCEPT ![id].accepted = accepted]
  /\ UNCHANGED <<exists, asserted>>

Delete ==
  /\ exists
  /\ exists' = FALSE
  /\ findings' = [id \in Ids |-> Untracked]
  /\ UNCHANGED asserted

Next == Assert \/ Merge \/ Decide \/ Delete

Spec == Init /\ [][Next]_lifecycle
=============================================================================
