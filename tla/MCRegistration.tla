--------------------------- MODULE MCRegistration ---------------------------
(***************************************************************************)
(* Two scenes of Registration, checked as one, about two refs that may     *)
(* name the same content: requests for one of them or for both that        *)
(* overlap, without scans ("batches"); and requests that overlap a scan    *)
(* round ("scans"), a bulk one alone, with a bound on the artifacts.       *)
(***************************************************************************)
EXTENDS Registration, TLC

VARIABLE scene

sceneVars == <<vars, scene>>

Mirrors   == [r \in Refs |-> "mirror/" \o r]
LocalRefs == {"mirror/" \o r : r \in Refs}
OneOrBoth == {<<"a">>, <<"a", "b">>}

\* TLC keeps the value of a definition, but evaluates what stands for a
\* constant whenever it is used: hence a second name for each.
MCCopyOf  == Mirrors
MCCopies  == LocalRefs
MCBatches == OneOrBoth

SceneInit == Init /\ scene \in {"batches", "scans"}

BatchesStep == scene = "batches" /\ Next /\ UNCHANGED scan

\* The bound on artifacts in the scene with a scan round.
ScannedRows == 2

ScansStep ==
  /\ scene = "scans"
  /\ Next
  /\ \A q1, q2 \in Requesters :
       req'[q1].bulk /\ req'[q2].pc # "idle" => q1 = q2
  /\ Cardinality(Present') <= ScannedRows

SceneSpec == SceneInit /\ [][(BatchesStep \/ ScansStep) /\ UNCHANGED scene]_sceneVars

Symmetries == Permutations(Requesters) \cup Permutations(Slots) \cup Permutations(Contents)
=============================================================================
