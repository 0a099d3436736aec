------------------------------ MODULE MCScenes ------------------------------
(***************************************************************************)
(* Two scenes of ArtifactScan, checked as one: overlapping rounds while an *)
(* SBOM may arrive ("rounds"), and requests of four kinds one at a time,   *)
(* with no round about ("serial").                                         *)
(***************************************************************************)
EXTENDS MCArtifactScan

VARIABLE scene

\* The bound on stamps of the scene with rounds; the other has MaxStamp.
RoundStamps == 3

SceneInit ==
  /\ Init
  /\ scene \in {"rounds", "serial"}
  /\ scene = "serial" => ~digested /\ present = {}

\* With no license ids an SBOM's evaluation changes nothing once the SBOM
\* is stored, so rounds need not interleave with it.
RoundsStep ==
  /\ scene = "rounds"
  /\ \/ (\A c \in Clients : client[c].pc = "idle") /\ \E r \in Rounds : RoundNext(r)
     \/ \E c \in Clients : IndexSBOM(c) \/ ApplyLicenses(c)
  /\ clock' <= RoundStamps

SerialStep == scene = "serial" /\ \E c \in Clients : ClientNext(c)

SceneNext == (RoundsStep \/ SerialStep) /\ UNCHANGED <<present, scene>>

SceneSpec == SceneInit /\ [][SceneNext]_<<vars, scene>>
=============================================================================
