---------------------------- MODULE MCMirroring ----------------------------
(***************************************************************************)
(* Two scenes of Mirroring, checked as one, about a public tag with a copy *)
(* and a local path that needs none: workers that overlap while the tag    *)
(* moves ("races"), and one sweep that scans by itself ("backfill").       *)
(***************************************************************************)
EXTENDS Mirroring, TLC

CONSTANT Sweeper     \* the worker of the second scene

VARIABLE scene

LocalCopy == [r \in Refs |-> IF r = "tag" THEN "mirror/tag" ELSE NoRef]

\* The second artifact is a path.
TagAndPath == [a \in Artifacts |-> IF a = "a1" THEN "tag" ELSE "path"]

\* TLC keeps the value of a definition, but evaluates what stands for a
\* constant whenever it is used: hence a second name for each.
MCCopyOf     == LocalCopy
MCTagAndPath == TagAndPath

sceneVars == <<vars, scene>>

SceneInit == Init /\ scene \in {"races", "backfill"}

RacesStep == scene = "races" /\ Next /\ UNCHANGED scene

Alone(action) == scene = "backfill" /\ action /\ UNCHANGED scene

BackfillStep == Alone(WorkerNext(Sweeper) \/ \E a \in Artifacts : RegisterInBulk(a))

\* The sweep scans every registered artifact again and again, no step
\* outlasts its timeout, and what is tried often enough succeeds.
SweepFairness ==
  /\ WF_sceneVars(Alone(GiveUp(Sweeper)))
  /\ \A a \in Artifacts :
       LET For(action) == Alone(action /\ worker[Sweeper].artifact = a) IN
       /\ SF_sceneVars(Alone(StartScan(Sweeper, a)))
       /\ SF_sceneVars(For(FinishScan(Sweeper)))
       /\ SF_sceneVars(For(NothingToCopy(Sweeper)))
       /\ SF_sceneVars(For(Landing(Sweeper)))
       /\ SF_sceneVars(For(Verify(Sweeper)))
       /\ SF_sceneVars(For(Rewrite(Sweeper)))

SceneSpec == SceneInit /\ [][RacesStep \/ BackfillStep]_sceneVars /\ SweepFairness

\* BackfillConverges when nobody else writes and no tag moves: the sweep
\* settles the source_ref of every registered artifact that can be copied
\* or needs no copy (mirror.go:66-73).
SweepConverges == scene = "backfill" => BackfillConverges
=============================================================================
