---------------------------- MODULE MCWorkerScan ----------------------------
(* Two scenes of WorkerScan, checked as one: a full round and a            *)
(* re-evaluation of the same artifact that overlap ("pair"), and one round *)
(* of two calls, or of the unpacker's, that is waited for ("single").      *)
EXTENDS WorkerScan, TLC

MCMode == [r \in Rounds |-> IF r = "reeval" THEN "sbom-only" ELSE "full"]

\* Two rounds of one call each, both with a token; a round of two calls; and
\* one of a deployment whose malware scanner is the unpacker.
EachRoundOf == "image" :> "full" @@ "document" :> "reeval"
               @@ "cve" :> "both" @@ "malware" :> "both" @@ "archive" :> "unpack"
EachTool    == "image" :> "trivy" @@ "document" :> "grype"
               @@ "cve" :> "trivy" @@ "malware" :> "malcontent" @@ "archive" :> "unpacker"

\* TLC keeps the value of a definition, but evaluates what stands for a
\* constant whenever it is used: hence a second name for each.
MCRoundOf == EachRoundOf
MCTool    == EachTool

VARIABLE scene

sceneVars == <<vars, scene>>

Pair       == {"full", "reeval"}
Single     == {"both", "unpack"}
SingleCall == {"cve", "malware", "archive"}

Only(rounds) == round = [r \in Rounds |-> IF r \in rounds THEN "idle" ELSE "lost"]

\* Two rounds that overlap; or one round that is waited for.  The others
\* were lost before they asked for anything.
SceneInit ==
  /\ Untouched
  /\ \/ scene = "pair" /\ Only(Pair)
     \/ scene = "single" /\ \E r \in Single : Only({r})

InSingle(action) == scene = "single" /\ action /\ UNCHANGED scene

\* Time passes; monitor-api, while it runs, makes its requests, and the
\* cluster carries out what it was asked.  Faults owe nothing.
SingleFairness ==
  /\ WF_sceneVars(InSingle(Tick))
  /\ \A r \in Single : WF_sceneVars(InSingle(Persist(r) \/ Revoke(r)))
  /\ \A c \in SingleCall :
       WF_sceneVars(InSingle(CallStep(c))) /\ WF_sceneVars(InSingle(Cluster(c)))

SceneSpec == SceneInit /\ [][Next /\ UNCHANGED scene]_sceneVars /\ SingleFairness

\* Once there are Jobs of the round in the cluster, there comes a time when
\* none is left, whatever was lost or died (isolated_*.go's deferred delete,
\* ttlSecondsAfterFinished); a call has one Job, so each of them goes.
JobsGo ==
  scene = "single" /\ (\E c \in Calls : job[c] = "active")
    ~> \A c \in Calls : job[c] \in {"absent", "asked", "deleted"}

\* The round returns from all its scanners, also when none is heard of
\* (jobwait.go).
RoundsEnd ==
  scene = "single" /\ (\E r \in Rounds : round[r] = "running")
    ~> \A r \in Rounds : round[r] # "running"

Errors == INSTANCE ScanErrors

\* Texts with one phrase or two, in any order of the scanners.
Texts == {{p, q} : p, q \in Errors!Phrases} \cup {{}}

\* Whichever scanner comes last, a round that failed records the reason of
\* its most specific error, and only such a round records one
\* (classify.go:26-31, scan.go:424-432).
ASSUME ReasonAssumption ==
  \A x, y \in Texts :
    LET reason == Errors!FailureReason(<<x, y>>, 2)
        RankOf(text) == Errors!ReasonRank(Errors!ClassifyScanError(text))
    IN /\ reason = Errors!FailureReason(<<y, x>>, 2)
       /\ Errors!ReasonRank(reason) <= RankOf(x) /\ Errors!ReasonRank(reason) <= RankOf(y)
       /\ Errors!FailureReason(<<x, y>>, 3) = ""

\* Of what the isolated scanners wrap, the classifiers do not know two
\* scanners' failure to create their Job and malcontent's own report.
ASSUME UnknownAssumption ==
  {w \in {"trivy", "grype", "unpacker", "malcontent"}
           \X {"mint", "create", "timeout", "crash", "pod", "logs", "extract"} :
     Errors!ClassifyScanError(Errors!Wrapped(w[1], w[2])) = "unknown"}
    = {<<"grype", "create">>, <<"malcontent", "create">>, <<"malcontent", "extract">>}
=============================================================================
