----------------------------- MODULE WorkerScan -----------------------------
(***************************************************************************)
(* Isolated scanning: the calls that monitor-api's scanners make to the    *)
(* Kubernetes API for one Job each (internal/scanner/isolated_*.go,        *)
(* jobwait.go, internal/k8sjob), the worker in the Job's pod (main.go,     *)
(* runScanWorker), and the per-Job credential with which it sends          *)
(* documents to monitor-api or fetches one (api/scantoken.go).             *)
(*                                                                         *)
(* One artifact, rounds that may overlap, one call per round and scanner.  *)
(* A tick is longer than one request and than the interval between two     *)
(* status checks (10 s at most), and shorter than the deadlines: nobody    *)
(* sleeps through one.  Any request may fail, with or without effect; pods *)
(* die; the process of monitor-api dies and its Jobs stay behind.          *)
(***************************************************************************)
EXTENDS Naturals, FiniteSets

CONSTANTS
  Rounds,         \* scans of the one artifact, each used once
  Calls,          \* the scanner calls of all the rounds
  RoundOf,        \* [Calls -> Rounds]
  Tool,           \* [Calls -> Tools]
  Mode,           \* [Rounds -> {"full", "sbom-only"}]
  Docs,           \* document kinds a worker generates: sbom, sarif
  MintAttempts,   \* mintWithRetry's attempts
  MaxErrors,      \* maxConsecutiveStatusErrors
  WorkerLimit,    \* the worker's own timeout (5 minutes)
  Deadline,       \* SCAN_WORKER_ACTIVE_DEADLINE_SECONDS
  Grace,          \* how much longer than the deadline a token lives (300 s)
  Retained,       \* ttlSecondsAfterFinished (300 s)
  ScanTimeout     \* SCAN_TIMEOUT_SECONDS

Tools == {"trivy", "grype", "unpacker", "malcontent"}

ASSUME CallsAssumption ==
  /\ RoundOf \in [Calls -> Rounds] /\ Tool \in [Calls -> Tools]
  /\ Mode \in [Rounds -> {"full", "sbom-only"}]
  /\ \A c \in Calls : Mode[RoundOf[c]] = "sbom-only" => Tool[c] \in {"trivy", "grype"}
ASSUME BoundsAssumption ==
  /\ {MintAttempts, MaxErrors, WorkerLimit, Deadline, Grace} \subseteq Nat \ {0}
  /\ {Retained, ScanTimeout} \subseteq Nat

\* The process refuses to start unless the scan timeout is above the Jobs'
\* deadline; a status check must also fit in between.
ASSUME TimeoutAssumption == ScanTimeout > Deadline + 1

VARIABLES
  round,   \* [Rounds -> "idle", "running", "persisted", "over", "unrevoked", "lost"]
  age,     \* [Rounds -> ticks since its start]
  pc,      \* [Calls -> where the call is]
  tries,   \* [Calls -> failed mints, then consecutive failed status checks]
  result,  \* [Calls -> "none", "findings", "error", "timeout"]
  life,    \* [Calls -> ticks its token has left in table scan_tokens, 0 for none]
  used,    \* [Calls -> the grants spent: documents, and "read"]
  job,     \* [Calls -> "absent", "asked", "active", "complete", "failed", "deleted"]
  clock,   \* [Calls -> ticks since its Job started, or finished]
  pod,     \* [Calls -> "none", "scan", "post", "exit", "gone"]
  todo,    \* [Calls -> documents its worker has still to send]
  log      \* [Calls -> what the pod's log ends with: "noise", "error", "findings"]

caller == <<pc, tries, result>>
token  == <<life, used>>
worker == <<pod, todo, log>>
vars   == <<round, age, caller, token, worker, job, clock>>

Of(r) == {c \in Calls : RoundOf[c] = r}

\* trivy's image worker sends documents, the re-evaluation's workers fetch
\* the stored SBOM; the others need nothing of monitor-api.
TrivySends(c)    == Tool[c] = "trivy" /\ Mode[RoundOf[c]] = "full"
TrivyReads(c)    == Tool[c] = "trivy" /\ Mode[RoundOf[c]] = "sbom-only"
GrypeReads(c)    == Tool[c] = "grype" /\ Mode[RoundOf[c]] = "sbom-only"
Reads(c)         == TrivyReads(c) \/ GrypeReads(c)
NeedsToken(c)    == TrivySends(c) \/ Reads(c)
Expired(c)       == age[RoundOf[c]] >= ScanTimeout

\* Nothing has been asked of the cluster.
Untouched ==
  /\ age = [r \in Rounds |-> 0]
  /\ pc = [c \in Calls |-> "idle"] /\ tries = [c \in Calls |-> 0]
  /\ result = [c \in Calls |-> "none"]
  /\ life = [c \in Calls |-> 0] /\ used = [c \in Calls |-> {}]
  /\ job = [c \in Calls |-> "absent"] /\ clock = [c \in Calls |-> 0]
  /\ pod = [c \in Calls |-> "none"] /\ todo = [c \in Calls |-> {}]
  /\ log = [c \in Calls |-> "noise"]

Init == round = [r \in Rounds |-> "idle"] /\ Untouched

-----------------------------------------------------------------------------
(* The round: every scanner runs concurrently; results are read after all  *)
(* have returned.                                                          *)

StartRound(r) ==
  /\ round[r] = "idle"
  /\ round' = [round EXCEPT ![r] = "running"]
  /\ pc' = [c \in Calls |-> IF c \notin Of(r) THEN pc[c]
                            ELSE IF NeedsToken(c) THEN "mint" ELSE "create"]
  /\ UNCHANGED <<age, tries, result, token, worker, job, clock>>

AllReturned(r) == \A c \in Of(r) : pc[c] = "done"

PersistUnawaited(r) ==
  /\ round[r] = "running"
  /\ \E next \in {"persisted", "lost"} : round' = [round EXCEPT ![r] = next]
  /\ age' = [age EXCEPT ![r] = 0]
  /\ UNCHANGED <<caller, token, worker, job, clock>>

\* A failed Update of the artifact ends the round there and then.
Persist(r) == AllReturned(r) /\ PersistUnawaited(r)

\* DeleteScanTokens: by artifact, so whatever round they were minted for.
DeleteScanTokens ==
  /\ life' = [c \in Calls |-> 0] /\ used' = [c \in Calls |-> {}]

Revoke(r) ==
  /\ round[r] = "persisted"
  /\ \/ round' = [round EXCEPT ![r] = "over"] /\ DeleteScanTokens
     \/ round' = [round EXCEPT ![r] = "unrevoked"] /\ UNCHANGED token
  /\ UNCHANGED <<age, caller, worker, job, clock>>

\* The process dies with every round in it; Jobs and tokens stay.
CrashAPI ==
  LET dying == {r \in Rounds : round[r] \in {"running", "persisted"}} IN
  /\ dying # {}
  /\ round' = [r \in Rounds |-> IF r \in dying THEN "lost" ELSE round[r]]
  /\ age' = [r \in Rounds |-> IF r \in dying THEN 0 ELSE age[r]]
  /\ pc' = [c \in Calls |-> IF RoundOf[c] \in dying THEN "done" ELSE pc[c]]
  /\ tries' = [c \in Calls |-> IF RoundOf[c] \in dying THEN 0 ELSE tries[c]]
  /\ UNCHANGED <<result, token, worker, job, clock>>

-----------------------------------------------------------------------------
(* A scanner call.  Once CreateJob is reached the deferred DeleteJob runs  *)
(* on every way out.                                                       *)

TokenTTLOfWorker == WorkerLimit
TokenTTL == Deadline + Grace

Goto(c, next)  == pc' = [pc EXCEPT ![c] = next]
Counts(c, n)   == tries' = [tries EXCEPT ![c] = n]
Return(c, res) == result' = [result EXCEPT ![c] = res]

Mint(c) ==
  /\ pc[c] = "mint"
  /\ \/ /\ life' = [life EXCEPT ![c] = TokenTTL]
        /\ Goto(c, "create") /\ Counts(c, 0) /\ UNCHANGED result
     \/ /\ IF tries[c] + 1 < MintAttempts
           THEN Counts(c, tries[c] + 1) /\ UNCHANGED <<pc, result>>
           ELSE Counts(c, 0) /\ Goto(c, "done") /\ Return(c, "error")
        /\ UNCHANGED life
  /\ UNCHANGED <<round, age, used, worker, job, clock>>

\* The Job's activeDeadlineSeconds.
ActiveDeadlineLost == ScanTimeout + 1
ActiveDeadline == Deadline

\* The Job controller makes the pod; BackoffLimit 0, so there is only one.
Launch(c) ==
  /\ job' = [job EXCEPT ![c] = "active"] /\ clock' = [clock EXCEPT ![c] = 0]
  /\ pod' = [pod EXCEPT ![c] = "scan"]

\* The request can succeed, be refused, take effect without an answer, or
\* still be under way when the caller has given up on it.
Create(c) ==
  /\ pc[c] = "create"
  /\ \/ /\ ~Expired(c) /\ Launch(c) /\ Goto(c, "poll") /\ UNCHANGED result
     \/ /\ Launch(c) /\ Goto(c, "delete") /\ Return(c, "error")
     \/ /\ \E j \in {"absent", "asked"} : job' = [job EXCEPT ![c] = j]
        /\ Goto(c, "delete") /\ Return(c, "error") /\ UNCHANGED <<clock, pod>>
  /\ UNCHANGED <<round, age, tries, token, todo, log>>

\* A request still under way arrives, or never does.
Admit(c) ==
  /\ job[c] = "asked"
  /\ \/ Launch(c)
     \/ job' = [job EXCEPT ![c] = "absent"] /\ UNCHANGED <<clock, pod>>
  /\ UNCHANGED <<round, age, caller, token, todo, log>>

\* waitForJob: what one status check finds, and the sleep after it.
StatusFails(c) ==
  IF tries[c] + 1 < MaxErrors
  THEN Counts(c, tries[c] + 1) /\ Goto(c, "sleep") /\ UNCHANGED result
  ELSE Counts(c, 0) /\ Goto(c, "delete") /\ Return(c, "error")

Poll(c) ==
  /\ pc[c] = "poll" /\ ~Expired(c)
  /\ \/ StatusFails(c)
     \/ /\ job[c] = "failed" /\ Counts(c, 0)
        /\ Goto(c, "delete") /\ Return(c, "error")
     \/ /\ job[c] = "complete" /\ Counts(c, 0)
        /\ Goto(c, "find") /\ UNCHANGED result
     \/ /\ job[c] = "active" /\ Counts(c, 0)
        /\ Goto(c, "sleep") /\ UNCHANGED result
  /\ UNCHANGED <<round, age, token, worker, job, clock>>

TimeOutNever(c) == FALSE /\ UNCHANGED vars
TimeOut(c) ==
  /\ pc[c] \in {"poll", "sleep"} /\ Expired(c)
  /\ Counts(c, 0) /\ Goto(c, "delete") /\ Return(c, "timeout")
  /\ UNCHANGED <<round, age, token, worker, job, clock>>

\* FindPodForJob: a pod that is gone, with its node or its Job, is an error.
FindPod(c) ==
  /\ pc[c] = "find"
  /\ \/ pod[c] # "gone" /\ Goto(c, "logs") /\ UNCHANGED result
     \/ Goto(c, "delete") /\ Return(c, "error")
  /\ UNCHANGED <<round, age, tries, token, worker, job, clock>>

\* ExtractWorkerResult: only a result line, the last one, is a result; and
\* malcontent's is the JSON report in its output.
ExtractedLeniently(c) == IF log[c] = "noise" THEN "findings" ELSE log[c]
Extracted(c) == log[c]

ReadLogs(c) ==
  /\ pc[c] = "logs"
  /\ \/ Extracted(c) = "findings" /\ Return(c, "findings")
     \/ Return(c, "error")
  /\ Goto(c, "delete")
  /\ UNCHANGED <<round, age, tries, token, worker, job, clock>>

\* The answer of DeleteJob is ignored; deleting what is not there succeeds,
\* be it that its creation is still under way.
DeleteJob(c) ==
  /\ pc[c] = "delete" /\ Goto(c, "done")
  /\ \/ /\ job[c] \in {"active", "complete", "failed"}
        /\ job' = [job EXCEPT ![c] = "deleted"] /\ clock' = [clock EXCEPT ![c] = 0]
     \/ UNCHANGED <<job, clock>>
  /\ UNCHANGED <<round, age, tries, result, token, worker>>

JobSteps(c) ==
  Create(c) \/ Poll(c) \/ TimeOut(c) \/ FindPod(c) \/ ReadLogs(c) \/ DeleteJob(c)

TrivyStep(c)      == Tool[c] = "trivy" /\ (Mint(c) \/ JobSteps(c))
GrypeStep(c)      == Tool[c] = "grype" /\ (Mint(c) \/ JobSteps(c))
UnpackerStep(c)   == Tool[c] = "unpacker" /\ JobSteps(c)
MalcontentStep(c) == Tool[c] = "malcontent" /\ JobSteps(c)

CallStep(c) == TrivyStep(c) \/ GrypeStep(c) \/ UnpackerStep(c) \/ MalcontentStep(c)

-----------------------------------------------------------------------------
(* The worker in the pod, and monitor-api's side of its requests.          *)

\* ConsumeScanToken: one UPDATE checks the token and spends the grant.
Granted(c, kind) == life[c] > 0 /\ kind \notin used[c]
Spend(c, kind) ==
  used' = IF Granted(c, kind) THEN [used EXCEPT ![c] = @ \cup {kind}] ELSE used

Exit(c, line) ==
  /\ pod' = [pod EXCEPT ![c] = "exit"] /\ log' = [log EXCEPT ![c] = line]

InTime(c) == clock[c] < WorkerLimit

\* GenerateImageDocuments: each conversion of the report may fail by itself.
Generated == SUBSET Docs

\* UploadDocument: one attempt, while time is left; it may not arrive.
Upload(c, doc) == UNCHANGED used \/ (InTime(c) /\ Spend(c, doc))

\* fetchStoredSBOM spends the grant "read"; whether the document comes back
\* is another matter.
FetchStoredSBOM(c) == InTime(c) /\ Granted(c, "read") /\ Spend(c, "read")

\* The scan fails, or finds something; image mode then generates documents
\* while time is left.  malcontent's own process is
\* the worker: it has no timeout and no way to report an error.
WorkerScans(c) ==
  /\ pod[c] = "scan" /\ ~Reads(c)
  /\ \/ /\ InTime(c) /\ TrivySends(c)
        /\ \E docs \in Generated : todo' = [todo EXCEPT ![c] = docs]
        /\ pod' = [pod EXCEPT ![c] = "post"] /\ UNCHANGED log
     \/ /\ ~TrivySends(c) /\ (InTime(c) \/ Tool[c] = "malcontent")
        /\ Exit(c, "findings") /\ UNCHANGED todo
     \/ Tool[c] # "malcontent" /\ Exit(c, "error") /\ UNCHANGED todo
  /\ UNCHANGED <<round, age, caller, token, job, clock>>

\* Re-evaluation: the stored SBOM first, for the grant "read".
WorkerReads(c) ==
  /\ pod[c] = "scan" /\ Reads(c)
  /\ \/ Spend(c, "read") /\ Exit(c, "error")
     \/ UNCHANGED used /\ Exit(c, "error")
     \/ FetchStoredSBOM(c) /\ Exit(c, "findings")
  /\ UNCHANGED <<round, age, caller, life, todo, job, clock>>

\* One attempt per document; a failed one is logged and forgotten.
Post(c, doc) ==
  /\ pod[c] = "post" /\ doc \in todo[c]
  /\ todo' = [todo EXCEPT ![c] = @ \ {doc}]
  /\ Upload(c, doc)
  /\ UNCHANGED <<round, age, caller, life, pod, log, job, clock>>

\* The result line is the last thing the worker prints.
Tell(c) ==
  /\ pod[c] = "post" /\ todo[c] = {}
  /\ Exit(c, "findings")
  /\ UNCHANGED <<round, age, caller, token, todo, job, clock>>

-----------------------------------------------------------------------------
(* Kubernetes.                                                             *)

\* The pod and its log go.
Vanish(c) ==
  /\ pod' = [pod EXCEPT ![c] = "gone"] /\ log' = [log EXCEPT ![c] = "noise"]
  /\ todo' = [todo EXCEPT ![c] = {}]

\* Out of memory or disk, evicted, its node lost, or its Job deleted; what
\* has finished stays until its Job was told.
Die(c) ==
  /\ pod[c] \in {"scan", "post"} \/ (pod[c] = "exit" /\ job[c] # "active")
  /\ Vanish(c)
  /\ UNCHANGED <<round, age, caller, token, job, clock>>

Conclude(c) ==
  /\ job[c] = "active"
  /\ \/ pod[c] = "exit" /\ job' = [job EXCEPT ![c] = "complete"]
     \/ pod[c] = "gone" /\ job' = [job EXCEPT ![c] = "failed"]
  /\ clock' = [clock EXCEPT ![c] = 0]
  /\ UNCHANGED <<round, age, caller, token, worker>>

\* Past its deadline the Job fails and its pod is removed.
Overdue(c) ==
  /\ job[c] = "active" /\ clock[c] >= ActiveDeadline
  /\ job' = [job EXCEPT ![c] = "failed"] /\ clock' = [clock EXCEPT ![c] = 0]
  /\ Vanish(c)
  /\ UNCHANGED <<round, age, caller, token>>

\* ttlSecondsAfterFinished: a Job that nobody deleted.
CleanNever(c) == FALSE /\ UNCHANGED vars
Clean(c) ==
  /\ job[c] \in {"complete", "failed"} /\ clock[c] >= Retained
  /\ job' = [job EXCEPT ![c] = "deleted"] /\ clock' = [clock EXCEPT ![c] = 0]
  /\ UNCHANGED <<round, age, caller, token, worker>>

Cluster(c) == Conclude(c) \/ Overdue(c) \/ Clean(c)

\* Time passes when every call sleeps between two checks, or is over, and
\* no round is between its calls and its end; the deadlines are kept.
ClockCap(c) == IF job[c] = "active" THEN ActiveDeadline
               ELSE IF job[c] \in {"complete", "failed"} THEN Retained ELSE clock[c]

Tick ==
  /\ \A c \in Calls : pc[c] \in {"idle", "sleep", "done"}
  /\ \A c \in Calls : pc[c] = "sleep" => ~Expired(c)
  /\ \A c \in Calls : job[c] = "active" => clock[c] < ActiveDeadline
  /\ \A r \in Rounds : round[r] # "persisted" /\ (round[r] = "running" => ~AllReturned(r))
  /\ pc' = [c \in Calls |-> IF pc[c] = "sleep" THEN "poll" ELSE pc[c]]
  /\ age' = [r \in Rounds |-> IF round[r] = "running" THEN age[r] + 1 ELSE age[r]]
  /\ clock' = [c \in Calls |-> IF clock[c] < ClockCap(c) THEN clock[c] + 1 ELSE clock[c]]
  /\ life' = [c \in Calls |-> IF life[c] > 0 THEN life[c] - 1 ELSE 0]
  /\ used' = [c \in Calls |-> IF life[c] > 1 THEN used[c] ELSE {}]
  /\ UNCHANGED <<round, tries, result, worker, job>>

Next ==
  \/ Tick \/ CrashAPI
  \/ \E r \in Rounds : StartRound(r) \/ Persist(r) \/ Revoke(r)
  \/ \E c \in Calls :
       \/ CallStep(c) \/ Admit(c) \/ Cluster(c)
       \/ WorkerScans(c) \/ WorkerReads(c) \/ Tell(c) \/ Die(c)
       \/ \E doc \in Docs : Post(c, doc)

Spec == Init /\ [][Next]_vars

-----------------------------------------------------------------------------
(* Properties.                                                             *)

TypeOK ==
  /\ round \in [Rounds -> {"idle", "running", "persisted", "over", "unrevoked", "lost"}]
  /\ age \in [Rounds -> Nat]
  /\ pc \in [Calls -> {"idle", "mint", "create", "poll", "sleep", "find", "logs", "delete", "done"}]
  /\ tries \in [Calls -> Nat]
  /\ result \in [Calls -> {"none", "findings", "error", "timeout"}]
  /\ life \in [Calls -> 0..TokenTTL] /\ used \in [Calls -> SUBSET (Docs \cup {"read"})]
  /\ todo \in [Calls -> SUBSET Docs]
  /\ job \in [Calls -> {"absent", "asked", "active", "complete", "failed", "deleted"}]
  /\ clock \in [Calls -> Nat]
  /\ pod \in [Calls -> {"none", "scan", "post", "exit", "gone"}]
  /\ log \in [Calls -> {"noise", "error", "findings"}]

\* A call returns findings only when its own worker has finished its scan
\* and sent what it had to send: no lost answer, dead pod, expired deadline
\* or late Job turns into an empty report, which the merge would take for
\* "everything is fixed".
ReturnsWhole ==
  \A c \in Calls : result[c] = "none" /\ result'[c] = "findings" =>
    log[c] = "findings" /\ todo[c] = {} /\ job[c] # "failed"
FindingsAreWhole == [][ReturnsWhole]_vars

\* Nothing that a round minted outlives it, once it could revoke.
CredentialsEndWithRound ==
  \A c \in Calls : round[RoundOf[c]] = "over" => life[c] = 0

\* A stuck Job is killed before the round gives up on it: a round times out
\* only when it could not ask (main.go: the check of the two timeouts).
TimesOutUnheard ==
  \A c \in Calls : result[c] = "none" /\ result'[c] = "timeout" => tries[c] > 0
KilledBeforeTimeout == [][TimesOutUnheard]_vars

\* Its caller waits for this worker.
Awaited(c) == pc[c] \in {"poll", "sleep"} /\ pod[c] \in {"scan", "post"}

\* As long as its caller waits for it, a worker's token does not expire; it
\* loses it only to the end of an overlapping round of the same artifact.
OnlyOverlapRevokes ==
  \A c \in Calls : Awaited(c) /\ NeedsToken(c) /\ life[c] = 0 =>
    \E r \in Rounds \ {RoundOf[c]} : round[r] = "over"

\* The inductive invariant behind these.  A call is under way only in its
\* round; until it waits for its Job no time has passed; while it waits, its
\* Job is as old as the round, and so is its token, unless it was revoked.
Waiting(c) == pc[c] \in {"poll", "sleep"}
Revoked(c) == \E r \in Rounds \ {RoundOf[c]} : round[r] = "over"

RoundsEncloseCalls ==
  /\ \A r \in Rounds : round[r] = "idle" => age[r] = 0
  /\ \A c \in Calls :
       /\ round[RoundOf[c]] # "running" => pc[c] \in {"idle", "done"}
       /\ round[RoundOf[c]] = "running" => pc[c] # "idle"
       /\ round[RoundOf[c]] = "idle" => pc[c] = "idle"

JobsAreAsOld ==
  \A c \in Calls :
    /\ pc[c] \in {"mint", "create"} => age[RoundOf[c]] = 0
    /\ pc[c] \in {"idle", "mint", "create"} =>
         job[c] = "absent" /\ pod[c] = "none" /\ result[c] = "none"
    /\ pc[c] \in {"idle", "create"} => tries[c] = 0
    /\ job[c] = "active" => clock[c] <= Deadline
    /\ Waiting(c) => job[c] # "asked" /\ result[c] = "none"
    /\ Waiting(c) /\ job[c] = "active" => clock[c] = age[RoundOf[c]]
    /\ pc[c] = "sleep" /\ tries[c] = 0 => age[RoundOf[c]] <= Deadline
    /\ pc[c] = "poll" /\ tries[c] = 0 => age[RoundOf[c]] <= Deadline + 1

PodsFollowJobs ==
  \A c \in Calls :
    /\ log[c] = "findings" => pod[c] = "exit" /\ todo[c] = {}
    /\ pod[c] \in {"none", "scan", "gone"} => log[c] = "noise" /\ todo[c] = {}
    /\ job[c] \in {"absent", "asked"} => pod[c] = "none"
    /\ job[c] = "failed" => pod[c] = "gone"
    /\ job[c] = "complete" => pod[c] \in {"exit", "gone"}
    /\ job[c] = "deleted" /\ Waiting(c) => pod[c] \in {"exit", "gone"}

TokensAreAsOld ==
  \A c \in Calls :
    NeedsToken(c) /\ (pc[c] = "create" \/ Waiting(c)) =>
      life[c] + age[RoundOf[c]] >= TokenTTL \/ Revoked(c)

IInv ==
  TypeOK /\ CredentialsEndWithRound /\ RoundsEncloseCalls /\ JobsAreAsOld
         /\ PodsFollowJobs /\ TokensAreAsOld
=============================================================================
