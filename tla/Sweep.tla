------------------------------- MODULE Sweep --------------------------------
(***************************************************************************)
(* The CronJobs of main.go around the API's artifact table: the sweep      *)
(* (runSweepRegistered, and sweepSBOMOnly), which lists artifacts page by  *)
(* page, picks a batch and scans it through POST /scan, and prune, which   *)
(* deletes what nothing has touched for long.  The API side is what those  *)
(* requests do to an artifact's status; what a scan finds is ArtifactScan. *)
(*                                                                         *)
(* concurrencyPolicy is Forbid: one run at a time.  Artifacts are numbered *)
(* in the order of their created_at.  Time is in ticks; only the order of  *)
(* the code's intervals (scan timeout, staleScanningAfter, retention, ...) *)
(* matters to the properties.                                              *)
(***************************************************************************)
EXTENDS Naturals, Sequences, SequencesExt, FiniteSetsExt, Functions

CONSTANTS
  N,              \* artifacts are 1 .. N, oldest registration first
  Images,         \* those of type image: a successful scan stores their SBOM
  Refused,        \* those POST /scan answers with a 4xx or 5xx whenever asked
  Unmirrorable,   \* those whose copy into the registry fails upstream
  Fleet,          \* the status of each when the sweep is switched on
  Settled,        \* those whose source_ref is not empty by then
  Modes,          \* the modes runs are scheduled in: "full", "sbom-only"
  BatchSize, Concurrency, PageSize,
  Slots,          \* scan slots of the API
  CapRetries,     \* sbomReevalCapRetries
  ListAttempts,   \* sweepListAttempts
  ScanTimeout,    \* longest a round takes until it writes its outcome
  StaleAfter,     \* staleScanningAfter
  RescanAfter,    \* SWEEP_RESCAN_STALE_AFTER_DAYS, 0 for off
  MirrorRetry,    \* mirrorRetryInterval
  Backfill,       \* SWEEP_MIRROR_BACKFILL
  Retention,      \* RETENTION_DAYS, 0 for off
  MaxPerRun,      \* RETENTION_MAX_PER_RUN
  MaxClients,     \* bound: requests of other clients
  MaxFaults       \* bound: failed requests, lost writes and crashes

Statuses == {"new", "registered", "scanning", "scanned", "failed", "gone"}

Artifacts == 1..N

ASSUME SweepAssumption ==
  /\ N \in Nat
  /\ Fleet \in [Artifacts -> Statuses]
  /\ \A c \in {PageSize, ListAttempts, MaxPerRun, Concurrency} : c \in Nat \ {0}
  /\ \A c \in {BatchSize, CapRetries, ScanTimeout, StaleAfter, RescanAfter,
               MirrorRetry, Retention, MaxClients, MaxFaults} : c \in Nat
  /\ Backfill \in BOOLEAN /\ Modes \subseteq {"full", "sbom-only"}

VARIABLES
  status,    \* [Artifacts -> Statuses]; "new" before, "gone" after its row
  last,      \* last_scan_at: 0 for NULL, else its rank among those in use
  since,     \* ticks since last_scan_at, saturating
  idle,      \* ticks since updated_at, saturating
  settled,   \* artifacts whose source_ref is not empty
  slot,      \* the round holding each scan slot
  run,       \* the sweep's run: what it is doing
  page,      \* the rows kept of the listing being read, with their last_scan_at
  found,     \* those of the listings before it
  worker,    \* its goroutines
  clients, faults   \* so far

fleet == <<status, last, since, idle, settled>>
lists == <<page, found>>
sweep == <<run, lists, worker>>
vars  == <<fleet, slot, sweep, clients, faults>>

Larger(m, n) == IF m > n THEN m ELSE n
IdleCap  == Larger(StaleAfter, Retention) + 1       \* where idle saturates
SinceCap == IF Backfill \/ RescanAfter > 0 THEN Larger(MirrorRetry, RescanAfter) + 1 ELSE 0

NoRound == [art |-> 0, mode |-> "full", prior |-> "new", age |-> 0]
NoRun   == [phase |-> "idle", mode |-> "full", list |-> 1, offset |-> 0, attempt |-> 1, queue |-> <<>>]
Free    == [at |-> "free", art |-> 0, tries |-> 0]

\* Listings in the order the run asks for them; "scanning" is the reclaim.
Lists(mode) ==
  IF mode = "sbom-only" THEN <<"scanned">>
  ELSE <<"registered", "scanning", "failed">>
       \o (IF Backfill \/ RescanAfter > 0 THEN <<"scanned">> ELSE <<>>)

Rounds(a) == {s \in Slots : slot[s].art = a}

Init ==
  /\ status = Fleet
  /\ last = [a \in Artifacts |-> IF Fleet[a] \in {"scanned", "failed"}
                                 THEN Cardinality({b \in Artifacts : b <= a /\ Fleet[b] \in {"scanned", "failed"}})
                                 ELSE 0]
  /\ since = [a \in Artifacts |-> 0]
  /\ idle = [a \in Artifacts |-> 0]
  /\ settled = Settled
  /\ slot = [s \in Slots |-> NoRound]
  /\ run = NoRun /\ page = <<>> /\ found = <<>>
  /\ worker = [w \in 1..Concurrency |-> Free]
  /\ clients = 0 /\ faults = 0

-----------------------------------------------------------------------------
(* The API.                                                                *)

\* A bug: the status flips without moving updated_at.
StartRoundUntouched(a, mode, s) ==
  /\ slot[s] = NoRound
  /\ slot' = [slot EXCEPT ![s] = [art |-> a, mode |-> mode, prior |-> status[a], age |-> 0]]
  /\ status' = [status EXCEPT ![a] = "scanning"]
  /\ UNCHANGED <<last, since, idle, settled>>

\* POST /scan past its refusals: a slot, the status, and the goroutine.
StartRound(a, mode, s) ==
  /\ slot[s] = NoRound
  /\ slot' = [slot EXCEPT ![s] = [art |-> a, mode |-> mode, prior |-> status[a], age |-> 0]]
  /\ status' = [status EXCEPT ![a] = "scanning"]
  /\ idle' = [idle EXCEPT ![a] = 0]
  /\ UNCHANGED <<last, since, settled>>

\* Timestamps matter by their order only: renumbered 1, 2, ... by rank.
Compact(f, used) == [x \in DOMAIN f |-> Cardinality({t \in used : t <= f[x]})]

\* LastScanAt = now, for full rounds whatever their outcome.  The values
\* the run has already read are kept as they were.
Stamp(a) ==
  LET read == Range(page) \cup Range(found)
      stamped == [last EXCEPT ![a] = 1 + Max(Range(last) \cup read)]
      used == (Range(stamped) \cup read) \ {0}
  IN /\ last' = Compact(stamped, used)
     /\ page' = Compact(page, used) /\ found' = Compact(found, used)
     /\ since' = [since EXCEPT ![a] = 0]

\* What a round leaves its artifact at; an sbom-only round that read
\* "scanning" writes "scanned", any other puts back what it read.
Outcomes(r) ==
  IF r.mode = "full" THEN {"scanned", "failed"}
  ELSE {IF r.prior = "scanning" THEN "scanned" ELSE r.prior}

\* The round's Update and, after a full one, the mirroring that settles
\* source_ref unless the copy failed.
FinishRound(s) ==
  LET r == slot[s] IN
  /\ r # NoRound
  /\ slot' = [slot EXCEPT ![s] = NoRound]
  /\ IF status[r.art] = "gone"
     THEN UNCHANGED <<fleet, lists>>
     ELSE /\ \E o \in Outcomes(r) : status' = [status EXCEPT ![r.art] = o]
          /\ idle' = [idle EXCEPT ![r.art] = 0]
          /\ IF r.mode = "full"
             THEN /\ Stamp(r.art)
                  /\ settled' = settled \cup ({r.art} \ Unmirrorable)
             ELSE UNCHANGED <<last, since, settled, lists>>
  /\ UNCHANGED <<run, worker, clients, faults>>

\* The outcome could not be written: the status stays "scanning".
LoseRound(s) ==
  /\ slot[s] # NoRound /\ faults < MaxFaults
  /\ slot' = [slot EXCEPT ![s] = NoRound]
  /\ faults' = faults + 1
  /\ UNCHANGED <<fleet, sweep, clients>>

\* The API pod restarts: its goroutines are gone (and their slots, once
\* reaped: module ScanSlots).
CrashAPI ==
  /\ faults < MaxFaults /\ \E s \in Slots : slot[s] # NoRound
  /\ slot' = [s \in Slots |-> NoRound]
  /\ faults' = faults + 1
  /\ UNCHANGED <<fleet, sweep, clients>>

\* Other clients: a registration, a scan by hand, and any other Update
\* (a stage, a maintainer, findings), which only counts as activity.
Register(a) ==
  /\ clients < MaxClients /\ status[a] = "new"
  /\ status' = [status EXCEPT ![a] = "registered"]
  /\ idle' = [idle EXCEPT ![a] = 0]
  /\ clients' = clients + 1
  /\ UNCHANGED <<last, since, settled, slot, sweep, faults>>

ScanByHand(a, s) ==
  /\ clients < MaxClients /\ status[a] \notin {"new", "gone"} /\ a \notin Refused
  /\ StartRound(a, "full", s)
  /\ clients' = clients + 1
  /\ UNCHANGED <<sweep, faults>>

Touch(a) ==
  /\ clients < MaxClients /\ status[a] \notin {"new", "gone"} /\ idle[a] > 0
  /\ idle' = [idle EXCEPT ![a] = 0]
  /\ clients' = clients + 1
  /\ UNCHANGED <<status, last, since, settled, slot, sweep, faults>>

\* DeleteOlderThan: at most MaxPerRun of the old, least recently updated
\* first.
OldestFirst(old) ==
  {S \in SUBSET old : /\ Cardinality(S) = IF Cardinality(old) > MaxPerRun THEN MaxPerRun
                                            ELSE Cardinality(old)
                      /\ \A a \in S, b \in old \ S : idle[a] >= idle[b]}

\* runPrune, unless retention is off.
Prune ==
  /\ Retention > 0
  /\ LET old == {a \in Artifacts : status[a] \notin {"new", "gone"} /\ idle[a] > Retention} IN
     /\ old # {}
     /\ \E S \in OldestFirst(old) :
          status' = [a \in Artifacts |-> IF a \in S THEN "gone" ELSE status[a]]
  /\ UNCHANGED <<last, since, idle, settled, slot, sweep, clients, faults>>

\* A round that has reached the scan timeout writes its outcome first.
Tick ==
  /\ \A s \in Slots : slot[s] # NoRound => slot[s].age < ScanTimeout
  /\ slot' = [s \in Slots |-> IF slot[s] = NoRound THEN NoRound ELSE [slot[s] EXCEPT !.age = @ + 1]]
  /\ idle' = [a \in Artifacts |-> IF idle[a] < IdleCap THEN idle[a] + 1 ELSE IdleCap]
  /\ since' = [a \in Artifacts |-> IF since[a] < SinceCap THEN since[a] + 1 ELSE SinceCap]
  /\ UNCHANGED <<status, last, settled, sweep, clients, faults>>

-----------------------------------------------------------------------------
(* A run of the sweep.                                                     *)

StartRun(mode) ==
  /\ run.phase = "idle"
  /\ run' = [NoRun EXCEPT !.phase = "list", !.mode = mode]
  /\ UNCHANGED <<fleet, slot, lists, worker, clients, faults>>

First(q, n) == IF n < Len(q) THEN SubSeq(q, 1, n) ELSE q

\* GET /artifacts?status=...: newest registration first.
Rows(st) == SelectSeq([i \in 1..N |-> N + 1 - i], LAMBDA a : status[a] = st)

\* Which rows of a listing a pass keeps.
Stuck(a)      == idle[a] > StaleAfter
StaleScan(a)  == last[a] # 0 /\ since[a] > RescanAfter
Unmirrored(a) == a \notin settled /\ (last[a] = 0 \/ since[a] >= MirrorRetry)

Wanted(a) ==
  LET list == Lists(run.mode)[run.list] IN
  /\ run.mode = "sbom-only" => a \in Images
  /\ list = "scanning" => Stuck(a)
  /\ list = "scanned" /\ run.mode = "full" =>
       (RescanAfter > 0 /\ StaleScan(a)) \/ (Backfill /\ Unmirrored(a))

\* De-duplicated by id: the first row read of an artifact counts.
FirstOf(f, g) ==
  [a \in DOMAIN f \cup DOMAIN g |-> IF a \in DOMAIN f THEN f[a] ELSE g[a]]

NextList(rows) ==
  /\ run' = [run EXCEPT !.list = @ + 1, !.offset = 0, !.attempt = 1]
  /\ page' = <<>>
  /\ found' = FirstOf(found, rows)

\* One page, by offset, and the end of the listing: an empty page, or as
\* many rows read as the total this page reports.
ListPage ==
  LET rows == Rows(Lists(run.mode)[run.list])
      next == First(SubSeq(rows, run.offset + 1, Len(rows)), PageSize)
      read == FirstOf(page, [a \in {b \in ToSet(next) : Wanted(b)} |-> last[a]])
      offset == run.offset + Len(next)
  IN /\ run.phase = "list" /\ run.list <= Len(Lists(run.mode))
     /\ IF next = <<>> \/ offset >= Len(rows) THEN NextList(read)
        ELSE /\ run' = [run EXCEPT !.offset = offset]
             /\ page' = read /\ UNCHANGED found
     /\ UNCHANGED <<fleet, slot, worker, clients, faults>>

\* A failed page fails the listing.  The first one is retried from its
\* start and then ends the run; the others are gone without.
ListFails ==
  /\ run.phase = "list" /\ run.list <= Len(Lists(run.mode))
  /\ faults < MaxFaults
  /\ faults' = faults + 1
  /\ IF run.list > 1 THEN NextList(<<>>)
     ELSE /\ run' = IF run.attempt < ListAttempts
                    THEN [run EXCEPT !.attempt = @ + 1, !.offset = 0] ELSE NoRun
          /\ page' = <<>> /\ UNCHANGED found
  /\ UNCHANGED <<fleet, slot, worker, clients>>

\* A batch size of 0 is "nothing" to a full sweep and "all" to the other.
Limit(f) ==
  IF run.mode = "sbom-only" /\ BatchSize = 0 THEN Cardinality(DOMAIN f) ELSE BatchSize

\* Two bugs: ordered by registration alone; and a status filter, which
\* drops what the reclaim has listed.
BatchByRegistration(f) ==
  First(SelectSeq([i \in 1..N |-> i], LAMBDA a : a \in DOMAIN f), Limit(f))

BatchOfRegistered(f) ==
  First(SelectSeq([i \in 1..N |-> i], LAMBDA a : a \in DOMAIN f /\ status[a] # "scanning"), Limit(f))

\* pickArtifactsToSweep: least recently scanned first, never scanned before
\* that; then the oldest registration.
Batch(f) ==
  LET Before(a, b) == f[a] < f[b] \/ (f[a] = f[b] /\ a < b)
      Listed(a) == a \in DOMAIN f
  IN First(SortSeq(SelectSeq([i \in 1..N |-> i], Listed), Before), Limit(f))

\* The sbom-only sweep has one worker, the loop itself.
Pick ==
  /\ run.phase = "list" /\ run.list > Len(Lists(run.mode))
  /\ run' = [NoRun EXCEPT !.phase = "scan", !.mode = run.mode, !.queue = Batch(found)]
  /\ page' = <<>> /\ found' = <<>>
  /\ UNCHANGED <<fleet, slot, worker, clients, faults>>

Hired == IF run.mode = "full" THEN 1..Concurrency ELSE {1}

Take(w) ==
  /\ run.phase = "scan" /\ run.queue # <<>>
  /\ w \in Hired /\ worker[w].at = "free"
  /\ worker' = [worker EXCEPT ![w] = [at |-> "post", art |-> Head(run.queue), tries |-> 1]]
  /\ run' = [run EXCEPT !.queue = Tail(@)]
  /\ UNCHANGED <<fleet, slot, lists, clients, faults>>

\* The worker's POST starts a round.
Accepted(w, s) ==
  LET a == worker[w].art IN
  /\ worker[w].at = "post" /\ a \notin Refused /\ status[a] # "gone"
  /\ StartRound(a, run.mode, s)

\* 202: the worker goes on to poll.
Posted(w, s) ==
  /\ Accepted(w, s)
  /\ worker' = [worker EXCEPT ![w].at = "poll"]
  /\ UNCHANGED <<run, lists, clients, faults>>

\* 429: waits what Retry-After says and asks again, or skips the artifact.
Saturated(w) ==
  /\ worker[w].at = "post" /\ worker[w].art \notin Refused /\ status[worker[w].art] # "gone"
  /\ \A s \in Slots : slot[s] # NoRound
  /\ worker' = [worker EXCEPT ![w] = IF @.tries <= CapRetries THEN [@ EXCEPT !.tries = @ + 1] ELSE Free]
  /\ UNCHANGED <<fleet, slot, run, lists, clients, faults>>

\* An artifact that is refused whenever asked for, or no longer there, to
\* the POST or to a poll: counted and left.
Failed(w) ==
  /\ \/ worker[w].at = "post" /\ worker[w].art \in Refused
     \/ worker[w].at # "free" /\ status[worker[w].art] = "gone"
  /\ worker' = [worker EXCEPT ![w] = Free]
  /\ UNCHANGED <<fleet, slot, run, lists, clients, faults>>

\* So is one whose POST or poll fails for a passing reason, whether or not
\* the POST took effect.
LoseAnswer(w) ==
  /\ worker[w].at # "free" /\ faults < MaxFaults
  /\ faults' = faults + 1
  /\ worker' = [worker EXCEPT ![w] = Free]
  /\ \/ UNCHANGED <<fleet, slot>>
     \/ \E s \in Slots : Accepted(w, s)
  /\ UNCHANGED <<run, lists, clients>>

\* waitForScanToFinish sees another status than "scanning".
Polled(w) ==
  /\ worker[w].at = "poll" /\ status[worker[w].art] \notin {"scanning", "gone"}
  /\ worker' = [worker EXCEPT ![w] = Free]
  /\ UNCHANGED <<fleet, slot, run, lists, clients, faults>>

\* A bug: polling ignores the run's context.
NeverOutOfTime == run.phase = "scan" /\ \E w \in Hired : worker[w].tries > 1

\* The run's context expires: the feeder and every worker stop.  It is
\* longer than a listing and a first request; waiting is what exhausts it.
OutOfTime ==
  /\ run.phase = "scan"
  /\ \E w \in Hired : worker[w].at = "poll" \/ worker[w].tries > 1

Stop ==
  /\ run' = NoRun /\ page' = <<>> /\ found' = <<>>
  /\ worker' = [w \in 1..Concurrency |-> Free]

EndRun ==
  /\ \/ OutOfTime
     \/ run.phase = "scan" /\ run.queue = <<>> /\ \A w \in Hired : worker[w].at = "free"
  /\ Stop
  /\ UNCHANGED <<fleet, slot, clients, faults>>

CrashSweep ==
  /\ run.phase # "idle" /\ faults < MaxFaults
  /\ Stop
  /\ faults' = faults + 1
  /\ UNCHANGED <<fleet, slot, clients>>

-----------------------------------------------------------------------------
Working(w) ==
  \/ Take(w) \/ Saturated(w) \/ Failed(w) \/ Polled(w)
  \/ \E s \in Slots : Posted(w, s)

Sweeping ==
  \/ \E mode \in Modes : StartRun(mode)
  \/ ListPage \/ Pick \/ EndRun
  \/ \E w \in 1..Concurrency : Working(w)

Serving == \E s \in Slots : FinishRound(s)

Next ==
  \/ Sweeping \/ Serving \/ Tick \/ Prune
  \/ ListFails \/ CrashSweep \/ CrashAPI
  \/ \E w \in 1..Concurrency : LoseAnswer(w)
  \/ \E s \in Slots : LoseRound(s) \/ \E a \in Artifacts : ScanByHand(a, s)
  \/ \E a \in Artifacts : Register(a) \/ Touch(a)

Spec == Init /\ [][Next]_vars

\* The CronJobs' schedules start every mode again and again; a run's
\* process, the rounds and the clock go on while they can.  Clients, faults
\* and prune owe nothing.
Fairness ==
  /\ WF_vars(Sweeping)
  /\ \A mode \in Modes : SF_vars(StartRun(mode))
  /\ \A s \in Slots : WF_vars(FinishRound(s))
  /\ WF_vars(Tick)

FairSpec == Spec /\ Fairness

-----------------------------------------------------------------------------
(* Properties.                                                             *)

TypeOK ==
  /\ status \in [Artifacts -> Statuses]
  /\ last \in [Artifacts -> Nat]
  /\ since \in [Artifacts -> Nat]
  /\ idle \in [Artifacts -> 0..IdleCap]
  /\ settled \in SUBSET Artifacts
  /\ slot \in [Slots -> {NoRound} \cup [art : Artifacts, mode : {"full", "sbom-only"},
                                        prior : Statuses, age : Nat]]
  /\ run.phase \in {"idle", "list", "scan"} /\ run.mode \in {"full", "sbom-only"}
  /\ \A w \in 1..Concurrency : worker[w].at \in {"free", "post", "poll"}

\* What the reclaim relies on: an artifact's updated_at is never older
\* than the start of a round that is still scanning it.
RoundsAreFresh ==
  \A a \in Artifacts : \A s \in Rounds(a) :
    slot[s].age <= ScanTimeout /\ idle[a] <= slot[s].age

IInv == TypeOK /\ RoundsAreFresh

Known == DOMAIN page \cup DOMAIN found     \* what the run has listed so far

\* The artifact is one that this step adds to the reclaim's list.
Reclaims(a) == run.mode = "full" /\ run.list = 2 /\ a \in Known' /\ a \notin Known

\* The "scanning" pass lists no artifact for another scan while a round that
\* is not older than staleScanningAfter works on it, though updated_at, by
\* which it goes, is written by every request and round (main.go:1922-1941).
OverdueOnly ==
  \A a \in Artifacts : Reclaims(a) => \A s \in Rounds(a) : slot[s].age > StaleAfter

ReclaimsOnlyOverdue == [][OverdueOnly]_vars

\* What the comment on staleScanningAfter promises (main.go:1916-1921): a
\* slow but healthy scan is never reclaimed from under itself.
ReclaimsAbandoned == \A a \in Artifacts : Reclaims(a) => Rounds(a) = {}

NeverReclaimsAlive == [][ReclaimsAbandoned]_vars

\* Prune deletes no artifact that is being scanned (DeleteOlderThan goes by
\* updated_at, which the start of a scan moves).
PrunesUnscanned ==
  \A a \in Artifacts : status[a] # "gone" /\ status'[a] = "gone" => Rounds(a) = {}

PruneSparesScans == [][PrunesUnscanned]_vars

\* No artifact waits for its scan forever, though others fail or are refused
\* every time: the point of "least recently attempted first" (main.go:1733-
\* 1739).  A refused one keeps its NULL last_scan_at and its place at the
\* front, so this holds only of fewer of them than a batch is long.
FewRefused == Cardinality(Refused) < BatchSize

EveryoneIsAttempted ==
  \A a \in Artifacts \ Refused :
    FewRefused /\ status[a] \in {"registered", "failed"}
      ~> status[a] \notin {"registered", "failed"}

\* A scan nothing will finish (a lost goroutine, a lost write) is scanned
\* again: no artifact stays "scanning", under the same bound.
StuckIsReclaimed ==
  \A a \in Artifacts : FewRefused /\ status[a] = "scanning" ~> status[a] # "scanning"

\* Every run of the sweep ends, though it may be polling a scan whose
\* outcome is lost.
RunsEnd == run.phase # "idle" ~> run.phase = "idle"

=============================================================================
