# supply-chain-monitor: TLA+ models and proofs

This directory specifies the parts of `src/services/monitor-api` in which the
order of events decides the outcome: scan rounds that overlap, VEX documents
that arrive in the middle of one, requests that rewrite the same findings, the
lists those findings are kept in, the statements and transactions under all of
them, registrations and copies of artifacts, the sweep that keeps scanning, the
worker Jobs and their credentials, and the cluster-wide cap on concurrent scans.
TLC checks small instances; TLAPS proves the main safety properties for every
value of the constants.

Paths below are relative to `src/services/monitor-api/` unless they start with
`docs/` or `charts/`.

## 1. The system

monitor-api is an HTTP service (several replicas, one PostgreSQL database) that
registers artifacts (images, SBOMs, charts, models, ...), scans them with
pluggable scanners, keeps every finding's history, and answers policy and
search queries. CronJobs run the same binary as a *sweep* (re-scan what is due)
and a *prune*. Scans of untrusted content run in disposable Kubernetes Jobs.

| component | source | state it keeps | operations |
|---|---|---|---|
| finding merge | `internal/artifact/merge.go` | none (pure) | MergeFindings, MergePartition, applyVEX, list helpers |
| scan rounds | `internal/api/scan.go` | artifact status, digest, LastScanAt, five finding buckets; goroutine locals | scanArtifact, runScan, scanHoldingSlot, notifyNewFindings |
| findings requests | `internal/api/findings.go` | findings | submitFindings, acceptFinding, revokeFindingAcceptance |
| VEX | `internal/api/vex.go`, `vexfleet.go` | stored documents, findings | uploadVEX, uploadFleetVEX, vexFor, fleetVEXFor |
| documents, licenses | `internal/api/documents.go` | documents, components, license findings | uploadDocument, indexSBOMComponents, applyLicenseDenylist |
| stages, maintainers | `internal/api/stages.go`, `maintainer.go` | current stage with its history, maintainer | updateStage, updateMaintainer |
| components | `internal/artifact/postgres_components.go`, `model.go` | inventory, history of snapshots | SaveComponents, DiffComponents, the announcement |
| policy | `internal/policy`, `internal/api/policy.go` | none (read at startup) | Load, Evaluate, getPolicy |
| enrichment | `internal/scanner/enrich.go`, `internal/artifact/postgres_ops.go` | table `cve_enrichment` | Refresh, ReplaceEnrichment, Apply |
| scanners | `main.go`, `internal/scanner` | none (built at startup) | which run, what they declare, how errors are classified |
| scan slots | `internal/artifact/postgres_ops.go`, `internal/api/handler.go` | table `scan_slots` | AcquireScanSlots, ReleaseScanSlots |
| store | `internal/artifact/store.go`, `postgres_*.go` | all tables | Update (one transaction), Get, SaveDocument, Delete (cascade), queries |
| registration | `internal/api/artifacts.go` | artifacts | create, bulk create, delete |
| mirroring | `internal/api/mirror.go`, `internal/scanner/mirror.go` | Ref, SourceRef | mirrorArtifact |
| scan tokens | `internal/api/scantoken.go`, `postgres_ops.go` | table of tokens | create, consume, delete |
| worker Jobs | `internal/k8sjob`, `internal/scanner/isolated*.go` | Kubernetes Jobs | create, wait, read, delete |
| sweep, prune | `main.go` | none between runs | list, pick, scan, wait, reclaim; delete |
| rate limit, auth, notifications, HTTP, dashboard, chart | see `PROJECT.json` | | |

**How they interact.** Every handler works on one artifact through
`Store.Update`, a transaction that locks the row, re-reads it, applies a
function and writes it back. Nothing above that level serialises handlers:
`POST /scan` does not look at whether a scan is running, a document may be
uploaded between a round's read of the documents and its Update, and whatever a
handler decided from an *earlier* read may be stale when its Update runs. A
round calls its scanners; an isolated one creates a Job, whose worker talks back
to the API with a token made for it. The sweep is an HTTP client like any other:
it sees the API's status fields and its 429s, nothing more. The slots are the
one cross-replica mutual exclusion, and they bound how many scans run, not how
many touch one artifact. In practice every acquisition asks for the pseudo-kind
`*` first, so all acquisitions queue behind that one advisory lock.

**What is hard.** Overlapping rounds of two modes; reads before an Update;
documents and findings that disagree; reads of several tables with no
transaction around them; a finding that several producers own; a scanner that
fails with part of its findings; a request to Kubernetes that fails after it
took effect; a pod that dies between two steps; rows a dead pod leaves in a
table that caps others; ages compared across clocks; a batch that the same
artifacts fill every night. `PROJECT.json` lists each such place with its line
under `hazards`, with the properties that cover it.

**What makes each component correct.**

* Findings: suppression only by a document's word, and only a document withdraws
  it; a finding that is there is never declared fixed; a first-seen date never
  moves; acceptance is nobody's but the accepter's.
* Rounds: an sbom-only round concludes nothing from silence; nobody is left
  "scanning"; a finding is announced at most once.
* Lists: they agree with the findings seen as a function of ids, nobody's claim
  to a finding is invented or lost, and rankings follow the feeds.
* Store: its transactions look atomic; the policy gate makes nothing up; an
  announcement compares two inventories that existed; evictions keep the newest.
* Policy: waiting never turns a refusal into a pass; a stricter policy passes no
  more; a finding is held against an artifact once.
* Slots: the cap holds, live scans keep their slots, dead ones' come back.
* Workers: a lost answer never reads as an empty report; a credential lasts as
  long as its Job and no longer than its round; no Job stays.
* Sweep: nothing due is starved by what fails every time, what is stuck is
  reclaimed, what is being scanned is not pruned, nor reclaimed before it is
  overdue.
* Registration: what stays registered is not registered again nor refused for
  quota, and the quota's overshoot is bounded.
* Mirroring: the original reference is never lost, the first rewrite stays, the
  backfill converges.

## 2. Modules

| module | models | composes |
|---|---|---|
| `Findings` | one finding, the merge of one finding, VEX application, layering of documents | |
| `FindingLifecycle` | abstract: what any writer may do to the findings of an artifact | `Findings` |
| `ArtifactScan` | one artifact with its rounds and requests, one action per access to the store | `Findings`; implements `FindingLifecycle` |
| `ScannerRegistry` | pure: which scanners are registered for a type, what they report, declare and are capped by | |
| `ScanErrors` | pure: how a scan error is classified, and which reason a failed round records | |
| `MergeLists` | one bucket as the ordered list it is: duplicated ids, titles, attribution, rankings | `Findings`, which it is compared with; `Enrichment` |
| `Enrichment` | pure: what a refresh keeps of the two feeds, and how findings are ranked by them | |
| `ArtifactStore` | abstract: every operation on an artifact happens at once | `Policy` |
| `PgStore` | the statements and transactions behind it, inventories, snapshots, the policy gate | `Policy`, `Components`; implements `ArtifactStore` |
| `Policy` | pure: Evaluate and what Load refuses | |
| `Components` | pure: what differs between two inventories | |
| `Registration` | registrations, single and bulk, against the store, the quota and everything that moves rows | |
| `Mirroring` | copying artifacts into the local registry, and where signatures are looked for | |
| `SlotPool` | abstract: all-or-nothing acquisition, one atomic step | |
| `ScanSlots` | the transactions, locks, reaping, clocks and failures behind it | implements `SlotPool` |
| `Sweep` | the sweep in both modes, its workers, prune, and what their requests do to statuses | |
| `WorkerScan` | the calls for one Job each, its worker, its token, under failures of every kind | |
| `MC...` | values for the constants of the module named after it; `MCScenes`, `MCRegistration`, `MCWorkerScan` and `MCMirroring` join two scenes of one module into a run | `MCArtifactScan`, `MCScanSlots`: `ScannerRegistry`; `MCWorkerScan`: `ScanErrors` |
| `...Proofs` (8) | theorems about the module named first | |

### Findings, FindingLifecycle, ArtifactScan, ScannerRegistry

An artifact's findings are a function from ids to records of status, whether a
justification is carried, first-seen and resolution stamps, and whether a risk
acceptance is carried. `untracked` is "no such finding". Severity, titles and
sources are left out, except that `License` is the set of ids whose source is
the license denylist and `Bucket` gives each id its bucket. `Documents` are
functions from ids to what a document says.

`present` is the set of findings really in the artifact. It is chosen once: a
working scanner reports the ids of `present` it covers, a failing one any part
of them. `asserted` is a history variable: what any document ever said.

Which scanners an artifact has, which ids they cover, the bucket an id is filed
in and the buckets a failure withholds from fix detection are not made up for
the model: `MCArtifactScan` takes them from `ScannerRegistry`, which translates
the registry, `classifyBucket`, the declared affinities, and what survives the
trip from a worker (a finding's category does not). `DeclarationsAssumption`,
which TLC evaluates for every setting, says that every registered scanner but
cosign declares all the buckets its findings are filed in.

A *round* goes `idle -> got -> scanning -> collected -> ready -> done -> idle`:

| action | code |
|---|---|
| `Get` | scanArtifact's `store.Get` and its 4xx/501 checks; the snapshot is kept |
| `Refuse` | slot refused (429), or the first Update failed |
| `Start` | the Update that sets `scanning`; 202 is returned, the goroutine starts |
| `Collect` | every scanner has answered, digest looked up, `now` read, fleet documents read |
| `ReadDocument` | `vexFor`, layered over the fleet's statements |
| `Commit` | the Update: merges, status, digest, LastScanAt |
| `Announce` | notifyNewFindings; `NotifyOnFirstScan` is the deployment's switch |
| `LoseCommit` | the Update returned an error: status stays `scanning` |
| `Panic` | recover: an Update sets `failed` |
| `Crash` | the pod dies |

A *client* is any other request, split the same way: `Submit` and
`ApplySubmission`; `SaveVEX` and `ApplyVEXDocument`; `SaveFleetVEX`,
`ReadForFleet` and `ApplyVEXDocument`; `IndexSBOM` and `ApplyLicenses`.
`SetAcceptance` and `Delete` are single store calls.

### MergeLists, Enrichment

`ArtifactScan` takes an artifact's findings for a function from ids. The code
keeps a list per bucket, and the same id may be reported by two scanners, for
two packages, or twice by one client. `MergeLists` keeps both: `bucket`, moved
by `Coalesce` (CoalesceSameIDSources), `CarrySources` (CarrySourcesForward) and
`Merge` (MergeFindings: records in place first, then what is new, in order of
the reports), and `perId`, moved by `Findings` alone. `FollowsPerId` is what
justifies the function. `Coalesced` says whether the bucket is "cve", the only
one whose reports are coalesced.

The findings carry the rankings `Apply` gives them. `Refresh` is one step (its
CronJob forbids two at a time; the chart's first-install Job is taken to be
over): either download may fail or be refused, and `feeds` remembers what was
last accepted of each. `FlagsFollowFeeds` compares a round's rankings with
them. The lookup and the Update that follows it are one step.

### PgStore, ArtifactStore, Policy, Components

`ArtifactStore` is what the `Store` interface promises for one artifact and
`MemStore` keeps with a mutex. `PgStore` has a label per statement:

| request | steps |
|---|---|
| scan, acceptance, stage or maintainer (`edit`) | `Begin`, `Lock` (FOR UPDATE and the reads), `Rewrite` (UPDATE, DELETE, INSERTs), `Commit` |
| upload of an SBOM | `SaveDocument`; `Clear`, `Insert`, `Evict`, `CommitSave` of the inventory; the license evaluation as an Update; `ReadSnapshots`, `ReadNewer`, `Announce` |
| gate | `ReadRow`, `ReadBucket` twice, `Judge` |
| `Delete` | one statement that cascades, blocked by rows that reference the artifact |
| `Fail` | the connection is lost, a statement fails: the transaction rolls back |

A statement sees what is committed when it starts (READ COMMITTED); rows a save
has inserted keep the artifact's row from being locked FOR UPDATE or deleted.
Two evictions are taken not to wait for each other. Of the other buckets nothing
is known in this module (`KnownAssumption`). `seen`, `saved`, `before` and
`alone` are kept for the properties by no code.

### ScanSlots, SlotPool

One process per scan attempt: `Begin`, `Lock` each kind in sorted order, `Reap`
by age, `Grant` or `Refuse`, `Commit`; then `Release`, or `Leak` when the pod
dies or the delete fails; `Abort` rolls back. `age` is measured by a perfect
clock; a replica's clock may differ by up to `MaxSkew`, so between two ages the
reaper may or must take a row. `Tick` keeps a scan from outliving its timeout
plus final writes (`MaxHold`), which is what the context's deadline enforces.
The counts are those of READ COMMITTED: a transaction sees committed rows, less
the ones it deleted itself. Kinds and caps come from `ScannerRegistry`.

### Sweep

A *run* lists (`ListPage`, `ListFails`; a page is offset and filter over the
current table, its COUNT included), picks a batch (`Pick`) and scans it with its
workers (`Take`, `Posted`, `Saturated`, `Failed`, `LoseAnswer`, `Polled`);
`OutOfTime`, `Stop`, `EndRun` and `CrashSweep` end it. `LoseAnswer` is a POST or a
poll that fails for a passing reason, whether or not the POST started a round. The full sweep lists "registered", "scanning"
older than `StaleAfter` (the reclaim), "failed", and, when switched on, "scanned"
for the mirror backfill and the re-scan by age. On the API's side
`StartRound`, `FinishRound`, `LoseRound` and `CrashAPI` are what a scan does to
an artifact's status and stamps; `Register`, `ScanByHand` and `Touch` are other
clients; `Prune` deletes what nothing has touched for the retention.

Artifacts are numbered in the order of their registration. Time is in ticks;
`last` keeps only the order of the stamps, `since` and `idle` saturate where no
comparison can tell more. The budget of a run is exhausted only while a worker
waits. One run at a time stands for the CronJob's `concurrencyPolicy: Forbid`.

### WorkerScan, ScanErrors

A *call* of an isolated scanner goes `mint -> create -> poll <-> sleep -> find ->
logs -> delete`; any request may fail, with or without effect, and status checks
have their budget of consecutive errors. The *worker* scans, sends its documents
(each spends one grant of the token) or fetches the stored SBOM, and writes its
report as the last line of its log. The *cluster* enforces the Job's deadline
and TTL and may lose pods. `Persist` and `Revoke` end the round; the latter
deletes the tokens of the artifact, those of an overlapping round included.
`CrashAPI` leaves the Jobs behind. A tick is longer than a request and than the
interval between status checks, and shorter than the deadlines.

`ScanErrors` is the table of phrases of `classify.go` and the rank of reasons.
Two assumptions that TLC evaluates: the recorded reason does not depend on the
order of the scanners (`ReasonAssumption`), and which errors of the isolated
scanners the table does not know (`UnknownAssumption`; see section 5).

### Registration

A *requester* goes `idle -> (count) -> entry -> (new) -> ready -> created`, per
entry: `Arrive` (digests resolved, best effort), `Count` (artifactQuota: before
the entries of a batch, after the lookup of a single registration), `Invalid`,
`DuplicateInBatch`, `Lookup` (findDuplicate), `RefuseQuota`, `Create`,
`Record` (the Update with the digest, which may fail), `StoreFails`. Meanwhile
`Mirror`, `Delete` and `MoveTag` move rows and tags, and full scan rounds write
digests: `StartScan` reads the row, `ResolveDigest` looks up a digest that was
missing from what was read (and may get none), `FinishScan` writes what came of
it over whatever the row has by then, so it may take a digest back or replace it;
`LoseScan` is a failed Update. History variables of a request: `known`, the rows
that registered its entries when it arrived and have since (a row that an entry
knows by its digest is dropped when a round changes that digest), and `own`, the
rows it created and on which evidence.
Two requests that both look before either inserts do both insert: the code says
so (`postgres_artifacts.go:566-570`), and no property forbids it.

### Mirroring

A *worker* is a registration or a full scan that ends in mirrorArtifact, with
the snapshot it started from: `Register` or `StartScan`/`FinishScan`, then
`AlreadySettled`, `NothingToCopy`, or `Copy` (`oras copy`, which may exit zero
without the copy having landed), `Verify`, `Rewrite` (the Update, with its guard
evaluated again inside). `GiveUp` is any failure. `ProvenanceRefs` is the order
in which signatures of a row are looked for.

## 3. Runs

| run | question | bounds | distinct states |
|---|---|---|---|
| `scan_rounds` | may two overlapping rounds declare a real finding fixed, announce twice, strand the artifact? and do documents govern when requests do not overlap? | scene "rounds": 2 rounds of either mode, trivy and unpacker, a CVE and a malware finding, 3 stamps, first scans announced too (a superset of what is announced otherwise); scene "serial": 1 request at a time, every kind of document, 4 stamps | 2.3 million |
| `lifecycle` | do the findings follow the lifecycle under every kind of request, unreadable documents, a crash and deletion? does an sbom-only round stay conservative? | 1 round, 1 request at a time, a CVE and a license finding, a suppressing and a retracting document, 3 stamps, 1 crash | 2.3 million |
| `provenance` | expects a violation: section 5 | 1 round at a time, trivy, unpacker and cosign, 2 stamps | |
| `bucket_lists` | does the list agree with the function, is attribution kept, do rankings follow the feeds? | 2 scanners, 2 CVEs of which the feeds know one, one reported twice by one scanner, 3 merges | 217 thousand |
| `store` | do the transactions look atomic, is the gate honest, are announcements about what was there, is the history bounded? | 3 requests on one artifact, in 6 mixes; a full history of 4 snapshots | 146 thousand |
| `slots` | caps, live slots, atomicity; are leaks reaped, do lock waiters get answers? (fairness) | 3 attempts for an image or an SBOM, kinds `*` (cap 2), malcontent (1), trivy (none), 1 failure, skew 1 | 36 thousand |
| `workers` | is a report whole or an error, does a token last, is a stuck Job killed before its round gives up? does every Job go, does every round end? (fairness) | scene "pair": a full round and a re-evaluation of one artifact, one Job each, both with a token; scene "single": a full round with trivy and malcontent, or a round with the unpacker alone | 619 thousand |
| `sweep` | does the reclaim touch what is being scanned before it is overdue? does prune touch it at all? | 3 artifacts, one refused, one that cannot be mirrored; both modes, every pass on, 2 workers, batches and pages of 2, 1 slot, 1 client, 1 fault; a scan takes up to 2 ticks, the reclaim's threshold is 1 | 2.2 million |
| `reclaim` | expects a violation: section 5 | those of `sweep` | |
| `sweep_progress` | is everyone scanned, is what is stuck reclaimed, do runs end? (fairness) | 3 artifacts, one always refused (fewer than a batch is long), one registered while the sweep is at work; full mode, 1 worker, batches and pages of 2, 1 slot, 2 client requests, 1 fault | 58 thousand |
| `registrations` | is anything registered twice, refused for quota though a duplicate, or the quota exceeded by more than the requests in flight may create? | one piece of content, refs that share it or do not resolve, quotas 1 and 2; scene "batches": 2 requests, batches of 1 and 2, 3 rows; scene "scans": 2 requests and a scan round, a batch of 2 alone, 2 rows | 538 thousand |
| `mirrors` | is an origin lost, a signature missed? and does every artifact settle? (fairness) | scene "races": 2 workers, a tag that moves and a local path; scene "backfill": 1 worker, tags that stand still | 153 thousand |

Why the bounds are enough: the interesting interleavings of `ArtifactScan` need
two writers (a round and a round, a round and a request, a request and a
request) and one finding they both touch; a second finding, of another bucket,
is there to see that the wrong one is not touched. Three stamps let a finding be
found, resolved and found again; three merges of a list let one scanner's report
be taken over by the other's and come back. In `store` each mix holds the
requests that write what another reads: two uploads are what evictions and
inventories race over, a third request is what removes or judges the result, and
a history that is already full makes every upload evict. The mixes with `edit`
are for the one record that four kinds of request rewrite. A leaked slot and two
attempts that want the same kinds are what a reaper and a cap of one or two have
to tell apart. Two rounds of one artifact are what revocation by artifact
confuses; two Jobs of one round are what the end of a round waits for; two
mints and two status errors are one more than the failure they forgive. In
`sweep_progress` three artifacts in batches of two are the smallest fleet in
which one that always fails may take the place of another. A batch of two is the
smallest that can name one image twice; with a quota of one, three rows are one
more than the overshoot allows. With one piece of content a round may take a
digest back but not put another in its place; the theorems cover that, too. In
`sweep` a scan that may take longer than the threshold is what the shipped chart
sets, and what shows a reclaim that comes too early. In `mirrors` two workers on one artifact are the
race, and the local path is the case without a copy. The counters that the
program does not bound have named bounds: `MaxStamp` and `RoundStamps` (merges),
`MaxCrashes`, `MaxFailures`, `MaxFaults`, `MaxClients`, `Horizon` (clock reads of
`PgStore`). The intervals (`StaleAfter`, `Deadline`, ...) are the program's own,
one or two ticks long: only their order matters.

Symmetry is used only in runs without liveness. `CHECK_DEADLOCK FALSE` appears
where the system really stops: after a deletion (`lifecycle`), when all requests
are answered (`store`), and when the stamps are used up (`scan_rounds`,
`bucket_lists`, `provenance`).

**Fairness.**

* `slots`: an open transaction proceeds, a scan ends (its context expires), time
  passes, scans keep being requested (the sweep's CronJob): weak fairness. `Lock`
  has strong fairness because PostgreSQL queues the waiters of an advisory lock.
  Reaping happens only inside a later acquisition, so without new requests a
  leaked row stays; that is the code's design and the reason the fairness of
  `Begin` is assumed.
* `mirrors` (scene "backfill"): the sweep scans every registered artifact again
  and again (strong fairness of `StartScan`: it is disabled while the one worker
  is busy), no copy outlasts `mirrorTimeout` (weak fairness of `GiveUp`), and
  each step that is tried again and again succeeds some time (strong fairness of
  the steps of the copy). Nothing is assumed of tags: `BackfillConverges` speaks
  of artifacts that resolve, or need no copy, from some time on.
* `sweep_progress`: a run's process goes on (weak fairness of `Sweeping`), each
  mode is started again and again by its schedule (strong fairness of
  `StartRun`: it is disabled while another run is under way), a round ends (its
  timeout), time passes. Clients, faults and prune owe nothing, and a round may
  fail every time.
* `workers` (scene "single"): the goroutines of the scanners and of the round go on, so do
  the Job controller and the clock (weak fairness of each). A worker may hang for
  ever: the Job's deadline is what ends it.

## 4. Proofs

TLAPS checks these for every value of the constants that satisfies the modules'
assumptions; TLC checked each invariant on the runs before. Every invariant,
every action property and every refinement that a passing run checks is stated
by a theorem; what is left to TLC alone is liveness.

`ScanSlotsProofs`, for any finite set of attempts, any kinds and caps:

* `Invariant` (`Spec => []IInv`). `CapRespected` is not inductive: what a
  transaction counted must stay true until it commits. `IInv` adds that locks
  exclude each other, that a transaction past `Lock` holds the locks of all its
  kinds, that a granted one still has room, and that a reaper only ever picked
  attempts that are over; the last needs `MarginAssumption`.
* `RunningScansKeepSlots`, `CapsHold`, `RefinesPool`.

`ArtifactScanProofs`, for any rounds, requests, scanners, ids and documents:

* `Invariant`: `IInv` adds to the types that findings are well formed (a
  resolution date exactly while fixed, a justification only with a suppressing
  status), that every statement a handler holds was made by some document, that
  a round between `Collect` and `Commit` either found each present finding its
  scanners cover or may not resolve it, and that "scanning" with nothing lost
  means some round is at work.
* `RefinesLifecycle`: every step maps to a step of `FindingLifecycle` or leaves
  it alone. The core is `MergeEvolves`: a case analysis of MergeFindings.
* `Overlays`, `NoneStranded`, `ReevaluationResolvesNothing`.
* `AnnouncesOnce`, by `AnnouncementInv` on top of `IInv`: no two rounds between
  their merge and their end carry the same stamp, no stamp is ahead of the
  clock, and a finding that was announced, or is about to be, is on record
  under a stamp that no round carries any more.
* `DocumentGoverns` and `ArtifactOverFleet` have hypotheses. `~ReadErrors`: the
  stored documents can be read. `[][Calm]_vars`: no document replaces another
  while a handler that has read the old one is yet to make its Update, and no
  upload is lost between being stored and being applied. Rounds and requests
  may overlap, and crash, in every other way. `Faithful` says that whoever is
  about to merge holds what the document says, and that the findings follow it
  unless its upload is still to be applied. Without `Calm` both properties are
  false (section 5): the hypothesis says when a document governs.
* `FixesAreReal` has a hypothesis: every scanner declares the buckets its
  findings are filed in. TLC evaluates that for all registered scanners but
  cosign; with cosign the property is false (section 5).

`PgStoreProofs`, for any requests, mixes, documents and policies:

* `Inductive`: types, and that between its lock and its commit an Update has
  loaded what is still there. Only the holder of the lock writes the row; a
  deletion needs the lock, too.
* `Implements`: the transactions implement `ArtifactStore`. Each `Commit`,
  `SaveDocument` and `Delete` maps to one operation, every other statement to
  none.
* `RetentionIsBounded`, by `RetentionInv`: snapshots have distinct stamps, each
  new one has one upload that took it, and an upload that evicts keeps the
  newest of those it saw. What an eviction could not see was saved by another
  upload, and those are counted by an injection into the uploads.
* `GateAnswersHonestly`, by `HonestyInv`: each part the gate has loaded is that
  part of some artifact it could have seen whole. The heart is a lemma about
  the policy, with no behaviour in it: of an artifact put together from the
  parts of four others, Evaluate says nothing that it does not say of one of
  the four. It needs that a threshold on one bucket never reads another, which
  holds although the license rule takes findings away from bucket "other".
* `AnnouncesRealNews`, by `NewsInv`: between the listing of the snapshots and
  the second read, an upload's pair is still on record or the artifact is gone.
  Were one of the two evicted, there would be `MaxSnapshots` newer ones, each
  taken by a different request in flight: more than there are
  (`RetentionAssumption`).
* `LoneUploadsAreAtomic`, by `AloneInv`: from its first statement to its answer
  an upload that no other overlaps finds what it wrote, since requests of other
  kinds write no inventory and no snapshot, except by deleting the artifact.

The same module proves of the policy itself, for every policy and artifact (no
behaviour):

* `ViolationsStay`: an artifact refused now and left alone is refused later.
* `StricterPassesLess`: adding or tightening a rule never lets an artifact pass
  that did not, though the license rule takes findings away from a threshold.
* `ReportedOnce`: a finding is held against an artifact under one rule.

`MergeListsProofs`, for any scanners, reports, submissions, documents and
feeds, and lists of any length:

* `Inductive`: `Base` (the bucket is a list of records, the table of the feeds
  says what their last accepted copies say) and, together with it, the three
  invariants that need no more: `ListFollowsFunction`, `AttributesHonestly`,
  `RanksByTheFeeds`. `ListFollowsFunction` is what entitles `ArtifactScan` to
  treat findings as a function from ids.
* `OneRecordEach` and `KeepsCorroboration` add the invariant `OnePerId` and a
  hypothesis, `NamesOnce`: every submission names each id once. A client that
  names one twice gets two records (section 5), and then a re-evaluation
  carries forward the sources of the last one only.
* The lemmas say what the list operations return: `CoalesceIs`, `CarryIs`,
  `ApplyIs`, `MergeIs`. Where a proof would take an induction over a list
  (`Max`, `InOrder`, `FlattenSeq`), it takes a least counterexample and refutes
  that.

`SweepProofs`, for any artifacts, workers and batch:

* `Freshness`: no round outlives `ScanTimeout`, and the row of an artifact that
  a round is scanning was touched no earlier than the round's start.
* `ReclaimsAreOverdue` from it, without a hypothesis on the timeout: what the
  reclaim lists while it is being scanned has only rounds older than
  `StaleAfter`. That there are none needs `ScanTimeout <= StaleAfter`, which the
  shipped chart does not keep (section 5). Both speak of the listing: a scan by
  hand between the listing and the sweep's POST still makes two rounds.
* `PruneIsSafe`, under `Retention = 0` or `ScanTimeout <= Retention`.

`WorkerScanProofs`, for any rounds, calls and deadlines:

* `Inductive`: while a call waits, its Job is as old as its round, its token
  has the rest of its lifetime left unless another round's end revoked it, and
  a pod with a whole report has sent every document.
* `CredentialsEnd`, `TokensLast`, `WholeReports`, `KilledFirst`; the last needs
  `TimeoutAssumption`: the scan timeout is above the Jobs' deadline by more
  than one status check.

`MirroringProofs`, for any artifacts, refs, copies and workers:

* `Invariant`: `OriginKept` alone is not inductive, because a worker writes
  what it read long before. `IInv` adds that a snapshot without a source still
  names the artifact's origin, and that what is about to be installed is its
  copy.
* `OriginIsKept`, `SettledStaysSo`, `ProvenanceIsKept`.

`RegistrationProofs`, for any requests, batches, contents, quotas and finitely
many rows:

* `Invariant`: a row in `known` registers the entry until the entry is dealt
  with. Mirroring keeps the old ref as the source; the one Update of a request
  that may change a digest is that of a row whose registration is not over; a
  row that is deleted leaves `known`, and so does one that an entry knows by its
  digest when a round's Update changes that. An entry past the lookup is
  therefore known by no row, and its evidence is new to the batch. A round in
  flight writes to a row that is there.
* `CreatesNothingTwice`, `DuplicatesBeatQuota`, `BatchesCreateOnce`. The first
  two say nothing of a row whose digest a round took back: it is created again,
  or refused for quota (section 5). `BatchesCreateOnce` holds all the same.
* `OvershootIsBounded`, by `QuotaInv`: a request may still create as many rows
  as the quota it counted and the entries it has left allow (`Budget`).
  Counting the rows that exist together with those that are still allowed gives
  a sum which only a request's own count can raise, and which that count leaves
  within the bound.

Assumptions on constants, all named and evaluated by TLC on every run of their
module:

* `ConstantsAssumption` in `ArtifactScan`, `MergeLists` (what scanners and
  clients send are finite lists of well-formed reports), `Mirroring` and
  `Registration` (finitely many requests and rows).
* `SlotsAssumption` and `MarginAssumption` (`MaxHold` and the clocks' skew fit
  in the staleness margin), `SweepAssumption`, and in `WorkerScan`
  `CallsAssumption`, `BoundsAssumption` and `TimeoutAssumption`.
* In `PgStore`: `MixesAssumption`, `NothingAssumption`, `ClockAssumption`;
  `RetentionAssumption` (finitely many requests, and a history longer than the
  requests in flight); `PolicyAssumption` (the policy in force is one that Load
  accepts); `KnownAssumption` (what artifacts look like; of the buckets, which
  are all read alike, only "cve" and "other" have findings); `PastAssumption` (the snapshots there at the start
  are within the limit and have stamps of their own).

Model-checked only: liveness under fairness, which is beyond TLAPS:
`LeaksAreReaped`, `Answered`, `SweepConverges`, `EveryoneIsAttempted`,
`StuckIsReclaimed`, `RunsEnd`, `JobsGo`, `RoundsEnd`.

## 5. Where the code and its texts disagree

Two runs expect a violation; `PROJECT.json` quotes the texts.

| run | what happens |
|---|---|
| `provenance` | `docs/operations.md:1822` and the scanner itself say that cosign's findings land in bucket "other"; they carry no category, so `classifyBucket` files them in "cve". A failed cosign scan blocks fix detection in "other" only: the finding that an image is unsigned is declared fixed |
| `reclaim` | `main.go:1916-1921` puts the reclaim's threshold (20 minutes) above the longest scan, counting with a timeout of 660 s, "so a slow-but-healthy scan is never yanked out from under itself". The chart sets 1320 s (`charts/supply-chain-monitor/values.yaml:1187`), which the start-up check compares with the Jobs' deadline only: the sweep lists for another scan an artifact whose round is alive |

Also seen while modelling. The models contain the behaviour; no property forbids
it, or the property that would is restricted as said.

*Scan rounds*

* An sbom-only round ends by writing back the status it read before its scan
  (`scan.go:705`): a full scan's outcome that was stored meanwhile (`scan.go:682`)
  is overwritten.
* A round that read no digest writes what its own lookup gave, which may be
  nothing (`scan.go:579-594`, `712`): it erases or replaces one that an
  overlapping round, or the registration's own Update, recorded meanwhile, where
  the comment at `scan.go:578` has it stay "same as before this scan". The
  artifact is then registered again as if new, or refused for quota
  (`docs/architecture.md:773` has re-registering stay "an idempotent 409 even at
  the cap").
* The end of a round revokes every token of the artifact (`scan.go:826-831`),
  those of an overlapping round's workers included. `postgres_ops.go:213` speaks
  of a second caller, in a path that reclaims stale scans; there is none.
* `isolated_trivy.go:360` says the artifact keeps its previous status when no
  token could be minted; the round goes on and ends "failed" or "scanned".
* A round that failed still stamps LastScanAt, as does `POST /findings` on an
  artifact that was never scanned: the policy's freshness rule passes both. An
  older round that commits last moves LastScanAt back.
* The lookup of rankings failing is logged as "scan result unaffected"
  (`scan.go:648`); the round's findings then replace ranked ones and the rankings
  of open findings are gone until the next round.
* A scan with a failed scanner still resolves findings of buckets that scanner
  does not declare. `docs/operations.md:1610-1613` reads as if it did not; the
  code decides per bucket.
* "Verification error" is a finding of cosign's, not a scan error, so a round in
  which verification failed resolves a recorded "unsigned".
* All infected files of an image share one id (`unpacker.go:187`): from the second
  scan on they are listed under the last one's name.

*Requests*

* `POST /findings` for bucket "other" resolves what the license denylist reported
  (`findings.go:207`; `merge.go:96-99` keeps the two apart in the other direction).
  A submission that names an id twice leaves two records of it; `OneRecordPerId`
  is about submissions that do not. A submission to bucket "cve" has the
  rankings the client claims replaced by the feeds' own, or by none.
* A document uploaded between a round's read of the documents and its Update
  does not govern what the round discovers, until the next merge; a fleet
  document may override a per-artifact retraction uploaded after it was read.
  Hence `DocumentSuppresses` and `PerArtifactWins` are checked on serial requests,
  and proved for all that overlap in other ways than these (section 4).

*Store and policy*

* Get reads table by table: the gate may pass an artifact that at no single
  moment passed, or that was deleted while it read. `GateIsHonest` says rule by
  rule that nothing is made up.
* `store.go:120` promises that SaveComponents replaces the inventory. Two that
  overlap leave the union of theirs (each DELETE misses the other's rows), and
  the document may be the one's while the inventory is the other's.
* Two saves at the limit may leave more than `MaxComponentSnapshots`, until the
  next one. An empty inventory leaves no snapshot in Postgres, while MemStore
  appends an empty one.
* With overlapping uploads the same package may be announced twice, or never.
* `SaveDocument` does not move UpdatedAt, so prune's clock does not see an upload;
  and its DELETE picks the rows in a subselect (`postgres_ops.go:161-169`), so it may
  take an artifact touched in between. `Prune` is one step.
* `RequireScanWithinDays` times 24 hours overflows for values above some 106,000
  days; `Policy` computes without a limit.

*Scanners, enrichment*

* Cosign has a kind "so cosign can be capped independently" (`sigstore.go:166`),
  but `scanKinds` (`main.go:2158`) does not list it, so no variable caps it. The
  in-process scanners of SBOMs have no kind at all.
* `classify.go:11` calls itself the only place that has to know every error. It
  does not know grype's and malcontent's failure to create their Job, nor
  malcontent's unreadable report; a quoted "unauthorized", for instance
  Kubernetes' own 401, makes an infrastructure error a registry one.
* A KEV catalogue whose entries lack an id is not empty, so it passes the guard
  of `enrich.go:184-188` and clears every flag.

*Sweep*

* `main.go:1733-1739` orders a batch by the last attempt so that a broken artifact
  does not monopolise it. An artifact whose scan is *refused* (a 4xx before
  anything is recorded) keeps a NULL stamp and stays first; as many of them as the
  batch is long starve everyone else. `EveryoneIsAttempted` and
  `StuckIsReclaimed` therefore speak of fewer (`FewRefused`).
* Any Update moves UpdatedAt, hence postpones the reclaim of a lost scan.
* An sbom-only sweep with a batch size takes the same artifacts every time, since
  its rounds do not stamp LastScanAt.
* The page of a listing and its COUNT are two queries; the model takes them as
  one.

*Registration, mirroring*

* `docs/architecture.md:776` bounds the quota's overshoot by the requests in
  flight. A bulk request in flight may create as many rows as its batch or the
  quota, whichever is smaller; `OvershootBounded` states that bound.
* A tag registered again with new content has its copy overwrite the first
  artifact's (`scanner/mirror.go:210`).
* If a tag moves after its digest was recorded, the copy's verification fails on
  every attempt and the artifact is never settled.

## 6. Not modelled, and the plan

`PROJECT.json` lists every component with its status.

Left out for good:

* Rate limiting: arithmetic on elapsed time under one mutex in one process, which
  unit tests reach and nothing else depends on.
* The table of API keys, routes and scopes: read once at startup, a lookup. The
  part of withAuth that concerns scan tokens is in `WorkerScan`.
* Child processes and the parsing of their output: a scanner reports any part of
  what is there, or fails.
* HTTP plumbing, metrics, exports, searches and listings by filter (except the
  sweep's), migrations, the window of scan durations, the delivery of
  notifications: read-only, or no state another component reads.
* The dashboard, the Helm chart and the cluster scripts: configuration. The models
  take from them the CronJobs' `concurrencyPolicy` and the timeouts.

Abstracted in what is modelled, and worth knowing: a fleet document names one
artifact, its fan-out over several is not modelled; the sweep's runs exclude
each other, the primer Job of the chart is not among them; prune is one step;
`MergeLists` takes a lookup and the Update after it as one step, `PgStore` takes
the statements of one Rewrite as one.

What remains, in order:

1. A composition of rounds, slots and sweep: a crashed pod's artifact and its
   slot both come back, in one model.
2. The fan-out of fleet documents over several artifacts.
