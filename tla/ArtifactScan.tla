---------------------------- MODULE ArtifactScan ----------------------------
(***************************************************************************)
(* One registered artifact and everything that rewrites it concurrently:   *)
(* full and sbom-only scan rounds (internal/api/scan.go), findings         *)
(* submitted from outside, per-artifact and fleet VEX documents, license   *)
(* evaluation of an uploaded SBOM, risk acceptances, deletion.  Every      *)
(* write is one Store.Update, a transaction that re-reads the row; what a  *)
(* handler decided BEFORE its Update comes from an earlier read, and       *)
(* nothing serialises the handlers of one artifact.  Each round and each   *)
(* request is therefore a process, with one action per access to the       *)
(* store.  Scan slots are module ScanSlots; here an admission may simply   *)
(* be refused.                                                             *)
(***************************************************************************)
EXTENDS Findings

CONSTANTS
  CVE,             \* the ids that live in the "cve" bucket
  License,         \* the ids produced by the license denylist
  Bucket,          \* [Ids -> bucket names]
  Scanners,        \* the scanners registered for the artifact's type
  Reeval,          \* the scanners of an sbom-only re-evaluation
  Covers,          \* [scanner -> the ids it is able to report]
  Affinity,        \* [scanner -> the buckets its failure blocks]
  Documents,       \* the VEX documents a client may upload
  Rounds,          \* scan rounds that may be in flight together
  Clients,         \* requests of other kinds that may be in flight together
  Modes,           \* the scan modes requested, {"full", "sbom-only"} or less
  Requests,        \* the kinds of client requests made
  ReadErrors,      \* whether reading a stored VEX document may fail
  NotifyOnFirstScan, \* whether a first scan's findings are announced too
  MaxStamp,        \* bound: stamped operations of one behaviour
  MaxCrashes       \* bound: rounds and requests lost to a crash

AllModes    == {"full", "sbom-only"}
AllRequests == {"submit", "vex", "fleet", "license", "accept", "delete"}
BucketNames == {Bucket[id] : id \in Ids}

ASSUME ConstantsAssumption ==
  /\ CVE \subseteq Ids /\ License \subseteq Ids /\ Scanners # {}
  /\ DOMAIN Bucket = Ids
  /\ \A id \in Ids : Bucket[id] = "cve" <=> id \in CVE
  /\ Covers \in [Scanners \cup Reeval -> SUBSET (Ids \ License)]
  /\ \A s \in Reeval : Covers[s] \subseteq CVE
  /\ Documents \subseteq [Ids -> Assertions]
  /\ Modes \subseteq AllModes /\ Requests \subseteq AllRequests
  /\ ReadErrors \in BOOLEAN /\ NotifyOnFirstScan \in BOOLEAN
  /\ MaxStamp \in Nat /\ MaxCrashes \in Nat

\* A scanner declares every bucket it writes to, so that its failure blocks
\* them all: what NoFalseFix needs.
Declares(s) == \A id \in Covers[s] : Bucket[id] \in Affinity[s]

VARIABLES
  exists,      \* the artifact's row is in the store
  status,      \* Artifact.Status
  digested,    \* Artifact.Digest is set
  scannedAt,   \* Artifact.LastScanAt
  hasSBOM,     \* an SBOM document is stored
  findings,    \* the five finding buckets
  doc,         \* the stored per-artifact VEX document
  fleet,       \* what the stored fleet documents say about this artifact
  round,       \* local state of every scan round
  client,      \* local state of every other request
  clock,       \* the last stamp handed out
  crashes,     \* rounds and requests lost so far
  present,     \* the findings really there: what a working scanner reports
  notified,    \* how often each id was announced as new
  asserted     \* history: what any uploaded document ever said of an id

stored == <<exists, status, digested, scannedAt, hasSBOM, findings, doc, fleet>>
vars == <<stored, round, client, clock, crashes, present, notified, asserted>>

Statuses == {"registered", "scanning", "scanned", "failed"}

RoundState ==
  [pc       : {"idle", "got", "scanning", "collected", "ready", "done"},
   mode     : AllModes,
   \* the snapshot scanArtifact's Get returned
   snapStatus : Statuses, snapDigested : BOOLEAN, snapScanned : BOOLEAN,
   \* what the round found out before its Update
   found    : SUBSET Ids, fixable : SUBSET Ids, failed : BOOLEAN,
   digested : BOOLEAN, now : Nat, vex : [Ids -> Assertions],
   \* new findings of the updated artifact, to be announced
   news     : SUBSET Ids]

IdleRound ==
  [pc |-> "idle", mode |-> "full",
   snapStatus |-> "registered", snapDigested |-> FALSE, snapScanned |-> FALSE,
   found |-> {}, fixable |-> {}, failed |-> FALSE,
   digested |-> FALSE, now |-> Unset, vex |-> NoStatements, news |-> {}]

ClientState ==
  [pc : {"idle", "submit", "vex", "fleet", "fleet_read", "license"},
   owned : SUBSET Ids, found : SUBSET Ids, now : Nat, vex : [Ids -> Assertions]]

IdleClient == [pc |-> "idle", owned |-> {}, found |-> {}, now |-> Unset,
               vex |-> NoStatements]

TypeOK ==
  /\ exists \in BOOLEAN
  /\ status \in Statuses
  /\ digested \in BOOLEAN
  /\ scannedAt \in Nat
  /\ hasSBOM \in BOOLEAN
  /\ findings \in [Ids -> Finding]
  /\ doc \in [Ids -> Assertions]
  /\ fleet \in [Ids -> Assertions]
  /\ round \in [Rounds -> RoundState]
  /\ client \in [Clients -> ClientState]
  /\ clock \in Nat
  /\ crashes \in Nat
  /\ present \in SUBSET Ids
  /\ notified \in [Ids -> Nat]
  /\ asserted \in [Ids -> SUBSET Assertions]

\* A freshly registered artifact: nothing scanned, no document; its digest
\* may or may not have been resolved at registration.
Init ==
  /\ exists = TRUE
  /\ status = "registered"
  /\ digested \in BOOLEAN
  /\ scannedAt = Unset
  /\ hasSBOM = FALSE
  /\ findings = [id \in Ids |-> Untracked]
  /\ doc = NoStatements
  /\ fleet = NoStatements
  /\ round = [r \in Rounds |-> IdleRound]
  /\ client = [c \in Clients |-> IdleClient]
  /\ clock = 0
  /\ crashes = 0
  /\ present \in SUBSET Ids
  /\ notified = [id \in Ids |-> 0]
  /\ asserted = [id \in Ids |-> {}]


-----------------------------------------------------------------------------
(* Scan rounds: scanArtifact up to Start, then runScan's goroutine.        *)

StampLeft == clock < MaxStamp              \* bound on stamped operations
CrashLeft == crashes < MaxCrashes          \* bound on lost operations

\* What a handler may see of a stored document: an unreadable one is
\* logged and counts as none.
Seen(overlay) == IF ReadErrors THEN {overlay, NoStatements} ELSE {overlay}

Move(r, changes) == round' = [round EXCEPT ![r] = changes]

\* scanArtifact reads the artifact and validates the request against that
\* snapshot.  Nothing here looks at whether a scan is already running.
Get(r, mode) ==
  /\ round[r].pc = "idle"
  /\ exists
  /\ mode = "sbom-only" => hasSBOM /\ Reeval # {}
  /\ Move(r, [IdleRound EXCEPT !.pc = "got", !.mode = mode,
                               !.snapStatus = status,
                               !.snapDigested = digested,
                               !.snapScanned = scannedAt # Unset])
  /\ UNCHANGED <<stored, client, clock, crashes, notified, asserted>>

\* No slot, or the Update that marks it scanning failed: 429 or 500.
Refuse(r) ==
  /\ round[r].pc = "got"
  /\ Move(r, IdleRound)
  /\ UNCHANGED <<stored, client, clock, crashes, notified, asserted>>

Start(r) ==
  /\ round[r].pc = "got"
  /\ exists
  /\ status' = "scanning"
  /\ Move(r, [round[r] EXCEPT !.pc = "scanning"])
  /\ UNCHANGED <<exists, digested, scannedAt, hasSBOM, findings, doc, fleet,
                 client, clock, crashes, notified, asserted>>

RoundScanners(r) == IF round[r].mode = "full" THEN Scanners ELSE Reeval

Reported(scanners) == {id \in present : \E s \in scanners : id \in Covers[s]}

\* The bug blockedBuckets exists to prevent: fix detection is off only when
\* every scanner failed.
FixableUnlessAllFail(r, failing) ==
  {id \in Ids : round[r].mode = "full" /\ failing # RoundScanners(r)}

\* The bug detectFixedFor's sbom-only test exists to prevent.
FixableInAnyMode(r, failing) ==
  {id \in Ids : \A s \in failing : Bucket[id] \notin Affinity[s]}

\* detectFixedFor: a full round may conclude fixed in every bucket that no
\* failing scanner blocks.
Fixable(r, failing) ==
  {id \in Ids : /\ round[r].mode = "full"
                /\ \A s \in failing : Bucket[id] \notin Affinity[s]}

\* A full round looks up a digest its snapshot lacks; the lookup may fail.
Digested(r, resolved) ==
  round[r].snapDigested \/ (round[r].mode = "full" /\ resolved)

\* Every scanner has answered (some of them with an error, and then with
\* part of their findings at most); a missing digest was looked up; the
\* round is stamped and has read the fleet documents.
Collect(r) ==
  /\ round[r].pc = "scanning"
  /\ StampLeft
  /\ \E failing \in SUBSET RoundScanners(r) :
     \E partial \in SUBSET Reported(failing) :
     \E resolved \in BOOLEAN, seen \in Seen(fleet) :
       Move(r, [round[r] EXCEPT
         !.pc = "collected",
         !.found = Reported(RoundScanners(r) \ failing) \cup partial,
         !.fixable = Fixable(r, failing),
         !.failed = failing = RoundScanners(r),
         !.digested = Digested(r, resolved),
         !.now = clock + 1,
         !.vex = seen])
  /\ clock' = clock + 1
  /\ UNCHANGED <<stored, client, crashes, notified, asserted>>

\* vexFor: the per-artifact document over the fleet's; unreadable is none.
ReadDocument(r) ==
  /\ round[r].pc = "collected"
  /\ \E seen \in Seen(doc) :
       Move(r, [round[r] EXCEPT !.pc = "ready",
                                !.vex = Layered(round[r].vex, seen)])
  /\ UNCHANGED <<stored, client, clock, crashes, notified, asserted>>

\* The ids whose findings a round's Update merges: the whole of every
\* bucket but the license evaluator's part, or the cve bucket alone.
RoundOwns(r) == IF round[r].mode = "full" THEN Ids \ License ELSE CVE

\* The bug the test for "scanning" exists to prevent.
VerbatimStatus(r) == round[r].snapStatus

\* The status an sbom-only round leaves: the one in its snapshot.
RestoredStatus(r) ==
  IF round[r].snapStatus = "scanning" THEN "scanned" ELSE round[r].snapStatus

\* A bug: every open finding is announced, whenever it was first seen.
NewsOfAllOpen(r) ==
  {id \in Ids : /\ round[r].snapScanned \/ NotifyOnFirstScan
                /\ findings'[id].status = "open"}

\* The findings of the updated artifact that this round saw first; none
\* if, by its snapshot, this is the artifact's first scan, unless the
\* deployment wants those too.
News(r) ==
  {id \in Ids : /\ round[r].snapScanned \/ NotifyOnFirstScan
                /\ findings'[id].status = "open"
                /\ findings'[id].firstSeen = round[r].now}

\* The round's one Update, and the new findings of what it returned.
Commit(r) ==
  /\ round[r].pc = "ready"
  /\ exists
  /\ findings' = MergePartition(findings, RoundOwns(r), round[r].found,
                                round[r].now, round[r].fixable, round[r].vex)
  /\ IF round[r].mode = "full"
     THEN /\ status' = IF round[r].failed THEN "failed" ELSE "scanned"
          /\ digested' = round[r].digested
          /\ scannedAt' = round[r].now
     ELSE /\ status' = RestoredStatus(r)
          /\ UNCHANGED <<digested, scannedAt>>
  /\ Move(r, [IdleRound EXCEPT !.pc = "done", !.news = News(r)])
  /\ UNCHANGED <<exists, hasSBOM, doc, fleet, client, clock, crashes, notified, asserted>>

\* notifyNewFindings, of the findings Commit noted.
Announce(r) ==
  /\ round[r].pc = "done"
  /\ notified' = [id \in Ids |-> IF id \in round[r].news THEN notified[id] + 1
                                                         ELSE notified[id]]
  /\ Move(r, IdleRound)
  /\ UNCHANGED <<stored, client, clock, crashes, asserted>>

\* The Update returned an error: logged, and the status stays "scanning".
LoseCommit(r) ==
  /\ round[r].pc = "ready"
  /\ exists => CrashLeft
  /\ crashes' = IF exists THEN crashes + 1 ELSE crashes
  /\ Move(r, IdleRound)
  /\ UNCHANGED <<stored, client, clock, notified, asserted>>

\* scanHoldingSlot's recover, in either mode and even after the Update.
Panic(r) ==
  /\ round[r].pc \in {"scanning", "collected", "ready", "done"}
  /\ status' = IF exists THEN "failed" ELSE status
  /\ Move(r, IdleRound)
  /\ UNCHANGED <<exists, digested, scannedAt, hasSBOM, findings, doc, fleet,
                 client, clock, crashes, notified, asserted>>

\* The pod running the round dies.
Crash(r) ==
  /\ round[r].pc # "idle"
  /\ CrashLeft
  /\ crashes' = crashes + 1
  /\ Move(r, IdleRound)
  /\ UNCHANGED <<stored, client, clock, notified, asserted>>

-----------------------------------------------------------------------------
(* The other requests that rewrite the findings.                           *)

Begin(c, pc, owned, found, vex) ==
  /\ client[c].pc = "idle"
  /\ exists
  /\ StampLeft
  /\ clock' = clock + 1
  /\ client' = [client EXCEPT ![c] = [pc |-> pc, owned |-> owned, found |-> found,
                                      now |-> clock + 1, vex |-> vex]]
  /\ UNCHANGED <<round, crashes, notified>>

Finish(c, pc) ==
  /\ client[c].pc = pc
  /\ exists
  /\ client' = [client EXCEPT ![c] = IdleClient]
  /\ UNCHANGED <<exists, digested, hasSBOM, doc, fleet,
                 round, clock, crashes, notified, asserted>>

\* submitFindings: the caller's complete report for one bucket, with the
\* stored document read before the Update.
Submit(c) ==
  /\ "submit" \in Requests
  /\ \E bucket \in BucketNames :
       LET owned == {id \in Ids : Bucket[id] = bucket} IN
       \E found \in SUBSET owned, seen \in Seen(doc) :
         Begin(c, "submit", owned, found, seen)
  /\ UNCHANGED <<stored, asserted>>

ApplySubmission(c) ==
  /\ Finish(c, "submit")
  /\ findings' = MergePartition(findings, client[c].owned, client[c].found,
                                client[c].now, client[c].owned, client[c].vex)
  /\ status' = IF status = "registered" THEN "scanned" ELSE status
  /\ scannedAt' = client[c].now

Record(d) == asserted' = [id \in Ids |-> asserted[id] \cup {d[id]}]

\* uploadVEX: store the document, then apply it to what is on record.
SaveVEX(c) ==
  /\ "vex" \in Requests
  /\ \E d \in Documents : Begin(c, "vex", Ids, {}, d) /\ doc' = d /\ Record(d)
  /\ UNCHANGED <<exists, status, digested, scannedAt, hasSBOM, findings, fleet>>

\* uploadFleetVEX, for a document that names this artifact: newer
\* statements replace older ones id by id.
SaveFleetVEX(c) ==
  /\ "fleet" \in Requests
  /\ \E d \in Documents : Begin(c, "fleet", Ids, {}, d) /\ fleet' = Layered(fleet, d) /\ Record(d)
  /\ UNCHANGED <<exists, status, digested, scannedAt, hasSBOM, findings, doc>>

\* applyFleetVEX lets the per-artifact document win, as read now.
ReadForFleet(c) ==
  /\ client[c].pc = "fleet"
  /\ \E seen \in Seen(doc) :
       client' = [client EXCEPT ![c].pc = "fleet_read",
                                ![c].vex = Layered(client[c].vex, seen)]
  /\ UNCHANGED <<stored, round, clock, crashes, notified, asserted>>

\* The Update of uploadVEX and of applyFleetVEX.
ApplyVEXDocument(c) ==
  /\ \E pc \in {"vex", "fleet_read"} : Finish(c, pc)
  /\ findings' = ApplyDocument(findings, client[c].now, client[c].vex)
  /\ UNCHANGED <<status, scannedAt>>

\* uploadDocument with an SBOM: stored, indexed, and its licenses held
\* against the denylist (any outcome), with the VEX document read first.
IndexSBOM(c) ==
  /\ "license" \in Requests
  /\ \E found \in SUBSET License, seen \in Seen(doc) :
       Begin(c, "license", License, found, seen)
  /\ hasSBOM' = TRUE
  /\ UNCHANGED <<exists, status, digested, scannedAt, findings, doc, fleet, asserted>>

ApplyLicenses(c) ==
  /\ Finish(c, "license")
  /\ findings' = MergePartition(findings, License, client[c].found,
                                client[c].now, License, client[c].vex)
  /\ UNCHANGED <<status, scannedAt>>

\* The request's Update failed, or its pod died.
LoseRequest(c) ==
  /\ client[c].pc # "idle"
  /\ exists => CrashLeft
  /\ crashes' = IF exists THEN crashes + 1 ELSE crashes
  /\ client' = [client EXCEPT ![c] = IdleClient]
  /\ UNCHANGED <<stored, round, clock, notified, asserted>>

\* acceptFinding and revokeFindingAcceptance: one Update each, on any
\* finding on record whatever its status.
SetAcceptance(id, accepted) ==
  /\ "accept" \in Requests
  /\ exists
  /\ Tracked(findings[id])
  /\ findings' = [findings EXCEPT ![id].accepted = accepted]
  /\ UNCHANGED <<exists, status, digested, scannedAt, hasSBOM, doc, fleet,
                 round, client, clock, crashes, notified, asserted>>

\* deleteArtifact: the row and, by cascade, everything hanging off it.
Delete ==
  /\ "delete" \in Requests
  /\ exists
  /\ exists' = FALSE
  /\ findings' = [id \in Ids |-> Untracked]
  /\ doc' = NoStatements
  /\ hasSBOM' = FALSE
  /\ UNCHANGED <<status, digested, scannedAt, fleet,
                 round, client, clock, crashes, notified, asserted>>

-----------------------------------------------------------------------------
RoundNext(r) ==
  \/ \E mode \in Modes : Get(r, mode)
  \/ Refuse(r)
  \/ Start(r)
  \/ Collect(r)
  \/ ReadDocument(r)
  \/ Commit(r)
  \/ Announce(r)
  \/ LoseCommit(r)
  \/ Panic(r)
  \/ Crash(r)

ClientNext(c) ==
  \/ Submit(c)
  \/ ApplySubmission(c)
  \/ SaveVEX(c)
  \/ SaveFleetVEX(c)
  \/ ReadForFleet(c)
  \/ ApplyVEXDocument(c)
  \/ IndexSBOM(c)
  \/ ApplyLicenses(c)
  \/ LoseRequest(c)

Next ==
  /\ UNCHANGED present
  /\ \/ \E r \in Rounds : RoundNext(r)
     \/ \E c \in Clients : ClientNext(c)
     \/ \E id \in Ids, accepted \in BOOLEAN : SetAcceptance(id, accepted)
     \/ Delete

Spec == Init /\ [][Next]_vars

-----------------------------------------------------------------------------
(* Properties.                                                             *)

Commits(r) == round[r].pc = "ready" /\ round'[r].pc = "done"

\* The step turns an open finding into a fixed one on the merge's own
\* conclusion, not on a document's word.
ConcludesFixed(id, vex) ==
  /\ findings[id].status = "open"
  /\ findings'[id].status = "fixed"
  /\ vex[id] # "fixed"

\* The findings keep every promise of the abstract lifecycle, under any
\* interleaving of rounds, submissions, documents, decisions and crashes.
Lifecycle == INSTANCE FindingLifecycle
  WITH exists <- exists, findings <- findings, asserted <- asserted
LifecycleSpec == Lifecycle!Spec

\* Inductive core of the refinement: every document a round or a request
\* holds, and every one stored, was uploaded by somebody; a finding's
\* suppression was asserted by one of them (MergeFindings' trust boundary:
\* a scan or a submission cannot invent a suppression).
OverlaysAreAsserted ==
  \A id \in Ids :
    /\ {doc[id], fleet[id]} \subseteq asserted[id] \cup {"silent"}
    /\ \A r \in Rounds : round[r].vex[id] \in asserted[id] \cup {"silent"}
    /\ \A c \in Clients : client[c].vex[id] \in asserted[id] \cup {"silent"}
    /\ findings[id].status = "not_affected" => "not_affected" \in asserted[id]
    /\ findings[id].justified => findings[id].status \in asserted[id]

\* A full round never concludes "fixed" about a finding that is still
\* there and that one of its scanners is able to report, whichever
\* scanners failed and however partial their output (blockedBuckets).
NoFalseFix ==
  [][\A r \in Rounds : Commits(r) /\ round[r].mode = "full" =>
       \A s \in Scanners : \A id \in Covers[s] \cap present :
         ~ConcludesFixed(id, round[r].vex)]_vars

\* An sbom-only round resolves nothing, whatever it failed to report, and
\* leaves every bucket but "cve" alone (detectFixedFor, scan.go:513-560).
SBOMOnlyIsConservative ==
  [][\A r \in Rounds : Commits(r) /\ round[r].mode = "sbom-only" =>
       \A id \in Ids : /\ ~ConcludesFixed(id, round[r].vex)
                       /\ id \notin CVE => findings'[id] = findings[id]]_vars

\* Once nothing is in flight and nothing was lost to a crash or a store
\* error, no artifact is left "scanning": the sbom-only round's restored
\* snapshot never strands it, even when rounds of both modes overlap.
NotStranded ==
  exists /\ crashes = 0 /\ (\A r \in Rounds : round[r].pc = "idle")
    => status # "scanning"

Quiescent ==
  /\ exists
  /\ \A r \in Rounds : round[r].pc = "idle"
  /\ \A c \in Clients : client[c].pc = "idle"

\* A vulnerability found after a document was uploaded lands suppressed:
\* between requests, no finding is open that the stored document of its
\* artifact suppresses (vex.go, docs/architecture.md:131-134).
DocumentSuppresses ==
  Quiescent => \A id \in Ids : doc[id] \in Suppressing => findings[id].status # "open"

\* The per-artifact statement wins over the fleet's: between requests, no
\* finding stays suppressed as not affected that the artifact's own
\* document calls affected (docs/architecture.md:181-185).
PerArtifactWins ==
  Quiescent => \A id \in Ids : doc[id] = "affected" => findings[id].status # "not_affected"

\* A finding is announced as new at most once, however many rounds report
\* it (notifyNewFindings compares FirstSeenAt with the round's stamp).
AnnouncedOnce == \A id \in Ids : notified[id] <= 1

\* The inductive invariant behind the properties of rounds: what a round
\* or a request carries from its earlier reads to its Update.
CarriedByRound(r) ==
  round[r].pc \in {"collected", "ready"} =>
    /\ round[r].now # Unset
    /\ round[r].mode = "sbom-only" => round[r].fixable = {}
    /\ round[r].mode = "full" =>
         \A s \in Scanners : Declares(s) => \A id \in Covers[s] \cap present :
           id \in round[r].found \/ id \notin round[r].fixable

CarriedByClient(c) == client[c].pc # "idle" => client[c].now # Unset

ScanningMeansRunning ==
  exists /\ crashes = 0 /\ status = "scanning" =>
    \E r \in Rounds : round[r].pc \in {"scanning", "collected", "ready"}

IInv ==
  /\ TypeOK
  /\ OverlaysAreAsserted
  /\ \A id \in Ids : Lifecycle!WellFormed(findings[id])
  /\ \A r \in Rounds : CarriedByRound(r)
  /\ \A c \in Clients : CarriedByClient(c)
  /\ ScanningMeansRunning

\* The one behind AnnouncedOnce, on top of it.  No two rounds carry the
\* same stamp, nobody carries one that the clock has not handed out, and
\* what was announced, or is about to be, is on record under a stamp that
\* no round carries any more.
Carries(r) == round[r].pc \in {"collected", "ready"}

StampsAreDistinct ==
  /\ \A id \in Ids : findings[id].firstSeen <= clock
  /\ \A c \in Clients : client[c].now <= clock
  /\ \A r \in Rounds : round[r].now <= clock
  /\ \A q, r \in Rounds : Carries(q) /\ Carries(r) /\ round[q].now = round[r].now => q = r

Announced(id) == notified[id] > 0 \/ \E r \in Rounds : id \in round[r].news

AnnouncedIsSettled(id) ==
  /\ notified[id] <= 1
  /\ notified[id] = 1 => \A r \in Rounds : id \notin round[r].news
  /\ \A q, r \in Rounds : id \in round[q].news \cap round[r].news => q = r
  /\ exists /\ Announced(id) =>
       /\ Tracked(findings[id])
       /\ \A r \in Rounds : Carries(r) => round[r].now # findings[id].firstSeen

AnnouncementInv == StampsAreDistinct /\ \A id \in Ids : AnnouncedIsSettled(id)

\* When the artifact's document holds: no document replaces another while a
\* handler that has read the old one is yet to make its Update, and no upload
\* is lost between storing its document and applying it.  Rounds and requests
\* may overlap in any other way, and crash anywhere else.
Read(c) == client[c].pc \notin {"idle", "fleet"}

Calm ==
  /\ doc' # doc => /\ \A r \in Rounds : round[r].pc # "ready"
                   /\ \A c \in Clients : ~Read(c)
  /\ exists => \A c \in Clients : client[c].pc = "vex" => ~LoseRequest(c)

\* The inductive invariant behind DocumentSuppresses and PerArtifactWins in
\* a calm system: whoever is about to merge holds what the document says,
\* and the findings follow it unless its upload is still to be applied.
Follows(vex) == \A id \in Ids : doc[id] # "silent" => vex[id] = doc[id]

Obeys(id) == /\ doc[id] \in Suppressing => findings[id].status # "open"
             /\ doc[id] = "affected" => findings[id].status # "not_affected"

Faithful ==
  exists =>
    /\ \A r \in Rounds : round[r].pc = "ready" => Follows(round[r].vex)
    /\ \A c \in Clients : Read(c) => Follows(client[c].vex)
    /\ (\A id \in Ids : Obeys(id)) \/ \E c \in Clients : client[c].pc = "vex"

=============================================================================
