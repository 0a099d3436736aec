------------------------------ MODULE PgStore -------------------------------
(***************************************************************************)
(* The operations on one artifact as the statements and transactions they  *)
(* are in Postgres, READ COMMITTED: Update under FOR UPDATE, Get as one     *)
(* query per table, SaveDocument, SaveComponents with its snapshot and its *)
(* eviction, Delete (internal/artifact/postgres_*.go).  They are called by *)
(* a scan round, an acceptance, a stage or maintainer set, an SBOM upload that indexes its components *)
(* and announces the new ones, the policy gate and a deletion.             *)
(*                                                                         *)
(* A transaction's rows become visible when it commits, and a statement    *)
(* sees what is committed when it starts.  The buckets other than "cve"    *)
(* and "other", scan errors and the other columns are left out:            *)
(* the same statements read and write them.                                *)
(***************************************************************************)
EXTENDS Policy, FiniteSets, Sequences

CONSTANTS
  Clients,       \* requests under way
  Mixes,         \* which requests they may be, together
  Lists,         \* the inventories an uploaded SBOM may parse to
  Denied,        \* the packages whose license is denied
  Reports,       \* sets of findings a scan may report in bucket "cve"
  Verdicts,      \* what a scan may learn of provenance, or "unchecked"
  Stages,        \* the pipeline's
  Teams,         \* that may maintain the artifact
  InForce,       \* the policy
  Known,         \* what the artifact may be before any request
  Past,          \* and its snapshots then, [at, packages]
  MaxSnapshots,
  Start,         \* the clock then
  Horizon,       \* bound: no request reads the clock after this
  Nothing        \* no document, no lock holder

Jobs == {"scan", "accept", "edit", "upload", "gate", "delete"}

ASSUME MixesAssumption == Mixes \subseteq [Clients -> Jobs]
ASSUME NothingAssumption == Nothing \notin Clients \cup Lists
\* A snapshot outlives the requests that compare it.
ASSUME RetentionAssumption == /\ IsFiniteSet(Clients) /\ MaxSnapshots \in Nat
                              /\ MaxSnapshots > Cardinality(Clients)
ASSUME ClockAssumption == Start \in Nat /\ Horizon \in Nat /\ Start <= Horizon
ASSUME PolicyAssumption == Loadable(InForce)

Shaped(a) == /\ DOMAIN a = {"unsafe", "scanAt", "provenance", "checkedAt", "findings",
                            "stage", "stages", "team"}
             /\ DOMAIN a.findings = Buckets

\* Of the other buckets nothing is known, and nobody reports any.
ASSUME KnownAssumption == \A a \in Known :
                            /\ Shaped(a)
                            /\ \A b \in Buckets \ {"cve", "other"} : a.findings[b] = {}
ASSUME PastAssumption == /\ IsFiniteSet(Past) /\ Cardinality(Past) <= MaxSnapshots
                         /\ \A s \in Past : /\ s.at \in Nat /\ s.at <= Start
                                            /\ s.packages \in Lists \ {{}}
                         /\ \A s, t \in Past : s.at = t.at => s = t

VARIABLES
  exists, artifact, document,   \* the row with its findings, and the SBOM
  inventory,     \* components: rows [package, by], by the stamp of its save
  history,       \* components_history: snapshots [at, packages]
  locked,        \* who holds the artifact's row FOR UPDATE
  clock,
  job, pc,       \* what each client is, and how far
  stamp,         \* what it read off the clock last
  loaded,        \* the artifact as it has read it
  list,          \* the inventory of the SBOM it uploads
  doomed,        \* the inventory rows its DELETE takes
  fresh,         \* the packages its INSERTs added
  evicted,       \* the snapshots its eviction takes
  pair,          \* stamps of the two snapshots it compares, newer first
  newer,         \* packages of the newer one
  told,          \* what it announced, or the gate's answer
  saved, before, alone, seen    \* kept for the properties, by no code:
     \* every snapshot ever committed; the newest one when an upload began;
     \* whether no other upload overlapped; the artifact while the gate read

stored == <<exists, artifact, document>>
components == <<inventory, history, saved>>
upload == <<list, doomed, fresh, evicted, pair, newer, before, alone>>
vars == <<stored, components, locked, clock, job, pc, stamp, loaded, upload, told, seen>>

C == INSTANCE Components

LicenseFindings(packages) ==
  {[id |-> p.coordinates, severity |-> "medium", status |-> "open",
    until |-> NoTime, license |-> TRUE] : p \in packages \cap Denied}

Store == INSTANCE ArtifactStore
           WITH Reports <- Reports, Verdicts <- Verdicts, Stages <- Stages, Teams <- Teams,
                Denials <- {LicenseFindings(l) : l \in Lists},
                Documents <- Lists, NoDocument <- Nothing, Times <- Start..Horizon,
                exists <- exists, artifact <- artifact, document <- document

\* The artifact as the gate judges it.
Whole(a, d) == [unsafe |-> a.unsafe, scanAt |-> a.scanAt, provenance |-> a.provenance,
                checkedAt |-> a.checkedAt, findings |-> a.findings,
                hasSBOM |-> d # Nothing]

Reading == {"cve", "other", "documents"}

\* The gates that are reading see the artifact change.
Witnessed(a, d) ==
  seen' = [c \in Clients |-> IF pc[c] \in Reading THEN seen[c] \cup {Whole(a, d)}
                                                  ELSE seen[c]]

Newest(n, snapshots) ==
  {s \in snapshots : Cardinality({t \in snapshots : t.at > s.at}) < n}

PackagesAt(at) == UNION {s.packages : s \in {t \in history : t.at = at}}

Goto(c, label) == pc' = [pc EXCEPT ![c] = label]

ReadClock(c) == /\ clock < Horizon
                /\ clock' = clock + 1
                /\ stamp' = [stamp EXCEPT ![c] = clock']

\* Rows a save has inserted and not committed reference the artifact, which
\* keeps its row from being locked FOR UPDATE, or deleted.
Saving(c) == pc[c] \in {"inserted", "trimmed"}
Referenced == \E c \in Clients : Saving(c) /\ list[c] # {}

-----------------------------------------------------------------------------
(* Update, for a scan's outcome, an acceptance, a stage, a maintainer or    *)
(* license findings.                                                       *)

Begin(c) == /\ pc[c] = "start" /\ job[c] \in {"scan", "accept", "edit"}
            /\ ReadClock(c)
            /\ Goto(c, "waiting")
            /\ UNCHANGED <<stored, components, locked, job, loaded, upload, told, seen>>

\* A bug: a plain SELECT.
LockNothing(c) == /\ pc[c] = "waiting"
                  /\ exists
                  /\ ~Referenced
                  /\ locked' = c
                  /\ loaded' = [loaded EXCEPT ![c] = artifact]
                  /\ Goto(c, "locked")
                  /\ UNCHANGED <<stored, components, clock, job, stamp, upload, told, seen>>

\* SELECT ... FOR UPDATE, and the children under the lock.
Lock(c) == /\ pc[c] = "waiting"
           /\ exists
           /\ locked = Nothing
           /\ ~Referenced
           /\ locked' = c
           /\ loaded' = [loaded EXCEPT ![c] = artifact]
           /\ Goto(c, "locked")
           /\ UNCHANGED <<stored, components, clock, job, stamp, upload, told, seen>>

Mutations(c) ==
  CASE job[c] = "scan"   -> Store!Outcomes(loaded[c], stamp[c])
    [] job[c] = "accept" -> Store!Acceptances(loaded[c], stamp[c])
    [] job[c] = "edit"   -> Store!Edits(loaded[c])
    [] job[c] = "upload" -> {Store!Licensed(loaded[c], LicenseFindings(list[c]))}

\* The UPDATE, and every child row deleted and inserted again: nobody else
\* sees any of it.
Rewrite(c) == /\ pc[c] = "locked"
              /\ Goto(c, "rewritten")
              /\ UNCHANGED <<stored, components, locked, clock, job, stamp, loaded, upload,
                             told, seen>>

Commit(c) == /\ pc[c] = "rewritten"
             /\ artifact' \in Mutations(c)
             /\ Witnessed(artifact', document)
             /\ locked' = Nothing
             /\ Goto(c, IF job[c] = "upload" THEN "notify" ELSE "done")
             /\ UNCHANGED <<exists, document, components, clock, job, stamp, loaded, upload,
                            told>>

-----------------------------------------------------------------------------
(* An SBOM arrives: uploadDocument, or a scan's own. *)

Uploading(c) == job[c] = "upload" /\ pc[c] \notin {"start", "done", "failed"}

\* INSERT ... ON CONFLICT DO UPDATE, one statement; only the INSERT checks
\* the foreign key, against a row that nobody has locked.
SaveDocument(c) == /\ pc[c] = "start" /\ job[c] = "upload"
                   /\ exists
                   /\ document # Nothing \/ locked = Nothing
                   /\ document' \in Lists
                   /\ Witnessed(artifact, document')
                   /\ list' = [list EXCEPT ![c] = document']
                   /\ before' = [before EXCEPT ![c] = Newest(1, history)]
                   /\ alone' = [d \in Clients |->
                                  IF d = c THEN ~\E e \in Clients : Uploading(e)
                                  ELSE alone[d] /\ ~Uploading(d)]
                   /\ Goto(c, "index")
                   /\ UNCHANGED <<exists, artifact, components, locked, clock, job, stamp,
                                  loaded, doomed, fresh, evicted, pair, newer, told>>

\* A bug: no DELETE.
ClearNothing(c) == /\ pc[c] = "index"
                   /\ exists
                   /\ Goto(c, "cleared")
                   /\ UNCHANGED <<stored, components, locked, clock, job, stamp, loaded, upload,
                                  told, seen>>

\* SaveComponents: the artifact is there, and the DELETE starts.
Clear(c) == /\ pc[c] = "index"
            /\ exists
            /\ doomed' = [doomed EXCEPT ![c] = inventory]
            /\ Goto(c, "cleared")
            /\ UNCHANGED <<stored, components, locked, clock, job, stamp, loaded, list, fresh,
                           evicted, pair, newer, before, alone, told, seen>>

Packages(inventoryRows) == {r.package : r \in inventoryRows}

\* The DELETE gets its rows, those that are still there, and the INSERTs
\* skip a package that is there already.  Both wait for another save that
\* holds one of the rows, or inserted one of the packages; the first INSERT
\* also waits for whoever locked the artifact.
Insert(c) ==
  LET mine == doomed[c] \cap inventory
  IN /\ pc[c] = "cleared"
     /\ list[c] # {} => exists /\ locked = Nothing
     /\ \A d \in Clients \ {c} : Saving(d) =>
          /\ doomed[d] \cap mine = {}
          /\ (fresh[d] \cup Packages(doomed[d] \cap inventory)) \cap list[c] = {}
     /\ ReadClock(c)
     /\ doomed' = [doomed EXCEPT ![c] = mine]
     /\ fresh' = [fresh EXCEPT ![c] = list[c] \ Packages(inventory \ mine)]
     /\ Goto(c, "inserted")
     /\ UNCHANGED <<stored, components, locked, job, loaded, list, evicted, pair, newer,
                    before, alone, told, seen>>

\* The snapshot the save leaves; an empty inventory leaves none.
Own(c) == IF list[c] = {} THEN {} ELSE {[at |-> stamp[c], packages |-> list[c]]}

\* A bug: the snapshot being written is not yet counted.
EvictFirst(c) == /\ pc[c] = "inserted"
                 /\ evicted' = [evicted EXCEPT ![c] = history \ Newest(MaxSnapshots, history)]
                 /\ Goto(c, "trimmed")
                 /\ UNCHANGED <<stored, components, locked, clock, job, stamp, loaded, list,
                                doomed, fresh, pair, newer, before, alone, told, seen>>

\* All but the newest snapshots it sees, its own among them.
Evict(c) ==
  /\ pc[c] = "inserted"
  /\ evicted' = [evicted EXCEPT ![c] = history \ Newest(MaxSnapshots, history \cup Own(c))]
  /\ Goto(c, "trimmed")
  /\ UNCHANGED <<stored, components, locked, clock, job, stamp, loaded, list, doomed, fresh,
                 pair, newer, before, alone, told, seen>>

\* The license denylist's Update comes next.
CommitSave(c) ==
  /\ pc[c] = "trimmed"
  /\ inventory' = (inventory \ doomed[c])
                     \cup {[package |-> p, by |-> stamp[c]] : p \in fresh[c]}
  /\ history' = (history \ evicted[c]) \cup Own(c)
  /\ saved' = saved \cup Own(c)
  /\ Goto(c, "waiting")
  /\ UNCHANGED <<stored, locked, clock, job, stamp, loaded, upload, told, seen>>

\* notifyNewComponents, one query at a time.
ReadSnapshots(c) ==
  /\ pc[c] = "notify"
  /\ IF Cardinality(history) < 2
       THEN Goto(c, "done") /\ UNCHANGED pair
       ELSE \E s, t \in Newest(2, history) :
              /\ s.at > t.at
              /\ pair' = [pair EXCEPT ![c] = <<s.at, t.at>>]
              /\ Goto(c, "newer")
  /\ UNCHANGED <<stored, components, locked, clock, job, stamp, loaded, list, doomed, fresh,
                 evicted, newer, before, alone, told, seen>>

ReadNewer(c) ==
  /\ pc[c] = "newer"
  /\ newer' = [newer EXCEPT ![c] = PackagesAt(pair[c][1])]
  /\ Goto(c, "older")
  /\ UNCHANGED <<stored, components, locked, clock, job, stamp, loaded, list, doomed, fresh,
                 evicted, pair, before, alone, told, seen>>

\* A bug: the artifact is taken to be there still.
AnnounceBlindly(c) ==
  /\ pc[c] = "older"
  /\ told' = [told EXCEPT ![c] = C!Added(PackagesAt(pair[c][2]), newer[c])]
  /\ Goto(c, "done")
  /\ UNCHANGED <<stored, components, locked, clock, job, stamp, loaded, upload, seen>>

\* The older snapshot, and the artifact for its ref: nothing is announced
\* of one that is gone.
Announce(c) ==
  /\ pc[c] = "older"
  /\ exists
  /\ told' = [told EXCEPT ![c] = C!Added(PackagesAt(pair[c][2]), newer[c])]
  /\ Goto(c, "done")
  /\ UNCHANGED <<stored, components, locked, clock, job, stamp, loaded, upload, seen>>

-----------------------------------------------------------------------------
(* The policy gate: Get reads one table after the other, outside any       *)
(* transaction, and Evaluate judges what it read.                          *)

Unread == [b \in Buckets |-> {}]

ReadRow(c) ==
  /\ pc[c] = "start" /\ job[c] = "gate"
  /\ exists
  /\ loaded' = [loaded EXCEPT ![c] = [artifact EXCEPT !.findings = Unread]]
  /\ seen' = [seen EXCEPT ![c] = {Whole(artifact, document)}]
  /\ Goto(c, "cve")
  /\ UNCHANGED <<stored, components, locked, clock, job, stamp, upload, told>>

\* A bug: the query forgets the bucket.
RowsOfAll(bucket) == IF exists THEN UNION {artifact.findings[b] : b \in Buckets} ELSE {}

Rows(bucket) == IF exists THEN artifact.findings[bucket] ELSE {}

ReadBucket(c, bucket, next) ==
  /\ pc[c] = bucket
  /\ loaded' = [loaded EXCEPT ![c].findings[bucket] = Rows(bucket)]
  /\ Goto(c, next)
  /\ UNCHANGED <<stored, components, locked, clock, job, stamp, upload, told, seen>>

Judge(c) ==
  /\ pc[c] = "documents"
  /\ ReadClock(c)
  /\ told' = [told EXCEPT ![c] = Evaluate(InForce, Whole(loaded[c], document), clock')]
  /\ Goto(c, "done")
  /\ UNCHANGED <<stored, components, locked, job, loaded, upload, seen>>

-----------------------------------------------------------------------------
\* One DELETE, that cascades to every other table.
Delete(c) == /\ pc[c] = "start" /\ job[c] = "delete"
             /\ exists
             /\ locked = Nothing
             /\ ~Referenced
             /\ exists' = FALSE
             /\ document' = Nothing
             /\ inventory' = {}
             /\ history' = {}
             /\ Goto(c, "done")
             /\ UNCHANGED <<artifact, saved, locked, clock, job, stamp, loaded, upload, told,
                            seen>>

\* A statement fails (the artifact is gone, the database unreachable, the
\* transaction a deadlock's victim) or the process dies: what was not
\* committed is rolled back.  A failed license Update is only logged, and
\* the announcement still follows.  (A request that fails before it did
\* anything is one that never goes on.)
Fail(c) == /\ pc[c] \notin {"start", "done", "failed"} \cup Reading
           /\ \/ Goto(c, "failed")
              \/ /\ job[c] = "upload" /\ pc[c] \in {"waiting", "locked", "rewritten"}
                 /\ Goto(c, "notify")
           /\ locked' = IF locked = c THEN Nothing ELSE locked
           /\ UNCHANGED <<stored, components, clock, job, stamp, loaded, upload, told, seen>>

Init == /\ exists = TRUE
        /\ artifact \in Known
        /\ document \in {Nothing} \cup {s.packages : s \in Newest(1, Past)}
        /\ inventory = {[package |-> p, by |-> 0] : p \in UNION {s.packages : s \in Newest(1, Past)}}
        /\ history = Past
        /\ saved = Past
        /\ locked = Nothing
        /\ clock = Start
        /\ job \in Mixes
        /\ pc = [c \in Clients |-> "start"]
        /\ stamp = [c \in Clients |-> 0]
        /\ loaded = [c \in Clients |-> artifact]
        /\ list = [c \in Clients |-> {}]
        /\ doomed = [c \in Clients |-> {}]
        /\ fresh = [c \in Clients |-> {}]
        /\ evicted = [c \in Clients |-> {}]
        /\ pair = [c \in Clients |-> <<0, 0>>]
        /\ newer = [c \in Clients |-> {}]
        /\ told = [c \in Clients |-> {}]
        /\ before = [c \in Clients |-> {}]
        /\ alone = [c \in Clients |-> FALSE]
        /\ seen = [c \in Clients |-> {}]

Step(c) == \/ Begin(c) \/ Lock(c) \/ Rewrite(c) \/ Commit(c)
           \/ SaveDocument(c) \/ Clear(c) \/ Insert(c) \/ Evict(c) \/ CommitSave(c)
           \/ ReadSnapshots(c) \/ ReadNewer(c) \/ Announce(c)
           \/ ReadRow(c) \/ ReadBucket(c, "cve", "other")
           \/ ReadBucket(c, "other", "documents") \/ Judge(c)
           \/ Delete(c) \/ Fail(c)

Next == \E c \in Clients : Step(c)

Spec == Init /\ [][Next]_vars

-----------------------------------------------------------------------------
\* The transactions look atomic: the artifact, its findings and its document
\* change only as the operations of ArtifactStore change them, each from the
\* value the last one left, whatever runs at the same time or fails midway.
StoreSpec == Store!Spec

\* The gate reads an artifact table by table while scans, acceptances and
\* uploads go on, but it makes nothing up: each violation it reports was
\* there at some moment of the request, and each rule it reports nothing
\* about was kept at some moment.  (Not all at the same moment; and nothing
\* is said of an artifact deleted meanwhile.)
Broken(violations, rule, bucket) ==
  \E v \in violations : v.rule = rule /\ v.bucket = bucket

GateIsHonest ==
  \A c \in Clients : job[c] = "gate" /\ pc[c] = "done" /\ exists =>
    LET Answers == {Evaluate(InForce, a, stamp[c]) : a \in seen[c]}
        Rules == {v.rule : v \in UNION Answers}
    IN /\ told[c] \subseteq UNION Answers
       /\ \A r \in Rules, b \in Buckets \cup {""} :
            ~Broken(told[c], r, b) => \E x \in Answers : ~Broken(x, r, b)

\* An upload that no other overlapped does to the inventory, the snapshots
\* and the announcement what MemStore does under its mutex, whatever scans
\* and failed uploads happen around it: the inventory and the newest
\* snapshot are its list, and what it announces is what the snapshot before
\* it did not have.
AloneAsMemStore ==
  \A c \in Clients : job[c] = "upload" /\ alone[c] /\ list[c] # {} /\ exists =>
    /\ pc[c] \in {"waiting", "locked", "rewritten", "notify", "newer", "older"} =>
         /\ document = list[c]
         /\ Packages(inventory) = list[c]
         /\ {s.packages : s \in Newest(1, history)} = {list[c]}
    /\ pc[c] = "done" =>
         told[c] = UNION {C!Added(s.packages, list[c]) : s \in before[c]}

\* Whatever uploads, evictions and deletions happen between its queries, an
\* announcement compares two snapshots that were really taken, the newer one
\* no older than the upload's own: no package is announced as new because
\* the snapshot it was compared with is gone.
NewsAreNew ==
  \A c \in Clients : job[c] = "upload" /\ told[c] # {} =>
    \E s, t \in saved : /\ s.at > t.at
                        /\ list[c] # {} => s.at >= stamp[c]
                        /\ told[c] = C!Added(t.packages, s.packages)

\* Evictions that do not see each other's snapshots still keep the newest
\* MaxSnapshots ever committed, and at most one more for each upload beyond
\* the first that could run at the same time.
RetentionBounded ==
  exists => /\ Newest(MaxSnapshots, saved) \subseteq history
            /\ Cardinality(history) <= MaxSnapshots \/
                 Cardinality(history) < MaxSnapshots
                                          + Cardinality({c \in Clients : job[c] = "upload"})
=============================================================================
