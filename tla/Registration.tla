---------------------------- MODULE Registration ----------------------------
(***************************************************************************)
(* Registering artifacts, one (createArtifact) or many at a time           *)
(* (bulkCreateArtifacts), by requests that overlap                         *)
(* (internal/api/artifacts.go).  Duplicates and the quota are looked up    *)
(* before the insert, each in a store call of its own, and the digest is   *)
(* written after it, in another; meanwhile artifacts are mirrored, scanned *)
(* and deleted.  A full scan round writes back the digest it read long     *)
(* before, or what it resolved in its place (internal/api/scan.go), over   *)
(* whatever the row has by then.  Validation that needs no store (types,   *)
(* pinned digests, maintainers) is one nondeterministic refusal.  A piece  *)
(* of content stands for its digest.                                       *)
(***************************************************************************)
EXTENDS Naturals, Sequences, FiniteSets

CONSTANTS
  Requesters,     \* requests that may be in flight together
  Refs,           \* the refs registered
  Copies,         \* the refs of local copies
  CopyOf,         \* MirrorRef: [Refs -> Copies]
  Contents,       \* what a ref may resolve to
  Movable,        \* the refs whose content may change or be out of reach
  Batches,        \* the lists of refs that requests ask for
  MaxBatch,       \* maxBulkArtifacts
  Quotas,         \* the quotas a deployment may set; 0 is unlimited
  Slots,          \* bound: what artifacts there may be at a time
  Rounds          \* full scan rounds that may be in flight together

NoRef    == "no ref"
NoDigest == "no digest"
NoSlot   == "no slot"
Unread   == "not resolved yet"

ASSUME ConstantsAssumption ==
  /\ NoRef \notin Refs \cup Copies /\ {NoDigest, Unread} \cap Contents = {}
  /\ Contents \cap Refs = {} /\ Copies \cap Refs = {}
  /\ CopyOf \in [Refs -> Copies] /\ Movable \subseteq Refs
  /\ MaxBatch \in Nat /\ Quotas \subseteq Nat
  /\ IsFiniteSet(Requesters) /\ IsFiniteSet(Slots) /\ NoSlot \notin Slots
  /\ Batches \subseteq Seq(Refs)
  /\ \A batch \in Batches : Len(batch) \in 1..MaxBatch

VARIABLES
  maxArtifacts,   \* the quota, which never changes
  rows,       \* the artifacts
  content,    \* what each ref resolves to upstream, if it does
  req,        \* local state of every request
  scan        \* local state of every scan round

vars == <<maxArtifacts, rows, content, req, scan>>

Row == [ref : Refs \cup Copies, source : Refs \cup {NoRef},
        digest : Contents \cup {NoDigest},
        origin : Refs]          \* history: the ref it was registered with

NoRow == [ref |-> NoRef, source |-> NoRef, digest |-> NoDigest, origin |-> NoRef]

Entry == [ref : Refs, digest : Contents \cup {NoDigest}]

RequestState ==
  [pc        : {"idle", "count", "entry", "lookup", "new", "ready", "created"},
   bulk      : BOOLEAN,
   entries   : Seq(Entry),
   at        : Nat,                  \* the entry being registered
   remaining : Nat,                  \* of the quota, as counted
   seen      : SUBSET (Contents \cup Refs),    \* seenInBatch, seenRefsInBatch
   row       : Slots \cup {NoSlot},  \* the row just created
   known     : SUBSET (Nat \X Slots),  \* history: rows the entries named on arrival
   own       : SUBSET (Slots \X (Contents \cup Refs))]  \* history: rows created, and why

Idle == [pc |-> "idle", bulk |-> FALSE, entries |-> <<>>, at |-> 0, remaining |-> 0,
         seen |-> {}, row |-> NoSlot, known |-> {}, own |-> {}]

\* The row a round scans, its ref as read at the request, and the digest the
\* round will write.
ScanState ==
  [row : Slots \cup {NoSlot}, ref : Refs \cup Copies \cup {NoRef},
   digest : Contents \cup {NoDigest, Unread}]

NoScan == [row |-> NoSlot, ref |-> NoRef, digest |-> Unread]

TypeOK ==
  /\ maxArtifacts \in Quotas
  /\ rows \in [Slots -> Row \cup {NoRow}]
  /\ content \in [Refs -> Contents \cup {NoDigest}]
  /\ req \in [Requesters -> RequestState]
  /\ scan \in [Rounds -> ScanState]

Init ==
  /\ maxArtifacts \in Quotas
  /\ rows = [i \in Slots |-> NoRow]
  /\ content \in [Refs -> Contents \cup {NoDigest}]
  /\ req = [q \in Requesters |-> Idle]
  /\ scan = [r \in Rounds |-> NoScan]

Present == {i \in Slots : rows[i] # NoRow}

\* What a row registers: the entry's content if that was resolved, else
\* its ref, which a mirrored row had before it was rewritten.
Registers(row, entry) ==
  /\ row # NoRow
  /\ IF entry.digest # NoDigest THEN row.digest = entry.digest
                                ELSE row.origin = entry.ref

-----------------------------------------------------------------------------
Move(q, changes) == req' = [req EXCEPT ![q] = changes]
Current(q) == req[q].entries[req[q].at]

\* The evidence an entry is known by: its digest, or its ref without one.
Key(entry) == IF entry.digest # NoDigest THEN entry.digest ELSE entry.ref

\* The entry is dealt with; after the last one the request is answered.
NextEntry(q, state) ==
  IF state.at = Len(state.entries) THEN Idle
  ELSE [state EXCEPT !.pc = "entry", !.at = @ + 1, !.row = NoSlot,
                     !.known = {p \in @ : p[1] > state.at}]

\* The rows whose registration is over.
Settled == {i \in Slots : \A q \in Requesters : req[q].pc = "created" => req[q].row # i}

\* A request arrives and resolves the digests of its entries, best effort;
\* a bulk request then asks for the quota, once.
Arrive(q, bulk, batch) ==
  /\ req[q].pc = "idle"
  /\ bulk <=> Len(batch) > 1
  /\ LET entries == [k \in DOMAIN batch |-> [ref |-> batch[k], digest |-> content[batch[k]]]] IN
     Move(q, [Idle EXCEPT
       !.pc = IF bulk THEN "count" ELSE "entry", !.bulk = bulk,
       !.entries = entries, !.at = 1,
       !.known = {p \in (DOMAIN entries) \X Settled : Registers(rows[p[2]], entries[p[1]])}])
  /\ UNCHANGED <<rows, content>>

\* artifactQuota.
Remaining ==
  IF Cardinality(Present) < maxArtifacts THEN maxArtifacts - Cardinality(Present) ELSE 0

\* Before the entries of a bulk request; once a single one proved new.
Count(q) ==
  /\ \/ req[q].pc = "count" /\ Move(q, [req[q] EXCEPT !.pc = "entry", !.remaining = Remaining])
     \/ req[q].pc = "new" /\ ~req[q].bulk
        /\ Move(q, [req[q] EXCEPT !.pc = "ready", !.remaining = Remaining])
  /\ UNCHANGED <<rows, content>>

\* An entry that may not be registered whatever the store says.
Invalid(q) ==
  /\ req[q].pc = "entry"
  /\ Move(q, NextEntry(q, req[q]))
  /\ UNCHANGED <<rows, content>>

\* A bug: only the store is asked for duplicates.
NeverInBatch(q) == FALSE

InBatch(q) == Key(Current(q)) \in req[q].seen

\* Named earlier in the same batch.
DuplicateInBatch(q) ==
  /\ req[q].pc = "entry"
  /\ InBatch(q)
  /\ Move(q, NextEntry(q, req[q]))
  /\ UNCHANGED <<rows, content>>

\* A bug: a mirrored artifact is looked for under the name of its copy only.
FoundByRefAlone(row, entry) == row.ref = entry.ref

\* FindByRef: the ref it has, or had before it was mirrored.
FoundByRef(row, entry) == row.ref = entry.ref \/ row.source = entry.ref

\* findDuplicate.
Found(row, entry) ==
  /\ row # NoRow
  /\ IF entry.digest # NoDigest THEN row.digest = entry.digest ELSE FoundByRef(row, entry)

\* The store's answer: the entry duplicates a row, or is new.
Lookup(q) ==
  /\ req[q].pc = "entry"
  /\ ~InBatch(q)
  /\ Move(q, IF \E i \in Slots : Found(rows[i], Current(q))
             THEN NextEntry(q, req[q])
             ELSE [req[q] EXCEPT !.pc = IF req[q].bulk THEN "ready" ELSE "new"])
  /\ UNCHANGED <<rows, content>>

\* A bug: the quota is held against an entry before the store is asked.
QuotaFirst(q) == req[q].pc \in (IF req[q].bulk THEN {"entry", "ready"} ELSE {"ready"})

\* Proved new, and counted.
QuotaApplies(q) == req[q].pc = "ready"

\* Out of quota: 403, or an error for this entry.
RefuseQuota(q) ==
  /\ QuotaApplies(q)
  /\ maxArtifacts # 0 /\ req[q].remaining = 0
  /\ Move(q, NextEntry(q, req[q]))
  /\ UNCHANGED <<rows, content>>

\* A bug: every entry of a batch is held against the first count.
NotDecremented(n) == n

Decremented(n) == IF n > 0 THEN n - 1 ELSE 0

\* store.Create; the digest is not part of it.
Create(q) ==
  /\ req[q].pc = "ready"
  /\ maxArtifacts # 0 => req[q].remaining > 0
  /\ \E i \in Slots \ Present :
       /\ rows' = [rows EXCEPT ![i] = [ref |-> Current(q).ref, source |-> NoRef,
                                       digest |-> NoDigest, origin |-> Current(q).ref]]
       /\ Move(q, [req[q] EXCEPT !.pc = "created",
                                 !.remaining = Decremented(@),
                                 !.row = i,
                                 !.own = @ \cup {<<i, Key(Current(q))>>}])
  /\ UNCHANGED content

\* A store call failed: an error for this entry, or for a whole batch that
\* could not be counted.  (A failed lookup ends like an invalid entry.)
StoreFails(q) ==
  /\ \/ req[q].pc \in {"new", "ready"} /\ Move(q, NextEntry(q, req[q]))
     \/ req[q].pc = "count" /\ Move(q, Idle)
  /\ UNCHANGED <<rows, content>>

\* The Update that records the digest, if there is one, and the unsafe flag
\* along with it; if it fails, or the row is gone, that is logged and no more.
Record(q) ==
  /\ req[q].pc = "created"
  /\ \/ rows' = rows
     \/ /\ req[q].row # NoSlot
        /\ rows' = [rows EXCEPT ![req[q].row].digest = Current(q).digest]
  /\ Move(q, NextEntry(q, [req[q] EXCEPT !.seen = @ \cup {Key(Current(q))}]))
  /\ UNCHANGED content

RequestNext(q) ==
  \/ \E bulk \in BOOLEAN, batch \in Batches : Arrive(q, bulk, batch)
  \/ Count(q)
  \/ Invalid(q)
  \/ DuplicateInBatch(q)
  \/ Lookup(q)
  \/ RefuseQuota(q)
  \/ Create(q)
  \/ StoreFails(q)
  \/ Record(q)

\* mirrorArtifact's rewrite (module Mirroring).
Mirror(i) ==
  /\ rows[i] # NoRow
  /\ rows[i].source = NoRef
  /\ rows' = [rows EXCEPT ![i].ref = CopyOf[rows[i].ref], ![i].source = rows[i].ref]
  /\ UNCHANGED <<content, req, scan>>

\* POST /scan: the round works on the row as read here.
StartScan(r, i) ==
  /\ scan[r] = NoScan
  /\ rows[i] # NoRow
  /\ scan' = [scan EXCEPT ![r] = [row |-> i, ref |-> rows[i].ref,
         digest |-> IF rows[i].digest = NoDigest THEN Unread ELSE rows[i].digest]]
  /\ UNCHANGED <<rows, content, req>>

\* What a ref resolves to now: upstream its content, if the registry
\* answers; a copy holds what it held when it was made, or what another
\* artifact's copy has put in its place (module Mirroring).
Resolutions(ref) == IF ref \in Refs THEN {content[ref]} ELSE Contents \cup {NoDigest}

\* A digest missing from what was read is looked up, best effort.
ResolveDigest(r) ==
  /\ scan[r].row # NoSlot /\ scan[r].digest = Unread
  /\ \E d \in Resolutions(scan[r].ref) : scan' = [scan EXCEPT ![r].digest = d]
  /\ UNCHANGED <<rows, content, req>>

\* History: what requests knew of a row by the digest it had is void.
Rewritten(state, i, digest) ==
  [state EXCEPT !.known =
     {p \in @ : p[2] = i /\ state.entries[p[1]].digest # NoDigest
                  => state.entries[p[1]].digest = digest}]

\* The round's Update: its digest, whatever the row has by now.
FinishScan(r) ==
  LET i == scan[r].row
      digest == scan[r].digest
  IN /\ i # NoSlot /\ digest # Unread
     /\ rows' = [rows EXCEPT ![i].digest = digest]
     /\ req' = [q \in Requesters |-> Rewritten(req[q], i, digest)]
     /\ scan' = [scan EXCEPT ![r] = NoScan]
     /\ UNCHANGED content

\* The Update fails, or the round's process dies.
LoseScan(r) ==
  /\ scan[r].row # NoSlot
  /\ scan' = [scan EXCEPT ![r] = NoScan]
  /\ UNCHANGED <<rows, content, req>>

\* What requests hold of the row is void.
Forget(state, i) ==
  [state EXCEPT !.row = IF @ = i THEN NoSlot ELSE @,
                !.known = {p \in @ : p[2] # i},
                !.own = {p \in @ : p[1] # i}]

\* Its rounds find no row to update.
Delete(i) ==
  /\ rows[i] # NoRow
  /\ rows' = [rows EXCEPT ![i] = NoRow]
  /\ req' = [q \in Requesters |-> Forget(req[q], i)]
  /\ scan' = [r \in Rounds |-> IF scan[r].row = i THEN NoScan ELSE scan[r]]
  /\ UNCHANGED content

\* A tag is moved, the registry refuses to answer, or does so again.
MoveTag(ref, new) ==
  /\ content' = [content EXCEPT ![ref] = new]
  /\ UNCHANGED <<rows, req, scan>>

ScanNext(r) ==
  \/ \E i \in Slots : StartScan(r, i)
  \/ ResolveDigest(r) \/ FinishScan(r) \/ LoseScan(r)

Next ==
  /\ UNCHANGED maxArtifacts
  /\ \/ \E q \in Requesters : RequestNext(q) /\ UNCHANGED scan
     \/ \E i \in Slots : Mirror(i) \/ Delete(i)
     \/ \E r \in Rounds : ScanNext(r)
     \/ \E ref \in Movable, new \in Contents \cup {NoDigest} : MoveTag(ref, new)

Spec == Init /\ [][Next]_vars

-----------------------------------------------------------------------------
(* Properties.                                                             *)

KnownTo(q) == {i \in Slots : <<req[q].at, i>> \in req[q].known}

Creates(q) == req[q].pc = "ready" /\ req'[q].pc = "created"

\* What was registered when a request arrived, and has been since, the
\* request does not register again, mirrored, scanned or not meanwhile
\* (artifacts.go:82-98, postgres_artifacts.go:712-717).  A round that
\* overlaps may take the row's digest back, or put another in its place
\* (scan.go:712): then the row no longer registers the content.
NothingTwice == [][\A q \in Requesters : Creates(q) => KnownTo(q) = {}]_vars

\* Nor does it refuse that for want of quota: re-registering stays a
\* duplicate at the cap (artifacts.go:213-218).  As above, a row whose digest
\* a round takes back meanwhile registers the content no more.
DuplicateBeatsQuota ==
  [][\A q \in Requesters : RefuseQuota(q) => KnownTo(q) = {}]_vars

\* One request creates one row per digest, or per ref without one, even
\* where the Update that records a digest fails (artifacts.go:387-395).
BatchCreatesOnce ==
  \A q \in Requesters : \A p1, p2 \in req[q].own : p1[2] = p2[2] => p1 = p2

\* The quota is exceeded by no more than what the requests in flight, all
\* but one, may each still create: their batch, or the quota if smaller.
Smaller(m, n) == IF m < n THEN m ELSE n

OvershootBounded ==
  maxArtifacts # 0 =>
    Cardinality(Present) <=
      maxArtifacts + (Cardinality(Requesters) - 1) * Smaller(MaxBatch, maxArtifacts)

\* The inductive invariant behind the first three.
RowInv(row) == row.origin = (IF row.source = NoRef THEN row.ref ELSE row.source)

\* What a request's local state says of the rows.
RequestInv(s, table) ==
  /\ \A p \in s.known : /\ p[1] \in DOMAIN s.entries
                       /\ Registers(table[p[2]], s.entries[p[1]])
  /\ s.pc # "idle" => s.at \in DOMAIN s.entries
  /\ s.pc \in {"new", "ready", "created"} =>
       /\ \A p \in s.known : p[1] # s.at
       /\ Key(s.entries[s.at]) \notin s.seen
  /\ \A p \in s.own :
       /\ table[p[1]] # NoRow
       /\ \/ p[2] \in s.seen
          \/ s.pc = "created" /\ p = <<s.row, Key(s.entries[s.at])>>
  /\ s.row # NoSlot => s.pc = "created" /\ table[s.row] # NoRow

ScanInv(s, table) == s.row # NoSlot => table[s.row] # NoRow

IInv ==
  /\ TypeOK
  /\ \A i \in Present : RowInv(rows[i])
  /\ \A q \in Requesters : RequestInv(req[q], rows)
  /\ \A r \in Rounds : ScanInv(scan[r], rows)
  /\ \A q1, q2 \in Requesters : \A p \in req[q1].known : p[2] # req[q2].row
  /\ BatchCreatesOnce

\* The one behind OvershootBounded, on top of it.  What a request may still
\* create, by the quota it counted and the entries it has left, is as good
\* as created: what exists and what may yet be are bounded together.
Budget(s) ==
  Smaller(s.remaining, IF s.pc = "created" THEN Len(s.entries) - s.at
                                           ELSE Len(s.entries) + 1 - s.at)

Allowed == {p \in Requesters \X (1..MaxBatch) : p[2] <= Budget(req[p[1]])}

Counted(s) ==
  /\ Len(s.entries) <= MaxBatch /\ s.remaining <= maxArtifacts
  /\ ~s.bulk => Len(s.entries) <= 1 /\ s.pc # "count"
  /\ s.pc \in {"idle", "count"} \/ (s.pc \in {"entry", "new"} /\ ~s.bulk) => s.remaining = 0

QuotaInv ==
  /\ \A q \in Requesters : Counted(req[q])
  /\ maxArtifacts # 0 =>
       Cardinality(Present) + Cardinality(Allowed) <=
         maxArtifacts + (Cardinality(Requesters) - 1) * Smaller(MaxBatch, maxArtifacts)
=============================================================================
