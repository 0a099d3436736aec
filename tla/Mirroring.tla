----------------------------- MODULE Mirroring -----------------------------
(***************************************************************************)
(* Copying artifacts into the deployment's own registry                    *)
(* (internal/api/mirror.go, internal/scanner/mirror.go).  Registration and *)
(* every full scan end in mirrorArtifact, which works from a snapshot of   *)
(* the row that may be minutes old, copies, verifies the copy and rewrites *)
(* ref and source_ref in one Update.  Several of them may work on one      *)
(* artifact, or on two artifacts of one ref, at the same time, and a tag   *)
(* may move upstream meanwhile.  A piece of content stands for its digest. *)
(***************************************************************************)
EXTENDS Naturals, Sequences

CONSTANTS
  Artifacts,    \* the artifacts that may be registered
  Refs,         \* every ref: those registered and those of the local copies
  Origin,       \* [Artifacts -> the ref each is registered with]
  CopyOf,       \* MirrorRef: [Refs -> the local ref, or NoRef]
  Contents,     \* what a ref may resolve to
  Movable,      \* the refs whose content may change upstream
  Workers       \* registrations and scan rounds that may overlap

NoRef     == "no ref"         \* Go's ""
NoContent == "no content"     \* a ref that does not resolve; an unset digest

Mirrored(r) == CopyOf[r] # NoRef
Copies == {CopyOf[r] : r \in Refs} \ {NoRef}

\* AlreadyMirrored: a ref of the local registry is never mirrored again.
ASSUME ConstantsAssumption ==
  /\ NoRef \notin Refs
  /\ NoContent \notin Contents
  /\ Origin \in [Artifacts -> Refs]
  /\ CopyOf \in [Refs -> Refs \cup {NoRef}]
  /\ \A r \in Copies : ~Mirrored(r)
  /\ Movable \subseteq Refs \ Copies

VARIABLES
  registered,   \* the artifacts whose row exists
  ref,          \* Artifact.Ref
  sourceRef,    \* Artifact.SourceRef
  digest,       \* Artifact.Digest
  content,      \* what every ref resolves to, upstream or locally
  worker        \* local state of every registration or round

rows == <<registered, ref, sourceRef, digest>>
vars == <<rows, content, worker>>

Digests == Contents \cup {NoContent}

WorkerState ==
  [pc       : {"idle", "scanning", "mirror", "copied", "verified"},
   artifact : Artifacts,
   \* the snapshot: `from` is its ref, `source` its source_ref
   from     : Refs, source : Refs \cup {NoRef}, digest : Digests,
   \* the ref the rewrite will install
   local    : Refs]

Idle == [pc |-> "idle"]

TypeOK ==
  /\ registered \subseteq Artifacts
  /\ ref \in [Artifacts -> Refs]
  /\ sourceRef \in [Artifacts -> Refs \cup {NoRef}]
  /\ digest \in [Artifacts -> Digests]
  /\ content \in [Refs -> Digests]
  /\ worker \in [Workers -> WorkerState \cup {Idle}]

\* The fields of an artifact not registered yet are those it will have.
Init ==
  /\ registered = {}
  /\ ref = Origin
  /\ sourceRef = [a \in Artifacts |-> NoRef]
  /\ digest = [a \in Artifacts |-> NoContent]
  /\ content \in [Refs -> Digests]
  /\ \A r \in Copies : content[r] = NoContent
  /\ worker = [w \in Workers |-> Idle]

\* resolveDigest: best-effort, so any ref may fail to resolve.
Resolutions(r) == {content[r], NoContent}

\* A worker's snapshot of a row.
Snapshot(a, pc) ==
  [pc |-> pc, artifact |-> a, from |-> ref[a], source |-> sourceRef[a],
   digest |-> digest[a], local |-> ref[a]]

Move(w, pc) == worker' = [worker EXCEPT ![w].pc = pc]
Stop(w) == worker' = [worker EXCEPT ![w] = Idle]

-----------------------------------------------------------------------------
\* findDuplicate: by digest if there is one, else by the ref, which a row
\* may hold as its ref or as its source.
Duplicate(a, d) ==
  \E b \in registered :
    IF d # NoContent THEN digest[b] = d ELSE Origin[a] \in {ref[b], sourceRef[b]}

\* createArtifact up to its call of mirrorArtifact.
Register(w, a) ==
  /\ worker[w] = Idle
  /\ a \notin registered
  /\ \E d \in Resolutions(Origin[a]) :
       /\ ~Duplicate(a, d)
       /\ digest' = [digest EXCEPT ![a] = d]
       /\ worker' = [worker EXCEPT ![w] =
                       [Snapshot(a, "mirror") EXCEPT !.digest = d]]
  /\ registered' = registered \cup {a}
  /\ UNCHANGED <<ref, sourceRef, content>>

\* One entry of bulkCreateArtifacts, which does not mirror.
RegisterInBulk(a) ==
  /\ a \notin registered
  /\ \E d \in Resolutions(Origin[a]) :
       ~Duplicate(a, d) /\ digest' = [digest EXCEPT ![a] = d]
  /\ registered' = registered \cup {a}
  /\ UNCHANGED <<ref, sourceRef, content, worker>>

\* A full scan takes its snapshot, ...
StartScan(w, a) ==
  /\ worker[w] = Idle
  /\ a \in registered
  /\ worker' = [worker EXCEPT ![w] = Snapshot(a, "scanning")]
  /\ UNCHANGED <<rows, content>>

\* ... writes the digest it knew or could resolve, and goes on to mirror
\* with the snapshot it started from, its Update successful or not.
FinishScan(w) ==
  LET s == worker[w] IN
  /\ s.pc = "scanning"
  /\ \/ UNCHANGED digest
     \/ /\ s.artifact \in registered
        /\ \E d \in IF s.digest # NoContent THEN {s.digest} ELSE Resolutions(s.from) :
             digest' = [digest EXCEPT ![s.artifact] = d]
  /\ Move(w, "mirror")
  /\ UNCHANGED <<registered, ref, sourceRef, content>>

\* mirrorArtifact's early return: the snapshot was settled already.
AlreadySettled(w) ==
  /\ worker[w].pc = "mirror"
  /\ worker[w].source # NoRef
  /\ Stop(w)
  /\ UNCHANGED <<rows, content>>

\* A bug: nothing is recorded of a ref that needs no copy.
StopUnrecorded(w) == Stop(w)

\* Nothing to mirror (a local path, a ref of this registry): the ref is to
\* be recorded as its own source.
SettleOnItself(w) == Move(w, "verified")

NothingToCopy(w) ==
  /\ worker[w].pc = "mirror"
  /\ worker[w].source = NoRef
  /\ ~Mirrored(worker[w].from)
  /\ SettleOnItself(w)
  /\ UNCHANGED <<rows, content>>

\* `oras copy` exits zero; the copy landed, or it did not.
Copy(w) ==
  LET s == worker[w] IN
  /\ s.pc = "mirror"
  /\ s.source = NoRef
  /\ Mirrored(s.from)
  /\ content[s.from] # NoContent
  /\ \E landed \in BOOLEAN :
       content' = IF landed THEN [content EXCEPT ![CopyOf[s.from]] = content[s.from]]
                            ELSE content
  /\ worker' = [worker EXCEPT ![w].pc = "copied", ![w].local = CopyOf[s.from]]
  /\ UNCHANGED rows

\* verify: the copy resolves, to the snapshot's digest if it has one.
Verify(w) ==
  LET s == worker[w] IN
  /\ s.pc = "copied"
  /\ content[s.local] # NoContent
  /\ s.digest # NoContent => content[s.local] = s.digest
  /\ Move(w, "verified")
  /\ UNCHANGED <<rows, content>>

\* A bug: the guard is the one evaluated before the copy.
SettledBefore(w) == worker[w].source # NoRef

\* The guard re-checked inside the Update.
SettledMeanwhile(w) ==
  LET s == worker[w] IN
  sourceRef[s.artifact] # NoRef \/ ref[s.artifact] # s.from

\* The Update that installs the copy, or leaves what another one installed.
Rewrite(w) ==
  LET s == worker[w] IN
  /\ s.pc = "verified"
  /\ s.artifact \in registered
  /\ IF SettledMeanwhile(w)
     THEN UNCHANGED <<ref, sourceRef>>
     ELSE /\ sourceRef' = [sourceRef EXCEPT ![s.artifact] = ref[s.artifact]]
          /\ ref' = [ref EXCEPT ![s.artifact] = s.local]
  /\ Stop(w)
  /\ UNCHANGED <<registered, digest, content>>

\* The ref is refused, the copy, its verification or the Update fails, or
\* the process dies.
GiveUp(w) ==
  /\ worker[w] # Idle
  /\ Stop(w)
  /\ UNCHANGED <<rows, content>>

\* A tag moves, or vanishes, upstream.
MoveTag(r) ==
  /\ r \in Movable
  /\ \E c \in Digests : content' = [content EXCEPT ![r] = c]
  /\ UNCHANGED <<rows, worker>>

WorkerNext(w) ==
  \/ \E a \in Artifacts : Register(w, a) \/ StartScan(w, a)
  \/ FinishScan(w)
  \/ AlreadySettled(w)
  \/ NothingToCopy(w)
  \/ Copy(w)
  \/ Verify(w)
  \/ Rewrite(w)
  \/ GiveUp(w)

Next ==
  \/ \E w \in Workers : WorkerNext(w)
  \/ \E a \in Artifacts : RegisterInBulk(a)
  \/ \E r \in Refs : MoveTag(r)

Spec == Init /\ [][Next]_vars

-----------------------------------------------------------------------------
(* Signature verification of a row: provenanceRefs, scanProvenanceRefs.    *)

Settled(a) == sourceRef[a] # NoRef

\* provenanceRef: the original ref, mirrored or not.
ProvenanceRef(a) == IF Settled(a) THEN sourceRef[a] ELSE ref[a]

\* A bug: the copy last.
OriginFirst(a) ==
  IF ref[a] = ProvenanceRef(a) THEN <<ref[a]>> ELSE <<ProvenanceRef(a), ref[a]>>

ProvenanceRefs(a) ==
  IF ref[a] = ProvenanceRef(a) THEN <<ref[a]>> ELSE <<ref[a], ProvenanceRef(a)>>

\* The first "verified" of the refs in turn, else what the last one said.
Verdict(refs, says) ==
  IF \E i \in DOMAIN refs : says[refs[i]] = "verified" THEN "verified"
  ELSE says[refs[Len(refs)]]

Verdicts == {"verified", "unsigned", "unknown"}

-----------------------------------------------------------------------------
(* Properties.                                                             *)

\* The upstream ref is never lost: whatever copies race, a row holds its
\* origin in source_ref once settled and in ref until then, and its ref is
\* the origin or the origin's copy.
OriginKept ==
  \A a \in Artifacts :
    /\ ProvenanceRef(a) = Origin[a]
    /\ Settled(a) => ref[a] \in {Origin[a], CopyOf[Origin[a]]}
    /\ Settled(a) /\ ref[a] = Origin[a] => ~Mirrored(Origin[a])

\* A settled row stays as it is: the loser of a race changes nothing.
SettledForGood ==
  [][\A a \in Artifacts : Settled(a) =>
       ref'[a] = ref[a] /\ sourceRef'[a] = sourceRef[a]]_<<ref, sourceRef>>

\* Trying the copy first costs no artifact its signature: whatever the
\* registries answer, the verdict is the original ref's own, or "verified".
ProvenanceKept ==
  \A a \in registered : \A says \in [{ref[a], Origin[a]} -> Verdicts] :
    LET verdict == Verdict(ProvenanceRefs(a), says)
    IN verdict = says[Origin[a]] \/ (verdict = "verified" /\ says[ref[a]] = "verified")

\* The inductive invariant: a worker holding an unsettled snapshot holds
\* the artifact's origin, and what it is about to install is its copy.
Carries(s) ==
  /\ s.source = NoRef => s.from = Origin[s.artifact]
  /\ s.pc \in {"scanning", "mirror"} => s.local = s.from
  /\ s.pc \in {"copied", "verified"} => s.source = NoRef
  /\ s.pc = "copied" => Mirrored(s.from) /\ s.local = CopyOf[s.from]
  /\ s.pc = "verified" =>
       s.local = IF Mirrored(s.from) THEN CopyOf[s.from] ELSE s.from

IInv ==
  /\ TypeOK
  /\ OriginKept
  /\ \A w \in Workers : worker[w] # Idle => Carries(worker[w])

-----------------------------------------------------------------------------
(* Convergence, under fairness of the sweep's scans.                       *)

\* A copy that lands.
Landing(w) == Copy(w) /\ content'[CopyOf[worker[w].from]] = content[worker[w].from]

Copyable(a) == Mirrored(Origin[a]) => content[Origin[a]] # NoContent

\* The backfill converges: a registered artifact whose ref can be copied,
\* or needs no copy, has its source_ref settled in the end (mirror.go:66-73,
\* docs/architecture.md:388-392).
BackfillConverges ==
  \A a \in Artifacts :
    <>[]Copyable(a) => (a \in registered ~> Settled(a))

=============================================================================
