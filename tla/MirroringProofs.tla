-------------------------- MODULE MirroringProofs --------------------------
(***************************************************************************)
(* Mirroring never loses an upstream ref, for every set of artifacts, refs *)
(* and workers: the inductive invariant IInv, and what follows from it.    *)
(***************************************************************************)
EXTENDS Mirroring, TLAPS

\* A worker that is not idle has a snapshot, and holds what IInv says.
LEMMA Holds ==
  ASSUME IInv, NEW w \in Workers, worker[w].pc # "idle" \/ worker[w] # Idle
  PROVE  worker[w] \in WorkerState /\ Carries(worker[w])
BY DEF IInv, TypeOK, Idle

\* A copy is a ref.
LEMMA CopiesAreRefs ==
  ASSUME NEW r \in Refs, Mirrored(r)
  PROVE  CopyOf[r] \in Refs
BY ConstantsAssumption DEF Mirrored

LEMMA Initially == Init => IInv
<1> SUFFICES ASSUME Init PROVE IInv
  OBVIOUS
<1>1. TypeOK
  BY ConstantsAssumption DEF Init, TypeOK, Digests
<1>2. OriginKept
  BY ConstantsAssumption DEF Init, OriginKept, ProvenanceRef, Settled
<1>3. \A w \in Workers : worker[w] = Idle
  BY DEF Init
<1> QED
  BY <1>1, <1>2, <1>3 DEF IInv

\* A snapshot just taken of a row.
LEMMA SnapshotCarries ==
  ASSUME IInv, NEW a \in Artifacts, NEW pc \in {"mirror", "scanning"},
         NEW d \in Digests
  PROVE  /\ Snapshot(a, pc) \in WorkerState
         /\ Carries(Snapshot(a, pc))
         /\ [Snapshot(a, pc) EXCEPT !.digest = d] \in WorkerState
         /\ Carries([Snapshot(a, pc) EXCEPT !.digest = d])
<1>1. ref[a] \in Refs /\ sourceRef[a] \in Refs \cup {NoRef} /\ digest[a] \in Digests
  BY DEF IInv, TypeOK
<1>2. sourceRef[a] = NoRef => ref[a] = Origin[a]
  BY DEF IInv, OriginKept, ProvenanceRef, Settled
<1> QED
  BY <1>1, <1>2 DEF Snapshot, WorkerState, Carries

\* A step that moves one worker, to Idle or to a state that carries what it
\* should, and leaves refs and sources alone.
LEMMA OneWorkerMoves ==
  ASSUME IInv, NEW w \in Workers,
         NEW s \in WorkerState \cup {Idle}, s # Idle => Carries(s),
         worker' = [worker EXCEPT ![w] = s],
         UNCHANGED <<ref, sourceRef>>,
         registered' \subseteq Artifacts,
         digest' \in [Artifacts -> Digests],
         content' \in [Refs -> Digests]
  PROVE  IInv'
<1>1. TypeOK'
  BY DEF IInv, TypeOK
<1>2. OriginKept'
  BY DEF IInv, OriginKept, ProvenanceRef, Settled
<1>3. ASSUME NEW v \in Workers, worker'[v] # Idle PROVE Carries(worker'[v])
  <2>1. CASE v = w
    BY <1>3, <2>1 DEF IInv, TypeOK
  <2>2. CASE v # w
    <3>1. worker'[v] = worker[v]
      BY <2>2 DEF IInv, TypeOK
    <3> QED
      BY <1>3, <3>1 DEF IInv
  <2> QED
    BY <2>1, <2>2
<1> QED
  BY <1>1, <1>2, <1>3 DEF IInv, Carries

LEMMA ResolvesToADigest ==
  ASSUME TypeOK, NEW r \in Refs PROVE Resolutions(r) \subseteq Digests
BY DEF TypeOK, Resolutions, Digests

LEMMA RegisterStep ==
  ASSUME IInv, NEW w \in Workers, NEW a \in Artifacts, Register(w, a)
  PROVE  IInv'
<1>1. PICK d \in Resolutions(Origin[a]) :
        /\ digest' = [digest EXCEPT ![a] = d]
        /\ worker' = [worker EXCEPT ![w] = [Snapshot(a, "mirror") EXCEPT !.digest = d]]
  BY DEF Register
<1>2. d \in Digests
  BY ConstantsAssumption, ResolvesToADigest DEF IInv
<1>3. /\ [Snapshot(a, "mirror") EXCEPT !.digest = d] \in WorkerState
      /\ Carries([Snapshot(a, "mirror") EXCEPT !.digest = d])
  BY <1>2, SnapshotCarries
<1>4. /\ UNCHANGED <<ref, sourceRef>>
      /\ registered' \subseteq Artifacts
      /\ digest' \in [Artifacts -> Digests]
      /\ content' \in [Refs -> Digests]
  BY <1>1, <1>2 DEF Register, IInv, TypeOK
<1> QED
  BY <1>1, <1>3, <1>4, OneWorkerMoves

LEMMA StartScanStep ==
  ASSUME IInv, NEW w \in Workers, NEW a \in Artifacts, StartScan(w, a)
  PROVE  IInv'
<1>1. Snapshot(a, "scanning") \in WorkerState /\ Carries(Snapshot(a, "scanning"))
  BY SnapshotCarries DEF Digests
<1> QED
  BY <1>1, OneWorkerMoves DEF StartScan, rows, IInv, TypeOK

\* The state of a worker that goes on with the snapshot it has.
LEMMA GoesOn ==
  ASSUME IInv, NEW w \in Workers, worker[w].pc # "idle",
         NEW pc \in {"scanning", "mirror", "copied", "verified"}, NEW r \in Refs
  PROVE  /\ [worker[w] EXCEPT !.pc = pc] \in WorkerState
         /\ [worker[w] EXCEPT !.pc = pc, !.local = r] \in WorkerState
BY Holds DEF WorkerState

LEMMA FinishScanStep ==
  ASSUME IInv, NEW w \in Workers, FinishScan(w)
  PROVE  IInv'
<1>1. worker[w].pc = "scanning" /\ worker[w] \in WorkerState /\ Carries(worker[w])
  BY Holds DEF FinishScan
<1>2. [worker[w] EXCEPT !.pc = "mirror"] \in WorkerState
  BY <1>1 DEF WorkerState
<1>3. Carries([worker[w] EXCEPT !.pc = "mirror"])
  BY <1>1 DEF Carries, WorkerState
<1>4. worker' = [worker EXCEPT ![w] = [worker[w] EXCEPT !.pc = "mirror"]]
  BY DEF FinishScan, Move, IInv, TypeOK
<1>5. digest' \in [Artifacts -> Digests]
  <2>1. CASE UNCHANGED digest
    BY <2>1 DEF IInv, TypeOK
  <2>2. CASE ~UNCHANGED digest
    <3>1. PICK d \in IF worker[w].digest # NoContent THEN {worker[w].digest}
                     ELSE Resolutions(worker[w].from) :
            digest' = [digest EXCEPT ![worker[w].artifact] = d]
      BY <2>2 DEF FinishScan
    <3>2. d \in Digests
      BY <1>1, <3>1, ResolvesToADigest DEF IInv, WorkerState
    <3> QED
      BY <3>1, <3>2 DEF IInv, TypeOK
  <2> QED
    BY <2>1, <2>2
<1> QED
  BY <1>2, <1>3, <1>4, <1>5, OneWorkerMoves DEF FinishScan, IInv, TypeOK

LEMMA StopStep ==
  ASSUME IInv, NEW w \in Workers, Stop(w), UNCHANGED <<rows, content>>
  PROVE  IInv'
BY OneWorkerMoves DEF Stop, rows, IInv, TypeOK

LEMMA NothingToCopyStep ==
  ASSUME IInv, NEW w \in Workers, NothingToCopy(w)
  PROVE  IInv'
<1>1. worker[w].pc = "mirror" /\ worker[w] \in WorkerState /\ Carries(worker[w])
  BY Holds DEF NothingToCopy
<1>2. [worker[w] EXCEPT !.pc = "verified"] \in WorkerState
  BY <1>1 DEF WorkerState
<1>3. Carries([worker[w] EXCEPT !.pc = "verified"])
  BY <1>1 DEF NothingToCopy, Carries, WorkerState
<1>4. worker' = [worker EXCEPT ![w] = [worker[w] EXCEPT !.pc = "verified"]]
  BY DEF NothingToCopy, SettleOnItself, Move, IInv, TypeOK
<1> QED
  BY <1>2, <1>3, <1>4, OneWorkerMoves DEF NothingToCopy, rows, IInv, TypeOK

LEMMA CopyStep ==
  ASSUME IInv, NEW w \in Workers, Copy(w)
  PROVE  IInv'
<1> DEFINE s == [worker[w] EXCEPT !.pc = "copied", !.local = CopyOf[worker[w].from]]
<1>1. /\ worker[w].pc = "mirror" /\ worker[w] \in WorkerState
      /\ worker[w].source = NoRef /\ Mirrored(worker[w].from)
  BY Holds DEF Copy
<1>2. worker[w].from \in Refs /\ CopyOf[worker[w].from] \in Refs
  BY <1>1, CopiesAreRefs DEF WorkerState
<1>3. s \in WorkerState
  BY <1>1, <1>2 DEF WorkerState
<1>4. Carries(s)
  <2>1. worker[w].from = Origin[worker[w].artifact]
    BY <1>1, Holds DEF Carries
  <2> QED
    BY <1>1, <2>1 DEF Carries, WorkerState
<1>5. worker' = [worker EXCEPT ![w] = s]
  BY DEF Copy, IInv, TypeOK
<1>6. content' \in [Refs -> Digests]
  BY <1>2 DEF Copy, IInv, TypeOK
<1> HIDE DEF s
<1> QED
  BY <1>3, <1>4, <1>5, <1>6, OneWorkerMoves DEF Copy, rows, IInv, TypeOK

LEMMA VerifyStep ==
  ASSUME IInv, NEW w \in Workers, Verify(w)
  PROVE  IInv'
<1>1. worker[w].pc = "copied" /\ worker[w] \in WorkerState /\ Carries(worker[w])
  BY Holds DEF Verify
<1>2. [worker[w] EXCEPT !.pc = "verified"] \in WorkerState
  BY <1>1 DEF WorkerState
<1>3. Carries([worker[w] EXCEPT !.pc = "verified"])
  BY <1>1 DEF Carries, WorkerState
<1>4. worker' = [worker EXCEPT ![w] = [worker[w] EXCEPT !.pc = "verified"]]
  BY DEF Verify, Move, IInv, TypeOK
<1> QED
  BY <1>2, <1>3, <1>4, OneWorkerMoves DEF Verify, rows, IInv, TypeOK

\* The one step that writes ref and source_ref: the row's ref is still the
\* one copied and no source is set, so the ref is the origin, and what
\* replaces it is the origin's copy, or the origin if it has none.
LEMMA RewriteStep ==
  ASSUME IInv, NEW w \in Workers, Rewrite(w)
  PROVE  IInv'
<1> DEFINE s == worker[w]
           a == s.artifact
<1>1. s.pc = "verified" /\ s \in WorkerState /\ Carries(s)
  BY Holds DEF Rewrite
<1>2. a \in Artifacts /\ s.local \in Refs
  BY <1>1 DEF WorkerState
<1>3. CASE SettledMeanwhile(w)
  BY <1>3, StopStep DEF Rewrite, rows
<1>4. CASE ~SettledMeanwhile(w)
  <2>1. sourceRef[a] = NoRef /\ ref[a] = s.from /\ s.from = Origin[a]
    BY <1>1, <1>4 DEF SettledMeanwhile, Carries
  <2>2. s.local = IF Mirrored(Origin[a]) THEN CopyOf[Origin[a]] ELSE Origin[a]
    BY <1>1, <2>1 DEF Carries
  <2>3. /\ ref' = [ref EXCEPT ![a] = s.local]
        /\ sourceRef' = [sourceRef EXCEPT ![a] = Origin[a]]
    BY <1>4, <2>1 DEF Rewrite
  <2>4. worker' \in [Workers -> WorkerState \cup {Idle}]
    BY DEF Rewrite, Stop, IInv, TypeOK
  <2>5. Origin[a] \in Refs /\ Origin[a] # NoRef
    BY <1>2, ConstantsAssumption
  <2>6. TypeOK'
    BY <1>2, <2>3, <2>4, <2>5 DEF Rewrite, IInv, TypeOK
  <2>7. ASSUME NEW b \in Artifacts
        PROVE  /\ ProvenanceRef(b)' = Origin[b]
               /\ Settled(b)' => ref'[b] \in {Origin[b], CopyOf[Origin[b]]}
               /\ Settled(b)' /\ ref'[b] = Origin[b] => ~Mirrored(Origin[b])
    <3>1. CASE b = a
      <4>1. sourceRef'[b] = Origin[b] /\ ref'[b] = s.local
        BY <1>2, <2>3, <3>1 DEF IInv, TypeOK
      <4>2. Mirrored(Origin[b]) => CopyOf[Origin[b]] # Origin[b]
        BY ConstantsAssumption DEF Mirrored, Copies
      <4> QED
        BY <2>2, <2>5, <3>1, <4>1, <4>2 DEF ProvenanceRef, Settled
    <3>2. CASE b # a
      BY <2>3, <3>2 DEF IInv, TypeOK, OriginKept, ProvenanceRef, Settled
    <3> QED
      BY <3>1, <3>2
  <2>8. ASSUME NEW v \in Workers, worker'[v] # Idle
        PROVE  Carries(worker[v]) /\ worker'[v] = worker[v]
    BY <2>8 DEF Rewrite, Stop, IInv, TypeOK
  <2> QED
    BY <2>6, <2>7, <2>8 DEF IInv, OriginKept, Carries
<1> QED
  BY <1>3, <1>4

\* Bulk registration and a tag that moves: no worker is concerned.
LEMMA OtherStep ==
  ASSUME IInv, UNCHANGED <<ref, sourceRef, worker>>,
         registered' \subseteq Artifacts,
         digest' \in [Artifacts -> Digests], content' \in [Refs -> Digests]
  PROVE  IInv'
BY DEF IInv, TypeOK, OriginKept, ProvenanceRef, Settled, Carries

LEMMA Preserved == IInv /\ [Next]_vars => IInv'
<1> SUFFICES ASSUME IInv, [Next]_vars PROVE IInv'
  OBVIOUS
<1>1. ASSUME NEW w \in Workers, WorkerNext(w) PROVE IInv'
  <2>1. ASSUME NEW a \in Artifacts, Register(w, a) PROVE IInv'
    BY <2>1, RegisterStep
  <2>2. ASSUME NEW a \in Artifacts, StartScan(w, a) PROVE IInv'
    BY <2>2, StartScanStep
  <2>3. CASE FinishScan(w)
    BY <2>3, FinishScanStep
  <2>4. CASE AlreadySettled(w) \/ GiveUp(w)
    BY <2>4, StopStep DEF AlreadySettled, GiveUp
  <2>5. CASE NothingToCopy(w)
    BY <2>5, NothingToCopyStep
  <2>6. CASE Copy(w)
    BY <2>6, CopyStep
  <2>7. CASE Verify(w)
    BY <2>7, VerifyStep
  <2>8. CASE Rewrite(w)
    BY <2>8, RewriteStep
  <2> QED
    BY <1>1, <2>1, <2>2, <2>3, <2>4, <2>5, <2>6, <2>7, <2>8 DEF WorkerNext
<1>2. ASSUME NEW a \in Artifacts, RegisterInBulk(a) PROVE IInv'
  <2>1. digest' \in [Artifacts -> Digests]
    BY <1>2, ConstantsAssumption, ResolvesToADigest DEF RegisterInBulk, IInv, TypeOK
  <2> QED
    BY <1>2, <2>1, OtherStep DEF RegisterInBulk, IInv, TypeOK
<1>3. ASSUME NEW r \in Refs, MoveTag(r) PROVE IInv'
  BY <1>3, OtherStep DEF MoveTag, rows, IInv, TypeOK
<1>4. CASE UNCHANGED vars
  BY <1>4, OtherStep DEF vars, rows, IInv, TypeOK
<1> QED
  BY <1>1, <1>2, <1>3, <1>4 DEF Next

\* The inductive invariant holds throughout.
THEOREM Invariant == Spec => []IInv
BY Initially, Preserved, PTL DEF Spec

\* The upstream ref is never lost (mirror.go:85-98): however many copies of
\* one artifact race, the origin is in source_ref once the row is settled
\* and in ref until then.
THEOREM OriginIsKept == Spec => []OriginKept
<1>1. IInv => OriginKept
  BY DEF IInv
<1> QED
  BY <1>1, Invariant, PTL

\* Only the Update rewrites, and only rows not settled yet.
LEMMA OneRewrite ==
  ASSUME IInv, [Next]_vars, NEW a \in Artifacts, Settled(a)
  PROVE  ref'[a] = ref[a] /\ sourceRef'[a] = sourceRef[a]
<1>1. ASSUME NEW w \in Workers, WorkerNext(w)
      PROVE  ref'[a] = ref[a] /\ sourceRef'[a] = sourceRef[a]
  <2>1. CASE Rewrite(w)
    BY <2>1 DEF Rewrite, SettledMeanwhile, Settled, IInv, TypeOK
  <2>2. CASE ~Rewrite(w)
    BY <1>1, <2>2 DEF WorkerNext, Register, StartScan, FinishScan, AlreadySettled,
       NothingToCopy, Copy, Verify, GiveUp, rows
  <2> QED
    BY <2>1, <2>2
<1>2. CASE \E b \in Artifacts : RegisterInBulk(b)
  BY <1>2 DEF RegisterInBulk
<1>3. CASE \E r \in Refs : MoveTag(r)
  BY <1>3 DEF MoveTag, rows
<1>4. CASE UNCHANGED vars
  BY <1>4 DEF vars, rows
<1> QED
  BY <1>1, <1>2, <1>3, <1>4 DEF Next

\* The loser of a race between two copies changes nothing (mirror.go:99-103).
THEOREM SettledStaysSo == Spec => SettledForGood
<1>1. IInv /\ [Next]_vars =>
        [\A a \in Artifacts : Settled(a) =>
           ref'[a] = ref[a] /\ sourceRef'[a] = sourceRef[a]]_<<ref, sourceRef>>
  BY OneRewrite
<1> QED
  BY <1>1, Invariant, PTL DEF Spec, SettledForGood

\* Verifying the copy first costs no signature (mirror.go:165-171): the last
\* ref tried is the origin, so the verdict is the origin's, or one the copy
\* itself earned.
THEOREM ProvenanceIsKept == Spec => []ProvenanceKept
<1>1. IInv => ProvenanceKept
  <2> SUFFICES ASSUME IInv, NEW a \in registered,
                      NEW says \in [{ref[a], Origin[a]} -> Verdicts]
               PROVE  LET verdict == Verdict(ProvenanceRefs(a), says)
                      IN \/ verdict = says[Origin[a]]
                         \/ verdict = "verified" /\ says[ref[a]] = "verified"
    BY DEF ProvenanceKept
  <2>1. a \in Artifacts /\ ProvenanceRef(a) = Origin[a]
    BY DEF IInv, TypeOK, OriginKept
  <2>2. CASE ref[a] = Origin[a]
    <3>1. ProvenanceRefs(a) = <<ref[a]>>
      BY <2>1, <2>2 DEF ProvenanceRefs
    <3> QED
      BY <2>2, <3>1 DEF Verdict
  <2>3. CASE ref[a] # Origin[a]
    <3>1. ProvenanceRefs(a) = <<ref[a], Origin[a]>>
      BY <2>1, <2>3 DEF ProvenanceRefs
    <3> QED
      BY <3>1 DEF Verdict
  <2> QED
    BY <2>2, <2>3
<1> QED
  BY <1>1, Invariant, PTL
=============================================================================
