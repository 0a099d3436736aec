------------------------- MODULE ArtifactScanProofs -------------------------
(***************************************************************************)
(* Proofs about ArtifactScan for any number of scan rounds and requests in *)
(* flight, any scanners, findings and documents: the findings keep the     *)
(* promises of FindingLifecycle, no finding that is really there is        *)
(* declared fixed by a round, no artifact is left "scanning", nothing is   *)
(* announced twice, and stored documents govern in a calm system.          *)
(***************************************************************************)
EXTENDS ArtifactScan, TLAPS

-----------------------------------------------------------------------------
(* The merge of one finding.                                               *)

\* Whatever is reported and whatever a document says, the merge of a
\* finding is a finding.
LEMMA MergeType ==
  ASSUME NEW f \in Finding, NEW reported \in BOOLEAN, NEW now \in Nat,
         NEW detectFixed \in BOOLEAN, NEW statement \in Assertions
  PROVE  MergeFinding(f, reported, now, detectFixed, statement) \in Finding
<1> USE DEF Finding, FindingStatuses, Unset
<1>1. ASSUME NEW g \in Finding, statement \in Suppressing
      PROVE  ApplyVEX(g, statement, now) \in Finding
  BY <1>1 DEF ApplyVEX, Suppressing
<1>2. Reopened(f) \in Finding /\ Resolved(f, now) \in Finding /\ StillReported(f) \in Finding
  BY DEF Reopened, Resolved, StillReported
<1>3. NewFinding(now) \in Finding
  BY DEF NewFinding, Untracked
<1>4. MergeNew(now, statement) \in Finding
  BY <1>1, <1>3 DEF MergeNew
<1>5. MergeRecorded(f, reported, now, detectFixed, statement) \in Finding
  BY <1>1, <1>2 DEF MergeRecorded
<1> QED
  BY <1>4, <1>5 DEF MergeFinding

\* The merge of a finding either leaves it as it is or takes one of the
\* lifecycle's transitions, given what documents said of it.
LEMMA MergeEvolves ==
  ASSUME NEW f \in Finding, NEW reported \in BOOLEAN, NEW now \in Nat \ {Unset},
         NEW detectFixed \in BOOLEAN, NEW statement \in Assertions,
         NEW id \in Ids, statement \in asserted[id] \cup {"silent"},
         Lifecycle!WellFormed(f)
  PROVE  LET new == MergeFinding(f, reported, now, detectFixed, statement)
         IN  new = f \/ Lifecycle!Evolves(id, f, new)
<1> USE DEF Finding, FindingStatuses, Unset, Suppressing, Tracked
<1> USE DEF Lifecycle!Evolves, Lifecycle!WellFormed, Lifecycle!Tracked, Lifecycle!Moved,
            Lifecycle!Discovered, Lifecycle!Suppressing, Lifecycle!Unset
<1>1. CASE ~Tracked(f)
  <2>1. CASE ~reported
    BY <1>1, <2>1 DEF MergeFinding
  <2>2. CASE reported /\ statement \in Suppressing
    <3>1. Lifecycle!Evolves(id, f, ApplyVEX(NewFinding(now), statement, now))
      BY <1>1, <2>2 DEF ApplyVEX, NewFinding, Untracked
    <3> QED
      BY <1>1, <2>2, <3>1 DEF MergeFinding, MergeNew
  <2>3. CASE reported /\ statement \notin Suppressing
    <3>1. Lifecycle!Evolves(id, f, NewFinding(now))
      BY <1>1 DEF NewFinding, Untracked
    <3> QED
      BY <1>1, <2>3, <3>1 DEF MergeFinding, MergeNew
  <2> QED
    BY <2>1, <2>2, <2>3
<1>2. CASE Tracked(f)
  <2>1. CASE statement \in Suppressing
    <3> DEFINE new == ApplyVEX(f, statement, now)
    <3>a. /\ new.status = statement /\ new.justified = TRUE
          /\ new.firstSeen = f.firstSeen /\ new.accepted = f.accepted
      BY DEF ApplyVEX
    <3>b. new.resolvedAt # Unset <=> statement = "fixed"
      BY <2>1 DEF ApplyVEX
    <3>c. f.status = "fixed" /\ statement = "fixed" => new.resolvedAt = f.resolvedAt
      BY DEF ApplyVEX
    <3>1. Lifecycle!Evolves(id, f, new)
      BY <1>2, <2>1, <3>a, <3>b, <3>c
    <3>2. MergeFinding(f, reported, now, detectFixed, statement) = ApplyVEX(f, statement, now)
      BY <1>2, <2>1 DEF MergeFinding, MergeRecorded, Retracts
    <3> QED
      BY <3>1, <3>2
  <2>2. CASE statement \notin Suppressing /\ Retracts(f, statement)
    <3>1. Lifecycle!Evolves(id, f, Reopened(f))
      BY <1>2, <2>2 DEF Reopened, Retracts
    <3>2. MergeFinding(f, reported, now, detectFixed, statement) = Reopened(f)
      BY <1>2, <2>2 DEF MergeFinding, MergeRecorded
    <3> QED
      BY <3>1, <3>2
  <2>3. CASE statement \notin Suppressing /\ ~Retracts(f, statement) /\ reported
    <3>1. Lifecycle!Evolves(id, f, StillReported(f))
      BY <1>2 DEF StillReported, Reopened
    <3> QED
      BY <1>2, <2>3, <3>1 DEF MergeFinding, MergeRecorded
  <2>4. CASE statement \notin Suppressing /\ ~Retracts(f, statement) /\ ~reported
    <3>1. f.status = "open" => Lifecycle!Evolves(id, f, Resolved(f, now))
      BY <1>2 DEF Resolved
    <3> QED
      BY <1>2, <2>4, <3>1 DEF MergeFinding, MergeRecorded
  <2> QED
    BY <2>1, <2>2, <2>3, <2>4
<1> QED
  BY <1>1, <1>2
\* The same for a merge of any part of the findings.
LEMMA PartitionEvolves ==
  ASSUME findings \in [Ids -> Finding],
         \A id \in Ids : Lifecycle!WellFormed(findings[id]),
         NEW owned \in SUBSET Ids, NEW found \in SUBSET Ids,
         NEW now \in Nat \ {Unset}, NEW fixable \in SUBSET Ids,
         NEW vex \in [Ids -> Assertions],
         \A id \in Ids : vex[id] \in asserted[id] \cup {"silent"},
         findings' = MergePartition(findings, owned, found, now, fixable, vex)
  PROVE  /\ findings' \in [Ids -> Finding]
         /\ \A id \in Ids : findings'[id] = findings[id]
                            \/ Lifecycle!Evolves(id, findings[id], findings'[id])
<1>1. ASSUME NEW id \in Ids
      PROVE  /\ findings'[id] \in Finding
             /\ findings'[id] = findings[id]
                \/ Lifecycle!Evolves(id, findings[id], findings'[id])
  <2>1. CASE id \notin owned
    BY <2>1 DEF MergePartition
  <2>2. CASE id \in owned
    <3> DEFINE new == MergeFinding(findings[id], id \in found, now, id \in fixable, vex[id])
    <3>1. findings'[id] = new
      BY <2>2 DEF MergePartition
    <3>a. /\ findings[id] \in Finding /\ vex[id] \in Assertions /\ now \in Nat
          /\ vex[id] \in asserted[id] \cup {"silent"}
          /\ Lifecycle!WellFormed(findings[id])
      BY DEF Unset
    <3>b. (id \in found) \in BOOLEAN /\ (id \in fixable) \in BOOLEAN
      OBVIOUS
    <3>2. new \in Finding
      BY <3>a, <3>b, MergeType, Zenon
    <3>3. new = findings[id] \/ Lifecycle!Evolves(id, findings[id], new)
      BY <3>a, <3>b, MergeEvolves, Zenon
    <3> QED
      BY <3>1, <3>2, <3>3
  <2> QED
    BY <2>1, <2>2
<1>2. findings' = [id \in Ids |-> findings'[id]]
  BY DEF MergePartition
<1> QED
  BY <1>1, <1>2

\* A document layered over another says only what one of them says.
LEMMA LayeredType ==
  ASSUME NEW f \in [Ids -> Assertions], NEW d \in [Ids -> Assertions]
  PROVE  /\ Layered(f, d) \in [Ids -> Assertions]
         /\ \A id \in Ids : Layered(f, d)[id] \in {f[id], d[id]}
  BY DEF Layered

LEMMA NoStatementsType ==
  /\ NoStatements \in [Ids -> Assertions]
  /\ \A id \in Ids : NoStatements[id] = "silent"
  BY DEF NoStatements, Assertions

\* What a handler sees of a document is the document, or nothing.
LEMMA SeenType ==
  ASSUME NEW d \in [Ids -> Assertions], NEW seen \in Seen(d)
  PROVE  /\ seen \in [Ids -> Assertions]
         /\ \A id \in Ids : seen[id] \in {d[id], "silent"}
  BY NoStatementsType DEF Seen

-----------------------------------------------------------------------------
(* Types.                                                                  *)

LEMMA IdleTypes == IdleRound \in RoundState /\ IdleClient \in ClientState
  BY NoStatementsType
     DEF IdleRound, IdleClient, RoundState, ClientState, AllModes, Statuses, Unset

LEMMA InitType == Init => TypeOK
<1> SUFFICES ASSUME Init PROVE TypeOK
  OBVIOUS
<1>1. Untracked \in Finding
  BY DEF Untracked, Finding, FindingStatuses, Unset
<1> QED
  BY <1>1, IdleTypes, NoStatementsType DEF Init, TypeOK, Statuses, Unset
-----------------------------------------------------------------------------
(* Every merge is a step of the lifecycle.                                 *)

\* Each finding stays as it is or takes one of the lifecycle's transitions.
MergeStep ==
  /\ findings' \in [Ids -> Finding]
  /\ \A id \in Ids : findings'[id] = findings[id]
                     \/ Lifecycle!Evolves(id, findings[id], findings'[id])

LEMMA CommitMerges ==
  ASSUME IInv, NEW r \in Rounds, Commit(r)
  PROVE  MergeStep
<1>1. /\ round[r].found \in SUBSET Ids /\ round[r].fixable \in SUBSET Ids
      /\ round[r].vex \in [Ids -> Assertions] /\ round[r].now \in Nat
  BY DEF IInv, TypeOK, RoundState
<1>2. round[r].now # Unset
  BY DEF IInv, CarriedByRound, Commit
<1>3. RoundOwns(r) \in SUBSET Ids
  BY ConstantsAssumption DEF RoundOwns
<1>4. /\ \A id \in Ids : round[r].vex[id] \in asserted[id] \cup {"silent"}
      /\ \A id \in Ids : Lifecycle!WellFormed(findings[id])
      /\ findings \in [Ids -> Finding]
  BY DEF IInv, OverlaysAreAsserted, TypeOK
<1>5. findings' = MergePartition(findings, RoundOwns(r), round[r].found,
                                 round[r].now, round[r].fixable, round[r].vex)
  BY DEF Commit
<1> QED
  BY <1>1, <1>2, <1>3, <1>4, <1>5, PartitionEvolves DEF MergeStep

LEMMA RequestMerges ==
  ASSUME IInv, NEW c \in Clients,
         ApplySubmission(c) \/ ApplyVEXDocument(c) \/ ApplyLicenses(c)
  PROVE  MergeStep
<1>1. /\ client[c].found \in SUBSET Ids /\ client[c].owned \in SUBSET Ids
      /\ client[c].vex \in [Ids -> Assertions] /\ client[c].now \in Nat
  BY DEF IInv, TypeOK, ClientState
<1>2. client[c].now # Unset
  BY DEF IInv, CarriedByClient, ApplySubmission, ApplyVEXDocument, ApplyLicenses, Finish
<1>3. /\ \A id \in Ids : client[c].vex[id] \in asserted[id] \cup {"silent"}
      /\ \A id \in Ids : Lifecycle!WellFormed(findings[id])
      /\ findings \in [Ids -> Finding]
  BY DEF IInv, OverlaysAreAsserted, TypeOK
<1>4. PICK owned \in SUBSET Ids, found \in SUBSET Ids, fixable \in SUBSET Ids :
        findings' = MergePartition(findings, owned, found,
                                   client[c].now, fixable, client[c].vex)
  <2>1. CASE ApplySubmission(c)
    BY <2>1, <1>1 DEF ApplySubmission
  <2>2. CASE ApplyVEXDocument(c)
    BY <2>2, <1>1 DEF ApplyVEXDocument, ApplyDocument
  <2>3. CASE ApplyLicenses(c)
    BY <2>3, <1>1, ConstantsAssumption DEF ApplyLicenses
  <2> QED
    BY <2>1, <2>2, <2>3
<1> QED
  BY <1>1, <1>2, <1>3, <1>4, PartitionEvolves DEF MergeStep
-----------------------------------------------------------------------------
(* Every action keeps the types.                                           *)

\* A round that moves to a well-typed local state leaves all rounds so.
LEMMA MoveType ==
  ASSUME TypeOK, NEW r \in Rounds, NEW local \in RoundState, Move(r, local)
  PROVE  round' \in [Rounds -> RoundState]
  BY DEF TypeOK, Move

\* What a round knows after its scanners answered.
Collected(r, failing, partial, resolved, seen) ==
  [round[r] EXCEPT
     !.pc = "collected",
     !.found = Reported(RoundScanners(r) \ failing) \cup partial,
     !.fixable = Fixable(r, failing),
     !.failed = failing = RoundScanners(r),
     !.digested = Digested(r, resolved),
     !.now = clock + 1,
     !.vex = seen]

LEMMA CollectMoves ==
  ASSUME NEW r \in Rounds, TypeOK, Collect(r)
  PROVE  \E failing \in SUBSET RoundScanners(r), partial \in SUBSET Ids,
            resolved \in BOOLEAN, seen \in Seen(fleet) :
           Move(r, Collected(r, failing, partial, resolved, seen))
<1>1. PICK failing \in SUBSET RoundScanners(r) :
        \E partial \in SUBSET Reported(failing) :
        \E resolved \in BOOLEAN, seen \in Seen(fleet) :
          Move(r, Collected(r, failing, partial, resolved, seen))
  BY Zenon DEF Collect, Collected
<1>2. PICK partial \in SUBSET Reported(failing), resolved \in BOOLEAN, seen \in Seen(fleet) :
        Move(r, Collected(r, failing, partial, resolved, seen))
  BY <1>1, Zenon
<1>3. partial \in SUBSET Ids
  BY DEF Reported, TypeOK
<1> QED
  BY <1>2, <1>3, Zenon

LEMMA RoundType ==
  ASSUME IInv, NEW r \in Rounds, RoundNext(r), UNCHANGED present
  PROVE  TypeOK'
<1>0. TypeOK /\ round[r] \in RoundState
  BY DEF IInv, TypeOK
<1>1. ASSUME NEW mode \in Modes, Get(r, mode) PROVE TypeOK'
  <2> DEFINE local == [IdleRound EXCEPT !.pc = "got", !.mode = mode, !.snapStatus = status,
                         !.snapDigested = digested, !.snapScanned = scannedAt # Unset]
  <2>0. /\ mode \in AllModes /\ status \in Statuses /\ digested \in BOOLEAN
        /\ (scannedAt # Unset) \in BOOLEAN
    BY <1>0, ConstantsAssumption DEF TypeOK
  <2>1. local \in RoundState
    BY <2>0, IdleTypes DEF RoundState
  <2> QED
    BY <1>0, <1>1, <2>1, MoveType DEF Get, TypeOK, stored
<1>2. ASSUME Refuse(r) \/ LoseCommit(r) \/ Crash(r) PROVE TypeOK'
  <2>1. round' \in [Rounds -> RoundState]
    BY <1>0, <1>2, IdleTypes, MoveType DEF Refuse, LoseCommit, Crash
  <2> QED
    BY <1>0, <1>2, <2>1 DEF Refuse, LoseCommit, Crash, TypeOK, stored
<1>3. ASSUME Start(r) PROVE TypeOK'
  <2>1. [round[r] EXCEPT !.pc = "scanning"] \in RoundState
    BY <1>0 DEF RoundState
  <2>2. round' \in [Rounds -> RoundState]
    BY <1>0, <1>3, <2>1, MoveType DEF Start
  <2> QED
    BY <1>0, <1>3, <2>2 DEF Start, TypeOK, Statuses
<1>4. ASSUME Collect(r) PROVE TypeOK'
  <2>2. PICK failing \in SUBSET RoundScanners(r), partial \in SUBSET Ids,
             resolved \in BOOLEAN, seen \in Seen(fleet) :
          Move(r, Collected(r, failing, partial, resolved, seen))
    BY <1>0, <1>4, CollectMoves, Zenon
  <2>a. Reported(RoundScanners(r) \ failing) \cup partial \in SUBSET Ids
    BY <1>0 DEF Reported, TypeOK
  <2>b. Fixable(r, failing) \in SUBSET Ids /\ clock + 1 \in Nat
    BY <1>0 DEF Fixable, TypeOK
  <2>c. /\ (failing = RoundScanners(r)) \in BOOLEAN
        /\ Digested(r, resolved) \in BOOLEAN
    BY <1>0 DEF Digested, TypeOK, RoundState
  <2>4. seen \in [Ids -> Assertions]
    BY <1>0, SeenType DEF TypeOK
  <2>5. round' \in [Rounds -> RoundState]
    BY <1>0, <2>2, <2>a, <2>b, <2>c, <2>4, MoveType DEF RoundState, Collected
  <2> QED
    BY <1>0, <1>4, <2>5 DEF Collect, TypeOK, stored
<1>5. ASSUME ReadDocument(r) PROVE TypeOK'
  <2>1. PICK seen \in Seen(doc) :
          Move(r, [round[r] EXCEPT !.pc = "ready", !.vex = Layered(round[r].vex, seen)])
    BY <1>5 DEF ReadDocument
  <2>2. Layered(round[r].vex, seen) \in [Ids -> Assertions]
    BY <1>0, SeenType, LayeredType DEF TypeOK, RoundState
  <2>3. round' \in [Rounds -> RoundState]
    BY <1>0, <2>1, <2>2, MoveType DEF RoundState
  <2> QED
    BY <1>0, <1>5, <2>3 DEF ReadDocument, TypeOK, stored
<1>6. ASSUME Commit(r) PROVE TypeOK'
  <2>1. [IdleRound EXCEPT !.pc = "done", !.news = News(r)] \in RoundState
    BY IdleTypes DEF RoundState, News
  <2>2. round' \in [Rounds -> RoundState]
    BY <1>0, <1>6, <2>1, MoveType DEF Commit
  <2>3. findings' \in [Ids -> Finding]
    BY <1>6, CommitMerges DEF MergeStep
  <2>4. status' \in Statuses /\ digested' \in BOOLEAN /\ scannedAt' \in Nat
    BY <1>0, <1>6 DEF Commit, TypeOK, RoundState, RestoredStatus, Statuses
  <2> QED
    BY <1>0, <1>6, <2>2, <2>3, <2>4 DEF Commit, TypeOK
<1>7. ASSUME Announce(r) PROVE TypeOK'
  <2>1. round' \in [Rounds -> RoundState]
    BY <1>0, <1>7, IdleTypes, MoveType DEF Announce
  <2> QED
    BY <1>0, <1>7, <2>1 DEF Announce, TypeOK, stored
<1>8. ASSUME Panic(r) PROVE TypeOK'
  <2>1. round' \in [Rounds -> RoundState]
    BY <1>0, <1>8, IdleTypes, MoveType DEF Panic
  <2> QED
    BY <1>0, <1>8, <2>1 DEF Panic, TypeOK, Statuses
<1> QED
  BY <1>1, <1>2, <1>3, <1>4, <1>5, <1>6, <1>7, <1>8 DEF RoundNext
LEMMA BeginType ==
  ASSUME TypeOK, NEW c \in Clients, NEW op \in {"submit", "vex", "fleet", "license"},
         NEW owned \in SUBSET Ids, NEW found \in SUBSET Ids,
         NEW vex \in [Ids -> Assertions], Begin(c, op, owned, found, vex)
  PROVE  /\ client' \in [Clients -> ClientState] /\ clock' \in Nat
         /\ round' = round /\ crashes' = crashes /\ notified' = notified
  BY DEF TypeOK, Begin, ClientState

LEMMA RequestType ==
  ASSUME IInv, NEW c \in Clients, ClientNext(c), UNCHANGED present
  PROVE  TypeOK'
<1>0. TypeOK /\ client[c] \in ClientState
  BY DEF IInv, TypeOK
<1>1. ASSUME Submit(c) PROVE TypeOK'
  <2>1. PICK owned \in SUBSET Ids, found \in SUBSET Ids, seen \in Seen(doc) :
          Begin(c, "submit", owned, found, seen)
    <3>1. PICK bucket \in BucketNames :
            \E found \in SUBSET {id \in Ids : Bucket[id] = bucket}, seen \in Seen(doc) :
              Begin(c, "submit", {id \in Ids : Bucket[id] = bucket}, found, seen)
      BY <1>1 DEF Submit
    <3> QED
      BY <3>1
  <2>2. seen \in [Ids -> Assertions]
    BY <1>0, SeenType DEF TypeOK
  <2> QED
    BY <1>0, <1>1, <2>1, <2>2, BeginType DEF Submit, TypeOK, stored
<1>2. ASSUME SaveVEX(c) \/ SaveFleetVEX(c) PROVE TypeOK'
  <2>1. PICK d \in Documents, op \in {"vex", "fleet"} :
          /\ Begin(c, op, Ids, {}, d) /\ Record(d)
          /\ doc' = d \/ doc' = doc
          /\ fleet' = fleet \/ fleet' = Layered(fleet, d)
    BY <1>2 DEF SaveVEX, SaveFleetVEX
  <2>2. d \in [Ids -> Assertions] /\ doc' \in [Ids -> Assertions] /\ fleet' \in [Ids -> Assertions]
    BY <1>0, <2>1, LayeredType, ConstantsAssumption DEF TypeOK
  <2>3. asserted' \in [Ids -> SUBSET Assertions]
    BY <1>0, <2>1, <2>2 DEF Record, TypeOK
  <2>4. client' \in [Clients -> ClientState] /\ clock' \in Nat
        /\ round' = round /\ crashes' = crashes /\ notified' = notified
    BY <1>0, <2>1, <2>2, BeginType
  <2> QED
    BY <1>0, <1>2, <2>2, <2>3, <2>4 DEF SaveVEX, SaveFleetVEX, TypeOK
<1>3. ASSUME ReadForFleet(c) PROVE TypeOK'
  <2>1. PICK seen \in Seen(doc) :
          client' = [client EXCEPT ![c].pc = "fleet_read",
                                   ![c].vex = Layered(client[c].vex, seen)]
    BY <1>3 DEF ReadForFleet
  <2>2. Layered(client[c].vex, seen) \in [Ids -> Assertions]
    BY <1>0, SeenType, LayeredType DEF TypeOK, ClientState
  <2>3. client' \in [Clients -> ClientState]
    BY <1>0, <2>1, <2>2 DEF TypeOK, ClientState
  <2> QED
    BY <1>0, <1>3, <2>3 DEF ReadForFleet, TypeOK, stored
<1>4. ASSUME IndexSBOM(c) PROVE TypeOK'
  <2>1. PICK found \in SUBSET License, seen \in Seen(doc) :
          Begin(c, "license", License, found, seen)
    BY <1>4 DEF IndexSBOM
  <2>2. seen \in [Ids -> Assertions] /\ found \in SUBSET Ids /\ License \in SUBSET Ids
    BY <1>0, SeenType, ConstantsAssumption DEF TypeOK
  <2> QED
    BY <1>0, <1>4, <2>1, <2>2, BeginType DEF IndexSBOM, TypeOK
<1>5. ASSUME ApplySubmission(c) \/ ApplyVEXDocument(c) \/ ApplyLicenses(c) PROVE TypeOK'
  <2>1. findings' \in [Ids -> Finding]
    BY <1>5, RequestMerges DEF MergeStep
  <2>2. client' \in [Clients -> ClientState]
    BY <1>0, <1>5, IdleTypes
       DEF ApplySubmission, ApplyVEXDocument, ApplyLicenses, Finish, TypeOK
  <2>3. status' \in Statuses /\ scannedAt' \in Nat
    BY <1>0, <1>5
       DEF ApplySubmission, ApplyVEXDocument, ApplyLicenses, TypeOK, Statuses, ClientState
  <2> QED
    BY <1>0, <1>5, <2>1, <2>2, <2>3
       DEF ApplySubmission, ApplyVEXDocument, ApplyLicenses, Finish, TypeOK
<1>6. ASSUME LoseRequest(c) PROVE TypeOK'
  BY <1>0, <1>6, IdleTypes DEF LoseRequest, TypeOK, stored
<1> QED
  BY <1>1, <1>2, <1>3, <1>4, <1>5, <1>6 DEF ClientNext

LEMMA TypePreserved == IInv /\ [Next]_vars => TypeOK'
<1> SUFFICES ASSUME IInv, [Next]_vars PROVE TypeOK'
  OBVIOUS
<1>0. TypeOK
  BY DEF IInv
<1>1. ASSUME NEW id \in Ids, NEW accepted \in BOOLEAN, SetAcceptance(id, accepted),
             UNCHANGED present
      PROVE  TypeOK'
  <2>1. [findings[id] EXCEPT !.accepted = accepted] \in Finding
    BY <1>0 DEF TypeOK, Finding
  <2>2. findings' \in [Ids -> Finding]
    BY <1>0, <1>1, <2>1 DEF SetAcceptance, TypeOK
  <2> QED
    BY <1>0, <1>1, <2>2 DEF SetAcceptance, TypeOK
<1>2. ASSUME Delete, UNCHANGED present PROVE TypeOK'
  <2>1. Untracked \in Finding
    BY DEF Untracked, Finding, FindingStatuses, Unset
  <2> QED
    BY <1>0, <1>2, <2>1, NoStatementsType DEF Delete, TypeOK
<1>3. CASE UNCHANGED vars
  BY <1>0, <1>3 DEF vars, stored, TypeOK
<1> QED
  BY <1>1, <1>2, <1>3, RoundType, RequestType DEF Next
-----------------------------------------------------------------------------
(* The refinement, and what a finding inherits from it.                    *)

LEMMA MergeRefines ==
  ASSUME MergeStep, exists, UNCHANGED <<exists, asserted>>
  PROVE  Lifecycle!Merge
<1>1. Lifecycle!Finding = Finding
  BY DEF Lifecycle!Finding, Finding, Lifecycle!FindingStatuses, FindingStatuses
<1> QED
  BY <1>1 DEF MergeStep, Lifecycle!Merge

\* Every step of a round or of a request is a step of the lifecycle, or
\* leaves the findings, the documents on record and the artifact alone.
LEMMA StepRefines == IInv /\ [Next]_vars => [Lifecycle!Next]_(Lifecycle!lifecycle)
<1> SUFFICES ASSUME IInv, [Next]_vars
             PROVE  Lifecycle!Next \/ UNCHANGED <<exists, findings, asserted>>
  BY DEF Lifecycle!lifecycle
<1>0. TypeOK
  BY DEF IInv
<1>1. ASSUME NEW r \in Rounds, RoundNext(r)
      PROVE  Lifecycle!Next \/ UNCHANGED <<exists, findings, asserted>>
  <2>1. CASE Commit(r)
    BY <2>1, CommitMerges, MergeRefines DEF Commit, Lifecycle!Next
  <2>2. CASE ~Commit(r)
    BY <1>1, <2>2 DEF RoundNext, Get, Refuse, Start, Collect, ReadDocument, Announce,
                      LoseCommit, Panic, Crash, stored
  <2> QED
    BY <2>1, <2>2
<1>2. ASSUME NEW c \in Clients, ClientNext(c)
      PROVE  Lifecycle!Next \/ UNCHANGED <<exists, findings, asserted>>
  <2>1. CASE ApplySubmission(c) \/ ApplyVEXDocument(c) \/ ApplyLicenses(c)
    <3>1. exists /\ UNCHANGED <<exists, asserted>>
      BY <2>1 DEF ApplySubmission, ApplyVEXDocument, ApplyLicenses, Finish
    <3> QED
      BY <2>1, <3>1, RequestMerges, MergeRefines DEF Lifecycle!Next
  <2>2. CASE SaveVEX(c) \/ SaveFleetVEX(c)
    <3>1. PICK d \in Documents : Record(d)
      BY <2>2 DEF SaveVEX, SaveFleetVEX
    <3>2. /\ asserted' \in [Ids -> SUBSET Assertions]
          /\ \A id \in Ids : asserted[id] \subseteq asserted'[id]
      BY <1>0, <3>1, ConstantsAssumption DEF Record, TypeOK
    <3>3. UNCHANGED <<exists, findings>>
      BY <2>2 DEF SaveVEX, SaveFleetVEX
    <3>4. Lifecycle!Assert
      BY <3>2, <3>3 DEF Lifecycle!Assert, Lifecycle!Assertions, Assertions
    <3> QED
      BY <3>4 DEF Lifecycle!Next
  <2>3. CASE Submit(c) \/ ReadForFleet(c) \/ IndexSBOM(c) \/ LoseRequest(c)
    BY <2>3 DEF Submit, ReadForFleet, IndexSBOM, LoseRequest, stored
  <2> QED
    BY <1>2, <2>1, <2>2, <2>3 DEF ClientNext
<1>3. ASSUME NEW id \in Ids, NEW accepted \in BOOLEAN, SetAcceptance(id, accepted)
      PROVE  Lifecycle!Next
  BY <1>3 DEF SetAcceptance, Tracked, Lifecycle!Tracked, Lifecycle!Next, Lifecycle!Decide
<1>4. ASSUME Delete PROVE Lifecycle!Next
  BY <1>4 DEF Delete, Untracked, Unset, Lifecycle!Untracked, Lifecycle!Unset,
              Lifecycle!Next, Lifecycle!Delete
<1>5. CASE UNCHANGED vars
  BY <1>5 DEF vars, stored
<1> QED
  BY <1>1, <1>2, <1>3, <1>4, <1>5 DEF Next

\* A suppression, and a justification, is one that some document asserted.
Vouched(id) ==
  /\ findings[id].status = "not_affected" => "not_affected" \in asserted[id]
  /\ findings[id].justified => findings[id].status \in asserted[id]

\* Findings stay well formed and vouched for, as a step of the lifecycle
\* lets them be.
LEMMA FindingsKept ==
  ASSUME IInv, [Next]_vars, NEW id \in Ids
  PROVE  Lifecycle!WellFormed(findings[id])' /\ Vouched(id)'
<1>1. Lifecycle!WellFormed(findings[id]) /\ Vouched(id) /\ findings \in [Ids -> Finding]
      /\ asserted \in [Ids -> SUBSET Assertions]
  BY DEF IInv, OverlaysAreAsserted, Vouched, TypeOK
<1>2. CASE Lifecycle!Assert
  BY <1>1, <1>2 DEF Lifecycle!Assert, Vouched, Lifecycle!WellFormed
<1>3. CASE Lifecycle!Merge
  <2>1. asserted' = asserted
    BY <1>3 DEF Lifecycle!Merge
  <2>2. CASE findings'[id] = findings[id]
    BY <1>1, <2>1, <2>2 DEF Vouched, Lifecycle!WellFormed
  <2>3. CASE Lifecycle!Evolves(id, findings[id], findings'[id])
    <3>1. Lifecycle!WellFormed(findings'[id])
      BY <2>3 DEF Lifecycle!Evolves
    <3>2. CASE Lifecycle!Tracked(findings[id])
      BY <1>1, <2>1, <2>3, <3>1, <3>2
         DEF Lifecycle!Evolves, Lifecycle!Moved, Lifecycle!WellFormed, Vouched
    <3>3. CASE ~Lifecycle!Tracked(findings[id])
      BY <2>1, <2>3, <3>1, <3>3
         DEF Lifecycle!Evolves, Lifecycle!Discovered, Lifecycle!WellFormed, Vouched
    <3> QED
      BY <3>2, <3>3
  <2> QED
    BY <1>3, <2>2, <2>3 DEF Lifecycle!Merge
<1>4. CASE Lifecycle!Decide
  <2>1. PICK i \in Ids, accepted \in BOOLEAN :
          findings' = [findings EXCEPT ![i].accepted = accepted]
    BY <1>4 DEF Lifecycle!Decide
  <2>2. /\ findings'[id].status = findings[id].status
        /\ findings'[id].justified = findings[id].justified
        /\ findings'[id].resolvedAt = findings[id].resolvedAt
    BY <1>1, <2>1 DEF Finding
  <2> QED
    BY <1>1, <1>4, <2>2 DEF Lifecycle!Decide, Vouched, Lifecycle!WellFormed
<1>5. CASE Lifecycle!Delete
  BY <1>5 DEF Lifecycle!Delete, Vouched, Lifecycle!WellFormed, Lifecycle!Untracked,
              Lifecycle!Unset
<1>6. CASE UNCHANGED <<exists, findings, asserted>>
  BY <1>1, <1>6 DEF Vouched, Lifecycle!WellFormed
<1> QED
  BY <1>2, <1>3, <1>4, <1>5, <1>6, StepRefines DEF Lifecycle!Next, Lifecycle!lifecycle

-----------------------------------------------------------------------------
(* What a round and a request carry from one access to the next.           *)

\* A document every statement of which somebody uploaded.
Backed(vex) == \A id \in Ids : vex[id] \in asserted[id] \cup {"silent"}

Running(r) == round[r].pc \in {"scanning", "collected", "ready"}

LEMMA BackedSeen ==
  ASSUME NEW d \in [Ids -> Assertions], NEW seen \in Seen(d), Backed(d)
  PROVE  Backed(seen) /\ seen \in [Ids -> Assertions]
  BY SeenType DEF Backed

LEMMA BackedLayers ==
  ASSUME NEW f \in [Ids -> Assertions], NEW d \in [Ids -> Assertions],
         Backed(f), Backed(d)
  PROVE  Backed(Layered(f, d))
<1>1. \A id \in Ids : Layered(f, d)[id] \in {f[id], d[id]}
  BY LayeredType, Zenon
<1> QED
  BY <1>1 DEF Backed

\* A round's step concerns that round alone and no document, and leaves the
\* round with backed statements and what its Update relies on.
LEMMA RoundCarries ==
  ASSUME IInv, NEW r \in Rounds, RoundNext(r), UNCHANGED present
  PROVE  /\ \A q \in Rounds : q # r => round'[q] = round[q]
         /\ UNCHANGED <<client, doc, fleet, asserted>>
         /\ Backed(round'[r].vex)
         /\ CarriedByRound(r)'
<1> USE DEF Move
<1>0. /\ TypeOK /\ round[r] \in RoundState /\ round \in [Rounds -> RoundState]
      /\ Backed(round[r].vex) /\ Backed(doc) /\ Backed(fleet) /\ CarriedByRound(r)
      /\ round[r].vex \in [Ids -> Assertions]
      /\ doc \in [Ids -> Assertions] /\ fleet \in [Ids -> Assertions]
  BY DEF IInv, TypeOK, OverlaysAreAsserted, Backed, RoundState
<1>1. UNCHANGED <<client, doc, fleet, asserted>>
  BY DEF RoundNext, Get, Refuse, Start, Collect, ReadDocument, Commit, Announce,
         LoseCommit, Panic, Crash, stored
<1>2. \A q \in Rounds : q # r => round'[q] = round[q]
  BY <1>0 DEF RoundNext, Get, Refuse, Start, Collect, ReadDocument, Commit, Announce,
              LoseCommit, Panic, Crash
<1>3. ASSUME round'[r].vex = NoStatements, round'[r].pc \notin {"collected", "ready"}
      PROVE  Backed(round'[r].vex) /\ CarriedByRound(r)'
  BY <1>3, NoStatementsType DEF Backed, CarriedByRound
<1>4. CASE Collect(r)
  <2>1. PICK failing \in SUBSET RoundScanners(r), partial \in SUBSET Ids,
             resolved \in BOOLEAN, seen \in Seen(fleet) :
          Move(r, Collected(r, failing, partial, resolved, seen))
    BY <1>0, <1>4, CollectMoves, Zenon
  <2>2. /\ round'[r].vex = seen /\ round'[r].now = clock + 1
        /\ round'[r].mode = round[r].mode
        /\ round'[r].fixable = Fixable(r, failing)
        /\ round'[r].found = Reported(RoundScanners(r) \ failing) \cup partial
    BY <1>0, <2>1 DEF RoundState, Collected
  <2>3. Backed(seen)
    BY <1>0, BackedSeen
  <2>4. round'[r].now # Unset
    BY <1>0, <2>2 DEF TypeOK, Unset
  <2>5. round'[r].mode = "sbom-only" => round'[r].fixable = {}
    BY <2>2 DEF Fixable
  <2>6. ASSUME round'[r].mode = "full", NEW s \in Scanners, Declares(s),
               NEW id \in Covers[s] \cap present
        PROVE  id \in round'[r].found \/ id \notin round'[r].fixable
    <3>1. CASE s \in failing
      BY <2>2, <2>6, <3>1 DEF Fixable, Declares
    <3>2. CASE s \notin failing
      BY <2>2, <2>6, <3>2 DEF Reported, RoundScanners
    <3> QED
      BY <3>1, <3>2
  <2> QED
    BY <2>2, <2>3, <2>4, <2>5, <2>6, <1>1, <1>2 DEF CarriedByRound, Backed
<1>5. CASE ReadDocument(r)
  <2>1. PICK seen \in Seen(doc) :
          round'[r] = [round[r] EXCEPT !.pc = "ready", !.vex = Layered(round[r].vex, seen)]
    BY <1>0, <1>5 DEF ReadDocument
  <2>2. /\ round'[r].vex = Layered(round[r].vex, seen)
        /\ round'[r].now = round[r].now /\ round'[r].mode = round[r].mode
        /\ round'[r].fixable = round[r].fixable /\ round'[r].found = round[r].found
    BY <1>0, <2>1 DEF RoundState
  <2>3. Backed(Layered(round[r].vex, seen))
    BY <1>0, BackedSeen, BackedLayers
  <2> QED
    BY <1>0, <1>1, <1>2, <1>5, <2>2, <2>3 DEF ReadDocument, CarriedByRound, Backed
<1>6. CASE Start(r)
  <2>1. round'[r].vex = round[r].vex /\ round'[r].pc = "scanning"
    BY <1>0, <1>6 DEF Start, RoundState
  <2> QED
    BY <1>0, <1>1, <1>2, <2>1 DEF Backed, CarriedByRound
<1>7. CASE \E mode \in Modes : Get(r, mode)
  BY <1>0, <1>1, <1>2, <1>3, <1>7 DEF Get, IdleRound
<1>8. CASE Commit(r)
  BY <1>0, <1>1, <1>2, <1>3, <1>8 DEF Commit, IdleRound
<1>9. CASE Refuse(r) \/ Announce(r) \/ LoseCommit(r) \/ Panic(r) \/ Crash(r)
  BY <1>0, <1>1, <1>2, <1>3, <1>9
     DEF Refuse, Announce, LoseCommit, Panic, Crash, IdleRound
<1> QED
  BY <1>4, <1>5, <1>6, <1>7, <1>8, <1>9 DEF RoundNext

\* While an artifact reads "scanning" and nothing was lost, a round is at
\* work on it, whatever any one round does next.
LEMMA RoundKeepsRunning ==
  ASSUME IInv, NEW r \in Rounds, RoundNext(r)
  PROVE  ScanningMeansRunning'
<1> USE DEF Move
<1> SUFFICES ASSUME exists', crashes' = 0, status' = "scanning"
             PROVE  \E q \in Rounds : Running(q)'
  BY DEF ScanningMeansRunning, Running
<1>0. TypeOK /\ round \in [Rounds -> RoundState] /\ crashes \in Nat
  BY DEF IInv, TypeOK
<1>1. exists
  BY DEF RoundNext, Get, Refuse, Start, Collect, ReadDocument, Commit, Announce,
         LoseCommit, Panic, Crash, stored
<1>2. ASSUME status = "scanning", crashes = 0, ~Running(r),
             \A q \in Rounds : q # r => round'[q] = round[q]
      PROVE  \E q \in Rounds : Running(q)'
  BY <1>1, <1>2 DEF IInv, ScanningMeansRunning, Running
<1>3. CASE Start(r) \/ Collect(r) \/ ReadDocument(r)
  <2>1. Start(r) => round'[r].pc = "scanning"
    BY <1>0 DEF Start, RoundState, TypeOK
  <2>2. ASSUME Collect(r) PROVE round'[r].pc = "collected"
    <3>1. PICK failing \in SUBSET RoundScanners(r), partial \in SUBSET Ids,
               resolved \in BOOLEAN, seen \in Seen(fleet) :
            Move(r, Collected(r, failing, partial, resolved, seen))
      BY <1>0, <2>2, CollectMoves, Zenon
    <3> QED
      BY <1>0, <3>1 DEF Collected, RoundState, TypeOK
  <2>3. ReadDocument(r) => round'[r].pc = "ready"
    BY <1>0 DEF ReadDocument, RoundState, TypeOK
  <2> QED
    BY <1>3, <2>1, <2>2, <2>3 DEF Running
<1>4. CASE Commit(r)
  BY <1>4 DEF Commit, RestoredStatus
<1>5. CASE LoseCommit(r) \/ Crash(r)
  BY <1>0, <1>1, <1>5 DEF LoseCommit, Crash
<1>6. CASE Panic(r)
  BY <1>1, <1>6 DEF Panic
<1>7. CASE (\E mode \in Modes : Get(r, mode)) \/ Refuse(r) \/ Announce(r)
  BY <1>0, <1>2, <1>7 DEF Get, Refuse, Announce, Running, stored
<1> QED
  BY <1>3, <1>4, <1>5, <1>6, <1>7 DEF RoundNext

\* A request's first access: it is stamped, and holds the statements given.
LEMMA BeginCarries ==
  ASSUME TypeOK, NEW c \in Clients, NEW op, NEW owned, NEW found, NEW vex,
         Begin(c, op, owned, found, vex)
  PROVE  client'[c].vex = vex /\ CarriedByClient(c)'
  BY DEF Begin, TypeOK, CarriedByClient, Unset

\* A request's step concerns that request alone and no round, starts no
\* scan, and leaves backed statements wherever it writes one.
LEMMA RequestCarries ==
  ASSUME IInv, NEW c \in Clients, ClientNext(c)
  PROVE  /\ \A d \in Clients : d # c => client'[d] = client[d]
         /\ UNCHANGED <<round, exists>>
         /\ status' = "scanning" => status = "scanning"
         /\ crashes' = 0 => crashes = 0
         /\ Backed(client[c].vex)' /\ Backed(doc)' /\ Backed(fleet)'
         /\ CarriedByClient(c)'
<1>0. /\ TypeOK /\ client[c] \in ClientState /\ client \in [Clients -> ClientState]
      /\ Backed(client[c].vex) /\ Backed(doc) /\ Backed(fleet) /\ CarriedByClient(c)
      /\ client[c].vex \in [Ids -> Assertions]
      /\ doc \in [Ids -> Assertions] /\ fleet \in [Ids -> Assertions]
      /\ crashes \in Nat
  BY DEF IInv, TypeOK, OverlaysAreAsserted, Backed, ClientState
<1>1. /\ \A d \in Clients : d # c => client'[d] = client[d]
      /\ UNCHANGED <<round, exists>>
      /\ status' = "scanning" => status = "scanning"
      /\ crashes' = 0 => crashes = 0
  BY <1>0 DEF ClientNext, Submit, ApplySubmission, SaveVEX, SaveFleetVEX, ReadForFleet,
              ApplyVEXDocument, IndexSBOM, ApplyLicenses, LoseRequest, Begin, Finish, stored
<1>2. CASE Submit(c) \/ IndexSBOM(c)
  <2>1. /\ \E op, owned, found : \E seen \in Seen(doc) : Begin(c, op, owned, found, seen)
        /\ UNCHANGED <<doc, fleet, asserted>>
    BY <1>2, Zenon DEF Submit, IndexSBOM, stored
  <2>2. PICK seen \in Seen(doc) : \E op, owned, found : Begin(c, op, owned, found, seen)
    BY <2>1
  <2>3. client'[c].vex = seen /\ CarriedByClient(c)'
    BY <1>0, <2>2, BeginCarries
  <2>4. Backed(seen)
    BY <1>0, BackedSeen
  <2> QED
    BY <1>0, <1>1, <2>1, <2>3, <2>4 DEF Backed
<1>3. CASE SaveVEX(c) \/ SaveFleetVEX(c)
  <2>1. PICK d \in Documents, op \in {"vex", "fleet"} :
          /\ Begin(c, op, Ids, {}, d) /\ Record(d)
          /\ doc' = d \/ doc' = doc
          /\ fleet' = fleet \/ fleet' = Layered(fleet, d)
    BY <1>3 DEF SaveVEX, SaveFleetVEX
  <2>2. client'[c].vex = d /\ CarriedByClient(c)'
    BY <1>0, <2>1, BeginCarries
  <2>3. d \in [Ids -> Assertions] /\ \A id \in Ids : Layered(fleet, d)[id] \in {fleet[id], d[id]}
    BY <1>0, LayeredType, ConstantsAssumption
  <2> QED
    BY <1>0, <1>1, <2>1, <2>2, <2>3 DEF Backed, Record
<1>4. CASE ReadForFleet(c)
  <2>1. PICK seen \in Seen(doc) :
          client' = [client EXCEPT ![c].pc = "fleet_read",
                                   ![c].vex = Layered(client[c].vex, seen)]
    BY <1>4 DEF ReadForFleet
  <2>2. client'[c].vex = Layered(client[c].vex, seen) /\ client'[c].now = client[c].now
    BY <1>0, <2>1 DEF ClientState
  <2>3. Backed(Layered(client[c].vex, seen))
    BY <1>0, BackedSeen, BackedLayers
  <2> QED
    BY <1>0, <1>1, <1>4, <2>2, <2>3 DEF ReadForFleet, stored, Backed, CarriedByClient
<1>5. CASE ApplySubmission(c) \/ ApplyVEXDocument(c) \/ ApplyLicenses(c) \/ LoseRequest(c)
  <2>1. client'[c] = IdleClient /\ UNCHANGED <<doc, fleet, asserted>>
    BY <1>0, <1>5 DEF ApplySubmission, ApplyVEXDocument, ApplyLicenses, LoseRequest,
                      Finish, stored
  <2> QED
    BY <1>0, <1>1, <2>1, NoStatementsType DEF IdleClient, Backed, CarriedByClient
<1> QED
  BY <1>2, <1>3, <1>4, <1>5 DEF ClientNext

-----------------------------------------------------------------------------
(* The invariant.                                                          *)

LEMMA InitInv == Init => IInv
<1> SUFFICES ASSUME Init PROVE IInv
  OBVIOUS
<1>1. TypeOK
  BY InitType
<1>2. OverlaysAreAsserted
  BY NoStatementsType DEF Init, OverlaysAreAsserted, IdleRound, IdleClient, Untracked
<1>3. \A id \in Ids : Lifecycle!WellFormed(findings[id])
  BY DEF Init, Untracked, Lifecycle!WellFormed, Lifecycle!Unset, Unset
<1> QED
  BY <1>1, <1>2, <1>3
     DEF Init, IInv, CarriedByRound, CarriedByClient, ScanningMeansRunning, IdleRound, IdleClient

\* The parts of the invariant about documents and what is carried.
Carried ==
  /\ Backed(doc) /\ Backed(fleet)
  /\ \A r \in Rounds : Backed(round[r].vex) /\ CarriedByRound(r)
  /\ \A c \in Clients : Backed(client[c].vex) /\ CarriedByClient(c)
  /\ ScanningMeansRunning

LEMMA CarriedKept == IInv /\ [Next]_vars => Carried'
<1> SUFFICES ASSUME IInv, [Next]_vars PROVE Carried'
  OBVIOUS
<1>0. Carried
  BY DEF IInv, OverlaysAreAsserted, Backed, Carried
<1>1. \A id \in Ids : asserted[id] \subseteq asserted'[id]
  BY StepRefines
     DEF Lifecycle!Next, Lifecycle!lifecycle, Lifecycle!Assert, Lifecycle!Merge,
         Lifecycle!Decide, Lifecycle!Delete
<1>2. ASSUME NEW r \in Rounds, RoundNext(r), UNCHANGED present PROVE Carried'
  <2>1. /\ \A q \in Rounds : q # r => round'[q] = round[q]
        /\ UNCHANGED <<client, doc, fleet, asserted>>
        /\ Backed(round'[r].vex) /\ CarriedByRound(r)'
    BY <1>2, RoundCarries
  <2>2. \A q \in Rounds : Backed(round'[q].vex) /\ CarriedByRound(q)'
    BY <1>0, <1>2, <2>1 DEF Carried, CarriedByRound
  <2>3. ScanningMeansRunning'
    BY <1>2, RoundKeepsRunning
  <2> QED
    BY <1>0, <2>1, <2>2, <2>3 DEF Carried, Backed, CarriedByClient
<1>3. ASSUME NEW c \in Clients, ClientNext(c), UNCHANGED present PROVE Carried'
  <2>1. /\ \A d \in Clients : d # c => client'[d] = client[d]
        /\ UNCHANGED <<round, exists>>
        /\ status' = "scanning" => status = "scanning"
        /\ crashes' = 0 => crashes = 0
        /\ Backed(client[c].vex)' /\ Backed(doc)' /\ Backed(fleet)'
        /\ CarriedByClient(c)'
    BY <1>3, RequestCarries
  <2>2. \A d \in Clients : Backed(client[d].vex)' /\ CarriedByClient(d)'
    BY <1>0, <1>1, <2>1 DEF Carried, CarriedByClient, Backed
  <2>3. \A r \in Rounds : Backed(round[r].vex)' /\ CarriedByRound(r)'
    BY <1>0, <1>1, <1>3, <2>1 DEF Carried, CarriedByRound, Backed
  <2>4. ScanningMeansRunning'
    BY <1>0, <2>1 DEF Carried, ScanningMeansRunning
  <2> QED
    BY <2>1, <2>2, <2>3, <2>4 DEF Carried
<1>4. ASSUME NEW id \in Ids, NEW accepted \in BOOLEAN, SetAcceptance(id, accepted),
             UNCHANGED present
      PROVE  Carried'
  BY <1>0, <1>4 DEF SetAcceptance, Carried, Backed, CarriedByRound, CarriedByClient,
                    ScanningMeansRunning
<1>5. ASSUME Delete, UNCHANGED present PROVE Carried'
  BY <1>0, <1>5, NoStatementsType DEF Delete, Carried, Backed, CarriedByRound,
                                      CarriedByClient, ScanningMeansRunning
<1>6. CASE UNCHANGED vars
  BY <1>0, <1>6 DEF vars, stored, Carried, Backed, CarriedByRound, CarriedByClient,
                    ScanningMeansRunning
<1> QED
  BY <1>2, <1>3, <1>4, <1>5, <1>6 DEF Next

LEMMA NextInv == IInv /\ [Next]_vars => IInv'
<1> SUFFICES ASSUME IInv, [Next]_vars PROVE IInv'
  OBVIOUS
<1>1. TypeOK'
  BY TypePreserved
<1>2. Carried'
  BY CarriedKept
<1>3. \A id \in Ids : Lifecycle!WellFormed(findings[id])' /\ Vouched(id)'
  BY FindingsKept
<1>4. OverlaysAreAsserted'
  BY <1>2, <1>3 DEF Carried, Vouched, Backed, OverlaysAreAsserted
<1> QED
  BY <1>1, <1>2, <1>3, <1>4 DEF IInv, Carried

\* The invariant holds however many rounds and requests overlap: types,
\* well-formed findings, and what every handler carries from its reads to
\* its Update.
THEOREM Invariant == Spec => []IInv
  BY InitInv, NextInv, PTL DEF Spec

-----------------------------------------------------------------------------
(* What the invariant gives.                                               *)

\* MergeFindings' trust boundary: nothing but an uploaded document makes a
\* suppression or its justification, and no handler holds a statement that
\* no document made.
THEOREM Overlays == Spec => []OverlaysAreAsserted
<1>1. IInv => OverlaysAreAsserted
  BY DEF IInv
<1> QED
  BY <1>1, Invariant, PTL

\* The handlers together implement the lifecycle of a finding: whatever
\* scans, submissions, documents, decisions and crashes do, and in whatever
\* order, each finding moves by the transitions the service promises.
THEOREM RefinesLifecycle == Spec => LifecycleSpec
<1>1. Init => Lifecycle!Init
  BY DEF Init, Lifecycle!Init, Untracked, Lifecycle!Untracked, Unset, Lifecycle!Unset
<1> QED
  BY <1>1, StepRefines, Invariant, PTL DEF Spec, LifecycleSpec, Lifecycle!Spec

\* With every round over and nothing lost, the artifact does not read
\* "scanning", although sbom-only rounds write back a status they read
\* before other rounds began or ended.
THEOREM NoneStranded == Spec => []NotStranded
<1>1. IInv => NotStranded
  BY DEF IInv, ScanningMeansRunning, NotStranded
<1> QED
  BY <1>1, Invariant, PTL

-----------------------------------------------------------------------------
(* What a round may conclude.                                              *)

\* A finding the merge itself resolved was owned by the merge, absent from
\* the report and in the reach of fix detection.
LEMMA ConcludedByMerge ==
  ASSUME NEW owned, NEW found, NEW now, NEW fixable, NEW vex, NEW id \in Ids,
         findings' = MergePartition(findings, owned, found, now, fixable, vex),
         ConcludesFixed(id, vex)
  PROVE  id \notin found /\ id \in fixable
<1>1. findings'[id] # findings[id] /\ findings[id].status = "open"
  BY DEF ConcludesFixed
<1>2. id \in owned
  BY <1>1 DEF MergePartition
<1>3. findings'[id] = MergeRecorded(findings[id], id \in found, now, id \in fixable, vex[id])
  BY <1>1, <1>2 DEF MergePartition, MergeFinding, Tracked
<1>4. CASE vex[id] \in Suppressing
  <2>1. findings'[id] = ApplyVEX(findings[id], vex[id], now)
    BY <1>3, <1>4 DEF MergeRecorded, Retracts, Suppressing
  <2> QED
    BY <1>4, <2>1 DEF ConcludesFixed, ApplyVEX, Suppressing
<1>5. CASE vex[id] \notin Suppressing
  <2>1. ~Retracts(findings[id], vex[id])
    BY <1>1 DEF Retracts
  <2> QED
    BY <1>1, <1>3, <1>5, <2>1 DEF MergeRecorded, StillReported, Reopened, ConcludesFixed
<1> QED
  BY <1>4, <1>5

\* Only a round's Update takes it from "ready" to "done".
LEMMA CommitsIsCommit ==
  ASSUME IInv, [Next]_vars, NEW r \in Rounds, Commits(r)
  PROVE  Commit(r)
<1>0. round \in [Rounds -> RoundState] /\ round[r] \in RoundState
  BY DEF IInv, TypeOK
<1>1. ASSUME NEW q \in Rounds, RoundNext(q), UNCHANGED present PROVE Commit(r)
  <2>1. q = r
    BY <1>1, RoundCarries DEF Commits
  <2>2. CASE Commit(q)
    BY <2>1, <2>2
  <2>3. CASE Collect(q)
    BY <2>1, <2>3 DEF Collect, Commits
  <2>4. CASE ReadDocument(q) \/ Start(q)
    BY <2>1, <2>4 DEF ReadDocument, Start, Commits
  <2>5. ASSUME NEW mode \in Modes, Get(q, mode) PROVE FALSE
    <3>1. round'[r].pc = "got"
      BY <1>0, <2>1, <2>5 DEF Get, Move, IdleRound
    <3> QED
      BY <3>1 DEF Commits
  <2>6. ASSUME Refuse(q) \/ Announce(q) \/ LoseCommit(q) \/ Panic(q) \/ Crash(q)
        PROVE  FALSE
    <3>1. round'[r] = IdleRound
      BY <1>0, <2>1, <2>6 DEF Refuse, Announce, LoseCommit, Panic, Crash, Move
    <3> QED
      BY <3>1 DEF Commits, IdleRound
  <2> QED
    BY <1>1, <2>2, <2>3, <2>4, <2>5, <2>6 DEF RoundNext
<1>2. ASSUME NEW c \in Clients, ClientNext(c) PROVE FALSE
  BY <1>2, RequestCarries DEF Commits
<1>3. ASSUME NEW id \in Ids, NEW accepted \in BOOLEAN, SetAcceptance(id, accepted)
      PROVE  FALSE
  BY <1>3 DEF SetAcceptance, Commits
<1>4. ASSUME Delete PROVE FALSE
  BY <1>4 DEF Delete, Commits
<1>5. CASE UNCHANGED vars
  BY <1>5 DEF vars, Commits
<1> QED
  BY <1>1, <1>2, <1>3, <1>4, <1>5 DEF Next

\* A full round never declares fixed a finding that is still there and that
\* one of its scanners can report, whichever scanners failed -- if every
\* scanner declares the buckets it writes to.
THEOREM FixesAreReal ==
  ASSUME \A s \in Scanners : Declares(s)
  PROVE  Spec => NoFalseFix
<1> DEFINE Kept == \A r \in Rounds : Commits(r) /\ round[r].mode = "full" =>
                     \A s \in Scanners : \A id \in Covers[s] \cap present :
                       ~ConcludesFixed(id, round[r].vex)
<1>1. IInv /\ [Next]_vars => Kept
  <2> SUFFICES ASSUME IInv, [Next]_vars, NEW r \in Rounds, Commits(r),
                      round[r].mode = "full", NEW s \in Scanners,
                      NEW id \in Covers[s] \cap present, ConcludesFixed(id, round[r].vex)
               PROVE  FALSE
    BY Zenon
  <2>1. Commit(r)
    BY CommitsIsCommit
  <2>2. id \in round[r].found \/ id \notin round[r].fixable
    BY DEF IInv, CarriedByRound, Commits
  <2>3. id \in Ids
    BY DEF IInv, TypeOK
  <2> QED
    BY <2>1, <2>2, <2>3, ConcludedByMerge DEF Commit
<1> QED
  BY <1>1, Invariant, PTL DEF Spec, NoFalseFix

\* An sbom-only re-evaluation resolves nothing and touches no bucket but
\* "cve".
THEOREM ReevaluationResolvesNothing == Spec => SBOMOnlyIsConservative
<1> DEFINE Kept == \A r \in Rounds : Commits(r) /\ round[r].mode = "sbom-only" =>
                     \A id \in Ids : /\ ~ConcludesFixed(id, round[r].vex)
                                     /\ id \notin CVE => findings'[id] = findings[id]
<1>1. IInv /\ [Next]_vars => Kept
  <2> SUFFICES ASSUME IInv, [Next]_vars, NEW r \in Rounds, Commits(r),
                      round[r].mode = "sbom-only", NEW id \in Ids
               PROVE  /\ ~ConcludesFixed(id, round[r].vex)
                      /\ id \notin CVE => findings'[id] = findings[id]
    BY Zenon
  <2>1. Commit(r)
    BY CommitsIsCommit
  <2>2. round[r].fixable = {}
    BY DEF IInv, CarriedByRound, Commits
  <2>3. ~ConcludesFixed(id, round[r].vex)
    BY <2>1, <2>2, ConcludedByMerge DEF Commit
  <2>4. id \notin CVE => findings'[id] = findings[id]
    BY <2>1 DEF Commit, RoundOwns, MergePartition
  <2> QED
    BY <2>3, <2>4
<1> QED
  BY <1>1, Invariant, PTL DEF Spec, SBOMOnlyIsConservative

-----------------------------------------------------------------------------
(* What is announced.                                                      *)

\* While its artifact lives, a finding on record stays there with its date.
LEMMA DatesKept ==
  ASSUME IInv, [Next]_vars, exists', NEW id \in Ids, Tracked(findings[id])
  PROVE  exists /\ Tracked(findings'[id]) /\ findings'[id].firstSeen = findings[id].firstSeen
<1> USE DEF Tracked, Lifecycle!Tracked
<1>0. findings \in [Ids -> Finding]
  BY DEF IInv, TypeOK
<1>1. CASE Lifecycle!Assert \/ UNCHANGED <<exists, findings, asserted>>
  BY <1>1 DEF Lifecycle!Assert
<1>2. CASE Lifecycle!Merge
  <2>1. exists /\ (findings'[id] = findings[id] \/ Lifecycle!Evolves(id, findings[id], findings'[id]))
    BY <1>2 DEF Lifecycle!Merge
  <2> QED
    BY <2>1 DEF Lifecycle!Evolves, Lifecycle!Moved, Lifecycle!Suppressing
<1>3. CASE Lifecycle!Decide
  BY <1>0, <1>3 DEF Lifecycle!Decide, Finding
<1>4. ~Lifecycle!Delete
  BY DEF Lifecycle!Delete
<1> QED
  BY <1>1, <1>2, <1>3, <1>4, StepRefines DEF Lifecycle!Next, Lifecycle!lifecycle

\* A merge dates what it discovers with its own stamp, and nothing else.
LEMMA MergeDates ==
  ASSUME NEW owned, NEW found, NEW now, NEW fixable, NEW vex, NEW id \in Ids,
         findings \in [Ids -> Finding],
         findings' = MergePartition(findings, owned, found, now, fixable, vex)
  PROVE  findings'[id].firstSeen \in {findings[id].firstSeen, now}
<1> USE DEF Finding
<1>1. findings'[id] = findings[id]
      \/ findings'[id] = MergeFinding(findings[id], id \in found, now, id \in fixable, vex[id])
  BY DEF MergePartition
<1>2. MergeRecorded(findings[id], id \in found, now, id \in fixable, vex[id]).firstSeen
        = findings[id].firstSeen
  BY DEF MergeRecorded, ApplyVEX, Reopened, StillReported, Resolved
<1>3. MergeNew(now, vex[id]).firstSeen = now
  BY DEF MergeNew, NewFinding, ApplyVEX, Untracked
<1> QED
  BY <1>1, <1>2, <1>3 DEF MergeFinding

\* The other steps of a round stamp nothing and find no news.
LEMMA QuietMoves ==
  ASSUME TypeOK, NEW r \in Rounds, RoundNext(r), ~Collect(r), ~Commit(r)
  PROVE  /\ round'[r].now \in {round[r].now, Unset}
         /\ round'[r].news \subseteq round[r].news
         /\ Carries(r)' => Carries(r) /\ round'[r].now = round[r].now
         /\ UNCHANGED <<clock, exists, findings>>
<1> USE DEF Move, Carries, stored
<1>0. round[r] \in RoundState /\ round \in [Rounds -> RoundState]
  BY DEF TypeOK
<1>1. CASE Start(r)
  BY <1>0, <1>1 DEF Start, RoundState
<1>2. CASE ReadDocument(r)
  <2>1. PICK seen : round' = [round EXCEPT ![r] = [round[r] EXCEPT
                       !.pc = "ready", !.vex = Layered(round[r].vex, seen)]]
    BY <1>2 DEF ReadDocument
  <2>2. UNCHANGED stored /\ clock' = clock /\ round[r].pc = "collected"
    BY <1>2 DEF ReadDocument
  <2> QED
    BY <1>0, <2>1, <2>2 DEF RoundState
<1>3. CASE \E mode \in Modes : Get(r, mode)
  <2>1. PICK mode \in Modes : Get(r, mode)
    BY <1>3
  <2>2. round'[r].now = Unset /\ round'[r].news = {} /\ round'[r].pc = "got"
    BY <1>0, <2>1 DEF Get, IdleRound
  <2> QED
    BY <2>1, <2>2 DEF Get
<1>4. CASE Refuse(r) \/ Announce(r) \/ LoseCommit(r) \/ Panic(r) \/ Crash(r)
  <2>1. round'[r] = IdleRound
    BY <1>0, <1>4 DEF Refuse, Announce, LoseCommit, Panic, Crash
  <2>2. round'[r].now = Unset /\ round'[r].news = {} /\ round'[r].pc = "idle"
    BY <2>1 DEF IdleRound
  <2> QED
    BY <1>4, <2>2 DEF Refuse, Announce, LoseCommit, Panic, Crash
<1> QED
  BY <1>1, <1>2, <1>3, <1>4 DEF RoundNext

\* What a step of a round may do to the clock, the stamps and the dates.
LEMMA RoundStamps ==
  ASSUME IInv, StampsAreDistinct, NEW r \in Rounds, RoundNext(r), UNCHANGED present
  PROVE  /\ clock' \in Nat /\ clock <= clock'
         /\ round'[r].now <= clock'
         /\ Carries(r)' => \/ Carries(r) /\ round'[r].now = round[r].now
                           \/ clock < round'[r].now
         /\ \A id \in Ids : findings'[id].firstSeen <= clock'
<1> USE DEF Move
<1>0. /\ TypeOK /\ round[r] \in RoundState /\ round \in [Rounds -> RoundState]
      /\ clock \in Nat /\ round[r].now \in Nat /\ round[r].now <= clock
      /\ findings \in [Ids -> Finding] /\ \A id \in Ids : findings[id].firstSeen <= clock
  BY DEF IInv, TypeOK, RoundState, StampsAreDistinct
<1>1. CASE Collect(r)
  <2>1. PICK failing \in SUBSET RoundScanners(r), partial \in SUBSET Ids,
             resolved \in BOOLEAN, seen \in Seen(fleet) :
          Move(r, Collected(r, failing, partial, resolved, seen))
    BY <1>0, <1>1, CollectMoves, Zenon
  <2>2. round'[r].now = clock + 1 /\ clock' = clock + 1 /\ findings' = findings
    BY <1>0, <1>1, <2>1 DEF Collected, RoundState, Collect, stored
  <2> QED
    BY <1>0, <2>2 DEF Finding
<1>2. CASE Commit(r)
  <2>1. round'[r].now = Unset /\ round'[r].pc = "done" /\ clock' = clock
    BY <1>0, <1>2 DEF Commit, IdleRound
  <2>2. ASSUME NEW id \in Ids PROVE findings'[id].firstSeen <= clock
    <3>1. findings'[id].firstSeen \in {findings[id].firstSeen, round[r].now}
      BY <1>0, <1>2, MergeDates DEF Commit
    <3> QED
      BY <1>0, <3>1
  <2> QED
    BY <1>0, <2>1, <2>2 DEF Carries, Unset
<1>3. CASE ~Collect(r) /\ ~Commit(r)
  <2>1. /\ round'[r].now \in {round[r].now, Unset}
        /\ Carries(r)' => Carries(r) /\ round'[r].now = round[r].now
        /\ UNCHANGED <<clock, exists, findings>>
    BY <1>0, <1>3, QuietMoves
  <2> QED
    BY <1>0, <2>1 DEF Unset
<1> QED
  BY <1>1, <1>2, <1>3

\* The same for a step of a request, which leaves all rounds alone.
LEMMA RequestStamps ==
  ASSUME IInv, StampsAreDistinct, NEW c \in Clients, ClientNext(c)
  PROVE  /\ clock' \in Nat /\ clock <= clock'
         /\ client'[c].now <= clock'
         /\ UNCHANGED notified
         /\ \A id \in Ids : findings'[id].firstSeen <= clock'
<1>0. /\ TypeOK /\ client[c] \in ClientState /\ client \in [Clients -> ClientState]
      /\ clock \in Nat /\ client[c].now \in Nat /\ client[c].now <= clock
      /\ findings \in [Ids -> Finding] /\ \A id \in Ids : findings[id].firstSeen <= clock
      /\ \A id \in Ids : findings[id].firstSeen \in Nat
  BY DEF IInv, TypeOK, ClientState, Finding, StampsAreDistinct
<1>1. CASE Submit(c) \/ SaveVEX(c) \/ SaveFleetVEX(c) \/ IndexSBOM(c)
  <2>1. findings' = findings
    BY <1>1 DEF Submit, SaveVEX, SaveFleetVEX, IndexSBOM, stored
  <2>2. \E op, owned, found, vex : Begin(c, op, owned, found, vex)
    BY <1>1, Zenon DEF Submit, SaveVEX, SaveFleetVEX, IndexSBOM
  <2>3. clock' = clock + 1 /\ client'[c].now = clock + 1 /\ notified' = notified
    BY <1>0, <2>2 DEF Begin
  <2> QED
    BY <1>0, <2>1, <2>3
<1>2. CASE ApplySubmission(c) \/ ApplyVEXDocument(c) \/ ApplyLicenses(c)
  <2>1. client'[c] = IdleClient /\ clock' = clock /\ notified' = notified
    BY <1>0, <1>2 DEF ApplySubmission, ApplyVEXDocument, ApplyLicenses, Finish
  <2>2. \E owned, found, fixable :
          findings' = MergePartition(findings, owned, found, client[c].now, fixable, client[c].vex)
    BY <1>2, Zenon DEF ApplySubmission, ApplyVEXDocument, ApplyLicenses, ApplyDocument
  <2>3. \A id \in Ids : findings'[id].firstSeen \in {findings[id].firstSeen, client[c].now}
    BY <1>0, <2>2, MergeDates
  <2> QED
    BY <1>0, <2>1, <2>3 DEF IdleClient, Unset
<1>3. CASE ReadForFleet(c) \/ LoseRequest(c)
  <2>1. /\ client'[c].now \in {client[c].now, Unset}
        /\ clock' = clock /\ findings' = findings /\ notified' = notified
    BY <1>0, <1>3 DEF ReadForFleet, LoseRequest, IdleClient, ClientState, stored
  <2> QED
    BY <1>0, <2>1 DEF Unset
<1> QED
  BY <1>1, <1>2, <1>3 DEF ClientNext

LEMMA StampsKept ==
  ASSUME IInv, StampsAreDistinct, [Next]_vars
  PROVE  StampsAreDistinct'
<1>0. TypeOK /\ clock \in Nat /\ \A r \in Rounds : round[r].now \in Nat
      /\ \A c \in Clients : client[c].now \in Nat
  BY DEF IInv, TypeOK, RoundState, ClientState
<1>1. ASSUME NEW r \in Rounds, RoundNext(r), UNCHANGED present PROVE StampsAreDistinct'
  <2>1. /\ \A q \in Rounds : q # r => round'[q] = round[q]
        /\ client' = client
    BY <1>1, RoundCarries
  <2>2. /\ clock' \in Nat /\ clock <= clock'
        /\ round'[r].now <= clock'
        /\ Carries(r)' => \/ Carries(r) /\ round'[r].now = round[r].now
                          \/ clock < round'[r].now
        /\ \A id \in Ids : findings'[id].firstSeen <= clock'
    BY <1>1, RoundStamps
  <2>3. \A q \in Rounds : round'[q].now <= clock'
    BY <1>0, <2>1, <2>2 DEF StampsAreDistinct
  <2>4. \A c \in Clients : client'[c].now <= clock'
    BY <1>0, <2>1, <2>2 DEF StampsAreDistinct
  <2>5. ASSUME NEW q \in Rounds, q # r, Carries(q)', Carries(r)'
        PROVE  round'[q].now # round'[r].now
    <3>1. round'[q] = round[q] /\ Carries(q) /\ round[q].now <= clock
      BY <2>1, <2>5 DEF Carries, StampsAreDistinct
    <3> QED
      BY <1>0, <2>2, <2>5, <3>1 DEF StampsAreDistinct
  <2>6. \A q, p \in Rounds : Carries(q)' /\ Carries(p)' /\ round'[q].now = round'[p].now => q = p
    BY <2>1, <2>5 DEF StampsAreDistinct, Carries
  <2> QED
    BY <2>2, <2>3, <2>4, <2>6 DEF StampsAreDistinct
<1>2. ASSUME NEW c \in Clients, ClientNext(c) PROVE StampsAreDistinct'
  <2>1. /\ \A d \in Clients : d # c => client'[d] = client[d]
        /\ round' = round
    BY <1>2, RequestCarries
  <2>2. /\ clock' \in Nat /\ clock <= clock'
        /\ client'[c].now <= clock'
        /\ \A id \in Ids : findings'[id].firstSeen <= clock'
    BY <1>2, RequestStamps
  <2>3. \A d \in Clients : client[d].now <= clock /\ client[d].now \in Nat
    BY DEF IInv, TypeOK, ClientState, StampsAreDistinct
  <2>5. ASSUME NEW d \in Clients PROVE client'[d].now <= clock'
    BY <1>0, <2>1, <2>2, <2>3
  <2>4. \A q \in Rounds : round'[q].now <= clock'
    BY <1>0, <2>1, <2>2 DEF StampsAreDistinct
  <2> QED
    BY <2>1, <2>2, <2>4, <2>5 DEF StampsAreDistinct, Carries
<1>3. ASSUME NEW i \in Ids, NEW accepted \in BOOLEAN, SetAcceptance(i, accepted)
      PROVE  StampsAreDistinct'
  <2>1. \A id \in Ids : findings'[id].firstSeen = findings[id].firstSeen
    BY <1>3 DEF SetAcceptance, IInv, TypeOK, Finding
  <2> QED
    BY <1>3, <2>1 DEF SetAcceptance, StampsAreDistinct, Carries
<1>4. ASSUME Delete PROVE StampsAreDistinct'
  BY <1>0, <1>4 DEF Delete, StampsAreDistinct, Carries, Untracked, Unset
<1>5. CASE UNCHANGED vars
  BY <1>5 DEF vars, stored, StampsAreDistinct, Carries
<1> QED
  BY <1>1, <1>2, <1>3, <1>4, <1>5 DEF Next

\* A step that moves no round and announces nothing.
LEMMA AnnouncedStays ==
  ASSUME IInv, [Next]_vars, UNCHANGED <<round, notified>>, NEW id \in Ids,
         AnnouncedIsSettled(id)
  PROVE  AnnouncedIsSettled(id)'
<1>1. Announced(id)' = Announced(id)
  BY DEF Announced
<1>2. exists' /\ Announced(id) =>
        /\ Tracked(findings'[id])
        /\ \A r \in Rounds : Carries(r) => round[r].now # findings'[id].firstSeen
  <2> SUFFICES ASSUME exists', Announced(id)
               PROVE  /\ Tracked(findings'[id])
                      /\ \A r \in Rounds : Carries(r) => round[r].now # findings'[id].firstSeen
    OBVIOUS
  <2>1. exists
    BY StepRefines DEF Lifecycle!Next, Lifecycle!lifecycle, Lifecycle!Assert,
                       Lifecycle!Merge, Lifecycle!Decide, Lifecycle!Delete
  <2>2. Tracked(findings[id]) /\ \A r \in Rounds : Carries(r) => round[r].now # findings[id].firstSeen
    BY <2>1 DEF AnnouncedIsSettled
  <2> QED
    BY <2>2, DatesKept
<1> QED
  BY <1>1, <1>2 DEF AnnouncedIsSettled, Carries

\* A round's step: only its Update finds news, and only with a stamp that
\* nobody else carries; only its announcement counts them.
LEMMA RoundAnnounces ==
  ASSUME IInv, StampsAreDistinct, NEW r \in Rounds, RoundNext(r), UNCHANGED present, NEW id \in Ids,
         AnnouncedIsSettled(id)
  PROVE  AnnouncedIsSettled(id)'
<1> USE DEF Move
<1>0. /\ TypeOK /\ round[r] \in RoundState /\ round \in [Rounds -> RoundState]
      /\ clock \in Nat /\ notified \in [Ids -> Nat] /\ notified[id] \in Nat
      /\ [Next]_vars
  BY DEF IInv, TypeOK, Next
<1>1. \A q \in Rounds : q # r => round'[q] = round[q]
  BY RoundCarries
<1>2. CASE Commit(r)
  <2>1. /\ round'[r].news = News(r) /\ round'[r].pc = "done" /\ notified' = notified
        /\ exists /\ round[r].pc = "ready"
    BY <1>0, <1>2 DEF Commit, IdleRound
  <2>2. ~Carries(r)'
    BY <2>1 DEF Carries
  <2>3. \A q \in Rounds \ {r} : Carries(q)' => Carries(q) /\ round'[q].now = round[q].now
                                                      /\ round'[q].now # round[r].now
    BY <1>1, <2>1 DEF Carries, StampsAreDistinct
  <2>4. CASE Announced(id)
    <3>1. /\ Tracked(findings[id])
          /\ \A q \in Rounds : Carries(q) => round[q].now # findings[id].firstSeen
      BY <2>1, <2>4 DEF AnnouncedIsSettled
    <3>2. exists'
      BY <1>2 DEF Commit
    <3>3. Tracked(findings'[id]) /\ findings'[id].firstSeen = findings[id].firstSeen
      BY <1>0, <3>1, <3>2, DatesKept
    <3>4. id \notin round'[r].news
      BY <2>1, <3>1, <3>3 DEF News, Carries
    <3> QED
      BY <1>1, <2>1, <2>2, <2>3, <3>1, <3>3, <3>4 DEF AnnouncedIsSettled, Announced
  <2>5. CASE ~Announced(id)
    <3>1. notified'[id] = 0 /\ \A q \in Rounds \ {r} : id \notin round'[q].news
      BY <1>0, <1>1, <2>1, <2>5 DEF Announced
    <3>2. id \in round'[r].news =>
            Tracked(findings'[id]) /\ findings'[id].firstSeen = round[r].now
      BY <2>1 DEF News, Tracked
    <3> QED
      BY <2>2, <2>3, <3>1, <3>2 DEF AnnouncedIsSettled, Announced
  <2> QED
    BY <2>4, <2>5
<1>3. CASE ~Commit(r)
  <2>1. UNCHANGED <<exists, findings>>
    BY <1>3 DEF RoundNext, Get, Refuse, Start, Collect, ReadDocument, Announce,
                LoseCommit, Panic, Crash, stored
  <2>2. \A q \in Rounds : Carries(q)' /\ round'[q].now = findings[id].firstSeen
          => Carries(q) /\ round[q].now = findings[id].firstSeen
    <3> SUFFICES ASSUME Carries(r)', round'[r].now = findings[id].firstSeen
                 PROVE  Carries(r) /\ round[r].now = findings[id].firstSeen
      BY <1>1 DEF Carries
    <3>1. findings[id].firstSeen <= clock /\ findings[id].firstSeen \in Nat
      BY <1>0 DEF StampsAreDistinct, TypeOK, Finding
    <3> QED
      BY <1>0, <3>1, RoundStamps
  <2>3. CASE Announce(r)
    <3>1. /\ round'[r].news = {}
          /\ notified'[id] = IF id \in round[r].news THEN notified[id] + 1 ELSE notified[id]
      BY <1>0, <2>3 DEF Announce, IdleRound
    <3>2. CASE id \in round[r].news
      <4>1. notified[id] = 0 /\ \A q \in Rounds \ {r} : id \notin round[q].news
        BY <1>0, <3>2 DEF AnnouncedIsSettled
      <4>2. notified'[id] = 1 /\ \A q \in Rounds : id \notin round'[q].news
        BY <1>1, <3>1, <3>2, <4>1
      <4>3. Announced(id)
        BY <3>2 DEF Announced
      <4> QED
        BY <2>1, <2>2, <4>2, <4>3 DEF AnnouncedIsSettled
    <3>3. CASE id \notin round[r].news
      <4>1. notified'[id] = notified[id]
            /\ \A q \in Rounds : id \in round'[q].news => id \in round[q].news
        BY <1>1, <3>1, <3>3
      <4>2. Announced(id)' => Announced(id)
        BY <4>1 DEF Announced
      <4> QED
        BY <2>1, <2>2, <4>1, <4>2 DEF AnnouncedIsSettled
    <3> QED
      BY <3>2, <3>3
  <2>4. CASE ~Announce(r)
    <3>1. notified' = notified
      BY <1>3, <2>4 DEF RoundNext, Get, Refuse, Start, Collect, ReadDocument,
                        LoseCommit, Panic, Crash
    <3>2. round'[r].news \subseteq round[r].news
      <4>1. CASE Collect(r)
        <5>1. PICK failing \in SUBSET RoundScanners(r), partial \in SUBSET Ids,
                   resolved \in BOOLEAN, seen \in Seen(fleet) :
                Move(r, Collected(r, failing, partial, resolved, seen))
          BY <1>0, <4>1, CollectMoves, Zenon
        <5> QED
          BY <1>0, <5>1 DEF Collected, RoundState
      <4> QED
        BY <1>0, <1>3, <4>1, QuietMoves
    <3>3. \A q \in Rounds : id \in round'[q].news => id \in round[q].news
      BY <1>1, <3>2
    <3>4. Announced(id)' => Announced(id)
      BY <3>1, <3>3 DEF Announced
    <3> QED
      BY <2>1, <2>2, <3>1, <3>3, <3>4 DEF AnnouncedIsSettled
  <2> QED
    BY <2>3, <2>4
<1> QED
  BY <1>2, <1>3

LEMMA AnnouncementStep ==
  IInv /\ AnnouncementInv /\ [Next]_vars => AnnouncementInv'
<1> SUFFICES ASSUME IInv, AnnouncementInv, [Next]_vars, NEW id \in Ids
             PROVE  AnnouncedIsSettled(id)'
  BY StampsKept DEF AnnouncementInv
<1>0. StampsAreDistinct /\ AnnouncedIsSettled(id)
  BY DEF AnnouncementInv
<1>1. ASSUME NEW r \in Rounds, RoundNext(r), UNCHANGED present
      PROVE  AnnouncedIsSettled(id)'
  BY <1>0, <1>1, RoundAnnounces
<1>2. ASSUME NEW c \in Clients, ClientNext(c)
      PROVE  AnnouncedIsSettled(id)'
  BY <1>0, <1>2, RequestCarries, RequestStamps, AnnouncedStays
<1>3. ASSUME UNCHANGED <<round, notified>>
      PROVE  AnnouncedIsSettled(id)'
  BY <1>0, <1>3, AnnouncedStays
<1> QED
  BY <1>1, <1>2, <1>3 DEF Next, SetAcceptance, Delete, vars

LEMMA AnnouncementInit == Init => AnnouncementInv
BY DEF Init, AnnouncementInv, StampsAreDistinct, AnnouncedIsSettled, Announced, Carries,
       IdleRound, IdleClient, Untracked, Unset

\* A finding is announced as new at most once, however many rounds overlap,
\* crash or panic around its announcement.
THEOREM AnnouncesOnce == Spec => []AnnouncedOnce
<1>1. Spec => []AnnouncementInv
  BY AnnouncementInit, AnnouncementStep, Invariant, PTL DEF Spec
<1>2. AnnouncementInv => AnnouncedOnce
  BY DEF AnnouncementInv, AnnouncedIsSettled, AnnouncedOnce
<1> QED
  BY <1>1, <1>2, PTL

-----------------------------------------------------------------------------
(* What a document governs.                                                *)

\* The merge of a finding under a statement about it follows the statement.
LEMMA MergeFollows ==
  ASSUME NEW f \in Finding, NEW reported \in BOOLEAN, NEW now,
         NEW detectFixed \in BOOLEAN, NEW statement \in Assertions
  PROVE  LET new == MergeFinding(f, reported, now, detectFixed, statement)
         IN  /\ statement \in Suppressing => new.status # "open"
             /\ statement = "affected" => new.status # "not_affected"
<1> USE DEF Finding, Suppressing
<1>1. CASE ~Tracked(f)
  <2>1. f.status = "untracked"
    BY <1>1 DEF Tracked
  <2>2. NewFinding(now).status = "open"
    BY DEF NewFinding, Untracked
  <2>3. ApplyVEX(NewFinding(now), statement, now).status = statement
    BY DEF ApplyVEX, NewFinding, Untracked
  <2> QED
    BY <1>1, <2>1, <2>2, <2>3 DEF MergeFinding, MergeNew
<1>2. CASE Tracked(f) /\ statement \in Suppressing
  <2>1. MergeFinding(f, reported, now, detectFixed, statement) = ApplyVEX(f, statement, now)
    BY <1>2 DEF MergeFinding, MergeRecorded, Retracts
  <2>2. ApplyVEX(f, statement, now).status = statement
    BY DEF ApplyVEX
  <2> QED
    BY <1>2, <2>1, <2>2
<1>3. CASE Tracked(f) /\ statement = "affected"
  <2>1. /\ Reopened(f).status = "open" /\ Resolved(f, now).status = "fixed"
        /\ StillReported(f).status = IF f.status = "not_affected" THEN "not_affected" ELSE "open"
    BY DEF Reopened, Resolved, StillReported
  <2>2. CASE f.status = "not_affected"
    <3>1. MergeFinding(f, reported, now, detectFixed, statement) = Reopened(f)
      BY <1>3, <2>2 DEF MergeFinding, MergeRecorded, Retracts
    <3> QED
      BY <1>3, <2>1, <3>1
  <2>3. CASE f.status # "not_affected"
    <3>1. MergeFinding(f, reported, now, detectFixed, statement)
            \in {StillReported(f), Resolved(f, now), f}
      BY <1>3, <2>3 DEF MergeFinding, MergeRecorded, Retracts
    <3> QED
      BY <1>3, <2>1, <2>3, <3>1
  <2> QED
    BY <2>2, <2>3
<1> QED
  BY <1>1, <1>2, <1>3

\* A merge that holds what the document says leaves what it owns obeying
\* the document, and the rest as it was.
LEMMA MergeObeys ==
  ASSUME NEW owned, NEW found, NEW now, NEW fixable, NEW vex, Follows(vex),
         findings \in [Ids -> Finding], doc \in [Ids -> Assertions], doc' = doc,
         findings' = MergePartition(findings, owned, found, now, fixable, vex),
         NEW id \in Ids, id \in owned \/ Obeys(id)
  PROVE  Obeys(id)'
<1> DEFINE new == MergeFinding(findings[id], id \in found, now, id \in fixable, vex[id])
<1>1. CASE id \notin owned
  BY <1>1 DEF MergePartition, Obeys
<1>2. CASE id \in owned /\ doc[id] = "silent"
  BY <1>2 DEF Obeys, Suppressing
<1>3. CASE id \in owned /\ doc[id] # "silent"
  <2>1. findings'[id] = new /\ vex[id] = doc[id]
    BY <1>3 DEF MergePartition, Follows
  <2>2. findings[id] \in Finding /\ vex[id] \in Assertions
        /\ (id \in found) \in BOOLEAN /\ (id \in fixable) \in BOOLEAN
    BY <2>1
  <2>3. /\ vex[id] \in Suppressing => new.status # "open"
        /\ vex[id] = "affected" => new.status # "not_affected"
    BY <2>2, MergeFollows, Zenon
  <2> QED
    BY <2>1, <2>3 DEF Obeys
<1> QED
  BY <1>1, <1>2, <1>3

\* What is read without an error, alone or over the fleet's statements, is
\* what the document says.
LEMMA ReadFollows ==
  ASSUME ~ReadErrors, doc \in [Ids -> Assertions], NEW seen \in Seen(doc), NEW f
  PROVE  Follows(seen) /\ Follows(Layered(f, seen))
<1>1. seen = doc
  BY DEF Seen
<1> QED
  BY <1>1 DEF Follows, Layered

LEMMA RoundIsFaithful ==
  ASSUME IInv, Faithful, ~ReadErrors, NEW r \in Rounds, RoundNext(r), UNCHANGED present, exists'
  PROVE  Faithful'
<1> USE DEF Move
<1>0. /\ TypeOK /\ round[r] \in RoundState /\ round \in [Rounds -> RoundState]
      /\ findings \in [Ids -> Finding] /\ doc \in [Ids -> Assertions]
  BY DEF IInv, TypeOK
<1>1. /\ \A q \in Rounds : q # r => round'[q] = round[q]
      /\ UNCHANGED <<client, doc>>
  BY RoundCarries
<1>2. exists
  BY DEF RoundNext, Get, Refuse, Start, Collect, ReadDocument, Commit, Announce,
         LoseCommit, Panic, Crash, stored
<1>3. round'[r].pc = "ready" => Follows(round'[r].vex)
  <2>1. CASE ReadDocument(r)
    <3>1. PICK seen \in Seen(doc) : round' = [round EXCEPT ![r] = [round[r] EXCEPT
                       !.pc = "ready", !.vex = Layered(round[r].vex, seen)]]
      BY <2>1 DEF ReadDocument
    <3>2. round'[r].vex = Layered(round[r].vex, seen)
      BY <1>0, <3>1 DEF RoundState
    <3> QED
      BY <1>0, <3>2, ReadFollows
  <2>2. CASE Collect(r)
    <3>1. PICK failing \in SUBSET RoundScanners(r), partial \in SUBSET Ids,
               resolved \in BOOLEAN, seen \in Seen(fleet) :
            Move(r, Collected(r, failing, partial, resolved, seen))
      BY <1>0, <2>2, CollectMoves, Zenon
    <3> QED
      BY <1>0, <3>1 DEF Collected, RoundState
  <2>3. CASE Start(r)
    BY <1>0, <2>3 DEF Start, RoundState
  <2>4. CASE \E mode \in Modes : Get(r, mode)
    BY <1>0, <2>4 DEF Get, IdleRound
  <2>5. CASE Commit(r) \/ Refuse(r) \/ Announce(r) \/ LoseCommit(r) \/ Panic(r) \/ Crash(r)
    <3>1. CASE Commit(r)
      <4>1. round'[r].pc = "done"
        BY <1>0, <3>1 DEF Commit, IdleRound
      <4> QED
        BY <4>1
    <3>2. CASE ~Commit(r)
      <4>1. round'[r] = IdleRound
        BY <1>0, <2>5, <3>2 DEF Refuse, Announce, LoseCommit, Panic, Crash
      <4> QED
        BY <4>1 DEF IdleRound
    <3> QED
      BY <3>1, <3>2
  <2> QED
    BY <2>1, <2>2, <2>3, <2>4, <2>5 DEF RoundNext
<1>4. ASSUME NEW id \in Ids, Obeys(id) PROVE Obeys(id)'
  <2>1. CASE Commit(r)
    <3>1. Follows(round[r].vex)
      BY <1>2, <2>1 DEF Commit, Faithful
    <3> QED
      BY <1>0, <1>1, <1>4, <2>1, <3>1, MergeObeys DEF Commit
  <2>2. CASE ~Commit(r)
    <3>1. findings' = findings
      BY <2>2 DEF RoundNext, Get, Refuse, Start, Collect, ReadDocument, Announce,
                  LoseCommit, Panic, Crash, stored
    <3> QED
      BY <1>1, <1>4, <3>1 DEF Obeys
  <2> QED
    BY <2>1, <2>2
<1>5. \A q \in Rounds : round'[q].pc = "ready" => Follows(round'[q].vex)
  BY <1>1, <1>2, <1>3 DEF Faithful
<1> QED
  BY <1>1, <1>2, <1>4, <1>5 DEF Faithful, Follows, Read

LEMMA RequestIsFaithful ==
  ASSUME IInv, Faithful, ~ReadErrors, Calm, NEW c \in Clients, ClientNext(c), exists'
  PROVE  Faithful'
<1>0. /\ TypeOK /\ client[c] \in ClientState /\ client \in [Clients -> ClientState]
      /\ findings \in [Ids -> Finding] /\ doc \in [Ids -> Assertions]
  BY DEF IInv, TypeOK
<1>1. /\ \A d \in Clients : d # c => client'[d] = client[d]
      /\ round' = round /\ exists
  BY RequestCarries
<1>2. CASE Submit(c) \/ IndexSBOM(c) \/ ReadForFleet(c)
  <2>1. UNCHANGED <<doc, findings>> /\ client[c].pc # "vex"
    BY <1>2 DEF Submit, IndexSBOM, ReadForFleet, Begin, stored
  <2>2. Follows(client'[c].vex)
    <3>1. CASE Submit(c) \/ IndexSBOM(c)
      <4>1. PICK seen \in Seen(doc) : \E op, owned, found : Begin(c, op, owned, found, seen)
        BY <3>1, Zenon DEF Submit, IndexSBOM
      <4>2. client'[c].vex = seen
        BY <1>0, <4>1 DEF Begin
      <4> QED
        BY <1>0, <4>2, ReadFollows
    <3>2. CASE ReadForFleet(c)
      <4>1. PICK seen \in Seen(doc) :
              client' = [client EXCEPT ![c].pc = "fleet_read",
                                       ![c].vex = Layered(client[c].vex, seen)]
        BY <3>2 DEF ReadForFleet
      <4>2. client'[c].vex = Layered(client[c].vex, seen)
        BY <1>0, <4>1 DEF ClientState
      <4> QED
        BY <1>0, <4>2, ReadFollows
    <3> QED
      BY <1>2, <3>1, <3>2
  <2>3. \A d \in Clients : Read(d)' => Follows(client'[d].vex)
    BY <1>1, <2>2 DEF Faithful, Read
  <2>4. \A d \in Clients : client[d].pc = "vex" => client'[d].pc = "vex"
    BY <1>1, <2>1
  <2> QED
    BY <1>1, <2>1, <2>3, <2>4 DEF Faithful, Follows, Obeys, Read
<1>3. CASE SaveVEX(c)
  <2>1. PICK d : Begin(c, "vex", Ids, {}, d) /\ doc' = d
    BY <1>3 DEF SaveVEX
  <2>2. client'[c].vex = doc' /\ client'[c].pc = "vex"
    BY <1>0, <2>1 DEF Begin
  <2>3. CASE doc' = doc
    <3>1. \A b \in Clients : Read(b)' => Follows(client[b].vex)'
      BY <1>1, <2>2, <2>3 DEF Faithful, Read, Follows
    <3>2. \A r \in Rounds : round'[r].pc = "ready" => Follows(round[r].vex)'
      BY <1>1, <2>3 DEF Faithful, Follows
    <3> QED
      BY <2>2, <3>1, <3>2 DEF Faithful
  <2>4. CASE doc' # doc
    <3>1. \A r \in Rounds : round'[r].pc # "ready"
      BY <1>1, <2>4 DEF Calm
    <3>2. \A b \in Clients : Read(b)' => b = c
      BY <1>1, <2>4 DEF Calm, Read
    <3> QED
      BY <2>2, <3>1, <3>2 DEF Faithful, Follows
  <2> QED
    BY <2>3, <2>4
<1>4. CASE SaveFleetVEX(c)
  <2>1. UNCHANGED <<doc, findings>> /\ client[c].pc = "idle" /\ client'[c].pc = "fleet"
    BY <1>0, <1>4 DEF SaveFleetVEX, Begin
  <2>2. \A d \in Clients : /\ Read(d)' => Read(d) /\ client'[d] = client[d]
                           /\ client[d].pc = "vex" => client'[d].pc = "vex"
    BY <1>1, <2>1 DEF Read
  <2> QED
    BY <1>1, <2>1, <2>2 DEF Faithful, Follows, Obeys
<1>5. CASE ApplySubmission(c) \/ ApplyVEXDocument(c) \/ ApplyLicenses(c)
  <2>0. doc' = doc /\ client'[c] = IdleClient /\ client[c].pc \in {"submit", "vex", "fleet_read", "license"}
    BY <1>0, <1>5 DEF ApplySubmission, ApplyVEXDocument, ApplyLicenses, Finish
  <2>1. doc' = doc /\ client'[c].pc = "idle" /\ Read(c)
    BY <2>0 DEF IdleClient, Read
  <2>2. Follows(client[c].vex)
    BY <1>1, <2>1 DEF Faithful
  <2>3. PICK owned, found, fixable :
          /\ findings' = MergePartition(findings, owned, found, client[c].now, fixable, client[c].vex)
          /\ client[c].pc = "vex" => owned = Ids
    BY <1>5, Zenon DEF ApplySubmission, ApplyVEXDocument, ApplyLicenses, ApplyDocument, Finish
  <2>4. \A id \in Ids : client[c].pc = "vex" \/ Obeys(id) => Obeys(id)'
    BY <1>0, <2>1, <2>2, <2>3, MergeObeys
  <2>5. \A d \in Clients : /\ Read(d)' => Read(d) /\ client'[d] = client[d]
                           /\ client[d].pc = "vex" /\ d # c => client'[d].pc = "vex"
    BY <1>1, <2>1 DEF Read
  <2> QED
    BY <1>1, <2>1, <2>4, <2>5 DEF Faithful, Follows
<1>6. CASE LoseRequest(c)
  <2>1. UNCHANGED <<doc, findings>> /\ client'[c].pc = "idle" /\ client[c].pc # "vex"
    BY <1>0, <1>1, <1>6 DEF LoseRequest, Calm, IdleClient, stored
  <2>2. \A d \in Clients : /\ Read(d)' => Read(d) /\ client'[d] = client[d]
                           /\ client[d].pc = "vex" => client'[d].pc = "vex"
    BY <1>1, <2>1 DEF Read
  <2> QED
    BY <1>1, <2>1, <2>2 DEF Faithful, Follows, Obeys
<1> QED
  BY <1>2, <1>3, <1>4, <1>5, <1>6 DEF ClientNext

LEMMA FaithfulStep ==
  ASSUME ~ReadErrors
  PROVE  IInv /\ Faithful /\ [Next]_vars /\ [Calm]_vars => Faithful'
<1> SUFFICES ASSUME IInv, Faithful, [Next]_vars, [Calm]_vars, exists'
             PROVE  Faithful'
  BY DEF Faithful
<1>1. ASSUME NEW r \in Rounds, RoundNext(r), UNCHANGED present PROVE Faithful'
  BY <1>1, RoundIsFaithful
<1>2. ASSUME NEW c \in Clients, ClientNext(c), Calm PROVE Faithful'
  BY <1>2, RequestIsFaithful
<1>3. ASSUME NEW i \in Ids, NEW accepted \in BOOLEAN, SetAcceptance(i, accepted)
      PROVE  Faithful'
  <2>1. \A id \in Ids : findings'[id].status = findings[id].status
    BY <1>3 DEF SetAcceptance, IInv, TypeOK, Finding
  <2>2. \A id \in Ids : Obeys(id) => Obeys(id)'
    BY <1>3, <2>1 DEF SetAcceptance, Obeys
  <2> QED
    BY <1>3, <2>2 DEF SetAcceptance, Faithful, Follows, Read
<1>4. ~Delete
  BY DEF Delete
<1>5. CASE UNCHANGED vars
  BY <1>5 DEF vars, stored, Faithful, Follows, Read, Obeys
<1> QED
  BY <1>1, <1>2, <1>3, <1>4, <1>5 DEF Next

LEMMA FaithfulInit == Init => Faithful
  BY NoStatementsType DEF Init, Faithful, IdleRound, IdleClient, Read, Obeys, Suppressing

\* A stored document governs its artifact: as long as documents can be read,
\* no upload is lost halfway, and none replaces another between a handler's
\* read and its Update, no finding stays open that the document suppresses,
\* however rounds and requests overlap, or crash, otherwise.
THEOREM DocumentGoverns ==
  ASSUME ~ReadErrors
  PROVE  Spec /\ [][Calm]_vars => []DocumentSuppresses
<1>1. Faithful => DocumentSuppresses
  BY DEF Faithful, DocumentSuppresses, Quiescent, Obeys
<1> QED
  BY <1>1, FaithfulInit, FaithfulStep, Invariant, PTL DEF Spec

\* And, under the same conditions, none stays suppressed as not affected
\* that it calls affected, whatever the fleet's documents say.
THEOREM ArtifactOverFleet ==
  ASSUME ~ReadErrors
  PROVE  Spec /\ [][Calm]_vars => []PerArtifactWins
<1>1. Faithful => PerArtifactWins
  BY DEF Faithful, PerArtifactWins, Quiescent, Obeys
<1> QED
  BY <1>1, FaithfulInit, FaithfulStep, Invariant, PTL DEF Spec
=============================================================================
