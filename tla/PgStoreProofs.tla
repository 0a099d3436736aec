---------------------------- MODULE PgStoreProofs ---------------------------
(***************************************************************************)
(* The transactions of PgStore implement the atomic store; and what they   *)
(* promise together: snapshots stay within bounds, the gate makes nothing  *)
(* up, an announcement is real news, and an upload on its own is atomic.   *)
(* At the end, what the gate's policy guarantees for every policy,         *)
(* artifact and time.                                                      *)
(***************************************************************************)
EXTENDS PgStore, FiniteSetTheorems, WellFoundedInduction, TLAPS

Updating == {"waiting", "locked", "rewritten"}
Indexing == {"index", "cleared", "inserted", "trimmed"}

\* What a client needs to compute its change.
Ready(c) == \/ job[c] \in {"scan", "accept", "edit"} /\ stamp[c] \in Start..Horizon
            \/ job[c] = "upload" /\ list[c] \in Lists

Typed == /\ exists \in BOOLEAN
         /\ document \in Lists \cup {Nothing}
         /\ clock \in Start..Horizon
         /\ job \in [Clients -> Jobs]
         /\ DOMAIN pc = Clients /\ DOMAIN stamp = Clients
         /\ DOMAIN list = Clients /\ DOMAIN loaded = Clients
         /\ pc = [c \in Clients |-> pc[c]]
         /\ stamp = [c \in Clients |-> stamp[c]]
         /\ list = [c \in Clients |-> list[c]]
         /\ loaded = [c \in Clients |-> loaded[c]]

Prepared == \A c \in Clients :
  /\ pc[c] \in Updating => Ready(c)
  /\ pc[c] \in Indexing => job[c] = "upload" /\ list[c] \in Lists
  /\ pc[c] \in Reading => job[c] = "gate"

\* Between its SELECT ... FOR UPDATE and its commit a client alone holds the
\* row, and what it read is what is there.
Holding == \A c \in Clients : pc[c] \in {"locked", "rewritten"} =>
             locked = c /\ exists /\ loaded[c] = artifact

IInv == Typed /\ Prepared /\ Holding

LEMMA InitInv == Init => IInv
<1> SUFFICES ASSUME Init PROVE IInv
  OBVIOUS
<1>1. document \in Lists \cup {Nothing}
  BY PastAssumption DEF Init, Newest
<1>2. job \in [Clients -> Jobs]
  BY MixesAssumption DEF Init
<1>3. Typed
  BY <1>1, <1>2, ClockAssumption DEF Init, Typed
<1>4. \A c \in Clients : pc[c] = "start"
  BY DEF Init
<1> QED BY <1>3, <1>4 DEF IInv, Prepared, Holding, Updating, Indexing, Reading

\* A step that only moves one client, out of the parts of the code that the
\* invariant speaks about.
LEMMA Moves ==
  ASSUME IInv, NEW c \in Clients, NEW label, Goto(c, label),
         label \notin Updating \cup Indexing \cup Reading,
         UNCHANGED <<stored, locked, job, stamp, list, loaded>>, clock' = clock
  PROVE  IInv'
<1>1. \A d \in Clients : pc'[d] = IF d = c THEN label ELSE pc[d]
  BY DEF Goto, IInv, Typed
<1>2. Typed'
  BY DEF IInv, Typed, Goto, stored
<1>3. Prepared'
  BY <1>1 DEF IInv, Prepared, Ready
<1>4. Holding'
  BY <1>1 DEF IInv, Holding, Updating, stored
<1> QED BY <1>2, <1>3, <1>4 DEF IInv

LEMMA ClockRead ==
  ASSUME IInv, NEW c \in Clients, ReadClock(c)
  PROVE  /\ clock' \in Start..Horizon
         /\ stamp' = [d \in Clients |-> IF d = c THEN clock' ELSE stamp[d]]
         /\ DOMAIN stamp' = Clients
BY ClockAssumption DEF IInv, Typed, ReadClock

LEMMA BeginInv == ASSUME IInv, NEW c \in Clients, Begin(c) PROVE IInv'
<1>1. /\ \A d \in Clients : pc'[d] = IF d = c THEN "waiting" ELSE pc[d]
      /\ \A d \in Clients : stamp'[d] = IF d = c THEN clock' ELSE stamp[d]
  BY ClockRead DEF Begin, Goto, IInv, Typed
<1>2. Typed'
  BY ClockRead DEF Begin, IInv, Typed, Goto, stored, upload
<1>3. Prepared'
  BY <1>1, ClockRead DEF Begin, IInv, Prepared, Ready, Updating, Indexing, Reading, upload
<1>4. Holding'
  BY <1>1 DEF Begin, IInv, Holding, stored
<1> QED BY <1>2, <1>3, <1>4 DEF IInv

LEMMA LockInv == ASSUME IInv, NEW c \in Clients, Lock(c) PROVE IInv'
<1>1. /\ \A d \in Clients : pc'[d] = IF d = c THEN "locked" ELSE pc[d]
      /\ \A d \in Clients : loaded'[d] = IF d = c THEN artifact ELSE loaded[d]
  BY DEF Lock, Goto, IInv, Typed
<1>2. Typed'
  BY DEF Lock, IInv, Typed, Goto, stored, upload
<1>3. Prepared'
  BY <1>1 DEF Lock, IInv, Prepared, Ready, Updating, Indexing, Reading, upload
<1>4. \A d \in Clients : pc[d] \notin {"locked", "rewritten"}
  BY NothingAssumption DEF Lock, IInv, Holding
<1>5. Holding'
  BY <1>1, <1>4 DEF Lock, Holding, stored
<1> QED BY <1>2, <1>3, <1>5 DEF IInv

LEMMA RewriteInv == ASSUME IInv, NEW c \in Clients, Rewrite(c) PROVE IInv'
<1>1. \A d \in Clients : pc'[d] = IF d = c THEN "rewritten" ELSE pc[d]
  BY DEF Rewrite, Goto, IInv, Typed
<1>2. Typed'
  BY DEF Rewrite, IInv, Typed, Goto, stored, upload
<1>3. Prepared'
  BY <1>1 DEF Rewrite, IInv, Prepared, Ready, Updating, Indexing, Reading, upload
<1>4. Holding'
  BY <1>1 DEF Rewrite, IInv, Holding, stored
<1> QED BY <1>2, <1>3, <1>4 DEF IInv

LEMMA CommitInv == ASSUME IInv, NEW c \in Clients, Commit(c) PROVE IInv'
<1> DEFINE next == IF job[c] = "upload" THEN "notify" ELSE "done"
<1>1. \A d \in Clients : pc'[d] = IF d = c THEN next ELSE pc[d]
  BY DEF Commit, Goto, IInv, Typed
<1>2. Typed'
  BY DEF Commit, IInv, Typed, Goto, upload
<1>3. Prepared'
  BY <1>1 DEF Commit, IInv, Prepared, Ready, Updating, Indexing, Reading, upload
<1>4. \A d \in Clients \ {c} : pc[d] \notin {"locked", "rewritten"}
  BY DEF Commit, IInv, Holding
<1>5. Holding'
  BY <1>1, <1>4 DEF Holding
<1> QED BY <1>2, <1>3, <1>5 DEF IInv

LEMMA SaveDocumentInv == ASSUME IInv, NEW c \in Clients, SaveDocument(c) PROVE IInv'
<1>1. /\ \A d \in Clients : pc'[d] = IF d = c THEN "index" ELSE pc[d]
      /\ \A d \in Clients : list'[d] = IF d = c THEN document' ELSE list[d]
  BY DEF SaveDocument, Goto, IInv, Typed
<1>2. Typed'
  BY DEF SaveDocument, IInv, Typed, Goto
<1>3. \A d \in Clients : Ready(d)' <=> (IF d = c THEN Ready(d)' ELSE Ready(d))
  BY <1>1 DEF SaveDocument, Ready
<1>4. Prepared'
  BY <1>1, <1>3 DEF SaveDocument, IInv, Prepared, Updating, Indexing, Reading
<1>5. Holding'
  BY <1>1 DEF SaveDocument, IInv, Holding
<1> QED BY <1>2, <1>4, <1>5 DEF IInv

LEMMA ClearInv == ASSUME IInv, NEW c \in Clients, Clear(c) PROVE IInv'
<1>1. \A d \in Clients : pc'[d] = IF d = c THEN "cleared" ELSE pc[d]
  BY DEF Clear, Goto, IInv, Typed
<1>2. Typed'
  BY DEF Clear, IInv, Typed, Goto, stored
<1>3. Prepared'
  BY <1>1 DEF Clear, IInv, Prepared, Ready, Updating, Indexing, Reading
<1>4. Holding'
  BY <1>1 DEF Clear, IInv, Holding, stored
<1> QED BY <1>2, <1>3, <1>4 DEF IInv

LEMMA InsertInv == ASSUME IInv, NEW c \in Clients, Insert(c) PROVE IInv'
<1>0. ReadClock(c)
  BY DEF Insert
<1>1. /\ \A d \in Clients : pc'[d] = IF d = c THEN "inserted" ELSE pc[d]
      /\ \A d \in Clients : stamp'[d] = IF d = c THEN clock' ELSE stamp[d]
  BY <1>0, ClockRead DEF Insert, Goto, IInv, Typed
<1>2. Typed'
  BY <1>0, ClockRead DEF Insert, IInv, Typed, Goto, stored
<1>3. \A d \in Clients \ {c} : Ready(d)' <=> Ready(d)
  BY <1>1 DEF Insert, Ready
<1>4. Prepared'
  BY <1>1, <1>3 DEF Insert, IInv, Prepared, Updating, Indexing, Reading
<1>5. Holding'
  BY <1>1 DEF Insert, IInv, Holding, stored
<1> QED BY <1>2, <1>4, <1>5 DEF IInv

LEMMA EvictInv == ASSUME IInv, NEW c \in Clients, Evict(c) PROVE IInv'
<1>1. \A d \in Clients : pc'[d] = IF d = c THEN "trimmed" ELSE pc[d]
  BY DEF Evict, Goto, IInv, Typed
<1>2. Typed'
  BY DEF Evict, IInv, Typed, Goto, stored
<1>3. Prepared'
  BY <1>1 DEF Evict, IInv, Prepared, Ready, Updating, Indexing, Reading
<1>4. Holding'
  BY <1>1 DEF Evict, IInv, Holding, stored
<1> QED BY <1>2, <1>3, <1>4 DEF IInv

LEMMA CommitSaveInv == ASSUME IInv, NEW c \in Clients, CommitSave(c) PROVE IInv'
<1>1. \A d \in Clients : pc'[d] = IF d = c THEN "waiting" ELSE pc[d]
  BY DEF CommitSave, Goto, IInv, Typed
<1>2. Typed'
  BY DEF CommitSave, IInv, Typed, Goto, stored, upload
<1>3. Prepared'
  BY <1>1 DEF CommitSave, IInv, Prepared, Ready, Updating, Indexing, Reading, upload
<1>4. Holding'
  BY <1>1 DEF CommitSave, IInv, Holding, stored
<1> QED BY <1>2, <1>3, <1>4 DEF IInv

LEMMA AnnouncingInv ==
  ASSUME IInv, NEW c \in Clients, ReadSnapshots(c) \/ ReadNewer(c) \/ Announce(c)
  PROVE  IInv'
<1>1. CASE ReadSnapshots(c)
  <2>1. PICK label \in {"done", "newer"} : Goto(c, label)
    BY <1>1 DEF ReadSnapshots
  <2> QED BY <1>1, <2>1, Moves DEF ReadSnapshots, Updating, Indexing, Reading
<1>2. CASE ReadNewer(c)
  BY <1>2, Moves DEF ReadNewer, Updating, Indexing, Reading
<1>3. CASE Announce(c)
  BY <1>3, Moves DEF Announce, Updating, Indexing, Reading, upload
<1> QED BY <1>1, <1>2, <1>3

\* The gate's reads and its judgement leave everybody else alone.
LEMMA GateInv ==
  ASSUME IInv, NEW c \in Clients,
         \/ ReadRow(c) \/ ReadBucket(c, "cve", "other")
         \/ ReadBucket(c, "other", "documents") \/ Judge(c)
  PROVE  IInv'
<1>1. ASSUME NEW label \in {"cve", "other", "documents"}, Goto(c, label), job[c] = "gate",
             pc[c] \notin {"locked", "rewritten"},
             UNCHANGED <<stored, locked, clock, job, stamp, upload>>,
             loaded' = [loaded EXCEPT ![c] = loaded'[c]]
      PROVE  IInv'
  <2>1. /\ \A d \in Clients : pc'[d] = IF d = c THEN label ELSE pc[d]
        /\ \A d \in Clients \ {c} : loaded'[d] = loaded[d]
    BY <1>1 DEF Goto, IInv, Typed
  <2>2. Typed'
    BY <1>1 DEF IInv, Typed, Goto, stored, upload
  <2>3. Prepared'
    BY <2>1, <1>1 DEF IInv, Prepared, Ready, Updating, Indexing, Reading, upload
  <2>4. Holding'
    BY <2>1, <1>1 DEF IInv, Holding, stored
  <2> QED BY <2>2, <2>3, <2>4 DEF IInv
<1>2. CASE ReadRow(c)
  BY <1>2, <1>1 DEF ReadRow, IInv, Typed
<1>3. CASE ReadBucket(c, "cve", "other")
  BY <1>3, <1>1 DEF ReadBucket, IInv, Typed, Prepared, Reading
<1>4. CASE ReadBucket(c, "other", "documents")
  BY <1>4, <1>1 DEF ReadBucket, IInv, Typed, Prepared, Reading
<1>5. CASE Judge(c)
  <2>0. ReadClock(c)
    BY <1>5 DEF Judge
  <2>1. /\ \A d \in Clients : pc'[d] = IF d = c THEN "done" ELSE pc[d]
        /\ \A d \in Clients \ {c} : stamp'[d] = stamp[d]
    BY <1>5, <2>0, ClockRead DEF Judge, Goto, IInv, Typed
  <2>2. Typed'
    BY <1>5, <2>0, ClockRead DEF Judge, IInv, Typed, Goto, stored, upload
  <2>3. Prepared'
    BY <2>1, <1>5 DEF Judge, IInv, Prepared, Ready, Updating, Indexing, Reading, upload
  <2>4. Holding'
    BY <2>1, <1>5 DEF Judge, IInv, Holding, stored
  <2> QED BY <2>2, <2>3, <2>4 DEF IInv
<1> QED BY <1>2, <1>3, <1>4, <1>5

LEMMA DeleteInv == ASSUME IInv, NEW c \in Clients, Delete(c) PROVE IInv'
<1>1. \A d \in Clients : pc'[d] = IF d = c THEN "done" ELSE pc[d]
  BY DEF Delete, Goto, IInv, Typed
<1>2. Typed'
  BY DEF Delete, IInv, Typed, Goto, upload
<1>3. Prepared'
  BY <1>1 DEF Delete, IInv, Prepared, Ready, Updating, Indexing, Reading, upload
<1>4. \A d \in Clients : pc[d] \notin {"locked", "rewritten"}
  BY NothingAssumption DEF Delete, IInv, Holding
<1>5. Holding'
  BY <1>1, <1>4 DEF Holding
<1> QED BY <1>2, <1>3, <1>5 DEF IInv

LEMMA FailInv == ASSUME IInv, NEW c \in Clients, Fail(c) PROVE IInv'
<1>1. PICK label \in {"failed", "notify"} : Goto(c, label)
  BY DEF Fail
<1>2. \A d \in Clients : pc'[d] = IF d = c THEN label ELSE pc[d]
  BY <1>1 DEF Goto, IInv, Typed
<1>3. Typed'
  BY <1>1 DEF Fail, IInv, Typed, Goto, stored, upload
<1>4. Prepared'
  BY <1>2 DEF Fail, IInv, Prepared, Ready, Updating, Indexing, Reading, upload
<1>5. Holding'
  BY <1>2 DEF Fail, IInv, Holding, stored
<1> QED BY <1>3, <1>4, <1>5 DEF IInv

LEMMA StepInv == IInv /\ [Next]_vars => IInv'
<1> SUFFICES ASSUME IInv, [Next]_vars PROVE IInv'
  OBVIOUS
<1>1. CASE Next
  <2>1. PICK c \in Clients : Step(c)
    BY <1>1 DEF Next
  <2> QED BY <2>1, BeginInv, LockInv, RewriteInv, CommitInv, SaveDocumentInv, ClearInv,
             InsertInv, EvictInv, CommitSaveInv, AnnouncingInv, GateInv, DeleteInv, FailInv
          DEF Step
<1>2. CASE UNCHANGED vars
  BY <1>2 DEF vars, stored, upload, IInv, Typed, Prepared, Holding, Ready
<1> QED BY <1>1, <1>2

\* Between its SELECT ... FOR UPDATE and its commit, what an Update has read
\* is what is there (PostgresStore.Update's comment: two updates of the same
\* artifact serialize), and every client knows what it needs to.
THEOREM Inductive == Spec => []IInv
BY InitInv, StepInv, PTL DEF Spec

-----------------------------------------------------------------------------
LEMMA MutationsAreUpdates ==
  ASSUME IInv, NEW c \in Clients, pc[c] = "rewritten",
         NEW a \in Mutations(c)
  PROVE  \/ \E now \in Start..Horizon : a \in Store!Outcomes(artifact, now)
         \/ \E now \in Start..Horizon : a \in Store!Acceptances(artifact, now)
         \/ a \in Store!Reviewed(artifact)
         \/ a \in Store!Edits(artifact)
<1>1. loaded[c] = artifact /\ Ready(c)
  BY DEF IInv, Holding, Prepared, Updating
<1>2. CASE job[c] = "scan"
  <2>1. a \in Store!Outcomes(artifact, stamp[c]) /\ stamp[c] \in Start..Horizon
    BY <1>1, <1>2 DEF Mutations, Ready
  <2> QED BY <2>1
<1>3. CASE job[c] = "accept"
  <2>1. a \in Store!Acceptances(artifact, stamp[c]) /\ stamp[c] \in Start..Horizon
    BY <1>1, <1>3 DEF Mutations, Ready
  <2> QED BY <2>1
<1>4. CASE job[c] = "upload"
  <2>1. a = Store!Licensed(artifact, LicenseFindings(list[c])) /\ list[c] \in Lists
    BY <1>1, <1>4 DEF Mutations, Ready
  <2> QED BY <2>1 DEF Store!Reviewed
<1>5. CASE job[c] = "edit"
  BY <1>1, <1>5 DEF Mutations
<1> QED BY <1>1, <1>2, <1>3, <1>4, <1>5 DEF Ready

LEMMA StepRefines == IInv /\ [Next]_vars => [Store!Next]_(Store!vars)
<1> SUFFICES ASSUME IInv, [Next]_vars PROVE [Store!Next]_(Store!vars)
  OBVIOUS
<1>1. CASE UNCHANGED vars
  BY <1>1 DEF vars, stored, Store!vars
<1>2. CASE Next
  <2>1. PICK c \in Clients : Step(c)
    BY <1>2 DEF Next
  <2>2. CASE Commit(c)
    <3>1. \/ \E now \in Start..Horizon : artifact' \in Store!Outcomes(artifact, now)
          \/ \E now \in Start..Horizon : artifact' \in Store!Acceptances(artifact, now)
          \/ artifact' \in Store!Reviewed(artifact)
          \/ artifact' \in Store!Edits(artifact)
      BY <2>2, MutationsAreUpdates DEF Commit
    <3>2. exists
      BY <2>2 DEF Commit, IInv, Holding
    <3> QED BY <3>1, <3>2, <2>2 DEF Commit, Store!Next, Store!Update
  <2>3. CASE SaveDocument(c)
    BY <2>3 DEF SaveDocument, Store!Next, Store!SaveDocument
  <2>4. CASE Delete(c)
    BY <2>4 DEF Delete, Store!Next, Store!Delete
  <2>5. ASSUME UNCHANGED stored PROVE UNCHANGED Store!vars
    BY <2>5 DEF stored, Store!vars
  <2>6. \/ Commit(c) \/ SaveDocument(c) \/ Delete(c) \/ UNCHANGED stored
    BY <2>1 DEF Step, Begin, Lock, Rewrite, Clear, Insert, Evict, CommitSave, ReadSnapshots,
                ReadNewer, Announce, ReadRow, ReadBucket, Judge, Fail
  <2> QED BY <2>2, <2>3, <2>4, <2>5, <2>6
<1> QED BY <1>1, <1>2

LEMMA InitRefines == Init => Store!Init
<1> SUFFICES ASSUME Init PROVE Store!Init
  OBVIOUS
<1>1. document \in Lists \cup {Nothing}
  BY InitInv DEF IInv, Typed
<1> QED BY <1>1 DEF Init, Store!Init

\* For any clients, requests and lists: every transaction is one atomic
\* operation of ArtifactStore, on the value the last one left.
THEOREM Implements == Spec => StoreSpec
<1>1. Init => Store!Init
  BY InitRefines
<1>2. IInv /\ [Next]_vars => [Store!Next]_(Store!vars)
  BY StepRefines
<1> QED BY <1>1, <1>2, Inductive, PTL DEF Spec, StoreSpec, Store!Spec

-----------------------------------------------------------------------------
(* What clients keep for themselves, and how a step changes it.            *)

Local == /\ DOMAIN doomed = Clients /\ DOMAIN fresh = Clients
         /\ DOMAIN evicted = Clients /\ DOMAIN pair = Clients
         /\ DOMAIN newer = Clients /\ DOMAIN told = Clients
         /\ DOMAIN before = Clients /\ DOMAIN alone = Clients
         /\ DOMAIN seen = Clients

LEMMA LocalStep == Local /\ [Next]_vars => Local'
<1> SUFFICES ASSUME Local, [Next]_vars PROVE Local'
  OBVIOUS
<1>1. CASE UNCHANGED vars
  BY <1>1 DEF vars, upload, Local
<1>2. ASSUME NEW c \in Clients, Step(c) PROVE Local'
  <2>1. CASE Begin(c) \/ Lock(c) \/ Rewrite(c) \/ Clear(c) \/ Evict(c) \/ CommitSave(c)
    BY <2>1 DEF Begin, Lock, Rewrite, Clear, Evict, CommitSave, Local, upload
  <2>2. CASE Commit(c) \/ SaveDocument(c) \/ Insert(c) \/ Delete(c) \/ Fail(c)
    BY <2>2 DEF Commit, SaveDocument, Insert, Delete, Fail, Witnessed, Local, upload
  <2>3. CASE ReadSnapshots(c) \/ ReadNewer(c) \/ Announce(c)
    BY <2>3 DEF ReadSnapshots, ReadNewer, Announce, Local, upload
  <2>4. CASE \/ ReadRow(c) \/ ReadBucket(c, "cve", "other")
             \/ ReadBucket(c, "other", "documents") \/ Judge(c)
    BY <2>4 DEF ReadRow, ReadBucket, Judge, Local, upload
  <2> QED BY <1>2, <2>1, <2>2, <2>3, <2>4 DEF Step
<1> QED BY <1>1, <1>2 DEF Next

LEMMA Went ==
  ASSUME IInv, NEW c \in Clients, NEW label, Goto(c, label)
  PROVE  \A d \in Clients : pc'[d] = IF d = c THEN label ELSE pc[d]
BY DEF IInv, Typed, Goto

-----------------------------------------------------------------------------
(* Snapshots *)

LEMMA Least ==
  ASSUME NEW S \in SUBSET Nat, S # {}
  PROVE  \E n \in S : \A m \in S : n <= m
<1> DEFINE R == {p \in Nat \X Nat : p[1] < p[2]}
<1>1. IsWellFoundedOn(R, Nat)
  BY NatLessThanWellFounded DEF OpToRel
<1>2. PICK n \in S : \A m \in S : <<m, n>> \notin R
  BY <1>1, WFMin
<1>3. \A m \in S : ~(m < n)
  BY <1>2
<1> QED BY <1>3

Later(S, n) == {t \in S : t.at > n}

LEMMA LaterOfMore ==
  ASSUME NEW T, IsFiniteSet(T), NEW S \in SUBSET T, NEW n
  PROVE  /\ IsFiniteSet(Later(S, n)) /\ IsFiniteSet(Later(T, n))
         /\ Cardinality(Later(S, n)) \in Nat /\ Cardinality(Later(T, n)) \in Nat
         /\ Cardinality(Later(S, n)) <= Cardinality(Later(T, n))
<1>1. Later(S, n) \subseteq Later(T, n) /\ Later(T, n) \subseteq T
  BY DEF Later
<1>2. IsFiniteSet(Later(T, n))
  BY <1>1, FS_Subset
<1>3. IsFiniteSet(Later(S, n)) /\ Cardinality(Later(S, n)) <= Cardinality(Later(T, n))
  BY <1>1, <1>2, FS_Subset
<1> QED BY <1>2, <1>3, FS_CardinalityType

LEMMA NewestIs == \A n, S : Newest(n, S) = {s \in S : Cardinality(Later(S, s.at)) < n}
BY DEF Newest, Later

LEMMA NewestOfMore ==
  ASSUME NEW T, IsFiniteSet(T), NEW S \in SUBSET T, NEW n \in Nat
  PROVE  Newest(n, T) \cap S \subseteq Newest(n, S)
<1> SUFFICES ASSUME NEW s \in S, Cardinality(Later(T, s.at)) < n
             PROVE  Cardinality(Later(S, s.at)) < n
  BY NewestIs
<1> QED BY LaterOfMore

LEMMA FewAreNewest ==
  ASSUME NEW S, IsFiniteSet(S), NEW n \in Nat, Cardinality(S) <= n,
         \A s \in S : s.at \in Nat
  PROVE  Newest(n, S) = S
<1> SUFFICES ASSUME NEW s \in S PROVE Cardinality(Later(S, s.at)) < n
  BY NewestIs
<1>1. Later(S, s.at) \subseteq S \ {s}
  BY DEF Later
<1>2. /\ IsFiniteSet(S \ {s}) /\ Cardinality(S \ {s}) = Cardinality(S) - 1
  BY FS_RemoveElement
<1>3. Cardinality(Later(S, s.at)) <= Cardinality(S \ {s})
  BY <1>1, <1>2, FS_Subset
<1>4. Cardinality(S) \in Nat /\ Cardinality(Later(S, s.at)) \in Nat
  BY LaterOfMore, FS_CardinalityType
<1> QED BY <1>2, <1>3, <1>4

\* The first snapshot after Past, when it is added, makes one too many at
\* most, and then the oldest goes.
LEMMA OneMore ==
  ASSUME NEW o, o.at \in Nat, o.at > Start
  PROVE  LET kept == Newest(MaxSnapshots, Past \cup {o})
         IN IsFiniteSet(kept) /\ Cardinality(kept) <= MaxSnapshots
<1> DEFINE all == Past \cup {o}
           kept == Newest(MaxSnapshots, all)
<1>1. o \notin Past
  BY PastAssumption, ClockAssumption
<1>2. /\ IsFiniteSet(Past) /\ IsFiniteSet(all) /\ Cardinality(all) = Cardinality(Past) + 1
      /\ Cardinality(Past) \in Nat /\ Cardinality(all) \in Nat
      /\ Cardinality(Past) <= MaxSnapshots /\ MaxSnapshots \in Nat
  BY <1>1, PastAssumption, RetentionAssumption, FS_AddElement, FS_CardinalityType
<1>3. kept \subseteq all
  BY DEF Newest
<1>4. IsFiniteSet(kept) /\ Cardinality(kept) <= Cardinality(all) /\ Cardinality(kept) \in Nat
  BY <1>2, <1>3, FS_Subset, FS_CardinalityType
<1>5. CASE Cardinality(Past) < MaxSnapshots
  BY <1>5, <1>2, <1>4
<1>6. CASE Cardinality(Past) = MaxSnapshots
  <2>1. Past # {}
    <3>1. Cardinality(Clients) \in Nat
      BY RetentionAssumption, FS_CardinalityType
    <3> QED BY <3>1, <1>6, RetentionAssumption, FS_EmptySet
  <2>2. PICK first \in Past : \A t \in Past : first.at <= t.at
    <3> DEFINE ats == {s.at : s \in Past}
    <3>1. ats \in SUBSET Nat /\ ats # {}
      BY <2>1, PastAssumption
    <3>2. PICK n \in ats : \A m \in ats : n <= m
      BY <3>1, Least, Zenon
    <3>3. PICK first \in Past : n = first.at
      OBVIOUS
    <3> QED BY <3>2, <3>3
  <2>3. first.at \in Nat /\ first.at < o.at
    BY PastAssumption, ClockAssumption
  <2>4. \A t \in Past \ {first} : t.at > first.at
    <3> SUFFICES ASSUME NEW t \in Past, t # first PROVE t.at > first.at
      OBVIOUS
    <3> QED BY <2>2, <2>3, PastAssumption
  <2>5. Later(all, first.at) = all \ {first}
    BY <2>3, <2>4 DEF Later
  <2>6. IsFiniteSet(all \ {first}) /\ Cardinality(all \ {first}) = MaxSnapshots
    <3>1. /\ IsFiniteSet(all \ {first})
          /\ Cardinality(all \ {first}) = IF first \in all THEN Cardinality(all) - 1
                                                          ELSE Cardinality(all)
      BY <1>2, FS_RemoveElement, Zenon
    <3>2. first \in all
      OBVIOUS
    <3> HIDE DEF all
    <3> QED BY <3>1, <3>2, <1>2, <1>6
  <2>7. first \notin kept
    <3>1. kept = {s \in all : Cardinality(Later(all, s.at)) < MaxSnapshots}
      BY NewestIs
    <3>2. Cardinality(Later(all, first.at)) = MaxSnapshots
      BY <2>5, <2>6
    <3> HIDE DEF kept
    <3> QED BY <3>1, <3>2, <1>2
  <2>8. kept \subseteq all \ {first}
    BY <2>7, <1>3
  <2>9. Cardinality(kept) <= Cardinality(all \ {first})
    BY <2>6, <2>8, FS_Subset
  <2> QED BY <2>6, <2>9, <1>4
<1>7. Cardinality(Past) < MaxSnapshots \/ Cardinality(Past) = MaxSnapshots
  BY <1>2
<1> QED BY <1>4, <1>5, <1>6, <1>7

-----------------------------------------------------------------------------
(* Retention *)

Announcing == {"notify", "newer", "older"}
Over == Updating \cup Announcing \cup {"done", "failed"}

\* s is the snapshot that client c's upload committed.
Took(c, s) == /\ job[c] = "upload" /\ pc[c] \in Over
              /\ stamp[c] > Start
              /\ list[c] \in Lists \ {{}}
              /\ s = [at |-> stamp[c], packages |-> list[c]]

Stamps == \A c \in Clients :
  /\ stamp[c] \in Nat /\ stamp[c] <= clock
  /\ \A d \in Clients : stamp[c] = stamp[d] /\ c # d => stamp[c] = 0
  /\ Saving(c) => stamp[c] > Start

Snapshots ==
  /\ Past \subseteq saved /\ history \subseteq saved
  /\ \A s \in saved \ Past : \E c \in Clients : Took(c, s)
  /\ ~exists => history = {}
  /\ \A c \in Clients : Saving(c) /\ list[c] # {} => exists

Kept == exists => Newest(MaxSnapshots, saved) \subseteq history

\* What an eviction takes has MaxSnapshots after it; and the first one after
\* Past leaves no more than that.
Evictions == \A c \in Clients : pc[c] = "trimmed" =>
  /\ \A x \in evicted[c] : Cardinality(Later(saved \cup Own(c), x.at)) >= MaxSnapshots
  /\ saved = Past /\ list[c] # {} =>
        history \ evicted[c] \subseteq Newest(MaxSnapshots, Past \cup Own(c))

Bounded == \/ Cardinality(history) <= MaxSnapshots
           \/ Cardinality(history) < MaxSnapshots + Cardinality(saved \ Past)

RetentionInv == Stamps /\ Snapshots /\ Kept /\ Evictions /\ Bounded

\* As many snapshots were taken as there are uploads, at most.
LEMMA Takers ==
  ASSUME RetentionInv
  PROVE  LET Uploads == {c \in Clients : job[c] = "upload"}
         IN /\ IsFiniteSet(saved \ Past) /\ IsFiniteSet(saved) /\ IsFiniteSet(history)
            /\ Cardinality(saved \ Past) \in Nat /\ Cardinality(Uploads) \in Nat
            /\ Cardinality(history) \in Nat
            /\ Cardinality(saved \ Past) <= Cardinality(Uploads)
<1> DEFINE Uploads == {c \in Clients : job[c] = "upload"}
           taken == saved \ Past
           taker == [s \in taken |-> CHOOSE c \in Clients : Took(c, s)]
<1>1. \A s \in taken : taker[s] \in Clients /\ Took(taker[s], s)
  BY DEF RetentionInv, Snapshots
<1>2. \A s \in taken : taker[s] \in Uploads
  BY <1>1 DEF Took
<1>3. \A s, t \in taken : taker[s] = taker[t] => s = t
  BY <1>1 DEF Took
<1>4. taker \in Injection(taken, Uploads)
  BY <1>2, <1>3 DEF Injection, IsInjective
<1>5. IsFiniteSet(Uploads)
  BY RetentionAssumption, FS_Subset
<1>6. IsFiniteSet(taken) /\ Cardinality(taken) <= Cardinality(Uploads)
  <2> HIDE DEF taken, taker, Uploads
  <2> QED BY <1>4, <1>5, FS_Injection
<1>7. IsFiniteSet(Past \cup taken)
  BY <1>6, PastAssumption, FS_Union
<1>8. IsFiniteSet(saved)
  BY <1>7, FS_Subset
<1>9. IsFiniteSet(history)
  BY <1>8, FS_Subset DEF RetentionInv, Snapshots
<1> QED BY <1>5, <1>6, <1>8, <1>9, FS_CardinalityType

\* A step that changes nothing of this but how far one client is.
LEMMA QuietRetention ==
  ASSUME IInv, RetentionInv, NEW c \in Clients, NEW label, Goto(c, label),
         label \notin {"inserted", "trimmed"}, pc[c] \in Over => label \in Over,
         UNCHANGED <<exists, history, saved, clock, job, stamp, list, evicted>>
  PROVE  RetentionInv'
<1>1. \A d \in Clients : pc'[d] = IF d = c THEN label ELSE pc[d]
  BY Went
<1>2. Stamps'
  BY <1>1 DEF RetentionInv, Stamps, Saving
<1>3. \A d \in Clients : \A s : Took(d, s) => Took(d, s)'
  BY <1>1 DEF Took
<1>4. Snapshots'
  BY <1>1, <1>3 DEF RetentionInv, Snapshots, Saving
<1>5. Evictions'
  BY SMTT(30), <1>1 DEF RetentionInv, Evictions, Own, Newest, Later
<1>6. Kept' /\ Bounded'
  BY DEF RetentionInv, Kept, Bounded, Newest
<1> QED BY <1>2, <1>4, <1>5, <1>6 DEF RetentionInv

\* A client reads the clock.
LEMMA ClockRetention ==
  ASSUME IInv, RetentionInv, NEW c \in Clients, NEW label, Goto(c, label), ReadClock(c),
         label # "trimmed", pc[c] \notin Over,
         label = "inserted" /\ list[c] # {} => exists,
         UNCHANGED <<exists, history, saved, job, list, evicted>>
  PROVE  RetentionInv'
<1>1. /\ \A d \in Clients : pc'[d] = IF d = c THEN label ELSE pc[d]
      /\ \A d \in Clients : stamp'[d] = IF d = c THEN clock' ELSE stamp[d]
      /\ clock' = clock + 1 /\ clock \in Nat /\ clock >= Start
  BY Went, ClockRead, ClockAssumption DEF ReadClock, IInv, Typed
<1>2. Stamps'
  <2> SUFFICES ASSUME NEW d \in Clients
               PROVE  /\ stamp'[d] \in Nat /\ stamp'[d] <= clock'
                      /\ \A e \in Clients : stamp'[d] = stamp'[e] /\ d # e => stamp'[d] = 0
                      /\ Saving(d)' => stamp'[d] > Start
    BY DEF Stamps
  <2>1. \A e \in Clients : stamp[e] \in Nat /\ stamp[e] <= clock /\ stamp[e] # clock + 1
    BY <1>1 DEF RetentionInv, Stamps
  <2>2. CASE d = c
    BY <2>1, <2>2, <1>1, ClockAssumption
  <2>3. CASE d # c
    BY <2>1, <2>3, <1>1 DEF RetentionInv, Stamps, Saving
  <2> QED BY <2>2, <2>3
<1>3. \A d \in Clients : \A s : Took(d, s) => Took(d, s)'
  BY <1>1 DEF Took
<1>4. Snapshots'
  BY <1>1, <1>3 DEF RetentionInv, Snapshots, Saving
<1>5. Evictions'
  BY <1>1 DEF RetentionInv, Evictions, Own, Newest, Later
<1>6. Kept' /\ Bounded'
  BY DEF RetentionInv, Kept, Bounded, Newest
<1> QED BY <1>2, <1>4, <1>5, <1>6 DEF RetentionInv

LEMMA EvictRetention ==
  ASSUME IInv, Local, RetentionInv, NEW c \in Clients, Evict(c)
  PROVE  RetentionInv'
<1> DEFINE kept == Newest(MaxSnapshots, history \cup Own(c))
<1>1. /\ \A d \in Clients : pc'[d] = IF d = c THEN "trimmed" ELSE pc[d]
      /\ \A d \in Clients : evicted'[d] = IF d = c THEN history \ kept ELSE evicted[d]
  BY Went DEF Evict, Local
<1>2. Stamps'
  BY <1>1 DEF Evict, RetentionInv, Stamps, Saving
<1>3. \A d \in Clients : \A s : Took(d, s) => Took(d, s)'
  BY <1>1 DEF Evict, Took, Over, Updating, Announcing
<1>4. Snapshots'
  BY <1>1, <1>3 DEF Evict, components, stored, RetentionInv, Snapshots, Saving
<1>5. ASSUME NEW x \in history \ kept
      PROVE  Cardinality(Later(saved \cup Own(c), x.at)) >= MaxSnapshots
  <2>1. IsFiniteSet(saved \cup Own(c))
    <3>1. IsFiniteSet(saved)
      BY Takers
    <3>2. IsFiniteSet(Own(c))
      BY FS_EmptySet, FS_Singleton DEF Own
    <3> QED BY <3>1, <3>2, FS_Union
  <2>2. history \cup Own(c) \subseteq saved \cup Own(c)
    BY DEF RetentionInv, Snapshots
  <2>3. ~ (Cardinality(Later(history \cup Own(c), x.at)) < MaxSnapshots)
    BY <1>5, NewestIs
  <2> QED BY <2>1, <2>2, <2>3, LaterOfMore, RetentionAssumption
<1>6. ASSUME saved = Past, list[c] # {}
      PROVE  history \ (history \ kept) \subseteq Newest(MaxSnapshots, Past \cup Own(c))
  <2>1. exists
    BY <1>6 DEF Evict, Saving, RetentionInv, Snapshots
  <2>2. Newest(MaxSnapshots, Past) = Past
    BY PastAssumption, RetentionAssumption, FewAreNewest
  <2>3. history = Past
    BY <1>6, <2>1, <2>2 DEF RetentionInv, Snapshots, Kept
  <2> QED BY <2>3
<1>7. Evictions'
  <2> SUFFICES ASSUME NEW d \in Clients, pc'[d] = "trimmed"
               PROVE  /\ \A x \in evicted'[d] :
                           Cardinality(Later(saved \cup Own(d), x.at)) >= MaxSnapshots
                      /\ saved = Past /\ list[d] # {} =>
                           history \ evicted'[d]
                             \subseteq Newest(MaxSnapshots, Past \cup Own(d))
    <3>1. saved' = saved /\ history' = history /\ stamp' = stamp /\ list' = list
      BY DEF Evict, components
    <3> QED BY <3>1 DEF Evictions, Own, Newest, Later
  <2> QED BY <1>1, <1>5, <1>6 DEF RetentionInv, Evictions
<1>8. Kept' /\ Bounded'
  BY DEF Evict, components, stored, RetentionInv, Kept, Bounded, Newest
<1> QED BY <1>2, <1>4, <1>7, <1>8 DEF RetentionInv

LEMMA SaveDocumentRetention ==
  ASSUME IInv, RetentionInv, NEW c \in Clients, SaveDocument(c)
  PROVE  RetentionInv'
<1>1. /\ \A d \in Clients : pc'[d] = IF d = c THEN "index" ELSE pc[d]
      /\ \A d \in Clients \ {c} : list'[d] = list[d]
  BY Went DEF SaveDocument, IInv, Typed
<1>2. Stamps'
  BY <1>1 DEF SaveDocument, RetentionInv, Stamps, Saving
<1>3. \A d \in Clients : \A s : Took(d, s) => Took(d, s)'
  BY <1>1 DEF SaveDocument, Took, Over, Updating, Announcing
<1>4. Snapshots'
  BY <1>1, <1>3 DEF SaveDocument, components, RetentionInv, Snapshots, Saving
<1>5. Evictions'
  <2>1. saved' = saved /\ history' = history /\ stamp' = stamp /\ evicted' = evicted
    BY DEF SaveDocument, components
  <2> QED BY <1>1, <2>1 DEF RetentionInv, Evictions, Own, Newest, Later
<1>6. Kept' /\ Bounded'
  BY DEF SaveDocument, components, RetentionInv, Kept, Bounded, Newest
<1> QED BY <1>2, <1>4, <1>5, <1>6 DEF RetentionInv

LEMMA DeleteRetention ==
  ASSUME IInv, RetentionInv, NEW c \in Clients, Delete(c)
  PROVE  RetentionInv'
<1>1. \A d \in Clients : pc'[d] = IF d = c THEN "done" ELSE pc[d]
  BY Went DEF Delete
<1>2. Stamps'
  BY <1>1 DEF Delete, RetentionInv, Stamps, Saving
<1>3. \A d \in Clients : \A s : Took(d, s) => Took(d, s)'
  BY <1>1 DEF Delete, upload, Took, Over
<1>4. Snapshots'
  BY <1>1, <1>3 DEF Delete, upload, RetentionInv, Snapshots, Saving, Referenced
<1>5. Evictions'
  <2>1. saved' = saved /\ history' = {} /\ stamp' = stamp /\ evicted' = evicted /\ list' = list
    BY DEF Delete, upload
  <2> QED BY <1>1, <2>1 DEF RetentionInv, Evictions, Own, Newest, Later
<1>6. Kept' /\ Bounded'
  BY FS_EmptySet, RetentionAssumption DEF Delete, Kept, Bounded
<1> QED BY <1>2, <1>4, <1>5, <1>6 DEF RetentionInv

\* What a save adds is a snapshot that nobody has taken before.
LEMMA OwnIsNew ==
  ASSUME IInv, RetentionInv, NEW c \in Clients, pc[c] = "trimmed", list[c] # {}
  PROVE  LET o == [at |-> stamp[c], packages |-> list[c]]
         IN /\ Own(c) = {o} /\ o.at = stamp[c]
            /\ o.at \in Nat /\ o.at > Start
            /\ o \notin saved
            /\ job[c] = "upload" /\ list[c] \in Lists \ {{}}
<1> DEFINE o == [at |-> stamp[c], packages |-> list[c]]
<1>1. stamp[c] \in Nat /\ stamp[c] > Start
  BY DEF RetentionInv, Stamps, Saving
<1>2. o \notin Past
  BY <1>1, PastAssumption, ClockAssumption
<1>3. ASSUME NEW d \in Clients, Took(d, o) PROVE FALSE
  <2>1. stamp[d] = stamp[c] /\ pc[d] \in Over
    BY <1>3 DEF Took
  <2>2. d = c
    BY <2>1, <1>1, ClockAssumption DEF RetentionInv, Stamps
  <2> QED BY <2>1, <2>2 DEF Over, Updating, Announcing
<1>4. o \notin saved
  BY <1>2, <1>3 DEF RetentionInv, Snapshots
<1>5. job[c] = "upload" /\ list[c] \in Lists
  BY DEF IInv, Prepared, Indexing
<1> QED BY <1>1, <1>4, <1>5 DEF Own

LEMMA CommitSaveRetention ==
  ASSUME IInv, RetentionInv, NEW c \in Clients, CommitSave(c)
  PROVE  RetentionInv'
<1> DEFINE o == [at |-> stamp[c], packages |-> list[c]]
<1>0. /\ pc[c] = "trimmed"
      /\ saved' = saved \cup Own(c)
      /\ history' = (history \ evicted[c]) \cup Own(c)
      /\ UNCHANGED <<exists, clock, job, stamp, list, evicted>>
  BY DEF CommitSave, stored, upload
<1>1. \A d \in Clients : pc'[d] = IF d = c THEN "waiting" ELSE pc[d]
  BY Went DEF CommitSave
<1>2. Stamps'
  BY <1>0, <1>1 DEF RetentionInv, Stamps, Saving
<1>3. \A d \in Clients : \A s : Took(d, s) => Took(d, s)'
  BY <1>0, <1>1 DEF Took, Over, Updating
<1>4. \A s \in Own(c) : Took(c, s)'
  BY <1>0, <1>1, OwnIsNew DEF Own, Took, Over, Updating
<1>5. ~exists => Own(c) = {}
  BY <1>0 DEF RetentionInv, Snapshots, Saving, Own
<1>6. Snapshots'
  BY <1>0, <1>1, <1>3, <1>4, <1>5 DEF RetentionInv, Snapshots, Saving
<1>7. IsFiniteSet(Own(c)) /\ IsFiniteSet(saved) /\ IsFiniteSet(history)
  BY Takers, FS_EmptySet, FS_Singleton DEF Own
<1>8. IsFiniteSet(saved')
  BY <1>0, <1>7, FS_Union
<1>9. Kept'
  <2> SUFFICES ASSUME exists, NEW x \in Newest(MaxSnapshots, saved \cup Own(c)),
                      x \notin Own(c)
               PROVE  x \in history \ evicted[c]
    BY <1>0 DEF Kept, Newest
  <2>1. x \in saved /\ Cardinality(Later(saved \cup Own(c), x.at)) < MaxSnapshots
    BY NewestIs
  <2>2. x \in Newest(MaxSnapshots, saved)
    <3>1. Newest(MaxSnapshots, saved \cup Own(c)) \cap saved \subseteq Newest(MaxSnapshots, saved)
      BY <1>0, <1>8, NewestOfMore, RetentionAssumption
    <3> QED BY <3>1, <2>1
  <2>3. x \in history
    BY <2>2 DEF RetentionInv, Kept
  <2>4. Cardinality(Later(saved \cup Own(c), x.at)) \in Nat
    BY <1>0, <1>8, LaterOfMore
  <2>5. x \notin evicted[c]
    <3>1. x \in evicted[c] => Cardinality(Later(saved \cup Own(c), x.at)) >= MaxSnapshots
      BY <1>0 DEF RetentionInv, Evictions
    <3> QED BY <3>1, <2>1, <2>4, RetentionAssumption
  <2> QED BY <2>3, <2>5
<1>10. ASSUME NEW d \in Clients \ {c}, pc[d] = "trimmed", NEW x \in evicted[d]
       PROVE  Cardinality(Later(saved' \cup Own(d), x.at)) >= MaxSnapshots
  <2>1. IsFiniteSet(Own(d))
    BY FS_EmptySet, FS_Singleton DEF Own
  <2>2. IsFiniteSet(saved' \cup Own(d))
    BY <1>8, <2>1, FS_Union
  <2>3. saved \cup Own(d) \subseteq saved' \cup Own(d)
    BY <1>0
  <2>4. Cardinality(Later(saved \cup Own(d), x.at)) >= MaxSnapshots
    BY <1>10 DEF RetentionInv, Evictions
  <2> QED BY <2>2, <2>3, <2>4, LaterOfMore, RetentionAssumption
<1>11. ASSUME NEW d \in Clients \ {c}, pc[d] = "trimmed", saved' = Past, list[d] # {}
       PROVE  history' \ evicted[d] \subseteq Newest(MaxSnapshots, Past \cup Own(d))
  <2>1. saved = Past
    BY <1>11, <1>0 DEF RetentionInv, Snapshots
  <2>2. Own(c) = {}
    BY <1>11, <1>0, <2>1, OwnIsNew DEF Own
  <2> QED BY <1>11, <1>0, <2>1, <2>2 DEF RetentionInv, Evictions
<1>12. Evictions'
  <2> SUFFICES ASSUME NEW d \in Clients \ {c}, pc[d] = "trimmed"
               PROVE  /\ \A x \in evicted[d] :
                           Cardinality(Later(saved' \cup Own(d), x.at)) >= MaxSnapshots
                      /\ saved' = Past /\ list[d] # {} =>
                           history' \ evicted[d]
                             \subseteq Newest(MaxSnapshots, Past \cup Own(d))
    <3>1. \A d \in Clients : Own(d)' = Own(d)
      BY <1>0 DEF Own
    <3>2. \A d \in Clients : pc'[d] = "trimmed" => d # c /\ pc[d] = "trimmed"
      BY <1>1
    <3>3. \A d \in Clients : evicted'[d] = evicted[d] /\ list'[d] = list[d]
      BY <1>0
    <3> QED BY <3>1, <3>2, <3>3 DEF Evictions, Newest, Later
  <2> QED BY <1>10, <1>11
<1>13. Bounded'
  <2>0. /\ Cardinality(history) \in Nat /\ Cardinality(saved \ Past) \in Nat
        /\ MaxSnapshots \in Nat
    BY Takers, RetentionAssumption
  <2>1. CASE list[c] = {}
    <3>1. saved' = saved /\ history' \subseteq history
      BY <2>1, <1>0 DEF Own
    <3>2. Cardinality(history') <= Cardinality(history) /\ Cardinality(history') \in Nat
      BY <3>1, <1>7, FS_Subset, FS_CardinalityType
    <3> QED BY <3>1, <3>2, <2>0 DEF RetentionInv, Bounded
  <2>2. CASE list[c] # {} /\ saved = Past
    <3>1. Own(c) = {o} /\ o.at \in Nat /\ o.at > Start
      BY <2>2, <1>0, OwnIsNew
    <3>2. history \ evicted[c] \subseteq Newest(MaxSnapshots, Past \cup {o})
      BY <2>2, <1>0, <3>1 DEF RetentionInv, Evictions
    <3>3. o \in Newest(MaxSnapshots, Past \cup {o})
      <4>1. Later(Past \cup {o}, o.at) = {}
        BY <3>1, PastAssumption, ClockAssumption DEF Later
      <4>2. Cardinality(Clients) \in Nat
        BY RetentionAssumption, FS_CardinalityType
      <4>3. Cardinality(Later(Past \cup {o}, o.at)) < MaxSnapshots
        BY <4>1, <4>2, FS_EmptySet, RetentionAssumption
      <4> HIDE DEF o
      <4> QED BY <4>3, NewestIs
    <3>4. history' \subseteq Newest(MaxSnapshots, Past \cup {o})
      BY <1>0, <3>1, <3>2, <3>3
    <3>5. /\ IsFiniteSet(Newest(MaxSnapshots, Past \cup {o}))
          /\ Cardinality(Newest(MaxSnapshots, Past \cup {o})) <= MaxSnapshots
      BY <3>1, OneMore
    <3>6. /\ Cardinality(history') \in Nat
          /\ Cardinality(history') <= Cardinality(Newest(MaxSnapshots, Past \cup {o}))
          /\ Cardinality(Newest(MaxSnapshots, Past \cup {o})) \in Nat
      BY <3>4, <3>5, FS_Subset, FS_CardinalityType
    <3> QED BY <3>5, <3>6, <2>0 DEF Bounded
  <2>3. CASE list[c] # {} /\ saved # Past
    <3>1. Own(c) = {o} /\ o \notin saved /\ o \notin Past
      BY <2>3, <1>0, OwnIsNew DEF RetentionInv, Snapshots
    <3>2. saved' \ Past = (saved \ Past) \cup {o} /\ o \notin saved \ Past
      BY <1>0, <3>1
    <3>3. Cardinality(saved' \ Past) = Cardinality(saved \ Past) + 1
      <4> DEFINE taken == saved \ Past
      <4>1. IsFiniteSet(taken) /\ saved' \ Past = taken \cup {o} /\ o \notin taken
        BY <3>2, Takers
      <4> HIDE DEF taken, o
      <4>2. Cardinality(taken \cup {o}) = Cardinality(taken) + 1
        BY <4>1, FS_AddElement
      <4> QED BY <4>1, <4>2 DEF taken
    <3>4. Cardinality(saved \ Past) # 0
      BY <2>3, Takers, FS_EmptySet DEF RetentionInv, Snapshots
    <3>5. /\ IsFiniteSet(history \cup {o})
          /\ Cardinality(history \cup {o}) <= Cardinality(history) + 1
          /\ Cardinality(history \cup {o}) \in Nat
      <4> HIDE DEF o
      <4>1. /\ IsFiniteSet(history \cup {o})
            /\ Cardinality(history \cup {o}) = IF o \in history THEN Cardinality(history)
                                                              ELSE Cardinality(history) + 1
        BY <1>7, FS_AddElement
      <4> QED BY <4>1, <2>0
    <3>6. history' \subseteq history \cup {o}
      BY <1>0, <3>1
    <3>7. Cardinality(history') <= Cardinality(history \cup {o}) /\ Cardinality(history') \in Nat
      BY <3>5, <3>6, FS_Subset, FS_CardinalityType
    <3>8. \/ Cardinality(history) <= MaxSnapshots
          \/ Cardinality(history) < MaxSnapshots + Cardinality(saved \ Past)
      BY DEF RetentionInv, Bounded
    <3>9. Cardinality(history') < MaxSnapshots + Cardinality(saved' \ Past)
      BY <2>0, <3>3, <3>4, <3>5, <3>7, <3>8
    <3> QED BY <3>9 DEF Bounded
  <2> QED BY <2>1, <2>2, <2>3
<1> QED BY <1>2, <1>6, <1>9, <1>12, <1>13 DEF RetentionInv

LEMMA RetentionStep == IInv /\ Local /\ RetentionInv /\ [Next]_vars => RetentionInv'
<1> SUFFICES ASSUME IInv, Local, RetentionInv, [Next]_vars PROVE RetentionInv'
  OBVIOUS
<1>1. CASE UNCHANGED vars
  <2>1. UNCHANGED <<exists, history, saved, clock, job, stamp, list, evicted, pc>>
    BY <1>1 DEF vars, stored, components, upload
  <2>2. \A d \in Clients : \A s : Took(d, s)' <=> Took(d, s)
    BY <2>1 DEF Took
  <2> QED BY SMTT(30), <2>1, <2>2 DEF RetentionInv, Stamps, Snapshots, Kept, Evictions, Bounded, Own,
                            Saving, Newest, Later
<1>2. ASSUME NEW c \in Clients, Step(c) PROVE RetentionInv'
  <2>1. CASE Begin(c)
    BY <2>1, ClockRetention DEF Begin, stored, components, upload, Over, Updating, Announcing
  <2>2. CASE Lock(c)
    BY <2>2, QuietRetention DEF Lock, stored, components, upload, Over, Updating
  <2>3. CASE Rewrite(c)
    BY <2>3, QuietRetention DEF Rewrite, stored, components, upload, Over, Updating
  <2>4. CASE Commit(c)
    <3> DEFINE label == IF job[c] = "upload" THEN "notify" ELSE "done"
    <3>1. label \in Over \ {"inserted", "trimmed"}
      BY DEF Over, Announcing
    <3> QED BY <2>4, <3>1, QuietRetention DEF Commit, stored, components, upload
  <2>5. CASE SaveDocument(c)
    BY <2>5, SaveDocumentRetention
  <2>6. CASE Clear(c)
    BY <2>6, QuietRetention DEF Clear, stored, components, upload, Over, Updating, Announcing
  <2>7. CASE Insert(c)
    BY <2>7, ClockRetention DEF Insert, stored, components, upload, Over, Updating, Announcing
  <2>8. CASE Evict(c)
    BY <2>8, EvictRetention
  <2>9. CASE CommitSave(c)
    BY <2>9, CommitSaveRetention
  <2>10. CASE ReadSnapshots(c)
    <3>1. PICK label \in {"done", "newer"} : Goto(c, label)
      BY <2>10 DEF ReadSnapshots
    <3> QED BY <2>10, <3>1, QuietRetention
            DEF ReadSnapshots, stored, components, upload, Over, Announcing
  <2>11. CASE ReadNewer(c)
    BY <2>11, QuietRetention DEF ReadNewer, stored, components, upload, Over, Announcing
  <2>12. CASE Announce(c)
    BY <2>12, QuietRetention DEF Announce, stored, components, upload, Over, Announcing
  <2>13. CASE ReadRow(c)
    BY <2>13, QuietRetention DEF ReadRow, stored, components, upload, Over, Updating, Announcing
  <2>14. CASE ReadBucket(c, "cve", "other") \/ ReadBucket(c, "other", "documents")
    BY <2>14, QuietRetention DEF ReadBucket, stored, components, upload, Over, Updating,
                                 Announcing
  <2>15. CASE Judge(c)
    BY <2>15, ClockRetention DEF Judge, stored, components, upload, Over, Updating, Announcing
  <2>16. CASE Delete(c)
    BY <2>16, DeleteRetention
  <2>17. CASE Fail(c)
    <3>1. PICK label \in {"failed", "notify"} : Goto(c, label)
      BY <2>17 DEF Fail
    <3> QED BY <2>17, <3>1, QuietRetention
            DEF Fail, stored, components, upload, Over, Announcing
  <2> QED BY <1>2, <2>1, <2>2, <2>3, <2>4, <2>5, <2>6, <2>7, <2>8, <2>9, <2>10, <2>11,
             <2>12, <2>13, <2>14, <2>15, <2>16, <2>17 DEF Step
<1> QED BY <1>1, <1>2 DEF Next

LEMMA RetentionInit == Init => Local /\ RetentionInv
<1> SUFFICES ASSUME Init PROVE Local /\ RetentionInv
  OBVIOUS
<1>1. Local
  BY DEF Init, Local
<1>2. Stamps
  BY ClockAssumption DEF Init, Stamps, Saving
<1>3. Snapshots
  BY DEF Init, Snapshots, Saving
<1>4. Kept
  BY DEF Init, Kept, Newest
<1>5. Evictions /\ Bounded
  BY PastAssumption DEF Init, Evictions, Bounded
<1> QED BY <1>1, <1>2, <1>3, <1>4, <1>5 DEF RetentionInv

LEMMA RetentionInductive == Spec => [](IInv /\ Local /\ RetentionInv)
<1>1. Init => IInv /\ Local /\ RetentionInv
  BY InitInv, RetentionInit
<1>2. IInv /\ Local /\ RetentionInv /\ [Next]_vars => (IInv /\ Local /\ RetentionInv)'
  BY StepInv, LocalStep, RetentionStep
<1> QED BY <1>1, <1>2, PTL DEF Spec

\* However the saves, evictions, failures and deletions interleave, the
\* newest MaxSnapshots snapshots ever committed are kept, and no more than
\* one beyond that for each upload after the first.  (saveComponents:
\* evictions of transactions that do not see each other's snapshot.)
THEOREM RetentionIsBounded == Spec => []RetentionBounded
<1>1. RetentionInv => RetentionBounded
  <2> SUFFICES ASSUME RetentionInv, exists PROVE
        \/ Cardinality(history) <= MaxSnapshots
        \/ Cardinality(history) < MaxSnapshots
                                    + Cardinality({c \in Clients : job[c] = "upload"})
    BY DEF RetentionBounded, RetentionInv, Kept
  <2> QED BY Takers, RetentionAssumption DEF RetentionInv, Bounded
<1> QED BY <1>1, RetentionInductive, PTL


-----------------------------------------------------------------------------
(* The gate *)

LEMMA BrokenIs ==
  ASSUME NEW p, NEW a, NEW now, NEW rule, NEW b
  PROVE  Broken(Evaluate(p, a, now), rule, b) <=>
           \/ b = "" /\ rule \in BrokenRules(p, a, now)
           \/ /\ rule = "licenseDenylist" /\ b = "other"
              /\ p.licenseDenylist /\ LicenseViolations(a, now) # {}
           \/ /\ rule = "maxSeverity" /\ b \in DOMAIN p.maxSeverity
              /\ BucketViolations(p, a, b, now) # {}
<1> DEFINE rules == {[rule |-> r, bucket |-> "", id |-> ""] : r \in BrokenRules(p, a, now)}
           licenses == IF p.licenseDenylist THEN LicenseViolations(a, now) ELSE {}
           severities == UNION {BucketViolations(p, a, k, now) : k \in DOMAIN p.maxSeverity}
<1>1. Evaluate(p, a, now) = rules \cup licenses \cup severities
  BY DEF Evaluate
<1>2. Broken(rules, rule, b) <=> b = "" /\ rule \in BrokenRules(p, a, now)
  <2> DEFINE entry(r) == [rule |-> r, bucket |-> "", id |-> ""]
  <2>1. \A r : entry(r).rule = r /\ entry(r).bucket = ""
    OBVIOUS
  <2>2. rules = {entry(r) : r \in BrokenRules(p, a, now)}
    OBVIOUS
  <2> HIDE DEF entry, rules
  <2> QED BY <2>1, <2>2, Zenon DEF Broken
<1>3. Broken(licenses, rule, b) <=> /\ rule = "licenseDenylist" /\ b = "other"
                                    /\ p.licenseDenylist /\ LicenseViolations(a, now) # {}
  <2> DEFINE findings == {g \in a.findings["other"] : IsActive(g, now) /\ g.license}
             entry(f) == [rule |-> "licenseDenylist", bucket |-> "other", id |-> f.id]
  <2>1. \A f : entry(f).rule = "licenseDenylist" /\ entry(f).bucket = "other"
    OBVIOUS
  <2>2. LicenseViolations(a, now) = {entry(f) : f \in findings}
    BY DEF LicenseViolations
  <2> HIDE DEF entry, findings
  <2>3. Broken(LicenseViolations(a, now), rule, b)
          <=> rule = "licenseDenylist" /\ b = "other" /\ LicenseViolations(a, now) # {}
    BY <2>1, <2>2, Zenon DEF Broken
  <2>4. ~Broken({}, rule, b)
    BY DEF Broken
  <2>5. CASE p.licenseDenylist
    BY <2>3, <2>5
  <2>6. CASE ~p.licenseDenylist
    BY <2>4, <2>6
  <2> QED BY <2>5, <2>6
<1>4. Broken(severities, rule, b) <=> /\ rule = "maxSeverity" /\ b \in DOMAIN p.maxSeverity
                                      /\ BucketViolations(p, a, b, now) # {}
  <2>1. \A k, v : v \in BucketViolations(p, a, k, now) => v.rule = "maxSeverity" /\ v.bucket = k
    BY DEF BucketViolations
  <2> QED BY <2>1 DEF Broken
<1>5. \A v, w, x : Broken(v \cup w \cup x, rule, b)
                     <=> Broken(v, rule, b) \/ Broken(w, rule, b) \/ Broken(x, rule, b)
  BY DEF Broken
<1>6. Broken(Evaluate(p, a, now), rule, b) <=> \/ Broken(rules, rule, b)
                                               \/ Broken(licenses, rule, b)
                                               \/ Broken(severities, rule, b)
  <2> HIDE DEF rules, licenses, severities
  <2> QED BY <1>1, <1>5, ZenonT(30)
<1> HIDE DEF rules, licenses, severities
<1> QED BY <1>2, <1>3, <1>4, <1>6, Zenon

Others == Buckets \ {"cve", "other"}

SameRow(w, a) == /\ w.unsafe = a.unsafe /\ w.scanAt = a.scanAt
                 /\ w.provenance = a.provenance /\ w.checkedAt = a.checkedAt

\* Nothing is known of the other buckets.
Silent(a) == \A b \in Others : a.findings[b] = {}

\* What is put together from parts that were there at some moment is judged,
\* rule by rule, as one of those moments.
LEMMA Patchwork ==
  ASSUME NEW now, NEW S, NEW w, Silent(w), \A a \in S : Silent(a),
         \E r \in S : SameRow(w, r),
         \E x \in S : w.findings["cve"] = x.findings["cve"],
         \E y \in S : w.findings["other"] = y.findings["other"],
         \E z \in S : w.hasSBOM = z.hasSBOM
  PROVE  LET Answers == {Evaluate(InForce, a, now) : a \in S}
         IN /\ Evaluate(InForce, w, now) \subseteq UNION Answers
            /\ \A r, b : ~Broken(Evaluate(InForce, w, now), r, b)
                            => \E x \in Answers : ~Broken(x, r, b)
<1> DEFINE Answer(a) == Evaluate(InForce, a, now)
           Answers == {Answer(a) : a \in S}
<1>1. PICK r \in S : SameRow(w, r)
  OBVIOUS
<1>2. PICK x \in S : w.findings["cve"] = x.findings["cve"]
  OBVIOUS
<1>3. PICK y \in S : w.findings["other"] = y.findings["other"]
  OBVIOUS
<1>4. PICK z \in S : w.hasSBOM = z.hasSBOM
  OBVIOUS
<1>5. \A rule : rule # "requireSBOM" => (rule \in BrokenRules(InForce, w, now)
                                           <=> rule \in BrokenRules(InForce, r, now))
  BY <1>1 DEF SameRow, BrokenRules, ProvenanceIsStale
<1>6. "requireSBOM" \in BrokenRules(InForce, w, now)
        <=> "requireSBOM" \in BrokenRules(InForce, z, now)
  BY <1>4 DEF BrokenRules
<1>7. /\ BucketViolations(InForce, w, "cve", now) = BucketViolations(InForce, x, "cve", now)
      /\ BucketViolations(InForce, w, "other", now) = BucketViolations(InForce, y, "other", now)
      /\ LicenseViolations(w, now) = LicenseViolations(y, now)
  BY <1>2, <1>3 DEF BucketViolations, LicenseViolations
<1>8. \A a \in S \cup {w}, b \in Others : BucketViolations(InForce, a, b, now) = {}
  BY DEF Silent, BucketViolations
<1>9. DOMAIN InForce.maxSeverity \subseteq {"cve", "other"} \cup Others
  BY PolicyAssumption DEF Loadable, Others
<1>10. Answer(w) \subseteq UNION Answers
  <2> SUFFICES ASSUME NEW v \in Answer(w) PROVE \E a \in S : v \in Answer(a)
    OBVIOUS
  <2>1. CASE \E rule \in BrokenRules(InForce, w, now) :
               v = [rule |-> rule, bucket |-> "", id |-> ""]
    <3>1. PICK rule \in BrokenRules(InForce, w, now) :
            v = [rule |-> rule, bucket |-> "", id |-> ""]
      BY <2>1
    <3>2. PICK a \in {r, z} : rule \in BrokenRules(InForce, a, now)
      BY <1>5, <1>6, <3>1
    <3>3. v \in Answer(a)
      BY <3>1, <3>2 DEF Evaluate
    <3> QED BY <3>3, <3>2
  <2>2. CASE InForce.licenseDenylist /\ v \in LicenseViolations(w, now)
    <3>1. v \in Answer(y)
      BY <2>2, <1>7 DEF Evaluate
    <3> QED BY <3>1
  <2>3. CASE \E b \in DOMAIN InForce.maxSeverity : v \in BucketViolations(InForce, w, b, now)
    <3>1. PICK b \in DOMAIN InForce.maxSeverity : v \in BucketViolations(InForce, w, b, now)
      BY <2>3
    <3>2. PICK a \in {x, y} : v \in BucketViolations(InForce, a, b, now)
      BY <1>7, <1>8, <1>9, <3>1
    <3>3. v \in Answer(a)
      BY <3>1, <3>2 DEF Evaluate
    <3> QED BY <3>3, <3>2
  <2> QED BY <2>1, <2>2, <2>3 DEF Evaluate
<1>11. ASSUME NEW rule, NEW b, ~Broken(Answer(w), rule, b)
       PROVE  \E a \in S : ~Broken(Answer(a), rule, b)
  <2> SUFFICES ASSUME \A a \in S : Broken(Answer(a), rule, b) PROVE FALSE
    OBVIOUS
  <2> DEFINE Kind(a) == \/ b = "" /\ rule \in BrokenRules(InForce, a, now)
                        \/ /\ rule = "licenseDenylist" /\ b = "other"
                           /\ InForce.licenseDenylist /\ LicenseViolations(a, now) # {}
                        \/ /\ rule = "maxSeverity" /\ b \in DOMAIN InForce.maxSeverity
                           /\ BucketViolations(InForce, a, b, now) # {}
  <2>1. Kind(r) /\ Kind(x) /\ Kind(y) /\ Kind(z) /\ ~Kind(w)
    BY <1>11, BrokenIs
  <2>2. CASE b = "" /\ rule # "licenseDenylist" /\ rule # "maxSeverity"
    <3>1. CASE rule = "requireSBOM"
      BY <3>1, <2>1, <2>2, <1>6
    <3>2. CASE rule # "requireSBOM"
      BY <3>2, <2>1, <2>2, <1>5
    <3> QED BY <3>1, <3>2
  <2>3. CASE rule = "licenseDenylist"
    <3>1. \A a : rule \notin BrokenRules(InForce, a, now)
      BY <2>3 DEF BrokenRules
    <3> QED BY <3>1, <2>1, <2>3, <1>7
  <2>4. CASE rule = "maxSeverity"
    <3>1. \A a : rule \notin BrokenRules(InForce, a, now)
      BY <2>4 DEF BrokenRules
    <3> QED BY <3>1, <2>1, <2>4, <1>7, <1>8, <1>9
  <2> QED BY <2>1, <2>2, <2>3, <2>4
<1>12. \A rule, b : ~Broken(Answer(w), rule, b) => \E a \in Answers : ~Broken(a, rule, b)
  <2> SUFFICES ASSUME NEW rule, NEW b, ~Broken(Answer(w), rule, b)
               PROVE  \E a \in Answers : ~Broken(a, rule, b)
    OBVIOUS
  <2>1. PICK a \in S : ~Broken(Answer(a), rule, b)
    BY <1>11
  <2> QED BY <2>1
<1> QED BY <1>10, <1>12

-----------------------------------------------------------------------------
\* A gate that reads table by table has seen each part it read, and sees the
\* artifact as it is.
Looking == \A c \in Clients : pc[c] \in Reading =>
  /\ \A a \in seen[c] : Silent(a)
  /\ Shaped(loaded[c]) /\ Silent(loaded[c])
  /\ \E a \in seen[c] : SameRow(loaded[c], a)
  /\ exists =>
       /\ Whole(artifact, document) \in seen[c]
       /\ pc[c] # "cve" => \E a \in seen[c] : loaded[c].findings["cve"] = a.findings["cve"]
       /\ pc[c] = "documents" =>
            \E a \in seen[c] : loaded[c].findings["other"] = a.findings["other"]

HonestyInv == /\ Shaped(artifact) /\ Silent(artifact)
              /\ \A c \in Clients : pc[c] \in Announcing => job[c] = "upload"
              /\ Looking
              /\ GateIsHonest

LEMMA WholeIs ==
  ASSUME NEW a, NEW d
  PROVE  /\ Whole(a, d).findings = a.findings /\ SameRow(Whole(a, d), a)
         /\ SameRow(a, Whole(a, d))
         /\ Whole(a, d).hasSBOM = (d # Nothing)
         /\ Silent(a) => Silent(Whole(a, d))
BY DEF Whole, SameRow, Silent

\* No operation touches the other buckets.
LEMMA StaysSilent ==
  ASSUME IInv, Shaped(artifact), Silent(artifact), NEW c \in Clients, pc[c] = "rewritten",
         NEW a \in Mutations(c)
  PROVE  Shaped(a) /\ Silent(a)
<1>1. CASE \E now \in Start..Horizon : a \in Store!Outcomes(artifact, now)
  <2>1. PICK now \in Start..Horizon, r \in Reports, k \in BOOLEAN, v \in Verdicts :
               a = Store!Scanned(artifact, now, r, k, v)
    BY <1>1 DEF Store!Outcomes
  <2> QED BY <2>1 DEF Store!Scanned, Shaped, Silent, Others, Buckets
<1>2. CASE \E now \in Start..Horizon : a \in Store!Acceptances(artifact, now)
  <2>1. CASE a = artifact
    BY <2>1
  <2>2. CASE \E now, id : a = Store!WithAcceptance(artifact, id, now)
    <3>1. PICK now, id : a = Store!WithAcceptance(artifact, id, now)
      BY <2>2
    <3> DEFINE dated(b) == {IF f.id = id THEN [f EXCEPT !.until = now] ELSE f :
                              f \in artifact.findings[b]}
               all == [b \in Buckets |-> dated(b)]
    <3>4. a = [artifact EXCEPT !.findings = all]
      BY <3>1 DEF Store!WithAcceptance, Store!Buckets, Buckets
    <3>2. \A b \in Others : dated(b) = {}
      BY DEF Silent
    <3>3. DOMAIN all = Buckets /\ \A b \in Others : all[b] = {}
      <4> HIDE DEF dated
      <4> QED BY <3>2 DEF Others
    <3> HIDE DEF all
    <3> QED BY <3>4, <3>3 DEF Shaped, Silent
  <2> QED BY <1>2, <2>1, <2>2 DEF Store!Acceptances
<1>3. CASE a \in Store!Reviewed(artifact)
  <2>1. PICK d : a = Store!Licensed(artifact, d)
    BY <1>3 DEF Store!Reviewed
  <2> QED BY <2>1 DEF Store!Licensed, Shaped, Silent, Others, Buckets
<1>4. CASE a \in Store!Edits(artifact)
  <2>1. \/ \E s : a = Store!Staged(artifact, s)
        \/ \E t : a = Store!Assigned(artifact, t)
    BY <1>4 DEF Store!Edits
  <2> QED BY <2>1 DEF Store!Staged, Store!Assigned, Shaped, Silent
<1> QED BY <1>1, <1>2, <1>3, <1>4, MutationsAreUpdates

HonestAnswer(answer, now, moments) ==
  LET Answers == {Evaluate(InForce, a, now) : a \in moments}
      Rules == {v.rule : v \in UNION Answers}
  IN /\ answer \subseteq UNION Answers
     /\ \A r \in Rules, b \in Buckets \cup {""} :
          ~Broken(answer, r, b) => \E x \in Answers : ~Broken(x, r, b)

LEMMA HonestIs ==
  GateIsHonest <=> \A c \in Clients : job[c] = "gate" /\ pc[c] = "done" /\ exists =>
                                        HonestAnswer(told[c], stamp[c], seen[c])
BY DEF GateIsHonest, HonestAnswer

\* One client goes on, and the gates that are reading see what it changed.
LEMMA OthersHonesty ==
  ASSUME IInv, HonestyInv, NEW c \in Clients, NEW label, Goto(c, label),
         label \notin Reading, job[c] = "gate" => label # "done",
         label \in Announcing => job[c] = "upload",
         exists' => exists, job' = job, Shaped(artifact'), Silent(artifact'),
         \A d \in Clients \ {c} :
           loaded'[d] = loaded[d] /\ stamp'[d] = stamp[d] /\ told'[d] = told[d],
         \A d \in Clients \ {c} :
           /\ seen[d] \subseteq seen'[d]
           /\ \A a \in seen'[d] \ seen[d] : Silent(a)
           /\ pc[d] \notin Reading => seen'[d] = seen[d]
           /\ pc[d] \in Reading /\ exists' => Whole(artifact', document') \in seen'[d]
  PROVE  HonestyInv'
<1>1. \A d \in Clients : pc'[d] = IF d = c THEN label ELSE pc[d]
  BY Went
<1>2. (Shaped(artifact) /\ Silent(artifact))'
  BY DEF Shaped, Silent
<1>3. (\A d \in Clients : pc[d] \in Announcing => job[d] = "upload")'
  BY <1>1 DEF HonestyInv
<1>4. Looking'
  <2> SUFFICES ASSUME NEW d \in Clients \ {c}, pc[d] \in Reading
               PROVE  /\ \A a \in seen'[d] : Silent(a)
                      /\ Shaped(loaded[d]) /\ Silent(loaded[d])
                      /\ \E a \in seen'[d] : SameRow(loaded[d], a)
                      /\ exists' =>
                           /\ Whole(artifact', document') \in seen'[d]
                           /\ pc[d] # "cve" => \E a \in seen'[d] :
                                                 loaded[d].findings["cve"] = a.findings["cve"]
                           /\ pc[d] = "documents" =>
                                \E a \in seen'[d] :
                                  loaded[d].findings["other"] = a.findings["other"]
    BY <1>1 DEF Looking, Whole, Silent, Shaped, SameRow
  <2>1. seen[d] \subseteq seen'[d] /\ \A a \in seen'[d] : Silent(a)
    BY DEF HonestyInv, Looking
  <2> QED BY <2>1 DEF HonestyInv, Looking
<1>5. GateIsHonest'
  <2>1. \A d \in Clients : job'[d] = "gate" /\ pc'[d] = "done" /\ exists' =>
                             HonestAnswer(told'[d], stamp'[d], seen'[d])
    <3> SUFFICES ASSUME NEW d \in Clients \ {c}, job[d] = "gate", pc[d] = "done", exists
                 PROVE  HonestAnswer(told'[d], stamp'[d], seen'[d])
      BY <1>1
    <3>1. HonestAnswer(told[d], stamp[d], seen[d])
      BY HonestIs DEF HonestyInv
    <3>2. told'[d] = told[d] /\ stamp'[d] = stamp[d] /\ seen'[d] = seen[d]
      BY DEF Reading
    <3> QED BY <3>1, <3>2
  <2> QED BY <2>1 DEF GateIsHonest, HonestAnswer, Broken
<1> QED BY <1>2, <1>3, <1>4, <1>5 DEF HonestyInv

\* The gate reads: nobody else is concerned.
LEMMA ReadsHonesty ==
  ASSUME IInv, Local, HonestyInv, NEW c \in Clients, job[c] = "gate",
         NEW label \in Reading, Goto(c, label),
         UNCHANGED <<exists, artifact, document, job, stamp, told>>,
         \A d \in Clients \ {c} : loaded'[d] = loaded[d] /\ seen'[d] = seen[d],
         \A a \in seen'[c] : Silent(a),
         Shaped(loaded'[c]), Silent(loaded'[c]),
         \E a \in seen'[c] : SameRow(loaded'[c], a),
         exists => /\ Whole(artifact, document) \in seen'[c]
                   /\ label # "cve" =>
                        \E a \in seen'[c] : loaded'[c].findings["cve"] = a.findings["cve"]
                   /\ label = "documents" =>
                        \E a \in seen'[c] : loaded'[c].findings["other"] = a.findings["other"]
  PROVE  HonestyInv'
<1>1. \A d \in Clients : pc'[d] = IF d = c THEN label ELSE pc[d]
  BY Went
<1>2. (Shaped(artifact) /\ Silent(artifact))'
  BY DEF HonestyInv, Shaped, Silent
<1>3. (\A d \in Clients : pc[d] \in Announcing => job[d] = "upload")'
  BY <1>1 DEF HonestyInv, Reading, Announcing
<1>4. Looking'
  <2> SUFFICES ASSUME NEW d \in Clients, pc'[d] \in Reading
               PROVE  /\ \A a \in seen'[d] : Silent(a)
                      /\ Shaped(loaded'[d]) /\ Silent(loaded'[d])
                      /\ \E a \in seen'[d] : SameRow(loaded'[d], a)
                      /\ exists =>
                           /\ Whole(artifact, document) \in seen'[d]
                           /\ pc'[d] # "cve" => \E a \in seen'[d] :
                                                 loaded'[d].findings["cve"] = a.findings["cve"]
                           /\ pc'[d] = "documents" =>
                                \E a \in seen'[d] :
                                  loaded'[d].findings["other"] = a.findings["other"]
    BY DEF Looking, Whole, Silent, Shaped, SameRow
  <2>1. CASE d = c
    BY <2>1, <1>1
  <2>2. CASE d # c
    BY <2>2, <1>1 DEF HonestyInv, Looking
  <2> QED BY <2>1, <2>2
<1>5. GateIsHonest'
  <2>1. \A d \in Clients : job'[d] = "gate" /\ pc'[d] = "done" /\ exists' =>
                             HonestAnswer(told'[d], stamp'[d], seen'[d])
    <3> SUFFICES ASSUME NEW d \in Clients \ {c}, job[d] = "gate", pc[d] = "done", exists
                 PROVE  HonestAnswer(told'[d], stamp'[d], seen'[d])
      BY <1>1 DEF Reading
    <3>1. HonestAnswer(told[d], stamp[d], seen[d])
      BY HonestIs DEF HonestyInv
    <3> QED BY <3>1
  <2> QED BY <2>1 DEF GateIsHonest, HonestAnswer, Broken
<1> QED BY <1>2, <1>3, <1>4, <1>5 DEF HonestyInv

LEMMA ReadRowHonesty ==
  ASSUME IInv, Local, HonestyInv, NEW c \in Clients, ReadRow(c)
  PROVE  HonestyInv'
<1> DEFINE row == [artifact EXCEPT !.findings = Unread]
           moment == Whole(artifact, document)
<1>1. /\ loaded'[c] = row /\ \A d \in Clients \ {c} : loaded'[d] = loaded[d]
      /\ seen'[c] = {moment} /\ \A d \in Clients \ {c} : seen'[d] = seen[d]
  BY DEF ReadRow, IInv, Typed, Local
<1>2. Shaped(artifact) /\ Silent(artifact)
  BY DEF HonestyInv
<1>3. Shaped(row) /\ Silent(row) /\ SameRow(row, artifact)
  BY <1>2 DEF Shaped, Silent, SameRow, Unread, Others
<1>4. Silent(moment) /\ SameRow(row, moment)
  BY <1>2, <1>3, WholeIs DEF SameRow
<1>5. /\ job[c] = "gate" /\ Goto(c, "cve")
      /\ UNCHANGED <<exists, artifact, document, job, stamp, told>>
  BY DEF ReadRow, stored
<1> HIDE DEF row, moment
<1>6. moment = Whole(artifact, document)
  BY DEF moment
<1> QED BY <1>1, <1>3, <1>4, <1>5, <1>6, ReadsHonesty DEF Reading

LEMMA ReadBucketHonesty ==
  ASSUME IInv, Local, HonestyInv, NEW c \in Clients,
         NEW bucket \in {"cve", "other"}, NEW next \in {"other", "documents"},
         bucket = "cve" <=> next = "other", ReadBucket(c, bucket, next)
  PROVE  HonestyInv'
<1> DEFINE row == [loaded[c] EXCEPT !.findings[bucket] = Rows(bucket)]
           moment == Whole(artifact, document)
<1>1. /\ loaded'[c] = row /\ \A d \in Clients \ {c} : loaded'[d] = loaded[d]
      /\ seen' = seen /\ pc[c] = bucket /\ Goto(c, next)
      /\ UNCHANGED <<exists, artifact, document, job, stamp, told>>
  BY DEF ReadBucket, IInv, Typed, stored
<1>2. job[c] = "gate" /\ pc[c] \in Reading
  BY <1>1 DEF IInv, Prepared, Reading
<1>3. /\ \A a \in seen[c] : Silent(a)
      /\ Shaped(loaded[c]) /\ Silent(loaded[c])
      /\ \E a \in seen[c] : SameRow(loaded[c], a)
      /\ exists => moment \in seen[c]
      /\ exists /\ bucket = "other" =>
           \E a \in seen[c] : loaded[c].findings["cve"] = a.findings["cve"]
  BY <1>1, <1>2 DEF HonestyInv, Looking
<1>4. /\ Shaped(row) /\ Silent(row) /\ \A a : SameRow(loaded[c], a) => SameRow(row, a)
      /\ row.findings[bucket] = Rows(bucket)
      /\ bucket = "other" => row.findings["cve"] = loaded[c].findings["cve"]
  BY <1>3 DEF Shaped, Silent, SameRow, Others, Buckets
<1>5. exists => row.findings[bucket] = moment.findings[bucket]
  BY <1>4, WholeIs DEF Rows
<1> HIDE DEF row, moment
<1>6. moment = Whole(artifact, document)
  BY DEF moment
<1>7. exists => \E a \in seen[c] : row.findings["cve"] = a.findings["cve"]
  BY <1>3, <1>4, <1>5
<1>8. exists /\ next = "documents" => \E a \in seen[c] : row.findings["other"] = a.findings["other"]
  BY <1>3, <1>5
<1>9. \E a \in seen[c] : SameRow(row, a)
  BY <1>3, <1>4
<1>10. next \in Reading
  BY DEF Reading
<1> QED BY <1>1, <1>2, <1>3, <1>4, <1>6, <1>7, <1>8, <1>9, <1>10, ReadsHonesty

LEMMA JudgeHonesty ==
  ASSUME IInv, Local, HonestyInv, NEW c \in Clients, Judge(c)
  PROVE  HonestyInv'
<1> DEFINE judged == Whole(loaded[c], document)
<1>1. /\ pc[c] = "documents"
      /\ UNCHANGED <<exists, artifact, document, job, loaded, seen>>
  BY DEF Judge, stored
<1>2. /\ \A d \in Clients : pc'[d] = IF d = c THEN "done" ELSE pc[d]
      /\ \A d \in Clients : stamp'[d] = IF d = c THEN clock' ELSE stamp[d]
      /\ \A d \in Clients : told'[d] = IF d = c THEN Evaluate(InForce, judged, clock') ELSE told[d]
  BY Went, ClockRead DEF Judge, Local
<1>3. (Shaped(artifact) /\ Silent(artifact))'
  BY <1>1 DEF HonestyInv, Shaped, Silent
<1>4. (\A d \in Clients : pc[d] \in Announcing => job[d] = "upload")'
  BY <1>1, <1>2 DEF HonestyInv, Announcing
<1>5. Looking'
  BY <1>1, <1>2 DEF HonestyInv, Looking, Reading, Whole, Silent, Shaped, SameRow
<1>6. ASSUME exists PROVE HonestAnswer(Evaluate(InForce, judged, clock'), clock', seen[c])
  <2>1. /\ \A a \in seen[c] : Silent(a)
        /\ Silent(loaded[c])
        /\ \E a \in seen[c] : SameRow(loaded[c], a)
        /\ \E a \in seen[c] : loaded[c].findings["cve"] = a.findings["cve"]
        /\ \E a \in seen[c] : loaded[c].findings["other"] = a.findings["other"]
        /\ Whole(artifact, document) \in seen[c]
    BY <1>1, <1>6 DEF HonestyInv, Looking, Reading
  <2>2. /\ Silent(judged) /\ judged.findings = loaded[c].findings
        /\ judged.hasSBOM = Whole(artifact, document).hasSBOM
    BY <2>1, WholeIs
  <2>3. \E a \in seen[c] : SameRow(judged, a)
    BY <2>1, WholeIs DEF SameRow
  <2> HIDE DEF judged
  <2>4. \E a \in seen[c] : judged.hasSBOM = a.hasSBOM
    BY <2>1, <2>2
  <2>5. /\ \E a \in seen[c] : judged.findings["cve"] = a.findings["cve"]
        /\ \E a \in seen[c] : judged.findings["other"] = a.findings["other"]
    BY <2>1, <2>2
  <2> QED BY <2>1, <2>2, <2>3, <2>4, <2>5, Patchwork DEF HonestAnswer
<1>7. GateIsHonest'
  <2>1. \A d \in Clients : job'[d] = "gate" /\ pc'[d] = "done" /\ exists' =>
                             HonestAnswer(told'[d], stamp'[d], seen'[d])
    <3> SUFFICES ASSUME NEW d \in Clients, job[d] = "gate", pc'[d] = "done", exists
                 PROVE  HonestAnswer(told'[d], stamp'[d], seen[d])
      BY <1>1
    <3>1. CASE d = c
      BY <3>1, <1>2, <1>6
    <3>2. CASE d # c
      BY <3>2, <1>2, HonestIs DEF HonestyInv
    <3> QED BY <3>1, <3>2
  <2> QED BY <2>1 DEF GateIsHonest, HonestAnswer, Broken
<1> QED BY <1>3, <1>4, <1>5, <1>7 DEF HonestyInv

LEMMA HonestyStep == IInv /\ Local /\ HonestyInv /\ [Next]_vars => HonestyInv'
<1> SUFFICES ASSUME IInv, Local, HonestyInv, [Next]_vars PROVE HonestyInv'
  OBVIOUS
<1>0. Shaped(artifact) /\ Silent(artifact)
  BY DEF HonestyInv
<1>1. CASE UNCHANGED vars
  <2>1. UNCHANGED <<exists, artifact, document, job, pc, stamp, loaded, told, seen>>
    BY <1>1 DEF vars, stored
  <2>2. (Shaped(artifact) /\ Silent(artifact))'
    BY <1>0, <2>1 DEF Shaped, Silent
  <2>3. (\A c \in Clients : pc[c] \in Announcing => job[c] = "upload")'
    BY <2>1 DEF HonestyInv
  <2>4. Looking'
    BY <2>1 DEF HonestyInv, Looking, Shaped, Silent, SameRow, Whole
  <2>5. GateIsHonest'
    <3>1. \A d \in Clients : job'[d] = "gate" /\ pc'[d] = "done" /\ exists' =>
                               HonestAnswer(told'[d], stamp'[d], seen'[d])
      BY <2>1, HonestIs DEF HonestyInv
    <3> QED BY <3>1 DEF GateIsHonest, HonestAnswer, Broken
  <2> QED BY <2>2, <2>3, <2>4, <2>5 DEF HonestyInv
<1>2. ASSUME NEW c \in Clients, Step(c) PROVE HonestyInv'
  <2> USE <1>0
  <2>0. \A d \in Clients : exists /\ pc[d] \in Reading => Whole(artifact, document) \in seen[d]
    BY DEF HonestyInv, Looking
  <2>1. ASSUME NEW label, Goto(c, label), label \notin Reading \cup {"done"},
               label \in Announcing => job[c] = "upload",
               UNCHANGED <<stored, job, told, seen>>,
               \A d \in Clients \ {c} : loaded'[d] = loaded[d] /\ stamp'[d] = stamp[d]
        PROVE  HonestyInv'
    BY <2>0, <2>1, OthersHonesty DEF stored
  <2>2. CASE Begin(c)
    <3>1. \A d \in Clients \ {c} : stamp'[d] = stamp[d]
      BY <2>2, ClockRead DEF Begin
    <3> QED BY <2>2, <3>1, <2>1 DEF Begin, Reading, Announcing
  <2>3. CASE Lock(c)
    <3>1. \A d \in Clients \ {c} : loaded'[d] = loaded[d]
      BY <2>3 DEF Lock, IInv, Typed
    <3> QED BY <2>3, <3>1, <2>1 DEF Lock, Reading, Announcing
  <2>4. CASE Rewrite(c) \/ Clear(c) \/ Evict(c) \/ CommitSave(c)
    <3>1. PICK label \in {"rewritten", "cleared", "trimmed", "waiting"} : Goto(c, label)
      BY <2>4 DEF Rewrite, Clear, Evict, CommitSave
    <3> QED BY <2>4, <3>1, <2>1 DEF Rewrite, Clear, Evict, CommitSave, Reading, Announcing
  <2>5. CASE Insert(c)
    <3>1. \A d \in Clients \ {c} : stamp'[d] = stamp[d]
      BY <2>5, ClockRead DEF Insert
    <3> QED BY <2>5, <3>1, <2>1 DEF Insert, Reading, Announcing
  <2>6. CASE Fail(c)
    <3>1. PICK label \in {"failed", "notify"} :
            Goto(c, label) /\ (label = "notify" => job[c] = "upload")
      BY <2>6 DEF Fail
    <3> QED BY <2>6, <3>1, <2>1 DEF Fail, Reading, Announcing
  <2>7. ASSUME NEW label, Goto(c, label), label \notin Reading, job[c] = "upload",
               UNCHANGED <<stored, job, loaded, stamp, seen>>,
               \A d \in Clients \ {c} : told'[d] = told[d]
        PROVE  HonestyInv'
    BY <2>0, <2>7, OthersHonesty DEF stored
  <2>8. CASE ReadSnapshots(c) \/ ReadNewer(c) \/ Announce(c)
    <3>1. PICK label \in {"done", "newer", "older"} : Goto(c, label)
      BY <2>8 DEF ReadSnapshots, ReadNewer, Announce
    <3>2. job[c] = "upload"
      BY <2>8 DEF ReadSnapshots, ReadNewer, Announce, HonestyInv, Announcing
    <3>3. \A d \in Clients \ {c} : told'[d] = told[d]
      BY <2>8 DEF ReadSnapshots, ReadNewer, Announce, Local
    <3>4. label \notin Reading /\ UNCHANGED <<stored, job, loaded, stamp, seen>>
      BY <2>8 DEF ReadSnapshots, ReadNewer, Announce, Reading
    <3> QED BY <3>1, <3>2, <3>3, <3>4, <2>7
  <2>9. ASSUME NEW label, Goto(c, label), label \notin Reading, job[c] # "gate",
               label \in Announcing => job[c] = "upload",
               UNCHANGED <<exists, job, loaded, stamp, told>>,
               Shaped(artifact'), Silent(artifact'),
               Witnessed(artifact', document')
        PROVE  HonestyInv'
    <3>1. \A d \in Clients : seen'[d] = IF pc[d] \in Reading
                                          THEN seen[d] \cup {Whole(artifact', document')}
                                          ELSE seen[d]
      BY <2>9 DEF Witnessed
    <3>2. Silent(Whole(artifact', document'))
      BY <2>9, WholeIs
    <3>3. \A d \in Clients : /\ seen[d] \subseteq seen'[d]
                             /\ \A a \in seen'[d] \ seen[d] : Silent(a)
                             /\ pc[d] \notin Reading => seen'[d] = seen[d]
                             /\ pc[d] \in Reading => Whole(artifact', document') \in seen'[d]
      BY <3>1, <3>2
    <3> QED BY <3>3, <2>9, OthersHonesty
  <2>10. CASE Commit(c)
    <3> DEFINE label == IF job[c] = "upload" THEN "notify" ELSE "done"
    <3>1. job[c] # "gate"
      BY <2>10 DEF Commit, IInv, Prepared, Updating, Ready
    <3>2. Shaped(artifact') /\ Silent(artifact')
      BY <2>10, StaysSilent DEF Commit
    <3>3. Witnessed(artifact', document')
      BY <2>10 DEF Commit
    <3>4. label \notin Reading /\ (label \in Announcing => job[c] = "upload")
      BY DEF Reading, Announcing
    <3> QED BY <2>10, <3>1, <3>2, <3>3, <3>4, <2>9 DEF Commit
  <2>11. CASE SaveDocument(c)
    <3>1. Shaped(artifact') /\ Silent(artifact') /\ Witnessed(artifact', document')
      BY <2>11 DEF SaveDocument
    <3> QED BY <2>11, <3>1, <2>9 DEF SaveDocument, Reading, Announcing
  <2>12. CASE Delete(c)
    <3>1. \A d \in Clients : seen'[d] = seen[d]
      BY <2>12 DEF Delete
    <3> QED BY <2>12, <3>1, OthersHonesty DEF Delete, Reading, Announcing
  <2>13. CASE ReadRow(c) \/ Judge(c)
    BY <2>13, ReadRowHonesty, JudgeHonesty
  <2>14. CASE ReadBucket(c, "cve", "other") \/ ReadBucket(c, "other", "documents")
    BY <2>14, ReadBucketHonesty
  <2> QED BY <1>2, <2>2, <2>3, <2>4, <2>5, <2>6, <2>8, <2>10, <2>11, <2>12, <2>13, <2>14
          DEF Step
<1> QED BY <1>1, <1>2 DEF Next

LEMMA HonestyInit == Init => HonestyInv
<1> SUFFICES ASSUME Init PROVE HonestyInv
  OBVIOUS
<1>1. Shaped(artifact) /\ Silent(artifact)
  BY KnownAssumption DEF Init, Silent, Others
<1>2. \A c \in Clients : pc[c] = "start"
  BY DEF Init
<1> QED BY <1>1, <1>2 DEF HonestyInv, Looking, GateIsHonest, Reading, Announcing

\* Whatever scans, acceptances and uploads commit between the gate's
\* queries, it reports no violation that was not there at some moment of the
\* request, and misses none that was there all along.  (handleGate: Get
\* reads the artifact table by table, outside any transaction.)
THEOREM GateAnswersHonestly == Spec => []GateIsHonest
<1>1. Init => IInv /\ Local /\ HonestyInv
  BY InitInv, RetentionInit, HonestyInit
<1>2. IInv /\ Local /\ HonestyInv /\ [Next]_vars => (IInv /\ Local /\ HonestyInv)'
  BY StepInv, LocalStep, HonestyStep
<1>3. HonestyInv => GateIsHonest
  BY DEF HonestyInv
<1> QED BY <1>1, <1>2, <1>3, PTL DEF Spec


-----------------------------------------------------------------------------
(* Announcements *)

\* Of what a client keeps for itself, its steps change its own.
LEMMA Frame ==
  ASSUME IInv, Local, NEW c \in Clients, Step(c)
  PROVE  /\ \A d \in Clients \ {c} :
              /\ pc'[d] = pc[d] /\ stamp'[d] = stamp[d] /\ list'[d] = list[d]
              /\ pair'[d] = pair[d] /\ newer'[d] = newer[d] /\ told'[d] = told[d]
              /\ doomed'[d] = doomed[d] /\ fresh'[d] = fresh[d]
              /\ evicted'[d] = evicted[d] /\ before'[d] = before[d]
         /\ job' = job /\ (exists' => exists)
         /\ pc[c] \notin {"done", "failed"}
         /\ pc[c] \in Over => pc'[c] \in Over /\ stamp'[c] = stamp[c] /\ list'[c] = list[c]
<1>1. CASE Begin(c) \/ Lock(c) \/ Rewrite(c) \/ Commit(c)
  BY <1>1 DEF Begin, Lock, Rewrite, Commit, ReadClock, Goto, IInv, Typed, stored, upload,
              Over, Updating, Announcing
<1>2. CASE SaveDocument(c) \/ Clear(c)
  BY <1>2 DEF SaveDocument, Clear, Goto, IInv, Typed, Local, stored, Over, Updating, Announcing
<1>3. CASE Insert(c)
  BY <1>3 DEF Insert, ReadClock, Goto, IInv, Typed, Local, stored, Over, Updating, Announcing
<1>4. CASE Evict(c) \/ CommitSave(c)
  BY <1>4 DEF Evict, CommitSave, Goto, IInv, Typed, Local, stored, upload, Over, Updating,
              Announcing
<1>5. CASE ReadSnapshots(c)
  <2>1. PICK label \in {"done", "newer"} : Goto(c, label)
    BY <1>5 DEF ReadSnapshots
  <2> QED BY <1>5, <2>1 DEF ReadSnapshots, Goto, IInv, Typed, Local, stored, Over, Announcing
<1>6. CASE ReadNewer(c) \/ Announce(c)
  BY <1>6 DEF ReadNewer, Announce, Goto, IInv, Typed, Local, stored, upload, Over, Announcing
<1>7. CASE \/ ReadRow(c) \/ ReadBucket(c, "cve", "other")
           \/ ReadBucket(c, "other", "documents") \/ Judge(c)
  BY <1>7 DEF ReadRow, ReadBucket, Judge, ReadClock, Goto, IInv, Typed, Local, stored, upload,
              Over, Updating, Announcing
<1>8. CASE Delete(c)
  BY <1>8 DEF Delete, Goto, IInv, Typed, upload, Over
<1>9. CASE Fail(c)
  <2>1. PICK label \in {"failed", "notify"} : Goto(c, label)
    BY <1>9 DEF Fail
  <2> QED BY <1>9, <2>1 DEF Fail, Goto, IInv, Typed, stored, upload, Over, Announcing
<1> QED BY <1>1, <1>2, <1>3, <1>4, <1>5, <1>6, <1>7, <1>8, <1>9 DEF Step

LEMMA TookStays ==
  ASSUME IInv, Local, NEW c \in Clients, Step(c)
  PROVE  \A d \in Clients : \A s : Took(d, s) => Took(d, s)'
<1> SUFFICES ASSUME NEW d \in Clients, NEW s, Took(d, s) PROVE Took(d, s)'
  OBVIOUS
<1>1. CASE d = c
  BY <1>1, Frame DEF Took
<1>2. CASE d # c
  BY <1>2, Frame DEF Took
<1> QED BY <1>1, <1>2

\* A snapshot is known by its stamp.
LEMMA Stamped ==
  ASSUME IInv, RetentionInv
  PROVE  /\ \A x \in saved : x.at \in Nat /\ x.at <= clock
         /\ \A x, y \in saved : x.at = y.at => x = y
<1>1. \A x \in Past : x.at \in Nat /\ x.at <= Start /\ x.at <= clock
  BY PastAssumption, ClockAssumption DEF IInv, Typed
<1>2. ASSUME NEW x \in saved \ Past
      PROVE  \E c \in Clients : /\ Took(c, x) /\ x.at = stamp[c] /\ x.at \in Nat
                                /\ x.at > Start /\ x.at <= clock
  <2>1. PICK c \in Clients : Took(c, x)
    BY DEF RetentionInv, Snapshots
  <2>2. x.at = stamp[c] /\ stamp[c] > Start
    BY <2>1 DEF Took
  <2> QED BY <2>1, <2>2 DEF RetentionInv, Stamps
<1>3. \A x \in saved : x.at \in Nat /\ x.at <= clock
  BY <1>1, <1>2
<1>4. ASSUME NEW x \in saved, NEW y \in saved, x.at = y.at PROVE x = y
  <2>1. CASE x \in Past /\ y \in Past
    BY <2>1, <1>4, PastAssumption
  <2>2. CASE x \notin Past /\ y \notin Past
    <3>1. PICK c \in Clients : Took(c, x) /\ x.at = stamp[c] /\ x.at > Start
      BY <2>2, <1>2
    <3>2. PICK d \in Clients : Took(d, y) /\ y.at = stamp[d]
      BY <2>2, <1>2
    <3>3. c = d
      <4>1. stamp[c] = stamp[d] /\ stamp[c] # 0
        BY <3>1, <3>2, <1>4, ClockAssumption
      <4> QED BY <4>1 DEF RetentionInv, Stamps
    <3> QED BY <3>1, <3>2, <3>3 DEF Took
  <2>3. CASE ~(x \in Past <=> y \in Past)
    BY <2>3, <1>1, <1>2, <1>4, ClockAssumption
  <2> QED BY <2>1, <2>2, <2>3
<1> QED BY <1>3, <1>4

LEMMA Greatest ==
  ASSUME NEW S, S # {}, NEW n \in Nat, \A y \in S : y.at \in Nat /\ y.at <= n
  PROVE  \E last \in S : \A y \in S : y.at <= last.at
<1> DEFINE ages == {n - y.at : y \in S}
<1>1. ages \in SUBSET Nat /\ ages # {}
  OBVIOUS
<1>2. PICK age \in ages : \A m \in ages : age <= m
  <2> HIDE DEF ages
  <2> QED BY <1>1, Least
<1>3. PICK last \in S : age = n - last.at
  OBVIOUS
<1>4. \A y \in S : n - last.at <= n - y.at
  BY <1>2, <1>3
<1> QED BY <1>4

LEMMA ThereAreTwo ==
  ASSUME NEW c \in Clients PROVE MaxSnapshots \in Nat /\ MaxSnapshots >= 2
<1>1. Cardinality(Clients) \in Nat /\ Cardinality(Clients) # 0
  BY RetentionAssumption, FS_CardinalityType, FS_EmptySet
<1> QED BY <1>1, RetentionAssumption

\* The last two snapshots kept are the last two ever taken.
LEMMA LastTwo ==
  ASSUME IInv, RetentionInv, exists, NEW c \in Clients,
         NEW s \in Newest(2, history), NEW t \in Newest(2, history), s.at > t.at,
         NEW x \in saved, x.at > t.at
  PROVE  x = s
<1>0. /\ s \in history /\ t \in history /\ history \subseteq saved
      /\ IsFiniteSet(saved) /\ IsFiniteSet(history)
  BY Takers DEF Newest, RetentionInv, Snapshots
<1>1. ASSUME NEW y \in history, y.at > t.at PROVE y = s
  <2> SUFFICES ASSUME y # s PROVE FALSE
    OBVIOUS
  <2>1. {s} \cup {y} \subseteq Later(history, t.at)
    BY <1>0, <1>1 DEF Later
  <2>2. IsFiniteSet({s} \cup {y}) /\ Cardinality({s} \cup {y}) = 2
    <3>1. IsFiniteSet({s}) /\ Cardinality({s}) = 1 /\ y \notin {s}
      BY FS_Singleton
    <3>2. /\ IsFiniteSet({s} \cup {y})
          /\ Cardinality({s} \cup {y}) = IF y \in {s} THEN Cardinality({s})
                                                      ELSE Cardinality({s}) + 1
      BY <3>1, FS_AddElement, Zenon
    <3> QED BY <3>1, <3>2
  <2>3. /\ IsFiniteSet(Later(history, t.at)) /\ Cardinality(Later(history, t.at)) \in Nat
        /\ Cardinality(Later(history, t.at)) < 2
    BY <1>0, LaterOfMore, NewestIs
  <2>4. 2 <= Cardinality(Later(history, t.at))
    BY <2>1, <2>2, <2>3, FS_Subset
  <2> QED BY <2>3, <2>4
<1> SUFFICES ASSUME x # s PROVE FALSE
  OBVIOUS
<1> DEFINE lost == Later(saved, t.at) \ {s}
<1>2. x \in lost /\ lost \subseteq saved /\ \A y \in lost : y \notin history
  BY <1>1 DEF Later
<1>3. \A y \in lost : y.at \in Nat /\ y.at <= clock
  BY <1>2, Stamped
<1>4. clock \in Nat
  BY ClockAssumption DEF IInv, Typed
<1>6. PICK last \in lost : \A y \in lost : y.at <= last.at
  <2> HIDE DEF lost
  <2> QED BY <1>2, <1>3, <1>4, Greatest
<1>7. Later(saved, last.at) \subseteq {s}
  <2> SUFFICES ASSUME NEW y \in saved, y.at > last.at, y # s PROVE FALSE
    BY DEF Later
  <2>1. y.at \in Nat /\ last.at \in Nat /\ t.at \in Nat /\ last.at > t.at
    BY <1>0, <1>3, Stamped DEF Later
  <2>2. y \in lost
    BY <2>1 DEF Later
  <2> HIDE DEF lost
  <2> QED BY <1>4, <1>6, <2>1, <2>2
<1>8. Cardinality(Later(saved, last.at)) < MaxSnapshots
  <2>1. IsFiniteSet({s}) /\ Cardinality({s}) = 1
    BY FS_Singleton
  <2>2. Cardinality(Later(saved, last.at)) <= 1 /\ Cardinality(Later(saved, last.at)) \in Nat
    BY <1>7, <2>1, FS_Subset, FS_CardinalityType
  <2> QED BY <2>2, ThereAreTwo
<1>9. last \in Newest(MaxSnapshots, saved)
  BY <1>2, <1>8, NewestIs
<1> QED BY <1>9, <1>2 DEF RetentionInv, Kept

News(c) == job[c] = "upload" =>
  /\ pc[c] # "done" => told[c] = {}
  /\ pc[c] \in Updating \cup Announcing => stamp[c] > Start /\ Own(c) \subseteq saved
  /\ pc[c] \in {"newer", "older"} =>
       /\ \E s, t \in saved : /\ pair[c] = <<s.at, t.at>> /\ s.at > t.at
                              /\ exists /\ pc[c] = "older" => newer[c] = s.packages
       /\ list[c] # {} => pair[c][1] >= stamp[c]
       /\ \A x \in saved : x.at > pair[c][2] =>
            x.at = pair[c][1] \/ \E d \in Clients \ {c} : Took(d, x)
  /\ told[c] # {} => \E s, t \in saved : /\ s.at > t.at
                                         /\ list[c] # {} => s.at >= stamp[c]
                                         /\ told[c] = C!Added(t.packages, s.packages)

NewsInv == \A c \in Clients : News(c)

\* So few snapshots were taken since that neither of a pair has been evicted.
LEMMA PairIsKept ==
  ASSUME IInv, RetentionInv, NewsInv, exists, NEW c \in Clients, job[c] = "upload",
         pc[c] \in {"newer", "older"}, NEW x \in saved, x.at >= pair[c][2]
  PROVE  x \in history
<1> DEFINE later == Later(saved, x.at)
           taker == [y \in later |-> IF y.at = pair[c][1] THEN c
                                     ELSE CHOOSE d \in Clients \ {c} : Took(d, y)]
<1>1. pair[c][2] \in Nat
  BY Stamped DEF NewsInv, News
<1>2. \A y \in later : y \in saved /\ y.at > pair[c][2]
  BY <1>1, Stamped DEF Later
<1>3. \A y \in later : \/ y.at = pair[c][1] /\ taker[y] = c
                       \/ y.at # pair[c][1] /\ taker[y] \in Clients \ {c} /\ Took(taker[y], y)
  BY <1>2 DEF NewsInv, News
<1>4. \A y \in later : taker[y] \in Clients
  BY <1>3
<1>5. \A y, z \in later : taker[y] = taker[z] => y = z
  <2> SUFFICES ASSUME NEW y \in later, NEW z \in later, taker[y] = taker[z] PROVE y = z
    OBVIOUS
  <2> HIDE DEF taker
  <2>1. CASE y.at = pair[c][1]
    BY <2>1, <1>2, <1>3, Stamped
  <2>2. CASE y.at # pair[c][1]
    BY <2>2, <1>3 DEF Took
  <2> QED BY <2>1, <2>2
<1>6. taker \in Injection(later, Clients)
  BY <1>4, <1>5 DEF Injection, IsInjective
<1>7. Cardinality(later) <= Cardinality(Clients)
  <2> HIDE DEF later, taker
  <2> QED BY <1>6, RetentionAssumption, FS_Injection
<1>8. Cardinality(later) \in Nat
  BY Takers, LaterOfMore
<1>9. Cardinality(Clients) \in Nat
  BY RetentionAssumption, FS_CardinalityType
<1>10. Cardinality(later) < MaxSnapshots
  <2> HIDE DEF later
  <2> QED BY <1>7, <1>8, <1>9, RetentionAssumption
<1>11. x \in Newest(MaxSnapshots, saved)
  BY <1>10, NewestIs
<1> QED BY <1>11 DEF RetentionInv, Kept

\* What is read of a snapshot that is there is the snapshot.
LEMMA ReadBack ==
  ASSUME IInv, RetentionInv, NEW s \in history
  PROVE  PackagesAt(s.at) = s.packages
<1>1. {t \in history : t.at = s.at} = {s}
  BY Stamped DEF RetentionInv, Snapshots
<1> QED BY <1>1 DEF PackagesAt

LEMMA OthersNews ==
  ASSUME IInv, Local, RetentionInv, NewsInv, NEW c \in Clients, Step(c),
         saved \subseteq saved', \A x \in saved' \ saved : Took(c, x)'
  PROVE  \A d \in Clients \ {c} : News(d)'
<1> SUFFICES ASSUME NEW d \in Clients \ {c}, job[d] = "upload" PROVE News(d)'
  BY Frame DEF News
<1>1. /\ pc'[d] = pc[d] /\ stamp'[d] = stamp[d] /\ list'[d] = list[d]
      /\ pair'[d] = pair[d] /\ newer'[d] = newer[d] /\ told'[d] = told[d]
      /\ job'[d] = job[d] /\ (exists' => exists)
  BY Frame
<1>2. Own(d)' = Own(d)
  BY <1>1 DEF Own
<1>3. ASSUME NEW x \in saved', pc[d] \in {"newer", "older"}, x.at > pair[d][2]
      PROVE  x.at = pair[d][1] \/ \E e \in Clients \ {d} : Took(e, x)'
  <2>1. CASE x \in saved
    BY <2>1, <1>3, TookStays DEF NewsInv, News
  <2>2. CASE x \notin saved
    BY <2>2
  <2> QED BY <2>1, <2>2
<1>4. News(d)
  BY DEF NewsInv
<1>5. pc[d] # "done" => told'[d] = {}
  BY <1>1, <1>4 DEF News
<1>6. pc[d] \in Updating \cup Announcing => stamp'[d] > Start /\ Own(d) \subseteq saved'
  BY <1>1, <1>4 DEF News
<1>7. pc[d] \in {"newer", "older"} =>
       /\ \E s, t \in saved' : /\ pair[d] = <<s.at, t.at>> /\ s.at > t.at
                               /\ exists' /\ pc[d] = "older" => newer[d] = s.packages
       /\ list[d] # {} => pair[d][1] >= stamp[d]
  BY <1>1, <1>4 DEF News
<1>8. told[d] # {} => \E s, t \in saved' : /\ s.at > t.at
                                           /\ list[d] # {} => s.at >= stamp[d]
                                           /\ told[d] = C!Added(t.packages, s.packages)
  BY <1>4 DEF News
<1> QED BY <1>1, <1>2, <1>3, <1>5, <1>6, <1>7, <1>8 DEF News

\* A step of an upload that neither compares snapshots nor commits one.
LEMMA QuietNews ==
  ASSUME IInv, Local, NewsInv, NEW c \in Clients, Step(c),
         saved' = saved, told' = told, pc'[c] \notin {"newer", "older"},
         pc'[c] \in Updating \cup Announcing => pc[c] \in Updating \cup Announcing
  PROVE  News(c)'
<1> SUFFICES ASSUME job[c] = "upload" PROVE News(c)'
  BY Frame DEF News
<1>1. News(c) /\ job'[c] = job[c] /\ pc[c] # "done"
  BY Frame DEF NewsInv
<1>2. told'[c] = {}
  BY <1>1 DEF News
<1>3. pc'[c] \in Updating \cup Announcing => stamp'[c] > Start /\ (Own(c) \subseteq saved)'
  <2> SUFFICES ASSUME pc'[c] \in Updating \cup Announcing
               PROVE  stamp'[c] > Start /\ (Own(c) \subseteq saved)'
    OBVIOUS
  <2>1. stamp'[c] = stamp[c] /\ list'[c] = list[c]
    BY Frame DEF Over
  <2> QED BY <2>1, <1>1 DEF News, Own
<1> QED BY <1>1, <1>2, <1>3 DEF News

LEMMA CommitSaveNews ==
  ASSUME IInv, Local, NewsInv, RetentionInv, NEW c \in Clients, CommitSave(c)
  PROVE  News(c)'
<1>1. /\ pc[c] = "trimmed" /\ pc'[c] = "waiting" /\ saved' = saved \cup Own(c)
      /\ UNCHANGED <<job, stamp, list, told>>
  BY Went DEF CommitSave, upload
<1>2. stamp[c] > Start
  BY <1>1 DEF RetentionInv, Stamps, Saving
<1>3. Own(c)' = Own(c)
  BY <1>1 DEF Own
<1>4. job[c] = "upload" => told[c] = {}
  BY <1>1 DEF NewsInv, News
<1> QED BY <1>1, <1>2, <1>3, <1>4 DEF News

LEMMA ReadSnapshotsNews ==
  ASSUME IInv, Local, NewsInv, RetentionInv, NEW c \in Clients, ReadSnapshots(c)
  PROVE  News(c)'
<1>0. Step(c) /\ pc[c] = "notify" /\ UNCHANGED <<exists, history, saved, job, stamp, list, told>>
  BY DEF Step, ReadSnapshots, stored, components
<1>1. CASE Goto(c, "done")
  <2>1. pc'[c] = "done"
    BY <1>1, Went
  <2> QED BY <2>1, <1>0, QuietNews DEF Updating, Announcing
<1>2. ASSUME NEW s \in Newest(2, history), NEW t \in Newest(2, history), s.at > t.at,
             pair' = [pair EXCEPT ![c] = <<s.at, t.at>>], Goto(c, "newer")
      PROVE  News(c)'
  <2> SUFFICES ASSUME job[c] = "upload" PROVE News(c)'
    BY <1>0 DEF News
  <2>1. pc'[c] = "newer" /\ pair'[c] = <<s.at, t.at>>
    BY <1>2, Went DEF Local
  <2>2. s \in history /\ t \in history /\ s \in saved /\ t \in saved
    BY DEF Newest, RetentionInv, Snapshots
  <2>3. exists
    BY <2>2 DEF RetentionInv, Snapshots
  <2>4. /\ stamp[c] > Start /\ Own(c) \subseteq saved /\ told[c] = {}
    BY <1>0 DEF NewsInv, News, Announcing
  <2>5. \A x \in saved : x.at > t.at => x = s
    BY <1>2, <2>3, LastTwo
  <2>6. list[c] # {} => s.at >= stamp[c]
    <3> SUFFICES ASSUME list[c] # {} PROVE s.at >= stamp[c]
      OBVIOUS
    <3> DEFINE o == [at |-> stamp[c], packages |-> list[c]]
    <3>1. o \in saved /\ o.at = stamp[c]
      BY <2>4 DEF Own
    <3> HIDE DEF o
    <3>2. s.at \in Nat /\ t.at \in Nat /\ o.at \in Nat
      BY <2>2, <3>1, Stamped
    <3> QED BY <3>1, <3>2, <2>5, <1>2
  <2>7. Own(c)' = Own(c)
    BY <1>0 DEF Own
  <2>8. pair'[c][1] = s.at /\ pair'[c][2] = t.at
    BY <2>1
  <2>9. (/\ \E x, y \in saved : /\ pair[c] = <<x.at, y.at>> /\ x.at > y.at
                                /\ exists /\ pc[c] = "older" => newer[c] = x.packages
         /\ list[c] # {} => pair[c][1] >= stamp[c]
         /\ \A x \in saved : x.at > pair[c][2] =>
              x.at = pair[c][1] \/ \E d \in Clients \ {c} : Took(d, x))'
    BY <2>1, <2>2, <2>5, <2>6, <2>8, <1>0, <1>2
  <2>10. (/\ pc[c] # "done" => told[c] = {}
          /\ pc[c] \in Updating \cup Announcing => stamp[c] > Start /\ Own(c) \subseteq saved
          /\ told[c] = {})'
    BY <2>4, <2>7, <1>0
  <2> QED BY <2>9, <2>10 DEF News
<1>3. \/ Goto(c, "done")
      \/ \E s, t \in Newest(2, history) : /\ s.at > t.at
                                          /\ pair' = [pair EXCEPT ![c] = <<s.at, t.at>>]
                                          /\ Goto(c, "newer")
  BY DEF ReadSnapshots
<1> QED BY <1>1, <1>2, <1>3

LEMMA ReadNewerNews ==
  ASSUME IInv, Local, NewsInv, RetentionInv, NEW c \in Clients, ReadNewer(c)
  PROVE  News(c)'
<1> SUFFICES ASSUME job[c] = "upload" PROVE News(c)'
  BY DEF ReadNewer, News
<1>1. /\ pc[c] = "newer" /\ pc'[c] = "older" /\ newer'[c] = PackagesAt(pair[c][1])
      /\ UNCHANGED <<exists, history, saved, job, stamp, list, pair, told>>
  BY Went DEF ReadNewer, Local, stored, components
<1>2. Own(c)' = Own(c)
  BY <1>1 DEF Own
<1>3. /\ told[c] = {} /\ stamp[c] > Start /\ Own(c) \subseteq saved
      /\ list[c] # {} => pair[c][1] >= stamp[c]
      /\ \A x \in saved : x.at > pair[c][2] =>
           x.at = pair[c][1] \/ \E d \in Clients \ {c} : Took(d, x)
  BY <1>1 DEF NewsInv, News, Announcing
<1>4. PICK s \in saved, t \in saved : pair[c] = <<s.at, t.at>> /\ s.at > t.at
  BY <1>1 DEF NewsInv, News
<1>5. exists => newer'[c] = s.packages
  <2> SUFFICES ASSUME exists PROVE newer'[c] = s.packages
    OBVIOUS
  <2>1. pair[c][1] = s.at /\ pair[c][2] = t.at /\ s.at >= t.at
    BY <1>4, Stamped
  <2>2. s \in history
    BY <2>1, <1>1, PairIsKept
  <2> QED BY <2>1, <2>2, <1>1, ReadBack
<1>6. \A x \in saved : x.at > pair'[c][2] =>
        x.at = pair'[c][1] \/ \E d \in Clients \ {c} : Took(d, x)'
  <2>1. Step(c)
    BY DEF Step
  <2> QED BY <2>1, <1>1, <1>3, TookStays
<1>7. (\A x \in saved : x.at > pair[c][2] =>
         x.at = pair[c][1] \/ \E d \in Clients \ {c} : Took(d, x))'
  BY <1>1, <1>6
<1>8. (\E x, y \in saved : /\ pair[c] = <<x.at, y.at>> /\ x.at > y.at
                           /\ exists /\ pc[c] = "older" => newer[c] = x.packages)'
  BY <1>1, <1>4, <1>5
<1> QED BY <1>1, <1>2, <1>3, <1>7, <1>8 DEF News

LEMMA AnnounceNews ==
  ASSUME IInv, Local, NewsInv, RetentionInv, NEW c \in Clients, Announce(c)
  PROVE  News(c)'
<1> SUFFICES ASSUME job[c] = "upload" PROVE News(c)'
  BY DEF Announce, upload, News
<1>1. /\ pc[c] = "older" /\ pc'[c] = "done" /\ exists
      /\ told'[c] = C!Added(PackagesAt(pair[c][2]), newer[c])
      /\ UNCHANGED <<exists, history, saved, job, stamp, list, pair>>
  BY Went DEF Announce, Local, stored, components, upload
<1>2. PICK s \in saved, t \in saved : /\ pair[c] = <<s.at, t.at>> /\ s.at > t.at
                                      /\ newer[c] = s.packages
  BY <1>1 DEF NewsInv, News
<1>3. pair[c][1] = s.at /\ pair[c][2] = t.at /\ t.at >= t.at
  BY <1>2, Stamped
<1>4. t \in history
  BY <1>1, <1>3, PairIsKept
<1>5. told'[c] = C!Added(t.packages, s.packages)
  BY <1>1, <1>2, <1>3, <1>4, ReadBack
<1>6. list[c] # {} => s.at >= stamp[c]
  BY <1>1, <1>3 DEF NewsInv, News
<1>7. (\E x, y \in saved : /\ x.at > y.at
                           /\ list[c] # {} => x.at >= stamp[c]
                           /\ told[c] = C!Added(y.packages, x.packages))'
  BY <1>1, <1>2, <1>5, <1>6
<1> QED BY <1>1, <1>7 DEF News, Updating, Announcing

LEMMA NewsStep == IInv /\ Local /\ RetentionInv /\ NewsInv /\ [Next]_vars => NewsInv'
<1> SUFFICES ASSUME IInv, Local, RetentionInv, NewsInv, [Next]_vars PROVE NewsInv'
  OBVIOUS
<1>1. CASE UNCHANGED vars
  <2>1. UNCHANGED <<exists, saved, job, pc, stamp, list, pair, newer, told>>
    BY <1>1 DEF vars, stored, components, upload
  <2>2. \A c \in Clients : News(c)' <=> News(c)
    BY <2>1 DEF News, Own, Took
  <2> QED BY <2>2 DEF NewsInv
<1>2. ASSUME NEW c \in Clients, Step(c) PROVE NewsInv'
  <2>1. saved \subseteq saved' /\ \A x \in saved' \ saved : Took(c, x)'
    <3>1. CASE CommitSave(c)
      <4>1. /\ pc[c] = "trimmed" /\ pc'[c] = "waiting" /\ saved' = saved \cup Own(c)
            /\ UNCHANGED <<job, stamp, list>>
        BY <3>1, Went DEF CommitSave, upload
      <4>2. \A x \in Own(c) : Took(c, x)'
        BY <4>1, OwnIsNew DEF Own, Took, Over, Updating
      <4> QED BY <4>1, <4>2
    <3>2. CASE ~CommitSave(c)
      BY <1>2, <3>2 DEF Step, Begin, Lock, Rewrite, Commit, SaveDocument, Clear, Insert, Evict,
                        ReadSnapshots, ReadNewer, Announce, ReadRow, ReadBucket, Judge, Delete,
                        Fail, components
    <3> QED BY <3>1, <3>2
  <2>2. News(c)'
    <3>1. CASE job[c] # "upload"
      BY <1>2, <3>1, Frame DEF News
    <3>2. CASE job[c] = "upload" /\ (Lock(c) \/ Rewrite(c) \/ Commit(c))
      <4>1. pc[c] \in Updating /\ pc'[c] \in {"locked", "rewritten", "notify"}
        BY <3>2, Went DEF Lock, Rewrite, Commit, Updating
      <4>2. saved' = saved /\ told' = told
        BY <3>2 DEF Lock, Rewrite, Commit, components
      <4> QED BY <4>1, <4>2, <1>2, QuietNews
    <3>3. CASE SaveDocument(c) \/ Clear(c) \/ Insert(c) \/ Evict(c)
      <4>1. pc'[c] \in {"index", "cleared", "inserted", "trimmed"}
        BY <3>3, Went DEF SaveDocument, Clear, Insert, Evict
      <4>2. saved' = saved /\ told' = told
        BY <3>3 DEF SaveDocument, Clear, Insert, Evict, components
      <4> QED BY <4>1, <4>2, <1>2, QuietNews DEF Updating, Announcing
    <3>4. CASE Fail(c)
      <4>1. \/ pc'[c] = "failed"
            \/ pc'[c] = "notify" /\ pc[c] \in Updating
        BY <3>4, Went DEF Fail, Updating
      <4>2. saved' = saved /\ told' = told
        BY <3>4 DEF Fail, components
      <4> QED BY <4>1, <4>2, <1>2, QuietNews DEF Updating, Announcing
    <3>5. CASE CommitSave(c) \/ ReadSnapshots(c) \/ ReadNewer(c) \/ Announce(c)
      BY <3>5, CommitSaveNews, ReadSnapshotsNews, ReadNewerNews, AnnounceNews
    <3>6. CASE Begin(c) \/ ReadRow(c) \/ Delete(c)
      BY <3>1, <3>6 DEF Begin, ReadRow, Delete
    <3>7. CASE \/ ReadBucket(c, "cve", "other") \/ ReadBucket(c, "other", "documents")
               \/ Judge(c)
      <4>1. job[c] = "gate"
        BY <3>7 DEF ReadBucket, Judge, IInv, Prepared, Reading
      <4> QED BY <4>1, <3>1
    <3> QED BY <1>2, <3>1, <3>2, <3>3, <3>4, <3>5, <3>6, <3>7 DEF Step
  <2>3. \A d \in Clients \ {c} : News(d)'
    BY <1>2, <2>1, OthersNews
  <2>4. \A d \in Clients : News(d)'
    BY <2>2, <2>3
  <2> QED BY <2>4 DEF NewsInv
<1> QED BY <1>1, <1>2 DEF Next

LEMMA NewsInit == Init => NewsInv
BY DEF Init, NewsInv, News, Updating, Announcing

LEMMA NewsInductive == Spec => [](IInv /\ Local /\ RetentionInv /\ NewsInv)
<1>1. Init => IInv /\ Local /\ RetentionInv /\ NewsInv
  BY InitInv, RetentionInit, NewsInit
<1>2. IInv /\ Local /\ RetentionInv /\ NewsInv /\ [Next]_vars
        => (IInv /\ Local /\ RetentionInv /\ NewsInv)'
  BY StepInv, LocalStep, RetentionStep, NewsStep
<1> QED BY <1>1, <1>2, PTL DEF Spec

\* Whatever is uploaded, evicted or deleted between its queries, an
\* announcement is the difference of two snapshots that were taken, the newer
\* one no older than the upload's own.  (notifyNewComponents reads the list
\* of snapshots, then one and then the other.)
THEOREM AnnouncesRealNews == Spec => []NewsAreNew
<1>1. NewsInv => NewsAreNew
  BY DEF NewsInv, News, NewsAreNew
<1> QED BY <1>1, NewsInductive, PTL


-----------------------------------------------------------------------------
(* An upload on its own *)

LEMMA NewestOne ==
  ASSUME NEW S, IsFiniteSet(S), NEW n \in Nat,
         \A y \in S : y.at \in Nat /\ y.at <= n,
         \A x, y \in S : x.at = y.at => x = y
  PROVE  /\ \A s \in S : s \in Newest(1, S) <=> \A y \in S : y.at <= s.at
         /\ \A s, t \in Newest(1, S) : s = t
         /\ \A y \in S : \E t \in Newest(1, S) : y.at <= t.at
<1>1. ASSUME NEW s \in S PROVE s \in Newest(1, S) <=> \A y \in S : y.at <= s.at
  <2>1. IsFiniteSet(Later(S, s.at)) /\ Cardinality(Later(S, s.at)) \in Nat
    BY LaterOfMore
  <2>2. s \in Newest(1, S) <=> Cardinality(Later(S, s.at)) < 1
    BY NewestIs
  <2>3. s \in Newest(1, S) <=> Later(S, s.at) = {}
    BY <2>1, <2>2, FS_EmptySet
  <2> QED BY <2>3 DEF Later
<1>2. ASSUME NEW s \in Newest(1, S), NEW t \in Newest(1, S) PROVE s = t
  <2>1. s \in S /\ t \in S
    BY DEF Newest
  <2> QED BY <1>1, <2>1
<1>3. ASSUME NEW y \in S PROVE \E t \in Newest(1, S) : y.at <= t.at
  <2>1. PICK t \in S : \A x \in S : x.at <= t.at
    BY Greatest
  <2> QED BY <2>1, <1>1
<1> QED BY <1>1, <1>2, <1>3

\* What an upload that no other overlaps has found, and has left.
Alone(c) == job[c] = "upload" /\ alone[c] =>
  /\ Uploading(c) => \A d \in Clients \ {c} : ~Uploading(d)
  /\ exists =>
       /\ pc[c] \in Indexing => document = list[c] /\ before[c] = Newest(1, history)
       /\ pc[c] \in {"cleared", "inserted", "trimmed"} => doomed[c] = inventory
       /\ Saving(c) => fresh[c] = list[c] /\ \A x \in history : x.at < stamp[c]
       /\ pc[c] = "trimmed" =>
            evicted[c] = history \ Newest(MaxSnapshots, history \cup Own(c))
       /\ list[c] # {} =>
            /\ pc[c] \in Updating \cup Announcing =>
                 /\ document = list[c] /\ Packages(inventory) = list[c]
                 /\ Own(c) \subseteq history /\ before[c] \subseteq history
                 /\ \A x \in history \ Own(c) : /\ x.at < stamp[c]
                                                /\ \E t \in before[c] : x.at <= t.at
                 /\ \A s, t \in before[c] : s = t
                 /\ \A t \in before[c] : t.at < stamp[c]
            /\ pc[c] \in {"newer", "older"} =>
                 pair[c][1] = stamp[c] /\ \E t \in before[c] : t.at = pair[c][2]
            /\ pc[c] = "older" => newer[c] = list[c]
            /\ pc[c] = "done" =>
                 told[c] = UNION {C!Added(s.packages, list[c]) : s \in before[c]}

AloneInv == \A c \in Clients : Alone(c)

\* A client that uploads nothing, or has not begun, changes nothing of what
\* uploads work on, except by deleting it all.
LEMMA Bystander ==
  ASSUME IInv, HonestyInv, NEW d \in Clients, Step(d), ~Uploading(d), ~SaveDocument(d)
  PROVE  /\ alone' = alone /\ ~Uploading(d)'
         /\ exists' => exists /\ document' = document /\ inventory' = inventory
                       /\ history' = history
<1>1. CASE Begin(d) \/ Delete(d) \/ ReadRow(d)
  BY <1>1, Went DEF Begin, Delete, ReadRow, Uploading, stored, components, upload
<1>2. CASE job[d] # "upload" /\ (Lock(d) \/ Rewrite(d) \/ Commit(d) \/ Fail(d))
  BY <1>2 DEF Lock, Rewrite, Commit, Fail, Uploading, stored, components, upload
<1>3. CASE \/ ReadBucket(d, "cve", "other") \/ ReadBucket(d, "other", "documents") \/ Judge(d)
  <2>1. job[d] = "gate"
    BY <1>3 DEF ReadBucket, Judge, IInv, Prepared, Reading
  <2> QED BY <1>3, <2>1 DEF ReadBucket, Judge, Uploading, stored, components, upload
<1>4. ~(Clear(d) \/ Insert(d) \/ Evict(d) \/ CommitSave(d))
  BY DEF Uploading, IInv, Prepared, Indexing, Clear, Insert, Evict, CommitSave
<1>5. ~(ReadSnapshots(d) \/ ReadNewer(d) \/ Announce(d))
  BY DEF Uploading, HonestyInv, Announcing, ReadSnapshots, ReadNewer, Announce
<1>6. ~(job[d] = "upload" /\ (Lock(d) \/ Rewrite(d) \/ Commit(d) \/ Fail(d)))
  BY DEF Uploading, Lock, Rewrite, Commit, Fail
<1> QED BY <1>1, <1>2, <1>3, <1>4, <1>5, <1>6 DEF Step

LEMMA OthersAlone ==
  ASSUME IInv, Local, HonestyInv, AloneInv, NEW d \in Clients, Step(d),
         NEW c \in Clients \ {d}
  PROVE  Alone(c)'
<1>1. /\ pc'[c] = pc[c] /\ stamp'[c] = stamp[c] /\ list'[c] = list[c]
      /\ pair'[c] = pair[c] /\ newer'[c] = newer[c] /\ told'[c] = told[c]
      /\ doomed'[c] = doomed[c] /\ fresh'[c] = fresh[c]
      /\ evicted'[c] = evicted[c] /\ before'[c] = before[c]
      /\ job' = job /\ (exists' => exists)
  BY Frame
<1>2. (Uploading(c)' <=> Uploading(c)) /\ (Saving(c)' <=> Saving(c)) /\ Own(c)' = Own(c)
  BY <1>1 DEF Uploading, Saving, Own
<1> SUFFICES ASSUME job[c] = "upload", alone'[c] PROVE Alone(c)'
  BY <1>1 DEF Alone
<1>3. alone[c] /\ (SaveDocument(d) => ~Uploading(c))
  <2>1. CASE SaveDocument(d)
    BY <2>1 DEF SaveDocument
  <2>2. CASE ~SaveDocument(d)
    BY <2>2 DEF Step, Begin, Lock, Rewrite, Commit, Clear, Insert, Evict, CommitSave,
                ReadSnapshots, ReadNewer, Announce, ReadRow, ReadBucket, Judge, Delete, Fail,
                upload
  <2> QED BY <2>1, <2>2
<1>4. Alone(c)
  BY DEF AloneInv
<1>5. CASE ~Uploading(c)
  <2>1. pc[c] \notin Indexing \cup {"cleared", "inserted", "trimmed"} \cup Updating
                       \cup Announcing \cup {"newer", "older"} /\ ~Saving(c)
    BY <1>5 DEF Uploading, Indexing, Updating, Announcing, Saving
  <2>2. exists' /\ list'[c] # {} /\ pc'[c] = "done" =>
          told'[c] = UNION {C!Added(s.packages, list'[c]) : s \in before'[c]}
    BY <1>1, <1>3, <1>4 DEF Alone
  <2> QED BY <1>1, <1>2, <1>5, <2>1, <2>2 DEF Alone, Indexing
<1>6. CASE Uploading(c)
  <2>1. \A e \in Clients \ {c} : ~Uploading(e)
    BY <1>3, <1>4, <1>6 DEF Alone
  <2>2. /\ ~Uploading(d)'
        /\ exists' => exists /\ document' = document /\ inventory' = inventory
                      /\ history' = history
    BY <1>3, <1>6, <2>1, Bystander
  <2>3. \A e \in Clients \ {c} : ~Uploading(e)'
    <3> SUFFICES ASSUME NEW e \in Clients \ {c, d} PROVE ~Uploading(e)'
      BY <2>2
    <3> QED BY <2>1, Frame DEF Uploading
  <2>4. CASE ~exists'
    BY <2>3, <2>4 DEF Alone
  <2>5. CASE exists'
    <3>1. UNCHANGED <<exists, document, inventory, history>>
      BY <2>2, <2>5
    <3> QED BY <1>1, <1>2, <1>3, <1>4, <1>6, <2>3, <2>5, <3>1 DEF Alone, Newest
  <2> QED BY <2>4, <2>5
<1> QED BY <1>5, <1>6

LEMMA SaveDocumentAlone ==
  ASSUME IInv, Local, AloneInv, NEW c \in Clients, SaveDocument(c)
  PROVE  Alone(c)'
<1>1. /\ pc'[c] = "index" /\ list'[c] = document' /\ before'[c] = Newest(1, history)
      /\ history' = history
      /\ alone'[c] = ~\E e \in Clients : Uploading(e)
      /\ \A e \in Clients \ {c} : pc'[e] = pc[e] /\ job' = job
  BY Went DEF SaveDocument, IInv, Typed, Local, components
<1>2. alone'[c] => \A e \in Clients \ {c} : ~Uploading(e)'
  BY <1>1 DEF Uploading
<1>3. pc'[c] \notin {"cleared", "inserted", "trimmed", "done"} \cup Updating \cup Announcing
                    \cup {"newer", "older"}
  BY <1>1 DEF Updating, Announcing
<1>4. ~Saving(c)'
  BY <1>1 DEF Saving
<1> QED BY <1>1, <1>2, <1>3, <1>4 DEF Alone, Newest

\* In the invariant of an upload's next step only the upload's own part is new.
LEMMA StillAlone ==
  ASSUME IInv, Local, AloneInv, NEW c \in Clients, Step(c), ~SaveDocument(c),
         job[c] = "upload", alone'[c]
  PROVE  /\ alone[c] /\ exists' = exists
         /\ Uploading(c)
         /\ \A d \in Clients \ {c} : ~Uploading(d)'
         /\ document' = document /\ before' = before
         /\ pc[c] # "cleared" => stamp'[c] = stamp[c]
         /\ list'[c] = list[c]
         /\ ~CommitSave(c) => inventory' = inventory /\ history' = history
<1>1. \/ Lock(c) \/ Rewrite(c) \/ Commit(c) \/ Fail(c) \/ Clear(c) \/ Insert(c) \/ Evict(c)
      \/ CommitSave(c) \/ ReadSnapshots(c) \/ ReadNewer(c) \/ Announce(c)
  BY DEF Step, Begin, ReadRow, ReadBucket, Judge, Delete, IInv, Prepared, Reading
<1>2. /\ alone' = alone /\ exists' = exists /\ document' = document /\ before' = before
      /\ list' = list /\ pc[c] \notin {"start", "done", "failed"}
      /\ pc[c] # "cleared" => stamp'[c] = stamp[c]
      /\ ~CommitSave(c) => inventory' = inventory /\ history' = history
  BY <1>1 DEF Lock, Rewrite, Commit, Fail, Clear, Insert, Evict, CommitSave, ReadSnapshots,
              ReadNewer, Announce, stored, components, upload
<1>3. Uploading(c)
  BY <1>2 DEF Uploading
<1>4. \A d \in Clients \ {c} : ~Uploading(d)
  BY <1>2, <1>3 DEF AloneInv, Alone
<1>5. \A d \in Clients \ {c} : ~Uploading(d)'
  BY <1>4, Frame DEF Uploading
<1> QED BY <1>2, <1>3, <1>5

\* The license Update, and a failure, leave what the save has left.
LEMMA UpdateAlone ==
  ASSUME IInv, Local, AloneInv, NEW c \in Clients, job[c] = "upload",
         Lock(c) \/ Rewrite(c) \/ Commit(c) \/ Fail(c)
  PROVE  Alone(c)'
<1> SUFFICES ASSUME alone'[c] PROVE Alone(c)'
  BY DEF Alone, Lock, Rewrite, Commit, Fail
<1>2. /\ Step(c) /\ ~SaveDocument(c)
      /\ UNCHANGED <<job, stamp, inventory, history>>
  BY DEF Step, SaveDocument, Fail, Lock, Rewrite, Commit, components
<1>3. \/ pc'[c] = "failed"
      \/ pc'[c] \in {"locked", "rewritten", "notify"} /\ pc[c] \in Updating
  BY Went DEF Lock, Rewrite, Commit, Fail, Updating
<1>4. Own(c)' = Own(c)
  BY <1>2, StillAlone DEF Own
<1>5. pc'[c] \notin {"cleared", "inserted", "trimmed", "newer", "older", "done"} \cup Indexing
  BY <1>3 DEF Indexing
<1>6. ~Saving(c)'
  BY <1>5 DEF Saving
<1>7. pc'[c] \in Updating \cup Announcing => pc[c] \in Updating
  BY <1>3 DEF Updating, Announcing
<1>8. Alone(c)
  BY DEF AloneInv
<1> QED BY <1>2, <1>4, <1>5, <1>6, <1>7, <1>8, StillAlone DEF Alone

LEMMA ClearAlone ==
  ASSUME IInv, Local, AloneInv, NEW c \in Clients, Clear(c)
  PROVE  Alone(c)'
<1> SUFFICES ASSUME job[c] = "upload", alone'[c] PROVE Alone(c)'
  BY DEF Alone, Clear
<1>1. /\ Step(c) /\ ~SaveDocument(c) /\ UNCHANGED <<job, inventory, history>>
      /\ pc[c] = "index" /\ pc'[c] = "cleared" /\ doomed'[c] = inventory
  BY Went DEF Step, Clear, SaveDocument, components, Local
<1>2. pc'[c] \notin {"inserted", "trimmed", "newer", "older", "done"} \cup Updating \cup Announcing
  BY <1>1 DEF Updating, Announcing
<1>3. ~Saving(c)'
  BY <1>1 DEF Saving
<1>4. Alone(c)
  BY DEF AloneInv
<1> QED BY <1>1, <1>2, <1>3, <1>4, StillAlone DEF Alone, Indexing, Newest

LEMMA InsertAlone ==
  ASSUME IInv, Local, RetentionInv, AloneInv, NEW c \in Clients, Insert(c)
  PROVE  Alone(c)'
<1> SUFFICES ASSUME job[c] = "upload", alone'[c] PROVE Alone(c)'
  BY DEF Alone, Insert
<1>1. /\ Step(c) /\ ~SaveDocument(c) /\ UNCHANGED <<job, inventory, history>>
      /\ pc[c] = "cleared" /\ pc'[c] = "inserted"
      /\ doomed'[c] = doomed[c] \cap inventory
      /\ fresh'[c] = list[c] \ Packages(inventory \ (doomed[c] \cap inventory))
      /\ stamp'[c] = clock + 1
  BY Went DEF Step, Insert, SaveDocument, ReadClock, components, Local, IInv, Typed
<1>2. pc'[c] \notin {"trimmed", "newer", "older", "done"} \cup Updating \cup Announcing
  BY <1>1 DEF Updating, Announcing
<1>3. Alone(c)
  BY DEF AloneInv
<1>4. exists => doomed'[c] = inventory /\ fresh'[c] = list[c]
  <2> SUFFICES ASSUME exists PROVE doomed'[c] = inventory /\ fresh'[c] = list[c]
    OBVIOUS
  <2>1. doomed[c] = inventory
    BY <1>1, <1>3, StillAlone DEF Alone
  <2>2. Packages({}) = {}
    BY DEF Packages
  <2>3. inventory \cap inventory = inventory /\ inventory \ inventory = {}
    OBVIOUS
  <2> QED BY <1>1, <2>1, <2>2, <2>3
<1>5. \A x \in history : x.at < stamp'[c]
  <2>1. clock \in Nat
    BY ClockAssumption DEF IInv, Typed
  <2> QED BY <1>1, <2>1, Stamped DEF RetentionInv, Snapshots
<1>6. (\A x \in history : x.at < stamp[c])'
  BY <1>1, <1>5
<1>7. exists => (document = list[c] /\ before[c] = Newest(1, history))'
  BY ZenonT(30), <1>1, <1>3, StillAlone DEF Alone, Indexing, Newest
<1>8. exists => (doomed[c] = inventory /\ fresh[c] = list[c])'
  BY <1>1, <1>4, StillAlone
<1> QED BY <1>1, <1>2, <1>6, <1>7, <1>8, StillAlone DEF Alone

LEMMA EvictAlone ==
  ASSUME IInv, Local, AloneInv, NEW c \in Clients, Evict(c)
  PROVE  Alone(c)'
<1> SUFFICES ASSUME job[c] = "upload", alone'[c] PROVE Alone(c)'
  BY DEF Alone, Evict
<1>1. /\ Step(c) /\ ~SaveDocument(c) /\ UNCHANGED <<job, inventory, history, stamp, doomed, fresh>>
      /\ pc[c] = "inserted" /\ pc'[c] = "trimmed"
      /\ evicted'[c] = history \ Newest(MaxSnapshots, history \cup Own(c))
  BY Went DEF Step, Evict, SaveDocument, components, Local
<1>2. pc'[c] \notin {"newer", "older", "done"} \cup Updating \cup Announcing
  BY <1>1 DEF Updating, Announcing
<1>3. Own(c)' = Own(c)
  BY <1>1, StillAlone DEF Own
<1>4. Alone(c) /\ Saving(c)
  BY <1>1 DEF AloneInv, Saving
<1>5. exists => (evicted[c] = history \ Newest(MaxSnapshots, history \cup Own(c)))'
  BY <1>1, <1>3 DEF Newest
<1>6. exists => (/\ document = list[c] /\ before[c] = Newest(1, history)
                 /\ doomed[c] = inventory
                 /\ fresh[c] = list[c] /\ \A x \in history : x.at < stamp[c])'
  BY <1>1, <1>4, StillAlone DEF Alone, Indexing, Newest
<1> QED BY <1>1, <1>2, <1>5, <1>6, StillAlone DEF Alone

LEMMA CommitSaveAlone ==
  ASSUME IInv, Local, RetentionInv, AloneInv, NEW c \in Clients, CommitSave(c)
  PROVE  Alone(c)'
<1> SUFFICES ASSUME job[c] = "upload", alone'[c] PROVE Alone(c)'
  BY DEF Alone, CommitSave
<1> DEFINE o == [at |-> stamp[c], packages |-> list[c]]
<1>1. /\ Step(c) /\ ~SaveDocument(c) /\ UNCHANGED <<job, stamp>>
      /\ pc[c] = "trimmed" /\ pc'[c] = "waiting"
      /\ inventory' = (inventory \ doomed[c])
                         \cup {[package |-> p, by |-> stamp[c]] : p \in fresh[c]}
      /\ history' = (history \ evicted[c]) \cup Own(c)
  BY Went DEF Step, CommitSave, SaveDocument
<1>2. pc'[c] \notin {"cleared", "inserted", "trimmed", "newer", "older", "done"} \cup Indexing
  BY <1>1 DEF Indexing
<1>3. Own(c)' = Own(c) /\ ~Saving(c)'
  BY <1>1, StillAlone DEF Own, Saving
<1>4. Alone(c) /\ alone[c] /\ Saving(c)
  BY <1>1, StillAlone DEF AloneInv, Saving
<1>5. ASSUME exists, list[c] # {}
      PROVE  /\ document = list[c] /\ Packages(inventory') = list[c]
             /\ Own(c) \subseteq history' /\ before[c] \subseteq history'
             /\ \A x \in history' \ Own(c) : /\ x.at < stamp[c]
                                             /\ \E t \in before[c] : x.at <= t.at
             /\ \A s, t \in before[c] : s = t
             /\ \A t \in before[c] : t.at < stamp[c]
  <2>1. /\ document = list[c] /\ before[c] = Newest(1, history)
        /\ doomed[c] = inventory /\ fresh[c] = list[c]
        /\ \A x \in history : x.at < stamp[c]
        /\ evicted[c] = history \ Newest(MaxSnapshots, history \cup Own(c))
    BY <1>1, <1>4, <1>5 DEF Alone, Indexing
  <2>2. Packages(inventory') = list[c]
    <3> DEFINE row(p) == [package |-> p, by |-> stamp[c]]
    <3>1. inventory' = {row(p) : p \in list[c]}
      BY <1>1, <2>1
    <3>2. \A p : row(p).package = p
      OBVIOUS
    <3> HIDE DEF row
    <3>3. \A p \in list[c] : p \in Packages(inventory')
      <4> SUFFICES ASSUME NEW p \in list[c] PROVE \E r \in inventory' : r.package = p
        BY Zenon DEF Packages
      <4>1. row(p) \in inventory' /\ row(p).package = p
        BY <3>1, <3>2
      <4> QED BY <4>1
    <3>4. \A p \in Packages(inventory') : p \in list[c]
      <4> SUFFICES ASSUME NEW r \in inventory' PROVE r.package \in list[c]
        BY Zenon DEF Packages
      <4> QED BY <3>1, <3>2
    <3> QED BY <3>3, <3>4
  <2>3. Own(c) = {o} /\ o.at = stamp[c]
    BY <1>5 DEF Own
  <2>4. /\ IsFiniteSet(history) /\ clock \in Nat
        /\ \A y \in history : y.at \in Nat /\ y.at <= clock
        /\ \A x, y \in history : x.at = y.at => x = y
    BY Takers, Stamped, ClockAssumption DEF RetentionInv, Snapshots, IInv, Typed
  <2>5. /\ \A s \in history : s \in before[c] <=> \A y \in history : y.at <= s.at
        /\ \A s, t \in before[c] : s = t
        /\ \A y \in history : \E t \in before[c] : y.at <= t.at
    <3>1. /\ \A s \in history : s \in Newest(1, history) <=> \A y \in history : y.at <= s.at
          /\ \A s, t \in Newest(1, history) : s = t
          /\ \A y \in history : \E t \in Newest(1, history) : y.at <= t.at
      BY <2>4, NewestOne
    <3> QED BY <2>1, <3>1
  <2>6. before[c] \subseteq history
    BY <2>1 DEF Newest
  <2>7. ASSUME NEW t \in before[c] PROVE t \in Newest(MaxSnapshots, history \cup Own(c))
    <3>1. \A y \in history : y.at <= t.at
      BY <2>5, <2>6
    <3>2. Later(history \cup Own(c), t.at) \subseteq {o}
      BY <2>3, <2>4, <2>6, <3>1 DEF Later
    <3>3. IsFiniteSet({o}) /\ Cardinality({o}) = 1
      BY FS_Singleton
    <3> DEFINE after == Later(history \cup Own(c), t.at)
    <3>4. Cardinality(after) <= 1 /\ Cardinality(after) \in Nat
      <4> HIDE DEF o
      <4> QED BY <3>2, <3>3, FS_Subset, FS_CardinalityType
    <3>5. Cardinality(after) < MaxSnapshots
      <4> HIDE DEF after
      <4> QED BY <3>4, ThereAreTwo
    <3> QED BY <3>5, <2>6, NewestIs
  <2>8. before[c] \subseteq history'
    <3> SUFFICES ASSUME NEW t \in before[c] PROVE t \in history \ evicted[c]
      BY <1>1
    <3> QED BY <2>1, <2>6, <2>7
  <2> QED BY <1>1, <2>1, <2>2, <2>5, <2>6, <2>8
<1>6. exists /\ list[c] # {} =>
       (/\ document = list[c] /\ Packages(inventory) = list[c]
        /\ Own(c) \subseteq history /\ before[c] \subseteq history
        /\ \A x \in history \ Own(c) : /\ x.at < stamp[c]
                                       /\ \E t \in before[c] : x.at <= t.at
        /\ \A s, t \in before[c] : s = t
        /\ \A t \in before[c] : t.at < stamp[c])'
  <2>1. /\ document' = document /\ list'[c] = list[c] /\ before' = before /\ stamp' = stamp
    BY <1>1, StillAlone
  <2> QED BY <1>3, <1>5, <2>1 DEF Packages
<1> QED BY <1>1, <1>2, <1>3, <1>6, StillAlone DEF Alone

LEMMA ReadSnapshotsAlone ==
  ASSUME IInv, Local, RetentionInv, NewsInv, AloneInv, NEW c \in Clients, ReadSnapshots(c)
  PROVE  Alone(c)'
<1> SUFFICES ASSUME job[c] = "upload", alone'[c] PROVE Alone(c)'
  BY DEF Alone, ReadSnapshots
<1> DEFINE o == [at |-> stamp[c], packages |-> list[c]]
<1>1. /\ Step(c) /\ ~SaveDocument(c) /\ UNCHANGED <<job, stamp, told, inventory, history>>
      /\ pc[c] = "notify" /\ pc'[c] \in {"done", "newer"}
  BY Went DEF Step, ReadSnapshots, SaveDocument, components
<1>2. pc'[c] \notin {"cleared", "inserted", "trimmed", "older"} \cup Indexing
  BY <1>1 DEF Indexing
<1>3. Own(c)' = Own(c) /\ ~Saving(c)'
  BY <1>1, StillAlone DEF Own, Saving
<1>4. Alone(c) /\ alone[c]
  BY <1>1, StillAlone DEF AloneInv
<1>5. ASSUME exists, list[c] # {}
      PROVE  /\ document = list[c] /\ Packages(inventory) = list[c]
             /\ Own(c) \subseteq history /\ before[c] \subseteq history
             /\ \A x \in history \ Own(c) : /\ x.at < stamp[c]
                                            /\ \E t \in before[c] : x.at <= t.at
             /\ \A s, t \in before[c] : s = t
             /\ \A t \in before[c] : t.at < stamp[c]
  BY <1>1, <1>4, <1>5 DEF Alone, Announcing
<1>6. exists /\ list[c] # {} => o \in history /\ o.at = stamp[c] /\ Own(c) = {o}
  BY <1>5 DEF Own
<1>7. ASSUME exists, list[c] # {}, pc'[c] = "done"
      PROVE  told[c] = UNION {C!Added(s.packages, list[c]) : s \in before[c]}
  <2>1. told[c] = {}
    BY <1>1 DEF NewsInv, News
  <2>2. ASSUME NEW t \in before[c] PROVE FALSE
    <3>1. t \in history /\ t.at < stamp[c] /\ stamp[c] \in Nat
      BY <1>5, <1>7, <2>2 DEF RetentionInv, Stamps
    <3>2. t # o
      BY <1>6, <1>7, <3>1
    <3> HIDE DEF o
    <3>3. Cardinality(history) < 2
      BY <1>7, Went DEF ReadSnapshots
    <3>4. {t} \cup {o} \subseteq history
      BY <1>6, <1>7, <3>1
    <3>5. IsFiniteSet({t}) /\ Cardinality({t}) = 1 /\ o \notin {t}
      BY <3>2, FS_Singleton
    <3>6. /\ IsFiniteSet({t} \cup {o})
          /\ Cardinality({t} \cup {o}) = IF o \in {t} THEN Cardinality({t})
                                                      ELSE Cardinality({t}) + 1
      BY <3>5, FS_AddElement, Zenon
    <3>7. IsFiniteSet(history) /\ Cardinality(history) \in Nat
      BY Takers
    <3>8. Cardinality({t} \cup {o}) <= Cardinality(history)
      BY <3>4, <3>7, FS_Subset
    <3> QED BY <3>3, <3>5, <3>6, <3>7, <3>8
  <2>3. before[c] = {}
    BY <2>2
  <2> QED BY <2>1, <2>3
<1>8. ASSUME exists, list[c] # {}, pc'[c] = "newer"
      PROVE  pair'[c][1] = stamp[c] /\ \E t \in before[c] : t.at = pair'[c][2]
  <2>1. PICK s \in Newest(2, history), t \in Newest(2, history) :
               s.at > t.at /\ pair' = [pair EXCEPT ![c] = <<s.at, t.at>>]
    BY <1>8, Went DEF ReadSnapshots
  <2>2. pair'[c][1] = s.at /\ pair'[c][2] = t.at
    BY <2>1 DEF Local
  <2>3. s \in history /\ t \in history /\ history \subseteq saved
    BY DEF Newest, RetentionInv, Snapshots
  <2>4. \A x \in history : x.at \in Nat /\ (x.at > t.at => x = s)
    BY <1>8, <2>1, <2>3, LastTwo, Stamped
  <2> HIDE DEF o
  <2>5. s = o
    <3> SUFFICES ASSUME s # o PROVE FALSE
      OBVIOUS
    <3>1. s.at < o.at
      BY <1>5, <1>6, <1>8, <2>3
    <3>2. o.at > t.at /\ o \in history
      BY <1>6, <1>8, <2>1, <2>3, <2>4, <3>1
    <3> QED BY <2>4, <3>2
  <2>6. t # o
    BY <2>1, <2>3, <2>4, <2>5
  <2>7. PICK b \in before[c] : t.at <= b.at
    BY <1>5, <1>6, <1>8, <2>3, <2>6
  <2>8. b \in history /\ b.at < o.at
    BY <1>5, <1>6, <1>8
  <2>9. ~(b.at > t.at)
    BY <2>4, <2>5, <2>8
  <2>10. b.at = t.at
    BY <2>3, <2>4, <2>7, <2>8, <2>9
  <2> QED BY <1>6, <1>8, <2>2, <2>5, <2>10
<1>9. exists /\ list[c] # {} =>
       (/\ document = list[c] /\ Packages(inventory) = list[c]
        /\ Own(c) \subseteq history /\ before[c] \subseteq history
        /\ \A x \in history \ Own(c) : /\ x.at < stamp[c]
                                       /\ \E t \in before[c] : x.at <= t.at
        /\ \A s, t \in before[c] : s = t
        /\ \A t \in before[c] : t.at < stamp[c])'
  <2>1. /\ document' = document /\ list'[c] = list[c] /\ before' = before
    BY <1>1, StillAlone
  <2> QED BY <1>1, <1>3, <1>5, <2>1 DEF Packages
<1>10. exists /\ list[c] # {} /\ pc'[c] = "done" =>
         (told[c] = UNION {C!Added(s.packages, list[c]) : s \in before[c]})'
  <2>1. /\ list'[c] = list[c] /\ before' = before
    BY <1>1, StillAlone
  <2> QED BY <1>1, <1>7, <2>1
<1>11. exists /\ list[c] # {} /\ pc'[c] \in {"newer", "older"} =>
         (pair[c][1] = stamp[c] /\ \E t \in before[c] : t.at = pair[c][2])'
  <2>1. before' = before
    BY <1>1, StillAlone
  <2> QED BY <1>1, <1>2, <1>8, <2>1
<1> QED BY <1>1, <1>2, <1>3, <1>9, <1>10, <1>11, StillAlone DEF Alone

LEMMA ReadNewerAlone ==
  ASSUME IInv, Local, RetentionInv, AloneInv, NEW c \in Clients, ReadNewer(c)
  PROVE  Alone(c)'
<1> SUFFICES ASSUME job[c] = "upload", alone'[c] PROVE Alone(c)'
  BY DEF Alone, ReadNewer
<1> DEFINE o == [at |-> stamp[c], packages |-> list[c]]
<1>1. /\ Step(c) /\ ~SaveDocument(c) /\ UNCHANGED <<job, stamp, pair, inventory, history>>
      /\ pc[c] = "newer" /\ pc'[c] = "older" /\ newer'[c] = PackagesAt(pair[c][1])
  BY Went DEF Step, ReadNewer, SaveDocument, components, Local
<1>2. pc'[c] \notin {"cleared", "inserted", "trimmed", "done"} \cup Indexing
  BY <1>1 DEF Indexing
<1>3. Own(c)' = Own(c) /\ ~Saving(c)'
  BY <1>1, StillAlone DEF Own, Saving
<1>4. Alone(c) /\ alone[c]
  BY <1>1, StillAlone DEF AloneInv
<1>5. ASSUME exists, list[c] # {}
      PROVE  /\ document = list[c] /\ Packages(inventory) = list[c]
             /\ Own(c) \subseteq history /\ before[c] \subseteq history
             /\ \A x \in history \ Own(c) : /\ x.at < stamp[c]
                                            /\ \E t \in before[c] : x.at <= t.at
             /\ \A s, t \in before[c] : s = t
             /\ \A t \in before[c] : t.at < stamp[c]
             /\ pair[c][1] = stamp[c] /\ \E t \in before[c] : t.at = pair[c][2]
  BY <1>1, <1>4, <1>5 DEF Alone, Announcing
<1>6. exists /\ list[c] # {} => newer'[c] = list[c]
  <2> SUFFICES ASSUME exists, list[c] # {} PROVE newer'[c] = list[c]
    OBVIOUS
  <2>1. o \in history /\ o.at = stamp[c] /\ o.packages = list[c]
    BY <1>5 DEF Own
  <2> HIDE DEF o
  <2>2. PackagesAt(o.at) = o.packages
    BY <2>1, ReadBack
  <2> QED BY <1>1, <1>5, <2>1, <2>2
<1>7. exists /\ list[c] # {} =>
       (/\ document = list[c] /\ Packages(inventory) = list[c]
        /\ Own(c) \subseteq history /\ before[c] \subseteq history
        /\ \A x \in history \ Own(c) : /\ x.at < stamp[c]
                                       /\ \E t \in before[c] : x.at <= t.at
        /\ \A s, t \in before[c] : s = t
        /\ \A t \in before[c] : t.at < stamp[c])'
  <2>1. /\ document' = document /\ list'[c] = list[c] /\ before' = before
    BY <1>1, StillAlone
  <2> QED BY <1>1, <1>3, <1>5, <2>1 DEF Packages
<1>8. exists /\ list[c] # {} =>
        (/\ newer[c] = list[c]
         /\ pair[c][1] = stamp[c] /\ \E t \in before[c] : t.at = pair[c][2])'
  <2>1. before' = before /\ list'[c] = list[c]
    BY <1>1, StillAlone
  <2> QED BY <1>1, <1>5, <1>6, <2>1
<1> QED BY <1>1, <1>2, <1>3, <1>7, <1>8, StillAlone DEF Alone

LEMMA AnnounceAlone ==
  ASSUME IInv, Local, RetentionInv, AloneInv, NEW c \in Clients, Announce(c)
  PROVE  Alone(c)'
<1> SUFFICES ASSUME job[c] = "upload", alone'[c] PROVE Alone(c)'
  BY DEF Alone, Announce, upload
<1>1. /\ Step(c) /\ ~SaveDocument(c) /\ UNCHANGED job
      /\ pc[c] = "older" /\ pc'[c] = "done"
      /\ told'[c] = C!Added(PackagesAt(pair[c][2]), newer[c])
  BY Went DEF Step, Announce, SaveDocument, Local, upload
<1>2. pc'[c] \notin {"cleared", "inserted", "trimmed", "newer", "older"}
                       \cup Indexing \cup Updating \cup Announcing
  BY <1>1 DEF Indexing, Updating, Announcing
<1>3. ~Saving(c)'
  BY <1>1 DEF Saving
<1>4. Alone(c) /\ alone[c]
  BY <1>1, StillAlone DEF AloneInv
<1>5. ASSUME exists, list[c] # {}
      PROVE  told'[c] = UNION {C!Added(s.packages, list[c]) : s \in before[c]}
  <2>1. /\ newer[c] = list[c] /\ before[c] \subseteq history
        /\ \A s, t \in before[c] : s = t
        /\ \E t \in before[c] : t.at = pair[c][2]
    BY <1>1, <1>4, <1>5 DEF Alone, Announcing
  <2>2. PICK t \in before[c] : t.at = pair[c][2]
    BY <2>1
  <2>3. PackagesAt(pair[c][2]) = t.packages
    BY <2>1, <2>2, ReadBack
  <2>4. before[c] = {t}
    BY <2>1
  <2>5. told'[c] = C!Added(t.packages, list[c])
    BY <1>1, <2>1, <2>3
  <2>6. {C!Added(s.packages, list[c]) : s \in before[c]} = {C!Added(t.packages, list[c])}
    BY <2>4
  <2> QED BY <2>5, <2>6
<1>6. exists /\ list[c] # {} =>
        (told[c] = UNION {C!Added(s.packages, list[c]) : s \in before[c]})'
  <2>1. before' = before /\ list'[c] = list[c]
    BY <1>1, StillAlone
  <2> QED BY <1>5, <2>1
<1> QED BY <1>1, <1>2, <1>3, <1>6, StillAlone DEF Alone

LEMMA AloneStep ==
  IInv /\ Local /\ RetentionInv /\ HonestyInv /\ NewsInv /\ AloneInv /\ [Next]_vars => AloneInv'
<1> SUFFICES ASSUME IInv, Local, RetentionInv, HonestyInv, NewsInv, AloneInv, [Next]_vars
             PROVE  AloneInv'
  OBVIOUS
<1>1. CASE UNCHANGED vars
  <2>1. UNCHANGED <<exists, document, inventory, history, job, pc, stamp, list, doomed, fresh,
                    evicted, pair, newer, told, before, alone>>
    BY <1>1 DEF vars, stored, components, upload
  <2>2. \A c \in Clients : /\ Uploading(c)' <=> Uploading(c)
                           /\ Saving(c)' <=> Saving(c)
                           /\ Own(c)' = Own(c)
    BY <2>1 DEF Uploading, Saving, Own
  <2>3. \A c \in Clients : Alone(c)
    BY DEF AloneInv
  <2>4. ASSUME NEW c \in Clients PROVE Alone(c)'
    BY <2>1, <2>2, <2>3 DEF Alone, Newest, Packages
  <2> QED BY <2>4 DEF AloneInv
<1>2. ASSUME NEW c \in Clients, Step(c) PROVE AloneInv'
  <2>1. Alone(c)'
    <3>1. CASE job[c] # "upload"
      BY <1>2, <3>1, Frame DEF Alone
    <3>2. CASE job[c] = "upload" /\ (Lock(c) \/ Rewrite(c) \/ Commit(c) \/ Fail(c))
      BY <3>2, UpdateAlone
    <3>3. CASE SaveDocument(c) \/ Clear(c) \/ Insert(c) \/ Evict(c) \/ CommitSave(c)
      BY <3>3, SaveDocumentAlone, ClearAlone, InsertAlone, EvictAlone, CommitSaveAlone
    <3>4. CASE ReadSnapshots(c) \/ ReadNewer(c) \/ Announce(c)
      BY <3>4, ReadSnapshotsAlone, ReadNewerAlone, AnnounceAlone
    <3>5. CASE Begin(c) \/ ReadRow(c) \/ Delete(c)
      BY <3>1, <3>5 DEF Begin, ReadRow, Delete
    <3>6. CASE \/ ReadBucket(c, "cve", "other") \/ ReadBucket(c, "other", "documents")
               \/ Judge(c)
      <4>1. job[c] = "gate"
        BY <3>6 DEF ReadBucket, Judge, IInv, Prepared, Reading
      <4> QED BY <4>1, <3>1
    <3> QED BY <1>2, <3>1, <3>2, <3>3, <3>4, <3>5, <3>6 DEF Step
  <2>2. \A d \in Clients \ {c} : Alone(d)'
    BY <1>2, OthersAlone
  <2>3. \A d \in Clients : Alone(d)'
    BY <2>1, <2>2
  <2> QED BY <2>3 DEF AloneInv
<1> QED BY <1>1, <1>2 DEF Next

LEMMA AloneInit == Init => AloneInv
BY DEF Init, AloneInv, Alone

\* What is left of AloneAsMemStore: the upload's snapshot is the newest.
LEMMA AloneIs == IInv /\ RetentionInv /\ AloneInv => AloneAsMemStore
<1> SUFFICES ASSUME IInv, RetentionInv, AloneInv, NEW c \in Clients,
                    job[c] = "upload", alone[c], list[c] # {}, exists
             PROVE  /\ pc[c] \in {"waiting", "locked", "rewritten", "notify", "newer", "older"} =>
                         /\ document = list[c]
                         /\ Packages(inventory) = list[c]
                         /\ {s.packages : s \in Newest(1, history)} = {list[c]}
                    /\ pc[c] = "done" =>
                         told[c] = UNION {C!Added(s.packages, list[c]) : s \in before[c]}
  BY DEF AloneAsMemStore
<1> DEFINE o == [at |-> stamp[c], packages |-> list[c]]
<1>1. Alone(c)
  BY DEF AloneInv
<1>2. ASSUME pc[c] \in {"waiting", "locked", "rewritten", "notify", "newer", "older"}
      PROVE  /\ document = list[c] /\ Packages(inventory) = list[c]
             /\ {s.packages : s \in Newest(1, history)} = {list[c]}
  <2>1. /\ document = list[c] /\ Packages(inventory) = list[c]
        /\ Own(c) \subseteq history /\ \A x \in history \ Own(c) : x.at < stamp[c]
    BY <1>1, <1>2 DEF Alone, Updating, Announcing
  <2>2. o \in history /\ Own(c) = {o} /\ o.at = stamp[c] /\ o.packages = list[c]
    BY <2>1 DEF Own
  <2>3. /\ IsFiniteSet(history) /\ clock \in Nat
        /\ \A y \in history : y.at \in Nat /\ y.at <= clock
        /\ \A x, y \in history : x.at = y.at => x = y
    BY Takers, Stamped, ClockAssumption DEF RetentionInv, Snapshots, IInv, Typed
  <2>4. /\ \A s \in history : s \in Newest(1, history) <=> \A y \in history : y.at <= s.at
        /\ \A s, t \in Newest(1, history) : s = t
    BY <2>3, NewestOne
  <2> HIDE DEF o
  <2>5. \A y \in history : y.at <= o.at
    BY <2>1, <2>2, <2>3
  <2>6. o \in Newest(1, history)
    BY <2>2, <2>4, <2>5
  <2>7. Newest(1, history) = {o}
    BY <2>4, <2>6
  <2> QED BY <2>1, <2>2, <2>7
<1>3. pc[c] = "done" => told[c] = UNION {C!Added(s.packages, list[c]) : s \in before[c]}
  BY <1>1 DEF Alone
<1> QED BY <1>2, <1>3

\* An upload that no other overlaps does what MemStore does under its mutex:
\* its list becomes the inventory and the newest snapshot, and it announces
\* what the snapshot before did not have.  (SaveComponents and
\* notifyNewComponents, in their separate statements, next to scans,
\* acceptances, gates and deletions.)
THEOREM LoneUploadsAreAtomic == Spec => []AloneAsMemStore
<1>1. Init => IInv /\ Local /\ RetentionInv /\ HonestyInv /\ NewsInv /\ AloneInv
  BY InitInv, RetentionInit, HonestyInit, NewsInit, AloneInit
<1>2. IInv /\ Local /\ RetentionInv /\ HonestyInv /\ NewsInv /\ AloneInv /\ [Next]_vars
        => (IInv /\ Local /\ RetentionInv /\ HonestyInv /\ NewsInv /\ AloneInv)'
  BY StepInv, LocalStep, RetentionStep, HonestyStep, NewsStep, AloneStep
<1> QED BY <1>1, <1>2, AloneIs, PTL DEF Spec

-----------------------------------------------------------------------------
(* The policy itself (Policy), whatever the store does.                    *)

Findings(a) == UNION {a.findings[b] : b \in Buckets}

LEMMA Ranks == \A s \in Recognised : SeverityRank[s] \in Nat
BY DEF Recognised, SeverityRank

\* A finding that counts now counts later: an acceptance only runs out.
LEMMA StaysActive ==
  ASSUME NEW f, NEW now \in Int, NEW later \in Int, now <= later,
         f.until \in Int, IsActive(f, now)
  PROVE  IsActive(f, later)
BY DEF IsActive, Accepted

LEMMA RulesStayBroken ==
  ASSUME NEW p, NEW a, NEW now \in Int, NEW later \in Int, now <= later,
         a.scanAt \in Int, p.maxAge \in Int
  PROVE  BrokenRules(p, a, now) \subseteq BrokenRules(p, a, later)
<1>1. now - a.scanAt > p.maxAge => later - a.scanAt > p.maxAge
  OBVIOUS
<1> QED BY <1>1 DEF BrokenRules

\* Waiting never turns a refusal into a pass: whatever the gate holds against
\* an artifact it holds against it later, while nothing is done about it.
\* (Evaluate: freshness only decays, and an acceptance only expires.)
THEOREM ViolationsStay ==
  ASSUME NEW p, NEW a, NEW now \in Int, NEW later \in Int, now <= later,
         Loadable(p), p.maxAge \in Int, a.scanAt \in Int,
         \A f \in Findings(a) : f.until \in Int
  PROVE  Evaluate(p, a, now) \subseteq Evaluate(p, a, later)
<1>1. BrokenRules(p, a, now) \subseteq BrokenRules(p, a, later)
  BY RulesStayBroken
<1>2. ASSUME NEW b \in Buckets, NEW f \in a.findings[b], IsActive(f, now)
      PROVE  IsActive(f, later)
  <2>1. f.until \in Int
    BY DEF Findings
  <2> QED BY <2>1, <1>2, StaysActive
<1>3. LicenseViolations(a, now) \subseteq LicenseViolations(a, later)
  BY <1>2 DEF LicenseViolations, Buckets
<1>4. ASSUME NEW b \in DOMAIN p.maxSeverity
      PROVE  BucketViolations(p, a, b, now) \subseteq BucketViolations(p, a, b, later)
  BY <1>2 DEF BucketViolations, Loadable
<1> QED BY ZenonT(30), <1>1, <1>3, <1>4 DEF Evaluate

-----------------------------------------------------------------------------
\* q asks for all that p asks for.
NoLaxer(q, p) ==
  \/ q = "none"
  \/ q = p
  \/ q \in Recognised /\ p \in Recognised /\ SeverityRank[q] <= SeverityRank[p]

Stricter(q, p) ==
  /\ p.disallowUnsafe => q.disallowUnsafe
  /\ p.requireSBOM => q.requireSBOM
  /\ p.maxAge > 0 => q.maxAge > 0 /\ q.maxAge <= p.maxAge
  /\ p.licenseDenylist => q.licenseDenylist
  /\ p.requireProvenance => q.requireProvenance
  /\ DOMAIN p.maxSeverity \subseteq DOMAIN q.maxSeverity
  /\ \A b \in DOMAIN p.maxSeverity : NoLaxer(q.maxSeverity[b], p.maxSeverity[b])

LEMMA ExceedsStricter ==
  ASSUME NEW f, NEW q, NEW p, NoLaxer(q, p), Exceeds(f, p)
  PROVE  Exceeds(f, q)
<1>1. CASE f.severity \notin Recognised
  BY <1>1 DEF Exceeds
<1>2. CASE q = "none" \/ q = p
  BY <1>2 DEF Exceeds
<1>3. CASE /\ f.severity \in Recognised
           /\ q \in Recognised /\ p \in Recognised /\ SeverityRank[q] <= SeverityRank[p]
  <2>1. p # "none"
    BY <1>3 DEF Recognised, SeverityRank
  <2>2. SeverityRank[f.severity] > SeverityRank[p]
    BY <2>1, <1>3 DEF Exceeds
  <2>3. /\ SeverityRank[f.severity] \in Nat
        /\ SeverityRank[q] \in Nat
        /\ SeverityRank[p] \in Nat
    BY <1>3, Ranks
  <2>4. SeverityRank[f.severity] > SeverityRank[q]
    BY <2>2, <2>3, <1>3
  <2> QED BY <2>4, <1>3 DEF Exceeds
<1> QED BY <1>1, <1>2, <1>3 DEF NoLaxer

\* Adding a rule or tightening one never lets an artifact pass that did not.
\* It is not obvious of the license rule, which takes license findings away
\* from the severity threshold of bucket "other": what it takes, it refuses.
THEOREM StricterPassesLess ==
  ASSUME NEW p, NEW q, NEW a, NEW now \in Int, Stricter(q, p), Pass(q, a, now),
         p.maxAge \in Int, q.maxAge \in Int, a.scanAt \in Int
  PROVE  Pass(p, a, now)
<1>1. /\ BrokenRules(q, a, now) = {}
      /\ q.licenseDenylist => LicenseViolations(a, now) = {}
      /\ \A b \in DOMAIN q.maxSeverity : BucketViolations(q, a, b, now) = {}
  <2>1. Evaluate(q, a, now) = {}
    BY DEF Pass
  <2>2. \A r \in BrokenRules(q, a, now) :
          [rule |-> r, bucket |-> "", id |-> ""] \in Evaluate(q, a, now)
    BY Zenon DEF Evaluate
  <2>3. q.licenseDenylist => LicenseViolations(a, now) \subseteq Evaluate(q, a, now)
    BY Zenon DEF Evaluate
  <2>4. \A b \in DOMAIN q.maxSeverity :
          BucketViolations(q, a, b, now) \subseteq Evaluate(q, a, now)
    BY Zenon DEF Evaluate
  <2> QED BY <2>1, <2>2, <2>3, <2>4, Zenon
<1>2. BrokenRules(p, a, now) = {}
  <2>1. p.maxAge > 0 /\ now - a.scanAt > p.maxAge
          => q.maxAge > 0 /\ now - a.scanAt > q.maxAge
    BY DEF Stricter
  <2>2. BrokenRules(p, a, now) \subseteq BrokenRules(q, a, now)
    BY <2>1 DEF BrokenRules, Stricter
  <2> QED BY <1>1, <2>2
<1>3. p.licenseDenylist => LicenseViolations(a, now) = {}
  BY <1>1 DEF Stricter
<1>4. ASSUME NEW b \in DOMAIN p.maxSeverity
      PROVE  BucketViolations(p, a, b, now) = {}
  <2> SUFFICES ASSUME NEW f \in a.findings[b], IsActive(f, now),
                      ~OwnedByLicenseRule(p, b, f), Exceeds(f, p.maxSeverity[b])
               PROVE  FALSE
    BY DEF BucketViolations
  <2>1. b \in DOMAIN q.maxSeverity /\ Exceeds(f, q.maxSeverity[b])
    BY ExceedsStricter DEF Stricter
  <2>2. CASE OwnedByLicenseRule(q, b, f)
    <3>1. [rule |-> "licenseDenylist", bucket |-> "other", id |-> f.id]
            \in LicenseViolations(a, now)
      BY <2>2 DEF OwnedByLicenseRule, LicenseViolations
    <3> QED BY <3>1, <2>2, <1>1 DEF OwnedByLicenseRule
  <2>3. CASE ~OwnedByLicenseRule(q, b, f)
    <3>1. [rule |-> "maxSeverity", bucket |-> b, id |-> f.id]
            \in BucketViolations(q, a, b, now)
      BY <2>1, <2>3 DEF BucketViolations
    <3> QED BY <3>1, <2>1, <1>1
  <2> QED BY <2>2, <2>3
<1> QED BY <1>2, <1>3, <1>4 DEF Pass, Evaluate

-----------------------------------------------------------------------------
OfLicense(p, a, x) ==
  /\ p.licenseDenylist
  /\ x.bucket = "other"
  /\ x = [rule |-> "licenseDenylist", bucket |-> x.bucket, id |-> x.id]
  /\ \E f \in a.findings["other"] : f.id = x.id /\ f.license

OfSeverity(p, a, x) ==
  /\ x = [rule |-> "maxSeverity", bucket |-> x.bucket, id |-> x.id]
  /\ \E f \in a.findings[x.bucket] : f.id = x.id /\ ~OwnedByLicenseRule(p, x.bucket, f)

\* What a violation that names a finding stems from.
LEMMA Sources ==
  ASSUME NEW p, NEW a, NEW now, NEW x \in Evaluate(p, a, now), x.bucket # ""
  PROVE  OfLicense(p, a, x) \/ OfSeverity(p, a, x)
<1>1. CASE x \in {[rule |-> r, bucket |-> "", id |-> ""] : r \in BrokenRules(p, a, now)}
  <2>1. PICK r \in BrokenRules(p, a, now) : x = [rule |-> r, bucket |-> "", id |-> ""]
    BY <1>1
  <2>2. x.bucket = ""
    BY <2>1
  <2> QED BY <2>2
<1>2. CASE p.licenseDenylist /\ x \in LicenseViolations(a, now)
  <2>1. PICK f \in a.findings["other"] :
          f.license /\ x = [rule |-> "licenseDenylist", bucket |-> "other", id |-> f.id]
    BY <1>2 DEF LicenseViolations
  <2>2. x.bucket = "other" /\ x.id = f.id
    BY <2>1
  <2> QED BY <2>1, <2>2, <1>2 DEF OfLicense
<1>3. CASE x \in UNION {BucketViolations(p, a, b, now) : b \in DOMAIN p.maxSeverity}
  <2>1. PICK b \in DOMAIN p.maxSeverity : x \in BucketViolations(p, a, b, now)
    BY <1>3
  <2>2. PICK f \in a.findings[b] :
          /\ ~OwnedByLicenseRule(p, b, f)
          /\ x = [rule |-> "maxSeverity", bucket |-> b, id |-> f.id]
    BY <2>1 DEF BucketViolations
  <2>3. x.bucket = b /\ x.id = f.id
    BY <2>2
  <2> QED BY <2>2, <2>3 DEF OfSeverity
<1> QED BY <1>1, <1>2, <1>3 DEF Evaluate

\* One finding is reported once, under one rule (evaluateBucket: the license
\* rule owns what it reports), when ids are unique in a bucket.
THEOREM ReportedOnce ==
  ASSUME NEW p, NEW a, NEW now,
         \A b \in Buckets : \A f, g \in a.findings[b] : f.id = g.id => f = g,
         NEW v \in Evaluate(p, a, now), NEW w \in Evaluate(p, a, now),
         v.bucket = w.bucket, v.bucket # "", v.id = w.id
  PROVE  v = w
<1>1. ASSUME NEW x \in Evaluate(p, a, now), x.bucket # ""
      PROVE  OfLicense(p, a, x) \/ OfSeverity(p, a, x)
  BY <1>1, Sources
<1>2. ASSUME NEW x, NEW y, OfLicense(p, a, x), OfSeverity(p, a, y),
             x.bucket = y.bucket, x.id = y.id
      PROVE  FALSE
  <2>1. PICK f \in a.findings["other"] : f.id = x.id /\ f.license
    BY <1>2 DEF OfLicense
  <2>2. y.bucket = "other"
    BY <1>2 DEF OfLicense
  <2>3. PICK g \in a.findings["other"] : g.id = y.id /\ ~OwnedByLicenseRule(p, "other", g)
    BY <1>2, <2>2 DEF OfSeverity
  <2>4. f = g
    BY ZenonT(30), <2>1, <2>3, <1>2 DEF Buckets
  <2> QED BY <2>1, <2>3, <2>4, <1>2 DEF OwnedByLicenseRule, OfLicense
<1>3. (OfLicense(p, a, v) \/ OfSeverity(p, a, v)) /\ (OfLicense(p, a, w) \/ OfSeverity(p, a, w))
  BY <1>1
<1>4. CASE OfLicense(p, a, v) /\ OfLicense(p, a, w)
  BY <1>4 DEF OfLicense
<1>5. CASE OfSeverity(p, a, v) /\ OfSeverity(p, a, w)
  BY <1>5 DEF OfSeverity
<1>6. CASE OfLicense(p, a, v) /\ OfSeverity(p, a, w)
  BY <1>6, <1>2
<1>7. CASE OfSeverity(p, a, v) /\ OfLicense(p, a, w)
  BY <1>7, <1>2
<1> QED BY <1>3, <1>4, <1>5, <1>6, <1>7
=============================================================================
