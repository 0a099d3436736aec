-------------------------- MODULE ScanSlotsProofs ---------------------------
(***************************************************************************)
(* Proofs about ScanSlots, for any set of attempts, kinds, caps, requests  *)
(* and timings that its assumptions admit: the caps hold, no running scan  *)
(* loses a row, and the transactions implement the atomic SlotPool.        *)
(***************************************************************************)
EXTENDS ScanSlots, FiniteSetTheorems, TLAPS

\* A subset of the holders is finite, and its size is a number that grows
\* with the set (FS_Subset, for the sets the counting compares).
LEMMA HolderSets ==
  ASSUME NEW S \in SUBSET Holders, NEW T \in SUBSET S
  PROVE  /\ IsFiniteSet(S) /\ IsFiniteSet(T)
         /\ Cardinality(S) \in Nat /\ Cardinality(T) \in Nat
         /\ Cardinality(T) <= Cardinality(S)
<1>1. IsFiniteSet(S)
  BY FS_Subset, SlotsAssumption
<1>2. IsFiniteSet(T) /\ Cardinality(T) <= Cardinality(S)
  BY <1>1, FS_Subset
<1> QED
  BY <1>1, <1>2, FS_CardinalityType

\* One holder more is at most one more to count.
LEMMA OneMore ==
  ASSUME NEW S \in SUBSET Holders, NEW h \in Holders
  PROVE  Cardinality(S \cup {h}) <= Cardinality(S) + 1
<1>1. IsFiniteSet(S) /\ Cardinality(S) \in Nat
  BY HolderSets
<1>2. Cardinality(S \cup {h}) = IF h \in S THEN Cardinality(S) ELSE Cardinality(S) + 1
  BY <1>1, FS_AddElement, Zenon
<1> QED
  BY <1>1, <1>2
-----------------------------------------------------------------------------
(* The inductive invariant.                                                *)

LEMMA InitInv == Init => IInv
<1> SUFFICES ASSUME Init PROVE IInv
  OBVIOUS
<1>1. TypeOK
  BY SlotsAssumption DEF Init, TypeOK, Oldest
<1>2. LocksExclude
  BY DEF Init, LocksExclude
<1>3. RowsWithinCap
  <2> SUFFICES ASSUME NEW kind \in Kinds PROVE Cardinality(HoldersOf(kind)) <= Cap[kind]
    BY DEF RowsWithinCap
  <2>1. HoldersOf(kind) = {}
    BY DEF Init, HoldersOf
  <2> QED
    BY <2>1, FS_EmptySet, SlotsAssumption
<1>4. \A h \in Holders : TransactionInv(h)
  BY SlotsAssumption DEF Init, TransactionInv, Holding
<1> QED
  BY <1>1, <1>2, <1>3, <1>4 DEF IInv

\* Every action keeps the types.
LEMMA TypePreserved == TypeOK /\ [Next]_vars => TypeOK'
<1> SUFFICES ASSUME TypeOK, [Next]_vars PROVE TypeOK'
  OBVIOUS
<1> USE DEF TypeOK
<1>1. ASSUME NEW h \in Holders, Begin(h) PROVE TypeOK'
  BY <1>1, SlotsAssumption DEF Begin
<1>2. ASSUME NEW h \in Holders, Lock(h) PROVE TypeOK'
  BY <1>2 DEF Lock
<1>3. ASSUME NEW h \in Holders, Reap(h) PROVE TypeOK'
  BY <1>3 DEF Reap
<1>4. ASSUME NEW h \in Holders, Grant(h) PROVE TypeOK'
  BY <1>4, SlotsAssumption DEF Grant, Oldest
<1>5. ASSUME NEW h \in Holders, Refuse(h) PROVE TypeOK'
  BY <1>5 DEF Refuse, CommitRows, EndTransaction, Idle
<1>6. ASSUME NEW h \in Holders, Commit(h) PROVE TypeOK'
  BY <1>6 DEF Commit, CommitRows, EndTransaction
<1>7. ASSUME NEW h \in Holders, Abort(h) PROVE TypeOK'
  BY <1>7 DEF Abort, EndTransaction, Idle
<1>8. ASSUME NEW h \in Holders, Release(h) PROVE TypeOK'
  BY <1>8 DEF Release, Idle
<1>9. ASSUME NEW h \in Holders, Leak(h) PROVE TypeOK'
  BY <1>9 DEF Leak, Idle
<1>10. CASE Tick
  BY <1>10, SlotsAssumption DEF Tick, Oldest
<1>11. CASE UNCHANGED vars
  BY <1>11 DEF vars
<1> QED
  BY <1>1, <1>2, <1>3, <1>4, <1>5, <1>6, <1>7, <1>8, <1>9, <1>10, <1>11
     DEF Next, Transact
\* Deleting rows never breaks a cap, nor takes away room once counted.
LEMMA FewerRowsKeepCaps ==
  ASSUME RowsWithinCap, \A g \in Holders : rows'[g] \subseteq rows[g]
  PROVE  RowsWithinCap'
<1> SUFFICES ASSUME NEW kind \in Kinds, Cap[kind] # 0
             PROVE  Cardinality(HoldersOf(kind)') <= Cap[kind]
  BY DEF RowsWithinCap
<1>1. HoldersOf(kind)' \subseteq HoldersOf(kind) /\ HoldersOf(kind) \subseteq Holders
  BY DEF HoldersOf
<1>2. Cardinality(HoldersOf(kind)') <= Cardinality(HoldersOf(kind))
      /\ Cardinality(HoldersOf(kind)') \in Nat /\ Cardinality(HoldersOf(kind)) \in Nat
  BY <1>1, HolderSets
<1> QED
  BY <1>2, SlotsAssumption DEF RowsWithinCap

LEMMA FewerRowsKeepRoom ==
  ASSUME NEW h \in Holders, NEW kind \in Kinds, Room(h, kind),
         HoldersOf(kind)' \subseteq HoldersOf(kind), reaped'[h] = reaped[h]
  PROVE  Room(h, kind)'
<1> DEFINE Counted == HoldersOf(kind) \ reaped[h]
<1>1. CASE Cap[kind] = 0
  BY <1>1 DEF Room
<1>2. CASE Cap[kind] # 0
  <2>1. Counted' \subseteq Counted /\ Counted \subseteq Holders
    BY DEF HoldersOf
  <2>2. Cardinality(Counted') <= Cardinality(Counted)
        /\ Cardinality(Counted') \in Nat /\ Cardinality(Counted) \in Nat
    BY <2>1, HolderSets
  <2>3. Cardinality(Counted) < Cap[kind]
    BY <1>2 DEF Room
  <2>4. Cardinality(Counted') < Cap[kind]
    BY <2>2, <2>3, SlotsAssumption
  <2> QED
    BY <2>4 DEF Room
<1> QED
  BY <1>1, <1>2

\* A transaction commits: its counts are still good, since only it can have
\* added rows of the kinds it has locked.
LEMMA CommitKeepsCaps ==
  ASSUME IInv, NEW h \in Holders, Commit(h)
  PROVE  RowsWithinCap'
<1> SUFFICES ASSUME NEW kind \in Kinds, Cap[kind] # 0
             PROVE  Cardinality(HoldersOf(kind)') <= Cap[kind]
  BY DEF RowsWithinCap
<1>0. Cap[kind] \in Nat
  BY SlotsAssumption
<1>1. \A g \in Holders : rows'[g] \subseteq rows[g] \/ (g = h /\ rows'[g] = wanted[h])
  BY DEF Commit, CommitRows
<1>2. CASE kind \in wanted[h]
  <2> DEFINE Counted == HoldersOf(kind) \ reaped[h]
  <2>1. Counted \subseteq Holders /\ HoldersOf(kind)' \subseteq Counted \cup {h}
    BY DEF Commit, CommitRows, HoldersOf
  <2>2. Cardinality(HoldersOf(kind)') <= Cardinality(Counted \cup {h})
        /\ Cardinality(HoldersOf(kind)') \in Nat
        /\ Cardinality(Counted \cup {h}) \in Nat /\ Cardinality(Counted) \in Nat
    BY <2>1, HolderSets
  <2>3. Cardinality(Counted \cup {h}) <= Cardinality(Counted) + 1
    BY <2>1, OneMore
  <2>4. Cardinality(Counted) < Cap[kind]
    BY <1>2 DEF IInv, TransactionInv, Commit, Room
  <2> QED
    BY <2>2, <2>3, <2>4, <1>0
<1>3. CASE kind \notin wanted[h]
  <2>1. HoldersOf(kind)' \subseteq HoldersOf(kind) /\ HoldersOf(kind) \subseteq Holders
    BY <1>1, <1>3 DEF HoldersOf
  <2>2. Cardinality(HoldersOf(kind)') <= Cardinality(HoldersOf(kind))
        /\ Cardinality(HoldersOf(kind)') \in Nat /\ Cardinality(HoldersOf(kind)) \in Nat
    BY <2>1, HolderSets
  <2> QED
    BY <2>2, <1>0 DEF IInv, RowsWithinCap
<1> QED
  BY <1>2, <1>3
\* Every action keeps the invariant.  Typing and the caps come from the
\* lemmas above; what is left is the locks and what each attempt knows.
LEMMA NextInv == IInv /\ [Next]_vars => IInv'
<1> SUFFICES ASSUME IInv, [Next]_vars PROVE IInv'
  OBVIOUS
<1> USE DEF IInv
<1>0. TypeOK'
  BY TypePreserved
<1> DEFINE Rest == /\ LocksExclude'
                   /\ RowsWithinCap'
                   /\ \A g \in Holders : TransactionInv(g)'
<1>1. ASSUME NEW h \in Holders, Begin(h) PROVE Rest
  <2>1. LocksExclude'
    BY <1>1 DEF Begin, LocksExclude
  <2>2. RowsWithinCap'
    BY <1>1, FewerRowsKeepCaps DEF Begin
  <2>3. ASSUME NEW g \in Holders PROVE TransactionInv(g)'
    BY <1>1, <2>3 DEF Begin, Fresh, TransactionInv, Holding, Room, HoldersOf, TypeOK
  <2> QED
    BY <2>1, <2>2, <2>3
<1>2. ASSUME NEW h \in Holders, Lock(h) PROVE Rest
  <2>1. LocksExclude'
    BY <1>2 DEF Lock, Unlocked, LocksExclude, TypeOK
  <2>2. RowsWithinCap'
    BY <1>2, FewerRowsKeepCaps DEF Lock
  <2>3. ASSUME NEW g \in Holders PROVE TransactionInv(g)'
    BY <1>2, <2>3 DEF Lock, TransactionInv, Holding, Room, HoldersOf, TypeOK
  <2> QED
    BY <2>1, <2>2, <2>3
<1>3. ASSUME NEW h \in Holders, Reap(h) PROVE Rest
  <2>1. LocksExclude'
    BY <1>3 DEF Reap, LocksExclude
  <2>2. RowsWithinCap'
    BY <1>3, FewerRowsKeepCaps DEF Reap
  <2>3. \A g \in Holders : Reapable(g) => pc[g] = "idle"
    <3> SUFFICES ASSUME NEW g \in Holders, Reapable(g), pc[g] # "idle" PROVE FALSE
      OBVIOUS
    <3>1. pc[g] = "running"
      BY DEF Reapable, TransactionInv, TypeOK
    <3>2. age[g] <= MaxHold /\ age[g] + MaxSkew > StaleAfter /\ age[g] \in Nat
      BY <3>1 DEF Reapable, TransactionInv, Holding, TypeOK
    <3> QED
      BY <3>2, SlotsAssumption, MarginAssumption
  <2>4. ASSUME NEW g \in Holders PROVE TransactionInv(g)'
    <3>1. CASE g = h
      BY <1>3, <2>3, <3>1 DEF Reap, TransactionInv, Holding, TypeOK
    <3>2. CASE g # h
      BY <1>3, <3>2 DEF Reap, TransactionInv, Holding, Room, HoldersOf, TypeOK
    <3> QED
      BY <3>1, <3>2
  <2> QED
    BY <2>1, <2>2, <2>4
<1>4. ASSUME NEW h \in Holders, Grant(h) PROVE Rest
  <2>1. LocksExclude'
    BY <1>4 DEF Grant, LocksExclude
  <2>2. RowsWithinCap'
    BY <1>4, FewerRowsKeepCaps DEF Grant
  <2>3. ASSUME NEW g \in Holders PROVE TransactionInv(g)'
    BY <1>4, <2>3, SlotsAssumption
       DEF Grant, TransactionInv, Holding, Room, HoldersOf, TypeOK
  <2> QED
    BY <2>1, <2>2, <2>3
<1>5. ASSUME NEW h \in Holders, Refuse(h) PROVE Rest
  <2>1. LocksExclude'
    BY <1>5 DEF Refuse, EndTransaction, LocksExclude, TypeOK
  <2>2. \A g \in Holders : rows'[g] \subseteq rows[g]
    BY <1>5 DEF Refuse, CommitRows
  <2>3. RowsWithinCap'
    BY <2>2, FewerRowsKeepCaps
  <2>4. ASSUME NEW g \in Holders PROVE TransactionInv(g)'
    <3>1. CASE g = h
      BY <1>5, <3>1 DEF Refuse, EndTransaction, Idle, TransactionInv, Holding, TypeOK
    <3>2. CASE g # h
      <4>1. /\ pc'[g] = pc[g] /\ wanted'[g] = wanted[g] /\ locked'[g] = locked[g]
            /\ reaped'[g] = reaped[g] /\ age'[g] = age[g]
            /\ \A x \in Holders : pc[x] = "idle" => pc'[x] = "idle"
        BY <1>5, <3>2 DEF Refuse, EndTransaction, Idle, TypeOK
      <4>2. pc[g] # "idle" => rows'[g] = rows[g]
        BY <1>5, <3>2 DEF Refuse, CommitRows, TransactionInv, TypeOK
      <4>3. pc[g] = "granted" => \A kind \in wanted[g] : Room(g, kind)'
        <5> SUFFICES ASSUME pc[g] = "granted", NEW kind \in wanted[g] PROVE Room(g, kind)'
          OBVIOUS
        <5>1. kind \in Kinds /\ Room(g, kind)
          BY DEF TransactionInv, TypeOK
        <5> QED
          BY <5>1, <4>1, <2>2, FewerRowsKeepRoom DEF HoldersOf
      <4>4. \A x \in reaped'[g] : pc'[x] = "idle"
        BY <4>1 DEF TransactionInv, TypeOK
      <4> QED
        BY <2>2, <4>1, <4>2, <4>3, <4>4 DEF TransactionInv, Holding, TypeOK
    <3> QED
      BY <3>1, <3>2
  <2> QED
    BY <2>1, <2>3, <2>4
<1>6. ASSUME NEW h \in Holders, Commit(h) PROVE Rest
  <2>1. LocksExclude'
    BY <1>6 DEF Commit, EndTransaction, LocksExclude, TypeOK
  <2>2. RowsWithinCap'
    BY <1>6, CommitKeepsCaps
  <2>3. ASSUME NEW g \in Holders PROVE TransactionInv(g)'
    <3>1. CASE g = h
      BY <1>6, <3>1 DEF Commit, CommitRows, EndTransaction, TransactionInv, Holding, TypeOK
    <3>2. CASE g # h
      <4>1. /\ pc'[g] = pc[g] /\ wanted'[g] = wanted[g] /\ locked'[g] = locked[g]
            /\ reaped'[g] = reaped[g] /\ age'[g] = age[g]
            /\ \A x \in Holders : pc[x] = "idle" => pc'[x] = "idle"
        BY <1>6, <3>2 DEF Commit, EndTransaction, TypeOK
      <4>2. rows'[g] \subseteq rows[g] /\ (pc[g] # "idle" => rows'[g] = rows[g])
        BY <1>6, <3>2 DEF Commit, CommitRows, TransactionInv, TypeOK
      <4>3. pc[g] = "granted" => \A kind \in wanted[g] : Room(g, kind)'
        <5> SUFFICES ASSUME pc[g] = "granted", NEW kind \in wanted[g] PROVE Room(g, kind)'
          OBVIOUS
        <5>1. kind \in Kinds /\ Room(g, kind)
          BY DEF TransactionInv, TypeOK
        <5>2. kind \notin wanted[h]
          BY <1>6, <3>2 DEF Commit, TransactionInv, LocksExclude
        <5>3. HoldersOf(kind)' \subseteq HoldersOf(kind)
          BY <1>6, <5>2 DEF Commit, CommitRows, HoldersOf
        <5> QED
          BY <5>1, <5>3, <4>1, FewerRowsKeepRoom
      <4>4. \A x \in reaped'[g] : pc'[x] = "idle"
        BY <4>1 DEF TransactionInv, TypeOK
      <4> QED
        BY <4>1, <4>2, <4>3, <4>4 DEF TransactionInv, Holding, TypeOK
    <3> QED
      BY <3>1, <3>2
  <2> QED
    BY <2>1, <2>2, <2>3
<1>7. ASSUME NEW h \in Holders, Abort(h) PROVE Rest
  <2>1. LocksExclude'
    BY <1>7 DEF Abort, EndTransaction, LocksExclude, TypeOK
  <2>2. RowsWithinCap'
    BY <1>7, FewerRowsKeepCaps DEF Abort
  <2>3. ASSUME NEW g \in Holders PROVE TransactionInv(g)'
    BY <1>7, <2>3 DEF Abort, EndTransaction, Idle, TransactionInv, Holding, Room, HoldersOf, TypeOK
  <2> QED
    BY <2>1, <2>2, <2>3
<1>8. ASSUME NEW h \in Holders, Release(h) \/ Leak(h) PROVE Rest
  <2>1. LocksExclude'
    BY <1>8 DEF Release, Leak, LocksExclude
  <2>2. \A g \in Holders : rows'[g] \subseteq rows[g]
    BY <1>8 DEF Release, Leak, TypeOK
  <2>3. RowsWithinCap'
    BY <2>2, FewerRowsKeepCaps
  <2>4. ASSUME NEW g \in Holders PROVE TransactionInv(g)'
    <3>1. CASE g = h
      BY <1>8, <3>1 DEF Release, Leak, Idle, TransactionInv, Holding, TypeOK
    <3>2. CASE g # h
      <4>1. /\ pc'[g] = pc[g] /\ wanted'[g] = wanted[g] /\ locked'[g] = locked[g]
            /\ reaped'[g] = reaped[g] /\ age'[g] = age[g] /\ rows'[g] = rows[g]
            /\ \A x \in Holders : pc[x] = "idle" => pc'[x] = "idle"
        BY <1>8, <3>2 DEF Release, Leak, Idle, TypeOK
      <4>2. pc[g] = "granted" => \A kind \in wanted[g] : Room(g, kind)'
        <5> SUFFICES ASSUME pc[g] = "granted", NEW kind \in wanted[g] PROVE Room(g, kind)'
          OBVIOUS
        <5>1. kind \in Kinds /\ Room(g, kind)
          BY DEF TransactionInv, TypeOK
        <5> QED
          BY <5>1, <4>1, <2>2, FewerRowsKeepRoom DEF HoldersOf
      <4>3. \A x \in reaped'[g] : pc'[x] = "idle"
        BY <4>1 DEF TransactionInv, TypeOK
      <4> QED
        BY <4>1, <4>2, <4>3 DEF TransactionInv, Holding, TypeOK
    <3> QED
      BY <3>1, <3>2
  <2> QED
    BY <2>1, <2>3, <2>4
<1>9. ASSUME Tick PROVE Rest
  <2>1. LocksExclude'
    BY <1>9 DEF Tick, LocksExclude
  <2>2. RowsWithinCap'
    BY <1>9, FewerRowsKeepCaps DEF Tick
  <2>3. ASSUME NEW g \in Holders PROVE TransactionInv(g)'
    <3>1. Holding(g)' => age'[g] <= MaxHold
      BY <1>9, SlotsAssumption DEF Tick, Holding, TypeOK, Oldest
    <3> QED
      BY <1>9, <3>1 DEF Tick, TransactionInv, Holding, Room, HoldersOf, TypeOK
  <2> QED
    BY <2>1, <2>2, <2>3
<1>10. ASSUME UNCHANGED vars PROVE Rest
  <2>1. RowsWithinCap'
    BY <1>10, FewerRowsKeepCaps DEF vars
  <2> QED
    BY <1>10, <2>1 DEF vars, LocksExclude, TransactionInv, Holding, Room, HoldersOf
<1>11. Rest
  BY <1>1, <1>2, <1>3, <1>4, <1>5, <1>6, <1>7, <1>8, <1>9, <1>10 DEF Next, Transact
<1> QED
  BY <1>0, <1>11 DEF IInv
-----------------------------------------------------------------------------
(* The theorems.                                                           *)

\* IInv, and the types with it, hold in every reachable state.
THEOREM Invariant == Spec => []IInv
<1>1. Init => IInv
  BY InitInv
<1>2. IInv /\ [Next]_vars => IInv'
  BY NextInv
<1> QED
  BY <1>1, <1>2, PTL DEF Spec

\* No scan that is running has lost a row to a reaper, whatever the skew
\* the margin allows for (scanSlotStaleAfter, handler.go:236-252).
THEOREM RunningScansKeepSlots == Spec => []NeverReapedAlive
<1>1. IInv => NeverReapedAlive
  BY DEF IInv, TransactionInv, NeverReapedAlive
<1> QED
  BY <1>1, Invariant, PTL

\* The scans running never exceed a cap (ScanLimits, handler.go:143-163):
\* each of them holds its rows, and the rows are within the cap.
THEOREM CapsHold == Spec => []CapRespected
<1>1. IInv => CapRespected
  <2> SUFFICES ASSUME IInv, NEW kind \in Kinds, Cap[kind] # 0
               PROVE  Cardinality(RunningOf(kind)) <= Cap[kind]
    BY DEF CapRespected
  <2>1. RunningOf(kind) \subseteq HoldersOf(kind) /\ HoldersOf(kind) \subseteq Holders
    BY DEF IInv, TransactionInv, RunningOf, HoldersOf
  <2>2. Cardinality(RunningOf(kind)) <= Cardinality(HoldersOf(kind))
        /\ Cardinality(RunningOf(kind)) \in Nat /\ Cardinality(HoldersOf(kind)) \in Nat
    BY <2>1, HolderSets
  <2>3. Cardinality(HoldersOf(kind)) <= Cap[kind] /\ Cap[kind] \in Nat
    BY SlotsAssumption DEF IInv, RowsWithinCap
  <2> QED
    BY <2>2, <2>3
<1> QED
  BY <1>1, Invariant, PTL

LEMMA SameCount == ASSUME NEW S PROVE Pool!Cardinality(S) = Cardinality(S)
  BY Zenon DEF Pool!Cardinality, Cardinality

\* Every step of a transaction maps to an atomic acquisition or release of
\* SlotPool, or to nothing.
LEMMA StepRefines == IInv /\ [Next]_vars => [Pool!Next]_rows
<1> SUFFICES ASSUME IInv, [Next]_vars, rows' # rows PROVE Pool!Next
  BY DEF IInv
<1>1. ASSUME NEW h \in Holders, Commit(h) PROVE Pool!Take
  <2> DEFINE gone == reaped[h] \ {h}
  <2>1. gone \in SUBSET Holders /\ wanted[h] \in SUBSET Kinds
    BY DEF IInv, TypeOK
  <2>2. rows[h] = {}
    BY <1>1 DEF IInv, TransactionInv, Commit
  <2>3. rows' = [Pool!Give(gone) EXCEPT ![h] = wanted[h]]
    BY <1>1 DEF Commit, CommitRows, Pool!Give
  <2>4. \A kind \in wanted[h] :
          Cap[kind] = 0 \/ Pool!Cardinality(Pool!HoldersOf(kind)') <= Cap[kind]
    <3>1. RowsWithinCap'
      BY <1>1, CommitKeepsCaps
    <3> QED
      BY <3>1, <2>1, SameCount DEF RowsWithinCap, HoldersOf, Pool!HoldersOf
  <2> QED
    BY <2>1, <2>2, <2>3, <2>4 DEF Pool!Take
<1>2. ASSUME NEW h \in Holders, Refuse(h) PROVE Pool!Release
  <2>1. reaped[h] \cup {h} \in SUBSET Holders
    BY DEF IInv, TypeOK
  <2>2. rows' = Pool!Give(reaped[h] \cup {h})
    BY <1>2 DEF Refuse, CommitRows, Pool!Give
  <2> QED
    BY <2>1, <2>2 DEF Pool!Release
<1>3. ASSUME NEW h \in Holders, Release(h) PROVE Pool!Release
  <2>1. rows' = Pool!Give({h})
    BY <1>3 DEF Release, Pool!Give, IInv, TypeOK
  <2> QED
    BY <2>1 DEF Pool!Release
<1> QED
  BY <1>1, <1>2, <1>3
     DEF Next, Transact, vars, Begin, Lock, Reap, Grant, Abort, Leak, Tick, Pool!Next

\* The transactional protocol implements the atomic one: to anyone who
\* reads table scan_slots, acquisitions are all or nothing and never
\* beyond a cap.
THEOREM RefinesPool == Spec => PoolSpec
<1>1. Init => Pool!Init
  BY DEF Init, Pool!Init
<1>2. IInv /\ [Next]_vars => [Pool!Next]_rows
  BY StepRefines
<1> QED
  BY <1>1, <1>2, Invariant, PTL DEF Spec, PoolSpec, Pool!Spec
=============================================================================
