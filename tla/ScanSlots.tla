----------------------------- MODULE ScanSlots ------------------------------
(***************************************************************************)
(* The cluster-wide cap on concurrent scans: rows of table scan_slots,     *)
(* taken by one transaction of AcquireScanSlots (postgres_ops.go) and      *)
(* deleted when the scan ends (handler.go, scan.go).  A pod that dies, or  *)
(* a delete that fails, leaves rows behind; a later acquisition reaps      *)
(* those older than the scan timeout plus a margin, by its own clock.      *)
(*                                                                         *)
(* A holder id stands for one scan attempt; once it has left no row it is  *)
(* used again for a later attempt.  Ids are random 64-bit numbers: that no *)
(* two attempts share one is assumed.                                      *)
(***************************************************************************)
EXTENDS Naturals, FiniteSets

CONSTANTS
  Holders,     \* holder ids in use together
  Kinds,       \* the pseudo-kind "*" of the global cap, and scanner kinds
  Cap,         \* [Kinds -> Nat], 0 for unlimited
  Rank,        \* [Kinds -> Nat]: the order sort.Strings puts kinds in
  Requests,    \* the sets of kinds a scan asks for
  StaleAfter,  \* age at which a row counts as abandoned
  MaxHold,     \* longest a scan holds its slots: timeout and final writes
  MaxSkew,     \* largest difference between two replicas' clocks
  MaxFailures  \* bound: failed transactions, failed deletes and crashes

ASSUME SlotsAssumption ==
  /\ IsFiniteSet(Holders)
  /\ Cap \in [Kinds -> Nat] /\ Rank \in [Kinds -> Nat]
  /\ \A k, l \in Kinds : Rank[k] = Rank[l] => k = l
  /\ Requests \subseteq SUBSET Kinds
  /\ StaleAfter \in Nat /\ MaxHold \in Nat /\ MaxSkew \in Nat /\ MaxFailures \in Nat

\* scanSlotStaleAfter adds scanSlotReapMargin to the scan timeout: enough
\* for what a scan does after its timeout and for the clocks' skew.
ASSUME MarginAssumption == MaxHold + MaxSkew <= StaleAfter

VARIABLES
  pc,          \* where each attempt is
  wanted,      \* the kinds it asks for, deduplicated
  locked,      \* advisory locks its open transaction holds
  reaped,      \* holders whose rows its open transaction has deleted
  rows,        \* committed rows: [Holders -> SUBSET Kinds]
  age,         \* time since the holder's acquired_at (0 if it has none), saturating
  failures     \* so far

vars == <<pc, wanted, locked, reaped, rows, age, failures>>

Oldest == StaleAfter + MaxSkew + 1         \* where ages saturate

TypeOK ==
  /\ pc \in [Holders -> {"idle", "locking", "counting", "granted", "running"}]
  /\ wanted \in [Holders -> SUBSET Kinds]
  /\ locked \in [Holders -> SUBSET Kinds]
  /\ reaped \in [Holders -> SUBSET Holders]
  /\ rows \in [Holders -> SUBSET Kinds]
  /\ age \in [Holders -> 0..Oldest]
  /\ failures \in Nat

Init ==
  /\ pc = [h \in Holders |-> "idle"]
  /\ wanted = [h \in Holders |-> {}]
  /\ locked = [h \in Holders |-> {}]
  /\ reaped = [h \in Holders |-> {}]
  /\ rows = [h \in Holders |-> {}]
  /\ age = [h \in Holders |-> 0]
  /\ failures = 0

\* Rows of a kind, as a statement outside the transactions that deleted
\* some of them counts them.
HoldersOf(kind) == {g \in Holders : kind \in rows[g]}

\* A holder id newScanHolderID may return.
Fresh(h) == rows[h] = {} /\ \A g \in Holders : h \notin reaped[g]

\* tryAcquireScanSlots opens the transaction.
Begin(h) ==
  /\ pc[h] = "idle"
  /\ Fresh(h)
  /\ \E kinds \in Requests : wanted' = [wanted EXCEPT ![h] = kinds]
  /\ pc' = [pc EXCEPT ![h] = "locking"]
  /\ UNCHANGED <<locked, reaped, rows, age, failures>>

\* A bug: counting without the advisory lock.
UnlockedAlways(kind) == TRUE

\* Nobody holds the kind's advisory lock.
Unlocked(kind) == \A g \in Holders : kind \notin locked[g]

\* pg_advisory_xact_lock on the next kind, in sorted order.
Lock(h) ==
  /\ pc[h] = "locking"
  /\ \E kind \in wanted[h] \ locked[h] :
       /\ \A other \in wanted[h] \ locked[h] : Rank[kind] <= Rank[other]
       /\ Unlocked(kind)
       /\ locked' = [locked EXCEPT ![h] = @ \cup {kind}]
  /\ UNCHANGED <<pc, wanted, reaped, rows, age, failures>>

\* A bug: the threshold misses the margin's share of clock skew.
ReapableTooSoon(g) == rows[g] # {} /\ age[g] + MaxSkew + MaxSkew + 1 > StaleAfter

\* A bug: no reaping.
NeverReapable(g) == FALSE

\* Rows that some replica's clock shows to be older than StaleAfter, and
\* those that every replica's does.
Reapable(g)  == rows[g] # {} /\ age[g] + MaxSkew > StaleAfter
Abandoned(g) == Reapable(g) /\ age[g] > StaleAfter + MaxSkew

\* Every lock is held: delete the rows that look abandoned.
Reap(h) ==
  /\ pc[h] = "locking"
  /\ wanted[h] \subseteq locked[h]
  /\ \E stale \in SUBSET {g \in Holders : Reapable(g)} :
       /\ \A g \in Holders : Abandoned(g) => g \in stale
       /\ reaped' = [reaped EXCEPT ![h] = stale]
  /\ pc' = [pc EXCEPT ![h] = "counting"]
  /\ UNCHANGED <<wanted, locked, rows, age, failures>>

\* A bug: one scan more than the cap.
RoomForOneMore(h, kind) ==
  Cap[kind] = 0 \/ Cardinality(HoldersOf(kind) \ reaped[h]) <= Cap[kind]

\* The kind is unlimited, or the transaction counts fewer rows than its cap.
Room(h, kind) ==
  Cap[kind] = 0 \/ Cardinality(HoldersOf(kind) \ reaped[h]) < Cap[kind]

\* A bug: a session lock, which outlives its transaction.
EndKeepingLocks(h) ==
  /\ locked' = locked
  /\ reaped' = [reaped EXCEPT ![h] = {}]

\* The end of a transaction: its locks go, deletions still pending too.
EndTransaction(h) ==
  /\ locked' = [locked EXCEPT ![h] = {}]
  /\ reaped' = [reaped EXCEPT ![h] = {}]

\* Its deletions become visible, and `kinds` are the rows h holds then.
CommitRows(h, kinds) ==
  rows' = [g \in Holders |-> IF g = h THEN kinds
                             ELSE IF g \in reaped[h] THEN {} ELSE rows[g]]

\* The attempt is over; the request it stood for has its answer.
Idle(h) ==
  /\ pc' = [pc EXCEPT ![h] = "idle"]
  /\ wanted' = [wanted EXCEPT ![h] = {}]

\* Every kind has room: acquired_at is read.
Grant(h) ==
  /\ pc[h] = "counting"
  /\ \A kind \in wanted[h] : Room(h, kind)
  /\ pc' = [pc EXCEPT ![h] = "granted"]
  /\ age' = [age EXCEPT ![h] = 0]
  /\ UNCHANGED <<wanted, locked, reaped, rows, failures>>

\* Some kind is full: the reaping is committed, the request answered 429.
Refuse(h) ==
  /\ pc[h] = "counting"
  /\ \E kind \in wanted[h] : ~Room(h, kind)
  /\ CommitRows(h, {})
  /\ EndTransaction(h)
  /\ Idle(h)
  /\ UNCHANGED <<age, failures>>

\* One row per kind is inserted and the transaction commits.
Commit(h) ==
  /\ pc[h] = "granted"
  /\ CommitRows(h, wanted[h])
  /\ EndTransaction(h)
  /\ pc' = [pc EXCEPT ![h] = "running"]
  /\ UNCHANGED <<wanted, age, failures>>

\* A statement fails, or the pod dies inside the transaction: rollback.
Abort(h) ==
  /\ pc[h] \in {"locking", "counting", "granted"}
  /\ failures < MaxFailures
  /\ failures' = failures + 1
  /\ EndTransaction(h)
  /\ Idle(h)
  /\ UNCHANGED <<rows, age>>

\* The scan ends, on whatever path, a panic included: ReleaseScanSlots.
Release(h) ==
  /\ pc[h] = "running"
  /\ rows' = [rows EXCEPT ![h] = {}]
  /\ Idle(h)
  /\ UNCHANGED <<locked, reaped, age, failures>>

\* The delete fails (logged, never retried) or the pod dies scanning.
Leak(h) ==
  /\ pc[h] = "running"
  /\ failures < MaxFailures
  /\ failures' = failures + 1
  /\ Idle(h)
  /\ UNCHANGED <<locked, reaped, rows, age>>

Holding(h) == pc[h] \in {"granted", "running"}

\* Time passes; a scan is over within MaxHold of its acquisition.
Tick ==
  /\ \A h \in Holders : Holding(h) => age[h] < MaxHold
  /\ age' = [h \in Holders |->
               IF rows[h] = {} /\ ~Holding(h) THEN 0
               ELSE IF age[h] < Oldest THEN age[h] + 1 ELSE Oldest]
  /\ UNCHANGED <<pc, wanted, locked, reaped, rows, failures>>

Transact(h) == Lock(h) \/ Reap(h) \/ Grant(h) \/ Refuse(h) \/ Commit(h)

Next ==
  \/ \E h \in Holders : \/ Begin(h)
                        \/ Transact(h)
                        \/ Abort(h)
                        \/ Release(h)
                        \/ Leak(h)
  \/ Tick

Spec == Init /\ [][Next]_vars

\* An open transaction proceeds and a scan ends (its context expires);
\* time passes; scans keep being requested, as the sweep CronJob does.
\* Postgres queues the waiters of an advisory lock: strong fairness.
Fairness ==
  /\ \A h \in Holders : /\ SF_vars(Lock(h))
                        /\ WF_vars(Transact(h))
                        /\ WF_vars(Release(h))
  /\ WF_vars(Tick)
  /\ WF_vars(\E h \in Holders : Begin(h))

FairSpec == Spec /\ Fairness

-----------------------------------------------------------------------------
(* Properties.                                                             *)

RunningOf(kind) == {h \in Holders : pc[h] = "running" /\ kind \in wanted[h]}

\* The scans really running never exceed a cap, crashes, failed releases,
\* reaping and clock skew notwithstanding: the promise of ScanLimits
\* (handler.go:143-163) and of scanSlotStaleAfter's first bullet.
CapRespected ==
  \A kind \in Kinds : Cap[kind] # 0 => Cardinality(RunningOf(kind)) <= Cap[kind]

\* No running scan loses a row to the reaper (scanSlotStaleAfter).
NeverReapedAlive ==
  \A h \in Holders : pc[h] = "running" => rows[h] = wanted[h]

\* The inductive invariant behind both: what an open transaction knows
\* stays true until it commits, because it holds the locks of its kinds and
\* the reaper only ever picks attempts that are over.
LocksExclude ==
  \A g, h \in Holders : g # h => locked[g] \cap locked[h] = {}

TransactionInv(h) ==
  /\ pc[h] \in {"idle", "running"} => locked[h] = {}
  /\ pc[h] \in {"idle", "locking", "running"} => reaped[h] = {}
  /\ pc[h] \in {"counting", "granted"} => wanted[h] \subseteq locked[h]
  /\ pc[h] \in {"locking", "counting", "granted"} => rows[h] = {}
  /\ pc[h] = "running" => rows[h] = wanted[h]
  /\ pc[h] = "granted" => \A kind \in wanted[h] : Room(h, kind)
  /\ Holding(h) => age[h] <= MaxHold
  /\ \A g \in reaped[h] : pc[g] = "idle"

RowsWithinCap ==
  \A kind \in Kinds : Cap[kind] # 0 => Cardinality(HoldersOf(kind)) <= Cap[kind]

IInv ==
  /\ TypeOK
  /\ LocksExclude
  /\ RowsWithinCap
  /\ \A h \in Holders : TransactionInv(h)

\* The transactions look atomic: table scan_slots behaves as SlotPool says.
Pool == INSTANCE SlotPool
  WITH Holders <- Holders, Kinds <- Kinds, Cap <- Cap, rows <- rows
PoolSpec == Pool!Spec

\* Rows left behind by a dead pod or a failed delete are reaped in the end,
\* so they cannot saturate a cap for good (postgres_ops.go:56-58).
LeaksAreReaped ==
  \A h \in Holders : pc[h] = "idle" /\ rows[h] # {} ~> rows[h] = {}

\* Whoever waits for the locks gets an answer: sorted locking does not
\* deadlock, and no transaction ends without giving its locks back.
Answered == \A h \in Holders : pc[h] = "locking" ~> pc[h] # "locking"
=============================================================================
