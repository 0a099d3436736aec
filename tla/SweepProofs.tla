---------------------------- MODULE SweepProofs -----------------------------
(***************************************************************************)
(* The reclaim lists nothing that a round has been scanning for no longer  *)
(* than staleScanningAfter, and prune spares what is being scanned,        *)
(* whatever the fleet, the batch, the paging and the faults: both go by    *)
(* updated_at, which the start of a round moves.  What prune needs of the  *)
(* retention, which the code does not enforce, is its theorem's assumption.*)
(***************************************************************************)
EXTENDS Sweep, TLAPS

\* What the steps below need to know of the variables' types.
Shape ==
  /\ idle \in [Artifacts -> Nat]
  /\ status \in [Artifacts -> Statuses]
  /\ DOMAIN slot = Slots
  /\ \A s \in Slots :
       \/ slot[s] = NoRound
       \/ /\ slot[s] = [art |-> slot[s].art, mode |-> slot[s].mode,
                        prior |-> slot[s].prior, age |-> slot[s].age]
          /\ slot[s].age \in Nat
          /\ slot[s].prior \in Statuses \ {"gone"} \/ slot[s].art \notin Artifacts

Inv == Shape /\ RoundsAreFresh

LEMMA IdleCapNat == IdleCap \in Nat /\ SinceCap \in Nat
BY SweepAssumption DEF IdleCap, SinceCap, Larger

LEMMA InitInv == Init => Inv
<1> SUFFICES ASSUME Init PROVE Inv OBVIOUS
<1>1. Shape
  BY SweepAssumption DEF Init, Shape, NoRound
<1>2. RoundsAreFresh
  BY SweepAssumption DEF Init, RoundsAreFresh, Rounds, NoRound, Artifacts
<1> QED BY <1>1, <1>2 DEF Inv

\* What a step may do to the slots: keep one, free it, let its round age, or
\* give it a new round.
LEMMA StartFresh ==
  ASSUME Inv, NEW a, NEW mode, NEW s \in Slots, StartRound(a, mode, s),
         status[a] # "gone"
  PROVE  Inv'
<1> DEFINE new == [art |-> a, mode |-> mode, prior |-> status[a], age |-> 0]
<1>1. idle' \in [Artifacts -> Nat]
  BY DEF Inv, Shape, StartRound
<1>2. status' \in [Artifacts -> Statuses]
  BY DEF Inv, Shape, StartRound, Statuses
<1>3. DOMAIN slot' = Slots /\ slot'[s] = new /\ \A t \in Slots \ {s} : slot'[t] = slot[t]
  BY DEF Inv, Shape, StartRound
<1>4. a \in Artifacts => status[a] \in Statuses \ {"gone"}
  BY DEF Inv, Shape
<1>5. Shape'
  BY <1>1, <1>2, <1>3, <1>4 DEF Inv, Shape
<1>6. RoundsAreFresh'
  <2> SUFFICES ASSUME NEW b \in Artifacts, NEW t \in Slots, slot'[t].art = b
               PROVE  slot'[t].age <= ScanTimeout /\ idle'[b] <= slot'[t].age
    BY DEF RoundsAreFresh, Rounds
  <2>1. CASE t = s
    BY <1>3, <2>1, SweepAssumption DEF Inv, Shape, StartRound
  <2>2. CASE t # s
    <3>1. slot'[t] = slot[t] /\ t \in Rounds(b)
      BY <1>3, <2>2 DEF Rounds
    <3>2. slot[t].age <= ScanTimeout /\ idle[b] <= slot[t].age
      BY <3>1 DEF Inv, RoundsAreFresh
    <3>3. slot[t].age \in Nat
      BY SMTT(30), <3>1, SweepAssumption DEF Inv, Shape, Rounds, Artifacts, NoRound
    <3>4. idle'[b] = idle[b] \/ idle'[b] = 0
      BY DEF Inv, Shape, StartRound
    <3> QED BY <3>1, <3>2, <3>3, <3>4
  <2> QED BY <2>1, <2>2
<1> QED BY <1>5, <1>6 DEF Inv

\* Rounds end, clients touch an artifact, prune removes one: no round is new
\* or older, and no updated_at is older.
LEMMA NothingOlder ==
  ASSUME Inv, idle' \in [Artifacts -> Nat], status' \in [Artifacts -> Statuses],
         DOMAIN slot' = Slots,
         \A s \in Slots : slot'[s] = slot[s] \/ slot'[s] = NoRound,
         \A a \in Artifacts : idle'[a] = idle[a] \/ idle'[a] = 0
  PROVE  Inv'
<1>1. Shape'
  BY DEF Inv, Shape, NoRound
<1>2. RoundsAreFresh'
  <2> SUFFICES ASSUME NEW b \in Artifacts, NEW t \in Slots, slot'[t].art = b
               PROVE  slot'[t].age <= ScanTimeout /\ idle'[b] <= slot'[t].age
    BY DEF RoundsAreFresh, Rounds
  <2>1. slot'[t] = slot[t]
    BY SMTT(30), SweepAssumption DEF Artifacts, NoRound
  <2>2. slot[t].age \in Nat /\ t \in Rounds(b)
    BY SMTT(30), <2>1, SweepAssumption DEF Inv, Shape, Rounds, Artifacts, NoRound
  <2> QED BY <2>1, <2>2 DEF Inv, RoundsAreFresh
<1> QED BY <1>1, <1>2 DEF Inv

\* Time passes only while every round has some left.
LEMMA TickFresh == ASSUME Inv, Tick PROVE Inv'
<1>1. idle' \in [Artifacts -> Nat] /\ \A a \in Artifacts : idle'[a] <= idle[a] + 1
  BY IdleCapNat DEF Inv, Shape, Tick
<1>2. status' = status
  BY DEF Tick
<1>3. DOMAIN slot' = Slots
      /\ \A s \in Slots : slot'[s] = IF slot[s] = NoRound THEN NoRound
                                     ELSE [slot[s] EXCEPT !.age = @ + 1]
  BY DEF Tick
<1>4. \A s \in Slots : slot[s] # NoRound =>
        /\ slot'[s] = [art |-> slot[s].art, mode |-> slot[s].mode,
                       prior |-> slot[s].prior, age |-> slot[s].age + 1]
        /\ slot'[s].art = slot[s].art /\ slot'[s].age = slot[s].age + 1
        /\ slot[s].age \in Nat
  BY <1>3 DEF Inv, Shape
<1>5. Shape'
  BY <1>1, <1>2, <1>3, <1>4 DEF Inv, Shape
<1>6. RoundsAreFresh'
  <2> SUFFICES ASSUME NEW b \in Artifacts, NEW t \in Slots, slot'[t].art = b
               PROVE  slot'[t].age <= ScanTimeout /\ idle'[b] <= slot'[t].age
    BY DEF RoundsAreFresh, Rounds
  <2>1. slot[t] # NoRound
    BY <1>3, SweepAssumption DEF Artifacts, NoRound
  <2>2. slot[t].art = b /\ slot'[t].age = slot[t].age + 1 /\ slot[t].age \in Nat
    BY <1>4, <2>1
  <2>3. slot[t].age < ScanTimeout
    BY <2>1 DEF Tick
  <2>4. idle[b] <= slot[t].age
    BY <2>2 DEF Inv, RoundsAreFresh, Rounds
  <2>5. idle[b] \in Nat
    BY DEF Inv, Shape
  <2> QED BY <1>1, <2>2, <2>3, <2>4, <2>5, SweepAssumption
<1> QED BY <1>5, <1>6 DEF Inv

\* Idle times are kept by everything but these.
LEMMA InvStep == Inv /\ [Next]_vars => Inv'
<1> SUFFICES ASSUME Inv, [Next]_vars PROVE Inv'
  OBVIOUS
<1> USE DEF Statuses
<1>0. /\ idle \in [Artifacts -> Nat] /\ status \in [Artifacts -> Statuses] /\ DOMAIN slot = Slots
  BY DEF Inv, Shape
<1>1. ASSUME UNCHANGED <<idle, status, slot>> PROVE Inv'
  BY <1>0, <1>1, NothingOlder
<1>2. CASE Sweeping
  <2>1. CASE \E w \in 1..Concurrency, s \in Slots : Posted(w, s)
    BY <2>1, StartFresh DEF Posted, Accepted
  <2>2. CASE ~ \E w \in 1..Concurrency, s \in Slots : Posted(w, s)
    BY <1>1, <1>2, <2>2 DEF Sweeping, Working, StartRun, ListPage, Pick, EndRun, Take,
       Saturated, Failed, Polled, fleet
  <2> QED BY <2>1, <2>2
<1>3. CASE Serving
  <2> PICK s \in Slots : FinishRound(s)
    BY <1>3 DEF Serving
  <2>1. slot' = [slot EXCEPT ![s] = NoRound] /\ slot[s] # NoRound
    BY DEF FinishRound
  <2>2. CASE status[slot[s].art] = "gone"
    BY <1>0, <2>1, <2>2, NothingOlder DEF FinishRound, fleet
  <2>3. CASE status[slot[s].art] # "gone"
    <3>1. idle' = [idle EXCEPT ![slot[s].art] = 0]
      BY <2>3 DEF FinishRound
    <3>2. PICK o \in Outcomes(slot[s]) : status' = [status EXCEPT ![slot[s].art] = o]
      BY <2>3 DEF FinishRound
    <3>3. slot[s].art \in Artifacts => o \in Statuses
      BY <2>1 DEF Outcomes, Inv, Shape
    <3>4. status' \in [Artifacts -> Statuses]
      BY <1>0, <3>2, <3>3
    <3>5. idle' \in [Artifacts -> Nat] /\ \A a \in Artifacts : idle'[a] = idle[a] \/ idle'[a] = 0
      BY <1>0, <3>1
    <3> QED BY <1>0, <2>1, <3>4, <3>5, NothingOlder
  <2> QED BY <2>2, <2>3
<1>4. CASE Tick
  BY <1>4, TickFresh
<1>5. CASE Prune
  BY <1>0, <1>5, NothingOlder DEF Prune
<1>6. CASE ListFails \/ CrashSweep
  BY <1>1, <1>6 DEF ListFails, CrashSweep, fleet
<1>7. CASE CrashAPI
  BY <1>0, <1>7, NothingOlder DEF CrashAPI, fleet
<1>8. CASE \E s \in Slots : LoseRound(s)
  BY <1>0, <1>8, NothingOlder DEF LoseRound, fleet
<1>9. CASE \E s \in Slots : \E a \in Artifacts : ScanByHand(a, s)
  BY <1>9, StartFresh DEF ScanByHand
<1>10. CASE \E a \in Artifacts : Register(a) \/ Touch(a)
  BY <1>0, <1>10, NothingOlder DEF Register, Touch
<1>11. CASE \E w \in 1..Concurrency : LoseAnswer(w)
  <2> PICK w \in 1..Concurrency : LoseAnswer(w)
    BY <1>11
  <2>1. CASE UNCHANGED <<fleet, slot>>
    BY <1>1, <2>1 DEF fleet
  <2>2. CASE \E s \in Slots : Accepted(w, s)
    BY <2>2, StartFresh DEF Accepted
  <2> QED BY <2>1, <2>2 DEF LoseAnswer
<1>12. CASE UNCHANGED vars
  BY <1>1, <1>12 DEF vars, fleet
<1> QED
  BY <1>2, <1>3, <1>4, <1>5, <1>6, <1>7, <1>8, <1>9, <1>10, <1>11, <1>12 DEF Next

LEMMA Invariance == Spec => []Inv
BY InitInv, InvStep, PTL DEF Spec

\* An artifact's updated_at is never older than a round that scans it.
THEOREM Freshness == Spec => []RoundsAreFresh
BY Invariance, PTL DEF Inv

\* What a step may add to what the run has listed: the rows of a page its
\* pass wants.
LEMMA ListedIsWanted ==
  ASSUME [Next]_vars, NEW a, a \in Known', a \notin Known
  PROVE  run.phase = "list" /\ Wanted(a)
<1>1. ASSUME UNCHANGED lists PROVE FALSE
  BY <1>1 DEF Known, lists
<1>2. ASSUME page' = <<>>, found' = <<>> PROVE FALSE
  BY <1>2 DEF Known
<1>3. CASE ListPage
  <2> DEFINE rows == Rows(Lists(run.mode)[run.list])
             next == First(SubSeq(rows, run.offset + 1, Len(rows)), PageSize)
             kept == {b \in ToSet(next) : Wanted(b)}
             read == FirstOf(page, [b \in kept |-> last[b]])
  <2>1. run.phase = "list" /\ (NextList(read) \/ (page' = read /\ UNCHANGED found))
    BY <1>3 DEF ListPage
  <2> HIDE DEF kept
  <2>2. DOMAIN read = DOMAIN page \cup kept
    BY DEF FirstOf
  <2>3. DOMAIN FirstOf(found, read) = DOMAIN found \cup DOMAIN read
    BY DEF FirstOf
  <2>4. Known' = Known \cup kept
    BY <2>1, <2>2, <2>3 DEF Known, NextList
  <2>5. a \in kept
    BY <2>4
  <2> QED BY <2>1, <2>5 DEF kept
<1>4. CASE ListFails
  <2>1. DOMAIN <<>> = {}
    OBVIOUS
  <2>2. DOMAIN FirstOf(found, <<>>) = DOMAIN found
    BY <2>1 DEF FirstOf
  <2>3. page' = <<>> /\ (found' = found \/ found' = FirstOf(found, <<>>))
    BY <1>4 DEF ListFails, NextList
  <2> QED BY <2>1, <2>2, <2>3 DEF Known
<1>5. CASE Serving
  <2> PICK s \in Slots : FinishRound(s)
    BY <1>5 DEF Serving
  <2>1. ASSUME NEW f, NEW g PROVE DOMAIN Compact(f, g) = DOMAIN f
    BY DEF Compact
  <2>2. UNCHANGED lists \/ \E used : page' = Compact(page, used) /\ found' = Compact(found, used)
    BY DEF FinishRound, Stamp, fleet
  <2> QED BY <1>1, <2>1, <2>2 DEF Known
<1>6. CASE UNCHANGED vars
  BY <1>1, <1>6 DEF vars, sweep
<1>7. CASE Sweeping
  BY <1>1, <1>2, <1>3, <1>7 DEF Sweeping, Working, StartRun, Pick, EndRun, Stop, Take, Saturated,
     Failed, Polled, Posted
<1> QED BY <1>1, <1>2, <1>4, <1>5, <1>6, <1>7
  DEF Next, Stop, CrashSweep, CrashAPI, LoseRound, LoseAnswer, ScanByHand, Register, Touch, Tick,
      Prune, sweep

\* The "scanning" pass lists no artifact while a round not older than
\* staleScanningAfter works on it, whatever the scan timeout: where that is
\* longer, a round past it may be listed (main.go:1916-1941).
THEOREM ReclaimsAreOverdue == Spec => ReclaimsOnlyOverdue
<1>1. ASSUME Inv, [Next]_vars, NEW a \in Artifacts, Reclaims(a), NEW s \in Rounds(a)
      PROVE  slot[s].age > StaleAfter
  <2>1. Lists("full")[2] = "scanning"
    BY DEF Lists
  <2>2. run.mode = "full" /\ run.list = 2 /\ Wanted(a)
    BY <1>1, ListedIsWanted DEF Reclaims
  <2>3. idle[a] > StaleAfter
    BY <2>1, <2>2 DEF Wanted, Stuck
  <2>4. idle[a] <= slot[s].age
    BY <1>1 DEF Inv, RoundsAreFresh
  <2>5. slot[s].age \in Nat /\ idle[a] \in Nat
    BY SMTT(30), <1>1, SweepAssumption DEF Inv, Shape, Rounds, Artifacts, NoRound
  <2> QED BY <2>3, <2>4, <2>5, SweepAssumption
<1>2. Inv /\ [Next]_vars => OverdueOnly
  BY <1>1 DEF OverdueOnly
<1> QED BY <1>2, Invariance, PTL DEF Spec, ReclaimsOnlyOverdue

\* With retention off or no shorter than the scan timeout, prune deletes no
\* artifact that a round is scanning.
THEOREM PruneIsSafe ==
  ASSUME Retention = 0 \/ ScanTimeout <= Retention
  PROVE  Spec => PruneSparesScans
<1>1. ASSUME Inv, [Next]_vars, NEW a \in Artifacts, status[a] # "gone", status'[a] = "gone"
      PROVE  Rounds(a) = {}
  <2>0. status \in [Artifacts -> Statuses]
    BY <1>1 DEF Inv, Shape
  <2>1. ASSUME NEW b, NEW mode, NEW s \in Slots, StartRound(b, mode, s) PROVE FALSE
    BY <1>1, <2>0, <2>1 DEF StartRound
  <2>2. ASSUME Serving PROVE FALSE
    <3> PICK s \in Slots : FinishRound(s)
      BY <2>2 DEF Serving
    <3>1. status[slot[s].art] # "gone"
      BY <1>1 DEF FinishRound, fleet
    <3>2. PICK o \in Outcomes(slot[s]) : status' = [status EXCEPT ![slot[s].art] = o]
      BY <3>1 DEF FinishRound
    <3>3. slot[s].art = a /\ o = "gone"
      BY <1>1, <2>0, <3>2
    <3>4. slot[s].prior # "gone"
      BY <1>1, <3>3 DEF Inv, Shape, FinishRound
    <3> QED BY <3>3, <3>4 DEF Outcomes
  <2>3. CASE Prune
    <3>1. Retention > 0 /\ idle[a] > Retention
      BY <1>1, <2>0, <2>3 DEF Prune, OldestFirst
    <3> SUFFICES ASSUME NEW s \in Rounds(a) PROVE FALSE
      OBVIOUS
    <3>2. slot[s].age <= ScanTimeout /\ idle[a] <= slot[s].age
      BY <1>1 DEF Inv, RoundsAreFresh
    <3>3. slot[s].age \in Nat /\ idle[a] \in Nat
      BY SMTT(30), <1>1, SweepAssumption DEF Inv, Shape, Rounds, Artifacts, NoRound
    <3> QED BY <3>1, <3>2, <3>3, SweepAssumption
  <2>4. CASE \E b \in Artifacts : Register(b) \/ Touch(b)
    BY <1>1, <2>0, <2>4 DEF Register, Touch
  <2>5. CASE \E w \in 1..Concurrency : LoseAnswer(w)
    BY <1>1, <2>1, <2>5 DEF LoseAnswer, Accepted, fleet
  <2> QED
    BY <1>1, <2>1, <2>2, <2>3, <2>4, <2>5
    DEF Next, Sweeping, Working, StartRun, ListPage, Pick, EndRun, Take, Saturated, Failed,
        Polled, Posted, Accepted, ListFails, CrashSweep, CrashAPI, LoseRound, ScanByHand, Tick,
        vars, fleet
<1>2. Inv /\ [Next]_vars => PrunesUnscanned
  BY <1>1 DEF PrunesUnscanned
<1> QED BY <1>2, Invariance, PTL DEF Spec, PruneSparesScans

=============================================================================
