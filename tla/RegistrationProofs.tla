------------------------- MODULE RegistrationProofs -------------------------
(***************************************************************************)
(* Registration, for any requests, batches, refs, contents and quotas: the *)
(* inductive invariant IInv with what follows from it, and QuotaInv, which *)
(* bounds by how much requests in flight overshoot the quota.              *)
(***************************************************************************)
EXTENDS Registration, FiniteSetTheorems, TLAPS

\* No pair is there twice for one piece of evidence.
Once(own) == \A p1, p2 \in own : p1[2] = p2[2] => p1 = p2

\* Real rows are told from none by what they were registered with.
LEMMA RowsAreRows ==
  ASSUME NEW row \in Row PROVE row # NoRow
BY ConstantsAssumption DEF Row, NoRow

LEMMA KeysAreEvidence ==
  ASSUME NEW entry \in Entry PROVE Key(entry) \in Contents \cup Refs
BY DEF Entry, Key

LEMMA IdleIsFine ==
  ASSUME NEW table
  PROVE  Idle \in RequestState /\ RequestInv(Idle, table) /\ Once(Idle.own)
BY DEF Idle, RequestState, RequestInv, Once

\* The entry at hand, of a request at work.
LEMMA CurrentIsAnEntry ==
  ASSUME IInv, NEW q \in Requesters, req[q].pc # "idle"
  PROVE  /\ req[q] \in RequestState
         /\ RequestInv(req[q], rows)
         /\ Once(req[q].own)
         /\ req[q].at \in DOMAIN req[q].entries
         /\ Current(q) \in Entry
<1>1. req[q] \in RequestState /\ RequestInv(req[q], rows)
  BY DEF IInv, TypeOK
<1>2. Once(req[q].own)
  BY DEF IInv, BatchCreatesOnce, Once
<1>3. req[q].at \in DOMAIN req[q].entries
  BY <1>1 DEF RequestInv
<1> QED
  BY <1>1, <1>2, <1>3 DEF RequestState, Current

\* Going on to the next entry, or answering, once the rows created are
\* remembered.
LEMMA NextEntryIsFine ==
  ASSUME NEW q, NEW table, NEW s \in RequestState, Once(s.own),
         s.at \in DOMAIN s.entries,
         \A p \in s.known : /\ p[1] \in DOMAIN s.entries
                            /\ Registers(table[p[2]], s.entries[p[1]]),
         \A p \in s.own : table[p[1]] # NoRow /\ p[2] \in s.seen
  PROVE  /\ NextEntry(q, s) \in RequestState
         /\ RequestInv(NextEntry(q, s), table)
         /\ Once(NextEntry(q, s).own)
         /\ NextEntry(q, s).known \subseteq s.known
         /\ NextEntry(q, s).row = NoSlot
<1>1. CASE s.at = Len(s.entries)
  BY <1>1, IdleIsFine DEF NextEntry, Idle
<1>2. CASE s.at # Len(s.entries)
  <2> DEFINE n == [s EXCEPT !.pc = "entry", !.at = @ + 1, !.row = NoSlot,
                            !.known = {p \in @ : p[1] > s.at}]
  <2>1. NextEntry(q, s) = n
    BY <1>2 DEF NextEntry
  <2>2. n \in RequestState
    <3> DEFINE later == {p \in s.known : p[1] > s.at}
    <3>1. later \in SUBSET (Nat \X Slots)
      BY Zenon DEF RequestState
    <3>2. s.at + 1 \in Nat
      BY DEF RequestState
    <3>3. n = [s EXCEPT !.pc = "entry", !.at = s.at + 1, !.row = NoSlot, !.known = later]
      BY DEF RequestState
    <3> HIDE DEF later, n
    <3> QED
      BY <3>1, <3>2, <3>3 DEF RequestState
  <2>3. s.at + 1 \in DOMAIN s.entries
    BY <1>2 DEF RequestState
  <2>4. /\ n.pc = "entry" /\ n.at = s.at + 1 /\ n.row = NoSlot
        /\ n.entries = s.entries /\ n.seen = s.seen /\ n.own = s.own
        /\ n.known \subseteq s.known
    BY DEF RequestState
  <2> HIDE DEF n
  <2>5. RequestInv(n, table)
    BY <2>3, <2>4 DEF RequestInv
  <2> QED
    BY <2>1, <2>2, <2>4, <2>5
<1> QED
  BY <1>1, <1>2

\* A round keeps its row, or ends, where no row is taken away.
LEMMA ScansStay ==
  ASSUME IInv, \A r \in Rounds : scan'[r].row \in {NoSlot, scan[r].row},
         \A i \in Slots : rows[i] # NoRow => rows'[i] # NoRow
  PROVE  (\A r \in Rounds : ScanInv(scan[r], rows))'
<1> SUFFICES ASSUME NEW r \in Rounds PROVE ScanInv(scan'[r], rows')
  OBVIOUS
<1>1. scan[r] \in ScanState /\ ScanInv(scan[r], rows)
  BY DEF IInv, TypeOK
<1> QED
  BY <1>1 DEF ScanInv, ScanState

\* A step in which one request moves on, to a sound local state.
LEMMA OneMoves ==
  ASSUME IInv, NEW q \in Requesters, NEW s \in RequestState,
         Move(q, s), UNCHANGED <<maxArtifacts, rows, content, scan>>,
         RequestInv(s, rows), Once(s.own),
         s.row \in {NoSlot, req[q].row},
         \A r \in Requesters : \A p \in s.known : p[2] # req[r].row
  PROVE  IInv'
<1>1. req' \in [Requesters -> RequestState]
  BY DEF IInv, TypeOK, Move
<1>2. \A r \in Requesters : req'[r] = IF r = q THEN s ELSE req[r]
  BY DEF IInv, TypeOK, Move
<1>3. TypeOK'
  BY <1>1 DEF IInv, TypeOK
<1>4. (\A i \in Present : RowInv(rows[i]))'
  BY DEF IInv, Present
<1>5. \A r \in Requesters : RequestInv(req'[r], rows')
  BY <1>2 DEF IInv
<1>6. ASSUME NEW q1 \in Requesters, NEW q2 \in Requesters, NEW p \in req'[q1].known
      PROVE  p[2] # req'[q2].row
  <2>1. s.known \subseteq Nat \X Slots /\ req[q1].known \subseteq Nat \X Slots
    BY DEF RequestState, IInv, TypeOK
  <2>2. p \in Nat \X Slots
    BY <1>2, <1>6, <2>1
  <2>3. p[2] # NoSlot
    BY <2>2, ConstantsAssumption
  <2>4. req'[q2].row \in {NoSlot, req[q2].row}
    BY <1>2
  <2>5. p[2] # req[q2].row
    BY <1>2, <1>6 DEF IInv
  <2> QED
    BY <2>3, <2>4, <2>5
<1>7. BatchCreatesOnce'
  BY <1>2 DEF IInv, BatchCreatesOnce, Once
<1>8. (\A r \in Rounds : ScanInv(scan[r], rows))'
  BY DEF IInv
<1> QED
  BY <1>3, <1>4, <1>5, <1>6, <1>7, <1>8 DEF IInv

LEMMA Initially == Init => IInv
<1> SUFFICES ASSUME Init PROVE IInv
  OBVIOUS
<1>1. \A q \in Requesters : req[q] = Idle
  BY DEF Init
<1>2. TypeOK
  BY IdleIsFine DEF Init, TypeOK, ScanState, NoScan
<1>3. Present = {}
  BY DEF Init, Present
<1>4. \A q \in Requesters : req[q].known = {} /\ req[q].own = {}
  BY <1>1 DEF Idle
<1>5. \A q \in Requesters : RequestInv(req[q], rows)
  BY <1>1, IdleIsFine
<1>6. \A r \in Rounds : ScanInv(scan[r], rows)
  BY DEF Init, NoScan, ScanInv
<1> QED
  BY <1>2, <1>3, <1>4, <1>5, <1>6 DEF IInv, BatchCreatesOnce

-----------------------------------------------------------------------------
(* The steps of a request.                                                 *)

\* A request knows the rows that its known pairs name to be settled.
LEMMA KnownIsSettled ==
  ASSUME IInv, NEW q \in Requesters, NEW known \in SUBSET req[q].known
  PROVE  \A r \in Requesters : \A p \in known : p[2] # req[r].row
BY DEF IInv

\* Dealing with an entry that creates nothing.
LEMMA Skips ==
  ASSUME IInv, NEW q \in Requesters, req[q].pc \notin {"idle", "created"},
         Move(q, NextEntry(q, req[q])), UNCHANGED <<maxArtifacts, rows, content, scan>>
  PROVE  IInv'
<1>1. /\ req[q] \in RequestState /\ Once(req[q].own)
      /\ req[q].at \in DOMAIN req[q].entries
      /\ RequestInv(req[q], rows)
  BY CurrentIsAnEntry
<1> DEFINE s == NextEntry(q, req[q])
<1>2. /\ s \in RequestState /\ RequestInv(s, rows) /\ Once(s.own)
      /\ s.known \subseteq req[q].known /\ s.row = NoSlot
  <2>1. \A p \in req[q].own : rows[p[1]] # NoRow /\ p[2] \in req[q].seen
    BY <1>1 DEF RequestInv
  <2>2. \A p \in req[q].known : /\ p[1] \in DOMAIN req[q].entries
                                /\ Registers(rows[p[2]], req[q].entries[p[1]])
    BY <1>1 DEF RequestInv
  <2> QED
    BY <1>1, <2>1, <2>2, NextEntryIsFine
<1> HIDE DEF s
<1> QED
  BY <1>2, OneMoves, KnownIsSettled DEF s

LEMMA ArriveStep ==
  ASSUME IInv, NEW q \in Requesters, NEW bulk \in BOOLEAN, NEW batch \in Batches,
         Arrive(q, bulk, batch), UNCHANGED <<maxArtifacts, scan>>
  PROVE  IInv'
<1> DEFINE entries == [k \in DOMAIN batch |-> [ref |-> batch[k], digest |-> content[batch[k]]]]
           known == {p \in (DOMAIN entries) \X Settled :
                       Registers(rows[p[2]], entries[p[1]])}
           s == [Idle EXCEPT !.pc = IF bulk THEN "count" ELSE "entry", !.bulk = bulk,
                             !.entries = entries, !.at = 1, !.known = known]
<1>1. batch \in Seq(Refs) /\ Len(batch) \in 1..MaxBatch /\ MaxBatch \in Nat
  BY ConstantsAssumption
<1>2. content \in [Refs -> Contents \cup {NoDigest}]
  BY DEF IInv, TypeOK
<1>3. entries \in Seq(Entry) /\ 1 \in DOMAIN entries /\ DOMAIN entries \subseteq Nat
  <2>1. DOMAIN batch = 1..Len(batch) /\ \A k \in DOMAIN batch : batch[k] \in Refs
    BY <1>1
  <2>2. \A k \in DOMAIN batch : entries[k] \in Entry
    BY <1>2, <2>1 DEF Entry
  <2> QED
    BY <1>1, <2>1, <2>2
<1>4. Move(q, s)
  BY DEF Arrive
<1>5. known \in SUBSET (Nat \X Slots)
  BY <1>3 DEF Settled
<1>6. \A p \in known : /\ p[1] \in DOMAIN entries /\ p[2] \in Settled
                       /\ Registers(rows[p[2]], entries[p[1]])
  BY Zenon
<1>7. /\ s \in RequestState /\ s.pc \in {"count", "entry"}
      /\ s.row = NoSlot /\ s.own = {} /\ s.at = 1
      /\ s.entries = entries /\ s.known = known
  <2> HIDE DEF entries, known
  <2> QED
    BY <1>3, <1>5 DEF Idle, RequestState
<1>8. \A r \in Requesters : \A p \in known : p[2] # req[r].row
  <2>1. ASSUME NEW r \in Requesters, NEW i \in Settled PROVE i # req[r].row
    <3>1. i \in Slots
      BY <2>1 DEF Settled
    <3>2. req[r].row # NoSlot => req[r].pc = "created"
      BY DEF IInv, RequestInv
    <3> QED
      BY <2>1, <3>1, <3>2, ConstantsAssumption DEF Settled
  <2> QED
    BY <1>6, <2>1
<1>9. RequestInv(s, rows) /\ Once(s.own)
  <2> HIDE DEF entries, known, s
  <2> QED
    BY <1>3, <1>6, <1>7 DEF RequestInv, Once
<1> UNCHANGED <<rows, content>>
  BY DEF Arrive
<1> HIDE DEF entries, known, s
<1> QED
  BY <1>4, <1>7, <1>8, <1>9, OneMoves

\* A step of a request's that only moves its counter and its quota on.
LEMMA Proceeds ==
  ASSUME IInv, NEW q \in Requesters, req[q].pc \notin {"idle", "created"},
         NEW pc \in {"entry", "new", "ready"}, NEW n \in Nat,
         pc \in {"new", "ready"} =>
           /\ \A p \in req[q].known : p[1] # req[q].at
           /\ Key(Current(q)) \notin req[q].seen,
         Move(q, [req[q] EXCEPT !.pc = pc, !.remaining = n]),
         UNCHANGED <<maxArtifacts, rows, content, scan>>
  PROVE  IInv'
<1> DEFINE s == [req[q] EXCEPT !.pc = pc, !.remaining = n]
<1>1. /\ req[q] \in RequestState /\ RequestInv(req[q], rows) /\ Once(req[q].own)
  BY CurrentIsAnEntry
<1>2. s \in RequestState
  BY <1>1 DEF RequestState
<1>3. /\ s.pc = pc /\ s.at = req[q].at /\ s.entries = req[q].entries
      /\ s.known = req[q].known /\ s.own = req[q].own /\ s.seen = req[q].seen
      /\ s.row = req[q].row
  BY <1>1 DEF RequestState
<1> HIDE DEF s
<1>4. RequestInv(s, rows)
  BY <1>1, <1>3 DEF RequestInv, Current
<1> QED
  BY <1>1, <1>2, <1>3, <1>4, OneMoves, KnownIsSettled DEF s

LEMMA CountStep ==
  ASSUME IInv, NEW q \in Requesters, Count(q), UNCHANGED <<maxArtifacts, scan>>
  PROVE  IInv'
<1>1. Remaining \in Nat
  <2>1. Cardinality(Present) \in Nat
    BY ConstantsAssumption, FS_Subset, FS_CardinalityType DEF Present
  <2>2. maxArtifacts \in Nat
    BY ConstantsAssumption DEF IInv, TypeOK
  <2> QED
    BY <2>1, <2>2 DEF Remaining
<1>2. UNCHANGED <<rows, content>>
  BY DEF Count
<1>3. CASE req[q].pc = "count" /\ Move(q, [req[q] EXCEPT !.pc = "entry", !.remaining = Remaining])
  BY <1>1, <1>2, <1>3, Proceeds
<1>4. CASE req[q].pc = "new" /\ Move(q, [req[q] EXCEPT !.pc = "ready", !.remaining = Remaining])
  <2>1. /\ \A p \in req[q].known : p[1] # req[q].at
        /\ Key(Current(q)) \notin req[q].seen
    BY <1>4, CurrentIsAnEntry DEF RequestInv, Current
  <2> QED
    BY <1>1, <1>2, <1>4, <2>1, Proceeds
<1> QED
  BY <1>3, <1>4 DEF Count

\* An entry that no row is found for is known by no row.
LEMMA NotFoundIsUnknown ==
  ASSUME IInv, NEW q \in Requesters, req[q].pc # "idle",
         ~\E i \in Slots : Found(rows[i], Current(q))
  PROVE  \A p \in req[q].known : p[1] # req[q].at
<1> SUFFICES ASSUME NEW p \in req[q].known, p[1] = req[q].at PROVE FALSE
  OBVIOUS
<1>1. req[q] \in RequestState /\ RequestInv(req[q], rows) /\ Current(q) \in Entry
  BY CurrentIsAnEntry
<1>2. p[2] \in Slots
  BY <1>1 DEF RequestState
<1>3. Registers(rows[p[2]], Current(q))
  BY <1>1 DEF RequestInv, Current
<1>4. rows[p[2]] # NoRow /\ RowInv(rows[p[2]])
  BY <1>2, <1>3 DEF Registers, IInv, Present
<1>5. Found(rows[p[2]], Current(q))
  BY <1>3, <1>4 DEF Registers, RowInv, Found, FoundByRef
<1> QED
  BY <1>2, <1>5

LEMMA LookupStep ==
  ASSUME IInv, NEW q \in Requesters, Lookup(q), UNCHANGED <<maxArtifacts, scan>>
  PROVE  IInv'
<1>1. req[q].pc = "entry" /\ Key(Current(q)) \notin req[q].seen /\ UNCHANGED <<rows, content>>
  BY DEF Lookup, InBatch
<1>2. CASE \E i \in Slots : Found(rows[i], Current(q))
  <2>1. Move(q, NextEntry(q, req[q]))
    BY <1>2 DEF Lookup
  <2> QED
    BY <1>1, <2>1, Skips
<1>3. CASE ~\E i \in Slots : Found(rows[i], Current(q))
  <2> DEFINE pc == IF req[q].bulk THEN "ready" ELSE "new"
  <2>1. Move(q, [req[q] EXCEPT !.pc = pc])
    BY <1>3 DEF Lookup
  <2>2. req[q] \in RequestState
    BY <1>1, CurrentIsAnEntry
  <2>3. [req[q] EXCEPT !.pc = pc] = [req[q] EXCEPT !.pc = pc, !.remaining = req[q].remaining]
    BY <2>2 DEF RequestState
  <2>4. req[q].remaining \in Nat
    BY <2>2 DEF RequestState
  <2>5. pc \in {"entry", "new", "ready"}
    OBVIOUS
  <2>6. \A p \in req[q].known : p[1] # req[q].at
    BY <1>1, <1>3, NotFoundIsUnknown
  <2>7. Move(q, [req[q] EXCEPT !.pc = pc, !.remaining = req[q].remaining])
    BY <2>1, <2>3
  <2> HIDE DEF pc
  <2> QED
    BY <1>1, <2>4, <2>5, <2>6, <2>7, Proceeds
<1> QED
  BY <1>2, <1>3

\* A change of rows that takes none away and none from what registers it.
LEMMA RowsMayChange ==
  ASSUME NEW s \in RequestState, NEW old, NEW new, RequestInv(s, old),
         \A i \in Slots : old[i] # NoRow => new[i] # NoRow,
         \A p \in s.known : Registers(old[p[2]], s.entries[p[1]])
                              => Registers(new[p[2]], s.entries[p[1]])
  PROVE  RequestInv(s, new)
<1>1. \A p \in s.known : /\ p[1] \in DOMAIN s.entries
                         /\ Registers(new[p[2]], s.entries[p[1]])
  BY DEF RequestInv, RequestState
<1>2. \A p \in s.own : /\ new[p[1]] # NoRow
                       /\ \/ p[2] \in s.seen
                          \/ s.pc = "created" /\ p = <<s.row, Key(s.entries[s.at])>>
  BY DEF RequestInv, RequestState
<1>3. s.row # NoSlot => s.pc = "created" /\ new[s.row] # NoRow
  BY DEF RequestInv, RequestState
<1> QED
  BY <1>1, <1>2, <1>3 DEF RequestInv

LEMMA CreateStep ==
  ASSUME IInv, NEW q \in Requesters, Create(q), UNCHANGED <<maxArtifacts, scan>>
  PROVE  IInv'
<1>1. PICK i \in Slots \ Present :
        /\ rows' = [rows EXCEPT ![i] = [ref |-> Current(q).ref, source |-> NoRef,
                                        digest |-> NoDigest, origin |-> Current(q).ref]]
        /\ Move(q, [req[q] EXCEPT !.pc = "created",
                                  !.remaining = Decremented(@),
                                  !.row = i,
                                  !.own = @ \cup {<<i, Key(Current(q))>>}])
  BY DEF Create
<1> DEFINE key == Key(Current(q))
           row == [ref |-> Current(q).ref, source |-> NoRef,
                   digest |-> NoDigest, origin |-> Current(q).ref]
           s == [req[q] EXCEPT !.pc = "created",
                               !.remaining = Decremented(req[q].remaining),
                               !.row = i,
                               !.own = req[q].own \cup {<<i, key>>}]
<1>2. req[q].pc = "ready" /\ UNCHANGED content
  BY DEF Create
<1>3. /\ req[q] \in RequestState /\ RequestInv(req[q], rows) /\ Once(req[q].own)
      /\ req[q].at \in DOMAIN req[q].entries /\ Current(q) \in Entry
  BY <1>2, CurrentIsAnEntry
<1>4. row \in Row /\ RowInv(row) /\ row # NoRow
  <2>1. row \in Row /\ RowInv(row)
    BY <1>3 DEF Entry, Row, RowInv
  <2> QED
    BY <2>1, RowsAreRows
<1>5. rows[i] = NoRow
  BY DEF Present
<1>6. /\ rows' \in [Slots -> Row \cup {NoRow}]
      /\ \A j \in Slots : rows'[j] = IF j = i THEN row ELSE rows[j]
  <2> HIDE DEF row
  <2>1. rows' = [rows EXCEPT ![i] = row]
    BY <1>1 DEF row
  <2> QED
    BY <1>4, <2>1 DEF IInv, TypeOK
<1>7. Move(q, s)
  BY <1>1
<1> HIDE DEF row
<1>8. key \in Contents \cup Refs
  BY <1>3, KeysAreEvidence
<1> HIDE DEF key
<1>9. s \in RequestState
  <2>1. Decremented(req[q].remaining) \in Nat
    BY <1>3 DEF RequestState, Decremented
  <2>2. req[q].own \cup {<<i, key>>} \in SUBSET (Slots \X (Contents \cup Refs))
    BY <1>3, <1>8 DEF RequestState
  <2> QED
    BY <1>3, <2>1, <2>2 DEF RequestState
<1>10. /\ s.pc = "created" /\ s.row = i /\ s.own = req[q].own \cup {<<i, key>>}
       /\ s.at = req[q].at /\ s.entries = req[q].entries
       /\ s.known = req[q].known /\ s.seen = req[q].seen
  BY <1>3 DEF RequestState
<1> HIDE DEF s
\* No request knows a row that is not there.
<1>11. \A r \in Requesters : \A p \in req[r].known : p[2] \in Slots /\ p[2] # i
  <2> SUFFICES ASSUME NEW r \in Requesters, NEW p \in req[r].known
               PROVE  p[2] \in Slots /\ p[2] # i
    OBVIOUS
  <2>1. req[r] \in RequestState /\ RequestInv(req[r], rows)
    BY DEF IInv, TypeOK
  <2>2. rows[p[2]] # NoRow
    BY <2>1 DEF RequestInv, Registers
  <2> QED
    BY <1>5, <2>1, <2>2 DEF RequestState
<1>12. \A r \in Requesters : RequestInv(req[r], rows')
  <2> SUFFICES ASSUME NEW r \in Requesters PROVE RequestInv(req[r], rows')
    OBVIOUS
  <2>1. req[r] \in RequestState /\ RequestInv(req[r], rows)
    BY DEF IInv, TypeOK
  <2>2. \A j \in Slots : rows[j] # NoRow => rows'[j] # NoRow
    BY <1>4, <1>6
  <2>3. \A p \in req[r].known : rows'[p[2]] = rows[p[2]]
    BY <1>6, <1>11
  <2> QED
    BY <2>1, <2>2, <2>3, RowsMayChange
\* What the request created before is on other evidence.
<1>13. key = Key(req[q].entries[req[q].at]) /\ key \notin req[q].seen
  BY <1>2, <1>3 DEF RequestInv, key, Current
<1>14. RequestInv(s, rows')
  <2>1. RequestInv(req[q], rows')
    BY <1>12
  <2>2. rows'[i] # NoRow
    BY <1>4, <1>6
  <2> QED
    BY <1>2, <1>10, <1>13, <2>1, <2>2 DEF RequestInv
<1>15. Once(s.own)
  <2>1. \A p \in req[q].own : p[2] # key
    BY <1>2, <1>3, <1>13 DEF RequestInv
  <2> QED
    BY <1>3, <1>10, <2>1 DEF Once
<1>16. \A r \in Requesters : req'[r] = IF r = q THEN s ELSE req[r]
  BY <1>7 DEF IInv, TypeOK, Move
<1>17. TypeOK'
  BY <1>2, <1>6, <1>7, <1>9 DEF IInv, TypeOK, Move
<1>18. (\A j \in Present : RowInv(rows[j]))'
  BY <1>4, <1>6 DEF IInv, Present
<1>19. \A r \in Requesters : RequestInv(req'[r], rows')
  BY <1>12, <1>14, <1>16
<1>20. \A q1, q2 \in Requesters : \A p \in req'[q1].known : p[2] # req'[q2].row
  BY <1>10, <1>11, <1>16 DEF IInv
<1>21. BatchCreatesOnce'
  BY <1>15, <1>16 DEF IInv, BatchCreatesOnce, Once
<1>22. (\A r \in Rounds : ScanInv(scan[r], rows))'
  BY <1>4, <1>6, ScansStay
<1> QED
  BY <1>17, <1>18, <1>19, <1>20, <1>21, <1>22 DEF IInv

LEMMA RecordStep ==
  ASSUME IInv, NEW q \in Requesters, Record(q), UNCHANGED <<maxArtifacts, scan>>
  PROVE  IInv'
<1> DEFINE key == Key(Current(q))
           m == [req[q] EXCEPT !.seen = req[q].seen \cup {key}]
           s == NextEntry(q, m)
<1>1. /\ req[q].pc = "created" /\ UNCHANGED content /\ Move(q, s)
      /\ \/ rows' = rows
         \/ /\ req[q].row # NoSlot
            /\ rows' = [rows EXCEPT ![req[q].row].digest = Current(q).digest]
  BY DEF Record
<1>2. /\ req[q] \in RequestState /\ RequestInv(req[q], rows) /\ Once(req[q].own)
      /\ req[q].at \in DOMAIN req[q].entries /\ Current(q) \in Entry
  BY <1>1, CurrentIsAnEntry
\* Only the row that was created changes, and only its digest.
<1>3. /\ rows' \in [Slots -> Row \cup {NoRow}]
      /\ \A i \in Slots : rows[i] # NoRow => rows'[i] # NoRow
      /\ \A i \in Slots : i # req[q].row => rows'[i] = rows[i]
      /\ \A i \in Slots : rows[i] = NoRow => rows'[i] = NoRow
      /\ \A i \in Slots : rows[i] # NoRow =>
           rows'[i].ref = rows[i].ref /\ rows'[i].source = rows[i].source
             /\ rows'[i].origin = rows[i].origin
  <2>1. CASE rows' = rows
    BY <2>1 DEF IInv, TypeOK
  <2>2. CASE /\ req[q].row # NoSlot
             /\ rows' = [rows EXCEPT ![req[q].row].digest = Current(q).digest]
    <3> DEFINE j == req[q].row
               new == [rows[j] EXCEPT !.digest = Current(q).digest]
    <3>1. j \in Slots /\ rows[j] # NoRow
      BY <1>2, <2>2 DEF RequestState, RequestInv
    <3>2. rows \in [Slots -> Row \cup {NoRow}] /\ rows[j] \in Row
      BY <3>1 DEF IInv, TypeOK
    <3>3. new \in Row
      BY <1>2, <3>2 DEF Row, Entry
    <3>4. new.ref = rows[j].ref /\ new.source = rows[j].source /\ new.origin = rows[j].origin
      BY <3>2 DEF Row
    <3>5. new # NoRow
      BY <3>3, RowsAreRows
    <3>6. rows' = [rows EXCEPT ![j] = new]
      BY <2>2
    <3> HIDE DEF new, j
    <3> QED
      BY <3>1, <3>2, <3>3, <3>4, <3>5, <3>6 DEF j
  <2> QED
    BY <1>1, <2>1, <2>2
<1>4. \A r \in Requesters : RequestInv(req[r], rows')
  <2> SUFFICES ASSUME NEW r \in Requesters PROVE RequestInv(req[r], rows')
    OBVIOUS
  <2>1. req[r] \in RequestState /\ RequestInv(req[r], rows)
    BY DEF IInv, TypeOK
  <2>2. \A p \in req[r].known : rows'[p[2]] = rows[p[2]]
    BY <1>3, <2>1 DEF IInv, RequestState
  <2> QED
    BY <1>3, <2>1, <2>2, RowsMayChange
<1>5. /\ m \in RequestState /\ m.at = req[q].at /\ m.entries = req[q].entries
      /\ m.known = req[q].known /\ m.own = req[q].own
      /\ m.seen = req[q].seen \cup {key}
  <2>1. key \in Contents \cup Refs
    BY <1>2, KeysAreEvidence
  <2> HIDE DEF key
  <2> QED
    BY <1>2, <2>1 DEF RequestState
<1>6. /\ s \in RequestState /\ RequestInv(s, rows') /\ Once(s.own)
      /\ s.known \subseteq req[q].known /\ s.row = NoSlot
  <2>1. RequestInv(req[q], rows')
    BY <1>4
  <2>2. \A p \in m.own : rows'[p[1]] # NoRow /\ p[2] \in m.seen
    <3>1. \A p \in req[q].own : \/ p[2] \in req[q].seen
                                \/ p = <<req[q].row, Key(req[q].entries[req[q].at])>>
      BY <2>1 DEF RequestInv
    <3>2. \A p \in req[q].own : p[2] \in req[q].seen \cup {key}
      BY <3>1 DEF Current
    <3> HIDE DEF m, key
    <3> QED
      BY <1>5, <2>1, <3>2 DEF RequestInv
  <2>3. \A p \in m.known : /\ p[1] \in DOMAIN m.entries
                           /\ Registers(rows'[p[2]], m.entries[p[1]])
    <3> HIDE DEF m, key
    <3> QED
      BY <1>5, <2>1 DEF RequestInv
  <2> HIDE DEF m, key
  <2>4. Once(m.own) /\ m.at \in DOMAIN m.entries
    BY <1>2, <1>5
  <2>5. /\ NextEntry(q, m) \in RequestState
        /\ RequestInv(NextEntry(q, m), rows')
        /\ Once(NextEntry(q, m).own)
        /\ NextEntry(q, m).known \subseteq m.known
        /\ NextEntry(q, m).row = NoSlot
    <3>1. m \in RequestState
      BY <1>5
    <3> QED
      BY <2>2, <2>3, <2>4, <3>1, NextEntryIsFine, Zenon
  <2> QED
    BY <1>5, <2>5
<1> HIDE DEF s, m, key
<1>7. \A r \in Requesters : req'[r] = IF r = q THEN s ELSE req[r]
  BY <1>1 DEF IInv, TypeOK, Move
<1>8. TypeOK'
  BY <1>1, <1>3, <1>6 DEF IInv, TypeOK, Move
<1>9. (\A i \in Present : RowInv(rows[i]))'
  BY <1>3 DEF IInv, Present, RowInv
<1>10. \A r \in Requesters : RequestInv(req'[r], rows')
  BY <1>4, <1>6, <1>7
<1>11. ASSUME NEW q1 \in Requesters, NEW q2 \in Requesters, NEW p \in req'[q1].known
       PROVE  p[2] # req'[q2].row
  <2>1. p \in req[q1].known
    BY <1>6, <1>7, <1>11
  <2>2. p[2] # NoSlot
    BY <2>1, ConstantsAssumption DEF IInv, TypeOK, RequestState
  <2> QED
    BY <1>6, <1>7, <2>1, <2>2 DEF IInv
<1>12. BatchCreatesOnce'
  BY <1>6, <1>7 DEF IInv, BatchCreatesOnce, Once
<1>13. (\A r \in Rounds : ScanInv(scan[r], rows))'
  BY <1>3, ScansStay
<1> QED
  BY <1>8, <1>9, <1>10, <1>11, <1>12, <1>13 DEF IInv

\* A request that gives up.
LEMMA Stops ==
  ASSUME IInv, NEW q \in Requesters, Move(q, Idle),
         UNCHANGED <<maxArtifacts, rows, content, scan>>
  PROVE  IInv'
<1>1. /\ Idle \in RequestState /\ RequestInv(Idle, rows) /\ Once(Idle.own)
      /\ Idle.row = NoSlot /\ Idle.known = {}
  BY IdleIsFine DEF Idle
<1> QED
  BY <1>1, OneMoves

LEMMA RequestStep ==
  ASSUME IInv, NEW q \in Requesters, RequestNext(q), UNCHANGED <<maxArtifacts, scan>>
  PROVE  IInv'
<1>1. CASE \E bulk \in BOOLEAN, batch \in Batches : Arrive(q, bulk, batch)
  BY <1>1, ArriveStep
<1>2. CASE Count(q)
  BY <1>2, CountStep
<1>3. CASE Invalid(q)
  BY <1>3, Skips DEF Invalid
<1>4. CASE DuplicateInBatch(q)
  BY <1>4, Skips DEF DuplicateInBatch
<1>5. CASE Lookup(q)
  BY <1>5, LookupStep
<1>6. CASE RefuseQuota(q)
  BY <1>6, Skips DEF RefuseQuota, QuotaApplies
<1>7. CASE Create(q)
  BY <1>7, CreateStep
<1>8. CASE StoreFails(q)
  BY <1>8, Skips, Stops DEF StoreFails
<1>9. CASE Record(q)
  BY <1>9, RecordStep
<1> QED
  BY <1>1, <1>2, <1>3, <1>4, <1>5, <1>6, <1>7, <1>8, <1>9 DEF RequestNext

-----------------------------------------------------------------------------
(* The steps of everything else.                                           *)

\* A request that knows less than before, and is as it was otherwise.
Fewer(new, old) ==
  /\ new.known \subseteq old.known
  /\ new.pc = old.pc /\ new.bulk = old.bulk /\ new.entries = old.entries
  /\ new.at = old.at /\ new.remaining = old.remaining /\ new.seen = old.seen
  /\ new.row = old.row /\ new.own = old.own

\* A row changes that stays what its requests know it to be from then on.
LEMMA OneRowChanges ==
  ASSUME IInv, NEW i \in Slots, rows[i] # NoRow, NEW row \in Row,
         rows' \in [Slots -> Row \cup {NoRow}],
         \A j \in Slots : rows'[j] = IF j = i THEN row ELSE rows[j],
         UNCHANGED <<maxArtifacts, content>>,
         RowInv(row), row.origin = rows[i].origin,
         req' \in [Requesters -> RequestState],
         \A q \in Requesters : Fewer(req'[q], req[q]),
         \A q \in Requesters : \A p \in req'[q].known :
           p[2] = i /\ req[q].entries[p[1]].digest # NoDigest
              /\ req[q].entries[p[1]].digest = rows[i].digest
             => req[q].entries[p[1]].digest = row.digest,
         scan' \in [Rounds -> ScanState],
         \A r \in Rounds : scan'[r].row \in {NoSlot, scan[r].row}
  PROVE  IInv'
<1>1. row # NoRow
  BY RowsAreRows
<1>2. TypeOK'
  BY DEF IInv, TypeOK
<1>3. (\A j \in Present : RowInv(rows[j]))'
  BY DEF IInv, Present
<1>4. ASSUME NEW q \in Requesters PROVE RequestInv(req'[q], rows')
  <2>1. /\ req[q] \in RequestState /\ RequestInv(req[q], rows) /\ Fewer(req'[q], req[q])
        /\ req'[q] \in RequestState
    BY DEF IInv, TypeOK
  <2>2. RequestInv(req'[q], rows)
    BY <2>1 DEF RequestInv, Fewer
  <2>3. \A j \in Slots : rows[j] # NoRow => rows'[j] # NoRow
    BY <1>1
  <2>4. ASSUME NEW p \in req'[q].known, Registers(rows[p[2]], req'[q].entries[p[1]])
        PROVE  Registers(rows'[p[2]], req'[q].entries[p[1]])
    <3>1. p[2] \in Slots /\ req'[q].entries = req[q].entries
      BY <2>1 DEF RequestState, Fewer
    <3>2. CASE p[2] = i
      BY <1>1, <2>4, <3>1, <3>2 DEF Registers
    <3>3. CASE p[2] # i
      BY <2>4, <3>1, <3>3
    <3> QED
      BY <3>2, <3>3
  <2> QED
    BY <2>1, <2>2, <2>3, <2>4, RowsMayChange
<1>5. (\A r \in Rounds : ScanInv(scan[r], rows))'
  BY <1>1, ScansStay
<1>6. (\A q1, q2 \in Requesters : \A p \in req[q1].known : p[2] # req[q2].row)'
  BY DEF IInv, Fewer
<1>7. BatchCreatesOnce'
  BY DEF IInv, BatchCreatesOnce, Fewer
<1> QED
  BY <1>2, <1>3, <1>4, <1>5, <1>6, <1>7 DEF IInv

LEMMA RowIsSound ==
  ASSUME IInv, NEW i \in Slots, rows[i] # NoRow
  PROVE  rows[i] \in Row /\ RowInv(rows[i])
BY DEF IInv, TypeOK, Present

LEMMA MirrorStep ==
  ASSUME IInv, NEW i \in Slots, Mirror(i), UNCHANGED maxArtifacts
  PROVE  IInv'
<1> DEFINE row == [rows[i] EXCEPT !.ref = CopyOf[rows[i].ref], !.source = rows[i].ref]
<1>1. /\ rows[i] # NoRow /\ rows[i].source = NoRef /\ UNCHANGED <<content, req, scan>>
      /\ rows' = [rows EXCEPT ![i].ref = CopyOf[rows[i].ref], ![i].source = rows[i].ref]
  BY DEF Mirror
<1>2. rows[i] \in Row /\ RowInv(rows[i]) /\ rows \in [Slots -> Row \cup {NoRow}]
  BY <1>1, RowIsSound DEF IInv, TypeOK
<1>3. rows[i].ref \in Refs /\ rows[i].origin = rows[i].ref
  BY <1>1, <1>2 DEF Row, RowInv
<1>4. row \in Row
  BY <1>2, <1>3, ConstantsAssumption DEF Row
<1>5. row.origin = rows[i].origin /\ row.digest = rows[i].digest /\ row.source = rows[i].ref
  BY <1>2 DEF Row
<1>6. RowInv(row)
  BY <1>3, <1>5, ConstantsAssumption DEF RowInv
<1>7. rows' = [rows EXCEPT ![i] = row]
  BY <1>1, <1>2
<1>8. /\ rows' \in [Slots -> Row \cup {NoRow}]
      /\ \A j \in Slots : rows'[j] = IF j = i THEN row ELSE rows[j]
  <2> HIDE DEF row
  <2> QED
    BY <1>2, <1>4, <1>7
<1>9. /\ req' \in [Requesters -> RequestState] /\ \A q \in Requesters : Fewer(req'[q], req[q])
      /\ scan' \in [Rounds -> ScanState]
      /\ \A r \in Rounds : scan'[r].row \in {NoSlot, scan[r].row}
  BY <1>1 DEF IInv, TypeOK, Fewer
<1> HIDE DEF row
<1> QED
  BY <1>1, <1>4, <1>5, <1>6, <1>8, <1>9, OneRowChanges

\* A round that only moves on.
LEMMA ScanMoves ==
  ASSUME IInv, NEW r \in Rounds, NEW s \in ScanState, ScanInv(s, rows),
         scan' = [scan EXCEPT ![r] = s], UNCHANGED <<maxArtifacts, rows, content, req>>
  PROVE  IInv'
<1>1. scan' \in [Rounds -> ScanState] /\ \A t \in Rounds : scan'[t] = IF t = r THEN s ELSE scan[t]
  BY DEF IInv, TypeOK
<1>2. (\A t \in Rounds : ScanInv(scan[t], rows))'
  BY <1>1 DEF IInv
<1>3. TypeOK'
  BY <1>1 DEF IInv, TypeOK
<1> QED
  BY <1>2, <1>3 DEF IInv, Present, BatchCreatesOnce

LEMMA StartScanStep ==
  ASSUME IInv, NEW r \in Rounds, NEW i \in Slots, StartScan(r, i), UNCHANGED maxArtifacts
  PROVE  IInv'
<1> DEFINE s == [row |-> i, ref |-> rows[i].ref,
                 digest |-> IF rows[i].digest = NoDigest THEN Unread ELSE rows[i].digest]
<1>1. /\ rows[i] # NoRow /\ scan' = [scan EXCEPT ![r] = s] /\ UNCHANGED <<rows, content, req>>
  BY DEF StartScan
<1>2. rows[i] \in Row
  BY <1>1, RowIsSound
<1>3. s \in ScanState
  BY <1>2 DEF Row, ScanState
<1>4. ScanInv(s, rows)
  BY <1>1 DEF ScanInv
<1> HIDE DEF s
<1> QED
  BY <1>1, <1>3, <1>4, ScanMoves

LEMMA ResolveDigestStep ==
  ASSUME IInv, NEW r \in Rounds, ResolveDigest(r), UNCHANGED maxArtifacts
  PROVE  IInv'
<1>1. PICK d \in Resolutions(scan[r].ref) : scan' = [scan EXCEPT ![r].digest = d]
  BY DEF ResolveDigest
<1> DEFINE s == [scan[r] EXCEPT !.digest = d]
<1>2. scan[r] \in ScanState /\ ScanInv(scan[r], rows)
  BY DEF IInv, TypeOK
<1>3. d \in Contents \cup {NoDigest}
  BY DEF Resolutions, IInv, TypeOK
<1>4. s \in ScanState /\ s.row = scan[r].row
  BY <1>2, <1>3 DEF ScanState
<1>5. scan' = [scan EXCEPT ![r] = s] /\ UNCHANGED <<rows, content, req>>
  BY <1>1 DEF ResolveDigest
<1> HIDE DEF s
<1>6. ScanInv(s, rows)
  BY <1>2, <1>4 DEF ScanInv
<1> QED
  BY <1>4, <1>5, <1>6, ScanMoves

LEMMA LoseScanStep ==
  ASSUME IInv, NEW r \in Rounds, LoseScan(r), UNCHANGED maxArtifacts
  PROVE  IInv'
<1>1. scan' = [scan EXCEPT ![r] = NoScan] /\ UNCHANGED <<rows, content, req>>
  BY DEF LoseScan
<1>2. NoScan \in ScanState /\ ScanInv(NoScan, rows)
  BY DEF NoScan, ScanState, ScanInv
<1> QED
  BY <1>1, <1>2, ScanMoves

\* A request that loses what the round's digest has made untrue.
LEMMA RewrittenIsFewer ==
  ASSUME NEW s \in RequestState, NEW i, NEW digest
  PROVE  /\ Rewritten(s, i, digest) \in RequestState
         /\ Fewer(Rewritten(s, i, digest), s)
         /\ \A p \in Rewritten(s, i, digest).known :
              p[2] = i /\ s.entries[p[1]].digest # NoDigest
                => s.entries[p[1]].digest = digest
<1> DEFINE known == {p \in s.known : p[2] = i /\ s.entries[p[1]].digest # NoDigest
                                       => s.entries[p[1]].digest = digest}
           n == [s EXCEPT !.known = known]
<1>1. Rewritten(s, i, digest) = n
  BY DEF Rewritten
<1>2. known \in SUBSET (Nat \X Slots) /\ known \subseteq s.known
  BY Zenon DEF RequestState
<1>3. \A p \in known : p[2] = i /\ s.entries[p[1]].digest # NoDigest
                         => s.entries[p[1]].digest = digest
  BY Zenon
<1> HIDE DEF known
<1>4. n \in RequestState
  BY <1>2 DEF RequestState
<1>5. n.known = known /\ Fewer(n, s)
  BY <1>2 DEF RequestState, Fewer
<1> HIDE DEF n
<1> QED
  BY <1>1, <1>3, <1>4, <1>5

LEMMA FinishScanStep ==
  ASSUME IInv, NEW r \in Rounds, FinishScan(r), UNCHANGED maxArtifacts
  PROVE  IInv'
<1> DEFINE i == scan[r].row
           digest == scan[r].digest
           row == [rows[i] EXCEPT !.digest = digest]
<1>1. /\ i # NoSlot /\ digest # Unread /\ UNCHANGED content
      /\ rows' = [rows EXCEPT ![i].digest = digest]
      /\ req' = [q \in Requesters |-> Rewritten(req[q], i, digest)]
      /\ scan' = [scan EXCEPT ![r] = NoScan]
  BY DEF FinishScan
<1>2. i \in Slots /\ rows[i] # NoRow /\ digest \in Contents \cup {NoDigest}
  <2>1. scan[r] \in ScanState /\ ScanInv(scan[r], rows)
    BY DEF IInv, TypeOK
  <2> QED
    BY <1>1, <2>1 DEF ScanState, ScanInv
<1>3. scan' \in [Rounds -> ScanState] /\ \A t \in Rounds : scan'[t].row \in {NoSlot, scan[t].row}
  BY <1>1 DEF IInv, TypeOK, NoScan, ScanState
<1> HIDE DEF i, digest
<1>4. rows[i] \in Row /\ RowInv(rows[i]) /\ rows \in [Slots -> Row \cup {NoRow}]
  BY <1>2, RowIsSound DEF IInv, TypeOK
<1>5. /\ row \in Row /\ row.origin = rows[i].origin /\ row.ref = rows[i].ref
      /\ row.source = rows[i].source /\ row.digest = digest
  BY <1>2, <1>4 DEF Row
<1>6. RowInv(row)
  BY <1>4, <1>5 DEF RowInv
<1>7. rows' = [rows EXCEPT ![i] = row]
  BY <1>1
<1> HIDE DEF row
<1>8. /\ rows' \in [Slots -> Row \cup {NoRow}]
      /\ \A j \in Slots : rows'[j] = IF j = i THEN row ELSE rows[j]
  BY <1>4, <1>5, <1>7
<1>9. ASSUME NEW q \in Requesters
      PROVE  /\ req'[q] \in RequestState /\ Fewer(req'[q], req[q])
             /\ \A p \in req'[q].known :
                  p[2] = i /\ req[q].entries[p[1]].digest # NoDigest
                    => req[q].entries[p[1]].digest = row.digest
  <2>1. req[q] \in RequestState /\ req'[q] = Rewritten(req[q], i, digest)
    BY <1>1 DEF IInv, TypeOK
  <2> QED
    BY <1>5, <2>1, RewrittenIsFewer
<1>10. req' \in [Requesters -> RequestState]
  BY <1>1, <1>9
<1> QED
  BY <1>1, <1>2, <1>3, <1>5, <1>6, <1>8, <1>9, <1>10, OneRowChanges

LEMMA DeleteStep ==
  ASSUME IInv, NEW i \in Slots, Delete(i), UNCHANGED maxArtifacts
  PROVE  IInv'
<1>1. /\ rows' = [rows EXCEPT ![i] = NoRow]
      /\ req' = [q \in Requesters |-> Forget(req[q], i)] /\ UNCHANGED content
      /\ scan' = [r \in Rounds |-> IF scan[r].row = i THEN NoScan ELSE scan[r]]
  BY DEF Delete
<1>2. /\ rows' \in [Slots -> Row \cup {NoRow}]
      /\ \A j \in Slots : rows'[j] = IF j = i THEN NoRow ELSE rows[j]
  BY <1>1 DEF IInv, TypeOK
<1>3. ASSUME NEW r \in Requesters
      PROVE  /\ req'[r] \in RequestState
             /\ \A p \in req'[r].known : p \in req[r].known /\ p[2] # i
             /\ \A p \in req'[r].own : p \in req[r].own /\ p[1] # i
             /\ req'[r].row = IF req[r].row = i THEN NoSlot ELSE req[r].row
             /\ req'[r].pc = req[r].pc /\ req'[r].at = req[r].at
             /\ req'[r].entries = req[r].entries /\ req'[r].seen = req[r].seen
  <2>1. req[r] \in RequestState
    BY DEF IInv, TypeOK
  <2> DEFINE known == {p \in req[r].known : p[2] # i}
             own == {p \in req[r].own : p[1] # i}
             row == IF req[r].row = i THEN NoSlot ELSE req[r].row
             n == [req[r] EXCEPT !.row = row, !.known = known, !.own = own]
  <2>2. req'[r] = n
    BY <1>1 DEF Forget
  <2>3. known \in SUBSET (Nat \X Slots)
    BY <2>1, Zenon DEF RequestState
  <2>4. own \in SUBSET (Slots \X (Contents \cup Refs))
    BY <2>1, Zenon DEF RequestState
  <2>5. row \in Slots \cup {NoSlot}
    BY <2>1 DEF RequestState
  <2>6. /\ \A p \in known : p \in req[r].known /\ p[2] # i
        /\ \A p \in own : p \in req[r].own /\ p[1] # i
    OBVIOUS
  <2> HIDE DEF known, own, row
  <2>7. n \in RequestState
    BY <2>1, <2>3, <2>4, <2>5 DEF RequestState
  <2>8. /\ n.known = known /\ n.own = own /\ n.row = row
        /\ n.pc = req[r].pc /\ n.at = req[r].at
        /\ n.entries = req[r].entries /\ n.seen = req[r].seen
    BY <2>1 DEF RequestState
  <2> HIDE DEF n
  <2> QED
    BY <2>2, <2>6, <2>7, <2>8 DEF row
<1>4. TypeOK'
  <2>1. req' \in [Requesters -> RequestState]
    BY <1>1, <1>3
  <2>2. scan' \in [Rounds -> ScanState]
    BY <1>1 DEF IInv, TypeOK, NoScan, ScanState
  <2> QED
    BY <1>1, <1>2, <2>1, <2>2 DEF IInv, TypeOK
<1>5. (\A j \in Present : RowInv(rows[j]))'
  BY <1>2 DEF IInv, Present
<1>6. ASSUME NEW r \in Requesters PROVE RequestInv(req'[r], rows')
  <2>1. req[r] \in RequestState /\ RequestInv(req[r], rows)
    BY DEF IInv, TypeOK
  <2>2. \A p \in req'[r].known : /\ p[1] \in DOMAIN req'[r].entries
                                 /\ Registers(rows'[p[2]], req'[r].entries[p[1]])
    BY <1>2, <1>3, <2>1 DEF RequestInv, RequestState
  <2>3. req'[r].pc # "idle" => req'[r].at \in DOMAIN req'[r].entries
    BY <1>3, <2>1 DEF RequestInv
  <2>4. req'[r].pc \in {"new", "ready", "created"} =>
          /\ \A p \in req'[r].known : p[1] # req'[r].at
          /\ Key(req'[r].entries[req'[r].at]) \notin req'[r].seen
    BY <1>3, <2>1 DEF RequestInv
  <2>5. ASSUME NEW p \in req'[r].own
        PROVE  /\ rows'[p[1]] # NoRow
               /\ \/ p[2] \in req'[r].seen
                  \/ /\ req'[r].pc = "created"
                     /\ p = <<req'[r].row, Key(req'[r].entries[req'[r].at])>>
    <3>1. p \in req[r].own /\ p[1] # i /\ p[1] \in Slots
      BY <1>3, <2>1, <2>5 DEF RequestState
    <3>2. rows'[p[1]] # NoRow
      BY <1>2, <2>1, <3>1 DEF RequestInv
    <3>3. CASE p[2] \in req[r].seen
      BY <1>3, <3>2, <3>3
    <3>4. CASE req[r].pc = "created" /\ p = <<req[r].row, Key(req[r].entries[req[r].at])>>
      <4>1. req[r].row # i
        BY <3>1, <3>4
      <4> QED
        BY <1>3, <3>2, <3>4, <4>1
    <3> QED
      BY <2>1, <3>1, <3>3, <3>4 DEF RequestInv
  <2>6. req'[r].row # NoSlot => req'[r].pc = "created" /\ rows'[req'[r].row] # NoRow
    BY <1>2, <1>3, <2>1 DEF RequestInv, RequestState
  <2> QED
    BY <2>2, <2>3, <2>4, <2>5, <2>6 DEF RequestInv
<1>7. ASSUME NEW q1 \in Requesters, NEW q2 \in Requesters, NEW p \in req'[q1].known
      PROVE  p[2] # req'[q2].row
  <2>1. p \in req[q1].known
    BY <1>3, <1>7
  <2>2. p[2] # NoSlot
    BY <2>1, ConstantsAssumption DEF IInv, TypeOK, RequestState
  <2> QED
    BY <1>3, <2>1, <2>2 DEF IInv
<1>8. BatchCreatesOnce'
  BY <1>3 DEF IInv, BatchCreatesOnce
<1>9. ASSUME NEW r \in Rounds PROVE ScanInv(scan'[r], rows')
  <2>1. scan[r] \in ScanState /\ ScanInv(scan[r], rows)
    BY DEF IInv, TypeOK
  <2>2. scan'[r] = IF scan[r].row = i THEN NoScan ELSE scan[r]
    BY <1>1
  <2> QED
    BY <1>2, <2>1, <2>2 DEF ScanInv, ScanState, NoScan
<1> QED
  BY <1>4, <1>5, <1>6, <1>7, <1>8, <1>9 DEF IInv

LEMMA Inductive == IInv /\ [Next]_vars => IInv'
<1> SUFFICES ASSUME IInv, [Next]_vars PROVE IInv'
  OBVIOUS
<1>1. CASE UNCHANGED vars
  BY <1>1 DEF vars, IInv, TypeOK, Present, BatchCreatesOnce
<1>2. ASSUME UNCHANGED <<maxArtifacts, scan>>, NEW q \in Requesters, RequestNext(q)
      PROVE  IInv'
  BY <1>2, RequestStep
<1>3. ASSUME UNCHANGED maxArtifacts, NEW i \in Slots, Mirror(i) \/ Delete(i) PROVE IInv'
  BY <1>3, MirrorStep, DeleteStep
<1>4. ASSUME UNCHANGED maxArtifacts, NEW ref \in Movable,
             NEW new \in Contents \cup {NoDigest}, MoveTag(ref, new)
      PROVE  IInv'
  <2>1. content' \in [Refs -> Contents \cup {NoDigest}] /\ UNCHANGED <<rows, req, scan>>
    BY <1>4 DEF MoveTag, IInv, TypeOK
  <2> QED
    BY <1>4, <2>1 DEF IInv, TypeOK, Present, BatchCreatesOnce
<1>5. ASSUME UNCHANGED maxArtifacts, NEW r \in Rounds, ScanNext(r) PROVE IInv'
  BY <1>5, StartScanStep, ResolveDigestStep, FinishScanStep, LoseScanStep DEF ScanNext
<1> QED
  BY <1>1, <1>2, <1>3, <1>4, <1>5 DEF Next

-----------------------------------------------------------------------------
(* Theorems.                                                               *)

\* What a request knows of the rows stays true until it has dealt with the
\* entry, whatever other requests, mirroring and deletions do, or until a
\* scan round writes another digest, or none, over the one the row has
\* (artifacts.go:333-550, scan.go:712).
THEOREM Invariant == Spec => []IInv
BY Initially, Inductive, PTL DEF Spec

\* A batch creates one row on one piece of evidence, even where the Update
\* that records the digest fails (artifacts.go:387-395).
THEOREM BatchesCreateOnce == Spec => []BatchCreatesOnce
<1>1. IInv => BatchCreatesOnce
  BY DEF IInv
<1> QED
  BY <1>1, Invariant, PTL

\* An entry past the lookup is known by no row.
LEMMA ReadyIsNew ==
  ASSUME IInv, NEW q \in Requesters, req[q].pc = "ready"
  PROVE  KnownTo(q) = {}
<1>1. \A p \in req[q].known : p[1] # req[q].at
  BY DEF IInv, RequestInv
<1> QED
  BY <1>1 DEF KnownTo

\* A request creates no row for what was registered when it arrived and has
\* been since (artifacts.go:82-98): a digest that a scan round takes back or
\* replaces meanwhile (scan.go:712) is registered no more.
THEOREM CreatesNothingTwice == Spec => NothingTwice
<1>1. IInv /\ [Next]_vars => [\A q \in Requesters : Creates(q) => KnownTo(q) = {}]_vars
  BY ReadyIsNew DEF Creates
<1> QED
  BY <1>1, Invariant, PTL DEF Spec, NothingTwice

\* Nor is such an entry refused for want of quota: only an entry proved new
\* is held against it (artifacts.go:213-218).  The same holds of it: a digest
\* taken back meanwhile registers nothing.
THEOREM DuplicatesBeatQuota == Spec => DuplicateBeatsQuota
<1>1. ASSUME IInv, NEW q \in Requesters, RefuseQuota(q) PROVE KnownTo(q) = {}
  BY <1>1, ReadyIsNew DEF RefuseQuota, QuotaApplies
<1>2. IInv /\ [Next]_vars => [\A q \in Requesters : RefuseQuota(q) => KnownTo(q) = {}]_vars
  BY <1>1
<1> QED
  BY <1>2, Invariant, PTL DEF Spec, DuplicateBeatsQuota

-----------------------------------------------------------------------------
(* The quota.                                                              *)

Limit == Smaller(MaxBatch, maxArtifacts)

LEMMA Numbers ==
  ASSUME IInv
  PROVE  /\ maxArtifacts \in Nat /\ MaxBatch \in Nat
         /\ Limit \in Nat /\ Limit <= MaxBatch /\ Limit <= maxArtifacts
         /\ IsFiniteSet(Requesters) /\ Cardinality(Requesters) \in Nat
         /\ IsFiniteSet(Present) /\ Cardinality(Present) \in Nat
<1>1. maxArtifacts \in Nat /\ MaxBatch \in Nat
  BY ConstantsAssumption DEF IInv, TypeOK
<1>2. IsFiniteSet(Requesters) /\ Cardinality(Requesters) \in Nat
  BY ConstantsAssumption, FS_CardinalityType
<1>3. IsFiniteSet(Present) /\ Cardinality(Present) \in Nat
  BY ConstantsAssumption, FS_Subset, FS_CardinalityType DEF Present
<1> QED
  BY <1>1, <1>2, <1>3 DEF Limit, Smaller

\* No request may still create more than its batch or the quota.
LEMMA BudgetBound ==
  ASSUME IInv, NEW s \in RequestState, Counted(s), s.pc # "idle" => s.at \in DOMAIN s.entries,
         s.pc = "idle" => s.remaining = 0
  PROVE  Budget(s) \in Int /\ Budget(s) <= Limit /\ Budget(s) <= s.remaining
<1>1. /\ s.remaining \in Nat /\ s.at \in Nat /\ Len(s.entries) \in Nat
      /\ DOMAIN s.entries = 1..Len(s.entries)
  BY DEF RequestState
<1>2. s.remaining <= maxArtifacts /\ Len(s.entries) <= MaxBatch
  BY DEF Counted
<1> DEFINE left == IF s.pc = "created" THEN Len(s.entries) - s.at ELSE Len(s.entries) + 1 - s.at
<1>3. left \in Int /\ (left <= Len(s.entries) \/ s.remaining = 0)
  BY <1>1
<1>4. Budget(s) = IF s.remaining < left THEN s.remaining ELSE left
  BY DEF Budget, Smaller
<1>5. Limit \in Nat /\ (Limit = MaxBatch \/ Limit = maxArtifacts)
      /\ maxArtifacts \in Nat /\ MaxBatch \in Nat
  BY Numbers DEF Limit, Smaller
<1> HIDE DEF left
<1> QED
  BY <1>1, <1>2, <1>3, <1>4, <1>5

\* Going on to the next entry allows nothing that was not allowed before.
LEMMA NextEntryCounts ==
  ASSUME IInv, NEW q, NEW s \in RequestState, Counted(s), s.at \in DOMAIN s.entries,
         s.pc \notin {"idle", "count"}
  PROVE  Counted(NextEntry(q, s)) /\ Budget(NextEntry(q, s)) <= Budget(s)
<1>1. /\ s.remaining \in Nat /\ s.at \in Nat /\ Len(s.entries) \in Nat
      /\ s.at \in 1..Len(s.entries) /\ s.bulk \in BOOLEAN
  BY DEF RequestState
<1>2. CASE s.at = Len(s.entries)
  <2>1. NextEntry(q, s) = Idle
    BY <1>2 DEF NextEntry
  <2>2. Idle.remaining = 0 /\ Idle.entries = <<>> /\ Idle.at = 0 /\ Idle.pc = "idle"
    BY DEF Idle
  <2>3. Len(<<>>) = 0
    OBVIOUS
  <2>4. Counted(Idle)
    BY <2>2, <2>3, Numbers DEF Counted
  <2>5. Budget(Idle) = 0
    BY <2>2, <2>3 DEF Budget, Smaller
  <2>6. Budget(s) \in Nat
    BY <1>1 DEF Budget, Smaller
  <2> QED
    BY <2>1, <2>4, <2>5, <2>6
<1>3. CASE s.at # Len(s.entries)
  <2> DEFINE n == [s EXCEPT !.pc = "entry", !.at = @ + 1, !.row = NoSlot,
                            !.known = {p \in @ : p[1] > s.at}]
  <2>1. NextEntry(q, s) = n
    BY <1>3 DEF NextEntry
  <2>2. /\ n.pc = "entry" /\ n.at = s.at + 1 /\ n.entries = s.entries
        /\ n.bulk = s.bulk /\ n.remaining = s.remaining
    BY DEF RequestState
  <2>3. s.bulk
    BY <1>1, <1>3 DEF Counted
  <2> HIDE DEF n
  <2>4. Counted(n)
    BY <2>2, <2>3 DEF Counted
  <2>5. Budget(n) <= Budget(s)
    BY SMTT(30), <1>1, <2>2 DEF Budget, Smaller
  <2> QED
    BY <2>1, <2>4, <2>5
<1> QED
  BY <1>2, <1>3

\* What the requests in a set may still create, if each may create at most n.
LEMMA AtMost ==
  ASSUME NEW Q, IsFiniteSet(Q), NEW n \in Nat
  PROVE  IsFiniteSet(Q \X (1..n)) /\ Cardinality(Q \X (1..n)) = Cardinality(Q) * n
<1>1. IsFiniteSet(1..n) /\ Cardinality(1..n) = n
  BY FS_Interval
<1> QED
  BY <1>1, FS_Product

LEMMA AllowedIsFinite ==
  ASSUME IInv
  PROVE  IsFiniteSet(Allowed) /\ Cardinality(Allowed) \in Nat
<1>1. IsFiniteSet(Requesters \X (1..MaxBatch))
  BY Numbers, AtMost
<1> QED
  BY <1>1, FS_Subset, FS_CardinalityType DEF Allowed

\* Budgets that fall, or are spent, allow no more.
LEMMA LessIsAllowed ==
  ASSUME IInv, UNCHANGED maxArtifacts, Present' \subseteq Present,
         \A q \in Requesters : /\ Budget(req[q]) \in Int /\ Budget(req'[q]) \in Int
                               /\ Budget(req'[q]) <= Budget(req[q]) \/ Budget(req'[q]) <= 0,
         \A q \in Requesters : Counted(req[q])', QuotaInv
  PROVE  QuotaInv'
<1>1. Allowed' \subseteq Allowed
  <2> SUFFICES ASSUME NEW p \in Requesters \X (1..MaxBatch), p[2] <= Budget(req'[p[1]])
               PROVE  p[2] <= Budget(req[p[1]])
    BY DEF Allowed
  <2>1. p[1] \in Requesters /\ p[2] \in Int
    OBVIOUS
  <2> QED
    BY <2>1
<1>2. /\ Cardinality(Allowed) \in Nat /\ Cardinality(Allowed') \in Nat
      /\ Cardinality(Allowed') <= Cardinality(Allowed)
  BY <1>1, AllowedIsFinite, FS_Subset, FS_CardinalityType
<1>a. /\ Cardinality(Present') \in Nat /\ Cardinality(Present) \in Nat
      /\ Cardinality(Present') <= Cardinality(Present)
  BY Numbers, FS_Subset, FS_CardinalityType
<1> DEFINE bound == maxArtifacts + (Cardinality(Requesters) - 1) * Limit
<1>3. bound \in Int
  BY Numbers
<1>4. maxArtifacts # 0 => Cardinality(Present) + Cardinality(Allowed) <= bound
  BY DEF QuotaInv, Limit
<1>5. maxArtifacts # 0 => Cardinality(Present') + Cardinality(Allowed') <= bound
  <2> HIDE DEF bound
  <2> QED
    BY <1>2, <1>3, <1>4, <1>a
<1>6. QuotaInv' <=> /\ \A q \in Requesters : Counted(req[q])'
                    /\ maxArtifacts # 0 => Cardinality(Present') + Cardinality(Allowed') <= bound
  BY DEF QuotaInv, Limit
<1> QED
  BY <1>5, <1>6

\* A request that counts anew may create what is left of the quota; the
\* others may each create a batch.
LEMMA CountedAnew ==
  ASSUME IInv, NEW q \in Requesters, UNCHANGED <<maxArtifacts, rows>>,
         Cardinality(Present) < maxArtifacts,
         Budget(req'[q]) \in Int, Budget(req'[q]) <= maxArtifacts - Cardinality(Present),
         \A r \in Requesters : r # q => /\ Budget(req'[r]) \in Int
                                        /\ Budget(req'[r]) <= Limit,
         \A r \in Requesters : Counted(req[r])'
  PROVE  QuotaInv'
<1> DEFINE left == maxArtifacts - Cardinality(Present)
           others == Requesters \ {q}
<1>1. left \in Nat
  BY Numbers
<1>2. IsFiniteSet(others) /\ Cardinality(others) = Cardinality(Requesters) - 1
      /\ Cardinality(others) \in Nat
  BY Numbers, FS_RemoveElement, FS_CardinalityType
<1>3. IsFiniteSet({q}) /\ Cardinality({q}) = 1
  BY FS_Singleton
<1>4. Allowed' \subseteq ({q} \X (1..left)) \cup (others \X (1..Limit))
  <2> SUFFICES ASSUME NEW r \in Requesters, NEW k \in 1..MaxBatch, k <= Budget(req'[r])
               PROVE  <<r, k>> \in ({q} \X (1..left)) \cup (others \X (1..Limit))
    BY DEF Allowed
  <2>1. CASE r = q
    BY <1>1, <2>1, Numbers
  <2>2. CASE r # q
    BY <2>2, Numbers
  <2> QED
    BY <2>1, <2>2
<1> HIDE DEF left, others
<1>5. /\ IsFiniteSet({q} \X (1..left)) /\ Cardinality({q} \X (1..left)) = left
      /\ IsFiniteSet(others \X (1..Limit))
      /\ Cardinality(others \X (1..Limit)) = Cardinality(others) * Limit
  <2>1. /\ IsFiniteSet({q} \X (1..left))
        /\ Cardinality({q} \X (1..left)) = Cardinality({q}) * left
    BY <1>1, <1>3, AtMost
  <2>2. Limit \in Nat
    BY Numbers
  <2>3. /\ IsFiniteSet(others \X (1..Limit))
        /\ Cardinality(others \X (1..Limit)) = Cardinality(others) * Limit
    BY <1>2, <2>2, AtMost
  <2> QED
    BY <1>1, <1>3, <2>1, <2>3
<1> DEFINE mine == {q} \X (1..left)
           theirs == others \X (1..Limit)
<1>6. /\ IsFiniteSet(mine \cup theirs) /\ Cardinality(mine \cup theirs) \in Nat
      /\ Cardinality(mine \cup theirs) <= Cardinality(mine) + Cardinality(theirs)
  <2> HIDE DEF mine, theirs
  <2>1. IsFiniteSet(mine) /\ IsFiniteSet(theirs)
    BY <1>5 DEF mine, theirs
  <2>2. /\ Cardinality(mine \cap theirs) \in Nat /\ Cardinality(mine) \in Nat
        /\ Cardinality(theirs) \in Nat
    BY <2>1, FS_Intersection, FS_CardinalityType
  <2>3. /\ IsFiniteSet(mine \cup theirs)
        /\ Cardinality(mine \cup theirs)
             = Cardinality(mine) + Cardinality(theirs) - Cardinality(mine \cap theirs)
    BY <2>1, FS_Union
  <2>4. Cardinality(mine \cup theirs) \in Nat
    BY <2>3, FS_CardinalityType
  <2> QED
    BY <2>2, <2>3, <2>4
<1>7. /\ Cardinality(Allowed') \in Nat
      /\ Cardinality(Allowed') <= left + (Cardinality(Requesters) - 1) * Limit
  <2>1. Allowed' \in SUBSET (mine \cup theirs)
    BY <1>4
  <2>2. IsFiniteSet(Allowed') /\ Cardinality(Allowed') <= Cardinality(mine \cup theirs)
    BY <1>6, <2>1, FS_Subset
  <2>3. Cardinality(Allowed') \in Nat
    BY <2>2, FS_CardinalityType
  <2>4. Cardinality(mine) = left /\ Cardinality(theirs) = (Cardinality(Requesters) - 1) * Limit
    BY <1>2, <1>5
  <2>5. (Cardinality(Requesters) - 1) * Limit \in Int
    BY Numbers
  <2> HIDE DEF mine, theirs
  <2> QED
    BY <1>1, <1>6, <2>2, <2>3, <2>4, <2>5
<1> DEFINE extra == (Cardinality(Requesters) - 1) * Limit
<1>8. extra \in Int
  BY Numbers
<1>9. Cardinality(Present) + Cardinality(Allowed') <= maxArtifacts + extra
  <2>1. Cardinality(Allowed') <= left + extra
    BY <1>7
  <2> HIDE DEF extra
  <2> QED
    BY <1>1, <1>7, <1>8, <2>1, Numbers DEF left
<1>10. Present' = Present
  BY DEF Present
<1> QED
  BY <1>9, <1>10 DEF QuotaInv, Limit

\* What the parts of the invariant say of one request.
LEMMA OfOne ==
  ASSUME IInv, QuotaInv, NEW q \in Requesters
  PROVE  /\ req[q] \in RequestState /\ Counted(req[q])
         /\ req[q].pc # "idle" => req[q].at \in DOMAIN req[q].entries
         /\ req[q].remaining \in Nat /\ req[q].at \in Nat /\ Len(req[q].entries) \in Nat
         /\ DOMAIN req[q].entries = 1..Len(req[q].entries)
         /\ Budget(req[q]) \in Int /\ Budget(req[q]) <= Limit
<1>1. req[q] \in RequestState /\ Counted(req[q])
      /\ (req[q].pc # "idle" => req[q].at \in DOMAIN req[q].entries)
  BY DEF IInv, TypeOK, QuotaInv, RequestInv
<1>2. /\ req[q].remaining \in Nat /\ req[q].at \in Nat /\ Len(req[q].entries) \in Nat
      /\ DOMAIN req[q].entries = 1..Len(req[q].entries)
  BY <1>1 DEF RequestState
<1>3. req[q].pc = "idle" => req[q].remaining = 0
  BY <1>1 DEF Counted
<1> QED
  BY <1>1, <1>2, <1>3, BudgetBound

\* A step of one request that allows it no more than before.
LEMMA OneSpends ==
  ASSUME IInv, IInv', QuotaInv, NEW q \in Requesters, NEW s, Move(q, s),
         UNCHANGED maxArtifacts, Present' \subseteq Present,
         Counted(s), Budget(s) \in Int, Budget(s) <= Budget(req[q]) \/ Budget(s) <= 0
  PROVE  QuotaInv'
<1>1. \A r \in Requesters : req'[r] = IF r = q THEN s ELSE req[r]
  BY DEF IInv, TypeOK, Move
<1>2. \A r \in Requesters : Counted(req[r])'
  <2>1. \A r \in Requesters : Counted(req[r])
    BY OfOne
  <2> QED
    BY <1>1, <2>1 DEF Counted
<1>3. \A r \in Requesters : /\ Budget(req[r]) \in Int /\ Budget(req'[r]) \in Int
                            /\ Budget(req'[r]) <= Budget(req[r]) \/ Budget(req'[r]) <= 0
  BY <1>1, OfOne
<1> QED
  BY <1>2, <1>3, LessIsAllowed

\* The next entry, from the state the request is in or is about to reach.
LEMMA OneGoesOn ==
  ASSUME IInv, IInv', QuotaInv, NEW q \in Requesters, NEW s \in RequestState, Counted(s),
         s.at \in DOMAIN s.entries, s.pc \notin {"idle", "count"},
         Budget(s) <= Budget(req[q]),
         Move(q, NextEntry(q, s)), UNCHANGED maxArtifacts, Present' \subseteq Present
  PROVE  QuotaInv'
<1>1. Counted(NextEntry(q, s)) /\ Budget(NextEntry(q, s)) <= Budget(s)
  BY NextEntryCounts
<1>2. req'[q] = NextEntry(q, s)
  BY DEF IInv, TypeOK, Move
<1>3. Counted(req[q])'
  BY <1>1, <1>2 DEF Counted
<1>4. /\ req'[q] \in RequestState
      /\ req'[q].pc # "idle" => req'[q].at \in DOMAIN req'[q].entries
      /\ req'[q].pc = "idle" => req'[q].remaining = 0
  BY <1>3 DEF IInv, TypeOK, RequestInv, Counted
<1>5. Budget(NextEntry(q, s)) \in Int /\ Budget(s) \in Int
  BY <1>1, <1>2, <1>4, BudgetBound
<1>6. Budget(req[q]) \in Int
  BY OfOne
<1> QED
  BY <1>1, <1>5, <1>6, OneSpends

LEMMA ArriveCounts ==
  ASSUME IInv, IInv', QuotaInv, NEW q \in Requesters, NEW bulk \in BOOLEAN,
         NEW batch \in Batches, Arrive(q, bulk, batch), UNCHANGED maxArtifacts
  PROVE  QuotaInv'
<1> DEFINE entries == [k \in DOMAIN batch |-> [ref |-> batch[k], digest |-> content[batch[k]]]]
           known == {p \in (DOMAIN entries) \X Settled :
                       Registers(rows[p[2]], entries[p[1]])}
           s == [Idle EXCEPT !.pc = IF bulk THEN "count" ELSE "entry", !.bulk = bulk,
                             !.entries = entries, !.at = 1, !.known = known]
<1>1. batch \in Seq(Refs) /\ Len(batch) \in 1..MaxBatch /\ MaxBatch \in Nat
  BY ConstantsAssumption
<1>2. Move(q, s) /\ UNCHANGED rows /\ (bulk <=> Len(batch) > 1)
  BY DEF Arrive
<1>3. DOMAIN entries = 1..Len(batch)
  BY <1>1
<1>4. Len(entries) = Len(batch)
  BY <1>1, <1>3
<1>5. s.entries = entries /\ s.remaining = 0 /\ s.at = 1 /\ s.bulk = bulk
      /\ s.pc = IF bulk THEN "count" ELSE "entry"
  <2> HIDE DEF entries, known
  <2> QED
    BY DEF Idle
<1> HIDE DEF entries, s
<1>6. Counted(s)
  BY <1>1, <1>2, <1>4, <1>5, Numbers DEF Counted
<1>7. Budget(s) \in Int /\ Budget(s) <= 0
  BY <1>1, <1>4, <1>5 DEF Budget, Smaller
<1>8. Present' = Present
  BY <1>2 DEF Present
<1> QED
  BY <1>2, <1>6, <1>7, <1>8, OneSpends

LEMMA CountCounts ==
  ASSUME IInv, IInv', QuotaInv, NEW q \in Requesters, Count(q), UNCHANGED maxArtifacts
  PROVE  QuotaInv'
<1>1. PICK pc \in {"entry", "ready"} :
        /\ Move(q, [req[q] EXCEPT !.pc = pc, !.remaining = Remaining])
        /\ req[q].pc \in {"count", "new"}
        /\ pc = "entry" => req[q].pc = "count"
  BY DEF Count
<1>2. UNCHANGED rows /\ Present' = Present
  BY DEF Count, Present
<1> DEFINE s == [req[q] EXCEPT !.pc = pc, !.remaining = Remaining]
<1>3. /\ Remaining \in Nat /\ Remaining <= maxArtifacts
      /\ Cardinality(Present) < maxArtifacts => Remaining <= maxArtifacts - Cardinality(Present)
      /\ ~(Cardinality(Present) < maxArtifacts) => Remaining = 0
  BY Numbers DEF Remaining
<1>4. /\ s.pc = pc /\ s.remaining = Remaining /\ s.entries = req[q].entries
      /\ s.at = req[q].at /\ s.bulk = req[q].bulk
  BY OfOne DEF RequestState
<1>5. \A r \in Requesters : req'[r] = IF r = q THEN s ELSE req[r]
  BY <1>1 DEF IInv, TypeOK, Move
<1> HIDE DEF s
<1>6. Counted(s)
  <2>1. Counted(req[q])
    BY OfOne
  <2>2. pc = "entry" => s.bulk
    BY <1>1, <1>4, <2>1 DEF Counted
  <2> QED
    BY <1>1, <1>3, <1>4, <2>1, <2>2 DEF Counted
<1>7. Budget(s) \in Int /\ Budget(s) <= Remaining
  BY <1>3, <1>4, OfOne DEF Budget, Smaller
<1>8. CASE Cardinality(Present) < maxArtifacts
  <2>1. \A r \in Requesters : Counted(req[r])'
    BY <1>5, <1>6, OfOne DEF Counted
  <2>2. /\ Budget(req'[q]) \in Int
        /\ Budget(req'[q]) <= maxArtifacts - Cardinality(Present)
    BY <1>3, <1>5, <1>7, <1>8, Numbers
  <2>3. \A r \in Requesters : r # q => Budget(req'[r]) \in Int /\ Budget(req'[r]) <= Limit
    BY <1>5, OfOne
  <2> QED
    BY <1>2, <1>8, <2>1, <2>2, <2>3, CountedAnew
<1>9. CASE ~(Cardinality(Present) < maxArtifacts)
  BY <1>1, <1>2, <1>3, <1>6, <1>7, <1>9, OneSpends DEF s
<1> QED
  BY <1>8, <1>9

LEMMA LookupCounts ==
  ASSUME IInv, IInv', QuotaInv, NEW q \in Requesters, Lookup(q), UNCHANGED maxArtifacts
  PROVE  QuotaInv'
<1>1. req[q].pc = "entry" /\ Present' = Present
  BY DEF Lookup, Present
<1>2. CASE Move(q, NextEntry(q, req[q]))
  BY <1>1, <1>2, OfOne, OneGoesOn
<1>3. CASE Move(q, [req[q] EXCEPT !.pc = IF req[q].bulk THEN "ready" ELSE "new"])
  <2> DEFINE s == [req[q] EXCEPT !.pc = IF req[q].bulk THEN "ready" ELSE "new"]
  <2>1. /\ s.pc = (IF req[q].bulk THEN "ready" ELSE "new") /\ s.remaining = req[q].remaining
        /\ s.entries = req[q].entries /\ s.at = req[q].at /\ s.bulk = req[q].bulk
    BY OfOne DEF RequestState
  <2> HIDE DEF s
  <2>2. Counted(s)
    BY <1>1, <2>1, OfOne DEF Counted
  <2>3. Budget(s) = Budget(req[q])
    BY <1>1, <2>1 DEF Budget
  <2> QED
    BY <1>1, <1>3, <2>2, <2>3, OfOne, OneSpends DEF s
<1> QED
  BY <1>2, <1>3 DEF Lookup

\* A creation spends one of what the request was allowed.
LEMMA CreateCounts ==
  ASSUME IInv, IInv', QuotaInv, NEW q \in Requesters, Create(q), UNCHANGED maxArtifacts
  PROVE  QuotaInv'
<1>1. PICK i \in Slots \ Present :
        /\ rows' = [rows EXCEPT ![i] = [ref |-> Current(q).ref, source |-> NoRef,
                                        digest |-> NoDigest, origin |-> Current(q).ref]]
        /\ Move(q, [req[q] EXCEPT !.pc = "created",
                                  !.remaining = Decremented(@),
                                  !.row = i,
                                  !.own = @ \cup {<<i, Key(Current(q))>>}])
  BY DEF Create
<1> DEFINE s == [req[q] EXCEPT !.pc = "created",
                               !.remaining = Decremented(req[q].remaining),
                               !.row = i,
                               !.own = req[q].own \cup {<<i, Key(Current(q))>>}]
<1>2. req[q].pc = "ready" /\ (maxArtifacts # 0 => req[q].remaining > 0)
  BY DEF Create
<1>3. /\ s.pc = "created" /\ s.remaining = Decremented(req[q].remaining)
      /\ s.entries = req[q].entries /\ s.at = req[q].at /\ s.bulk = req[q].bulk
  BY OfOne DEF RequestState
<1>4. Move(q, s)
  BY <1>1
<1>5. \A r \in Requesters : req'[r] = IF r = q THEN s ELSE req[r]
  BY <1>4 DEF IInv, TypeOK, Move
<1> HIDE DEF s
<1>6. \A r \in Requesters : Counted(req[r])'
  <2>1. \A r \in Requesters : Counted(req[r])
    BY OfOne
  <2>2. Counted(s)
    BY <1>3, <2>1, OfOne, Numbers DEF Counted, Decremented
  <2> QED
    BY <1>5, <2>1, <2>2 DEF Counted
<1>7. CASE maxArtifacts = 0
  BY <1>6, <1>7 DEF QuotaInv
<1>8. CASE maxArtifacts # 0
  <2> DEFINE b == Budget(req[q])
  <2>1. b \in 1..MaxBatch
    <3>1. req[q].at \in 1..Len(req[q].entries) /\ req[q].remaining > 0
      BY <1>2, <1>8, OfOne
    <3>2. b \in Int /\ b >= 1
      BY SMTT(30), <1>2, <3>1, OfOne DEF Budget, Smaller
    <3> QED
      BY <3>2, OfOne, Numbers
  <2>2. Budget(s) = b - 1
    <3>1. s.remaining = req[q].remaining - 1 /\ req[q].remaining \in Nat
      BY <1>2, <1>3, <1>8, OfOne DEF Decremented
    <3>2. req[q].at \in Nat /\ Len(req[q].entries) \in Nat
      BY OfOne
    <3> DEFINE left == Len(req[q].entries) + 1 - req[q].at
    <3>3. left \in Int
      BY <3>2
    <3>4. b = Smaller(req[q].remaining, left)
      BY <1>2 DEF Budget
    <3>5. Budget(s) = Smaller(s.remaining, left - 1)
      <4>1. Budget(s) = Smaller(s.remaining, Len(s.entries) - s.at)
        BY <1>3 DEF Budget
      <4>2. Len(s.entries) - s.at = left - 1
        BY <1>3, <3>2
      <4> QED BY <4>1, <4>2
    <3> HIDE DEF left, b
    <3> QED
      BY <3>1, <3>3, <3>4, <3>5 DEF Smaller
  <2> HIDE DEF b
  <2>3. Allowed' \subseteq Allowed \ {<<q, b>>}
    <3> SUFFICES ASSUME NEW r \in Requesters, NEW k \in 1..MaxBatch, k <= Budget(req'[r])
                 PROVE  k <= Budget(req[r]) /\ <<r, k>> # <<q, b>>
      BY DEF Allowed
    <3>1. CASE r = q
      BY <1>5, <2>1, <2>2, <3>1 DEF b
    <3>2. CASE r # q
      BY <1>5, <3>2
    <3> QED
      BY <3>1, <3>2
  <2>4. <<q, b>> \in Allowed
    BY <2>1 DEF Allowed, b
  <2>5. /\ IsFiniteSet(Allowed \ {<<q, b>>})
        /\ Cardinality(Allowed \ {<<q, b>>}) = Cardinality(Allowed) - 1
    BY <2>4, AllowedIsFinite, FS_RemoveElement
  <2>6. /\ Cardinality(Allowed') \in Nat /\ Cardinality(Allowed) \in Nat
        /\ Cardinality(Allowed') <= Cardinality(Allowed) - 1
    BY <2>3, <2>5, AllowedIsFinite, FS_Subset, FS_CardinalityType
  <2>7. Present' \subseteq Present \cup {i}
    BY <1>1 DEF Present, IInv, TypeOK
  <2>8. /\ Cardinality(Present') \in Nat /\ Cardinality(Present) \in Nat
        /\ Cardinality(Present') <= Cardinality(Present) + 1
    <3>1. IsFiniteSet(Present \cup {i}) /\ Cardinality(Present \cup {i}) = Cardinality(Present) + 1
      BY Numbers, FS_AddElement
    <3>2. IsFiniteSet(Present') /\ Cardinality(Present') <= Cardinality(Present \cup {i})
      BY <2>7, <3>1, FS_Subset
    <3> QED
      BY <3>1, <3>2, FS_CardinalityType, Numbers
  <2> DEFINE bound == maxArtifacts + (Cardinality(Requesters) - 1) * Limit
  <2>9. bound \in Int
    BY Numbers
  <2>10. Cardinality(Present) + Cardinality(Allowed) <= bound
    BY <1>8 DEF QuotaInv, Limit
  <2>11. Cardinality(Present') + Cardinality(Allowed') <= bound
    <3> HIDE DEF bound
    <3> QED
      BY <2>6, <2>8, <2>9, <2>10
  <2> QED
    BY <1>6, <2>11 DEF QuotaInv, Limit
<1> QED
  BY <1>7, <1>8

LEMMA RecordCounts ==
  ASSUME IInv, IInv', QuotaInv, NEW q \in Requesters, Record(q), UNCHANGED maxArtifacts
  PROVE  QuotaInv'
<1> DEFINE m == [req[q] EXCEPT !.seen = req[q].seen \cup {Key(Current(q))}]
<1>1. req[q].pc = "created" /\ Move(q, NextEntry(q, m))
  BY DEF Record
<1>2. /\ req[q] \in RequestState /\ req[q].at \in DOMAIN req[q].entries
      /\ Current(q) \in Entry /\ RequestInv(req[q], rows)
  BY <1>1, CurrentIsAnEntry
<1>3. m \in RequestState
  <2>1. req[q].seen \cup {Key(Current(q))} \in SUBSET (Contents \cup Refs)
    BY <1>2, KeysAreEvidence DEF RequestState
  <2> QED
    BY <1>2, <2>1 DEF RequestState
<1>4. /\ m.pc = "created" /\ m.remaining = req[q].remaining /\ m.bulk = req[q].bulk
      /\ m.entries = req[q].entries /\ m.at = req[q].at
  BY <1>1, <1>2 DEF RequestState
<1>5. Present' \subseteq Present
  <2> SUFFICES ASSUME NEW i \in Slots, rows[i] = NoRow PROVE rows'[i] = NoRow
    BY DEF Present
  <2>1. req[q].row # NoSlot => rows[req[q].row] # NoRow
    BY <1>2 DEF RequestInv
  <2> QED
    BY <2>1 DEF Record, IInv, TypeOK
<1> HIDE DEF m
<1>6. Counted(m) /\ Budget(m) = Budget(req[q])
  BY <1>1, <1>4, OfOne DEF Counted, Budget
<1> QED
  BY <1>1, <1>2, <1>3, <1>4, <1>5, <1>6, OfOne, OneGoesOn

LEMMA RequestCounts ==
  ASSUME IInv, IInv', QuotaInv, NEW q \in Requesters, RequestNext(q), UNCHANGED maxArtifacts
  PROVE  QuotaInv'
<1>1. CASE \E bulk \in BOOLEAN, batch \in Batches : Arrive(q, bulk, batch)
  BY <1>1, ArriveCounts
<1>2. CASE Count(q)
  BY <1>2, CountCounts
<1>3. CASE Invalid(q) \/ DuplicateInBatch(q) \/ RefuseQuota(q)
           \/ (StoreFails(q) /\ req[q].pc # "count")
  <2>1. /\ req[q].pc \in {"entry", "new", "ready"} /\ Present' = Present
        /\ Move(q, NextEntry(q, req[q]))
    BY <1>3 DEF Invalid, DuplicateInBatch, RefuseQuota, QuotaApplies, StoreFails, Present
  <2> QED
    BY <2>1, OfOne, OneGoesOn
<1>4. CASE Lookup(q)
  BY <1>4, LookupCounts
<1>5. CASE Create(q)
  BY <1>5, CreateCounts
<1>6. CASE StoreFails(q) /\ req[q].pc = "count"
  <2>1. Move(q, Idle) /\ Present' = Present
    BY <1>6 DEF StoreFails, Present
  <2>2. Idle.remaining = 0 /\ Idle.entries = <<>> /\ Idle.at = 0 /\ Idle.pc = "idle"
        /\ Len(<<>>) = 0
    BY DEF Idle
  <2>3. Counted(Idle) /\ Budget(Idle) = 0
    BY <2>2, Numbers DEF Counted, Budget, Smaller
  <2> QED
    BY <2>1, <2>3, OneSpends
<1>7. CASE Record(q)
  BY <1>7, RecordCounts
<1> QED
  BY <1>1, <1>2, <1>3, <1>4, <1>5, <1>6, <1>7 DEF RequestNext

LEMMA QuotaKept == IInv /\ QuotaInv /\ [Next]_vars => QuotaInv'
<1> SUFFICES ASSUME IInv, QuotaInv, [Next]_vars PROVE QuotaInv'
  OBVIOUS
<1>0. IInv'
  BY Inductive
<1>1. ASSUME UNCHANGED <<maxArtifacts, req>>, Present' \subseteq Present PROVE QuotaInv'
  <2>1. \A q \in Requesters : Counted(req[q])'
    BY <1>1, OfOne DEF Counted
  <2>2. \A q \in Requesters : Budget(req[q]) \in Int
    BY OfOne
  <2> QED
    BY <1>1, <2>1, <2>2, LessIsAllowed
<1>2. CASE UNCHANGED vars
  BY <1>1, <1>2 DEF vars, Present
<1>3. ASSUME UNCHANGED maxArtifacts, NEW q \in Requesters, RequestNext(q) PROVE QuotaInv'
  BY <1>0, <1>3, RequestCounts
<1>4. ASSUME UNCHANGED maxArtifacts, NEW i \in Slots, Mirror(i) PROVE QuotaInv'
  <2>1. Present' \subseteq Present /\ req' = req
    BY <1>4 DEF Mirror, Present, IInv, TypeOK
  <2> QED
    BY <1>1, <1>4, <2>1
<1>5. ASSUME UNCHANGED maxArtifacts, NEW i \in Slots, Delete(i) PROVE QuotaInv'
  <2>1. Present' \subseteq Present
    BY <1>5 DEF Delete, Present, IInv, TypeOK
  <2>2. ASSUME NEW q \in Requesters
        PROVE  /\ req'[q].pc = req[q].pc /\ req'[q].remaining = req[q].remaining
               /\ req'[q].entries = req[q].entries /\ req'[q].at = req[q].at
               /\ req'[q].bulk = req[q].bulk
    <3>1. req'[q] = Forget(req[q], i)
      BY <1>5 DEF Delete
    <3> QED
      BY <3>1, OfOne DEF Forget, RequestState
  <2>3. \A q \in Requesters : Counted(req[q])' /\ Budget(req'[q]) = Budget(req[q])
    BY <1>5, <2>2, OfOne DEF Counted, Budget
  <2> QED
    BY <1>5, <2>1, <2>3, OfOne, LessIsAllowed
<1>6. ASSUME UNCHANGED maxArtifacts, NEW ref \in Movable,
             NEW new \in Contents \cup {NoDigest}, MoveTag(ref, new)
      PROVE  QuotaInv'
  BY <1>1, <1>6 DEF MoveTag, Present
<1>7. ASSUME UNCHANGED maxArtifacts, NEW r \in Rounds, ScanNext(r) PROVE QuotaInv'
  <2>1. CASE req' = req /\ rows' = rows
    BY <1>1, <1>7, <2>1 DEF Present
  <2>2. CASE FinishScan(r)
    <3>1. Present' \subseteq Present
      <4>1. scan[r].row \in Slots /\ rows[scan[r].row] # NoRow
        BY <2>2 DEF FinishScan, IInv, TypeOK, ScanInv, ScanState
      <4> QED
        BY <2>2, <4>1 DEF FinishScan, Present, IInv, TypeOK
    <3>2. \A q \in Requesters : Fewer(req'[q], req[q])
      BY <2>2, OfOne, RewrittenIsFewer DEF FinishScan
    <3>3. \A q \in Requesters : Counted(req[q])' /\ Budget(req'[q]) = Budget(req[q])
      BY <1>7, <3>2, OfOne DEF Counted, Budget, Fewer
    <3> QED
      BY <1>7, <3>1, <3>3, OfOne, LessIsAllowed
  <2> QED
    BY <1>7, <2>1, <2>2 DEF ScanNext, StartScan, ResolveDigest, LoseScan
<1> QED
  BY <1>2, <1>3, <1>4, <1>5, <1>6, <1>7 DEF Next

LEMMA QuotaInit == Init => QuotaInv
<1> SUFFICES ASSUME Init PROVE QuotaInv
  OBVIOUS
<1>0. IInv /\ Present = {}
  BY Initially DEF Init, Present
<1>1. Idle.remaining = 0 /\ Idle.entries = <<>> /\ Idle.at = 0 /\ Idle.pc = "idle"
      /\ Len(<<>>) = 0
  BY DEF Idle
<1>2. Counted(Idle) /\ Budget(Idle) = 0
  BY <1>0, <1>1, Numbers DEF Counted, Budget, Smaller
<1>3. \A q \in Requesters : req[q] = Idle
  BY DEF Init
<1>4. Allowed = {}
  BY <1>2, <1>3 DEF Allowed
<1>5. Cardinality({}) = 0
  BY FS_EmptySet
<1>6. 0 <= maxArtifacts + (Cardinality(Requesters) - 1) * Limit
  <2>1. CASE Cardinality(Requesters) = 0
    BY <1>0, <2>1, Numbers
  <2>2. CASE Cardinality(Requesters) # 0
    <3>1. Cardinality(Requesters) - 1 \in Nat
      BY <1>0, <2>2, Numbers
    <3> DEFINE others == Cardinality(Requesters) - 1
    <3>2. others * Limit \in Nat
      <4> HIDE DEF others
      <4> QED
        BY <1>0, <3>1, Numbers DEF others
    <3> QED
      BY <1>0, <3>2, Numbers
  <2> QED
    BY <2>1, <2>2
<1> QED
  BY <1>0, <1>2, <1>3, <1>4, <1>5, <1>6 DEF QuotaInv, Limit

\* Overlapping requests exceed the quota by no more than what all of them
\* but one may each still create: the quota is read before the rows are
\* written, once per batch, and nothing locks it (artifacts.go:113-126,
\* 403-411).
THEOREM OvershootIsBounded == Spec => []OvershootBounded
<1>1. Spec => []QuotaInv
  BY QuotaInit, QuotaKept, Invariant, PTL DEF Spec
<1>2. IInv /\ QuotaInv => OvershootBounded
  <2> SUFFICES ASSUME IInv, QuotaInv, maxArtifacts # 0
               PROVE  Cardinality(Present) <= maxArtifacts + (Cardinality(Requesters) - 1) * Limit
    BY DEF OvershootBounded, Limit
  <2> DEFINE bound == maxArtifacts + (Cardinality(Requesters) - 1) * Limit
  <2>1. Cardinality(Present) + Cardinality(Allowed) <= bound
    BY DEF QuotaInv, Limit
  <2>2. bound \in Int
    BY Numbers
  <2> HIDE DEF bound
  <2>3. Cardinality(Present) <= bound
    BY <2>1, <2>2, Numbers, AllowedIsFinite
  <2> QED
    BY <2>3 DEF bound
<1> QED
  BY <1>1, <1>2, Invariant, PTL
=============================================================================
