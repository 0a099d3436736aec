------------------------------ MODULE SlotPool ------------------------------
(***************************************************************************)
(* What the cap on concurrent scans promises, with acquisition one atomic  *)
(* step: a scan takes all the slots it asks for or none, never beyond a    *)
(* cap, and gives them back together.  ScanSlots implements it with        *)
(* database transactions, advisory locks and a reaper.                     *)
(***************************************************************************)
EXTENDS Naturals, FiniteSets

CONSTANTS
  Holders,     \* ids tagging one scan's slots
  Kinds,       \* what is capped: the pseudo-kind "*" and the scanner kinds
  Cap          \* [Kinds -> Nat], 0 for unlimited

VARIABLE rows  \* [Holders -> SUBSET Kinds]: the rows of table scan_slots

HoldersOf(kind) == {h \in Holders : kind \in rows[h]}

Room(kind) == Cap[kind] = 0 \/ Cardinality(HoldersOf(kind)) < Cap[kind]

Init == rows = [h \in Holders |-> {}]

\* Any number of holders gives its slots back, and then possibly one that
\* has none takes what it asks for, if there is room for all of it.
Give(gone) == [h \in Holders |-> IF h \in gone THEN {} ELSE rows[h]]

Release == \E gone \in SUBSET Holders : rows' = Give(gone)

Take ==
  \E h \in Holders, gone \in SUBSET Holders, kinds \in SUBSET Kinds :
    /\ rows[h] = {}
    /\ rows' = [Give(gone) EXCEPT ![h] = kinds]
    /\ \A kind \in kinds :
         Cap[kind] = 0 \/ Cardinality(HoldersOf(kind)') <= Cap[kind]

Next == Release \/ Take

Spec == Init /\ [][Next]_rows
=============================================================================
