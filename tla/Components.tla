----------------------------- MODULE Components -----------------------------
(***************************************************************************)
(* What differs between two inventories of packages (internal/artifact     *)
(* model.go, DiffComponents).  A package is a record [coordinates,         *)
(* version] and stands for its purl; an inventory is a set of packages.    *)
(* Pure operators, used by PgStore.                                        *)
(***************************************************************************)
EXTENDS Integers, FiniteSets

AllOf(coordinates, packages) == {p \in packages : p.coordinates = coordinates}

\* Packages that changed version: of what only one inventory holds, exactly
\* one on each side has these coordinates.
Rebuilt(from, to) ==
  {n \in to \ from : /\ Cardinality(AllOf(n.coordinates, to \ from)) = 1
                     /\ Cardinality(AllOf(n.coordinates, from \ to)) = 1}

VersionChanged(from, to) ==
  {change \in (from \ to) \X Rebuilt(from, to) :
     change[1].coordinates = change[2].coordinates}

Added(from, to) == (to \ from) \ Rebuilt(from, to)

Removed(from, to) == (from \ to) \ {change[1] : change \in VersionChanged(from, to)}
=============================================================================
