------------------------------ MODULE Hierarchy ------------------------------
(***************************************************************************)
(* The groups that the search tries first: of each directory the units     *)
(* below it, parents before their children                                 *)
(* (DirectoryHierarchy, crates/reprocut-workspace/src/hierarchy.rs).       *)
(* A path is the sequence of its bytes.                                    *)
(***************************************************************************)
EXTENDS Naturals, Sequences, FiniteSets

Separator == 47     \* "/"

Separators(path) == {i \in DOMAIN path : path[i] = Separator}

\* The directories that a path is below.
Parents(path) == {SubSeq(path, 1, i - 1) : i \in Separators(path)}

Directories(paths) == UNION {Parents(paths[unit]) : unit \in DOMAIN paths}

Below(paths, directory) == {unit \in DOMAIN paths : directory \in Parents(paths[unit])}

\* path_depth
Depth(path) == Cardinality(Separators(path))

\* Paths are compared as a whole: "a-b/c" comes before "a/c".
Smaller(l, r) ==
  \E n \in 0..Len(l) :
    /\ n < Len(r) /\ \A i \in 1..n : l[i] = r[i]
    /\ n = Len(l) \/ l[n + 1] < r[n + 1]

\* By depth, then by path.
ComesFirst(l, r) ==
  \/ Depth(l) < Depth(r)
  \/ Depth(l) = Depth(r) /\ Smaller(l, r)

\* directory_unit_ids of from_units
DirectoryUnitIds(paths) ==
  LET directories == Directories(paths)
      At(i) == CHOOSE d \in directories : Cardinality({e \in directories : ComesFirst(e, d)}) = i - 1
  IN  [i \in 1..Cardinality(directories) |-> Below(paths, At(i))]

=============================================================================
