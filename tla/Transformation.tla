---------------------------- MODULE Transformation ----------------------------
(***************************************************************************)
(* Edits of a snapshot (crates/reprocut-core/src/transformation.rs and     *)
(* with_transformation, crates/reprocut-workspace/src/lib.rs:308-342,      *)
(* 703-758).  A snapshot gives some of the paths a file; a file is its     *)
(* bytes and its executable mask.  An operation deletes a file or replaces *)
(* the bytes from "start" (exclusive, counted from 0) to "end".            *)
(***************************************************************************)
EXTENDS Naturals, Sequences, FiniteSets

Delete(path) == [path |-> path, tag |-> 0, start |-> 0, end |-> 0, bytes |-> <<>>]

Replace(path, start, end, bytes) ==
  [path |-> path, tag |-> 1, start |-> start, end |-> end, bytes |-> bytes]

Operation == [path : Nat, tag : {0, 1}, start : Nat, end : Nat, bytes : Seq(STRING)]

\* ByteRange::new
ValidRange(operation) == operation.tag = 1 => operation.start < operation.end

Overlap(l, r) == l.start < r.end /\ r.start < l.end

\* canonical_operation_order, on one path.  The code also compares the replacements
\* of one range; they conflict in either order.
Precedes(l, r) ==
  \/ l.tag < r.tag
  \/ l.tag = r.tag /\ l.start < r.start
  \/ l.tag = r.tag /\ l.start = r.start /\ l.end < r.end

\* The operations on a path, in canonical order.
OperationsOn(operations, path) ==
  LET on == {o \in operations : o.path = path}
  IN  CHOOSE ordered \in [1..Cardinality(on) -> on] :
        \A i, j \in 1..Cardinality(on) :
          i < j => ordered[i] # ordered[j] /\ ~Precedes(ordered[j], ordered[i])

\* validate_conflicts: neighbours are compared.
Conflict(on) ==
  \E i \in DOMAIN on :
    /\ i > 1
    /\ on[i - 1].tag = 0 \/ on[i].tag = 0 \/ Overlap(on[i - 1], on[i])

\* Transformation::new
Canonical(operations) ==
  /\ \A o \in operations : ValidRange(o)
  /\ \A o \in operations : ~Conflict(OperationsOn(operations, o.path))

-----------------------------------------------------------------------------
\* with_transformation

OutOfBounds(bytes, on) == \E i \in DOMAIN on : on[i].end > Len(bytes)

\* Mutated form of Cursor: it stays where the range began.
CursorAtStart(on, i) == IF i = 0 THEN 0 ELSE on[i].start

\* How far the bytes have been dealt with after i operations.
Cursor(on, i) == IF i = 0 THEN 0 ELSE on[i].end

\* apply_replacements_to_bytes: up to each range, then its replacement, and on from
\* its end.
ApplyReplacements(bytes, on) ==
  LET transformed[i \in 0..Len(on)] ==
        IF i = 0 THEN <<>>
        ELSE transformed[i - 1] \o SubSeq(bytes, Cursor(on, i - 1) + 1, on[i].start) \o on[i].bytes
  IN  transformed[Len(on)] \o SubSeq(bytes, Cursor(on, Len(on)) + 1, Len(bytes))

Deleted(operations) == {o.path : o \in {x \in operations : x.tag = 0}}

Applicable(files, operations) ==
  /\ \A o \in operations : o.path \in DOMAIN files
  /\ \A path \in DOMAIN files \ Deleted(operations) :
       ~OutOfBounds(files[path].bytes, OperationsOn(operations, path))

WithTransformation(files, operations) ==
  [path \in DOMAIN files \ Deleted(operations) |->
     [files[path] EXCEPT !.bytes = ApplyReplacements(@, OperationsOn(operations, path))]]

=============================================================================
