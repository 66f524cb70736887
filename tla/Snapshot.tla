------------------------------- MODULE Snapshot -------------------------------
(***************************************************************************)
(* How a directory becomes a snapshot while it may be edited               *)
(* (ProjectSnapshot, crates/reprocut-workspace/src/lib.rs:208-399,         *)
(* 464-506, 760-899).  Paths are found one at a time; of each file the     *)
(* stamp is taken, its bytes are read one at a time, and the stamp is      *)
(* taken again; at the end the paths are found again.  The snapshot's      *)
(* files are then chosen from and edited without the directory.            *)
(*                                                                         *)
(* "source" is capture, "listed" is from_inventory, which does not look    *)
(* for the paths again, and "prepared" is capture_prepared, whose paths    *)
(* are known, some of which may be missing.  Each write of a file has a    *)
(* modification time of its own, which is what a version is here.          *)
(***************************************************************************)
EXTENDS Transformation

CONSTANTS
  Path,       \* numbers, in the order of the paths
  Optional,   \* additional_paths: in a prepared directory they may be missing
  Excluded,   \* paths below a directory that the inventory policy excludes
  MaxLength,  \* of a file
  Cuts        \* the sets of operations that may be asked for

ASSUME SnapshotAssumption ==
  /\ Path \subseteq Nat /\ IsFiniteSet(Path)
  /\ MaxLength \in Nat
  /\ \A asked \in Cuts : asked \subseteq Operation /\ IsFiniteSet(asked)

VARIABLES
  tree,       \* the directory: a file or Missing at each path
  past,       \* the files that each path has had
  changes,    \* edits still to come
  kind,       \* "source", "listed" or "prepared"
  step,       \* what is done next
  found,      \* paths found so far, or found again
  looked,     \* paths looked at for that
  inventory,  \* the paths to be captured
  before,     \* the stamp of the file at hand
  bytes,      \* what was read of it
  files,      \* the files captured so far
  operations, \* the edit
  result      \* the snapshot after it

captureVars == <<kind, step, found, looked, inventory, before, bytes, files>>
snapshotVars == <<tree, past, changes, captureVars, operations, result>>

Missing == [version |-> 0, length |-> 0, mask |-> 0]

Contents(file) == [i \in 1..file.length |-> <<file.version, i>>]

There(path) == tree[path] # Missing

\* FileStamp; the version stands for the modification time.
Stamp(path) == tree[path]

NoFiles == [path \in {} |-> Missing]

InitSnapshot ==
  /\ tree \in [Path -> {Missing} \cup [version : {1}, length : {MaxLength}, mask : {0}]]
  /\ past = [path \in Path |-> {tree[path]}]
  /\ step = IF kind = "prepared" THEN "stamp" ELSE "scan"
  /\ found = {} /\ looked = {}
  /\ inventory = IF kind = "prepared" THEN Path \ Excluded ELSE {}
  /\ before = Missing /\ bytes = <<>>
  /\ files = NoFiles
  /\ operations = {} /\ result = NoFiles

-----------------------------------------------------------------------------
\* Another program edits the directory.

Latest(path) == CHOOSE v \in {f.version : f \in past[path]} : \A f \in past[path] : f.version <= v

Put(path, file) ==
  /\ changes > 0
  /\ changes' = changes - 1
  /\ tree' = [tree EXCEPT ![path] = file]
  /\ past' = [past EXCEPT ![path] = @ \cup {file}]
  /\ UNCHANGED <<captureVars, operations, result>>

WriteFile(path) ==
  \E length \in 1..MaxLength :
    Put(path, [version |-> Latest(path) + 1, length |-> length, mask |-> tree[path].mask])

Chmod(path) == There(path) /\ Put(path, [tree[path] EXCEPT !.mask = 1 - @])

RemoveFile(path) == There(path) /\ Put(path, Missing)

Edit == \E path \in Path : WriteFile(path) \/ Chmod(path) \/ RemoveFile(path)

-----------------------------------------------------------------------------
\* scan_with_policy

LookAt(path) ==
  /\ step \in {"scan", "rescan"}
  /\ path \in Path \ looked
  /\ looked' = looked \cup {path}
  /\ found' = IF There(path) /\ path \notin Excluded THEN found \cup {path} ELSE found
  /\ UNCHANGED <<tree, past, changes, kind, step, inventory, before, bytes, files, operations, result>>

LookedEverywhere == step \in {"scan", "rescan"} /\ looked = Path

\* The paths are sorted; a source without files is refused (engine lib.rs:437-439).
ScanEnds ==
  /\ LookedEverywhere /\ step = "scan"
  /\ inventory' = found
  /\ found' = {} /\ looked' = {}
  /\ step' = IF found = {} /\ kind = "source" THEN "refused" ELSE "stamp"
  /\ UNCHANGED <<tree, past, changes, kind, before, bytes, files, operations, result>>

RescanEnds ==
  /\ LookedEverywhere /\ step = "rescan"
  /\ step' = IF found = inventory THEN "captured" ELSE "refused"
  /\ UNCHANGED <<tree, past, changes, kind, found, looked, inventory, before, bytes, files, operations, result>>

-----------------------------------------------------------------------------
\* capture_inventory_file and read_prepared_regular_file

At == CHOOSE path \in inventory : \A other \in inventory : path <= other

Capturing(s) == step = s /\ inventory # {}

TakeStamp ==
  /\ Capturing("stamp")
  /\ before' = Stamp(At)
  /\ IF There(At)
     THEN step' = "read" /\ UNCHANGED inventory
     ELSE IF kind = "prepared" /\ At \in Optional
     THEN inventory' = inventory \ {At} /\ UNCHANGED step
     ELSE step' = "refused" /\ UNCHANGED inventory
  /\ UNCHANGED <<tree, past, changes, kind, found, looked, bytes, files, operations, result>>

\* The next byte, or the end of the file.
ReadByte ==
  /\ Capturing("read")
  /\ IF Len(bytes) < tree[At].length
     THEN bytes' = Append(bytes, <<tree[At].version, Len(bytes) + 1>>) /\ UNCHANGED step
     ELSE step' = "restamp" /\ UNCHANGED bytes
  /\ UNCHANGED <<tree, past, changes, kind, found, looked, inventory, before, files, operations, result>>

\* Mutated form of Undisturbed: the lengths are compared.
SameLength == There(At) /\ before.length = Len(bytes) /\ before.mask = Stamp(At).mask

Undisturbed == There(At) /\ before = Stamp(At) /\ before.length = Len(bytes)

Captured == [path \in DOMAIN files \cup {At} |->
               IF path = At THEN [bytes |-> bytes, mask |-> before.mask] ELSE files[path]]

TakeStampAgain ==
  /\ Capturing("restamp")
  /\ IF Undisturbed
     THEN /\ files' = Captured
          /\ inventory' = inventory \ {At}
          /\ step' = "stamp"
     ELSE step' = "refused" /\ UNCHANGED <<files, inventory>>
  /\ bytes' = <<>> /\ before' = Missing
  /\ UNCHANGED <<tree, past, changes, kind, found, looked, operations, result>>

\* capture looks for the paths again; what it compares with are the files it has.
AllCaptured ==
  /\ step = "stamp" /\ inventory = {}
  /\ IF kind = "source"
     THEN step' = "rescan" /\ inventory' = DOMAIN files
     ELSE step' = "captured" /\ UNCHANGED inventory
  /\ UNCHANGED <<tree, past, changes, kind, found, looked, before, bytes, files, operations, result>>

-----------------------------------------------------------------------------
\* subset and with_transformation

Cut ==
  /\ step = "captured" /\ kind = "source"
  /\ \E kept \in SUBSET DOMAIN files, asked \in Cuts :
       LET subset == [path \in kept |-> files[path]]
       IN  /\ Canonical(asked) /\ Applicable(subset, asked)
           /\ operations' = asked
           /\ result' = WithTransformation(subset, asked)
  /\ step' = "cut"
  /\ UNCHANGED <<tree, past, changes, kind, found, looked, inventory, before, bytes, files>>

Capture ==
  \/ \E path \in Path : LookAt(path)
  \/ ScanEnds \/ TakeStamp \/ ReadByte \/ TakeStampAgain \/ AllCaptured \/ RescanEnds
  \/ Cut

-----------------------------------------------------------------------------
\* What an edit should leave of a file's bytes: every byte outside the ranges, in
\* order, and each replacement where its range was.
Inside(edits, i) == \E o \in edits : o.start < i /\ i <= o.end
From(edits, i) == {o \in edits : o.start = i - 1}

Piece(all, edits, i) ==
  (IF From(edits, i) = {} THEN <<>> ELSE (CHOOSE o \in From(edits, i) : TRUE).bytes)
    \o (IF i > Len(all) \/ Inside(edits, i) THEN <<>> ELSE <<all[i]>>)

Edited(all, edits) ==
  LET left[i \in 0..(Len(all) + 1)] == IF i = 0 THEN <<>> ELSE left[i - 1] \o Piece(all, edits, i)
  IN  left[Len(all) + 1]

\* What a snapshot has, at any time after, are whole files: each has the bytes and
\* the mask that its path had at one moment since the capture began, less what was
\* cut, however the directory was edited meanwhile; and a file that stayed there
\* is not left out (lib.rs:202-230, 703-802).
SnapshotOfFiles ==
  /\ \A path \in DOMAIN files :
       \E f \in past[path] : f # Missing /\ files[path] = [bytes |-> Contents(f), mask |-> f.mask]
  /\ \A path \in DOMAIN result :
       /\ path \in DOMAIN files /\ result[path].mask = files[path].mask
       /\ result[path].bytes = Edited(files[path].bytes, {o \in operations : o.path = path})
  /\ step \in {"captured", "cut"} =>
       \A path \in Path \ Excluded : Missing \notin past[path] => path \in DOMAIN files

=============================================================================
