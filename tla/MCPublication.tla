---------------------------- MODULE MCPublication ----------------------------
(***************************************************************************)
(* Small instances of Publication: paths and edits for the snapshot, or    *)
(* members and edits for the verification, or others at the output.        *)
(***************************************************************************)
EXTENDS Publication

Paths == {1, 2, 3}
OptionalPaths == {2}
ExcludedPaths == {3}

\* One byte, two ranges, ranges that touch, overlap or lie outside, a file deleted, and both.
AskedCuts ==
  {{Replace(1, 0, 1, <<>>)},
   {Replace(1, 0, 1, <<"new", "new">>), Replace(1, 1, 2, <<>>)},
   {Replace(1, 1, 2, <<"new">>), Replace(2, 0, 2, <<>>)},
   {Replace(1, 0, 2, <<>>), Replace(1, 1, 2, <<"new">>)},
   {Replace(2, 1, 3, <<>>)},
   {Replace(2, 1, 1, <<>>)},
   {Delete(2)},
   {Delete(1), Replace(1, 0, 1, <<>>)},
   {Delete(1), Replace(2, 1, 2, <<>>)}}

Members == {"evidence", "project", "report"}
DerivedMembers == {"report"}
WriteOrder == <<"project", "report", "evidence">>

Ask(act, changing, editing, othering) ==
  [action |-> act, changes |-> changing, edits |-> editing, others |-> othering]

AllRequests ==
  {Ask("reduce", 2, 0, 0),
   Ask("reduce", 0, 2, 0),
   Ask("reduce", 0, 0, 3),
   Ask("gallery_source", 1, 0, 0),
   Ask("gallery_source", 0, 1, 1),
   Ask("gallery", 0, 2, 2),
   Ask("export", 0, 1, 1),
   Ask("verify", 0, 3, 0),
   Ask("realize", 2, 0, 0)}

=============================================================================
