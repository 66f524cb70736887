------------------------------ MODULE Fixpoint ------------------------------
(***************************************************************************)
(* What the structured reduction promises: the project is replaced only by *)
(* what an offered edit of it becomes, never by a project it has been      *)
(* before, and only by one that was seen to fail.  It settles on a project *)
(* that was verified at the end.  If preparation leaves edits as they are  *)
(* and verdicts do not change, it settles where no offered edit fails      *)
(* ("until no explored transformation can make the current result          *)
(* smaller", README.md:93-94).                                             *)
(***************************************************************************)
CONSTANTS
  Project,       \* project contents, by digest
  Origin,        \* the file search's result
  Preserved,     \* the evidence of a preserved failure
  Results(_, _), \* what the edits offered for a project may become, with a preparation
  Repeatable(_), \* a preparation that always gives one result
  Settling(_, _) \* a command and a preparation for which the end is a fixpoint

VARIABLES
  command,       \* the evidence that running each project may yield
  preparation,   \* what preparing each candidate may yield
  kept,          \* the project
  visited,       \* the projects it has been
  status         \* "searching" or "settled"

fixpointVars == <<command, preparation, kept, visited, status>>

Fails(p) == command[p] \cap Preserved # {}

FixpointInit ==
  /\ kept = Origin
  /\ visited = {Origin}
  /\ status = "searching"

Cut ==
  /\ status = "searching"
  /\ kept' \in Results(preparation, kept) \ visited
  /\ Repeatable(preparation) => Fails(kept')
  /\ visited' = visited \cup {kept'}
  /\ UNCHANGED <<command, preparation, status>>

Settle ==
  /\ status = "searching"
  /\ Repeatable(preparation) => Fails(kept)
  /\ Settling(command, preparation) => \A p \in Results(preparation, kept) \ visited : ~Fails(p)
  /\ status' = "settled"
  /\ UNCHANGED <<command, preparation, kept, visited>>

FixpointNext == Cut \/ Settle

FixpointSpec == FixpointInit /\ [][FixpointNext]_fixpointVars

=============================================================================
