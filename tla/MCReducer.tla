------------------------------ MODULE MCReducer ------------------------------
(***************************************************************************)
(* Four units in two nested directories.  A failure needs a core of units, *)
(* or shows on up to two unrelated sets of units as well, so that a        *)
(* superset of a failing project need not fail; or it needs a core and is  *)
(* flaky on projects of another core; or every answer is arbitrary.        *)
(***************************************************************************)
EXTENDS Reducer, Hierarchy

MCUnit == 1..4
\* a/a, a/b/a, a/b/b and b
Paths ==
  LET a == 97
      b == 98
  IN  <<<<a, Separator, a>>, <<a, Separator, b, Separator, a>>, <<a, Separator, b, Separator, b>>, <<b>>>>
MCGroups == DirectoryUnitIds(Paths)

Certain(preserving) ==
  [s \in SUBSET MCUnit |-> IF s \in preserving THEN {"preserved"} ELSE {"rejected"}]
WithCore(core) == {s \in SUBSET MCUnit : core \subseteq s}
Flaky(preserving, flaky) ==
  [s \in SUBSET MCUnit |-> IF s \in flaky THEN Verdict ELSE Certain(preserving)[s]]

MCOutcomes ==
  {Certain(WithCore(core) \cup {a, b}) : core, a, b \in SUBSET MCUnit}
    \cup {Flaky(WithCore(core), WithCore(other)) : core, other \in SUBSET MCUnit}

=============================================================================
