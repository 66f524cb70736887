------------------------------ MODULE MCSession ------------------------------
(***************************************************************************)
(* Three units, the first two below one directory.  Steady commands always  *)
(* give a candidate the same verdict; a wavering one may be inconclusive   *)
(* where it otherwise fails.                                               *)
(***************************************************************************)
EXTENDS Session, Hierarchy

MCUnit == 1..3
\* a/a, a/b and b
Paths ==
  LET a == 97
      b == 98
  IN  <<<<a, Separator, a>>, <<a, Separator, b>>, <<b>>>>
MCGroups == DirectoryUnitIds(Paths)
Subsets == SUBSET MCUnit

WithCore(core) == {s \in Subsets : core \subseteq s}

Repeating(preserved, inconclusive) ==
  [s \in Subsets |-> IF s \in inconclusive THEN {"inconclusive"}
                     ELSE IF s \in preserved THEN {"preserved"} ELSE {"rejected"}]

Wavering(preserved, wavering) ==
  [s \in Subsets |-> IF s \in preserved
                     THEN {"preserved"} \cup (IF s \in wavering THEN {"inconclusive"} ELSE {})
                     ELSE {"rejected"}]

SteadyCommands == {Repeating(WithCore(core) \cup {a}, {b}) : core, a \in Subsets, b \in {{}, {2, 3}}}
WaveringCommands ==
  {c \in {Wavering(WithCore(core) \cup {a}, {b}) : core, b \in Subsets, a \in {{}, {1}, {3}}} :
     \E s \in Subsets : Cardinality(c[s]) = 2}

\* An error can change the winner only where several workers run.
SteadySettings ==
  [command : SteadyCommands, jobs : {{1, 2}}, errors : {0}, crashes : {2}]
    \cup [command : SteadyCommands, jobs : {{1}}, errors : {1}, crashes : {1}]

WaveringSettings ==
  [command : WaveringCommands, jobs : {{1, 2}}, errors : {1}, crashes : {1}]

MCSettings == SteadySettings \cup WaveringSettings

\* One worker, no errors: a run is interrupted once.
InterruptedSettings ==
  [command : WaveringCommands, jobs : {{1}}, errors : {0}, crashes : {1}]

=============================================================================
