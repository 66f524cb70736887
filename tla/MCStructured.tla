---------------------------- MODULE MCStructured ----------------------------
(***************************************************************************)
(* A manifest with one dependency, and a source file with up to two equal  *)
(* statements in an `if`, and a return.  Removing the dependency is a      *)
(* prepared edit, whose preparation writes a lock.  Deleting either of two *)
(* equal statements gives the same contents; the key of deleting the `if`  *)
(* sorts between them, as keys hold decimal offsets.                       *)
(***************************************************************************)
EXTENDS Structured

MCProject == [dependency : {"there", "removed", "locked", "relocked"}, statements : 0..2, wrapped : BOOLEAN, returns : BOOLEAN]
MCOrigin == [dependency |-> "there", statements |-> 2, wrapped |-> TRUE, returns |-> FALSE]
ReturningOrigin == [MCOrigin EXCEPT !.returns = TRUE]

Plain(p) == [edit |-> p, prepared |-> FALSE]
Cut(p) == [p EXCEPT !.statements = @ - 1]
Emptied(p) == [p EXCEPT !.statements = 0, !.wrapped = FALSE]
Unwrapped(p) == [p EXCEPT !.wrapped = FALSE]

MCOffers ==
  [p \in MCProject |->
    [manifests |-> IF p.dependency = "there"
                   THEN <<[edit |-> [p EXCEPT !.dependency = "removed"], prepared |-> TRUE]>> ELSE <<>>,
     delete |-> (IF p.statements > 0 THEN <<Plain(Cut(p))>> ELSE <<>>)
                  \o (IF p.wrapped THEN <<Plain(Emptied(p))>> ELSE <<>>)
                  \o (IF p.statements > 1 THEN <<Plain(Cut(p))>> ELSE <<>>)
                  \o (IF p.returns THEN <<Plain([p EXCEPT !.returns = FALSE])>> ELSE <<>>),
     hoist |-> IF p.wrapped THEN <<Plain(Unwrapped(p))>> ELSE <<>>]]

-----------------------------------------------------------------------------
\* Preparations: what a lock is, and whether scripts write statements anew.

Locks(c, lock) == [c.edit EXCEPT !.dependency = lock]

Preparation(locks) ==
  [c \in Candidate |-> IF c.prepared THEN {IF l = Refused THEN l ELSE Locks(c, l) : l \in locks} ELSE {c.edit}]

Scripted(statements) ==
  [c \in Candidate |-> IF c.edit.statements = 0 THEN {[c.edit EXCEPT !.statements = statements]} ELSE {c.edit}]

\* Commands: the failure needs a number of statements that is in a set, and
\* maybe the dependency and the wrapper.

Needs(p, counts, dependency, wrapper) ==
  /\ p.statements \in counts
  /\ dependency => p.dependency = "there"
  /\ wrapper => p.wrapped

SteadyCommands ==
  {[p \in MCProject |-> IF Needs(p, counts \cup {2}, dependency, wrapper) THEN {"preserved"} ELSE {"rejected"}] :
     counts \in SUBSET {0, 1}, dependency, wrapper \in BOOLEAN}

WaveringCommands ==
  {[p \in MCProject |-> IF p.statements \in counts THEN {"preserved", other} ELSE {"preserved"}] :
     counts \in {{0}, {1}, {0, 1}}, other \in {"mostly preserved", "rejected", "inconclusive"}}

SteadySettings ==
  [command : SteadyCommands, preparation : {Preparation({"locked"}), Preparation({Refused}), Scripted(2)},
   jobs : {{1, 2}}, errors : {1}, crashes : {1}]

WaveringSettings ==
  [command : WaveringCommands, preparation : {Preparation({"locked"}), Scripted(2)},
   jobs : {{1, 2}}, errors : {0}, crashes : {1}]
  \cup [command : SteadyCommands, preparation : {Preparation({"locked", "relocked"}), Preparation({"locked", Refused})},
        jobs : {{2}}, errors : {0}, crashes : {1}]

MCSettings == SteadySettings \cup WaveringSettings

\* A lock that depends on when it is written, and a failure that depends on it.
ReplacedSettings ==
  [command : {[p \in MCProject |-> IF p.dependency = "relocked" THEN {"rejected"} ELSE {"preserved"}]},
   preparation : {Preparation({"locked", "relocked"})}, jobs : {{1}}, errors : {0}, crashes : {1}]

\* Scripts that write a statement anew, and a failure that needs the dependency
\* and, unlike the origin, no `if`.
ScriptedSettings ==
  [command : {[p \in MCProject |-> IF p.dependency = "there" /\ (p = ReturningOrigin \/ ~p.wrapped) THEN {"preserved"} ELSE {"rejected"}]},
   preparation : {Scripted(1)}, jobs : {{1}}, errors : {0}, crashes : {0}]

=============================================================================
