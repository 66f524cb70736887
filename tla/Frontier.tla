------------------------------ MODULE Frontier ------------------------------
(***************************************************************************)
(* What the scheduler promises the engine about one frontier, whatever the *)
(* number of workers and the order in which they finish.                   *)
(*                                                                         *)
(* A frontier is a sequence of ranks; outcome[r] is what evaluating the    *)
(* candidate of rank r yields.  The decision names the earliest preserved  *)
(* rank, if there is one, and carries a verdict for at least every rank up *)
(* to it (for every rank when nothing is preserved).                       *)
(***************************************************************************)
EXTENDS Naturals, Sequences

CONSTANTS
  Rank,     \* candidate ranks, totally ordered
  Inputs    \* the frontiers the engine may submit

Verdict == {"preserved", "rejected", "inconclusive"}

VARIABLES
  input,      \* the submitted ranks, in any order
  outcome,    \* the verdict each candidate's evaluation yields
  decision    \* what evaluate() returns, once it has

promiseVars == <<input, outcome, decision>>

Ranks(s) == {s[i] : i \in DOMAIN s}

Duplicated(s) == \E i, j \in DOMAIN s : i # j /\ s[i] = s[j]

Pending == [status |-> "pending", winner |-> {}, verdicts |-> {}]

\* The earliest preserved rank, as a set of at most one element.
Earliest ==
  LET preserved == {r \in Ranks(input) : outcome[r] = "preserved"}
  IN  {r \in preserved : \A q \in preserved : r <= q}

PromiseInit ==
  /\ input \in Inputs
  /\ outcome \in [Rank -> Verdict]
  /\ decision = Pending

\* Two candidates of one rank: nothing is evaluated.
Refuse ==
  /\ decision = Pending
  /\ Duplicated(input)
  /\ decision' = [status |-> "refused", winner |-> {}, verdicts |-> {}]
  /\ UNCHANGED <<input, outcome>>

\* Which ranks above the winner were evaluated depends on the schedule; that
\* the ranks below it were, and who won, does not.
Decide ==
  /\ decision = Pending
  /\ ~Duplicated(input)
  /\ \E evaluated \in SUBSET Ranks(input) :
       /\ \A r \in Ranks(input) : (\A w \in Earliest : r <= w) => r \in evaluated
       /\ decision' = [status   |-> "decided",
                       winner   |-> Earliest,
                       verdicts |-> {<<r, outcome[r]>> : r \in evaluated}]
  /\ UNCHANGED <<input, outcome>>

PromiseNext == Refuse \/ Decide

PromiseSpec == PromiseInit /\ [][PromiseNext]_promiseVars

=============================================================================
