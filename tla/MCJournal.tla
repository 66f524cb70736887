----------------------------- MODULE MCJournal -----------------------------
(***************************************************************************)
(* Two processes with a thread each share a journal of at most two         *)
(* sessions, about one candidate, and ask for transitions that clash in    *)
(* their ordinal or in their output.                                       *)
(***************************************************************************)
EXTENDS Journal, TLC

CONSTANTS p, q, source, small, smaller, c, this, that

HostValue == [t \in Thread |-> t]

Link(n, a, b) == [ordinal |-> n, from |-> a, to |-> b, candidate |-> c]

TransitionValue == {Link(0, source, small), Link(0, source, smaller), Link(1, smaller, small)}

\* Nothing tells the processes or the contracts apart.
Alike == Permutations({p, q}) \cup Permutations({this, that})

=============================================================================
