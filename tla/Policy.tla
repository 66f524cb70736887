-------------------------------- MODULE Policy --------------------------------
(***************************************************************************)
(* The repetition policy (crates/reprocut-core/src/policy.rs): how many    *)
(* observations decide on a candidate, and when no more are needed.        *)
(* Evidence is the counts of the observations consumed so far.             *)
(***************************************************************************)
EXTENDS Naturals, Sequences, FiniteSets

CandidateVerdict == {"preserved", "rejected", "inconclusive"}

Strict == [runs |-> 3, required |-> 3]

\* An odd number of runs, and at least two thirds of them.
Flaky ==
  {p \in [runs : 5..101, required : 1..101] :
     p.runs % 2 = 1 /\ p.required <= p.runs /\ p.required * 3 >= p.runs * 2}

EvaluationPolicy == {Strict} \cup Flaky

Evidence == [preserved : Nat, rejected : Nat, inconclusive : Nat]

NoEvidence == [preserved |-> 0, rejected |-> 0, inconclusive |-> 0]

Observed(e) == e.preserved + e.rejected + e.inconclusive

Record(e, verdict) == [e EXCEPT ![verdict] = @ + 1]

\* saturating_sub
Remaining(p, e) == IF Observed(e) > p.runs THEN 0 ELSE p.runs - Observed(e)

\* Mutated form of Terminal: a threshold that can still just be reached is given up.
TerminalEager(p, e) ==
  IF e.preserved >= p.required THEN "preserved"
  ELSE IF e.preserved + Remaining(p, e) > p.required THEN "none"
  ELSE IF e.inconclusive = 0 THEN "rejected" ELSE "inconclusive"

Terminal(p, e) ==
  IF e.preserved >= p.required THEN "preserved"
  ELSE IF e.preserved + Remaining(p, e) >= p.required THEN "none"
  ELSE IF e.inconclusive = 0 THEN "rejected" ELSE "inconclusive"

Consumed(p, e) == Terminal(p, e) # "none" \/ Observed(e) >= p.runs

Decision(p, e) == IF Terminal(p, e) = "none" THEN "inconclusive" ELSE Terminal(p, e)

-----------------------------------------------------------------------------
\* aggregate() over verdicts that are all at hand.

CountsOf(verdicts, n) ==
  LET Count(v) == Cardinality({i \in 1..n : verdicts[i] = v})
  IN  [preserved |-> Count("preserved"), rejected |-> Count("rejected"), inconclusive |-> Count("inconclusive")]

Aggregate(p, verdicts) ==
  LET last == IF Len(verdicts) < p.runs THEN Len(verdicts) ELSE p.runs
      stop == CHOOSE n \in 0..last :
                /\ n # last => n > 0 /\ Terminal(p, CountsOf(verdicts, n)) # "none"
                /\ \A m \in 1..(n - 1) : Terminal(p, CountsOf(verdicts, m)) = "none"
  IN  Decision(p, CountsOf(verdicts, stop))

=============================================================================
