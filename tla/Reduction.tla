------------------------------ MODULE Reduction ------------------------------
(***************************************************************************)
(* What the file search promises, whatever order it tries candidates in:   *)
(* the retained units only ever shrink, each time to a candidate that was  *)
(* seen to preserve the failure, and, when evaluating a candidate always   *)
(* gives the same verdict, the search settles only where no single unit    *)
(* can be removed ("locally irreducible retained units",                   *)
(* crates/reprocut-core/src/reducer.rs:41).                                *)
(***************************************************************************)
CONSTANT Unit    \* the removable units of the project

Verdict == {"preserved", "rejected", "inconclusive"}

VARIABLES
  outcome,    \* the verdicts evaluating each set of units may yield
  kept,       \* the retained units
  status      \* "searching", "settled" or "abandoned"

reductionVars == <<outcome, kept, status>>

ReductionInit ==
  /\ outcome \in [SUBSET Unit -> SUBSET Verdict]
  /\ kept = Unit
  /\ status = "searching"

Shrink ==
  /\ status = "searching"
  /\ \E smaller \in SUBSET kept :
       /\ smaller # kept
       /\ "preserved" \in outcome[smaller]
       /\ kept' = smaller
  /\ UNCHANGED <<outcome, status>>

Deterministic == \A s \in SUBSET Unit : \E v \in Verdict : outcome[s] = {v}

Irreducible == \A u \in kept : outcome[kept \ {u}] # {"preserved"}

Settle ==
  /\ status = "searching"
  /\ Deterministic => Irreducible
  /\ status' = "settled"
  /\ UNCHANGED <<outcome, kept>>

\* An evaluation went wrong: the retained units are not reported.
Abandon ==
  /\ status = "searching"
  /\ status' = "abandoned"
  /\ UNCHANGED <<outcome, kept>>

ReductionNext == Shrink \/ Settle \/ Abandon

ReductionSpec == ReductionInit /\ [][ReductionNext]_reductionVars

=============================================================================
