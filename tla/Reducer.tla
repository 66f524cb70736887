------------------------------- MODULE Reducer -------------------------------
(***************************************************************************)
(* reduce_hierarchical_frontiers of crates/reprocut-core/src/reducer.rs:   *)
(* directory groups, then ddmin over ordered subset and complement         *)
(* frontiers, then a sweep over single units.                              *)
(*                                                                         *)
(* A frontier is evaluated in one step, as Frontier says it may be: the    *)
(* step picks the earliest preserved candidate out of the verdicts the     *)
(* candidates can get.  failed is the engine's first_error: an evaluation  *)
(* that goes wrong yields no verdict of its own, and from then on nothing  *)
(* is evaluated.  The counters of the report (attempts, accepted_sizes)    *)
(* are left out.                                                           *)
(***************************************************************************)
EXTENDS Naturals, Sequences, FiniteSets

CONSTANTS
  Unit,       \* unit identifiers, in inventory order
  Groups,     \* the units below each directory, parents first
  Outcomes    \* the behaviours of the command under test

Verdict == {"preserved", "rejected", "inconclusive"}

Parameters ==
  /\ Unit \subseteq Nat /\ IsFiniteSet(Unit)
  /\ Groups \in Seq(SUBSET Unit)
  /\ Outcomes \subseteq [SUBSET Unit -> SUBSET Verdict]

ASSUME ReducerAssumption == Parameters

VARIABLES
  outcome,      \* as in Reduction
  stage,        \* "directories", "ddmin", "sweep" or "done"
  active,       \* the retained units
  group,        \* the next directory group
  granularity,
  position,     \* of the sweep, in the order of the retained units
  failed        \* first_error is set

vars == <<outcome, stage, active, group, granularity, position, failed>>

Init ==
  /\ outcome \in Outcomes
  /\ stage = "directories"
  /\ active = Unit
  /\ group = 1
  /\ granularity = 2
  /\ position = 0
  /\ failed = FALSE

Size == Cardinality(active)

Position(u) == Cardinality({v \in active : v < u})

CeilDiv(a, b) == (a + b - 1) \div b

\* ordered_frontier: contiguous chunks of the retained units, first each chunk
\* alone and then everything but it.
ChunkSize == CeilDiv(Size, IF granularity > Size THEN Size ELSE granularity)
Parts == CeilDiv(Size, ChunkSize)
Part(i) == {u \in active : Position(u) \div ChunkSize = i - 1}
OrderedFrontier ==
  [i \in 1..(2 * Parts) |-> IF i <= Parts THEN Part(i) ELSE active \ Part(i - Parts)]

\* The frontier before the search when it asks for an evaluation.
WithoutGroup == active \ Groups[group]
WithoutPosition == active \ {u \in active : Position(u) = position}

Frontier ==
  CASE stage = "directories" -> <<WithoutGroup>>
    [] stage = "ddmin"       -> OrderedFrontier
    [] OTHER                 -> <<WithoutPosition>>

Asking ==
  \/ stage = "directories" /\ group <= Len(Groups) /\ WithoutGroup # active
  \/ stage = "ddmin" /\ Size >= 2
  \/ stage = "sweep" /\ position < Size

Ranks == 0..(2 * Cardinality(Unit))

\* earliest_preserved finds candidate i of the frontier, or nothing for 0.
Evaluated(i) ==
  /\ Asking
  /\ i \in 0..Len(Frontier)
  /\ failed' \in {failed, TRUE}
  /\ i # 0 => ~failed /\ "preserved" \in outcome[Frontier[i]]
  /\ failed' \/ \A j \in 1..Len(Frontier) : j < i \/ i = 0 => outcome[Frontier[j]] # {"preserved"}

Accepted(i) == IF i = 0 THEN active ELSE Frontier[i]

\* A group with no retained unit is passed over.
SkipGroup ==
  /\ stage = "directories"
  /\ group <= Len(Groups)
  /\ ~Asking
  /\ group' = group + 1
  /\ UNCHANGED <<outcome, stage, active, granularity, position, failed>>

TryGroup(i) ==
  /\ stage = "directories"
  /\ Evaluated(i)
  /\ active' = Accepted(i)
  /\ group' = group + 1
  /\ UNCHANGED <<outcome, stage, granularity, position>>

StartDdmin ==
  /\ stage = "directories"
  /\ group > Len(Groups)
  /\ stage' = "ddmin"
  /\ UNCHANGED <<outcome, active, group, granularity, position, failed>>

\* Mutated form of AcceptCandidate: .max(2) is missing.
AcceptUnclamped(i) ==
  /\ stage = "ddmin"
  /\ i # 0
  /\ Evaluated(i)
  /\ active' = Accepted(i)
  /\ granularity' = IF 2 * i <= Len(Frontier) THEN 2 ELSE granularity - 1
  /\ UNCHANGED <<outcome, stage, group, position>>

\* Mutated form of AcceptCandidate: a preserved complement leaves the granularity.
AcceptAsFine(i) ==
  /\ stage = "ddmin"
  /\ i # 0
  /\ Evaluated(i)
  /\ active' = Accepted(i)
  /\ granularity' = IF 2 * i <= Len(Frontier) THEN 2 ELSE granularity
  /\ UNCHANGED <<outcome, stage, group, position>>

\* A preserved chunk restarts at two parts; a preserved complement keeps about
\* the chunk size it had.
AcceptCandidate(i) ==
  /\ stage = "ddmin"
  /\ i # 0
  /\ Evaluated(i)
  /\ active' = Accepted(i)
  /\ granularity' = IF 2 * i <= Len(Frontier) \/ granularity <= 3 THEN 2 ELSE granularity - 1
  /\ UNCHANGED <<outcome, stage, group, position>>

Min2(a, b) == IF a < b THEN a ELSE b

\* Nothing preserved: finer parts, until the parts are single units.
RefinePartition(i) ==
  /\ stage = "ddmin"
  /\ i = 0
  /\ Evaluated(i)
  /\ stage' = IF granularity >= Size THEN "sweep" ELSE stage
  /\ granularity' = IF granularity >= Size THEN granularity ELSE Min2(2 * granularity, Size)
  /\ UNCHANGED <<outcome, active, group, position>>

StartSweep ==
  /\ stage = "ddmin"
  /\ Size < 2
  /\ stage' = "sweep"
  /\ UNCHANGED <<outcome, active, group, granularity, position, failed>>

\* Mutated form of SweepUnit: the position stays where it is.
SweepStuck(i) ==
  /\ stage = "sweep"
  /\ Evaluated(i)
  /\ active' = Accepted(i)
  /\ UNCHANGED <<outcome, stage, group, granularity, position>>

\* A cut leaves the next unit at the same position.
SweepUnit(i) ==
  /\ stage = "sweep"
  /\ Evaluated(i)
  /\ active' = Accepted(i)
  /\ position' = IF i = 1 THEN position ELSE position + 1
  /\ UNCHANGED <<outcome, stage, group, granularity>>

\* Mutated form of Finish: the last unit is never tried.
FinishEarly ==
  /\ stage = "sweep"
  /\ position + 1 >= Size
  /\ stage' = "done"
  /\ UNCHANGED <<outcome, active, group, granularity, position, failed>>

Finish ==
  /\ stage = "sweep"
  /\ position >= Size
  /\ stage' = "done"
  /\ UNCHANGED <<outcome, active, group, granularity, position, failed>>

Finished == stage = "done" /\ UNCHANGED vars

\* The search goes on with the verdicts of a frontier, or without asking.
Answered(i) == TryGroup(i) \/ AcceptCandidate(i) \/ RefinePartition(i) \/ SweepUnit(i)

Advance == SkipGroup \/ StartDdmin \/ StartSweep \/ Finish

Next ==
  \/ \E i \in Ranks : Answered(i)
  \/ Advance
  \/ Finished

Spec == Init /\ [][Next]_vars

\* The search is a sequential loop over an evaluator that returns.
FairSpec == Spec /\ WF_vars(Next)

-----------------------------------------------------------------------------
\* The type invariant of the search state (reducer.rs:138-200).  The
\* granularity is at least two, and until the sweep at most the number of retained
\* units, or two where fewer are left: also after a complement was kept, which
\* takes one from the granularity but a whole chunk from the units.
TypeOK ==
  /\ outcome \in [SUBSET Unit -> SUBSET Verdict]
  /\ stage \in {"directories", "ddmin", "sweep", "done"}
  /\ active \subseteq Unit
  /\ group \in 1..(Len(Groups) + 1)
  /\ granularity \in Nat /\ granularity >= 2
  /\ stage = "directories" => granularity = 2
  /\ stage = "ddmin" => granularity = 2 \/ granularity <= Size
  /\ position \in IF stage \in {"directories", "ddmin"} THEN {0} ELSE 0..Size
  /\ failed \in BOOLEAN

Status ==
  CASE stage # "done" -> "searching"
    [] stage = "done" /\ failed -> "abandoned"
    [] OTHER -> "settled"

Promise == INSTANCE Reduction WITH kept <- active, status <- Status

\* Every accepted cut is a preserved set of units, and a search without errors
\* of a command that always answers alike settles on units none of which can be
\* removed alone, even where a superset of a failing project need not fail: the
\* single pass of the sweep (reducer.rs:199-224) never has to go back.
ImplementsReduction == Promise!ReductionSpec

\* The search ends, even when a flaky command answers differently every time
\* (reducer.rs:144-224).
Terminates == <>(stage = "done")

=============================================================================
