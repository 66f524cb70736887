---------------------------- MODULE LowestWinner ----------------------------
(***************************************************************************)
(* The lock-free slot of crates/reprocut-core/src/winner.rs, shared by the *)
(* workers of one frontier: an AtomicUsize that only ever moves down.      *)
(*                                                                         *)
(* Every access is an atomic access to one location, so the values a       *)
(* thread reads follow the location's modification order but may lag       *)
(* behind it: a load returns any value written so far that is not older    *)
(* than the last one the thread saw.  Values only decrease, so "not older" *)
(* is "not greater".  A successful compare-exchange reads the last value;  *)
(* compare_exchange_weak may also fail spuriously.                         *)
(***************************************************************************)
EXTENDS Naturals

CONSTANTS
  Thread,   \* the threads that share the slot
  Empty     \* usize::MAX, the sentinel of an unclaimed slot

ASSUME EmptyAssumption == Empty \in Nat \ {0}

VARIABLES
  slot,      \* the last value in the slot's modification order
  written,   \* every value the slot has held
  seen,      \* per thread: the value it last read or wrote (`current` in claim)
  claiming   \* per thread: the candidate of its running claim, or Empty

slotVars == <<slot, written, seen, claiming>>

SlotTypeOK ==
  /\ slot \in 0..Empty
  /\ written \subseteq 0..Empty
  /\ seen \in [Thread -> 0..Empty]
  /\ claiming \in [Thread -> 0..Empty]

SlotInit ==
  /\ slot = Empty
  /\ written = {Empty}
  /\ seen = [t \in Thread |-> Empty]
  /\ claiming = [t \in Thread |-> Empty]

\* What an acquiring load of thread t may return.
Loadable(t) == {v \in written : v <= seen[t]}

\* load(): thread t reads v.
Load(t, v) ==
  /\ v \in Loadable(t)
  /\ seen' = [seen EXCEPT ![t] = v]
  /\ UNCHANGED <<slot, written, claiming>>

\* claim(candidate) up to its first load; the loop is entered only with a
\* candidate below the value read.
ClaimStart(t, candidate) ==
  /\ candidate < Empty
  /\ claiming[t] = Empty
  /\ \E v \in Loadable(t) :
       /\ seen' = [seen EXCEPT ![t] = v]
       /\ claiming' = [claiming EXCEPT ![t] = IF candidate < v THEN candidate ELSE Empty]
  /\ UNCHANGED <<slot, written>>

\* Mutated form of ExchangeOk: a plain store in place of the compare-exchange.
StoreWithoutCompare(t) ==
  /\ claiming[t] < Empty
  /\ slot' = claiming[t]
  /\ written' = written \cup {claiming[t]}
  /\ seen' = [seen EXCEPT ![t] = claiming[t]]
  /\ claiming' = [claiming EXCEPT ![t] = Empty]

\* compare_exchange_weak succeeds: the slot still holds what the thread saw.
ExchangeOk(t) ==
  /\ claiming[t] < Empty
  /\ slot = seen[t]
  /\ slot' = claiming[t]
  /\ written' = written \cup {claiming[t]}
  /\ seen' = [seen EXCEPT ![t] = claiming[t]]
  /\ claiming' = [claiming EXCEPT ![t] = Empty]

\* Mutated form of ExchangeFail: the loop does not take over the observed value.
FailKeepsCurrent(t, v) ==
  /\ claiming[t] < Empty
  /\ v \in Loadable(t)
  /\ UNCHANGED slotVars

\* compare_exchange_weak fails and observes v; the loop goes on only while the
\* candidate is lower than v.
ExchangeFail(t, v) ==
  /\ claiming[t] < Empty
  /\ v \in Loadable(t)
  /\ seen' = [seen EXCEPT ![t] = v]
  /\ claiming' = [claiming EXCEPT ![t] = IF claiming[t] < v THEN claiming[t] ELSE Empty]
  /\ UNCHANGED <<slot, written>>

=============================================================================
