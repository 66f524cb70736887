-------------------------- MODULE FrontierScheduler --------------------------
(***************************************************************************)
(* FrontierScheduler::evaluate of crates/reprocut-engine/src/scheduler.rs: *)
(* worker threads take ranks from a shared counter, evaluate them, publish *)
(* preserved ones in the LowestWinner slot and send every verdict over a   *)
(* bounded channel to the calling thread.                                  *)
(*                                                                         *)
(* Indices are 1-based: plans[i] is the code's plans[i - 1].               *)
(***************************************************************************)
EXTENDS LowestWinner, Sequences, Functions

CONSTANTS
  Rank, Inputs,      \* as in Frontier
  JobsRange,         \* values of --jobs
  HostParallelism    \* available_parallelism(), what --jobs 0 stands for

ASSUME SchedulerAssumption ==
  /\ Rank \subseteq Nat
  /\ Inputs \subseteq Seq(Rank)
  /\ \A s \in Inputs : Len(s) < Empty
  /\ JobsRange \subseteq Nat
  /\ HostParallelism \in Nat \ {0}
  /\ Thread \subseteq Nat \ {0}
  /\ \A j \in JobsRange \cup {HostParallelism} : 1..j \subseteq Thread

VARIABLES
  input,      \* the plans as submitted
  jobs,       \* the requested worker count
  outcome,    \* what evaluator(plan) returns, by rank
  phase,      \* "submitted", "running", "duplicate" or "done"
  plans,      \* the plans in rank order
  next,       \* the shared index counter
  pc,         \* where each worker stands
  index,      \* the index each worker took last
  channel,    \* the bounded result channel
  verdicts,   \* the receiver's slots
  winner      \* the index evaluate() returns, or Empty

requestVars == <<input, jobs, outcome>>
vars == <<slotVars, requestVars, phase, plans, next, pc, index, channel, verdicts, winner>>

Verdict == {"preserved", "rejected", "inconclusive"}
Slots == 1..Len(plans)
VerdictOf(i) == outcome[plans[i]]
Ranks(s) == {s[i] : i \in DOMAIN s}

\* requested.clamp(1, plans.len())
Workers ==
  LET requested == IF jobs = 0 THEN HostParallelism ELSE jobs
  IN  IF requested > Len(input) THEN Len(input) ELSE requested

Capacity == 2 * Workers

Init ==
  /\ SlotInit
  /\ input \in Inputs
  /\ jobs \in JobsRange
  /\ outcome \in [Rank -> Verdict]
  /\ phase = "submitted"
  /\ plans = <<>>
  /\ next = 1
  /\ pc = [t \in Thread |-> "stopped"]
  /\ index = [t \in Thread |-> 0]
  /\ channel = <<>>
  /\ verdicts = <<>>
  /\ winner = Empty

(***************************************************************************)
(* The calling thread before the workers start.                            *)
(***************************************************************************)

\* sort_unstable_by_key: some rearrangement in rank order.
Sort ==
  \E order \in Bijection(DOMAIN input, DOMAIN input) :
    /\ plans' = [i \in DOMAIN input |-> input[order[i]]]
    /\ \A i, j \in DOMAIN input : i < j => input[order[i]] <= input[order[j]]

\* plans.windows(2).any(...) on the sorted plans.
Adjacent(s) == \E i \in DOMAIN s : i + 1 \in DOMAIN s /\ s[i] = s[i + 1]

RefuseDuplicate ==
  /\ phase = "submitted"
  /\ Sort
  /\ Adjacent(plans')
  /\ phase' = "duplicate"
  /\ UNCHANGED <<slotVars, requestVars, next, pc, index, channel, verdicts, winner>>

ReturnEmpty ==
  /\ phase = "submitted"
  /\ input = <<>>
  /\ phase' = "done"
  /\ UNCHANGED <<slotVars, requestVars, plans, next, pc, index, channel, verdicts, winner>>

Spawn ==
  /\ phase = "submitted"
  /\ input # <<>>
  /\ Sort
  /\ ~Adjacent(plans')
  /\ phase' = "running"
  /\ pc' = [t \in Thread |-> IF t <= Workers THEN "take" ELSE "stopped"]
  /\ verdicts' = [i \in DOMAIN input |-> "none"]
  /\ UNCHANGED <<slotVars, requestVars, next, index, channel, winner>>

(***************************************************************************)
(* A worker.                                                               *)
(***************************************************************************)
At(t, here) == phase = "running" /\ pc[t] = here

GoTo(t, there) == pc' = [pc EXCEPT ![t] = there]

\* Mutated form of Take: the bound admits one index too many.
TakePastEnd(t) ==
  /\ At(t, "take")
  /\ next' = next + 1
  /\ index' = [index EXCEPT ![t] = next]
  /\ GoTo(t, IF next > Len(plans) + 1 THEN "stopped" ELSE "check")
  /\ UNCHANGED <<slotVars, requestVars, phase, plans, channel, verdicts, winner>>

\* Mutated form of Take: a load of the counter; the increment is lost.
TakeWithoutAdd(t) ==
  /\ At(t, "take")
  /\ next' = next
  /\ index' = [index EXCEPT ![t] = next]
  /\ GoTo(t, IF next > Len(plans) THEN "stopped" ELSE "check")
  /\ UNCHANGED <<slotVars, requestVars, phase, plans, channel, verdicts, winner>>

\* next.fetch_add(1), then the test against the local length.
Take(t) ==
  /\ At(t, "take")
  /\ next' = next + 1
  /\ index' = [index EXCEPT ![t] = next]
  /\ GoTo(t, IF next > Len(plans) THEN "stopped" ELSE "check")
  /\ UNCHANGED <<slotVars, requestVars, phase, plans, channel, verdicts, winner>>

\* lowest.load(): a rank above a published winner is not started, and stops
\* the worker.
Check(t) ==
  /\ At(t, "check")
  /\ \E v \in Loadable(t) :
       /\ Load(t, v)
       /\ GoTo(t, IF v # Empty /\ index[t] > v THEN "stopped" ELSE "evaluate")
  /\ UNCHANGED <<requestVars, phase, plans, next, index, channel, verdicts, winner>>

Evaluate(t) ==
  /\ At(t, "evaluate")
  /\ GoTo(t, IF VerdictOf(index[t]) = "preserved" THEN "claim" ELSE "send")
  /\ UNCHANGED <<slotVars, requestVars, phase, plans, next, index, channel, verdicts, winner>>

\* After a step of claim(): still in its loop, or returned.
AfterClaim(t) == GoTo(t, IF claiming'[t] = Empty THEN "send" ELSE "exchange")

Claim(t) ==
  /\ At(t, "claim")
  /\ ClaimStart(t, index[t])
  /\ AfterClaim(t)
  /\ UNCHANGED <<requestVars, phase, plans, next, index, channel, verdicts, winner>>

ClaimExchange(t) ==
  /\ At(t, "exchange")
  /\ ExchangeOk(t)
  /\ AfterClaim(t)
  /\ UNCHANGED <<requestVars, phase, plans, next, index, channel, verdicts, winner>>

ClaimRetry(t) ==
  /\ At(t, "exchange")
  /\ \E v \in Loadable(t) : ExchangeFail(t, v)
  /\ AfterClaim(t)
  /\ UNCHANGED <<requestVars, phase, plans, next, index, channel, verdicts, winner>>

\* A full channel blocks the worker.
Send(t) ==
  /\ At(t, "send")
  /\ Len(channel) < Capacity
  /\ channel' = Append(channel, [index |-> index[t], verdict |-> VerdictOf(index[t])])
  /\ GoTo(t, "take")
  /\ UNCHANGED <<slotVars, requestVars, phase, plans, next, index, verdicts, winner>>

(***************************************************************************)
(* The calling thread while and after the workers run.                     *)
(***************************************************************************)
Receive ==
  /\ phase = "running"
  /\ channel # <<>>
  /\ verdicts' = [verdicts EXCEPT ![Head(channel).index] = Head(channel).verdict]
  /\ channel' = Tail(channel)
  /\ UNCHANGED <<slotVars, requestVars, phase, plans, next, pc, index, winner>>

\* Every sender is dropped and the channel drained: recv() fails, the scope
\* joins the workers, and the final load sees their writes.
Finish ==
  /\ phase = "running"
  /\ channel = <<>>
  /\ \A t \in Thread : pc[t] = "stopped"
  /\ winner' = IF slot # Empty /\ \A i \in 1..slot : verdicts[i] # "none"
               THEN slot ELSE Empty
  /\ phase' = "done"
  /\ UNCHANGED <<slotVars, requestVars, plans, next, pc, index, channel, verdicts>>

Finished == phase \in {"duplicate", "done"} /\ UNCHANGED vars

WorkerStep(t) ==
  \/ Take(t) \/ Check(t) \/ Evaluate(t)
  \/ Claim(t) \/ ClaimExchange(t) \/ ClaimRetry(t)
  \/ Send(t)

Next ==
  \/ RefuseDuplicate \/ ReturnEmpty \/ Spawn
  \/ \E t \in Thread : WorkerStep(t)
  \/ Receive \/ Finish
  \/ Finished

Spec == Init /\ [][Next]_vars

(***************************************************************************)
(* Threads keep running, and a failed exchange does not repeat for ever    *)
(* against an unchanged slot: the retry that is scheduled fairly is one    *)
(* that observes the slot's new value.                                     *)
(***************************************************************************)
ClaimRefresh(t) == ClaimRetry(t) /\ seen[t] # slot /\ seen'[t] = slot

FairWorkerStep(t) ==
  \/ Take(t) \/ Check(t) \/ Evaluate(t)
  \/ Claim(t) \/ ClaimExchange(t) \/ ClaimRefresh(t)
  \/ Send(t)

Fairness ==
  /\ WF_vars(RefuseDuplicate \/ ReturnEmpty \/ Spawn)
  /\ \A t \in Thread : WF_vars(FairWorkerStep(t))
  /\ WF_vars(Receive)
  /\ WF_vars(Finish)

FairSpec == Spec /\ Fairness

-----------------------------------------------------------------------------
\* The type invariant of the scheduler, its slot and its channel
\* (scheduler.rs:124-170, winner.rs:18-57): an index a worker goes on with is
\* one of the plans', and the channel holds at most twice the workers.
TypeOK ==
  /\ SlotTypeOK
  /\ input \in Inputs
  /\ jobs \in JobsRange
  /\ outcome \in [Rank -> Verdict]
  /\ phase \in {"submitted", "running", "duplicate", "done"}
  /\ plans \in Seq(Rank)
  /\ next \in Nat \ {0}
  /\ pc \in [Thread -> {"take", "check", "evaluate", "claim", "exchange", "send", "stopped"}]
  /\ index \in [Thread -> Nat]
  /\ \A t \in Thread : pc[t] \notin {"take", "stopped"} => index[t] \in Slots
  /\ channel \in Seq([index : Slots, verdict : Verdict])
  /\ Len(channel) <= Capacity
  /\ phase \in {"running", "done"} => verdicts \in [Slots -> Verdict \cup {"none"}]
  /\ winner \in 0..Empty
  /\ phase = "submitted" =>
       /\ plans = <<>> /\ channel = <<>> /\ verdicts = <<>> /\ winner = Empty
       /\ \A t \in Thread : pc[t] = "stopped"

Holds(t, i) == pc[t] \notin {"take", "stopped"} /\ index[t] = i

\* No candidate is evaluated twice: an index is with one worker, in one message
\* or in its verdict slot, never in two places (the fetch_add of
\* scheduler.rs:147).  A second evaluation would send the journal a second
\* record of the same candidate.
EvaluatedOnce ==
  \A i \in Slots :
    /\ \A t, u \in Thread : Holds(t, i) /\ Holds(u, i) => t = u
    /\ \A k, l \in DOMAIN channel : channel[k].index = i /\ channel[l].index = i => k = l
    /\ \A t \in Thread, k \in DOMAIN channel : ~(Holds(t, i) /\ channel[k].index = i)
    /\ phase = "running" /\ verdicts[i] # "none" =>
         /\ \A t \in Thread : ~Holds(t, i)
         /\ \A k \in DOMAIN channel : channel[k].index # i

\* What the caller sees of a state.
Decision ==
  CASE phase = "duplicate" -> [status |-> "refused", winner |-> {}, verdicts |-> {}]
    [] phase = "done"      -> [status   |-> "decided",
                               winner   |-> IF winner = Empty THEN {} ELSE {plans[winner]},
                               verdicts |-> {<<plans[i], verdicts[i]>> :
                                               i \in {k \in Slots : verdicts[k] # "none"}}]
    [] OTHER               -> [status |-> "pending", winner |-> {}, verdicts |-> {}]

Promise == INSTANCE Frontier WITH decision <- Decision

\* The result does not depend on the schedule: whatever the workers'
\* interleaving, stale loads and failed exchanges, evaluate() returns the
\* earliest preserved rank with every verdict before it ("observable winner is
\* independent of completion order", scheduler.rs:92).
ImplementsPromise == Promise!PromiseSpec

\* evaluate() returns: no worker is left blocked on the bounded channel and
\* the drained channel is noticed (scheduler.rs:153-170).
Terminates == <>(phase \in {"duplicate", "done"})

=============================================================================
