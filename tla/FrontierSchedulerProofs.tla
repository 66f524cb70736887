----------------------- MODULE FrontierSchedulerProofs -----------------------
(***************************************************************************)
(* Proofs about FrontierScheduler: type correctness, evaluation of each    *)
(* candidate at most once, and that every schedule returns what Frontier   *)
(* promises.                                                               *)
(***************************************************************************)
EXTENDS FrontierScheduler, SequenceTheorems, TLAPS

Duplicated(s) == Promise!Duplicated(s)

-----------------------------------------------------------------------------
(***************************************************************************)
(* The inductive strengthening of the result theorem.                      *)
(***************************************************************************)
\* The plans the workers share are the submitted ranks, strictly increasing.
PlansSorted ==
  phase \in {"running", "done"} =>
    /\ Len(plans) = Len(input)
    /\ Ranks(plans) = Ranks(input)
    /\ ~Duplicated(input)
    /\ \A i, j \in Slots : i < j => plans[i] < plans[j]

\* Every value written is at or above the slot, and a thread has seen one.
SlotLowest ==
  /\ slot \in written
  /\ \A v \in written : slot <= v
  /\ \A t \in Thread : seen[t] \in written

\* Only preserved candidates reach the slot.
ClaimsPreserved ==
  /\ \A v \in written \ {Empty} : phase \in {"running", "done"} /\ v \in Slots /\ VerdictOf(v) = "preserved"
  /\ \A t \in Thread :
       /\ pc[t] \in {"claim", "exchange"} => VerdictOf(index[t]) = "preserved"
       /\ claiming[t] # Empty <=> pc[t] = "exchange"
       /\ claiming[t] # Empty => claiming[t] = index[t] /\ index[t] < seen[t]

\* A preserved verdict is published only after the slot is at or below it.
PublishedAfterClaim ==
  /\ \A t \in Thread : pc[t] = "send" /\ VerdictOf(index[t]) = "preserved" => slot <= index[t]
  /\ \A k \in DOMAIN channel :
       /\ channel[k].verdict = VerdictOf(channel[k].index)
       /\ channel[k].verdict = "preserved" => slot <= channel[k].index
  /\ phase \in {"running", "done"} => \A i \in Slots :
       verdicts[i] # "none" => /\ verdicts[i] = VerdictOf(i)
                               /\ verdicts[i] = "preserved" => slot <= i

\* An index handed out is with a worker, in a message, decided, or above a
\* published winner.
Accounted ==
  phase \in {"running", "done"} => \A i \in Slots :
    \/ next <= i
    \/ slot < i
    \/ verdicts[i] # "none"
    \/ \E t \in Thread : Holds(t, i)
    \/ \E k \in DOMAIN channel : channel[k].index = i

\* A worker stops only when the indices are used up or all above a winner.
StoppedWorkers ==
  phase = "running" => \A t \in 1..Workers : pc[t] = "stopped" => next > Len(plans) \/ slot < next

\* An index in use is one the counter has passed.
Taken ==
  /\ \A t \in Thread : pc[t] \notin {"take", "stopped"} => index[t] < next
  /\ \A k \in DOMAIN channel : channel[k].index < next
  /\ phase \in {"running", "done"} => \A i \in Slots : verdicts[i] # "none" => i < next

Quiet ==
  /\ phase \notin {"running", "done"} => written = {Empty} /\ next = 1 /\ channel = <<>>
  /\ phase # "running" => \A t \in Thread : pc[t] = "stopped"

\* The returned index is the slot's, and the frontier is decided up to it.
Returned ==
  phase = "done" => winner = slot /\ \A i \in Slots : i <= slot => verdicts[i] # "none"

IInv ==
  /\ TypeOK
  /\ PlansSorted /\ SlotLowest /\ ClaimsPreserved
  /\ PublishedAfterClaim /\ Accounted /\ Taken /\ StoppedWorkers /\ Quiet /\ Returned


(***************************************************************************)
(* The sort, and the number of workers.                                    *)
(***************************************************************************)
LEMMA SortProperties ==
  ASSUME SchedulerAssumption, input \in Inputs, Sort
  PROVE  /\ plans' \in Seq(Rank)
         /\ Len(plans') = Len(input)
         /\ DOMAIN plans' = 1..Len(input)
         /\ Ranks(plans') = Ranks(input)
         /\ \A i, j \in 1..Len(input) : i < j => plans'[i] <= plans'[j]
         /\ Adjacent(plans') => Duplicated(input)
         /\ ~Adjacent(plans') => /\ ~Duplicated(input)
                                 /\ \A i, j \in 1..Len(input) : i < j => plans'[i] < plans'[j]
<1>1. input \in Seq(Rank) /\ DOMAIN input = 1..Len(input) /\ Len(input) \in Nat
  BY DEF SchedulerAssumption
<1>2. PICK order \in Bijection(DOMAIN input, DOMAIN input) :
        /\ plans' = [i \in DOMAIN input |-> input[order[i]]]
        /\ \A i, j \in DOMAIN input : i < j => input[order[i]] <= input[order[j]]
  BY DEF Sort
<1>3. /\ order \in [1..Len(input) -> 1..Len(input)]
      /\ \A i, j \in 1..Len(input) : order[i] = order[j] => i = j
      /\ \A k \in 1..Len(input) : \E i \in 1..Len(input) : order[i] = k
  BY <1>1, <1>2 DEF Bijection, Injection, Surjection, IsInjective
<1>4. /\ plans' = [i \in 1..Len(input) |-> input[order[i]]]
      /\ \A i \in 1..Len(input) : input[order[i]] \in Rank
  BY <1>1, <1>2, <1>3
<1>5. plans' \in Seq(Rank) /\ Len(plans') = Len(input) /\ DOMAIN plans' = 1..Len(input)
  BY <1>1, <1>4, IsASeq
<1>6. Ranks(plans') = Ranks(input)
  <2>1. ASSUME NEW i \in 1..Len(input) PROVE plans'[i] \in Ranks(input)
    BY <1>1, <1>3, <1>4 DEF Ranks
  <2>2. ASSUME NEW k \in 1..Len(input) PROVE input[k] \in Ranks(plans')
    <3>1. PICK i \in 1..Len(input) : order[i] = k
      BY <1>3
    <3> QED
      BY <3>1, <1>4, <1>5 DEF Ranks
  <2> QED
    BY <1>1, <1>5, <2>1, <2>2 DEF Ranks
<1>7. \A i, j \in 1..Len(input) : i < j => plans'[i] <= plans'[j]
  BY <1>1, <1>2, <1>4
<1>8. ASSUME Adjacent(plans') PROVE Duplicated(input)
  <2>1. PICK i \in 1..Len(input) : i + 1 \in 1..Len(input) /\ plans'[i] = plans'[i + 1]
    BY <1>5, <1>8 DEF Adjacent
  <2>2. order[i] # order[i + 1] /\ input[order[i]] = input[order[i + 1]]
    BY <1>3, <1>4, <2>1
  <2> QED
    BY <1>1, <1>3, <2>1, <2>2 DEF Duplicated, Promise!Duplicated
<1>9. ASSUME ~Adjacent(plans')
      PROVE  \A i, j \in 1..Len(input) : i < j => plans'[i] < plans'[j]
  <2> SUFFICES ASSUME NEW i \in 1..Len(input), NEW j \in 1..Len(input), i < j
               PROVE  plans'[i] < plans'[j]
    OBVIOUS
  <2>1. i + 1 \in 1..Len(input) /\ (i + 1 = j \/ i + 1 < j)
    BY <1>1
  <2>2. plans'[i] # plans'[i + 1]
    BY <1>5, <1>9, <2>1 DEF Adjacent
  <2>3. plans'[i] <= plans'[i + 1] /\ plans'[i + 1] <= plans'[j]
    <3>1. plans'[i] <= plans'[i + 1]
      BY <1>7, <2>1
    <3>2. CASE i + 1 = j
      <4>1. plans'[j] \in Nat
        BY <1>4 DEF SchedulerAssumption
      <4> QED
        BY <3>1, <3>2, <4>1
    <3>3. CASE i + 1 < j
      BY <3>1, <3>3, <1>7, <2>1
    <3> QED
      BY <2>1, <3>2, <3>3
  <2>4. plans'[i] \in Nat /\ plans'[j] \in Nat /\ plans'[i + 1] \in Nat
    BY <1>4, <2>1 DEF SchedulerAssumption
  <2> QED
    BY <2>2, <2>3, <2>4
<1>10. ASSUME ~Adjacent(plans') PROVE ~Duplicated(input)
  <2> SUFFICES ASSUME NEW a \in 1..Len(input), NEW b \in 1..Len(input), a # b, input[a] = input[b]
               PROVE  FALSE
    BY <1>1 DEF Duplicated, Promise!Duplicated
  <2>1. PICK i \in 1..Len(input) : order[i] = a
    BY <1>3
  <2>2. PICK j \in 1..Len(input) : order[j] = b
    BY <1>3
  <2>3. plans'[i] = plans'[j] /\ i # j /\ plans'[i] \in Nat
    BY <2>1, <2>2, <1>4 DEF SchedulerAssumption
  <2>4. i < j \/ j < i
    BY <2>3
  <2> QED
    BY <2>3, <2>4, <1>9, <1>10
<1> QED
  BY <1>5, <1>6, <1>7, <1>8, <1>9, <1>10

LEMMA WorkersProperties ==
  ASSUME SchedulerAssumption, input \in Inputs, jobs \in JobsRange
  PROVE  /\ Workers \in Nat
         /\ 1..Workers \subseteq Thread
         /\ input # <<>> => Workers >= 1
<1>1. Len(input) \in Nat /\ input \in Seq(Rank) /\ (input # <<>> => Len(input) >= 1)
  BY DEF SchedulerAssumption
<1>2. jobs \in Nat /\ HostParallelism \in Nat \ {0}
  BY DEF SchedulerAssumption
<1>3. CASE jobs = 0
  BY <1>1, <1>2, <1>3 DEF Workers, SchedulerAssumption
<1>4. CASE jobs # 0
  BY <1>1, <1>2, <1>4 DEF Workers, SchedulerAssumption
<1> QED
  BY <1>3, <1>4

(***************************************************************************)
(* Type correctness.                                                       *)
(***************************************************************************)
LEMMA InitType == ASSUME SchedulerAssumption, EmptyAssumption, Init PROVE TypeOK
<1>1. plans = <<>> /\ Len(plans) = 0 /\ plans \in Seq(Rank)
  BY DEF Init
<1>2. channel \in Seq([index : Slots, verdict : Verdict]) /\ Len(channel) <= Capacity
  BY WorkersProperties DEF Init, Capacity
<1> QED
  BY <1>1, <1>2 DEF Init, TypeOK, SlotInit, SlotTypeOK

LEMMA LoadType ==
  ASSUME SlotTypeOK, EmptyAssumption, NEW t \in Thread, NEW v \in Loadable(t)
  PROVE  v \in 0..Empty
BY DEF SlotTypeOK, Loadable

\* A worker, the receiver and the end of the scope leave the plans alone.
LEMMA CapacityFixed ==
  ASSUME SchedulerAssumption, TypeOK, UNCHANGED requestVars
  PROVE  Workers' = Workers /\ Capacity' = Capacity /\ Capacity \in Nat /\ Workers \in Nat
BY WorkersProperties DEF TypeOK, Capacity, Workers, requestVars

\* Steps before the workers start.
LEMMA SubmitType ==
  ASSUME SchedulerAssumption, EmptyAssumption, TypeOK,
         RefuseDuplicate \/ ReturnEmpty \/ Spawn
  PROVE  TypeOK'
<1>1. Capacity' = Capacity /\ Capacity \in Nat
  <2>1. UNCHANGED requestVars
    BY DEF RefuseDuplicate, ReturnEmpty, Spawn
  <2> QED
    BY <2>1, CapacityFixed
<1>2. phase = "submitted" /\ plans = <<>> /\ channel = <<>> /\ winner = Empty
      /\ \A t \in Thread : pc[t] = "stopped"
  <2>1. phase = "submitted"
    BY DEF RefuseDuplicate, ReturnEmpty, Spawn
  <2> QED
    BY <2>1 DEF TypeOK
<1>3. channel' = <<>> /\ channel' \in Seq([index : Slots', verdict : Verdict]) /\ Len(channel') <= Capacity'
  <2>1. channel' = <<>> /\ Len(channel') = 0
    BY <1>2 DEF RefuseDuplicate, ReturnEmpty, Spawn
  <2>2. channel' \in Seq([index : Slots', verdict : Verdict])
    BY <2>1
  <2> QED
    BY <1>1, <2>1, <2>2
<1>4. UNCHANGED <<slotVars, requestVars, next, index, winner>>
  BY DEF RefuseDuplicate, ReturnEmpty, Spawn
<1>5. CASE RefuseDuplicate
  <2>1. plans' \in Seq(Rank) /\ phase' = "duplicate" /\ pc' = pc /\ winner' = Empty
    BY <1>2, <1>5, SortProperties DEF RefuseDuplicate, TypeOK
  <2>2. SlotTypeOK'
    BY <1>4 DEF TypeOK, SlotTypeOK, slotVars
  <2> QED
    BY <1>2, <1>3, <1>4, <2>1, <2>2 DEF TypeOK, requestVars
<1>6. CASE ReturnEmpty
  <2>1. plans' = <<>> /\ Len(plans') = 0 /\ Slots' = {} /\ verdicts' = <<>> /\ phase' = "done"
    BY <1>2, <1>6 DEF ReturnEmpty, TypeOK, Slots
  <2>2. verdicts' \in [Slots' -> Verdict \cup {"none"}]
    BY <2>1
  <2>3. SlotTypeOK'
    BY <1>4 DEF TypeOK, SlotTypeOK, slotVars
  <2>4. pc' = pc /\ plans' \in Seq(Rank)
    BY <1>6, <2>1 DEF ReturnEmpty
  <2> QED
    BY <1>2, <1>3, <1>4, <2>1, <2>2, <2>3, <2>4 DEF TypeOK, requestVars
<1>7. CASE Spawn
  <2>1. plans' \in Seq(Rank) /\ Slots' = 1..Len(input) /\ DOMAIN input = 1..Len(input)
    BY <1>7, SortProperties DEF Spawn, TypeOK, Slots, SchedulerAssumption
  <2>2. verdicts' \in [Slots' -> Verdict \cup {"none"}]
    BY <1>7, <2>1 DEF Spawn
  <2>3. /\ pc' \in [Thread -> {"take", "stopped"}]
        /\ phase' = "running"
    BY <1>7 DEF Spawn
  <2> QED
    BY <1>2, <1>3, <1>4, <2>1, <2>2, <2>3
       DEF TypeOK, SlotTypeOK, slotVars, requestVars
<1> QED
  BY <1>5, <1>6, <1>7

\* Steps of a worker.
LEMMA WorkerType ==
  ASSUME SchedulerAssumption, EmptyAssumption, TypeOK, NEW t \in Thread, WorkerStep(t)
  PROVE  TypeOK'
<1>0. /\ phase = "running" /\ phase' = phase
      /\ UNCHANGED <<requestVars, plans, verdicts, winner>>
      /\ Slots' = Slots /\ Capacity' = Capacity /\ Capacity \in Nat
      /\ Len(plans) \in Nat
  <2>1. phase = "running" /\ phase' = phase /\ UNCHANGED <<requestVars, plans, verdicts, winner>>
    BY DEF WorkerStep, Take, Check, Evaluate, Claim, ClaimExchange, ClaimRetry, Send, At
  <2>2. Capacity' = Capacity /\ Capacity \in Nat
    BY <2>1, CapacityFixed
  <2>3. Slots' = Slots /\ Len(plans) \in Nat
    BY <2>1 DEF Slots, TypeOK
  <2> QED
    BY <2>1, <2>2, <2>3
<1> DEFINE Rest == /\ input' \in Inputs /\ jobs' \in JobsRange /\ outcome' \in [Rank -> Verdict]
                   /\ phase' \in {"submitted", "running", "duplicate", "done"}
                   /\ plans' \in Seq(Rank)
                   /\ phase' \in {"running", "done"} => verdicts' \in [Slots' -> Verdict \cup {"none"}]
                   /\ winner' \in 0..Empty
                   /\ phase' # "submitted"
<1>1. Rest
  BY <1>0 DEF TypeOK, requestVars
<1>2. CASE Take(t)
  <2>1. next' \in Nat \ {0} /\ index' \in [Thread -> Nat]
    BY <1>2 DEF Take, TypeOK
  <2>2. next \in Nat \ {0} /\ (next <= Len(plans) => next \in Slots)
    BY <1>0 DEF TypeOK, Slots
  <2>3. /\ pc' \in [Thread -> {"take", "check", "evaluate", "claim", "exchange", "send", "stopped"}]
        /\ \A u \in Thread : pc'[u] \notin {"take", "stopped"} => index'[u] \in Slots'
    BY <1>0, <1>2, <2>2 DEF Take, TypeOK, GoTo
  <2>4. UNCHANGED <<slotVars, channel>>
    BY <1>2 DEF Take
  <2>5. SlotTypeOK'
    BY <2>4 DEF TypeOK, SlotTypeOK, slotVars
  <2>6. channel' \in Seq([index : Slots', verdict : Verdict]) /\ Len(channel') <= Capacity'
    BY <1>0, <2>4 DEF TypeOK
  <2> QED
    BY <1>1, <2>1, <2>3, <2>5, <2>6 DEF TypeOK
<1>3. CASE Check(t) \/ Evaluate(t)
  <2>1. /\ pc' \in [Thread -> {"take", "check", "evaluate", "claim", "exchange", "send", "stopped"}]
        /\ \A u \in Thread : pc'[u] \notin {"take", "stopped"} => index'[u] \in Slots'
        /\ UNCHANGED <<next, index, channel>>
    BY <1>0, <1>3 DEF Check, Evaluate, TypeOK, GoTo, At
  <2>2. SlotTypeOK'
    BY <1>3, LoadType DEF Check, Evaluate, Load, SlotTypeOK, slotVars, TypeOK
  <2>3. channel' \in Seq([index : Slots', verdict : Verdict]) /\ Len(channel') <= Capacity'
    BY <1>0, <2>1 DEF TypeOK
  <2>4. next' \in Nat \ {0} /\ index' \in [Thread -> Nat]
    BY <2>1 DEF TypeOK
  <2> QED
    BY <1>1, <2>1, <2>2, <2>3, <2>4 DEF TypeOK
<1>4. CASE Claim(t) \/ ClaimExchange(t) \/ ClaimRetry(t)
  <2>1. /\ pc' \in [Thread -> {"take", "check", "evaluate", "claim", "exchange", "send", "stopped"}]
        /\ \A u \in Thread : pc'[u] \notin {"take", "stopped"} => index'[u] \in Slots'
        /\ UNCHANGED <<next, index, channel>>
    BY <1>0, <1>4 DEF Claim, ClaimExchange, ClaimRetry, AfterClaim, TypeOK, GoTo, At
  <2>2. SlotTypeOK'
    <3>1. CASE Claim(t)
      BY <3>1, LoadType DEF Claim, ClaimStart, SlotTypeOK, TypeOK
    <3>2. CASE ClaimExchange(t)
      <4>1. SlotTypeOK /\ claiming[t] \in 0..Empty /\ 0 \in 0..Empty /\ Empty \in 0..Empty
        BY EmptyAssumption DEF TypeOK, SlotTypeOK
      <4> QED
        BY <3>2, <4>1 DEF ClaimExchange, ExchangeOk, SlotTypeOK
    <3>3. CASE ClaimRetry(t)
      BY <3>3, LoadType DEF ClaimRetry, ExchangeFail, SlotTypeOK, TypeOK
    <3> QED
      BY <1>4, <3>1, <3>2, <3>3
  <2>3. channel' \in Seq([index : Slots', verdict : Verdict]) /\ Len(channel') <= Capacity'
    BY <1>0, <2>1 DEF TypeOK
  <2>4. next' \in Nat \ {0} /\ index' \in [Thread -> Nat]
    BY <2>1 DEF TypeOK
  <2> QED
    BY <1>1, <2>1, <2>2, <2>3, <2>4 DEF TypeOK
<1>5. CASE Send(t)
  <2>1. /\ pc' \in [Thread -> {"take", "check", "evaluate", "claim", "exchange", "send", "stopped"}]
        /\ \A u \in Thread : pc'[u] \notin {"take", "stopped"} => index'[u] \in Slots'
        /\ UNCHANGED <<slotVars, next, index>>
    BY <1>0, <1>5 DEF Send, TypeOK, GoTo, At
  <2>2. index[t] \in Slots /\ VerdictOf(index[t]) \in Verdict
    <3>1. index[t] \in Slots
      BY <1>5 DEF Send, At, TypeOK
    <3>2. plans[index[t]] \in Rank
      BY <3>1 DEF TypeOK, Slots
    <3> QED
      BY <3>1, <3>2 DEF TypeOK, VerdictOf
  <2>3. channel' \in Seq([index : Slots', verdict : Verdict]) /\ Len(channel') <= Capacity'
    BY <1>0, <1>5, <2>2 DEF Send, TypeOK
  <2>4. SlotTypeOK'
    BY <2>1 DEF TypeOK, SlotTypeOK, slotVars
  <2>5. next' \in Nat \ {0} /\ index' \in [Thread -> Nat]
    BY <2>1 DEF TypeOK
  <2> QED
    BY <1>1, <2>1, <2>3, <2>4, <2>5 DEF TypeOK
<1> QED
  BY <1>2, <1>3, <1>4, <1>5 DEF WorkerStep

\* Steps of the calling thread while the workers run.
LEMMA CallerType ==
  ASSUME SchedulerAssumption, EmptyAssumption, TypeOK, Receive \/ Finish
  PROVE  TypeOK'
<1>0. /\ phase = "running" /\ phase' \in {"running", "done"}
      /\ UNCHANGED <<slotVars, requestVars, plans, next, pc, index>>
      /\ Slots' = Slots /\ Capacity' = Capacity /\ Capacity \in Nat
      /\ Len(plans) \in Nat
  <2>1. /\ phase = "running" /\ phase' \in {"running", "done"}
        /\ UNCHANGED <<slotVars, requestVars, plans, next, pc, index>>
    BY DEF Receive, Finish
  <2>2. Capacity' = Capacity /\ Capacity \in Nat
    BY <2>1, CapacityFixed
  <2>3. Slots' = Slots /\ Len(plans) \in Nat
    BY <2>1 DEF Slots, TypeOK
  <2> QED
    BY <2>1, <2>2, <2>3
<1>1. CASE Receive
  <2>1. Head(channel) \in [index : Slots, verdict : Verdict]
    <3>1. channel \in Seq([index : Slots, verdict : Verdict]) /\ channel # <<>>
      BY <1>1 DEF Receive, TypeOK
    <3> QED
      BY <3>1, HeadTailProperties
  <2>2. verdicts' \in [Slots' -> Verdict \cup {"none"}]
    BY <1>0, <1>1, <2>1 DEF Receive, TypeOK
  <2>3. channel' \in Seq([index : Slots', verdict : Verdict]) /\ Len(channel') <= Capacity'
    BY <1>0, <1>1 DEF Receive, TypeOK
  <2> QED
    BY <1>0, <1>1, <2>2, <2>3 DEF Receive, TypeOK, SlotTypeOK, slotVars, requestVars
<1>2. CASE Finish
  <2>1. winner' \in 0..Empty
    BY <1>2 DEF Finish, TypeOK, SlotTypeOK
  <2> QED
    BY <1>0, <1>2, <2>1 DEF Finish, TypeOK, SlotTypeOK, slotVars, requestVars
<1> QED
  BY <1>1, <1>2

LEMMA TypeInduction ==
  ASSUME SchedulerAssumption, EmptyAssumption, TypeOK, [Next]_vars
  PROVE  TypeOK'
<1>1. CASE RefuseDuplicate \/ ReturnEmpty \/ Spawn
  BY <1>1, SubmitType
<1>2. ASSUME NEW t \in Thread, WorkerStep(t) PROVE TypeOK'
  BY <1>2, WorkerType
<1>3. CASE Receive \/ Finish
  BY <1>3, CallerType
<1>4. CASE UNCHANGED vars
  BY <1>4 DEF vars, slotVars, requestVars, TypeOK, SlotTypeOK, Slots, Capacity, Workers
<1> QED
  BY <1>1, <1>2, <1>3, <1>4 DEF Next, Finished

\* The type invariant holds in every reachable state of the scheduler, for any
\* number of candidates, workers and verdicts.
THEOREM TypeCorrect == Spec => []TypeOK
<1>1. Init => TypeOK
  BY InitType, SchedulerAssumption, EmptyAssumption
<1>2. TypeOK /\ [Next]_vars => TypeOK'
  BY TypeInduction, SchedulerAssumption, EmptyAssumption
<1> QED
  BY <1>1, <1>2, PTL DEF Spec

(***************************************************************************)
(* The inductive invariant: steps of a worker.                             *)
(***************************************************************************)
LEMMA StepFrame ==
  ASSUME IInv, UNCHANGED <<requestVars, plans>>
  PROVE  /\ Slots' = Slots /\ Workers' = Workers /\ Len(plans) \in Nat
         /\ 1..Workers \subseteq Thread
         /\ slot \in 0..Empty /\ next \in Nat \ {0}
<1>1. TypeOK /\ SlotTypeOK /\ UNCHANGED requestVars
  BY DEF IInv, TypeOK
<1>2. Workers' = Workers
  BY <1>1, CapacityFixed, SchedulerAssumption
<1>3. 1..Workers \subseteq Thread
  BY <1>1, WorkersProperties, SchedulerAssumption DEF TypeOK
<1>4. Slots' = Slots /\ Len(plans) \in Nat /\ next \in Nat \ {0}
  BY <1>1 DEF TypeOK, Slots
<1>5. slot \in 0..Empty
  BY <1>1 DEF SlotTypeOK
<1> QED
  BY <1>2, <1>3, <1>4, <1>5

LEMMA MessageType ==
  ASSUME TypeOK, NEW k \in DOMAIN channel
  PROVE  channel[k].index \in Slots /\ channel[k].verdict \in Verdict
<1>1. channel \in Seq([index : Slots, verdict : Verdict])
  BY DEF TypeOK
<1>2. channel[k] \in [index : Slots, verdict : Verdict]
  BY <1>1, ElementOfSeq, LenProperties
<1> QED
  BY <1>2

LEMMA TakeStep ==
  ASSUME IInv, TypeOK', NEW t \in Thread, Take(t)
  PROVE  IInv'
<1>1. /\ pc[t] = "take" /\ phase = "running" /\ phase' = "running"
      /\ UNCHANGED <<slot, written, seen, claiming, input, outcome, jobs, plans, channel, verdicts, winner>>
      /\ next' = next + 1 /\ index' = [index EXCEPT ![t] = next]
      /\ pc' = [pc EXCEPT ![t] = IF next > Len(plans) THEN "stopped" ELSE "check"]
  BY DEF Take, At, GoTo, slotVars, requestVars
<1>2. /\ next \in Nat \ {0} /\ Slots' = Slots /\ Len(plans) \in Nat /\ Workers' = Workers
      /\ pc'[t] \in {"stopped", "check"} /\ index'[t] = next
      /\ \A u \in Thread \ {t} : pc'[u] = pc[u] /\ index'[u] = index[u]
      /\ slot \in 0..Empty /\ 1..Workers \subseteq Thread
      /\ next <= Len(plans) => pc'[t] = "check"
      /\ pc'[t] = "check" => next \in Slots
  <2>1. UNCHANGED <<requestVars, plans>>
    BY <1>1 DEF requestVars
  <2>2. DOMAIN pc = Thread /\ DOMAIN index = Thread
    BY DEF IInv, TypeOK
  <2>3. /\ pc'[t] \in {"stopped", "check"} /\ index'[t] = next
        /\ \A u \in Thread \ {t} : pc'[u] = pc[u] /\ index'[u] = index[u]
        /\ next <= Len(plans) => pc'[t] = "check"
        /\ pc'[t] = "check" => ~(next > Len(plans))
    BY <1>1, <2>1, <2>2, StepFrame
  <2> QED
    BY <2>1, <2>3, StepFrame DEF Slots
<1>3. PlansSorted' /\ SlotLowest' /\ Quiet' /\ Returned'
  BY <1>1, <1>2 DEF IInv, PlansSorted, SlotLowest, Quiet, Returned
<1>4. ClaimsPreserved'
  BY <1>1, <1>2 DEF IInv, ClaimsPreserved, VerdictOf
<1>5. PublishedAfterClaim'
  BY <1>1, <1>2 DEF IInv, PublishedAfterClaim, VerdictOf
<1>6. Accounted'
  <2> SUFFICES ASSUME NEW i \in Slots, ~(next' <= i), ~(slot < i), verdicts[i] = "none",
                      \A k \in DOMAIN channel : channel[k].index # i
               PROVE  \E u \in Thread : Holds(u, i)'
    BY <1>1, <1>2 DEF Accounted, Holds
  <2>1. CASE next = i
    BY <1>1, <1>2, <2>1 DEF Holds, Slots
  <2>2. CASE next # i
    <3>1. PICK u \in Thread : Holds(u, i)
      BY <1>1, <1>2, <2>2 DEF IInv, Accounted, Slots
    <3>2. u # t
      BY <1>1, <3>1 DEF Holds
    <3> QED
      BY <1>2, <3>1, <3>2 DEF Holds
  <2> QED
    BY <2>1, <2>2
<1>7. Taken'
  <2>1. Taken /\ (\A k \in DOMAIN channel : channel[k].index \in Nat)
    BY MessageType DEF IInv, Slots
  <2>2. \A u \in Thread : pc'[u] \notin {"take", "stopped"} => index'[u] < next'
    <3>1. \A u \in Thread : index[u] \in Nat
      BY DEF IInv, TypeOK
    <3> QED
      BY <1>1, <1>2, <2>1, <3>1 DEF Taken
  <2> QED
    BY <1>1, <1>2, <2>1, <2>2 DEF Taken, Slots
<1>8. StoppedWorkers'
  <2> SUFFICES ASSUME NEW u \in 1..Workers, u \in Thread, pc'[u] = "stopped"
               PROVE  next' > Len(plans) \/ slot < next'
    BY <1>1, <1>2 DEF StoppedWorkers
  <2>1. CASE u = t
    BY <1>1, <1>2, <2>1
  <2>2. CASE u # t
    BY <1>1, <1>2, <2>2 DEF IInv, StoppedWorkers
  <2> QED
    BY <2>1, <2>2
<1> QED
  BY <1>3, <1>4, <1>5, <1>6, <1>7, <1>8 DEF IInv

LEMMA CheckStep ==
  ASSUME IInv, TypeOK', NEW t \in Thread, Check(t)
  PROVE  IInv'
<1>1. PICK v \in Loadable(t) :
        /\ seen' = [seen EXCEPT ![t] = v]
        /\ pc' = [pc EXCEPT ![t] = IF v # Empty /\ index[t] > v THEN "stopped" ELSE "evaluate"]
  BY DEF Check, Load, GoTo
<1>2. /\ pc[t] = "check" /\ phase = "running" /\ phase' = "running"
      /\ UNCHANGED <<slot, written, claiming, input, outcome, jobs, plans, next, index, channel, verdicts, winner>>
  BY DEF Check, Load, At, requestVars
<1>3. /\ v \in written /\ v \in 0..Empty /\ slot <= v /\ v <= seen[t]
      /\ slot \in 0..Empty /\ index[t] \in Slots /\ index[t] < next /\ next \in Nat
      /\ Slots' = Slots /\ Len(plans) \in Nat /\ Workers' = Workers /\ claiming[t] = Empty
      /\ 1..Workers \subseteq Thread
  <2>1. UNCHANGED <<requestVars, plans>>
    BY <1>2 DEF requestVars
  <2>2. v \in written /\ v \in 0..Empty /\ slot <= v /\ v <= seen[t]
    BY <1>1 DEF Loadable, IInv, SlotLowest, TypeOK, SlotTypeOK
  <2>3. index[t] \in Slots /\ index[t] < next
    BY <1>2 DEF IInv, TypeOK, Taken
  <2>4. claiming[t] = Empty
    BY <1>2 DEF IInv, ClaimsPreserved
  <2> QED
    BY <2>1, <2>2, <2>3, <2>4, StepFrame
<1>4. /\ pc'[t] \in {"stopped", "evaluate"} /\ seen'[t] = v
      /\ \A u \in Thread \ {t} : pc'[u] = pc[u] /\ seen'[u] = seen[u]
      /\ pc'[t] = "stopped" => slot < index[t]
  BY <1>1, <1>3 DEF IInv, TypeOK, SlotTypeOK, Slots
<1>5. PlansSorted' /\ Quiet' /\ Returned' /\ Taken'
  BY <1>2, <1>3, <1>4 DEF IInv, PlansSorted, Quiet, Returned, Taken
<1>6. SlotLowest'
  BY <1>2, <1>3, <1>4 DEF IInv, SlotLowest
<1>7. ClaimsPreserved'
  <2>1. ClaimsPreserved
    BY DEF IInv
  <2>2. \A x \in written \ {Empty} : x \in Slots' /\ VerdictOf(x)' = "preserved"
    BY <1>2, <1>3, <2>1 DEF ClaimsPreserved, VerdictOf
  <2>3. ASSUME NEW u \in Thread
        PROVE  /\ pc'[u] \in {"claim", "exchange"} => VerdictOf(index[u])' = "preserved"
               /\ claiming[u] # Empty <=> pc'[u] = "exchange"
               /\ claiming[u] # Empty => claiming[u] = index[u] /\ index[u] < seen'[u]
    BY <1>2, <1>3, <1>4, <2>1 DEF ClaimsPreserved, VerdictOf
  <2> QED
    BY <1>2, <2>2, <2>3 DEF ClaimsPreserved
<1>8. PublishedAfterClaim'
  BY <1>2, <1>3, <1>4 DEF IInv, PublishedAfterClaim, VerdictOf
<1>9. Accounted'
  <2> SUFFICES ASSUME NEW i \in Slots, ~(next <= i), ~(slot < i), verdicts[i] = "none",
                      \A k \in DOMAIN channel : channel[k].index # i
               PROVE  \E u \in Thread : Holds(u, i)'
    BY <1>2, <1>3 DEF Accounted, Holds
  <2>1. PICK u \in Thread : Holds(u, i)
    BY <1>2, <1>3 DEF IInv, Accounted, Slots
  <2>2. CASE u = t
    BY <1>2, <1>4, <2>1, <2>2 DEF Holds
  <2>3. CASE u # t
    BY <1>2, <1>4, <2>1, <2>3 DEF Holds
  <2> QED
    BY <2>2, <2>3
<1>10. StoppedWorkers'
  <2> SUFFICES ASSUME NEW u \in 1..Workers, u \in Thread, pc'[u] = "stopped"
               PROVE  next > Len(plans) \/ slot < next
    BY <1>2, <1>3 DEF StoppedWorkers
  <2>1. CASE u = t
    BY <1>3, <1>4, <2>1 DEF Slots
  <2>2. CASE u # t
    BY <1>2, <1>4, <2>2 DEF IInv, StoppedWorkers
  <2> QED
    BY <2>1, <2>2
<1> QED
  BY <1>5, <1>6, <1>7, <1>8, <1>9, <1>10 DEF IInv

LEMMA EvaluateStep ==
  ASSUME IInv, TypeOK', NEW t \in Thread, Evaluate(t)
  PROVE  IInv'
<1>1. /\ pc[t] = "evaluate" /\ phase = "running" /\ phase' = "running"
      /\ UNCHANGED <<slot, written, seen, claiming, input, outcome, jobs, plans, next, index, channel, verdicts, winner>>
      /\ pc' = [pc EXCEPT ![t] = IF VerdictOf(index[t]) = "preserved" THEN "claim" ELSE "send"]
  BY DEF Evaluate, At, GoTo, slotVars, requestVars
<1>2. /\ Slots' = Slots /\ Len(plans) \in Nat /\ Workers' = Workers
      /\ pc'[t] \in {"claim", "send"} /\ index[t] < next
      /\ pc'[t] = "claim" <=> VerdictOf(index[t]) = "preserved"
      /\ \A u \in Thread \ {t} : pc'[u] = pc[u]
      /\ 1..Workers \subseteq Thread
  <2>1. UNCHANGED <<requestVars, plans>>
    BY <1>1 DEF requestVars
  <2>2. DOMAIN pc = Thread /\ index[t] < next
    BY <1>1 DEF IInv, TypeOK, Taken
  <2> QED
    BY <1>1, <2>1, <2>2, StepFrame
<1>3. PlansSorted' /\ SlotLowest' /\ Quiet' /\ Returned'
  BY <1>1, <1>2 DEF IInv, PlansSorted, SlotLowest, Quiet, Returned
<1>4. ClaimsPreserved'
  BY <1>1, <1>2 DEF IInv, ClaimsPreserved, VerdictOf
<1>5. PublishedAfterClaim'
  BY <1>1, <1>2 DEF IInv, PublishedAfterClaim, VerdictOf
<1>6. Accounted' /\ Taken'
  BY <1>1, <1>2 DEF IInv, Accounted, Holds, Taken
<1>7. StoppedWorkers'
  BY <1>1, <1>2 DEF IInv, StoppedWorkers
<1> QED
  BY <1>3, <1>4, <1>5, <1>6, <1>7 DEF IInv

\* A step of claim() that returns leaves the slot at or below the candidate.
LEMMA ClaimReadStep ==
  ASSUME IInv, TypeOK', NEW t \in Thread, Claim(t) \/ ClaimRetry(t)
  PROVE  IInv'
<1>1. /\ pc[t] \in {"claim", "exchange"} /\ phase = "running" /\ phase' = "running"
      /\ UNCHANGED <<slot, written, input, outcome, jobs, plans, next, index, channel, verdicts, winner>>
      /\ \E v \in Loadable(t) :
           /\ seen' = [seen EXCEPT ![t] = v]
           /\ claiming' = [claiming EXCEPT ![t] = IF index[t] < v THEN index[t] ELSE Empty]
      /\ pc' = [pc EXCEPT ![t] = IF claiming'[t] = Empty THEN "send" ELSE "exchange"]
  <2>1. CASE Claim(t)
    BY <2>1 DEF Claim, ClaimStart, AfterClaim, GoTo, At, requestVars
  <2>2. CASE ClaimRetry(t)
    <3>1. claiming[t] = index[t]
      BY <2>2 DEF ClaimRetry, At, IInv, ClaimsPreserved
    <3> QED
      BY <2>2, <3>1 DEF ClaimRetry, ExchangeFail, AfterClaim, GoTo, At, requestVars
  <2> QED
    BY <2>1, <2>2
<1>2. PICK v \in Loadable(t) :
        /\ seen' = [seen EXCEPT ![t] = v]
        /\ claiming' = [claiming EXCEPT ![t] = IF index[t] < v THEN index[t] ELSE Empty]
  BY <1>1
<1>3. /\ v \in written /\ v \in 0..Empty /\ slot <= v /\ slot \in 0..Empty
      /\ index[t] \in Slots /\ index[t] < next /\ VerdictOf(index[t]) = "preserved"
      /\ Slots' = Slots /\ Len(plans) \in Nat /\ Workers' = Workers /\ 1..Workers \subseteq Thread
  <2>1. UNCHANGED <<requestVars, plans>>
    BY <1>1 DEF requestVars
  <2>2. v \in written /\ v \in 0..Empty /\ slot <= v
    BY <1>2 DEF Loadable, IInv, SlotLowest, TypeOK, SlotTypeOK
  <2>3. index[t] \in Slots /\ index[t] < next /\ VerdictOf(index[t]) = "preserved"
    BY <1>1 DEF IInv, TypeOK, Taken, ClaimsPreserved
  <2> QED
    BY <2>1, <2>2, <2>3, StepFrame
<1>4. /\ seen'[t] = v /\ claiming'[t] = IF index[t] < v THEN index[t] ELSE Empty
      /\ pc'[t] = IF claiming'[t] = Empty THEN "send" ELSE "exchange"
      /\ \A u \in Thread \ {t} : pc'[u] = pc[u] /\ seen'[u] = seen[u] /\ claiming'[u] = claiming[u]
  <2>1. DOMAIN pc = Thread /\ DOMAIN seen = Thread /\ DOMAIN claiming = Thread
    BY DEF IInv, TypeOK, SlotTypeOK
  <2> QED
    BY <1>1, <1>2, <2>1
<1>5. pc'[t] = "send" => slot <= index[t]
  <2>1. index[t] \in Nat /\ index[t] < Empty
    <3>1. Len(plans) = Len(input) /\ Len(input) < Empty
      BY <1>1, SchedulerAssumption DEF IInv, TypeOK, PlansSorted, SchedulerAssumption
    <3> QED
      BY <1>3, <3>1, EmptyAssumption DEF Slots
  <2> QED
    BY <1>3, <1>4, <2>1, EmptyAssumption
<1>6. PlansSorted' /\ Quiet' /\ Returned'
  BY <1>1, <1>3 DEF IInv, PlansSorted, Quiet, Returned
<1>7. SlotLowest'
  BY <1>1, <1>3, <1>4 DEF IInv, SlotLowest
<1>8. ClaimsPreserved'
  <2>1. ClaimsPreserved
    BY DEF IInv
  <2>2. \A x \in written \ {Empty} : x \in Slots' /\ VerdictOf(x)' = "preserved"
    BY <1>1, <1>3, <2>1 DEF ClaimsPreserved, VerdictOf
  <2>3. ASSUME NEW u \in Thread
        PROVE  /\ pc'[u] \in {"claim", "exchange"} => VerdictOf(index[u])' = "preserved"
               /\ claiming'[u] # Empty <=> pc'[u] = "exchange"
               /\ claiming'[u] # Empty => claiming'[u] = index[u] /\ index[u] < seen'[u]
    BY <1>1, <1>3, <1>4, <2>1 DEF ClaimsPreserved, VerdictOf
  <2> QED
    BY <1>1, <2>2, <2>3 DEF ClaimsPreserved
<1>9. PublishedAfterClaim'
  BY <1>1, <1>3, <1>4, <1>5 DEF IInv, PublishedAfterClaim, VerdictOf
<1>10. Accounted' /\ Taken'
  BY <1>1, <1>3, <1>4 DEF IInv, Accounted, Holds, Taken
<1>11. StoppedWorkers'
  BY <1>1, <1>3, <1>4 DEF IInv, StoppedWorkers
<1> QED
  BY <1>6, <1>7, <1>8, <1>9, <1>10, <1>11 DEF IInv

LEMMA ClaimExchangeStep ==
  ASSUME IInv, TypeOK', NEW t \in Thread, ClaimExchange(t)
  PROVE  IInv'
<1>1. /\ pc[t] = "exchange" /\ phase = "running" /\ phase' = "running"
      /\ UNCHANGED <<input, outcome, jobs, plans, next, index, channel, verdicts, winner>>
      /\ claiming[t] = index[t] /\ index[t] < seen[t] /\ seen[t] = slot
      /\ slot' = index[t] /\ written' = written \cup {index[t]}
      /\ seen' = [seen EXCEPT ![t] = index[t]]
      /\ claiming' = [claiming EXCEPT ![t] = Empty]
      /\ pc' = [pc EXCEPT ![t] = IF claiming'[t] = Empty THEN "send" ELSE "exchange"]
  <2>1. pc[t] = "exchange" /\ phase = "running" /\ ExchangeOk(t)
        /\ UNCHANGED <<requestVars, phase, plans, next, index, channel, verdicts, winner>>
    BY DEF ClaimExchange, At
  <2>2. claiming[t] = index[t] /\ index[t] < seen[t]
    BY <2>1 DEF IInv, ClaimsPreserved, ExchangeOk
  <2> QED
    BY <2>1, <2>2 DEF ClaimExchange, ExchangeOk, AfterClaim, GoTo, requestVars
<1>2. /\ Slots' = Slots /\ Len(plans) \in Nat /\ Workers' = Workers /\ 1..Workers \subseteq Thread
      /\ slot \in 0..Empty /\ next \in Nat
      /\ index[t] \in Slots /\ index[t] \in Nat /\ index[t] < next /\ VerdictOf(index[t]) = "preserved"
  <2>1. UNCHANGED <<requestVars, plans>>
    BY <1>1 DEF requestVars
  <2>2. index[t] \in Slots /\ index[t] < next /\ VerdictOf(index[t]) = "preserved"
    BY <1>1 DEF IInv, TypeOK, Taken, ClaimsPreserved
  <2>3. index[t] \in Nat
    BY DEF IInv, TypeOK
  <2> QED
    BY <2>1, <2>2, <2>3, StepFrame
<1>3. /\ seen'[t] = index[t] /\ claiming'[t] = Empty /\ pc'[t] = "send" /\ slot' < slot
      /\ \A u \in Thread \ {t} : pc'[u] = pc[u] /\ seen'[u] = seen[u] /\ claiming'[u] = claiming[u]
  <2>1. DOMAIN pc = Thread /\ DOMAIN seen = Thread /\ DOMAIN claiming = Thread
    BY DEF IInv, TypeOK, SlotTypeOK
  <2> QED
    BY <1>1, <2>1
<1>4. PlansSorted' /\ Quiet' /\ Returned'
  BY <1>1, <1>2 DEF IInv, PlansSorted, Quiet, Returned
<1>5. SlotLowest'
  <2>1. \A x \in written : slot' <= x
    <3>1. \A x \in written : x \in 0..Empty /\ slot <= x
      BY DEF IInv, SlotLowest, TypeOK, SlotTypeOK
    <3> QED
      BY <1>1, <1>2, <1>3, <3>1
  <2> QED
    BY <1>1, <1>2, <1>3, <2>1 DEF IInv, SlotLowest
<1>6. ClaimsPreserved'
  <2>1. ClaimsPreserved
    BY DEF IInv
  <2>2. \A x \in written' \ {Empty} : x \in Slots' /\ VerdictOf(x)' = "preserved"
    BY <1>1, <1>2, <2>1 DEF ClaimsPreserved, VerdictOf
  <2>3. ASSUME NEW u \in Thread
        PROVE  /\ pc'[u] \in {"claim", "exchange"} => VerdictOf(index[u])' = "preserved"
               /\ claiming'[u] # Empty <=> pc'[u] = "exchange"
               /\ claiming'[u] # Empty => claiming'[u] = index[u] /\ index[u] < seen'[u]
    BY <1>1, <1>2, <1>3, <2>1 DEF ClaimsPreserved, VerdictOf
  <2> QED
    BY <1>1, <2>2, <2>3 DEF ClaimsPreserved
<1>7. PublishedAfterClaim'
  <2>1. PublishedAfterClaim /\ (\A i \in Slots : i \in Nat) /\ (\A u \in Thread : index[u] \in Nat)
    BY DEF IInv, TypeOK, Slots
  <2>2. \A k \in DOMAIN channel : channel[k].index \in Nat
    BY <2>1, MessageType DEF IInv
  <2> QED
    BY <1>1, <1>2, <1>3, <2>1, <2>2 DEF PublishedAfterClaim, VerdictOf
<1>8. Accounted' /\ Taken'
  <2>1. \A i \in Slots : slot < i => slot' < i
    BY <1>1, <1>2, <1>3 DEF Slots
  <2> QED
    BY <1>1, <1>2, <1>3, <2>1 DEF IInv, Accounted, Holds, Taken
<1>9. StoppedWorkers'
  BY <1>1, <1>2, <1>3 DEF IInv, StoppedWorkers
<1> QED
  BY <1>4, <1>5, <1>6, <1>7, <1>8, <1>9 DEF IInv

LEMMA SendStep ==
  ASSUME IInv, TypeOK', NEW t \in Thread, Send(t)
  PROVE  IInv'
<1> DEFINE m == [index |-> index[t], verdict |-> VerdictOf(index[t])]
<1>1. /\ pc[t] = "send" /\ phase = "running" /\ phase' = "running"
      /\ UNCHANGED <<slot, written, seen, claiming, input, outcome, jobs, plans, next, index, verdicts, winner>>
      /\ channel' = Append(channel, m)
      /\ pc' = [pc EXCEPT ![t] = "take"]
  BY DEF Send, At, GoTo, slotVars, requestVars
<1>2. /\ Slots' = Slots /\ Len(plans) \in Nat /\ Workers' = Workers
      /\ pc'[t] = "take" /\ index[t] < next /\ index[t] \in Slots
      /\ \A u \in Thread \ {t} : pc'[u] = pc[u]
      /\ 1..Workers \subseteq Thread
  <2>1. UNCHANGED <<requestVars, plans>>
    BY <1>1 DEF requestVars
  <2>2. DOMAIN pc = Thread /\ index[t] < next /\ index[t] \in Slots
    BY <1>1 DEF IInv, TypeOK, Taken
  <2> QED
    BY <1>1, <2>1, <2>2, StepFrame
<1>3. /\ Len(channel) \in Nat /\ DOMAIN channel = 1..Len(channel)
      /\ DOMAIN channel' = 1..(Len(channel) + 1)
      /\ channel'[Len(channel) + 1] = m
      /\ \A k \in DOMAIN channel : channel'[k] = channel[k]
  <2>1. channel \in Seq([index : Slots, verdict : Verdict])
    BY DEF IInv, TypeOK
  <2>2. m \in [index : Slots, verdict : Verdict]
    <3>1. VerdictOf(index[t]) \in Verdict
      BY <1>2, ElementOfSeq DEF IInv, TypeOK, VerdictOf, Slots
    <3> QED
      BY <1>2, <3>1
  <2> HIDE DEF m
  <2> QED
    BY <1>1, <2>1, <2>2, AppendProperties, LenProperties
<1>4. \A k \in DOMAIN channel' : (k \in DOMAIN channel /\ channel'[k] = channel[k]) \/ channel'[k] = m
  BY <1>3
<1>5. PlansSorted' /\ SlotLowest' /\ Quiet' /\ Returned'
  BY <1>1, <1>2 DEF IInv, PlansSorted, SlotLowest, Quiet, Returned
<1>6. ClaimsPreserved'
  BY <1>1, <1>2 DEF IInv, ClaimsPreserved, VerdictOf
<1>7. PublishedAfterClaim'
  <2>1. PublishedAfterClaim
    BY DEF IInv
  <2>2. \A u \in Thread : pc'[u] = "send" /\ VerdictOf(index[u])' = "preserved" => slot <= index[u]
    BY <1>1, <1>2, <2>1 DEF PublishedAfterClaim, VerdictOf
  <2>3. m.index = index[t] /\ m.verdict = VerdictOf(m.index) /\ (m.verdict = "preserved" => slot <= m.index)
    BY <1>1, <2>1 DEF PublishedAfterClaim
  <2>4. ASSUME NEW k \in DOMAIN channel'
        PROVE  /\ channel'[k].verdict = VerdictOf(channel'[k].index)
               /\ channel'[k].verdict = "preserved" => slot <= channel'[k].index
    <3> HIDE DEF m
    <3> QED
      BY <1>4, <2>1, <2>3 DEF PublishedAfterClaim
  <2> QED
    BY <1>1, <1>2, <2>1, <2>2, <2>4 DEF PublishedAfterClaim, VerdictOf
<1>8. Accounted'
  <2> SUFFICES ASSUME NEW i \in Slots, ~(next <= i), ~(slot < i), verdicts[i] = "none",
                      \A u \in Thread : ~Holds(u, i)'
               PROVE  \E k \in DOMAIN channel' : channel'[k].index = i
    BY <1>1, <1>2 DEF Accounted
  <2>1. CASE \E u \in Thread : Holds(u, i)
    <3>1. Holds(t, i)
      BY <1>1, <1>2, <2>1 DEF Holds
    <3>2. m.index = i /\ Len(channel) + 1 \in DOMAIN channel'
      BY <1>3, <3>1 DEF Holds
    <3> QED
      BY <1>3, <3>2
  <2>2. CASE \E k \in DOMAIN channel : channel[k].index = i
    BY <1>3, <2>2
  <2> QED
    BY <1>1, <2>1, <2>2 DEF IInv, Accounted
<1>9. Taken'
  <2>1. Taken
    BY DEF IInv
  <2>2. \A k \in DOMAIN channel' : channel'[k].index < next
    BY <1>2, <1>4, <2>1 DEF Taken
  <2> QED
    BY <1>1, <1>2, <2>1, <2>2 DEF Taken
<1>10. StoppedWorkers'
  BY <1>1, <1>2 DEF IInv, StoppedWorkers
<1> QED
  BY <1>5, <1>6, <1>7, <1>8, <1>9, <1>10 DEF IInv

(***************************************************************************)
(* The inductive invariant: steps of the calling thread.                   *)
(***************************************************************************)
LEMMA ReceiveStep ==
  ASSUME IInv, TypeOK', Receive
  PROVE  IInv'
<1> DEFINE m == Head(channel)
<1>1. /\ channel # <<>> /\ phase = "running" /\ phase' = "running"
      /\ UNCHANGED <<slot, written, seen, claiming, input, outcome, jobs, plans, next, pc, index, winner>>
      /\ channel' = Tail(channel)
      /\ verdicts' = [verdicts EXCEPT ![m.index] = m.verdict]
  BY DEF Receive, slotVars, requestVars
<1>2. /\ Slots' = Slots /\ Len(plans) \in Nat /\ Workers' = Workers
      /\ 1..Workers \subseteq Thread
  BY <1>1, StepFrame DEF requestVars
<1>3. /\ 1 \in DOMAIN channel /\ channel[1] = m
      /\ \A k \in DOMAIN channel' : k + 1 \in DOMAIN channel /\ channel'[k] = channel[k + 1]
      /\ \A k \in DOMAIN channel : k = 1 \/ \E l \in DOMAIN channel' : channel'[l] = channel[k]
  <2>1. channel \in Seq([index : Slots, verdict : Verdict])
    BY DEF IInv, TypeOK
  <2>2. /\ DOMAIN channel = 1..Len(channel) /\ Len(channel) \in Nat /\ Len(channel) >= 1
        /\ DOMAIN channel' = 1..(Len(channel) - 1) /\ m = channel[1]
        /\ \A k \in 1..(Len(channel) - 1) : channel'[k] = channel[k + 1]
    BY <1>1, <2>1, HeadTailProperties, LenProperties, EmptySeq
  <2>3. ASSUME NEW k \in DOMAIN channel, k # 1
        PROVE  \E l \in DOMAIN channel' : channel'[l] = channel[k]
    <3>1. k - 1 \in 1..(Len(channel) - 1) /\ (k - 1) + 1 = k
      BY <2>2, <2>3
    <3> QED
      BY <2>2, <3>1
  <2> QED
    BY <2>2, <2>3
<1>4. /\ m.index \in Slots /\ m.verdict \in Verdict /\ m.verdict = VerdictOf(m.index)
      /\ m.index < next /\ (m.verdict = "preserved" => slot <= m.index)
  BY <1>3, MessageType DEF IInv, PublishedAfterClaim, Taken
<1>5. /\ verdicts'[m.index] = m.verdict
      /\ \A i \in Slots : i # m.index => verdicts'[i] = verdicts[i]
  BY <1>1, <1>4 DEF IInv, TypeOK
<1> HIDE DEF m
<1>6. PlansSorted' /\ SlotLowest' /\ Quiet' /\ Returned' /\ StoppedWorkers'
  BY <1>1, <1>2 DEF IInv, PlansSorted, SlotLowest, Quiet, Returned, StoppedWorkers
<1>7. ClaimsPreserved'
  BY <1>1, <1>2 DEF IInv, ClaimsPreserved, VerdictOf
<1>8. PublishedAfterClaim'
  <2>1. PublishedAfterClaim
    BY DEF IInv
  <2>2. \A k \in DOMAIN channel' :
          /\ channel'[k].verdict = VerdictOf(channel'[k].index)
          /\ channel'[k].verdict = "preserved" => slot <= channel'[k].index
    BY <1>3, <2>1 DEF PublishedAfterClaim
  <2>3. ASSUME NEW i \in Slots, verdicts'[i] # "none"
        PROVE  verdicts'[i] = VerdictOf(i) /\ (verdicts'[i] = "preserved" => slot <= i)
    <3>1. CASE i = m.index
      BY <1>4, <1>5, <3>1
    <3>2. CASE i # m.index
      BY <1>1, <1>5, <2>1, <2>3, <3>2 DEF PublishedAfterClaim
    <3> QED
      BY <3>1, <3>2
  <2> QED
    BY <1>1, <1>2, <2>1, <2>2, <2>3 DEF PublishedAfterClaim, VerdictOf
<1>9. Accounted'
  <2> SUFFICES ASSUME NEW i \in Slots, ~(next <= i), ~(slot < i), verdicts'[i] = "none",
                      \A u \in Thread : ~Holds(u, i)
               PROVE  \E k \in DOMAIN channel' : channel'[k].index = i
    BY <1>1, <1>2 DEF Accounted, Holds
  <2>1. i # m.index /\ verdicts[i] = "none"
    BY <1>4, <1>5 DEF Verdict
  <2>2. PICK k \in DOMAIN channel : channel[k].index = i
    BY <1>1, <2>1 DEF IInv, Accounted
  <2>3. k # 1
    BY <1>3, <2>1, <2>2
  <2> QED
    BY <1>3, <2>2, <2>3
<1>10. Taken'
  <2>1. Taken
    BY DEF IInv
  <2>2. \A k \in DOMAIN channel' : channel'[k].index < next
    BY <1>3, <2>1 DEF Taken
  <2>3. \A i \in Slots : verdicts'[i] # "none" => i < next
    BY <1>1, <1>4, <1>5, <2>1 DEF Taken
  <2> QED
    BY <1>1, <1>2, <2>1, <2>2, <2>3 DEF Taken
<1> QED
  BY <1>6, <1>7, <1>8, <1>9, <1>10 DEF IInv

LEMMA FinishStep ==
  ASSUME IInv, TypeOK', Finish
  PROVE  IInv'
<1>1. /\ channel = <<>> /\ phase = "running" /\ phase' = "done"
      /\ \A t \in Thread : pc[t] = "stopped"
      /\ UNCHANGED <<slot, written, seen, claiming, input, outcome, jobs, plans, next, pc, index, channel, verdicts>>
      /\ winner' = IF slot # Empty /\ \A i \in 1..slot : verdicts[i] # "none" THEN slot ELSE Empty
  BY DEF Finish, slotVars, requestVars
<1>2. /\ Slots' = Slots /\ Len(plans) \in Nat /\ Workers' = Workers /\ slot \in 0..Empty
      /\ 1..Workers \subseteq Thread /\ next \in Nat /\ Empty \in Nat
  BY <1>1, StepFrame, EmptyAssumption DEF requestVars
<1>3. \A i \in Slots : i <= slot => verdicts[i] # "none"
  <2> SUFFICES ASSUME NEW i \in Slots, i <= slot, verdicts[i] = "none"
               PROVE  FALSE
    OBVIOUS
  <2>1. 1 \in 1..Workers
    <3>1. Len(input) >= 1 /\ input \in Inputs /\ jobs \in JobsRange /\ input # <<>>
      BY <1>1, <1>2 DEF IInv, TypeOK, PlansSorted, Slots
    <3>2. Workers >= 1 /\ Workers \in Nat
      BY <3>1, WorkersProperties, SchedulerAssumption
    <3> QED
      BY <3>2
  <2>2. next > Len(plans) \/ slot < next
    BY <1>1, <1>2, <2>1 DEF IInv, StoppedWorkers
  <2>3. next <= i \/ slot < i
    <3>1. DOMAIN channel = {}
      BY <1>1
    <3> QED
      BY <1>1, <3>1 DEF IInv, Accounted, Holds
  <2>4. i \in Nat /\ i <= Len(plans)
    BY <1>2 DEF Slots
  <2> QED
    BY <1>2, <2>2, <2>3, <2>4
<1>4. winner' = slot
  <2>1. CASE slot = Empty
    BY <1>1, <2>1
  <2>2. CASE slot # Empty
    <3>1. slot \in Slots
      BY <2>2 DEF IInv, SlotLowest, ClaimsPreserved
    <3>2. \A i \in 1..slot : i \in Slots /\ i <= slot
      BY <1>2, <3>1 DEF Slots
    <3> QED
      BY <1>1, <1>3, <2>2, <3>2
  <2> QED
    BY <2>1, <2>2
<1>5. Returned'
  BY <1>1, <1>2, <1>3, <1>4 DEF Returned
<1>6. PlansSorted' /\ SlotLowest' /\ Quiet' /\ StoppedWorkers'
  BY <1>1, <1>2 DEF IInv, PlansSorted, SlotLowest, Quiet, StoppedWorkers
<1>7. ClaimsPreserved' /\ Taken'
  BY <1>1, <1>2 DEF IInv, ClaimsPreserved, VerdictOf, Taken
<1>8. PublishedAfterClaim' /\ Accounted'
  BY <1>1, <1>2 DEF IInv, PublishedAfterClaim, VerdictOf, Accounted, Holds
<1> QED
  BY <1>5, <1>6, <1>7, <1>8 DEF IInv

\* Until the workers start nothing is written, sent or taken.
LEMMA SubmitStep ==
  ASSUME IInv, TypeOK', RefuseDuplicate \/ ReturnEmpty \/ Spawn
  PROVE  IInv'
<1>1. /\ phase = "submitted" /\ input \in Inputs /\ jobs \in JobsRange
      /\ UNCHANGED <<slot, written, seen, claiming, input, outcome, jobs, next, index, channel, winner>>
  BY DEF RefuseDuplicate, ReturnEmpty, Spawn, slotVars, requestVars, IInv, TypeOK
<1>2. /\ written = {Empty} /\ slot = Empty /\ next = 1 /\ channel = <<>> /\ winner = Empty
      /\ plans = <<>> /\ \A t \in Thread : pc[t] = "stopped"
  BY <1>1 DEF IInv, TypeOK, Quiet, SlotLowest
<1>3. /\ Workers' = Workers /\ 1..Workers \subseteq Thread /\ DOMAIN channel = {}
      /\ \A t \in Thread : pc'[t] \in {"stopped", "take"}
      /\ \A t \in 1..Workers : phase' = "running" => pc'[t] = "take"
      /\ phase' # "running" => \A t \in Thread : pc'[t] = "stopped"
  <2>1. Workers' = Workers
    BY <1>1 DEF Workers
  <2>2. 1..Workers \subseteq Thread /\ Workers \in Nat
    BY <1>1, WorkersProperties, SchedulerAssumption
  <2>3. DOMAIN channel = {}
    BY <1>2
  <2>4. CASE Spawn
    BY <2>2, <2>1, <2>3, <2>4 DEF Spawn
  <2>5. CASE RefuseDuplicate \/ ReturnEmpty
    BY <1>2, <2>1, <2>2, <2>3, <2>5 DEF RefuseDuplicate, ReturnEmpty
  <2> QED
    BY <2>4, <2>5
<1>4. SlotLowest' /\ Quiet' /\ Taken' /\ StoppedWorkers' /\ ClaimsPreserved'
  <2>1. SlotLowest' /\ Quiet' /\ StoppedWorkers'
    BY <1>1, <1>2, <1>3 DEF IInv, SlotLowest, Quiet, StoppedWorkers, RefuseDuplicate, ReturnEmpty, Spawn
  <2>2. ClaimsPreserved'
    BY <1>1, <1>2, <1>3 DEF IInv, ClaimsPreserved
  <2>3. phase' \in {"running", "done"} => \A i \in Slots' : verdicts'[i] = "none"
    <3>1. CASE Spawn
      <4>1. Slots' = DOMAIN input
        BY <1>1, <3>1, SortProperties, SchedulerAssumption DEF Spawn, Slots, SchedulerAssumption
      <4> QED
        BY <3>1, <4>1 DEF Spawn
    <3>2. CASE RefuseDuplicate
      BY <3>2 DEF RefuseDuplicate
    <3>3. CASE ReturnEmpty
      BY <1>2, <3>3 DEF ReturnEmpty, Slots
    <3> QED
      BY <3>1, <3>2, <3>3
  <2>4. Taken'
    BY <1>1, <1>2, <1>3, <2>3 DEF Taken
  <2> QED
    BY <2>1, <2>2, <2>4
<1>5. PlansSorted'
  <2>1. CASE Spawn
    BY <1>1, <2>1, SortProperties, SchedulerAssumption DEF Spawn, PlansSorted, Slots, Duplicated
  <2>2. CASE RefuseDuplicate
    BY <2>2 DEF RefuseDuplicate, PlansSorted
  <2>3. CASE ReturnEmpty
    <3>1. plans' = input' /\ Slots' = {} /\ DOMAIN input' = {}
      BY <1>2, <2>3 DEF ReturnEmpty, requestVars, Slots
    <3> QED
      BY <3>1 DEF PlansSorted, Duplicated, Promise!Duplicated
  <2> QED
    BY <2>1, <2>2, <2>3
<1>6. PublishedAfterClaim' /\ Accounted' /\ Returned'
  <2>1. CASE Spawn
    <3>1. /\ phase' = "running" /\ Slots' = DOMAIN input /\ verdicts' = [i \in DOMAIN input |-> "none"]
          /\ DOMAIN input = 1..Len(input)
      BY <1>1, <2>1, SortProperties, SchedulerAssumption DEF Spawn, Slots, SchedulerAssumption
    <3>2. \A i \in Slots' : next <= i
      BY <1>2, <3>1
    <3> QED
      BY <1>1, <1>2, <1>3, <3>1, <3>2 DEF PublishedAfterClaim, Accounted, Returned
  <2>2. CASE RefuseDuplicate
    BY <1>1, <1>2, <1>3, <2>2 DEF RefuseDuplicate, PublishedAfterClaim, Accounted, Returned
  <2>3. CASE ReturnEmpty
    BY <1>1, <1>2, <1>3, <2>3 DEF ReturnEmpty, PublishedAfterClaim, Accounted, Returned, Slots
  <2> QED
    BY <2>1, <2>2, <2>3
<1> QED
  BY <1>4, <1>5, <1>6 DEF IInv

LEMMA InvariantInit == ASSUME Init PROVE IInv
<1>1. TypeOK
  BY InitType, SchedulerAssumption, EmptyAssumption
<1>2. SlotLowest /\ Quiet /\ Returned /\ StoppedWorkers /\ PlansSorted /\ Accounted /\ Taken
  BY EmptyAssumption
     DEF Init, SlotInit, SlotLowest, Quiet, Returned, StoppedWorkers, PlansSorted, Accounted, Taken
<1>3. ClaimsPreserved /\ PublishedAfterClaim
  BY DEF Init, SlotInit, ClaimsPreserved, PublishedAfterClaim
<1> QED
  BY <1>1, <1>2, <1>3 DEF IInv

LEMMA InvariantInduction ==
  ASSUME IInv, [Next]_vars
  PROVE  IInv'
<1>0. TypeOK'
  BY TypeInduction, SchedulerAssumption, EmptyAssumption DEF IInv
<1>1. CASE RefuseDuplicate \/ ReturnEmpty \/ Spawn
  BY <1>0, <1>1, SubmitStep
<1>2. ASSUME NEW t \in Thread, WorkerStep(t) PROVE IInv'
  BY <1>0, <1>2, TakeStep, CheckStep, EvaluateStep, ClaimReadStep, ClaimExchangeStep, SendStep DEF WorkerStep
<1>3. CASE Receive
  BY <1>0, <1>3, ReceiveStep
<1>4. CASE Finish
  BY <1>0, <1>4, FinishStep
<1>5. CASE UNCHANGED vars
  <2> USE DEF vars, slotVars, requestVars
  <2>1. PlansSorted' /\ SlotLowest' /\ Quiet' /\ Returned'
    BY <1>5 DEF IInv, PlansSorted, SlotLowest, Quiet, Returned, Slots
  <2>2. ClaimsPreserved' /\ PublishedAfterClaim'
    BY <1>5 DEF IInv, ClaimsPreserved, PublishedAfterClaim, VerdictOf, Slots
  <2>3. Accounted' /\ Taken' /\ StoppedWorkers'
    BY <1>5 DEF IInv, Accounted, Taken, StoppedWorkers, Holds, Slots, Workers
  <2> QED
    BY <1>0, <2>1, <2>2, <2>3 DEF IInv
<1> QED
  BY <1>1, <1>2, <1>3, <1>4, <1>5 DEF Next, Finished

\* The strengthening holds in every reachable state of the scheduler.
THEOREM Invariant == Spec => []IInv
<1> QED
  BY InvariantInit, InvariantInduction, PTL DEF Spec

(***************************************************************************)
(* Refinement: a frontier that is done is decided as Frontier promises.    *)
(***************************************************************************)
LEMMA DoneIsDecided ==
  IInv /\ phase = "done" =>
    /\ ~Duplicated(input)
    /\ \E evaluated \in SUBSET Ranks(input) :
         /\ \A r \in Ranks(input) : (\A w \in Promise!Earliest : r <= w) => r \in evaluated
         /\ Decision = [status   |-> "decided",
                        winner   |-> Promise!Earliest,
                        verdicts |-> {<<r, outcome[r]>> : r \in evaluated}]
<1> SUFFICES ASSUME IInv, phase = "done"
             PROVE  /\ ~Duplicated(input)
                    /\ \E evaluated \in SUBSET Ranks(input) :
                         /\ \A r \in Ranks(input) :
                              (\A w \in Promise!Earliest : r <= w) => r \in evaluated
                         /\ Decision = [status   |-> "decided",
                                        winner   |-> Promise!Earliest,
                                        verdicts |-> {<<r, outcome[r]>> : r \in evaluated}]
  OBVIOUS
<1> DEFINE decided == {k \in Slots : verdicts[k] # "none"}
           evaluated == {plans[k] : k \in decided}
           won == IF winner = Empty THEN {} ELSE {plans[winner]}
<1>1. /\ ~Duplicated(input) /\ Ranks(plans) = Ranks(input)
      /\ \A i, j \in Slots : i < j => plans[i] < plans[j]
      /\ winner = slot /\ slot \in 0..Empty
      /\ \A i \in Slots : i <= slot => verdicts[i] # "none"
      /\ \A i \in Slots : verdicts[i] # "none" =>
           verdicts[i] = VerdictOf(i) /\ (verdicts[i] = "preserved" => slot <= i)
      /\ slot # Empty => slot \in Slots /\ VerdictOf(slot) = "preserved"
  BY DEF IInv, PlansSorted, Returned, PublishedAfterClaim, ClaimsPreserved, SlotLowest, TypeOK, SlotTypeOK
<1>2. /\ DOMAIN plans = Slots /\ Slots \subseteq Nat
      /\ \A i \in Slots : i < Empty /\ plans[i] \in Rank /\ plans[i] \in Nat
  <2>1. plans \in Seq(Rank) /\ Len(plans) = Len(input) /\ input \in Inputs
    BY DEF IInv, TypeOK, PlansSorted
  <2>2. Len(plans) < Empty /\ Rank \subseteq Nat /\ Len(plans) \in Nat /\ DOMAIN plans = 1..Len(plans)
    BY <2>1, SchedulerAssumption, LenProperties DEF SchedulerAssumption
  <2>3. \A i \in Slots : plans[i] \in Rank
    BY <2>1, ElementOfSeq DEF Slots
  <2> QED
    <3>1. DOMAIN plans = Slots /\ Slots \subseteq Nat /\ \A i \in Slots : i < Empty
      BY <2>2, EmptyAssumption DEF Slots
    <3> QED
      BY <2>2, <2>3, <3>1
<1>3. Ranks(input) = {plans[i] : i \in Slots}
  BY <1>1, <1>2 DEF Ranks
<1>4. Promise!Earliest = won
  <2>1. ASSUME NEW i \in Slots, VerdictOf(i) = "preserved"
        PROVE  slot <= i /\ slot # Empty /\ plans[slot] <= plans[i]
    <3>1. slot <= i
      <4>1. CASE i <= slot
        BY <1>1, <2>1, <4>1
      <4>2. CASE ~(i <= slot)
        BY <1>1, <1>2, <4>2
      <4> QED
        BY <4>1, <4>2
    <3>2. slot # Empty
      BY <1>1, <1>2, <2>1, <3>1
    <3>3. slot \in Slots /\ (slot = i \/ slot < i)
      BY <1>1, <1>2, <3>1, <3>2
    <3> QED
      BY <1>1, <1>2, <3>1, <3>2, <3>3
  <2>2. Promise!Earliest \subseteq won
    <3> SUFFICES ASSUME NEW r \in Promise!Earliest PROVE r \in won
      OBVIOUS
    <3>1. /\ r \in Ranks(input) /\ outcome[r] = "preserved"
          /\ \A q \in Ranks(input) : outcome[q] = "preserved" => r <= q
      BY DEF Promise!Earliest, Promise!Ranks, Ranks
    <3>2. PICK i \in Slots : r = plans[i]
      BY <1>3, <3>1
    <3>3. slot \in Slots /\ VerdictOf(slot) = "preserved" /\ slot # Empty /\ plans[slot] <= r
      BY <1>1, <2>1, <3>1, <3>2 DEF VerdictOf
    <3>4. r <= plans[slot]
      BY <1>3, <3>1, <3>3 DEF VerdictOf
    <3>5. r = plans[slot]
      BY <1>2, <3>2, <3>3, <3>4
    <3> QED
      BY <1>1, <3>3, <3>5
  <2>3. won \subseteq Promise!Earliest
    <3> SUFFICES ASSUME slot # Empty PROVE plans[slot] \in Promise!Earliest
      BY <1>1
    <3>1. plans[slot] \in Ranks(input) /\ outcome[plans[slot]] = "preserved"
      BY <1>1, <1>3 DEF VerdictOf
    <3>2. ASSUME NEW q \in Ranks(input), outcome[q] = "preserved" PROVE plans[slot] <= q
      <4>1. PICK i \in Slots : q = plans[i]
        BY <1>3
      <4> QED
        BY <2>1, <3>2, <4>1 DEF VerdictOf
    <3> QED
      BY <3>1, <3>2 DEF Promise!Earliest, Promise!Ranks, Ranks
  <2> QED
    BY <2>2, <2>3
<1>5. evaluated \in SUBSET Ranks(input)
  BY <1>3
<1>6. ASSUME NEW r \in Ranks(input), \A w \in Promise!Earliest : r <= w
      PROVE  r \in evaluated
  <2>1. PICK i \in Slots : r = plans[i]
    BY <1>3
  <2>2. i <= slot
    <3>1. CASE slot = Empty
      BY <1>2, <3>1, EmptyAssumption
    <3>2. CASE slot # Empty
      <4>1. r <= plans[slot] /\ slot \in Slots
        BY <1>1, <1>4, <1>6, <3>2
      <4>2. ~(slot < i)
        BY <1>1, <1>2, <2>1, <4>1
      <4> QED
        BY <1>2, <4>1, <4>2
    <3> QED
      BY <3>1, <3>2
  <2>3. verdicts[i] # "none"
    BY <1>1, <2>2
  <2> QED
    BY <2>1, <2>3
<1>7. {<<r, outcome[r]>> : r \in evaluated} = {<<plans[i], verdicts[i]>> : i \in decided}
  <2>1. \A i \in decided : verdicts[i] = outcome[plans[i]]
    BY <1>1 DEF VerdictOf
  <2> QED
    BY <2>1
<1>8. Decision = [status |-> "decided", winner |-> Promise!Earliest,
                  verdicts |-> {<<r, outcome[r]>> : r \in evaluated}]
  <2>1. Decision = [status |-> "decided", winner |-> won,
                    verdicts |-> {<<plans[i], verdicts[i]>> : i \in decided}]
    BY DEF Decision
  <2> QED
    BY <1>4, <1>7, <2>1
<1> QED
  BY <1>1, <1>5, <1>6, <1>8

LEMMA RefuseRefines ==
  ASSUME IInv, RefuseDuplicate
  PROVE  Promise!Refuse
<1>1. phase = "submitted" /\ input \in Inputs /\ UNCHANGED <<input, outcome>> /\ phase' = "duplicate"
  BY DEF RefuseDuplicate, IInv, TypeOK, requestVars
<1>2. Promise!Duplicated(input)
  BY <1>1, SortProperties, SchedulerAssumption DEF RefuseDuplicate, Duplicated
<1>3. Decision = Promise!Pending
  BY <1>1 DEF Decision, Promise!Pending
<1>4. Decision' = [status |-> "refused", winner |-> {}, verdicts |-> {}]
  BY <1>1 DEF Decision
<1> QED
  BY <1>1, <1>2, <1>3, <1>4 DEF Promise!Refuse

\* Every schedule of the workers returns what Frontier promises: the earliest
\* preserved rank and every verdict up to it, or a refusal of a duplicate rank
\* (FrontierScheduler::evaluate, scheduler.rs:107-178).
THEOREM SchedulerImplementsPromise == Spec => ImplementsPromise
<1>1. Init => Promise!PromiseInit
  BY DEF Init, Promise!PromiseInit, Decision, Promise!Pending, Verdict, Promise!Verdict
<1>2. ASSUME IInv, IInv', (IInv /\ phase = "done" =>
               /\ ~Duplicated(input)
               /\ \E evaluated \in SUBSET Ranks(input) :
                    /\ \A r \in Ranks(input) :
                         (\A w \in Promise!Earliest : r <= w) => r \in evaluated
                    /\ Decision = [status   |-> "decided",
                                   winner   |-> Promise!Earliest,
                                   verdicts |-> {<<r, outcome[r]>> : r \in evaluated}])',
             [Next]_vars
      PROVE  [Promise!PromiseNext]_(Promise!promiseVars)
  <2>1. CASE RefuseDuplicate
    BY <1>2, <2>1, RefuseRefines DEF Promise!PromiseNext
  <2>2. CASE ReturnEmpty \/ Finish
    <3>1. phase \in {"submitted", "running"} /\ phase' = "done" /\ UNCHANGED <<input, outcome>>
      BY <2>2 DEF ReturnEmpty, Finish, requestVars
    <3>2. Decision = Promise!Pending
      BY <3>1 DEF Decision, Promise!Pending
    <3>3. Promise!Earliest' = Promise!Earliest
      BY <3>1 DEF Promise!Earliest
    <3>4. Promise!Decide
      BY <1>2, <3>1, <3>2, <3>3 DEF Promise!Decide, Promise!Ranks, Ranks, Duplicated, Promise!Duplicated
    <3> QED
      BY <3>4 DEF Promise!PromiseNext
  <2>3. CASE Spawn \/ Receive \/ \E t \in Thread : WorkerStep(t)
    <3>1. /\ phase \in {"submitted", "running"} /\ phase' = "running" /\ UNCHANGED <<input, outcome>>
      BY <2>3 DEF Spawn, Receive, WorkerStep, Take, Check, Evaluate, Claim, ClaimExchange, ClaimRetry,
                  Send, At, requestVars
    <3> QED
      BY <3>1 DEF Decision, Promise!promiseVars
  <2>4. CASE UNCHANGED vars
    BY <2>4 DEF vars, requestVars, Decision, Promise!promiseVars, Slots
  <2> QED
    BY <1>2, <2>1, <2>2, <2>3, <2>4 DEF Next, Finished
<1> QED
  BY <1>1, <1>2, Invariant, DoneIsDecided, PTL DEF Spec, ImplementsPromise, Promise!PromiseSpec

(***************************************************************************)
(* No candidate is evaluated twice.                                        *)
(***************************************************************************)
\* Steps that hand out no index and send and decide nothing.
LEMMA OnceUndisturbed ==
  ASSUME EvaluatedOnce, UNCHANGED <<plans, index, channel, verdicts, phase>>,
         \A t \in Thread, i \in Slots : Holds(t, i)' => Holds(t, i)
  PROVE  EvaluatedOnce'
<1>1. Slots' = Slots
  BY DEF Slots
<1> QED
  BY <1>1 DEF EvaluatedOnce

LEMMA OnceTake ==
  ASSUME IInv, EvaluatedOnce, NEW t \in Thread, Take(t)
  PROVE  EvaluatedOnce'
<1>1. /\ pc[t] = "take" /\ phase = "running"
      /\ UNCHANGED <<plans, channel, verdicts, phase>> /\ Slots' = Slots
      /\ \A u \in Thread \ {t} : pc'[u] = pc[u] /\ index'[u] = index[u]
      /\ index'[t] = next
  BY DEF Take, At, GoTo, IInv, TypeOK, Slots
<1>2. \A i \in Slots : Holds(t, i)' => i = next
  BY <1>1 DEF Holds
<1>3. \A u \in Thread \ {t}, i \in Slots : Holds(u, i)' <=> Holds(u, i)
  BY <1>1 DEF Holds
<1>4. /\ \A u \in Thread : ~Holds(u, next)
      /\ \A k \in DOMAIN channel : channel[k].index # next
      /\ next \in Slots => verdicts[next] = "none"
  <2>1. next \in Nat /\ Taken /\ (\A u \in Thread : index[u] \in Nat)
    BY DEF IInv, TypeOK
  <2> QED
    BY <1>1, <2>1 DEF Taken, Holds
<1> QED
  BY <1>1, <1>2, <1>3, <1>4 DEF EvaluatedOnce

LEMMA OnceSend ==
  ASSUME IInv, EvaluatedOnce, NEW t \in Thread, Send(t)
  PROVE  EvaluatedOnce'
<1> DEFINE m == [index |-> index[t], verdict |-> VerdictOf(index[t])]
           last == Len(channel) + 1
<1>1. /\ pc[t] = "send" /\ phase = "running"
      /\ UNCHANGED <<plans, index, verdicts, phase>> /\ Slots' = Slots
      /\ \A u \in Thread \ {t} : pc'[u] = pc[u]
      /\ pc'[t] = "take" /\ index[t] \in Slots
      /\ channel' = Append(channel, m)
  BY DEF Send, At, GoTo, IInv, TypeOK, Slots
<1>2. /\ \A k \in DOMAIN channel' : k = last \/ (k \in DOMAIN channel /\ channel'[k] = channel[k])
      /\ channel'[last].index = index[t]
  <2>1. channel \in Seq([index : Slots, verdict : Verdict]) /\ Len(channel) \in Nat
    BY DEF IInv, TypeOK
  <2>2. m \in [index : Slots, verdict : Verdict] /\ m.index = index[t]
    <3>1. VerdictOf(index[t]) \in Verdict
      BY <1>1, ElementOfSeq DEF IInv, TypeOK, VerdictOf, Slots
    <3> QED
      BY <1>1, <3>1
  <2> HIDE DEF m
  <2> QED
    BY <1>1, <2>1, <2>2, AppendProperties, LenProperties
<1> HIDE DEF m, last
<1>3. Holds(t, index[t]) /\ \A u \in Thread, i \in Slots : Holds(u, i)' => Holds(u, i) /\ u # t
  BY <1>1 DEF Holds
<1> SUFFICES ASSUME NEW i \in Slots
             PROVE  (/\ \A u, w \in Thread : Holds(u, i) /\ Holds(w, i) => u = w
                     /\ \A k, l \in DOMAIN channel : channel[k].index = i /\ channel[l].index = i => k = l
                     /\ \A u \in Thread, k \in DOMAIN channel : ~(Holds(u, i) /\ channel[k].index = i)
                     /\ phase = "running" /\ verdicts[i] # "none" =>
                          /\ \A u \in Thread : ~Holds(u, i)
                          /\ \A k \in DOMAIN channel : channel[k].index # i)'
  BY <1>1 DEF EvaluatedOnce
<1>4. CASE i = index[t]
  <2>1. /\ \A u \in Thread : Holds(u, i) => u = t
        /\ \A k \in DOMAIN channel : channel[k].index # i
        /\ verdicts[i] = "none"
    BY <1>1, <1>3, <1>4 DEF EvaluatedOnce
  <2> QED
    BY <1>1, <1>2, <1>3, <1>4, <2>1
<1>5. CASE i # index[t]
  BY <1>1, <1>2, <1>3, <1>5 DEF EvaluatedOnce
<1> QED
  BY <1>4, <1>5

LEMMA OnceReceive ==
  ASSUME IInv, EvaluatedOnce, Receive
  PROVE  EvaluatedOnce'
<1> DEFINE m == Head(channel)
<1>1. /\ phase = "running" /\ UNCHANGED <<plans, index, pc, phase>> /\ Slots' = Slots
      /\ verdicts' = [verdicts EXCEPT ![m.index] = m.verdict] /\ channel # <<>>
      /\ channel' = Tail(channel)
  BY DEF Receive, Slots
<1>2. /\ 1 \in DOMAIN channel /\ channel[1] = m
      /\ \A k \in DOMAIN channel' :
           k \in Nat /\ k + 1 \in DOMAIN channel /\ k + 1 # 1 /\ channel'[k] = channel[k + 1]
  <2>1. channel \in Seq([index : Slots, verdict : Verdict])
    BY DEF IInv, TypeOK
  <2> QED
    BY <1>1, <2>1, HeadTailProperties, LenProperties, EmptySeq
<1>3. \A i \in Slots : i # m.index => verdicts'[i] = verdicts[i]
  BY <1>1 DEF IInv, TypeOK
<1>4. \A u \in Thread, i \in Slots : Holds(u, i)' <=> Holds(u, i)
  BY <1>1 DEF Holds
<1> HIDE DEF m
<1> SUFFICES ASSUME NEW i \in Slots
             PROVE  (/\ \A u, w \in Thread : Holds(u, i) /\ Holds(w, i) => u = w
                     /\ \A k, l \in DOMAIN channel : channel[k].index = i /\ channel[l].index = i => k = l
                     /\ \A u \in Thread, k \in DOMAIN channel : ~(Holds(u, i) /\ channel[k].index = i)
                     /\ phase = "running" /\ verdicts[i] # "none" =>
                          /\ \A u \in Thread : ~Holds(u, i)
                          /\ \A k \in DOMAIN channel : channel[k].index # i)'
  BY <1>1 DEF EvaluatedOnce
<1>5. CASE i = m.index
  <2>1. /\ \A u \in Thread : ~Holds(u, i)
        /\ \A k \in DOMAIN channel : channel[k].index = i => k = 1
    BY <1>2, <1>5 DEF EvaluatedOnce
  <2> QED
    BY <1>2, <1>4, <2>1
<1>6. CASE i # m.index
  <2>1. \A k, l \in DOMAIN channel' : channel'[k].index = i /\ channel'[l].index = i => k = l
    BY <1>2 DEF EvaluatedOnce
  <2> QED
    BY <1>1, <1>2, <1>3, <1>4, <1>6, <2>1 DEF EvaluatedOnce
<1> QED
  BY <1>5, <1>6

LEMMA OnceInduction ==
  ASSUME IInv, IInv', EvaluatedOnce, [Next]_vars
  PROVE  EvaluatedOnce'
<1>1. CASE RefuseDuplicate \/ ReturnEmpty
  <2>1. /\ \A t \in Thread, i \in Slots' : ~Holds(t, i)'
        /\ phase' # "running" /\ channel' = <<>> /\ DOMAIN channel' = {}
    BY <1>1 DEF RefuseDuplicate, ReturnEmpty, IInv, Quiet, Holds
  <2> QED
    BY <2>1 DEF EvaluatedOnce
<1>2. CASE Spawn
  <2>1. /\ \A t \in Thread, i \in Slots' : ~Holds(t, i)'
        /\ channel' = <<>> /\ DOMAIN channel' = {}
    BY <1>2 DEF Spawn, IInv, Quiet, Holds
  <2> QED
    BY <2>1 DEF EvaluatedOnce
<1>3. ASSUME NEW t \in Thread, WorkerStep(t) PROVE EvaluatedOnce'
  <2>1. CASE Take(t)
    BY <2>1, OnceTake
  <2>2. CASE Send(t)
    BY <2>2, OnceSend
  <2>3. CASE Check(t) \/ Evaluate(t) \/ Claim(t) \/ ClaimExchange(t) \/ ClaimRetry(t)
    <3>1. /\ UNCHANGED <<plans, index, channel, verdicts, phase>>
          /\ pc[t] \notin {"take", "stopped"} /\ \A u \in Thread \ {t} : pc'[u] = pc[u]
      BY <2>3 DEF Check, Evaluate, Claim, ClaimExchange, ClaimRetry, AfterClaim, At, GoTo, IInv, TypeOK
    <3>2. \A u \in Thread, i \in Slots : Holds(u, i)' => Holds(u, i)
      BY <3>1 DEF Holds
    <3> QED
      BY <3>1, <3>2, OnceUndisturbed
  <2> QED
    BY <1>3, <2>1, <2>2, <2>3 DEF WorkerStep
<1>4. CASE Receive
  BY <1>4, OnceReceive
<1>5. CASE Finish
  <2>1. /\ \A t \in Thread, i \in Slots' : ~Holds(t, i)'
        /\ phase' # "running" /\ channel' = <<>> /\ DOMAIN channel' = {}
    BY <1>5 DEF Finish, Holds
  <2> QED
    BY <2>1 DEF EvaluatedOnce
<1>6. CASE UNCHANGED vars
  BY <1>6, OnceUndisturbed DEF vars, Holds
<1> QED
  BY <1>1, <1>2, <1>3, <1>4, <1>5, <1>6 DEF Next, Finished

\* However many workers race for indices, no candidate of a frontier is
\* evaluated or reported twice (scheduler.rs:146-162).
THEOREM NoCandidateEvaluatedTwice == Spec => []EvaluatedOnce
<1>1. Init => EvaluatedOnce
  BY DEF Init, EvaluatedOnce, Holds
<1> QED
  BY <1>1, OnceInduction, Invariant, PTL DEF Spec

=============================================================================
