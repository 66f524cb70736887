------------------------------ MODULE Evaluation ------------------------------
(***************************************************************************)
(* From a command to a verified result                                     *)
(* (run, crates/reprocut-engine/src/lib.rs:466-494, 661-719): the command  *)
(* is run on the whole project, the runs give an oracle, the oracle and    *)
(* the repetition policy decide on a candidate, and what was kept is       *)
(* verified once more.  A run may stop anywhere; the one that resumes it   *)
(* makes an oracle of its own and takes the verdict that the journal has.  *)
(*                                                                         *)
(* Of the search there is one candidate here, the "cut"; Session and       *)
(* Structured are about the searches.  Each observation is a run of        *)
(* Runner, and so is each command of a preparation (of the ecosystem, or   *)
(* of an isolated Python environment, crates/reprocut-engine/src/          *)
(* python_isolation.rs, for which the interpreter is probed first).        *)
(* BaselineSucceeded and the other errors that end a run are the phase     *)
(* "failed".                                                               *)
(***************************************************************************)
EXTENDS Policy, Oracle, Runner

CONSTANTS
  Requests   \* what is asked for, what the commands do, and the errors and restarts met

Project == {"whole", "cut"}
Phase == {"probe", "baseline", "stabilised", "search", "final", "verified", "publishable", "failed"}

Behaviour ==
  [output : [Stream -> Seq(Line)], exit : ExitCode \cup UnixSignal,
   pace : {"prompt", "slow", "hung"}, leaves : {"none", "holding"}]

Request ==
  [policy : EvaluationPolicy, spec : {s \in OracleSpec : ValidSpec(s)},
   probe : SUBSET Behaviour, found : [Project -> BOOLEAN], behaviour : [Project -> SUBSET Behaviour],
   preparation : [Project -> Seq([isolated : BOOLEAN, programs : SUBSET Behaviour])],
   errors : Nat, restarts : Nat]

ASSUME EvaluationAssumption ==
  /\ MaxOutput \in Nat
  /\ Requests \subseteq Request

VARIABLES
  request,    \* what is left of errors and restarts shrinks
  phase,
  prepared,   \* the commands of the preparation that the run at hand is past
  baselines,  \* the observations of the whole project
  oracle,
  evidence,   \* on the candidate, or on the result
  kept,       \* the result
  finals,     \* what the final verification saw
  recorded    \* the journal's verdict on the candidate, or "none"

searchVars == <<baselines, oracle, evidence, kept, finals, recorded>>
vars == <<request, phase, prepared, searchVars, runnerVars>>

policy == request.policy
oracleSpec == request.spec

\* The interpreter is probed before anything is run in isolation.
FirstPhase(asked) == IF asked.probe = {} THEN "baseline" ELSE "probe"

Subject == IF phase = "baseline" THEN "whole" ELSE IF phase = "search" THEN "cut" ELSE kept

Init ==
  /\ request \in Requests
  /\ phase = FirstPhase(request) /\ prepared = 0
  /\ baselines = <<>> /\ oracle = NoOracle /\ evidence = NoEvidence
  /\ kept = "whole" /\ finals = <<>>
  /\ recorded = "none"
  /\ Idle

\* The run crashes or has failed, and is resumed: the journal is what it has.
Resume ==
  /\ phase # "publishable"
  /\ request.restarts > 0
  /\ request' = [request EXCEPT !.restarts = @ - 1]
  /\ phase' = FirstPhase(request) /\ prepared' = 0
  /\ baselines' = <<>> /\ oracle' = NoOracle /\ evidence' = NoEvidence
  /\ kept' = "whole" /\ finals' = <<>>
  /\ UNCHANGED recorded
  /\ BackToIdle

-----------------------------------------------------------------------------
\* One run: materialised, prepared, and observed.

Conclusive == recorded \in {"preserved", "rejected"}

\* Mutated form of Wanted: one baseline more than the policy's runs.
WantedOnceMore ==
  \/ phase = "baseline" /\ Len(baselines) <= policy.runs
  \/ phase = "search" /\ ~Conclusive /\ ~Consumed(policy, evidence)
  \/ phase = "final" /\ ~Consumed(policy, evidence)

Wanted ==
  \/ phase = "baseline" /\ Len(baselines) < policy.runs
  \/ phase = "search" /\ ~Conclusive /\ ~Consumed(policy, evidence)
  \/ phase = "final" /\ ~Consumed(policy, evidence)

Probing == phase = "probe"
Preparing == ~Probing /\ prepared < Len(request.preparation[Subject])
Preparation == request.preparation[Subject][prepared + 1]

StartRun ==
  /\ Probing \/ Wanted
  /\ IF Probing THEN \E prog \in request.probe : Spawn(prog)
     ELSE IF Preparing THEN \E prog \in Preparation.programs : Spawn(prog)
     ELSE request.found[Subject] /\ \E prog \in request.behaviour[Subject] : Spawn(prog)
  /\ UNCHANGED <<request, phase, prepared, searchVars>>

\* The program of the command is not there: what the candidate lacks ends the run.
CommandMissing ==
  /\ Wanted /\ ~Preparing /\ waiting = "idle"
  /\ ~request.found[Subject]
  /\ phase' = "failed" /\ prepared' = 0
  /\ UNCHANGED <<request, searchVars, runnerVars>>

IsSuccess(observation) == observation.termination = "exit 0"
Successful(observation) == IsSuccess(observation) /\ ~observation.truncated

Returned == waiting = "returned" /\ ~runError

TakeProbe ==
  /\ Probing /\ Returned
  /\ phase' = IF Successful(Observation) THEN "baseline" ELSE "failed"
  /\ UNCHANGED <<request, prepared, searchVars>>
  /\ BackToIdle

PreparationSucceeds == IF Preparation.isolated THEN Successful(Observation) ELSE IsSuccess(Observation)

Prepare ==
  /\ Returned /\ Preparing
  /\ PreparationSucceeds
  /\ prepared' = prepared + 1
  /\ UNCHANGED <<request, phase, searchVars>>
  /\ BackToIdle

PreparationRejected == Returned /\ Preparing /\ ~PreparationSucceeds
Ran == Returned /\ ~Probing /\ ~Preparing

\* An error of the runner ends the run.
FailRun ==
  /\ Errored
  /\ phase' = "failed" /\ prepared' = 0
  /\ UNCHANGED <<request, searchVars>>
  /\ BackToIdle

-----------------------------------------------------------------------------
\* Baselines, and the oracle made from them.

BaselineSucceeded ==
  oracleSpec.mode # "exit_zero" /\ policy = Strict /\ IsSuccess(Observation)

RefuseBaseline ==
  /\ phase = "baseline"
  /\ PreparationRejected \/ (Ran /\ BaselineSucceeded)
  /\ phase' = "failed" /\ prepared' = 0
  /\ UNCHANGED <<request, searchVars>>
  /\ BackToIdle

TakeBaseline ==
  /\ phase = "baseline"
  /\ Ran /\ ~BaselineSucceeded
  /\ baselines' = Append(baselines, Observation)
  /\ prepared' = 0
  /\ UNCHANGED <<request, phase, oracle, evidence, kept, finals, recorded>>
  /\ BackToIdle

Verdicts(candidate) == [i \in DOMAIN baselines |-> Classify(candidate, baselines[i])]
PreservedBy(candidate) == {i \in DOMAIN baselines : Classify(candidate, baselines[i]) = "preserved"}

OfPair(pair) == <<baselines[pair[1]], baselines[pair[2]]>>

\* The oracles of two failures.
PairOracles ==
  {[left |-> pair[1], right |-> pair[2], oracle |-> FromBaselines(oracleSpec, OfPair(pair))] :
     pair \in {p \in (DOMAIN baselines) \X (DOMAIN baselines) :
                /\ p[1] < p[2]
                /\ ~IsSuccess(baselines[p[1]]) /\ ~IsSuccess(baselines[p[2]])
                /\ Stable(oracleSpec, OfPair(p))}}

\* Those that recognise as many baselines as are required.
ScoredOracles ==
  {[candidate |-> c, score |-> Cardinality(PreservedBy(c.oracle))] :
     c \in {d \in PairOracles : Aggregate(policy, Verdicts(d.oracle)) = "preserved"}}

\* The most baselines recognised, and the first pair of those.
Better(x, y) ==
  \/ x.score > y.score
  \/ x.score = y.score /\ x.candidate.left < y.candidate.left
  \/ x.score = y.score /\ x.candidate.left = y.candidate.left /\ x.candidate.right <= y.candidate.right

\* Mutated form of Stabilised: any two failures that agree are enough.
StabilisedByPair ==
  IF policy = Strict
  THEN IF Stable(oracleSpec, baselines) THEN {FromBaselines(oracleSpec, baselines)} ELSE {}
  ELSE {c.oracle : c \in PairOracles}

Stabilised ==
  IF policy = Strict
  THEN IF Stable(oracleSpec, baselines) THEN {FromBaselines(oracleSpec, baselines)} ELSE {}
  ELSE LET scored == ScoredOracles
       IN  {x.candidate.oracle : x \in {y \in scored : \A z \in scored : Better(y, z)}}

BaselinesComplete == phase = "baseline" /\ Len(baselines) = policy.runs /\ waiting = "idle"

Stabilise ==
  /\ BaselinesComplete
  /\ LET oracles == Stabilised
     IN  \/ oracle' \in oracles /\ phase' = "stabilised"
         \/ oracles = {} /\ phase' = "failed" /\ UNCHANGED oracle
  /\ UNCHANGED <<request, prepared, baselines, evidence, kept, finals, recorded, runnerVars>>

BeginSearch ==
  /\ phase = "stabilised"
  /\ phase' = "search"
  /\ baselines' = <<>>
  /\ UNCHANGED <<request, prepared, oracle, evidence, kept, finals, recorded, runnerVars>>

-----------------------------------------------------------------------------
\* The candidate.

\* A preparation that fails counts as a rejected observation.
Verdict == IF PreparationRejected THEN "rejected" ELSE Classify(oracle, Observation)

Observe ==
  /\ phase = "search"
  /\ PreparationRejected \/ Ran
  /\ evidence' = Record(evidence, Verdict)
  /\ prepared' = 0
  /\ UNCHANGED <<request, phase, baselines, oracle, kept, finals, recorded>>
  /\ BackToIdle

Keep(verdict) ==
  /\ kept' = IF verdict = "preserved" THEN "cut" ELSE "whole"
  /\ evidence' = NoEvidence
  /\ phase' = "final"
  /\ UNCHANGED <<request, prepared, baselines, oracle, finals, runnerVars>>

UseRecorded ==
  /\ phase = "search" /\ waiting = "idle"
  /\ Conclusive
  /\ Keep(recorded)
  /\ UNCHANGED recorded

Decide ==
  /\ phase = "search" /\ waiting = "idle"
  /\ ~Conclusive /\ Consumed(policy, evidence)
  /\ recorded' = Decision(policy, evidence)
  /\ Keep(Decision(policy, evidence))

-----------------------------------------------------------------------------
\* The final verification, and the evidence of the result.

\* A preparation that fails is counted, but leaves no observation.
ObserveFinal ==
  /\ phase = "final"
  /\ PreparationRejected \/ Ran
  /\ evidence' = Record(evidence, Verdict)
  /\ finals' = IF PreparationRejected THEN finals
               ELSE Append(finals, [observation |-> Observation, verdict |-> Verdict, project |-> kept])
  /\ prepared' = 0
  /\ UNCHANGED <<request, phase, baselines, oracle, kept, recorded>>
  /\ BackToIdle

\* Mutated form of Verify: a result that is not refuted is verified.
VerifyUnlessRejected ==
  /\ phase = "final" /\ waiting = "idle"
  /\ Consumed(policy, evidence)
  /\ phase' = IF Decision(policy, evidence) # "rejected" THEN "verified" ELSE "failed"
  /\ UNCHANGED <<request, prepared, searchVars, runnerVars>>

Verify ==
  /\ phase = "final" /\ waiting = "idle"
  /\ Consumed(policy, evidence)
  /\ phase' = IF Decision(policy, evidence) = "preserved" THEN "verified" ELSE "failed"
  /\ UNCHANGED <<request, prepared, searchVars, runnerVars>>

\* ReductionEvidence::validate
ObservationsProve ==
  /\ Observed(evidence) # 0
  /\ Observed(evidence) = Len(finals)
  /\ \A i \in DOMAIN finals :
       /\ finals[i].verdict = "preserved"
       /\ finals[i].observation.termination # "timed out"
       /\ ~finals[i].observation.truncated

ModeContract ==
  /\ oracleSpec.failure # {} <=> oracleSpec.mode = "regex"
  /\ oracle.anchors # <<>> <=> oracleSpec.mode = "automatic"
  /\ oracleSpec.mode = "exit_zero" => oracleSpec.reject = {}

EvidenceValid == ObservationsProve /\ ModeContract

Report ==
  /\ phase = "verified"
  /\ phase' = IF EvidenceValid THEN "publishable" ELSE "failed"
  /\ UNCHANGED <<request, prepared, searchVars, runnerVars>>

Ended == phase \in {"publishable", "failed"} /\ UNCHANGED vars

EngineStep ==
  \/ StartRun \/ CommandMissing \/ TakeProbe \/ Prepare \/ FailRun
  \/ RefuseBaseline \/ TakeBaseline \/ BeginSearch
  \/ Observe \/ UseRecorded \/ Decide
  \/ ObserveFinal \/ Verify \/ Report

RunnerMoves == RunnerStep /\ UNCHANGED <<request, phase, prepared, searchVars>>
DescendantMoves == DescendantStep /\ UNCHANGED <<request, phase, prepared, searchVars>>

RunnerFails ==
  /\ request.errors > 0
  /\ request' = [request EXCEPT !.errors = @ - 1]
  /\ FailWaiting \/ FailKilling \/ FailReading
  /\ UNCHANGED <<phase, prepared, searchVars>>

Next ==
  \/ EngineStep \/ Stabilise \/ Resume
  \/ RunnerMoves \/ DescendantMoves \/ RunnerFails
  \/ Ended

Spec == Init /\ [][Next]_vars

\* The program goes on, commands that exit do so, and deadlines pass; nothing
\* is assumed of what a command leaves behind.  (Of Stabilise, which is enabled
\* where the baselines are complete, this is what weak fairness says.)
FairSpec == Spec /\ WF_vars(EngineStep \/ RunnerMoves) /\ []<>~BaselinesComplete

-----------------------------------------------------------------------------
\* The type invariant of one run: the observation a run returns is complete, and
\* verdicts are counted only while there is something to decide.
TypeOK ==
  /\ phase \in Phase
  /\ prepared \in Nat /\ (Probing => prepared = 0) /\ (Wanted => prepared <= Len(request.preparation[Subject]))
  /\ Len(baselines) <= policy.runs
  /\ evidence \in Evidence /\ Observed(evidence) <= policy.runs
  /\ kept \in Project
  /\ recorded \in CandidateVerdict \cup {"none"}
  /\ phase \in {"search", "final", "verified", "publishable"} => oracle.spec = oracleSpec
  /\ leader \in {"none", "running", "finishing", "exited", "reaped"}
  /\ descendant \in {"none", "holding", "detached"}
  /\ status \in TerminationReason \cup {"none", "killed"}
  /\ waiting \in {"idle", "polling", "overdue", "killed", "joining", "returned", "lost"}
  /\ timedOut \in BOOLEAN /\ truncated \in BOOLEAN /\ runError \in BOOLEAN
  /\ waiting = "returned" => leader = "reaped" /\ (runError \/ Reason \in TerminationReason)

\* The verdicts the observations still to come could have.
Completions == [1..Remaining(policy, evidence) -> CandidateVerdict]

Reaches(rest) == evidence.preserved + Cardinality({i \in DOMAIN rest : rest[i] = "preserved"}) >= policy.required

\* Observations end exactly when the outcome is inevitable: none is made that
\* could not change whether the threshold is reached, and none is left out that
\* could ("stops once the outcome is inevitable", policy.rs:76-91).
StopsWhenInevitable ==
  IF Terminal(policy, evidence) = "preserved" THEN \A rest \in Completions : Reaches(rest)
  ELSE IF Terminal(policy, evidence) = "none"
  THEN (\E rest \in Completions : Reaches(rest)) /\ (\E rest \in Completions : ~Reaches(rest))
  ELSE \A rest \in Completions : ~Reaches(rest)

\* An oracle recognises the baselines it was made from, as many of them as the
\* policy asks for, whatever anchors were chosen and however runs differ in what
\* normalisation removes (oracle.rs:189-334, lib.rs:741-786).
RecognisesBaselines ==
  phase = "stabilised" => Cardinality(PreservedBy(oracle)) >= policy.required

\* What a run reports as verified was seen to fail in this run, as often as the
\* policy asks for, in the way this run's oracle says, also if the verdict that
\* chose it comes from a run with another oracle (lib.rs:494, 661-691).
VerifiedInThisRun ==
  phase \in {"verified", "publishable"} =>
    /\ oracle.spec = oracleSpec
    /\ Cardinality({i \in DOMAIN finals : /\ finals[i].project = kept
                                         /\ Classify(oracle, finals[i].observation) = "preserved"})
         >= policy.required

\* With three of three observations and an oracle that reads the output, what was
\* verified is accepted as evidence and can be published (evidence.rs:252-344).
StrictIsPublishable ==
  phase = "verified" /\ policy = Strict /\ oracleSpec.mode # "exit_zero" => EvidenceValid

\* The same, of any policy and oracle.
VerifiedIsPublishable == phase = "verified" => EvidenceValid

\* A run that was cut short leaves no process behind, also if the command exits
\* between the deadline and the kill; and no run returns before its command was
\* waited for (runner/lib.rs:231-243, 329-339).  Where the kill itself fails the run
\* is lost and returns no observation: of that nothing is said.
NoSurvivors ==
  /\ timedOut /\ waiting \in {"killed", "joining", "returned"} => descendant = "none" /\ ~Alive
  /\ waiting = "returned" => leader = "reaped"

\* A run waits for a descendant that holds the streams of a command that exited
\* in time, or for a command that could not be killed; nothing else keeps it from
\* its end (runner/lib.rs:341-350, 362-410).
Held ==
  \/ waiting = "joining" /\ descendant = "holding" /\ ~timedOut
  \/ waiting = "lost" /\ Alive

EndsUnlessHeld == <>[](phase \in {"publishable", "failed"} \/ Held)

=============================================================================
