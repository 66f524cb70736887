--------------------------- MODULE EvaluationProofs ---------------------------
(***************************************************************************)
(* Proofs about Evaluation, for every policy, specification and command:   *)
(* its types, that observations end exactly when the outcome is            *)
(* inevitable, that an oracle recognises the baselines it was made from,   *)
(* that what is reported was seen to fail in the run that reports it, that *)
(* a strict result is accepted as evidence, and that a run cut short       *)
(* leaves no process behind.                                               *)
(***************************************************************************)
EXTENDS Evaluation, FiniteSetTheorems, WellFoundedInduction, TLAPS

-----------------------------------------------------------------------------
\* The policy.

LEMMA PolicyIs ==
  ASSUME NEW p \in EvaluationPolicy
  PROVE  p.runs \in Nat /\ p.required \in Nat /\ 1 <= p.required /\ p.required <= p.runs
<1>1. CASE p = Strict BY <1>1 DEF Strict
<1>2. CASE p \in Flaky
  <2>1. p \in [runs : 5..101, required : 1..101] /\ p.required <= p.runs BY <1>2, Zenon DEF Flaky
  <2>2. p.runs \in 5..101 /\ p.required \in 1..101 BY <2>1
  <2> QED BY <2>1, <2>2
<1> QED BY <1>1, <1>2 DEF EvaluationPolicy

LEMMA EvidenceIs ==
  ASSUME NEW e \in Evidence
  PROVE  /\ e.preserved \in Nat /\ e.rejected \in Nat /\ e.inconclusive \in Nat
         /\ Observed(e) \in Nat /\ Observed(e) = e.preserved + e.rejected + e.inconclusive
BY DEF Evidence, Observed

LEMMA RemainingIs ==
  ASSUME NEW p \in EvaluationPolicy, NEW e \in Evidence
  PROVE  /\ Remaining(p, e) \in Nat
         /\ Observed(e) <= p.runs => Remaining(p, e) = p.runs - Observed(e)
         /\ Observed(e) >= p.runs => Remaining(p, e) = 0
<1>1. p.runs \in Nat /\ Observed(e) \in Nat BY PolicyIs, EvidenceIs
<1> QED BY <1>1 DEF Remaining

LEMMA TerminalIs ==
  ASSUME NEW p \in EvaluationPolicy, NEW e \in Evidence
  PROVE  /\ Terminal(p, e) \in CandidateVerdict \cup {"none"}
         /\ Terminal(p, e) = "preserved" <=> e.preserved >= p.required
         /\ Terminal(p, e) = "none" <=> e.preserved < p.required /\ e.preserved + Remaining(p, e) >= p.required
<1>1. p.required \in Nat /\ e.preserved \in Nat /\ Remaining(p, e) \in Nat BY PolicyIs, EvidenceIs, RemainingIs
<1> HIDE DEF Remaining
<1> QED BY <1>1 DEF Terminal, CandidateVerdict

\* Where observations have ended, no more are wanted; a decision for the candidate
\* says that it was seen often enough.
LEMMA ConsumedIs ==
  ASSUME NEW p \in EvaluationPolicy, NEW e \in Evidence
  PROVE  /\ ~Consumed(p, e) => Observed(e) < p.runs
         /\ Decision(p, e) = "preserved" => e.preserved >= p.required
         /\ Decision(p, e) \in CandidateVerdict
<1>1. p.runs \in Nat /\ Observed(e) \in Nat BY PolicyIs, EvidenceIs
<1>2. ~Consumed(p, e) => Observed(e) < p.runs BY <1>1 DEF Consumed
<1>3. Decision(p, e) = "preserved" => Terminal(p, e) = "preserved" BY DEF Decision
<1>4. Decision(p, e) \in CandidateVerdict BY TerminalIs DEF Decision, CandidateVerdict
<1> QED BY <1>2, <1>3, <1>4, TerminalIs

\* One more observation.
LEMMA RecordIs ==
  ASSUME NEW e \in Evidence, NEW v \in CandidateVerdict
  PROVE  /\ Record(e, v) \in Evidence
         /\ Observed(Record(e, v)) = Observed(e) + 1
         /\ Record(e, v).preserved = IF v = "preserved" THEN e.preserved + 1 ELSE e.preserved
         /\ v # "preserved" => Record(e, v).rejected + Record(e, v).inconclusive > 0
         /\ v = "preserved" => Record(e, v).rejected = e.rejected /\ Record(e, v).inconclusive = e.inconclusive
<1>1. CASE v = "preserved" BY <1>1 DEF Record, Evidence, Observed
<1>2. CASE v = "rejected" BY <1>2 DEF Record, Evidence, Observed
<1>3. CASE v = "inconclusive" BY <1>3 DEF Record, Evidence, Observed
<1> QED BY <1>1, <1>2, <1>3, Zenon DEF CandidateVerdict

\* How often the verdicts still to come may be for the candidate.
Counted(rest) == {i \in DOMAIN rest : rest[i] = "preserved"}

LEMMA CountedIs ==
  ASSUME NEW n \in Nat, NEW rest \in [1..n -> CandidateVerdict]
  PROVE  /\ Cardinality(Counted(rest)) \in 0..n
         /\ (\A i \in 1..n : rest[i] = "preserved") => Cardinality(Counted(rest)) = n
         /\ (\A i \in 1..n : rest[i] # "preserved") => Cardinality(Counted(rest)) = 0
<1>1. IsFiniteSet(1..n) /\ Cardinality(1..n) = n BY FS_Interval
<1>2. Counted(rest) \subseteq 1..n BY DEF Counted
<1>3. Cardinality(Counted(rest)) \in Nat /\ Cardinality(Counted(rest)) <= n
  BY <1>1, <1>2, FS_Subset, FS_CardinalityType
<1>4. (\A i \in 1..n : rest[i] = "preserved") => Counted(rest) = 1..n BY DEF Counted
<1>5. (\A i \in 1..n : rest[i] # "preserved") => Counted(rest) = {} BY DEF Counted
<1>6. Cardinality(Counted(rest)) \in 0..n BY <1>3
<1>7. (\A i \in 1..n : rest[i] = "preserved") => Cardinality(Counted(rest)) = n BY <1>1, <1>4, Zenon
<1>8. (\A i \in 1..n : rest[i] # "preserved") => Cardinality(Counted(rest)) = 0 BY <1>5, FS_EmptySet, Zenon
<1> QED BY <1>6, <1>7, <1>8

LEMMA Inevitable ==
  ASSUME policy \in EvaluationPolicy, evidence \in Evidence
  PROVE  StopsWhenInevitable
<1> DEFINE n == Remaining(policy, evidence)
<1>1. /\ policy.required \in Nat /\ evidence.preserved \in Nat /\ n \in Nat
  BY PolicyIs, EvidenceIs, RemainingIs
<1>2. Completions = [1..n -> CandidateVerdict] BY Zenon DEF Completions
<1>3. \A rest : Reaches(rest) <=> evidence.preserved + Cardinality(Counted(rest)) >= policy.required
  BY Zenon DEF Reaches, Counted
<1> HIDE DEF n
<1>4. \A rest \in Completions : Cardinality(Counted(rest)) \in 0..n BY <1>1, <1>2, CountedIs
<1>5. CASE Terminal(policy, evidence) = "preserved"
  <2>1. evidence.preserved >= policy.required BY <1>5, TerminalIs
  <2>2. \A rest \in Completions : Reaches(rest) BY <1>1, <1>3, <1>4, <2>1
  <2> QED BY <1>5, <2>2, Zenon DEF StopsWhenInevitable
<1>6. CASE Terminal(policy, evidence) = "none"
  <2>1. evidence.preserved < policy.required /\ evidence.preserved + n >= policy.required
    BY <1>6, TerminalIs DEF n
  <2>2. \E rest \in Completions : Reaches(rest)
    <3>1. [i \in 1..n |-> "preserved"] \in Completions BY <1>2 DEF CandidateVerdict
    <3>2. Cardinality(Counted([i \in 1..n |-> "preserved"])) = n BY <1>1, <1>2, <3>1, CountedIs
    <3> QED BY <1>1, <1>3, <2>1, <3>1, <3>2
  <2>3. \E rest \in Completions : ~Reaches(rest)
    <3>1. [i \in 1..n |-> "rejected"] \in Completions BY <1>2 DEF CandidateVerdict
    <3>2. Cardinality(Counted([i \in 1..n |-> "rejected"])) = 0 BY <1>1, <1>2, <3>1, CountedIs
    <3> QED BY <1>1, <1>3, <2>1, <3>1, <3>2
  <2> QED BY <1>6, <2>2, <2>3, Zenon DEF StopsWhenInevitable
<1>7. CASE Terminal(policy, evidence) \notin {"preserved", "none"}
  <2>1. evidence.preserved + n < policy.required BY <1>1, <1>7, TerminalIs DEF n
  <2>2. \A rest \in Completions : ~Reaches(rest) BY <1>1, <1>3, <1>4, <2>1
  <2> QED BY <1>7, <2>2, Zenon DEF StopsWhenInevitable
<1> QED BY <1>5, <1>6, <1>7

-----------------------------------------------------------------------------
\* The runner.

Exits == ExitCode \cup UnixSignal
Given == timedOut = FALSE /\ runError = FALSE => status \in Exits

\* What a run of a command is at each step of waiting for it.
RunnerSound ==
  /\ leader \in {"none", "running", "finishing", "exited", "reaped"}
  /\ descendant \in {"none", "holding", "detached"}
  /\ status \in Exits \cup {"none", "killed"}
  /\ waiting \in {"idle", "polling", "overdue", "killed", "joining", "returned", "lost"}
  /\ timedOut \in BOOLEAN /\ truncated \in BOOLEAN /\ runError \in BOOLEAN
  /\ captured \in [Stream -> Seq(Line)]
  /\ waiting # "idle" => program \in Behaviour
  /\ waiting = "idle" => leader = "none"
  /\ waiting \in {"idle", "polling"} => timedOut = FALSE
  /\ Alive => waiting \in {"polling", "overdue", "lost"}
  /\ waiting = "lost" => runError = TRUE
  /\ waiting = "polling" /\ leader = "exited" => status \in Exits
  /\ waiting = "killed" => timedOut = TRUE
  /\ waiting = "overdue" => timedOut = TRUE
  /\ waiting \in {"joining", "returned"} => leader = "reaped" /\ Given
  /\ timedOut = TRUE /\ waiting \in {"killed", "joining", "returned"} => descendant = "none"

\* What becomes of a run.
RunnerChange ==
  \/ UNCHANGED runnerVars
  \/ \E prog \in Behaviour : Spawn(prog)
  \/ BackToIdle
  \/ RunnerStep \/ DescendantStep
  \/ FailWaiting \/ FailKilling \/ FailReading

LEMMA NoOutputIs == NoOutput \in [Stream -> Seq(Line)]
BY DEF NoOutput, Stream

LEMMA BehaviourIs ==
  ASSUME NEW prog \in Behaviour
  PROVE  prog.output \in [Stream -> Seq(Line)] /\ prog.exit \in Exits /\ prog.leaves \in {"none", "holding"}
BY DEF Behaviour, Exits

\* The lines retained of a stream.
LEMMA KeptIs ==
  ASSUME NEW lines \in Seq(Line)
  PROVE  Kept(lines) \in Seq(Line)
<1>1. MaxOutput \in Nat BY EvaluationAssumption
<1>2. CASE Len(lines) < MaxOutput
  <2>1. Kept(lines) = SubSeq(lines, 1, Len(lines)) BY <1>2 DEF Kept
  <2> QED BY <2>1
<1>3. CASE ~(Len(lines) < MaxOutput)
  <2>1. Kept(lines) = SubSeq(lines, 1, MaxOutput) BY <1>3 DEF Kept
  <2>2. MaxOutput <= Len(lines) BY <1>1, <1>3
  <2> QED BY <1>1, <2>1, <2>2
<1> QED BY <1>2, <1>3

LEMMA RunnerHolds ==
  ASSUME RunnerSound, RunnerChange
  PROVE  RunnerSound'
<1> USE DEF RunnerSound, Alive, Given
<1>1. CASE UNCHANGED runnerVars BY <1>1 DEF runnerVars
<1>2. ASSUME NEW prog \in Behaviour, Spawn(prog) PROVE RunnerSound' BY <1>2 DEF Spawn
<1>3. CASE BackToIdle BY <1>3, NoOutputIs DEF BackToIdle
<1>4. CASE Write
  <2>1. waiting \in {"polling", "overdue", "lost"} BY <1>4 DEF Write
  <2>2. program \in Behaviour BY <2>1
  <2>3. captured' \in [Stream -> Seq(Line)]
    <3>1. captured' = [stream \in Stream |-> Kept(program.output[stream])] BY <1>4 DEF Write
    <3>2. \A stream \in Stream : Kept(program.output[stream]) \in Seq(Line) BY <2>2, BehaviourIs, KeptIs
    <3> QED BY <3>1, <3>2
  <2>4. truncated' \in BOOLEAN BY <1>4 DEF Write
  <2>5. descendant' \in {"none", "holding"} BY <1>4, <2>2, BehaviourIs DEF Write
  <2> QED BY <1>4, <2>1, <2>3, <2>4, <2>5 DEF Write
<1>5. CASE Exit
  <2>1. waiting \in {"polling", "overdue", "lost"} BY <1>5 DEF Exit
  <2>2. program.exit \in Exits BY <2>1, BehaviourIs
  <2> QED BY <1>5, <2>1, <2>2 DEF Exit
<1>6. CASE TryWait BY <1>6 DEF TryWait
<1>7. CASE Expire BY <1>7 DEF Expire
<1>8. CASE Terminate BY <1>8 DEF Terminate, KillGroup
<1>9. CASE Reap BY <1>9 DEF Reap
<1>10. CASE Join BY <1>10 DEF Join
<1>11. CASE Detach BY <1>11 DEF Detach
<1>12. CASE DescendantExit BY <1>12 DEF DescendantExit
<1>13. CASE FailWaiting BY <1>13 DEF FailWaiting
<1>14. CASE FailReading BY <1>14 DEF FailReading
<1>15. CASE FailKilling BY <1>15 DEF FailKilling
<1> QED
  BY <1>1, <1>2, <1>3, <1>4, <1>5, <1>6, <1>7, <1>8, <1>9, <1>10, <1>11, <1>12, <1>13, <1>14, <1>15, Zenon
     DEF RunnerChange, RunnerStep, DescendantStep

\* What a run that came back has seen.
LEMMA ObservationIs ==
  ASSUME RunnerSound, Returned
  PROVE  /\ Observation.termination \in TerminationReason
         /\ Observation \in [termination : TerminationReason, stdout : Seq(Line), stderr : Seq(Line), truncated : BOOLEAN]
<1>1. waiting = "returned" /\ runError = FALSE BY DEF Returned, RunnerSound
<1>2. Reason \in TerminationReason BY <1>1 DEF Reason, RunnerSound, Given, TerminationReason, Exits
<1>3. captured.stdout \in Seq(Line) /\ captured.stderr \in Seq(Line) /\ truncated \in BOOLEAN
  BY DEF RunnerSound, Stream
<1> QED BY <1>2, <1>3 DEF Observation

-----------------------------------------------------------------------------
\* The run and its request.

Seen == [termination : TerminationReason, stdout : Seq(Line), stderr : Seq(Line), truncated : BOOLEAN]
Verified == [observation : Seen, verdict : CandidateVerdict, project : Project]

\* A command of a preparation is due only where an observation is.
Due == prepared = 0 \/ (Wanted /\ prepared <= Len(request.preparation[Subject]))

RunSound ==
  /\ request \in Request
  /\ phase \in Phase /\ kept \in Project /\ recorded \in CandidateVerdict \cup {"none"}
  /\ prepared \in Nat /\ Due
  /\ waiting # "idle" => Probing \/ Wanted

BaselinesSound == baselines \in Seq(Seen) /\ Len(baselines) <= policy.runs

EvidenceSound == evidence \in Evidence /\ Observed(evidence) <= policy.runs

\* The oracle is this run's.
Established == {"stabilised", "search", "final", "verified", "publishable"}

OracleSound ==
  phase \in Established =>
    /\ oracle.spec = oracleSpec
    /\ oracle.anchors # <<>> <=> oracleSpec.mode = "automatic"

\* Each observation of the final verification is of what was kept, and was counted.
Preserving(seen, project, o) ==
  {i \in DOMAIN seen : seen[i].project = project /\ Classify(o, seen[i].observation) = "preserved"}

FinalSound ==
  /\ finals \in Seq(Verified)
  /\ phase \in {"probe", "baseline", "stabilised", "search"} => finals = <<>>
  /\ phase \in {"final", "verified", "publishable"} =>
       /\ \A i \in DOMAIN finals :
            finals[i].project = kept /\ finals[i].verdict = Classify(oracle, finals[i].observation)
       /\ Cardinality(Preserving(finals, kept, oracle)) = evidence.preserved
       /\ evidence.rejected + evidence.inconclusive = 0 =>
            Len(finals) = evidence.preserved /\ \A i \in DOMAIN finals : finals[i].verdict = "preserved"
  /\ phase \in {"verified", "publishable"} => evidence.preserved >= policy.required

IInv == RunnerSound /\ RunSound /\ BaselinesSound /\ EvidenceSound /\ OracleSound /\ FinalSound /\ RecognisesBaselines

LEMMA RequestIs ==
  ASSUME request \in Request
  PROVE  /\ policy \in EvaluationPolicy /\ oracleSpec \in OracleSpec /\ ValidSpec(oracleSpec)
         /\ request.probe \subseteq Behaviour
         /\ \A p \in Project : /\ request.behaviour[p] \subseteq Behaviour
                               /\ request.preparation[p] \in Seq([isolated : BOOLEAN, programs : SUBSET Behaviour])
BY DEF Request, policy, oracleSpec

LEMMA ElementIs ==
  ASSUME NEW S, NEW seq \in Seq(S), NEW i \in Nat, i < Len(seq)
  PROVE  seq[i + 1] \in S
OBVIOUS

LEMMA SubjectIs == ASSUME kept \in Project PROVE Subject \in Project
BY DEF Subject, Project

\* What is asked for stays; of errors and restarts there are fewer.
LEMMA RequestStays ==
  ASSUME request \in Request, Next
  PROVE  /\ request' \in Request /\ policy' = policy /\ oracleSpec' = oracleSpec
         /\ request'.preparation = request.preparation
<1>1. CASE request' = request BY <1>1 DEF policy, oracleSpec
<1>2. CASE Resume
  <2>1. request' = [request EXCEPT !.restarts = request.restarts - 1] /\ request.restarts > 0 BY <1>2 DEF Resume
  <2>2. request.restarts - 1 \in Nat BY <2>1 DEF Request
  <2> QED BY <2>1, <2>2 DEF Request, policy, oracleSpec
<1>3. CASE RunnerFails
  <2>1. request' = [request EXCEPT !.errors = request.errors - 1] /\ request.errors > 0 BY <1>3 DEF RunnerFails
  <2>2. request.errors - 1 \in Nat BY <2>1 DEF Request
  <2> QED BY <2>1, <2>2 DEF Request, policy, oracleSpec
<1>4. request' = request \/ Resume \/ RunnerFails
  <2>1. EngineStep => request' = request
    <3>1. Decide \/ UseRecorded => request' = request BY Zenon DEF Decide, UseRecorded, Keep
    <3> QED BY <3>1, Zenon
      DEF EngineStep, StartRun, CommandMissing, TakeProbe, Prepare, FailRun, RefuseBaseline, TakeBaseline, BeginSearch,
          Observe, ObserveFinal, Verify, Report
  <2>2. Ended => request' = request BY DEF Ended, vars
  <2> QED BY <2>1, <2>2, Zenon DEF Next, Stabilise, RunnerMoves, DescendantMoves
<1> QED BY <1>1, <1>2, <1>3, <1>4

\* A run changes as the runner says.
LEMMA RunnerChanges ==
  ASSUME RunSound, Next
  PROVE  RunnerChange
<1>1. CASE StartRun
  <2>1. PICK prog : Spawn(prog) /\ (prog \in request.probe \/ (Preparing /\ prog \in Preparation.programs)
                                      \/ prog \in request.behaviour[Subject])
    BY <1>1, Zenon DEF StartRun
  <2>2. Subject \in Project BY SubjectIs DEF RunSound
  <2>3. prog \in Behaviour
    <3>1. CASE prog \in request.probe BY <3>1, RequestIs DEF RunSound
    <3>2. CASE Preparing /\ prog \in Preparation.programs
      <4>1. request.preparation[Subject] \in Seq([isolated : BOOLEAN, programs : SUBSET Behaviour])
        BY <2>2, RequestIs DEF RunSound
      <4>2. prepared \in Nat /\ prepared < Len(request.preparation[Subject]) BY <3>2 DEF RunSound, Preparing
      <4>3. Preparation \in [isolated : BOOLEAN, programs : SUBSET Behaviour]
        BY <4>1, <4>2, ElementIs DEF Preparation
      <4> QED BY <3>2, <4>3
    <3>3. CASE prog \in request.behaviour[Subject] BY <2>2, <3>3, RequestIs DEF RunSound
    <3> QED BY <2>1, <3>1, <3>2, <3>3
  <2> QED BY <2>1, <2>3 DEF RunnerChange
<1>2. CASE EngineStep /\ ~StartRun
  <2>1. Decide \/ UseRecorded => UNCHANGED runnerVars BY Zenon DEF Decide, UseRecorded, Keep
  <2> QED BY <1>2, <2>1, Zenon
    DEF EngineStep, CommandMissing, TakeProbe, Prepare, FailRun, RefuseBaseline, TakeBaseline, BeginSearch,
        Observe, ObserveFinal, Verify, Report, RunnerChange
<1>3. CASE Ended BY <1>3 DEF Ended, vars, RunnerChange
<1> QED BY <1>1, <1>2, <1>3, Zenon
  DEF Next, Stabilise, Resume, RunnerMoves, DescendantMoves, RunnerFails, RunnerChange

\* What a step makes of the run.
LEMMA DecisionIs ==
  ASSUME RunSound, EvidenceSound
  PROVE  Decision(policy, evidence) \in CandidateVerdict
BY ConsumedIs, RequestIs, Zenon DEF RunSound, EvidenceSound

LEMMA PlacesHold ==
  ASSUME RunSound, EvidenceSound, Next
  PROVE  phase' \in Phase /\ kept' \in Project /\ recorded' \in CandidateVerdict \cup {"none"}
<1> USE DEF RunSound, Phase, Project
<1>1. CASE UNCHANGED <<phase, kept, recorded>> BY <1>1
<1>2. CASE Decide BY <1>2, DecisionIs DEF Decide, Keep
<1>3. CASE UseRecorded BY <1>3 DEF UseRecorded, Keep
<1>4. CASE Resume BY <1>4 DEF Resume, FirstPhase
<1>5. CASE CommandMissing BY <1>5 DEF CommandMissing, searchVars
<1>6. CASE TakeProbe BY <1>6 DEF TakeProbe, searchVars
<1>7. CASE FailRun BY <1>7 DEF FailRun, searchVars
<1>8. CASE RefuseBaseline BY <1>8 DEF RefuseBaseline, searchVars
<1>9. CASE BeginSearch BY <1>9 DEF BeginSearch
<1>10. CASE Verify BY <1>10 DEF Verify, searchVars
<1>11. CASE Report BY <1>11 DEF Report, searchVars
<1>12. CASE Stabilise
  <2>1. phase' \in {"stabilised", "failed"} /\ UNCHANGED <<kept, recorded>> BY <1>12, Zenon DEF Stabilise
  <2> QED BY <2>1
<1>13. CASE StartRun BY <1>1, <1>13 DEF StartRun, searchVars
<1>14. CASE Prepare BY <1>1, <1>14 DEF Prepare, searchVars
<1>15. CASE TakeBaseline BY <1>1, <1>15 DEF TakeBaseline
<1>16. CASE Observe BY <1>1, <1>16 DEF Observe
<1>17. CASE ObserveFinal BY <1>1, <1>17 DEF ObserveFinal
<1>18. CASE RunnerMoves \/ DescendantMoves \/ RunnerFails
  BY <1>1, <1>18 DEF RunnerMoves, DescendantMoves, RunnerFails, searchVars
<1>19. CASE Ended BY <1>1, <1>19 DEF Ended, vars, searchVars
<1> QED
  BY <1>2, <1>3, <1>4, <1>5, <1>6, <1>7, <1>8, <1>9, <1>10, <1>11, <1>12, <1>13, <1>14, <1>15, <1>16, <1>17, <1>18, <1>19, Zenon
     DEF Next, EngineStep

\* A step of the runner, or the beginning of a run.
LEMMA WantedStays ==
  ASSUME UNCHANGED <<phase, prepared, searchVars>>, policy' = policy, request'.preparation = request.preparation
  PROVE  (Wanted' <=> Wanted) /\ (Probing' <=> Probing) /\ (Due' <=> Due)
<1>1. UNCHANGED <<phase, prepared, baselines, oracle, evidence, kept, finals, recorded>> BY DEF searchVars
<1>2. Wanted' <=> Wanted BY <1>1, Zenon DEF Wanted, Conclusive, Consumed, Terminal, Remaining, Observed
<1>3. Subject' = Subject BY <1>1 DEF Subject
<1>4. Probing' <=> Probing BY <1>1 DEF Probing
<1>5. Due' <=> Due BY <1>1, <1>2, <1>3, Zenon DEF Due
<1> QED BY <1>2, <1>4, <1>5

\* Where nothing is wanted, no command of a preparation is done, and nothing runs
\* but the probe.
LEMMA NothingDue ==
  ASSUME RunSound, ~Wanted
  PROVE  prepared = 0 /\ (~Probing => waiting = "idle")
BY DEF RunSound, Due

LEMMA DueHolds ==
  ASSUME RunSound, Next
  PROVE  prepared' \in Nat /\ Due' /\ (waiting' # "idle" => (Probing \/ Wanted)')
<1>1. CASE prepared' = 0 /\ waiting' = "idle" BY <1>1 DEF Due
<1>2. CASE StartRun \/ RunnerMoves \/ DescendantMoves \/ RunnerFails \/ Ended
  <2>1. UNCHANGED <<phase, prepared, searchVars>>
    BY <1>2 DEF StartRun, RunnerMoves, DescendantMoves, RunnerFails, Ended, vars
  <2>2. policy' = policy /\ request'.preparation = request.preparation BY RequestStays DEF RunSound
  <2>3. waiting # "idle" \/ waiting' = "idle" \/ Probing \/ Wanted
    BY <1>2 DEF StartRun, RunnerMoves, RunnerStep, Write, Exit, TryWait, Expire, Terminate, Reap, Join,
                DescendantMoves, DescendantStep, Detach, DescendantExit, RunnerFails, FailWaiting, FailKilling, FailReading,
                Ended, vars, runnerVars
  <2>4. prepared' = prepared BY <2>1
  <2> QED BY <2>1, <2>2, <2>3, <2>4, WantedStays, Zenon DEF RunSound
<1>3. CASE Prepare
  <2>1. /\ ~Probing /\ prepared < Len(request.preparation[Subject])
        /\ prepared' = prepared + 1 /\ waiting' = "idle" /\ UNCHANGED <<request, phase, searchVars>>
        /\ waiting = "returned"
    BY <1>3 DEF Prepare, Preparing, Returned, BackToIdle
  <2>2. Wanted BY <2>1 DEF RunSound
  <2>3. Subject' = Subject BY <2>1 DEF Subject, searchVars
  <2>4. Wanted'
    BY <2>1, <2>2, Zenon DEF Wanted, Conclusive, Consumed, Terminal, Remaining, Observed, searchVars, policy
  <2>5. prepared' \in Nat /\ prepared' <= Len(request.preparation[Subject])
    <3>1. Subject \in Project BY SubjectIs DEF RunSound
    <3>2. Len(request.preparation[Subject]) \in Nat BY <3>1, RequestIs DEF RunSound
    <3>3. prepared \in Nat BY DEF RunSound
    <3> QED BY <2>1, <3>2, <3>3
  <2> QED BY <2>1, <2>3, <2>4, <2>5 DEF Due
<1>4. CASE Resume \/ FailRun \/ RefuseBaseline \/ TakeBaseline \/ Observe \/ ObserveFinal
  BY <1>1, <1>4 DEF Resume, FailRun, RefuseBaseline, TakeBaseline, Observe, ObserveFinal, BackToIdle
<1>5. CASE TakeProbe
  <2>1. ~Wanted BY <1>5 DEF TakeProbe, Probing, Wanted
  <2> QED BY <1>1, <1>5, <2>1, NothingDue DEF TakeProbe, BackToIdle
<1>6. CASE CommandMissing BY <1>1, <1>6 DEF CommandMissing, runnerVars
<1>7. CASE Stabilise \/ BeginSearch \/ Report
  <2>1. ~Wanted /\ ~Probing
    BY <1>7 DEF Stabilise, BaselinesComplete, BeginSearch, Report, Probing, Wanted
  <2>2. UNCHANGED <<prepared, waiting>> BY <1>7, Zenon DEF Stabilise, BeginSearch, Report, runnerVars
  <2> QED BY <1>1, <2>1, <2>2, NothingDue
<1>8. CASE UseRecorded \/ Decide \/ Verify
  <2>1. ~Wanted /\ ~Probing BY <1>8, Zenon DEF UseRecorded, Decide, Verify, Probing, Wanted
  <2>2. UNCHANGED <<prepared, waiting>> BY <1>8, Zenon DEF UseRecorded, Decide, Keep, Verify, runnerVars
  <2> QED BY <1>1, <2>1, <2>2, NothingDue
<1> QED
  BY <1>2, <1>3, <1>4, <1>5, <1>6, <1>7, <1>8, Zenon DEF Next, EngineStep

LEMMA RunHolds == ASSUME RunSound, EvidenceSound, Next PROVE RunSound'
<1>1. request \in Request BY DEF RunSound
<1> QED BY <1>1, RequestStays, PlacesHold, DueHolds DEF RunSound

-----------------------------------------------------------------------------
\* Baselines, evidence and oracle.

LEMMA BaselinesHold ==
  ASSUME RunnerSound, RunSound, BaselinesSound, Next
  PROVE  BaselinesSound'
<1>1. policy' = policy /\ policy.runs \in Nat BY RequestStays, RequestIs, PolicyIs DEF RunSound
<1>2. CASE baselines' = baselines BY <1>1, <1>2 DEF BaselinesSound
<1>3. CASE baselines' = <<>> BY <1>1, <1>3 DEF BaselinesSound
<1>4. CASE TakeBaseline
  <2>1. baselines' = Append(baselines, Observation) BY <1>4 DEF TakeBaseline
  <2>2. Observation \in Seen BY <1>4, ObservationIs DEF TakeBaseline, Ran, Seen
  <2>3. Len(baselines) < policy.runs
    <3>1. phase = "baseline" /\ waiting = "returned" BY <1>4 DEF TakeBaseline, Ran, Returned
    <3> QED BY <3>1 DEF RunSound, Probing, Wanted
  <2>4. baselines \in Seq(Seen) /\ Len(baselines) \in Nat BY DEF BaselinesSound
  <2>5. baselines' \in Seq(Seen) /\ Len(baselines') = Len(baselines) + 1 BY <2>1, <2>2, <2>4
  <2> QED BY <1>1, <2>3, <2>4, <2>5 DEF BaselinesSound
<1>5. CASE EngineStep /\ ~TakeBaseline
  <2>1. Decide \/ UseRecorded => baselines' = baselines BY Zenon DEF Decide, UseRecorded, Keep
  <2>2. StartRun \/ CommandMissing \/ TakeProbe \/ Prepare \/ FailRun \/ RefuseBaseline \/ Verify \/ Report =>
          baselines' = baselines
    BY Zenon DEF StartRun, CommandMissing, TakeProbe, Prepare, FailRun, RefuseBaseline, Verify, Report, searchVars
  <2>3. Observe \/ ObserveFinal => baselines' = baselines BY DEF Observe, ObserveFinal
  <2>4. BeginSearch => baselines' = <<>> BY DEF BeginSearch
  <2> QED BY <1>2, <1>3, <1>5, <2>1, <2>2, <2>3, <2>4, Zenon DEF EngineStep
<1>6. CASE Stabilise BY <1>2, <1>6, Zenon DEF Stabilise
<1>7. CASE Resume BY <1>3, <1>7 DEF Resume
<1>8. CASE RunnerMoves \/ DescendantMoves \/ RunnerFails \/ Ended
  BY <1>2, <1>8 DEF RunnerMoves, DescendantMoves, RunnerFails, Ended, vars, searchVars
<1> QED BY <1>4, <1>5, <1>6, <1>7, <1>8, Zenon DEF Next

LEMMA ClassifyIs ==
  ASSUME NEW o, NEW observation
  PROVE  /\ Classify(o, observation) \in CandidateVerdict
         /\ Classify(o, observation) = "preserved" /\ o.spec.mode # "exit_zero" =>
              observation.termination # "timed out" /\ ~observation.truncated
<1>1. ClassifyExit(observation.termination) \in CandidateVerdict BY DEF ClassifyExit, CandidateVerdict
<1>2. Classify(o, observation) \in CandidateVerdict BY <1>1 DEF Classify, CandidateVerdict
<1>3. Classify(o, observation) = "preserved" /\ o.spec.mode # "exit_zero" =>
        observation.termination # "timed out" /\ ~observation.truncated
  BY DEF Classify
<1> QED BY <1>2, <1>3

LEMMA VerdictIs == Verdict \in CandidateVerdict
BY ClassifyIs DEF Verdict, CandidateVerdict

\* An observation is made only where it is wanted.
LEMMA ObservedFew ==
  ASSUME RunSound, EvidenceSound, Observe \/ ObserveFinal
  PROVE  Observed(evidence) < policy.runs
<1>1. waiting = "returned" /\ phase \in {"search", "final"}
  BY DEF Observe, ObserveFinal, Ran, PreparationRejected, Returned
<1>2. ~Consumed(policy, evidence) BY <1>1 DEF RunSound, Probing, Wanted
<1> QED BY <1>2, ConsumedIs, RequestIs DEF RunSound, EvidenceSound

LEMMA EvidenceHolds ==
  ASSUME RunSound, EvidenceSound, Next
  PROVE  EvidenceSound'
<1>1. policy' = policy /\ policy.runs \in Nat BY RequestStays, RequestIs, PolicyIs DEF RunSound
<1>2. CASE evidence' = evidence BY <1>1, <1>2 DEF EvidenceSound
<1>3. CASE evidence' = NoEvidence
  <2>1. NoEvidence \in Evidence /\ Observed(NoEvidence) = 0 BY DEF NoEvidence, Evidence, Observed
  <2> QED BY <1>1, <1>3, <2>1 DEF EvidenceSound
<1>4. CASE Observe \/ ObserveFinal
  <2>1. evidence' = Record(evidence, Verdict) BY <1>4 DEF Observe, ObserveFinal
  <2>2. evidence' \in Evidence /\ Observed(evidence') = Observed(evidence) + 1
    BY <2>1, VerdictIs, RecordIs DEF EvidenceSound
  <2>3. Observed(evidence) < policy.runs /\ Observed(evidence) \in Nat
    BY <1>4, ObservedFew, EvidenceIs DEF EvidenceSound
  <2> QED BY <1>1, <2>2, <2>3 DEF EvidenceSound
<1>5. CASE EngineStep /\ ~(Observe \/ ObserveFinal)
  <2>1. Decide \/ UseRecorded => evidence' = NoEvidence BY Zenon DEF Decide, UseRecorded, Keep
  <2>2. StartRun \/ CommandMissing \/ TakeProbe \/ Prepare \/ FailRun \/ RefuseBaseline \/ Verify \/ Report =>
          evidence' = evidence
    BY Zenon DEF StartRun, CommandMissing, TakeProbe, Prepare, FailRun, RefuseBaseline, Verify, Report, searchVars
  <2>3. TakeBaseline \/ BeginSearch => evidence' = evidence BY DEF TakeBaseline, BeginSearch
  <2> QED BY <1>2, <1>3, <1>5, <2>1, <2>2, <2>3, Zenon DEF EngineStep
<1>6. CASE Stabilise BY <1>2, <1>6, Zenon DEF Stabilise
<1>7. CASE Resume BY <1>3, <1>7 DEF Resume
<1>8. CASE RunnerMoves \/ DescendantMoves \/ RunnerFails \/ Ended
  BY <1>2, <1>8 DEF RunnerMoves, DescendantMoves, RunnerFails, Ended, vars, searchVars
<1> QED BY <1>4, <1>5, <1>6, <1>7, <1>8, Zenon DEF Next

\* An oracle has anchors where its specification asks for them.
LEMMA OracleIs ==
  ASSUME request \in Request, NEW observations, Stable(oracleSpec, observations)
  PROVE  /\ FromBaselines(oracleSpec, observations).spec = oracleSpec
         /\ FromBaselines(oracleSpec, observations).anchors # <<>> <=> oracleSpec.mode = "automatic"
<1> DEFINE anchors == StableAnchors(oracleSpec, observations)
<1>1. FromBaselines(oracleSpec, observations).spec = oracleSpec
      /\ FromBaselines(oracleSpec, observations).anchors = anchors
  BY DEF FromBaselines
<1>2. oracleSpec.mode = "automatic" => anchors # <<>> BY DEF Stable
<1>3. oracleSpec.mode # "automatic" => anchors = <<>> BY DEF StableAnchors
<1> QED BY <1>1, <1>2, <1>3

LEMMA StabilisedIs ==
  ASSUME request \in Request, NEW o \in Stabilised
  PROVE  o.spec = oracleSpec /\ (o.anchors # <<>> <=> oracleSpec.mode = "automatic")
<1>1. CASE policy = Strict
  <2>1. Stable(oracleSpec, baselines) /\ o = FromBaselines(oracleSpec, baselines) BY <1>1 DEF Stabilised
  <2> QED BY <2>1, OracleIs
<1>2. CASE policy # Strict
  <2>1. PICK c \in PairOracles : o = c.oracle BY <1>2 DEF Stabilised, ScoredOracles
  <2>2. PICK pair : Stable(oracleSpec, OfPair(pair)) /\ c.oracle = FromBaselines(oracleSpec, OfPair(pair))
    BY <2>1 DEF PairOracles
  <2> QED BY <2>1, <2>2, OracleIs
<1> QED BY <1>1, <1>2

LEMMA OracleHolds ==
  ASSUME RunSound, OracleSound, Next
  PROVE  OracleSound'
<1>1. oracleSpec' = oracleSpec /\ request \in Request BY RequestStays DEF RunSound
<1>2. CASE oracle' = oracle /\ (phase' \in Established => phase \in Established) BY <1>1, <1>2 DEF OracleSound
<1>3. CASE phase' \notin Established BY <1>3 DEF OracleSound
<1>4. CASE Stabilise
  <2>1. CASE oracle' \in Stabilised BY <1>1, <2>1, StabilisedIs DEF OracleSound
  <2>2. CASE phase' = "failed" BY <1>3, <2>2 DEF Established
  <2> QED BY <1>4, <2>1, <2>2, Zenon DEF Stabilise
<1>5. CASE EngineStep
  <2>1. UNCHANGED oracle
    <3>1. Decide \/ UseRecorded => UNCHANGED oracle BY Zenon DEF Decide, UseRecorded, Keep
    <3>2. StartRun \/ CommandMissing \/ TakeProbe \/ Prepare \/ FailRun \/ RefuseBaseline \/ Verify \/ Report =>
            UNCHANGED oracle
      BY Zenon DEF StartRun, CommandMissing, TakeProbe, Prepare, FailRun, RefuseBaseline, Verify, Report, searchVars
    <3>3. TakeBaseline \/ BeginSearch \/ Observe \/ ObserveFinal => UNCHANGED oracle
      BY DEF TakeBaseline, BeginSearch, Observe, ObserveFinal
    <3> QED BY <1>5, <3>1, <3>2, <3>3, Zenon DEF EngineStep
  <2>2. phase' \in Established => phase \in Established
    <3>1. Decide \/ UseRecorded => phase \in Established BY Zenon DEF Decide, UseRecorded, Established
    <3>2. Verify \/ Report \/ BeginSearch => phase \in Established BY Zenon DEF Verify, Report, BeginSearch, Established
    <3>3. TakeProbe \/ CommandMissing \/ FailRun \/ RefuseBaseline => phase' \notin Established
      BY DEF TakeProbe, CommandMissing, FailRun, RefuseBaseline, Established
    <3>4. StartRun \/ Prepare \/ TakeBaseline \/ Observe \/ ObserveFinal => phase' = phase
      BY DEF StartRun, Prepare, TakeBaseline, Observe, ObserveFinal
    <3> QED BY <1>5, <3>1, <3>2, <3>3, <3>4, Zenon DEF EngineStep
  <2> QED BY <1>2, <2>1, <2>2
<1>6. CASE Resume BY <1>3, <1>6 DEF Resume, FirstPhase, Established
<1>7. CASE RunnerMoves \/ DescendantMoves \/ RunnerFails \/ Ended
  BY <1>2, <1>7 DEF RunnerMoves, DescendantMoves, RunnerFails, Ended, vars, searchVars
<1> QED BY <1>4, <1>5, <1>6, <1>7, Zenon DEF Next

-----------------------------------------------------------------------------
\* The choice of anchors: an oracle recognises the baselines it was made from.

\* Every nonempty set of naturals has a least element.
LEMMA Least ==
  ASSUME NEW T \in SUBSET Nat, T # {}
  PROVE  \E m \in T : \A k \in T : m <= k
<1>1. IsWellFoundedOn(OpToRel(<, Nat), Nat)
  BY NatLessThanWellFounded
<1>2. PICK m \in T : \A k \in T : ~(<<k, m>> \in OpToRel(<, Nat))
  BY <1>1, WFMin
<1>3. ASSUME NEW k \in T PROVE ~(k < m)
  BY <1>2 DEF OpToRel
<1> QED
  BY <1>3

\* What can be ranked: finitely many lines, no two at one place of one stream.
Rankable(S) ==
  /\ IsFiniteSet(S)
  /\ \A l \in S : l.channel \in Stream /\ l.kind \in Nat /\ l.score \in Nat /\ l.position \in Nat
  /\ \A l, r \in S : l.channel = r.channel /\ l.position = r.position => l = r

LEMMA Part ==
  ASSUME NEW S, NEW T \in SUBSET S, Rankable(S)
  PROVE  Rankable(T)
BY FS_Subset DEF Rankable

LEMMA BeforeIs ==
  ASSUME NEW S, Rankable(S)
  PROVE  /\ \A x \in S : ~Before(x, x)
         /\ \A x, y \in S : x # y => Before(x, y) \/ Before(y, x)
         /\ \A x, y, z \in S : Before(x, y) /\ Before(y, z) => Before(x, z)
<1>1. \A x \in S : /\ x.kind \in Nat /\ x.score \in Nat /\ x.position \in Nat
                   /\ ChannelOrder(x.channel) \in Nat
  BY DEF Rankable, ChannelOrder
<1>2. \A x, y \in S : ChannelOrder(x.channel) = ChannelOrder(y.channel) => x.channel = y.channel
  BY DEF Rankable, ChannelOrder, Stream
<1>3. \A x, y \in S : x.channel = y.channel /\ x.position = y.position => x = y
  BY DEF Rankable
<1>4. \A x \in S : ~Before(x, x)
  BY <1>1 DEF Before
<1>5. \A x, y \in S : x # y => Before(x, y) \/ Before(y, x)
  BY <1>1, <1>2, <1>3 DEF Before
<1>6. \A x, y, z \in S : Before(x, y) /\ Before(y, z) => Before(x, z)
  BY <1>1 DEF Before
<1> QED
  BY <1>4, <1>5, <1>6

\* Each rank is that of one line.
LEMMA RankIs ==
  ASSUME NEW S, Rankable(S), NEW i \in 1..Cardinality(S)
  PROVE  \E x \in S : Cardinality({l \in S : Before(l, x)}) = i - 1
<1> DEFINE n == Cardinality(S)
           P(x) == {l \in S : Before(l, x)}
           f == [x \in S |-> Cardinality(P(x))]
<1>1. IsFiniteSet(S) /\ n \in Nat
  BY FS_CardinalityType DEF Rankable
<1>2. ASSUME NEW x \in S PROVE IsFiniteSet(P(x)) /\ Cardinality(P(x)) \in 0..(n - 1) /\ Cardinality(P(x)) \in Nat
  <2>1. P(x) \subseteq S \ {x}
    BY BeforeIs
  <2>2. IsFiniteSet(S \ {x}) /\ Cardinality(S \ {x}) = n - 1
    BY <1>1, FS_RemoveElement
  <2>3. IsFiniteSet(P(x)) /\ Cardinality(P(x)) <= n - 1 /\ Cardinality(P(x)) \in Nat
    BY <2>1, <2>2, FS_Subset, FS_CardinalityType
  <2> QED
    BY <1>1, <2>3
<1>3. ASSUME NEW x \in S, NEW y \in S, Before(x, y) PROVE Cardinality(P(x)) < Cardinality(P(y))
  <2>1. P(x) \subseteq P(y) \ {x}
    BY <1>3, BeforeIs
  <2>2. x \in P(y)
    BY <1>3
  <2>3. IsFiniteSet(P(y) \ {x}) /\ Cardinality(P(y) \ {x}) = Cardinality(P(y)) - 1
    BY <1>2, <2>2, FS_RemoveElement
  <2>4. Cardinality(P(x)) <= Cardinality(P(y) \ {x})
    BY <2>1, <2>3, FS_Subset
  <2>5. Cardinality(P(x)) \in Nat /\ Cardinality(P(y)) \in Nat
    BY <1>2, Zenon
  <2> QED
    BY <2>3, <2>4, <2>5
<1>4. f \in [S -> 0..(n - 1)]
  BY <1>2
<1>5. ASSUME NEW x \in S, NEW y \in S, x # y PROVE f[x] # f[y]
  <2>1. Before(x, y) \/ Before(y, x)
    BY <1>5, BeforeIs
  <2>2. Cardinality(P(x)) \in Nat /\ Cardinality(P(y)) \in Nat
    BY <1>2, Zenon
  <2> QED
    BY <1>3, <2>1, <2>2
<1> HIDE DEF f
<1>6. f \in Injection(S, 0..(n - 1))
  BY <1>4, <1>5, Zenon DEF Injection, IsInjective
<1>7. IsFiniteSet(0..(n - 1)) /\ Cardinality(0..(n - 1)) = n
  <2>1. n - 1 \in Int
    BY <1>1
  <2> QED
    BY <1>1, <2>1, FS_Interval
<1>8. f \in Surjection(S, 0..(n - 1))
  BY <1>6, <1>7, FS_Injection
<1>9. i - 1 \in 0..(n - 1)
  BY <1>1
<1>10. PICK x \in S : f[x] = i - 1
  BY <1>8, <1>9 DEF Surjection
<1> QED
  BY <1>10 DEF f

\* The order is one of all the lines.
LEMMA OrderedIs ==
  ASSUME NEW S, Rankable(S)
  PROVE  /\ Ordered(S) \in Seq(S)
         /\ Len(Ordered(S)) = Cardinality(S)
<1>1. Cardinality(S) \in Nat
  BY FS_CardinalityType DEF Rankable
<1>2. \A i \in 1..Cardinality(S) : Ordered(S)[i] \in S
  <2> SUFFICES ASSUME NEW i \in 1..Cardinality(S)
               PROVE  (CHOOSE x \in S : Cardinality({l \in S : Before(l, x)}) = i - 1) \in S
    BY DEF Ordered
  <2> QED
    BY RankIs
<1>3. Ordered(S) \in [1..Cardinality(S) -> S]
  BY <1>2 DEF Ordered
<1> QED
  BY <1>1, <1>3

LEMMA ElementsIs ==
  ASSUME NEW S, NEW seq \in Seq(S)
  PROVE  Elements(seq) \subseteq S
BY DEF Elements

LEMMA FirstIs ==
  ASSUME NEW S, NEW seq \in Seq(S)
  PROVE  First(seq) \in Seq(S)
<1>1. CASE seq = <<>>
  BY <1>1 DEF First
<1>2. CASE seq # <<>>
  <2>1. First(seq) = SubSeq(seq, 1, 1) /\ 1 <= Len(seq)
    BY <1>2 DEF First
  <2> QED
    BY <2>1
<1> QED
  BY <1>1, <1>2

LEMMA AtMostIs ==
  ASSUME NEW S, NEW seq \in Seq(S)
  PROVE  AtMost(seq) \in Seq(S)
<1>1. CASE Len(seq) < MaxAnchors
  <2>1. AtMost(seq) = SubSeq(seq, 1, Len(seq))
    BY <1>1 DEF AtMost
  <2> QED
    BY <2>1
<1>2. CASE ~(Len(seq) < MaxAnchors)
  <2>1. AtMost(seq) = SubSeq(seq, 1, 4) /\ 4 <= Len(seq)
    BY <1>2 DEF AtMost, MaxAnchors
  <2> QED
    BY <2>1
<1> QED
  BY <1>1, <1>2

\* Anchors are chosen from the lines at hand.
LEMMA FillIs ==
  ASSUME NEW S, Rankable(S), NEW selected \in Seq(S), NEW lines \in Seq(S)
  PROVE  FillCategories(selected, lines) \in Seq(S) /\ FillRanked(selected, lines) \in Seq(S)
<1>1. ASSUME NEW T \in SUBSET Elements(lines) PROVE AtMost(selected \o Ordered(T)) \in Seq(S)
  <2>1. T \in SUBSET S
    BY ElementsIs
  <2>2. Ordered(T) \in Seq(T)
    BY <2>1, Part, OrderedIs
  <2>3. Ordered(T) \in Seq(S)
    BY <2>1, <2>2
  <2>4. selected \o Ordered(T) \in Seq(S)
    BY <2>3
  <2> QED
    BY <2>4, AtMostIs
<1>2. FillCategories(selected, lines) \in Seq(S)
  BY <1>1, Zenon DEF FillCategories
<1>3. FillRanked(selected, lines) \in Seq(S)
  BY <1>1, Zenon DEF FillRanked
<1> QED
  BY <1>2, <1>3

LEMMA RankLinesIs ==
  ASSUME NEW S, Rankable(S), NEW T \in SUBSET S, NEW generic
  PROVE  RankLines(T, generic) \in Seq(S)
<1> DEFINE R == {line \in T : generic \/ line.kind # Message}
<1>1. R \in SUBSET S
  OBVIOUS
<1>2. Ordered(R) \in Seq(R)
  BY <1>1, Part, OrderedIs
<1>3. Ordered(R) \in Seq(S)
  BY <1>1, <1>2
<1> QED
  BY <1>3 DEF RankLines

LEMMA SelectedIs ==
  ASSUME NEW A, NEW B, Rankable(A \cup B)
  PROVE  /\ SelectAnchors(A \cup B) \in Seq(A \cup B)
         /\ SelectAutoAnchors(A, B) \in Seq(A \cup B)
         /\ SelectCombinedAnchors(A, B) \in Seq(A \cup B)
<1> DEFINE S == A \cup B
<1>1. \A generic : /\ RankLines(A, generic) \in Seq(S) /\ RankLines(B, generic) \in Seq(S)
                   /\ RankLines(S, generic) \in Seq(S)
  <2>1. A \in SUBSET S /\ B \in SUBSET S /\ S \in SUBSET S
    OBVIOUS
  <2> HIDE DEF S
  <2> QED
    BY <2>1, RankLinesIs DEF S
<1>2. \A generic : First(RankLines(A, generic)) \o First(RankLines(B, generic)) \in Seq(S)
  <2> SUFFICES ASSUME NEW generic
               PROVE  First(RankLines(A, generic)) \o First(RankLines(B, generic)) \in Seq(S)
    OBVIOUS
  <2>1. First(RankLines(A, generic)) \in Seq(S) /\ First(RankLines(B, generic)) \in Seq(S)
    BY <1>1, FirstIs
  <2> QED
    BY <2>1
<1>3. <<>> \in Seq(S)
  OBVIOUS
<1> HIDE DEF S
<1>4. Rankable(S)
  BY DEF S
<1>5. SelectAnchors(S) \in Seq(S)
  BY <1>1, <1>3, <1>4, FillIs DEF SelectAnchors
<1>6. SelectAutoAnchors(A, B) \in Seq(S)
  BY <1>1, <1>2, <1>4, FillIs DEF SelectAutoAnchors, S
<1>7. SelectCombinedAnchors(A, B) \in Seq(S)
  BY <1>1, <1>2, <1>4, FillIs DEF SelectCombinedAnchors, S
<1> QED
  BY <1>5, <1>6, <1>7 DEF S


\* Normalised lines keep their places and their words.
LEMMA NormalizedIs ==
  ASSUME NEW lines \in Seq(Line)
  PROVE  LET N == NormalizeDiagnostic(lines)
         IN  /\ DOMAIN N \subseteq 1..Len(lines)
             /\ \A i \in DOMAIN N : N[i].words \in DOMAIN Features
<1> DEFINE N == NormalizeDiagnostic(lines)
           D == {j \in DOMAIN lines : NotBlank(lines[j])}
<1>1. N = [i \in D |-> Normal(lines[i])]
  BY DEF NormalizeDiagnostic
<1>2. D \subseteq 1..Len(lines)
  OBVIOUS
<1>3. ASSUME NEW line \in Line PROVE Normal(line).words \in DOMAIN Features
  <2>1. line \in [words : DOMAIN Features, fragments : Seq(Fragment)]
    BY DEF Line
  <2> QED
    BY <2>1 DEF Normal
<1>4. \A i \in D : lines[i] \in Line
  BY <1>2
<1> HIDE DEF D, N
<1>5. DOMAIN N = D /\ \A i \in D : N[i] = Normal(lines[i])
  BY <1>1
<1> QED
  BY <1>2, <1>3, <1>4, <1>5 DEF N

\* The places of lines differ.
LEMMA PlaceIs ==
  ASSUME NEW D, NEW n \in Nat, D \subseteq 1..n
  PROVE  /\ \A i \in D : Cardinality({j \in D : j < i}) \in Nat
         /\ \A i, k \in D : Cardinality({j \in D : j < i}) = Cardinality({j \in D : j < k}) => i = k
<1> DEFINE C(i) == {j \in D : j < i}
<1>1. IsFiniteSet(D)
  <2>1. IsFiniteSet(1..n)
    BY FS_Interval
  <2> QED
    BY <2>1, FS_Subset
<1>2. \A i \in D : IsFiniteSet(C(i)) /\ Cardinality(C(i)) \in Nat
  <2> SUFFICES ASSUME NEW i \in D PROVE IsFiniteSet(C(i)) /\ Cardinality(C(i)) \in Nat
    OBVIOUS
  <2>1. C(i) \in SUBSET D
    OBVIOUS
  <2> HIDE DEF C
  <2> QED
    BY <1>1, <2>1, FS_Subset, FS_CardinalityType
<1>3. ASSUME NEW i \in D, NEW k \in D, i < k PROVE Cardinality(C(i)) # Cardinality(C(k))
  <2>1. i \in Nat /\ k \in Nat /\ D \subseteq Nat
    OBVIOUS
  <2>2. C(i) \subseteq C(k) /\ i \in C(k) /\ i \notin C(i)
    <3>1. \A j \in D : j < i => j < k
      BY <1>3, <2>1
    <3>2. ~(i < i)
      BY <2>1
    <3> QED
      BY <1>3, <3>1, <3>2, Zenon
  <2> HIDE DEF C
  <2> QED
    BY <1>2, <2>2, FS_Subset
<1>4. \A i, k \in D : i # k => i < k \/ k < i
  OBVIOUS
<1> HIDE DEF C
<1>5. \A i, k \in D : Cardinality(C(i)) = Cardinality(C(k)) => i = k
  BY <1>3, <1>4, Zenon
<1> QED
  BY <1>2, <1>5 DEF C

LEMMA KindIs ==
  ASSUME NEW line, KindsOf(line) # {}
  PROVE  (CHOOSE k \in KindsOf(line) : \A l \in KindsOf(line) : k <= l) \in Nat
<1>1. KindsOf(line) \subseteq Nat
  <2>1. DOMAIN DiscriminatorKind = 1..5
    BY DEF DiscriminatorKind
  <2> QED
    BY <2>1 DEF KindsOf
<1>2. \E k \in KindsOf(line) : \A l \in KindsOf(line) : k <= l
  BY <1>1, Least
<1> QED
  BY <1>1, <1>2

LEMMA EligibleIs ==
  ASSUME NEW lines \in Seq(Line), NEW stream \in Stream
  PROVE  LET N == NormalizeDiagnostic(lines)
         IN  /\ IsFiniteSet(EligibleLines(stream, N))
             /\ \A l \in EligibleLines(stream, N) :
                  /\ l.channel = stream /\ l.text \in Elements(N)
                  /\ l.kind \in Nat /\ l.score \in Nat /\ l.position \in Nat
             /\ \A l, r \in EligibleLines(stream, N) : l.position = r.position => l = r
<1> DEFINE N == NormalizeDiagnostic(lines)
           E == EligibleLines(stream, N)
           D == {j \in DOMAIN N : KindsOf(N[j]) # {}}
           Place(i) == Cardinality({j \in DOMAIN N : j < i})
<1>1. DOMAIN N \subseteq 1..Len(lines) /\ \A i \in DOMAIN N : N[i].words \in DOMAIN Features
  BY NormalizedIs
<1> HIDE DEF N
<1>2. E = {EligibleLine(stream, N, i) : i \in D}
  BY DEF EligibleLines
<1>3. /\ \A i \in DOMAIN N : Place(i) \in Nat
      /\ \A i, k \in DOMAIN N : Place(i) = Place(k) => i = k
  <2>1. Len(lines) \in Nat
    OBVIOUS
  <2> QED
    BY <1>1, <2>1, PlaceIs
<1>4. IsFiniteSet(E)
  <2>1. IsFiniteSet(D)
    <3>1. D \subseteq 1..Len(lines) /\ Len(lines) \in Nat
      BY <1>1
    <3>2. IsFiniteSet(1..Len(lines))
      BY <3>1, FS_Interval
    <3> HIDE DEF D
    <3> QED
      BY <3>1, <3>2, FS_Subset
  <2> DEFINE f == [i \in D |-> EligibleLine(stream, N, i)]
  <2>2. f \in Surjection(D, E)
    BY <1>2, Zenon DEF Surjection
  <2> QED
    BY <2>1, <2>2, FS_Surjection
<1>5. ASSUME NEW i \in D
      PROVE  LET l == EligibleLine(stream, N, i)
             IN  /\ l.channel = stream /\ l.text \in Elements(N)
                 /\ l.kind \in Nat /\ l.score \in Nat /\ l.position = Place(i)
  <2>1. i \in DOMAIN N /\ KindsOf(N[i]) # {}
    OBVIOUS
  <2>2. N[i] \in Elements(N)
    BY <2>1 DEF Elements
  <2>3. Score[N[i].words] \in Nat
    BY <1>1, <2>1, DiagnosticAssumption
  <2>4. (CHOOSE k \in KindsOf(N[i]) : \A l \in KindsOf(N[i]) : k <= l) \in Nat
    BY <2>1, KindIs
  <2> HIDE DEF D
  <2> QED
    BY <2>2, <2>3, <2>4 DEF EligibleLine
<1>6. \A i \in D : i \in DOMAIN N
  OBVIOUS
<1> HIDE DEF E, D, Place
<1>7. \A l \in E : /\ l.channel = stream /\ l.text \in Elements(N)
                   /\ l.kind \in Nat /\ l.score \in Nat /\ l.position \in Nat
  BY <1>2, <1>3, <1>5, <1>6
<1>8. \A l, r \in E : l.position = r.position => l = r
  <2> SUFFICES ASSUME NEW l \in E, NEW r \in E, l.position = r.position PROVE l = r
    OBVIOUS
  <2>1. PICK i \in D : l = EligibleLine(stream, N, i)
    BY <1>2
  <2>2. PICK k \in D : r = EligibleLine(stream, N, k)
    BY <1>2
  <2>3. Place(i) = Place(k)
    BY <1>5, <2>1, <2>2
  <2> QED
    BY <1>3, <1>6, <2>1, <2>2, <2>3
<1> QED
  BY <1>4, <1>7, <1>8 DEF E, N

\* What all baselines have of a stream.
LEMMA StreamIs ==
  ASSUME NEW bs \in Seq(Seen), Len(bs) >= 1, NEW stream \in Stream, NEW requested
  PROVE  LET lines == StreamDiscriminators(requested, stream, bs)
         IN  /\ Rankable(lines)
             /\ \A l \in lines : /\ l.channel = stream
                                /\ \A k \in DOMAIN bs : l.text \in Elements(NormalizeDiagnostic(bs[k][stream]))
<1> DEFINE N(k) == NormalizeDiagnostic(bs[k][stream])
           Lines(k) == EligibleLines(stream, N(k))
           lines == StreamDiscriminators(requested, stream, bs)
<1>1. \A k \in DOMAIN bs : bs[k][stream] \in Seq(Line)
  <2> SUFFICES ASSUME NEW k \in DOMAIN bs PROVE bs[k][stream] \in Seq(Line)
    OBVIOUS
  <2>1. bs[k] \in Seen
    <3>1. bs \in [1..Len(bs) -> Seen] /\ DOMAIN bs = 1..Len(bs)
      OBVIOUS
    <3> QED
      BY <3>1, Zenon
  <2>2. bs[k]["stdout"] \in Seq(Line) /\ bs[k]["stderr"] \in Seq(Line)
    BY <2>1 DEF Seen
  <2> QED
    BY <2>2 DEF Stream
<1>2. \A k \in DOMAIN bs :
        /\ IsFiniteSet(Lines(k))
        /\ \A l \in Lines(k) : /\ l.channel = stream /\ l.text \in Elements(N(k))
                              /\ l.kind \in Nat /\ l.score \in Nat /\ l.position \in Nat
        /\ \A l, r \in Lines(k) : l.position = r.position => l = r
  BY <1>1, EligibleIs
<1>3. lines = {line \in Lines(1) :
                 /\ requested \in {stream, "auto", "combined"}
                 /\ \A k \in 2..Len(bs) : \E other \in Lines(k) : other.text = line.text}
  BY Zenon DEF StreamDiscriminators
<1>4. 1 \in DOMAIN bs /\ \A k \in DOMAIN bs : k = 1 \/ k \in 2..Len(bs)
  <2>1. DOMAIN bs = 1..Len(bs) /\ Len(bs) \in Nat
    OBVIOUS
  <2> HIDE DEF N, Lines, lines
  <2> QED
    BY <2>1
<1> HIDE DEF N, Lines, lines
<1>5. lines \subseteq Lines(1)
  BY <1>3
<1>6. IsFiniteSet(lines)
  BY <1>2, <1>4, <1>5, FS_Subset
<1>7. Rankable(lines)
  BY <1>2, <1>4, <1>5, <1>6 DEF Rankable
<1>8. \A l \in lines : l.channel = stream /\ \A k \in DOMAIN bs : l.text \in Elements(N(k))
  <2> SUFFICES ASSUME NEW l \in lines, NEW k \in DOMAIN bs
               PROVE  l.channel = stream /\ l.text \in Elements(N(k))
    BY <1>2, <1>4, <1>5
  <2>1. l.channel = stream /\ l.text \in Elements(N(1))
    BY <1>2, <1>4, <1>5
  <2>2. CASE k \in 2..Len(bs)
    <3>1. PICK other \in Lines(k) : other.text = l.text
      BY <1>3, <2>2
    <3> QED
      BY <1>2, <2>1, <3>1
  <2> QED
    BY <1>4, <2>1, <2>2
<1> QED
  BY <1>7, <1>8 DEF lines, N

\* Each anchor is a line of every baseline it was chosen for.
LEMMA AnchorsIs ==
  ASSUME NEW bs \in Seq(Seen), Len(bs) >= 1, NEW channel \in DiagnosticChannel,
         NEW i \in DOMAIN StableDiscriminators(channel, bs), NEW k \in DOMAIN bs
  PROVE  HasAnchor(bs[k], StableDiscriminators(channel, bs)[i])
<1> DEFINE stdout == StreamDiscriminators(channel, "stdout", bs)
           stderr == StreamDiscriminators(channel, "stderr", bs)
           S == stdout \cup stderr
           selected == CASE channel = "auto" -> SelectAutoAnchors(stdout, stderr)
                         [] channel = "combined" -> IF stdout = {} \/ stderr = {} THEN <<>>
                                                    ELSE SelectCombinedAnchors(stdout, stderr)
                         [] OTHER -> SelectAnchors(stdout \cup stderr)
<1>1. StableDiscriminators(channel, bs) = [j \in DOMAIN selected |-> Anchor(selected[j])]
  BY Zenon DEF StableDiscriminators
<1>2. /\ Rankable(stdout) /\ Rankable(stderr)
      /\ \A l \in stdout : l.channel = "stdout" /\ l.text \in Elements(NormalizeDiagnostic(bs[k]["stdout"]))
      /\ \A l \in stderr : l.channel = "stderr" /\ l.text \in Elements(NormalizeDiagnostic(bs[k]["stderr"]))
  BY StreamIs DEF Stream
<1> HIDE DEF stdout, stderr
<1>3. Rankable(S)
  <2>1. IsFiniteSet(S)
    BY <1>2, FS_Union DEF Rankable
  <2> QED
    BY <1>2, <2>1 DEF Rankable
<1>4. selected \in Seq(S)
  <2>1. /\ SelectAnchors(S) \in Seq(S) /\ SelectAutoAnchors(stdout, stderr) \in Seq(S)
        /\ SelectCombinedAnchors(stdout, stderr) \in Seq(S) /\ <<>> \in Seq(S)
    BY <1>3, SelectedIs
  <2> QED
    BY <2>1
<1> HIDE DEF selected
<1>5. i \in DOMAIN selected /\ StableDiscriminators(channel, bs)[i] = Anchor(selected[i])
  BY <1>1
<1>6. selected[i] \in S
  BY <1>4, <1>5
<1>7. selected[i].text \in Elements(NormalizeDiagnostic(bs[k][selected[i].channel]))
  BY <1>2, <1>6
<1> QED
  BY <1>5, <1>7 DEF HasAnchor, Anchor

\* Whatever the mode, an oracle recognises what it was made from.
LEMMA RecognisedIs ==
  ASSUME NEW spec \in OracleSpec, NEW bs \in Seq(Seen), Stable(spec, bs), NEW k \in DOMAIN bs
  PROVE  Classify(FromBaselines(spec, bs), bs[k]) = "preserved"
<1> DEFINE o == FromBaselines(spec, bs)
<1>1. /\ Len(bs) >= 2 /\ spec.mode \in OracleMode /\ spec.channel \in DiagnosticChannel
      /\ o.spec = spec /\ o.termination = bs[1].termination /\ o.anchors = StableAnchors(spec, bs)
  BY DEF Stable, FromBaselines, OracleSpec
<1> HIDE DEF o
<1>2. CASE spec.mode = "exit_zero"
  <2>1. bs[k].termination = "exit 0"
    BY <1>2 DEF Stable
  <2> QED
    BY <1>1, <1>2, <2>1 DEF Classify, ClassifyExit, o
<1>3. CASE spec.mode # "exit_zero"
  <2>1. /\ CompleteText(bs[k]) /\ bs[k].termination = bs[1].termination
        /\ ~RejectMatches(spec, bs[k]) /\ (spec.mode = "regex" => FailureMatches(spec, bs[k]))
    BY <1>3 DEF Stable
  <2>2. spec.mode = "automatic" => \A i \in DOMAIN o.anchors : HasAnchor(bs[k], o.anchors[i])
    <3>1. spec.mode = "automatic" => o.anchors = StableDiscriminators(spec.channel, bs)
      BY <1>1 DEF StableAnchors
    <3> QED
      BY <1>1, <3>1, AnchorsIs
  <2>3. SameText(o, bs[k])
    BY <1>1, <1>3, <2>1, <2>2 DEF SameText, OracleMode
  <2> QED
    BY <1>1, <1>3, <2>1, <2>3 DEF Classify, CompleteText, o
<1> QED
  BY <1>2, <1>3

\* An aggregate for the candidate has seen it often enough.
LEMMA AggregateIs ==
  ASSUME NEW p \in EvaluationPolicy, NEW n \in Nat, NEW verdicts, DOMAIN verdicts = 1..n, Len(verdicts) = n,
         Aggregate(p, verdicts) = "preserved"
  PROVE  Cardinality({i \in 1..n : verdicts[i] = "preserved"}) >= p.required
<1> DEFINE last == IF Len(verdicts) < p.runs THEN Len(verdicts) ELSE p.runs
           Open(m) == Terminal(p, CountsOf(verdicts, m)) = "none"
           Stops(m) == /\ m # last => m > 0 /\ ~Open(m)
                       /\ \A j \in 1..(m - 1) : Open(j)
           stop == CHOOSE m \in 0..last : Stops(m)
<1>1. last \in Nat /\ last <= n /\ p.required \in Nat
  BY PolicyIs
<1>2. Aggregate(p, verdicts) = Decision(p, CountsOf(verdicts, stop))
  BY Zenon DEF Aggregate
<1> HIDE DEF Open, last
<1>3. \E m \in 0..last : Stops(m)
  <2> DEFINE T == {m \in 1..last : ~Open(m)}
  <2>1. CASE T = {}
    <3>1. \A j \in 1..(last - 1) : Open(j)
      BY <1>1, <2>1
    <3>2. Stops(last) /\ last \in 0..last
      BY <1>1, <3>1
    <3> QED
      BY <3>2
  <2>2. CASE T # {}
    <3>1. T \in SUBSET Nat
      BY <1>1
    <3>2. PICK m \in T : \A k \in T : m <= k
      BY <2>2, <3>1, Least
    <3>3. m \in 1..last /\ ~Open(m)
      BY <3>2
    <3>4. \A j \in 1..(m - 1) : Open(j)
      <4> SUFFICES ASSUME NEW j \in 1..(m - 1), ~Open(j) PROVE FALSE
        OBVIOUS
      <4>1. j \in 1..last /\ j < m /\ m \in Nat /\ j \in Nat
        BY <1>1, <3>3
      <4> QED
        BY <3>2, <4>1
    <3>5. m \in 0..last /\ m > 0
      BY <1>1, <3>3
    <3> QED
      BY <3>3, <3>4, <3>5
  <2> QED
    BY <2>1, <2>2
<1>4. stop \in 0..last
  BY <1>3
<1> HIDE DEF stop
<1>5. CountsOf(verdicts, stop).preserved >= p.required
  <2>1. Terminal(p, CountsOf(verdicts, stop)) = "preserved"
    BY <1>2 DEF Decision
  <2> QED
    BY <2>1, Zenon DEF Terminal
<1>6. CountsOf(verdicts, stop).preserved = Cardinality({i \in 1..stop : verdicts[i] = "preserved"})
  BY DEF CountsOf
<1>7. {i \in 1..stop : verdicts[i] = "preserved"} \subseteq {i \in 1..n : verdicts[i] = "preserved"}
  BY <1>1, <1>4
<1>8. IsFiniteSet({i \in 1..n : verdicts[i] = "preserved"})
  <2>1. IsFiniteSet(1..n)
    BY FS_Interval
  <2> QED
    BY <2>1, FS_Subset
<1>9. /\ Cardinality({i \in 1..stop : verdicts[i] = "preserved"}) <= Cardinality({i \in 1..n : verdicts[i] = "preserved"})
      /\ Cardinality({i \in 1..n : verdicts[i] = "preserved"}) \in Nat
  BY <1>7, <1>8, FS_Subset, FS_CardinalityType
<1>10. Cardinality({i \in 1..stop : verdicts[i] = "preserved"}) \in Nat
  BY <1>7, <1>8, FS_Subset, FS_CardinalityType
<1> QED
  BY <1>1, <1>5, <1>6, <1>9, <1>10

LEMMA StabilisedRecognises ==
  ASSUME request \in Request, baselines \in Seq(Seen), Len(baselines) = policy.runs, NEW o \in Stabilised
  PROVE  Cardinality(PreservedBy(o)) >= policy.required
<1>1. /\ policy \in EvaluationPolicy /\ oracleSpec \in OracleSpec
      /\ policy.runs \in Nat /\ policy.required \in Nat /\ 1 <= policy.required /\ policy.required <= policy.runs
  BY RequestIs, PolicyIs
<1>2. DOMAIN baselines = 1..policy.runs
  BY <1>1
<1>3. CASE policy = Strict
  <2>1. Stable(oracleSpec, baselines) /\ o = FromBaselines(oracleSpec, baselines)
    BY <1>3 DEF Stabilised
  <2>2. PreservedBy(o) = 1..policy.runs
    BY <1>1, <1>2, <2>1, RecognisedIs DEF PreservedBy
  <2>3. Cardinality(1..policy.runs) = policy.runs
    <3>1. policy.runs \in Int /\ 1 \in Int /\ ~(1 > policy.runs) /\ policy.runs - 1 + 1 = policy.runs
      BY <1>1
    <3> QED
      BY <3>1, FS_Interval
  <2> QED
    BY <1>1, <2>2, <2>3
<1>4. CASE policy # Strict
  <2>1. Aggregate(policy, Verdicts(o)) = "preserved"
    BY <1>4 DEF Stabilised, ScoredOracles
  <2>2. DOMAIN Verdicts(o) = 1..policy.runs /\ Len(Verdicts(o)) = policy.runs
    BY <1>1, <1>2 DEF Verdicts
  <2>3. Cardinality({i \in 1..policy.runs : Verdicts(o)[i] = "preserved"}) >= policy.required
    BY <1>1, <2>1, <2>2, AggregateIs
  <2>4. PreservedBy(o) = {i \in 1..policy.runs : Verdicts(o)[i] = "preserved"}
    BY <1>2 DEF PreservedBy, Verdicts
  <2> QED
    BY <2>3, <2>4
<1> QED
  BY <1>3, <1>4

LEMMA RecognitionHolds ==
  ASSUME RunSound, BaselinesSound, RecognisesBaselines, Next
  PROVE  RecognisesBaselines'
<1>1. policy' = policy /\ request \in Request
  BY RequestStays DEF RunSound
<1>2. CASE phase' # "stabilised"
  BY <1>2 DEF RecognisesBaselines
<1>3. CASE phase = "stabilised" /\ UNCHANGED <<oracle, baselines>>
  BY <1>1, <1>3 DEF RecognisesBaselines, PreservedBy
<1>4. CASE Stabilise
  <2>1. CASE oracle' \in Stabilised
    <3>1. baselines' = baselines /\ Len(baselines) = policy.runs
      BY <1>4 DEF Stabilise, BaselinesComplete
    <3>2. Cardinality(PreservedBy(oracle')) >= policy.required
      BY <1>1, <2>1, <3>1, StabilisedRecognises DEF BaselinesSound
    <3>3. PreservedBy(oracle)' = PreservedBy(oracle')
      BY <3>1 DEF PreservedBy
    <3> QED
      BY <1>1, <3>2, <3>3 DEF RecognisesBaselines
  <2>2. CASE phase' = "failed"
    BY <1>2, <2>2
  <2> QED
    BY <1>4, <2>1, <2>2, Zenon DEF Stabilise
<1>5. CASE EngineStep
  <2>1. StartRun \/ Prepare => phase' = phase /\ UNCHANGED <<oracle, baselines>>
    BY DEF StartRun, Prepare, searchVars
  <2>2. TakeBaseline \/ Observe \/ ObserveFinal => phase' # "stabilised"
    BY DEF TakeBaseline, Observe, ObserveFinal
  <2>3. CommandMissing \/ TakeProbe \/ FailRun \/ RefuseBaseline \/ BeginSearch => phase' # "stabilised"
    BY DEF CommandMissing, TakeProbe, FailRun, RefuseBaseline, BeginSearch
  <2>4. Verify \/ Report \/ UseRecorded \/ Decide => phase' # "stabilised"
    BY Zenon DEF Verify, Report, UseRecorded, Decide, Keep
  <2> QED
    BY <1>2, <1>3, <1>5, <2>1, <2>2, <2>3, <2>4, Zenon DEF EngineStep
<1>6. CASE Resume
  BY <1>2, <1>6 DEF Resume, FirstPhase
<1>7. CASE RunnerMoves \/ DescendantMoves \/ RunnerFails \/ Ended
  BY <1>2, <1>3, <1>7 DEF RunnerMoves, DescendantMoves, RunnerFails, Ended, vars, searchVars
<1> QED
  BY <1>4, <1>5, <1>6, <1>7, Zenon DEF Next

-----------------------------------------------------------------------------
\* The final verification.

LEMMA NonePreserving == \A project, o : Cardinality(Preserving(<<>>, project, o)) = 0
<1>1. \A project, o : Preserving(<<>>, project, o) = {} BY DEF Preserving
<1> QED BY <1>1, FS_EmptySet

\* One more observation, of the project that was kept.
LEMMA OneMore ==
  ASSUME NEW seen \in Seq(Verified), NEW entry \in Verified, NEW o
  PROVE  Cardinality(Preserving(Append(seen, entry), entry.project, o)) =
           IF Classify(o, entry.observation) = "preserved"
           THEN Cardinality(Preserving(seen, entry.project, o)) + 1
           ELSE Cardinality(Preserving(seen, entry.project, o))
<1> DEFINE old == Preserving(seen, entry.project, o)
           new == Preserving(Append(seen, entry), entry.project, o)
           n == Len(seen)
<1>1. n \in Nat /\ DOMAIN seen = 1..n OBVIOUS
<1>2. /\ DOMAIN Append(seen, entry) = 1..(n + 1) /\ Append(seen, entry)[n + 1] = entry
      /\ \A i \in 1..n : Append(seen, entry)[i] = seen[i]
  OBVIOUS
<1>3. IsFiniteSet(old) /\ n + 1 \notin old
  <2>1. old \subseteq 1..n BY <1>1 DEF Preserving
  <2>2. IsFiniteSet(1..n) BY <1>1, FS_Interval
  <2>3. n + 1 \notin 1..n BY <1>1
  <2> QED BY <2>1, <2>2, <2>3, FS_Subset
<1>4. CASE Classify(o, entry.observation) = "preserved"
  <2>1. new = old \cup {n + 1} BY <1>1, <1>2, <1>4 DEF Preserving
  <2>2. Cardinality(old \cup {n + 1}) = Cardinality(old) + 1 BY <1>3, FS_AddElement
  <2> QED BY <1>4, <2>1, <2>2
<1>5. CASE Classify(o, entry.observation) # "preserved"
  <2>1. new = old BY <1>1, <1>2, <1>5 DEF Preserving
  <2> QED BY <1>5, <2>1
<1> QED BY <1>4, <1>5

Early == {"probe", "baseline", "stabilised", "search"}
Late == {"final", "verified", "publishable"}

LEMMA FinalStays ==
  ASSUME FinalSound, finals' = finals, policy' = policy,
         phase' \in Early => phase \in Early,
         phase' \in Late => phase' = phase /\ UNCHANGED <<kept, oracle, evidence>>
  PROVE  FinalSound'
BY DEF FinalSound, Early, Late, Preserving

LEMMA FinalObserved ==
  ASSUME RunnerSound, RunSound, EvidenceSound, FinalSound, ObserveFinal
  PROVE  FinalSound'
<1>1. /\ phase = "final" /\ phase' = phase /\ evidence' = Record(evidence, Verdict)
      /\ UNCHANGED <<kept, oracle>>
      /\ finals' = IF PreparationRejected THEN finals
                   ELSE Append(finals, [observation |-> Observation, verdict |-> Verdict, project |-> kept])
  BY DEF ObserveFinal
<1>2. /\ finals \in Seq(Verified) /\ evidence \in Evidence
      /\ \A i \in DOMAIN finals :
           finals[i].project = kept /\ finals[i].verdict = Classify(oracle, finals[i].observation)
      /\ Cardinality(Preserving(finals, kept, oracle)) = evidence.preserved
      /\ evidence.rejected + evidence.inconclusive = 0 =>
           Len(finals) = evidence.preserved /\ \A i \in DOMAIN finals : finals[i].verdict = "preserved"
  BY <1>1 DEF FinalSound, EvidenceSound
<1>3. evidence.rejected \in Nat /\ evidence.inconclusive \in Nat /\ evidence.preserved \in Nat BY <1>2, EvidenceIs
<1>4. CASE PreparationRejected
  <2>1. Verdict = "rejected" /\ finals' = finals BY <1>1, <1>4 DEF Verdict
  <2>2. evidence'.preserved = evidence.preserved /\ evidence'.rejected + evidence'.inconclusive > 0
    BY <1>1, <1>2, <2>1, RecordIs DEF CandidateVerdict
  <2>3. evidence'.rejected + evidence'.inconclusive # 0 BY <2>2
  <2>4. Preserving(finals, kept, oracle)' = Preserving(finals, kept, oracle) BY <1>1, <2>1 DEF Preserving
  <2> QED BY <1>1, <1>2, <2>1, <2>2, <2>3, <2>4 DEF FinalSound
<1>5. CASE ~PreparationRejected
  <2> DEFINE entry == [observation |-> Observation, verdict |-> Verdict, project |-> kept]
  <2>1. Ran BY <1>5 DEF ObserveFinal
  <2>2. Verdict = Classify(oracle, Observation) BY <1>5 DEF Verdict
  <2>3. entry \in Verified BY <2>1, ObservationIs, VerdictIs DEF Ran, Seen, Verified, RunSound
  <2>4. entry.project = kept /\ entry.observation = Observation /\ entry.verdict = Verdict OBVIOUS
  <2>5. finals' = Append(finals, entry) BY <1>1, <1>5
  <2> HIDE DEF entry
  <2>6. /\ finals' \in Seq(Verified) /\ Len(finals') = Len(finals) + 1
        /\ DOMAIN finals' = 1..(Len(finals) + 1) /\ DOMAIN finals = 1..Len(finals) /\ Len(finals) \in Nat
        /\ \A i \in 1..Len(finals) : finals'[i] = finals[i]
        /\ finals'[Len(finals) + 1] = entry
    BY <1>2, <2>3, <2>5
  <2>7. \A i \in DOMAIN finals' : i \in DOMAIN finals \/ finals'[i] = entry BY <2>6
  <2>8. \A i \in DOMAIN finals' :
          finals'[i].project = kept /\ finals'[i].verdict = Classify(oracle, finals'[i].observation)
    BY <1>2, <2>2, <2>4, <2>6, <2>7, Zenon
  <2>9. Cardinality(Preserving(finals', kept, oracle)) =
          IF Verdict = "preserved" THEN evidence.preserved + 1 ELSE evidence.preserved
    BY <1>2, <2>2, <2>3, <2>4, <2>5, OneMore
  <2>10. Cardinality(Preserving(finals', kept, oracle)) = evidence'.preserved
    BY <1>1, <1>2, <2>9, VerdictIs, RecordIs
  <2>11. Preserving(finals, kept, oracle)' = Preserving(finals', kept, oracle) BY <1>1, Zenon DEF Preserving
  <2>12. evidence'.rejected + evidence'.inconclusive = 0 =>
           Len(finals') = evidence'.preserved /\ \A i \in DOMAIN finals' : finals'[i].verdict = "preserved"
    <3>1. CASE Verdict = "preserved"
      <4>1. /\ evidence'.preserved = evidence.preserved + 1
            /\ evidence'.rejected = evidence.rejected /\ evidence'.inconclusive = evidence.inconclusive
        BY <1>1, <1>2, <3>1, RecordIs DEF CandidateVerdict
      <4> QED BY <1>2, <2>4, <2>6, <2>7, <3>1, <4>1
    <3>2. CASE Verdict # "preserved"
      <4>1. evidence'.rejected + evidence'.inconclusive > 0 BY <1>1, <1>2, <3>2, VerdictIs, RecordIs
      <4>2. evidence'.rejected + evidence'.inconclusive # 0 BY <4>1
      <4> QED BY <4>2
    <3> QED BY <3>1, <3>2
  <2>13. (\A i \in DOMAIN finals :
            finals[i].project = kept /\ finals[i].verdict = Classify(oracle, finals[i].observation))'
    BY <1>1, <2>8
  <2> QED BY <1>1, <2>6, <2>10, <2>11, <2>12, <2>13 DEF FinalSound
<1> QED BY <1>4, <1>5

LEMMA FinalHolds ==
  ASSUME RunnerSound, RunSound, EvidenceSound, FinalSound, Next
  PROVE  FinalSound'
<1>1. policy' = policy BY RequestStays DEF RunSound
<1>2. CASE ObserveFinal BY <1>2, FinalObserved
<1>3. CASE UseRecorded \/ Decide
  <2>1. phase = "search" /\ phase' = "final" /\ finals' = finals /\ evidence' = NoEvidence
    BY <1>3, Zenon DEF UseRecorded, Decide, Keep
  <2>2. finals' = <<>> BY <2>1 DEF FinalSound
  <2>3. Preserving(finals, kept, oracle)' = Preserving(<<>>, kept', oracle') BY <2>2, Zenon DEF Preserving
  <2> QED BY <2>1, <2>2, <2>3, NonePreserving DEF FinalSound, NoEvidence
<1>4. CASE Verify
  <2>1. /\ phase = "final" /\ UNCHANGED <<finals, kept, oracle, evidence>>
        /\ phase' = IF Decision(policy, evidence) = "preserved" THEN "verified" ELSE "failed"
    BY <1>4 DEF Verify, searchVars
  <2>2. Decision(policy, evidence) = "preserved" => evidence.preserved >= policy.required
    BY RequestIs, ConsumedIs, Zenon DEF RunSound, EvidenceSound
  <2> QED BY <1>1, <2>1, <2>2 DEF FinalSound, Preserving
<1>5. CASE Report BY <1>1, <1>5 DEF Report, searchVars, FinalSound, Preserving
<1>6. CASE Resume
  <2>1. finals' = <<>> /\ phase' \in {"probe", "baseline"} BY <1>6 DEF Resume, FirstPhase
  <2> QED BY <2>1 DEF FinalSound
<1>7. CASE EngineStep /\ ~(ObserveFinal \/ UseRecorded \/ Decide \/ Verify \/ Report)
  <2>1. finals' = finals
    BY <1>7, Zenon DEF EngineStep, StartRun, CommandMissing, TakeProbe, Prepare, FailRun, RefuseBaseline, TakeBaseline,
                       BeginSearch, Observe, searchVars
  <2>2. phase' \in Early => phase \in Early
    <3>1. StartRun \/ Prepare \/ TakeBaseline \/ Observe => phase' = phase
      BY DEF StartRun, Prepare, TakeBaseline, Observe
    <3>2. TakeProbe \/ BeginSearch => phase \in Early BY DEF TakeProbe, Probing, BeginSearch, Early
    <3>3. CommandMissing \/ FailRun \/ RefuseBaseline => phase' \notin Early
      BY DEF CommandMissing, FailRun, RefuseBaseline, Early
    <3> QED BY <1>7, <3>1, <3>2, <3>3, Zenon DEF EngineStep
  <2>3. phase' \in Late => phase' = phase /\ UNCHANGED <<kept, oracle, evidence>>
    <3>1. StartRun \/ Prepare => phase' = phase /\ UNCHANGED <<kept, oracle, evidence>>
      BY DEF StartRun, Prepare, searchVars
    <3>2. TakeProbe \/ BeginSearch \/ CommandMissing \/ FailRun \/ RefuseBaseline => phase' \notin Late
      BY DEF TakeProbe, BeginSearch, CommandMissing, FailRun, RefuseBaseline, Late
    <3>3. TakeBaseline \/ Observe => phase' \notin Late BY DEF TakeBaseline, Observe, Late
    <3> QED BY <1>7, <3>1, <3>2, <3>3, Zenon DEF EngineStep
  <2> QED BY <1>1, <2>1, <2>2, <2>3, FinalStays
<1>8. CASE Stabilise
  <2>1. finals' = finals /\ phase \in Early /\ phase' \notin Late
    BY <1>8, Zenon DEF Stabilise, BaselinesComplete, Early, Late
  <2> QED BY <1>1, <2>1, FinalStays
<1>9. CASE RunnerMoves \/ DescendantMoves \/ RunnerFails \/ Ended
  <2>1. UNCHANGED <<phase, finals, kept, oracle, evidence>>
    BY <1>9 DEF RunnerMoves, DescendantMoves, RunnerFails, Ended, vars, searchVars
  <2> QED BY <1>1, <2>1, FinalStays
<1> QED BY <1>2, <1>3, <1>4, <1>5, <1>6, <1>7, <1>8, <1>9, Zenon DEF Next, EngineStep

-----------------------------------------------------------------------------
\* The theorems.

LEMMA InitIInv == Init => IInv
<1> SUFFICES ASSUME Init PROVE IInv OBVIOUS
<1>1. request \in Request BY EvaluationAssumption DEF Init
<1>2. policy.runs \in Nat BY <1>1, RequestIs, PolicyIs
<1>3. Idle /\ waiting = "idle" BY DEF Init, Idle
<1>4. RunnerSound BY <1>3, NoOutputIs DEF Idle, RunnerSound, Alive, Given
<1>5. RunSound BY <1>1, <1>3 DEF Init, RunSound, FirstPhase, Phase, Project, Due
<1>6. BaselinesSound BY <1>2 DEF Init, BaselinesSound
<1>7. EvidenceSound BY <1>2 DEF Init, EvidenceSound, NoEvidence, Evidence, Observed
<1>8. OracleSound BY DEF Init, FirstPhase, OracleSound, Established
<1>9. FinalSound BY DEF Init, FirstPhase, FinalSound
<1>10. RecognisesBaselines BY DEF Init, FirstPhase, RecognisesBaselines
<1> QED BY <1>4, <1>5, <1>6, <1>7, <1>8, <1>9, <1>10 DEF IInv

LEMMA NextIInv == IInv /\ [Next]_vars => IInv'
<1> SUFFICES ASSUME IInv, [Next]_vars PROVE IInv' OBVIOUS
<1>1. RunnerSound /\ RunSound /\ BaselinesSound /\ EvidenceSound /\ OracleSound /\ FinalSound /\ RecognisesBaselines
  BY DEF IInv
<1>2. CASE Next
  <2>1. RunnerSound' BY <1>1, <1>2, RunnerChanges, RunnerHolds
  <2>2. RunSound' BY <1>1, <1>2, RunHolds
  <2>3. BaselinesSound' BY <1>1, <1>2, BaselinesHold
  <2>4. EvidenceSound' BY <1>1, <1>2, EvidenceHolds
  <2>5. OracleSound' BY <1>1, <1>2, OracleHolds
  <2>6. FinalSound' BY <1>1, <1>2, FinalHolds
  <2>7. RecognisesBaselines' BY <1>1, <1>2, RecognitionHolds
  <2> QED BY <2>1, <2>2, <2>3, <2>4, <2>5, <2>6, <2>7 DEF IInv
<1>3. CASE UNCHANGED vars
  <2>1. /\ UNCHANGED <<request, phase, prepared, searchVars>> /\ UNCHANGED runnerVars
        /\ UNCHANGED <<baselines, oracle, evidence, kept, finals, recorded, waiting>>
    BY <1>3 DEF vars, searchVars, runnerVars
  <2>2. policy' = policy /\ oracleSpec' = oracleSpec /\ request'.preparation = request.preparation
    BY <2>1 DEF policy, oracleSpec
  <2>3. RunnerSound' BY <1>1, <2>1, RunnerHolds DEF RunnerChange
  <2>4. RunSound' BY <1>1, <2>1, <2>2, WantedStays, Zenon DEF RunSound
  <2>5. BaselinesSound' BY <1>1, <2>1, <2>2, Zenon DEF BaselinesSound
  <2>6. EvidenceSound' BY <1>1, <2>1, <2>2, Zenon DEF EvidenceSound, Observed
  <2>7. OracleSound' BY <1>1, <2>1, <2>2, Zenon DEF OracleSound
  <2>8. FinalSound' BY <1>1, <2>1, <2>2, FinalStays
  <2>9. RecognisesBaselines' BY <1>1, <2>1, <2>2, Zenon DEF RecognisesBaselines, PreservedBy
  <2> QED BY <2>3, <2>4, <2>5, <2>6, <2>7, <2>8, <2>9 DEF IInv
<1> QED BY <1>2, <1>3

\* The inductive invariant of a run and of those that resume it
\* (crates/reprocut-engine/src/lib.rs:466-494, 661-719).
THEOREM Invariant == Spec => []IInv
BY InitIInv, NextIInv, PTL DEF Spec

\* The types of a run: no observation is counted that the policy does not ask for,
\* and a run of a command that came back has been waited for and says how it ended
\* (lib.rs:466-494; runner/lib.rs:205-255).
THEOREM TypeCorrect == Spec => []TypeOK
<1>1. IInv => TypeOK
  <2> SUFFICES ASSUME IInv PROVE TypeOK OBVIOUS
  <2>1. RunnerSound /\ RunSound /\ BaselinesSound /\ EvidenceSound /\ OracleSound BY DEF IInv
  <2>2. /\ leader \in {"none", "running", "finishing", "exited", "reaped"}
        /\ descendant \in {"none", "holding", "detached"}
        /\ status \in TerminationReason \cup {"none", "killed"}
        /\ waiting \in {"idle", "polling", "overdue", "killed", "joining", "returned", "lost"}
        /\ timedOut \in BOOLEAN /\ truncated \in BOOLEAN /\ runError \in BOOLEAN
    BY <2>1 DEF RunnerSound, TerminationReason, Exits
  <2>3. waiting = "returned" => leader = "reaped" /\ (runError \/ Reason \in TerminationReason)
    <3>1. waiting = "returned" => leader = "reaped" BY <2>1 DEF RunnerSound
    <3>2. waiting = "returned" /\ ~runError => Reason \in TerminationReason
      BY <2>1, ObservationIs DEF Returned, Observation
    <3> QED BY <3>1, <3>2
  <2>4. Probing => prepared = 0 BY <2>1 DEF RunSound, Due, Probing, Wanted
  <2>5. Wanted => prepared <= Len(request.preparation[Subject])
    <3>1. Len(request.preparation[Subject]) \in Nat BY <2>1, RequestIs, SubjectIs DEF RunSound
    <3> QED BY <2>1, <3>1 DEF RunSound, Due
  <2>6. phase \in Phase /\ prepared \in Nat /\ kept \in Project /\ recorded \in CandidateVerdict \cup {"none"}
    BY <2>1 DEF RunSound
  <2>7. Len(baselines) <= policy.runs /\ evidence \in Evidence /\ Observed(evidence) <= policy.runs
    BY <2>1 DEF BaselinesSound, EvidenceSound
  <2>8. phase \in {"search", "final", "verified", "publishable"} => oracle.spec = oracleSpec
    BY <2>1 DEF OracleSound, Established
  <2> QED BY <2>2, <2>3, <2>4, <2>5, <2>6, <2>7, <2>8, Zenon DEF TypeOK
<1> QED BY <1>1, Invariant, PTL

\* For every number of runs and threshold that a policy may have: observations go
\* on exactly while their outcome is open (policy.rs:76-91).
THEOREM AlwaysStopsWhenInevitable == Spec => []StopsWhenInevitable
<1>1. IInv => StopsWhenInevitable BY Inevitable, RequestIs DEF IInv, RunSound, EvidenceSound
<1> QED BY <1>1, Invariant, PTL

\* However lines are normalised, ranked and chosen, and however failures differ
\* from run to run: the oracle that a run goes on with recognises as many of its
\* own baselines as the policy asks for (oracle.rs:189-334, lib.rs:741-786).
THEOREM AlwaysRecognisesBaselines == Spec => []RecognisesBaselines
<1>1. IInv => RecognisesBaselines BY DEF IInv
<1> QED BY <1>1, Invariant, PTL

\* For every policy, command and oracle, and any restarts: what is reported as
\* verified was seen to fail in that very run, as often as asked for
\* (lib.rs:661-691).
THEOREM AlwaysVerifiedInThisRun == Spec => []VerifiedInThisRun
<1>1. IInv => VerifiedInThisRun
  <2> SUFFICES ASSUME IInv, phase \in {"verified", "publishable"} PROVE VerifiedInThisRun BY DEF VerifiedInThisRun
  <2>1. oracle.spec = oracleSpec BY DEF IInv, OracleSound, Established
  <2>2. Cardinality(Preserving(finals, kept, oracle)) = evidence.preserved /\ evidence.preserved >= policy.required
    BY DEF IInv, FinalSound
  <2>3. Cardinality(Preserving(finals, kept, oracle)) >= policy.required BY <2>2
  <2> QED BY <2>1, <2>3, Zenon DEF VerifiedInThisRun, Preserving
<1> QED BY <1>1, Invariant, PTL

\* Whatever a command writes, a result that three runs of three preserved under an
\* oracle that reads its output is accepted as evidence (evidence.rs:252-344).
THEOREM StrictAlwaysPublishable == Spec => []StrictIsPublishable
<1>1. IInv => StrictIsPublishable
  <2> SUFFICES ASSUME IInv, phase = "verified", policy = Strict, oracleSpec.mode # "exit_zero" PROVE EvidenceValid
    BY DEF StrictIsPublishable
  <2>1. /\ evidence \in Evidence /\ Observed(evidence) <= 3 /\ evidence.preserved >= 3
    BY DEF IInv, EvidenceSound, FinalSound, Strict
  <2>2. evidence.preserved = 3 /\ evidence.rejected + evidence.inconclusive = 0 /\ Observed(evidence) = 3
    BY <2>1, EvidenceIs
  <2>3. Len(finals) = 3 /\ \A i \in DOMAIN finals :
          finals[i].verdict = "preserved" /\ finals[i].verdict = Classify(oracle, finals[i].observation)
    BY <2>2 DEF IInv, FinalSound
  <2>4. oracle.spec = oracleSpec /\ (oracle.anchors # <<>> <=> oracleSpec.mode = "automatic")
    BY DEF IInv, OracleSound, Established
  <2>5. \A i \in DOMAIN finals :
          finals[i].observation.termination # "timed out" /\ ~finals[i].observation.truncated
    BY <2>3, <2>4, ClassifyIs
  <2>6. ObservationsProve
    <3>1. Observed(evidence) # 0 /\ Observed(evidence) = Len(finals) BY <2>2, <2>3
    <3> QED BY <2>3, <2>5, <3>1, Zenon DEF ObservationsProve
  <2>7. ModeContract
    <3>1. ValidSpec(oracleSpec) /\ oracleSpec.mode \in OracleMode
      BY RequestIs DEF IInv, RunSound, ValidSpec
    <3> QED BY <2>4, <3>1 DEF ModeContract, ValidSpec, OracleMode
  <2> QED BY <2>6, <2>7 DEF EvidenceValid
<1> QED BY <1>1, Invariant, PTL

\* However a command, its descendants and the deadline come to act in between, a
\* run that was cut short leaves no process of its group (runner/lib.rs:231-243).
THEOREM NeverSurvivors == Spec => []NoSurvivors
<1>1. IInv => NoSurvivors BY DEF IInv, RunnerSound, NoSurvivors, Alive
<1> QED BY <1>1, Invariant, PTL

=============================================================================
