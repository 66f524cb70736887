---------------------------- MODULE SessionProofs ----------------------------
(***************************************************************************)
(* Proofs about Session, for every project, every list of directory        *)
(* groups, every command, number of workers, and any crashes and errors:   *)
(* type correctness; that the transitions of a journal are one chain; that *)
(* a result is on that chain; that a resumed run of a steady command is    *)
(* not refused; and that all runs together implement Reduction.            *)
(*                                                                         *)
(* The facts about the search are those proved of Reducer; Proven is the   *)
(* instance they are cited from, Search the one the model is made of.      *)
(***************************************************************************)
EXTENDS Session, FiniteSetTheorems, WellFoundedInduction, TLAPS

Proven == INSTANCE ReducerProofs WITH outcome <- command, Outcomes <- [Candidate -> SUBSET Verdict]

(***************************************************************************)
(* The two instances agree.                                                *)
(***************************************************************************)
LEMMA SameCardinality ==
  ASSUME NEW S
  PROVE  Search!Cardinality(S) = Proven!Cardinality(S) /\ Search!Cardinality(S) = Cardinality(S)
<1>1. Search!Cardinality(S) = Proven!Cardinality(S)
  BY Zenon DEF Search!Cardinality, Proven!Cardinality
<1>2. Search!Cardinality(S) = Cardinality(S)
  BY Zenon DEF Search!Cardinality, Cardinality
<1> QED
  BY <1>1, <1>2

LEMMA SamePositions ==
  /\ Search!Size = Proven!Size
  /\ \A u : Search!Position(u) = Proven!Position(u)
  /\ \A i : Search!Part(i) = Proven!Part(i)
<1>1. Search!Size = Proven!Size
  BY SameCardinality DEF Search!Size, Proven!Size
<1>2. \A u : Search!Position(u) = Proven!Position(u)
  BY SameCardinality DEF Search!Position, Proven!Position
<1>3. \A i : Search!Part(i) = Proven!Part(i)
  BY <1>1, <1>2
     DEF Search!Part, Proven!Part, Search!ChunkSize, Proven!ChunkSize, Search!CeilDiv, Proven!CeilDiv
<1> QED
  BY <1>1, <1>2, <1>3

LEMMA SameFrontier == Search!Frontier = Proven!Frontier /\ (Search!Asking <=> Proven!Asking)
<1>1. Search!OrderedFrontier = Proven!OrderedFrontier
  BY SamePositions
     DEF Search!OrderedFrontier, Proven!OrderedFrontier, Search!Parts, Proven!Parts,
         Search!ChunkSize, Proven!ChunkSize, Search!CeilDiv, Proven!CeilDiv
<1>2. Search!WithoutGroup = Proven!WithoutGroup /\ Search!WithoutPosition = Proven!WithoutPosition
  BY SamePositions
     DEF Search!WithoutGroup, Proven!WithoutGroup, Search!WithoutPosition, Proven!WithoutPosition
<1>3. Search!Frontier = Proven!Frontier
  BY <1>1, <1>2 DEF Search!Frontier, Proven!Frontier
<1>4. Search!Asking <=> Proven!Asking
  BY <1>2, SamePositions DEF Search!Asking, Proven!Asking
<1> QED
  BY <1>3, <1>4

LEMMA SameAnswer == ASSUME NEW i, Search!Answered(i) PROVE Proven!Answered(i)
BY SamePositions, SameFrontier
   DEF Search!Answered, Proven!Answered, Search!Evaluated, Proven!Evaluated,
       Search!TryGroup, Proven!TryGroup, Search!AcceptCandidate, Proven!AcceptCandidate,
       Search!RefinePartition, Proven!RefinePartition, Search!SweepUnit, Proven!SweepUnit,
       Search!Accepted, Proven!Accepted, Search!Min2, Proven!Min2

LEMMA SameAdvance == ASSUME Search!Advance PROVE Proven!Advance
BY SamePositions, SameFrontier
   DEF Search!Advance, Proven!Advance, Search!SkipGroup, Proven!SkipGroup,
       Search!StartDdmin, Proven!StartDdmin, Search!StartSweep, Proven!StartSweep,
       Search!Finish, Proven!Finish

LEMMA ProvenParameters == ASSUME SessionAssumption PROVE Proven!Parameters
<1>1. Unit \subseteq Nat /\ IsFiniteSet(Unit) /\ Groups \in Seq(SUBSET Unit)
  BY DEF SessionAssumption
<1>2. [Candidate -> SUBSET Verdict] \subseteq [SUBSET Unit -> SUBSET Proven!Verdict]
  BY Zenon DEF Verdict, Candidate, Proven!Verdict
<1>3. IsFiniteSet(Unit) => Proven!IsFiniteSet(Unit)
  BY Zenon DEF IsFiniteSet, Proven!IsFiniteSet
<1> QED
  BY <1>1, <1>2, <1>3 DEF Proven!Parameters

(***************************************************************************)
(* Steps of the search.                                                    *)
(***************************************************************************)
LEMMA FrontierUnchanged ==
  ASSUME UNCHANGED searchVars
  PROVE  Search!Frontier' = Search!Frontier /\ (Search!Asking' <=> Search!Asking)
<1>1. stage' = stage /\ active' = active /\ group' = group /\ granularity' = granularity /\ position' = position
  BY DEF searchVars
<1> QED
  BY <1>1
     DEF Search!Frontier, Search!Asking, Search!OrderedFrontier, Search!Parts, Search!Part, Search!ChunkSize,
         Search!CeilDiv, Search!Position, Search!Size, Search!WithoutGroup, Search!WithoutPosition

LEMMA FrontierFacts ==
  ASSUME SessionAssumption, Proven!TypeOK, Search!Asking
  PROVE  /\ Len(Search!Frontier) \in Nat \ {0}
         /\ 0..Len(Search!Frontier) \subseteq Proven!Ranks
         /\ \A i \in 1..Len(Search!Frontier) :
              Search!Frontier[i] \subseteq active /\ Search!Frontier[i] # active
<1>1. Proven!Parameters /\ Proven!Asking /\ Search!Frontier = Proven!Frontier
  BY ProvenParameters, SameFrontier
<1>2. Len(Proven!Frontier) \in Nat \ {0} /\ 0..Len(Proven!Frontier) \subseteq Proven!Ranks
  BY <1>1, Proven!FrontierLength
<1>3. \A i \in 1..Len(Proven!Frontier) : Proven!Frontier[i] \subseteq active /\ Proven!Frontier[i] # active
  BY <1>1, Proven!FrontierProper
<1> QED
  BY <1>1, <1>2, <1>3

LEMMA AnswerMoves ==
  ASSUME NEW i, Search!Answered(i)
  PROVE  Search!Asking /\ active' = IF i = 0 THEN active ELSE Search!Frontier[i]
BY DEF Search!Answered, Search!Evaluated, Search!Accepted,
       Search!TryGroup, Search!AcceptCandidate, Search!RefinePartition, Search!SweepUnit

LEMMA AnswerType ==
  ASSUME SessionAssumption, Proven!TypeOK, NEW i, i \in 0..Len(Search!Frontier), Search!Answered(i)
  PROVE  Proven!TypeOK'
<1>1. i \in Proven!Ranks
  BY AnswerMoves, FrontierFacts
<1>2. Proven!Answered(i) /\ Proven!Parameters
  BY SameAnswer, ProvenParameters
<1>3. Proven!Next
  BY <1>1, <1>2 DEF Proven!Next
<1> QED
  BY <1>2, <1>3, Proven!TypeInduction

LEMMA AdvanceType ==
  ASSUME SessionAssumption, Proven!TypeOK, Search!Advance
  PROVE  Proven!TypeOK' /\ ~Search!Asking /\ active' = active
<1>1. Proven!Next /\ Proven!Parameters
  BY SameAdvance, ProvenParameters DEF Proven!Next
<1>2. ~Search!Asking /\ active' = active
  <2>1. CASE Search!SkipGroup
    BY <2>1 DEF Search!SkipGroup
  <2>2. /\ group \in 1..(Len(Groups) + 1) /\ Len(Groups) \in Nat /\ Search!Size \in Nat
        /\ position \in Nat
    <3>1. Len(Groups) \in Nat
      BY DEF SessionAssumption
    <3>2. Proven!Size \in Nat /\ Proven!Parameters
      BY <1>1, Proven!ActiveFinite DEF Proven!TypeOK
    <3> QED
      BY <3>1, <3>2, SamePositions DEF Proven!TypeOK
  <2>3. CASE Search!StartDdmin
    BY <2>2, <2>3 DEF Search!StartDdmin, Search!Asking
  <2>4. CASE Search!StartSweep
    BY <2>2, <2>4 DEF Search!StartSweep, Search!Asking
  <2>5. CASE Search!Finish
    BY <2>2, <2>5 DEF Search!Finish, Search!Asking
  <2> QED
    BY <2>1, <2>3, <2>4, <2>5 DEF Search!Advance
<1> QED
  BY <1>1, <1>2, Proven!TypeInduction

(***************************************************************************)
(* The inductive invariant.  A run that has made ordinal transitions       *)
(* stands where the journal's first ordinal transitions lead; the links    *)
(* are told apart by their ordinals and by their outputs.                  *)
(***************************************************************************)
Fresh == status = "stopped" => active = Unit /\ ordinal = 0 /\ frontier = <<>> /\ failed = FALSE

Recorded == \A i \in 1..Len(frontier) : answers[i] = "preserved" => attempts[frontier[i]] = "preserved"

\* The project that n transitions lead to.
StandsAt(n, project) ==
  IF n = 0 THEN project = Unit ELSE \E y \in transitions : y.ordinal = n - 1 /\ y.to = project

Links ==
  /\ IsFiniteSet(transitions)
  /\ \A x, y \in transitions : x.ordinal = y.ordinal \/ x.to = y.to => x = y
  /\ {x.ordinal : x \in transitions} = 0..(Length - 1)
  /\ \A x \in transitions :
       /\ x.to \subseteq x.from /\ x.to # x.from
       /\ attempts[x.to] = "preserved"
       /\ StandsAt(x.ordinal, x.from)

OnChain == ordinal \in 0..Length /\ StandsAt(ordinal, active)

IInv == TypeOK /\ Proven!TypeOK /\ Fresh /\ Recorded /\ Links /\ OnChain

LEMMA Steadfast ==
  ASSUME setting \in Setting,
         \/ setting' = setting
         \/ setting.errors > 0 /\ setting' = [setting EXCEPT !.errors = @ - 1]
         \/ setting.crashes > 0 /\ setting' = [setting EXCEPT !.crashes = @ - 1]
  PROVE  setting' \in Setting /\ command' = command
BY DEF Setting, command

LEMMA SearchStutters ==
  ASSUME SessionAssumption, Proven!TypeOK, UNCHANGED searchVars, command' = command
  PROVE  Proven!TypeOK'
<1>1. UNCHANGED Proven!vars
  BY DEF searchVars, Proven!vars
<1> QED
  BY <1>1, ProvenParameters, Proven!TypeInduction

\* The type invariant but for the frontier and its answers.
RunTypeOK ==
  /\ setting \in Setting
  /\ status \in {"stopped", "running", "settled"}
  /\ failed \in BOOLEAN /\ error \in BOOLEAN /\ (failed => error)
  /\ jobs \in Nat \ {0}
  /\ ordinal \in Nat
  /\ attempts \in [Candidate -> Verdict \cup {"none"}]
  /\ transitions \subseteq [ordinal : Nat, from : Candidate, to : Candidate]

FrontierTypeOK ==
  /\ frontier # <<>> => ~failed /\ Search!Asking /\ frontier = Search!Frontier
  /\ answers \in [1..Len(frontier) -> Verdict \cup {"none"}]

LEMMA TypeParts == ASSUME Proven!TypeOK PROVE TypeOK <=> RunTypeOK /\ FrontierTypeOK
<1>1. /\ stage \in {"directories", "ddmin", "sweep", "done"} /\ active \subseteq Unit
      /\ group \in 1..(Len(Groups) + 1) /\ granularity \in Nat /\ granularity >= 2
  BY DEF Proven!TypeOK
<1>2. position \in Nat
  BY DEF Proven!TypeOK
<1> QED
  BY <1>1, <1>2 DEF TypeOK, RunTypeOK, FrontierTypeOK

\* What a run that stops leaves behind.
LEMMA ForgetType ==
  ASSUME SessionAssumption, RunTypeOK, Forget, setting' \in Setting
  PROVE  RunTypeOK' /\ FrontierTypeOK' /\ Proven!TypeOK' /\ Fresh' /\ Recorded'
<1>0. /\ status' = "stopped" /\ stage' = "directories" /\ active' = Unit /\ group' = 1
      /\ granularity' = 2 /\ position' = 0 /\ failed' = FALSE /\ error' = FALSE /\ jobs' = 1
      /\ frontier' = <<>> /\ answers' = <<>> /\ ordinal' = 0
      /\ attempts' = attempts /\ transitions' = transitions
  BY DEF Forget, journal
<1>1. RunTypeOK' /\ Fresh'
  <2>1. failed' \in BOOLEAN /\ error' \in BOOLEAN /\ (failed' => error')
    BY <1>0, Zenon
  <2>2. RunTypeOK'
    BY <1>0, <2>1 DEF RunTypeOK
  <2> QED
    BY <1>0, <2>2 DEF Fresh
<1>2. FrontierTypeOK'
  BY DEF Forget, FrontierTypeOK
<1>3. Recorded'
  BY DEF Forget, Recorded
<1>4. Proven!TypeOK'
  <2>1. command' \in [SUBSET Unit -> SUBSET Proven!Verdict]
    BY DEF Setting, command, Candidate, Verdict, Proven!Verdict
  <2>2. 1 \in 1..(Len(Groups) + 1)
    BY DEF SessionAssumption
  <2>3. failed' \in BOOLEAN /\ stage' \in {"directories", "ddmin"}
    BY <1>0, Zenon
  <2>4. 2 \in Nat /\ 2 >= 2
    OBVIOUS
  <2> QED
    BY <1>0, <2>1, <2>2, <2>3, <2>4, Zenon DEF Proven!TypeOK
<1> QED
  BY <1>1, <1>2, <1>3, <1>4

(***************************************************************************)
(* Answers to candidates.                                                  *)
(***************************************************************************)
LEMMA LinksStay ==
  ASSUME Links, transitions' = transitions,
         \A c \in {x.to : x \in transitions} : attempts[c] = "preserved" => attempts'[c] = "preserved"
  PROVE  Links'
BY DEF Links, Length, StandsAt

LEMMA OnChainStays ==
  ASSUME OnChain, transitions' = transitions, ordinal' = ordinal, active' = active
  PROVE  OnChain'
BY DEF OnChain, Length, StandsAt

LEMMA GivenType ==
  ASSUME IInv, NEW i, Startable(i)
  PROVE  i \in 1..Len(frontier) /\ status = "running" /\ frontier # <<>> /\ frontier = Search!Frontier
BY DEF IInv, TypeOK, Startable, Asked, Planned

LEMMA GiveStep ==
  ASSUME SessionAssumption, IInv, NEW i, Startable(i), NEW verdict \in Verdict, Give(i, verdict),
         UNCHANGED <<status, searchVars, jobs, frontier, ordinal, transitions>>,
         setting' \in Setting, command' = command,
         error' \in BOOLEAN, error => error',
         attempts' \in [Candidate -> Verdict \cup {"none"}],
         \A c \in Candidate : attempts[c] = "preserved" => attempts'[c] = "preserved",
         verdict = "preserved" => attempts'[frontier[i]] = "preserved"
  PROVE  IInv'
<1>0. /\ status' = status /\ jobs' = jobs /\ frontier' = frontier /\ ordinal' = ordinal
      /\ transitions' = transitions /\ failed' = failed /\ active' = active /\ UNCHANGED searchVars
      /\ answers' = [answers EXCEPT ![i] = verdict]
      /\ RunTypeOK /\ FrontierTypeOK /\ Proven!TypeOK
  BY TypeParts DEF searchVars, Give, IInv
<1>1. Proven!TypeOK'
  BY <1>0, SearchStutters
<1>2. RunTypeOK'
  BY <1>0 DEF RunTypeOK
<1>3. FrontierTypeOK'
  <2>1. answers' \in [1..Len(frontier') -> Verdict \cup {"none"}]
    BY <1>0, GivenType DEF FrontierTypeOK
  <2>2. frontier' # <<>> => ~failed' /\ Search!Asking' /\ frontier' = Search!Frontier'
    BY <1>0, FrontierUnchanged DEF FrontierTypeOK
  <2> QED
    BY <2>1, <2>2 DEF FrontierTypeOK
<1>4. TypeOK'
  <2>1. Proven!TypeOK' => (TypeOK' <=> RunTypeOK' /\ FrontierTypeOK')
    BY TypeParts, PTL
  <2> QED
    BY <1>1, <1>2, <1>3, <2>1
<1>5. Fresh'
  BY <1>0, GivenType DEF Fresh
<1>6. Recorded'
  <2>1. ASSUME NEW j \in 1..Len(frontier) PROVE frontier[j] \in Candidate
    <3>1. frontier = Search!Frontier /\ Search!Asking
      BY <1>0, GivenType DEF FrontierTypeOK
    <3>2. frontier[j] \subseteq active /\ active \subseteq Unit
      BY <1>0, <3>1, FrontierFacts DEF Proven!TypeOK
    <3> QED
      BY <3>2 DEF Candidate
  <2>2. ASSUME NEW j \in 1..Len(frontier), answers'[j] = "preserved" PROVE attempts'[frontier[j]] = "preserved"
    <3>1. CASE j = i
      <4>1. verdict = "preserved"
        BY <1>0, <2>2, <3>1, GivenType DEF FrontierTypeOK
      <4> QED
        BY <3>1, <4>1
    <3>2. CASE j # i
      <4>1. answers[j] = "preserved"
        BY <1>0, <2>2, <3>2 DEF FrontierTypeOK
      <4> QED
        BY <2>1, <4>1 DEF IInv, Recorded
    <3> QED
      BY <3>1, <3>2
  <2> QED
    BY <1>0, <2>2 DEF Recorded
<1>7. Links'
  <2>1. \A x \in transitions : x.to \in Candidate
    BY <1>0 DEF RunTypeOK
  <2> QED
    BY <1>0, <2>1, LinksStay DEF IInv
<1>8. OnChain'
  BY <1>0, OnChainStays DEF IInv
<1> QED
  BY <1>1, <1>4, <1>5, <1>6, <1>7, <1>8 DEF IInv

(***************************************************************************)
(* The search goes on.                                                     *)
(***************************************************************************)
LEMMA ContinueType ==
  ASSUME SessionAssumption, IInv, NEW i, i \in 0..Len(Search!Frontier), Continue(i), status = "running",
         setting' \in Setting, error' \in BOOLEAN,
         ordinal' \in Nat, transitions' \subseteq [ordinal : Nat, from : Candidate, to : Candidate]
  PROVE  TypeOK' /\ Proven!TypeOK' /\ Fresh' /\ Recorded'
<1>0. /\ status' = status /\ jobs' = jobs /\ attempts' = attempts /\ failed' = error'
      /\ frontier' = <<>> /\ answers' = <<>> /\ Search!Answered(i)
      /\ RunTypeOK /\ Proven!TypeOK
  BY TypeParts DEF Continue, IInv
<1>1. Proven!TypeOK'
  BY <1>0, AnswerType
<1>2. RunTypeOK'
  BY <1>0 DEF RunTypeOK
<1>3. FrontierTypeOK'
  BY <1>0 DEF FrontierTypeOK
<1>4. TypeOK'
  <2>1. Proven!TypeOK' => (TypeOK' <=> RunTypeOK' /\ FrontierTypeOK')
    BY TypeParts, PTL
  <2> QED
    BY <1>1, <1>2, <1>3, <2>1
<1> QED
  BY <1>0, <1>1, <1>4 DEF Fresh, Recorded

\* A frontier without a winner leaves the chain alone.
LEMMA NoWinnerStep ==
  ASSUME SessionAssumption, IInv, Continue(0), status = "running", setting' \in Setting, error' \in BOOLEAN,
         UNCHANGED <<ordinal, transitions>>
  PROVE  IInv'
<1>0. /\ attempts' = attempts /\ ordinal' = ordinal /\ transitions' = transitions
      /\ Search!Answered(0) /\ RunTypeOK /\ Proven!TypeOK
  BY TypeParts DEF Continue, IInv
<1>1. Search!Asking /\ active' = active
  BY <1>0, AnswerMoves
<1>2. 0 \in 0..Len(Search!Frontier)
  BY <1>0, <1>1, FrontierFacts
<1>3. TypeOK' /\ Proven!TypeOK' /\ Fresh' /\ Recorded'
  BY <1>0, <1>2, ContinueType DEF RunTypeOK
<1>4. Links' /\ OnChain'
  BY <1>0, <1>1, LinksStay, OnChainStays DEF IInv
<1> QED
  BY <1>3, <1>4 DEF IInv

\* The journal takes a transition that it has, or one at its chain's end.
LEMMA CommitStep ==
  ASSUME SessionAssumption, IInv, NEW i \in 1..Len(frontier), Commit(i)
  PROVE  IInv'
<1> DEFINE link == Link(i)
<1>0. /\ status = "running" /\ frontier # <<>> /\ answers[i] = "preserved"
      /\ transitions' = transitions \cup {link} /\ ordinal' = ordinal + 1
      /\ setting' = setting /\ error' = error /\ attempts' = attempts
      /\ Continue(i) /\ Search!Answered(i)
      /\ RunTypeOK /\ FrontierTypeOK /\ Proven!TypeOK
  BY TypeParts DEF Commit, Winner, Asked, PreservedRanks, Continue, IInv
<1>1. /\ frontier = Search!Frontier /\ Search!Asking
      /\ frontier[i] \subseteq active /\ frontier[i] # active
      /\ i # 0 /\ active' = frontier[i] /\ i \in 0..Len(Search!Frontier)
  <2>1. frontier = Search!Frontier /\ Search!Asking
    BY <1>0 DEF FrontierTypeOK
  <2>2. frontier[i] \subseteq active /\ frontier[i] # active /\ Len(frontier) \in Nat
    BY <1>0, <2>1, FrontierFacts
  <2> QED
    BY <1>0, <2>1, <2>2, AnswerMoves
<1>2. /\ link.ordinal = ordinal /\ link.from = active /\ link.to = frontier[i]
      /\ ordinal \in Nat /\ link \in [ordinal : Nat, from : Candidate, to : Candidate]
  BY <1>0, <1>1 DEF Link, RunTypeOK, Proven!TypeOK, Candidate
<1>3. \A x \in transitions : IF x.ordinal = ordinal THEN x = link ELSE x.to # link.to
  BY <1>2 DEF Commit, Insertable
<1>4. TypeOK' /\ Proven!TypeOK' /\ Fresh' /\ Recorded'
  <2>1. transitions' \subseteq [ordinal : Nat, from : Candidate, to : Candidate] /\ ordinal' \in Nat
    BY <1>0, <1>2 DEF RunTypeOK
  <2> QED
    BY <1>0, <1>1, <2>1, ContinueType DEF RunTypeOK
<1>5. attempts[link.to] = "preserved"
  BY <1>0, <1>2 DEF IInv, Recorded
<1>6. /\ IsFiniteSet(transitions) /\ Length \in Nat /\ Length = Cardinality(transitions)
      /\ ordinal \in 0..Length /\ {x.ordinal : x \in transitions} = 0..(Length - 1)
  BY FS_CardinalityType DEF IInv, Links, OnChain, Length
<1>7. IsFiniteSet(transitions') /\ {x.ordinal : x \in transitions'} = 0..(Length' - 1) /\ ordinal' \in 0..Length'
  <2>1. CASE link \in transitions
    <3>1. transitions' = transitions
      BY <1>0, <2>1
    <3>2. ordinal \in 0..(Length - 1)
      BY <1>2, <1>6, <2>1
    <3>3. {x.ordinal : x \in transitions'} = {x.ordinal : x \in transitions} /\ Length' = Length
      BY <3>1 DEF Length
    <3>4. ordinal' \in 0..Length'
      BY <1>0, <1>6, <3>2, <3>3
    <3> QED
      BY <1>6, <3>1, <3>3, <3>4, Zenon
  <2>2. CASE link \notin transitions
    <3>1. ordinal \notin 0..(Length - 1)
      <4>1. ordinal \notin {x.ordinal : x \in transitions}
        BY <1>3, <2>2
      <4> QED
        BY <1>6, <4>1
    <3>2. ordinal = Length
      BY <1>6, <3>1
    <3>3. IsFiniteSet(transitions') /\ Length' = Length + 1
      BY <1>0, <1>6, <2>2, FS_AddElement DEF Length
    <3>4. {x.ordinal : x \in transitions'} = {x.ordinal : x \in transitions} \cup {ordinal}
      BY <1>0, <1>2
    <3> QED
      BY <1>0, <1>6, <3>2, <3>3, <3>4
  <2> QED
    BY <2>1, <2>2
<1>8. \A x, y \in transitions' : x.ordinal = y.ordinal \/ x.to = y.to => x = y
  <2>1. \A x, y \in transitions : x.ordinal = y.ordinal \/ x.to = y.to => x = y
    BY DEF IInv, Links
  <2>2. \A x \in transitions : x.ordinal = link.ordinal \/ x.to = link.to => x = link
    BY <1>2, <1>3
  <2> QED
    BY <1>0, <2>1, <2>2
<1>9. \A n, project : StandsAt(n, project) => StandsAt(n, project)'
  BY <1>0 DEF StandsAt
<1>10. ASSUME NEW x \in transitions'
       PROVE  /\ x.to \subseteq x.from /\ x.to # x.from /\ attempts'[x.to] = "preserved"
              /\ StandsAt(x.ordinal, x.from)'
  <2>1. CASE x \in transitions
    BY <1>0, <1>9, <2>1 DEF IInv, Links
  <2>2. CASE x = link
    <3>1. StandsAt(ordinal, active)
      BY DEF IInv, OnChain
    <3> QED
      BY <1>0, <1>1, <1>2, <1>5, <1>9, <2>2, <3>1
  <2> QED
    BY <1>0, <2>1, <2>2
<1>11. StandsAt(ordinal, active)'
  <2>1. link \in transitions' /\ link.ordinal = ordinal' - 1 /\ link.to = active' /\ ordinal' # 0
    BY <1>0, <1>1, <1>2
  <2> QED
    BY <2>1 DEF StandsAt
<1> QED
  BY <1>4, <1>7, <1>8, <1>10, <1>11 DEF IInv, Links, OnChain

(***************************************************************************)
(* The other steps of a run.                                               *)
(***************************************************************************)
LEMMA ForgetStep ==
  ASSUME SessionAssumption, IInv, Forget, setting' \in Setting
  PROVE  IInv'
<1>0. /\ attempts' = attempts /\ transitions' = transitions /\ ordinal' = 0 /\ active' = Unit
      /\ RunTypeOK /\ Proven!TypeOK
  BY TypeParts DEF Forget, journal, IInv
<1>1. RunTypeOK' /\ FrontierTypeOK' /\ Proven!TypeOK' /\ Fresh' /\ Recorded'
  BY <1>0, ForgetType
<1>2. TypeOK'
  <2>1. Proven!TypeOK' => (TypeOK' <=> RunTypeOK' /\ FrontierTypeOK')
    BY TypeParts, PTL
  <2> QED
    BY <1>1, <2>1
<1>3. Links'
  BY <1>0, LinksStay DEF IInv
<1>4. OnChain'
  <2>1. Length \in Nat /\ Length' = Length
    BY <1>0, FS_CardinalityType DEF IInv, Links, Length
  <2> QED
    BY <1>0, <2>1 DEF OnChain, StandsAt
<1> QED
  BY <1>1, <1>2, <1>3, <1>4 DEF IInv

\* Steps that change neither the journal nor where the run stands.
LEMMA QuietStep ==
  ASSUME SessionAssumption, IInv, TypeOK', Proven!TypeOK', Fresh', Recorded',
         UNCHANGED <<active, ordinal, journal>>
  PROVE  IInv'
<1>1. attempts' = attempts /\ transitions' = transitions /\ ordinal' = ordinal /\ active' = active
  BY DEF journal
<1> QED
  BY <1>1, LinksStay, OnChainStays DEF IInv

LEMMA StartStep == ASSUME SessionAssumption, IInv, Start PROVE IInv'
<1>0. /\ status' = "running" /\ jobs' \in setting.jobs /\ setting' = setting /\ UNCHANGED searchVars
      /\ active' = active /\ failed' = failed /\ error' = error /\ frontier' = frontier /\ answers' = answers
      /\ ordinal' = ordinal /\ attempts' = attempts /\ transitions' = transitions
      /\ RunTypeOK /\ FrontierTypeOK /\ Proven!TypeOK
  BY TypeParts DEF Start, searchVars, journal, IInv
<1>1. setting' \in Setting /\ command' = command /\ jobs' \in Nat \ {0}
  BY <1>0 DEF RunTypeOK, Setting, command
<1>2. Proven!TypeOK'
  BY <1>0, <1>1, SearchStutters
<1>3. RunTypeOK' /\ Fresh'
  BY <1>0, <1>1 DEF RunTypeOK, Fresh
<1>4. FrontierTypeOK' /\ Recorded'
  BY <1>0, FrontierUnchanged DEF FrontierTypeOK, Recorded, IInv
<1>5. TypeOK'
  <2>1. Proven!TypeOK' => (TypeOK' <=> RunTypeOK' /\ FrontierTypeOK')
    BY TypeParts, PTL
  <2> QED
    BY <1>2, <1>3, <1>4, <2>1
<1> QED
  BY <1>0, <1>2, <1>3, <1>4, <1>5, QuietStep DEF journal

LEMMA AskStep == ASSUME SessionAssumption, IInv, Ask PROVE IInv'
<1>0. /\ status = "running" /\ status' = status /\ setting' = setting /\ UNCHANGED searchVars
      /\ ~failed /\ Search!Asking /\ frontier' = Search!Frontier
      /\ answers' = [i \in 1..Len(Search!Frontier) |-> "none"]
      /\ active' = active /\ failed' = failed /\ error' = error /\ jobs' = jobs
      /\ ordinal' = ordinal /\ attempts' = attempts /\ transitions' = transitions
      /\ RunTypeOK /\ FrontierTypeOK /\ Proven!TypeOK
  BY TypeParts DEF Ask, searchVars, journal, IInv
<1>1. Proven!TypeOK'
  BY <1>0, SearchStutters DEF command
<1>2. RunTypeOK' /\ Fresh'
  BY <1>0 DEF RunTypeOK, Fresh
<1>3. FrontierTypeOK' /\ Recorded'
  <2>1. Len(Search!Frontier) \in Nat \ {0}
    BY <1>0, FrontierFacts
  <2>2. FrontierTypeOK'
    BY <1>0, <2>1, FrontierUnchanged DEF FrontierTypeOK
  <2> QED
    BY <1>0, <2>2 DEF Recorded
<1>4. TypeOK'
  <2>1. Proven!TypeOK' => (TypeOK' <=> RunTypeOK' /\ FrontierTypeOK')
    BY TypeParts, PTL
  <2> QED
    BY <1>1, <1>2, <1>3, <2>1
<1> QED
  BY <1>0, <1>1, <1>2, <1>3, <1>4, QuietStep DEF journal

LEMMA AdvanceStep == ASSUME SessionAssumption, IInv, Advance PROVE IInv'
<1>0. /\ status = "running" /\ status' = status /\ setting' = setting /\ Search!Advance
      /\ error' = error /\ jobs' = jobs /\ frontier' = frontier /\ answers' = answers
      /\ ordinal' = ordinal /\ attempts' = attempts /\ transitions' = transitions
      /\ RunTypeOK /\ FrontierTypeOK /\ Proven!TypeOK
  BY TypeParts DEF Advance, journal, IInv
<1>1. Proven!TypeOK' /\ ~Search!Asking /\ active' = active
  BY <1>0, AdvanceType
<1>2. failed' = failed
  BY <1>0 DEF Search!Advance, Search!SkipGroup, Search!StartDdmin, Search!StartSweep, Search!Finish
<1>3. frontier = <<>>
  BY <1>0, <1>1 DEF FrontierTypeOK
<1>4. RunTypeOK' /\ Fresh'
  BY <1>0, <1>2 DEF RunTypeOK, Fresh
<1>5. FrontierTypeOK' /\ Recorded'
  BY <1>0, <1>3 DEF FrontierTypeOK, Recorded
<1>6. TypeOK'
  <2>1. Proven!TypeOK' => (TypeOK' <=> RunTypeOK' /\ FrontierTypeOK')
    BY TypeParts, PTL
  <2> QED
    BY <1>1, <1>4, <1>5, <2>1
<1> QED
  BY <1>0, <1>1, <1>4, <1>5, <1>6, QuietStep DEF journal

LEMMA EndStep == ASSUME SessionAssumption, IInv, End PROVE IInv'
<1>1. CASE Forget /\ UNCHANGED setting
  BY <1>1, ForgetStep DEF IInv, TypeOK
<1>2. CASE ~(Forget /\ UNCHANGED setting)
  <2>0. /\ status = "running" /\ status' = "settled" /\ setting' = setting /\ UNCHANGED searchVars
        /\ active' = active /\ failed' = failed /\ error' = error /\ jobs' = jobs
        /\ frontier' = frontier /\ answers' = answers
        /\ ordinal' = ordinal /\ attempts' = attempts /\ transitions' = transitions
        /\ RunTypeOK /\ FrontierTypeOK /\ Proven!TypeOK
    BY <1>2, TypeParts DEF End, searchVars, journal, IInv
  <2>1. Proven!TypeOK'
    BY <2>0, SearchStutters DEF command
  <2>2. RunTypeOK' /\ Fresh'
    BY <2>0 DEF RunTypeOK, Fresh
  <2>3. FrontierTypeOK' /\ Recorded'
    BY <2>0, FrontierUnchanged DEF FrontierTypeOK, Recorded, IInv
  <2>4. TypeOK'
    <3>1. Proven!TypeOK' => (TypeOK' <=> RunTypeOK' /\ FrontierTypeOK')
      BY TypeParts, PTL
    <3> QED
      BY <2>1, <2>2, <2>3, <3>1
  <2> QED
    BY <2>0, <2>1, <2>2, <2>3, <2>4, QuietStep DEF journal
<1> QED
  BY <1>1, <1>2

(***************************************************************************)
(* The invariant holds.                                                    *)
(***************************************************************************)
LEMMA InitInvariant == ASSUME SessionAssumption, Init PROVE IInv
<1>0. /\ setting \in Setting /\ status = "stopped" /\ error = FALSE /\ jobs = 1 /\ frontier = <<>> /\ answers = <<>>
      /\ ordinal = 0 /\ attempts = Nothing /\ transitions = {}
      /\ stage = "directories" /\ active = Unit /\ group = 1 /\ granularity = 2 /\ position = 0 /\ failed = FALSE
  BY DEF Init, Search!Init, SessionAssumption
<1>1. failed \in BOOLEAN /\ error \in BOOLEAN /\ (failed => error)
  BY <1>0, Zenon
<1>2. Proven!TypeOK
  <2>1. command \in [SUBSET Unit -> SUBSET Proven!Verdict]
    BY <1>0 DEF Setting, command, Candidate, Verdict, Proven!Verdict
  <2>2. 1 \in 1..(Len(Groups) + 1) /\ 2 \in Nat /\ 2 >= 2
    BY DEF SessionAssumption
  <2> QED
    BY <1>0, <1>1, <2>1, <2>2, Zenon DEF Proven!TypeOK
<1>3. RunTypeOK
  BY <1>0, <1>1 DEF RunTypeOK, Nothing
<1>4. FrontierTypeOK /\ Fresh /\ Recorded
  BY <1>0 DEF FrontierTypeOK, Fresh, Recorded
<1>5. IsFiniteSet(transitions) /\ Length = 0
  BY <1>0, FS_EmptySet DEF Length
<1>6. Links /\ OnChain
  BY <1>0, <1>5 DEF Links, OnChain, StandsAt
<1> QED
  BY <1>2, <1>3, <1>4, <1>6, TypeParts DEF IInv

LEMMA Induction == ASSUME SessionAssumption, IInv, [Next]_vars PROVE IInv'
<1>0. /\ setting \in Setting /\ error \in BOOLEAN /\ attempts \in [Candidate -> Verdict \cup {"none"}]
      /\ answers \in [1..Len(frontier) -> Verdict \cup {"none"}]
      /\ RunTypeOK /\ Proven!TypeOK
  BY TypeParts DEF IInv, TypeOK
<1>1. CASE Start
  BY <1>1, StartStep
<1>2. CASE Crash
  BY <1>0, <1>2, ForgetStep, Steadfast DEF Crash
<1>3. CASE Ask
  BY <1>3, AskStep
<1>4. ASSUME NEW i \in 1..Len(frontier), SkipCandidate(i) PROVE IInv'
  <2>1. /\ Startable(i) /\ Give(i, "inconclusive") /\ setting' = setting /\ error' = error /\ attempts' = attempts
        /\ UNCHANGED <<status, searchVars, jobs, frontier, ordinal, transitions>>
    BY <1>4 DEF SkipCandidate, journal
  <2> QED
    BY <1>0, <2>1, GiveStep DEF Verdict, command
<1>5. ASSUME NEW i \in 1..Len(frontier), UseCached(i) PROVE IInv'
  <2>1. /\ Startable(i) /\ Give(i, attempts[frontier[i]]) /\ setting' = setting /\ error' = error
        /\ attempts' = attempts /\ attempts[frontier[i]] \in Verdict
        /\ UNCHANGED <<status, searchVars, jobs, frontier, ordinal, transitions>>
    BY <1>5 DEF UseCached, journal, Conclusive, Verdict
  <2> QED
    BY <1>0, <2>1, GiveStep DEF command
<1>6. ASSUME NEW i \in 1..Len(frontier), RunCandidate(i) PROVE IInv'
  <2>1. PICK verdict \in command[frontier[i]] :
          Give(i, verdict) /\ attempts' = [attempts EXCEPT ![frontier[i]] = verdict]
    BY <1>6 DEF RunCandidate
  <2>2. /\ Startable(i) /\ setting' = setting /\ error' = error /\ attempts[frontier[i]] \notin Conclusive
        /\ UNCHANGED <<status, searchVars, jobs, frontier, ordinal, transitions>>
    BY <1>6 DEF RunCandidate
  <2>3. frontier[i] \in Candidate
    <3>1. frontier = Search!Frontier /\ Search!Asking
      BY <2>2, GivenType DEF IInv, TypeOK
    <3>2. frontier[i] \subseteq active /\ active \subseteq Unit
      BY <1>0, <3>1, FrontierFacts DEF Proven!TypeOK
    <3> QED
      BY <3>2 DEF Candidate
  <2>4. verdict \in Verdict
    BY <1>0, <2>1, <2>3 DEF command, Setting
  <2>5. /\ attempts' \in [Candidate -> Verdict \cup {"none"}]
        /\ \A c \in Candidate : attempts[c] = "preserved" => attempts'[c] = "preserved"
        /\ attempts'[frontier[i]] = verdict
    BY <1>0, <2>1, <2>2, <2>3, <2>4 DEF Conclusive
  <2> QED
    BY <1>0, <2>1, <2>2, <2>4, <2>5, GiveStep DEF command
<1>7. ASSUME NEW i \in 1..Len(frontier), FailCandidate(i) PROVE IInv'
  <2>1. /\ Startable(i) /\ Give(i, "inconclusive") /\ error' = TRUE /\ attempts' = attempts
        /\ setting' \in Setting /\ command' = command
        /\ UNCHANGED <<status, searchVars, jobs, frontier, ordinal, transitions>>
    BY <1>0, <1>7, Steadfast DEF FailCandidate, journal
  <2>2. error' \in BOOLEAN /\ (error => error')
    BY <2>1, Zenon
  <2> QED
    BY <1>0, <2>1, <2>2, GiveStep DEF Verdict
<1>8. ASSUME NEW i \in 1..Len(frontier), Commit(i) PROVE IInv'
  BY <1>8, CommitStep
<1>9. ASSUME Forgo, status = "running", setting' \in Setting PROVE IInv'
  <2>1. Continue(0) /\ error' \in BOOLEAN /\ UNCHANGED <<ordinal, transitions>>
    BY <1>9, Zenon DEF Forgo
  <2> QED
    BY <1>9, <2>1, NoWinnerStep
<1>10. ASSUME NEW i \in 1..Len(frontier), FailCommit(i) \/ Refused(i) PROVE IInv'
  BY <1>0, <1>9, <1>10, Steadfast DEF FailCommit, Refused, Winner, Asked
<1>11. CASE Reject
  BY <1>0, <1>11, NoWinnerStep DEF Reject, NoWinner, Asked
<1>12. CASE Void
  BY <1>0, <1>12, NoWinnerStep DEF Void
<1>13. CASE Advance
  BY <1>13, AdvanceStep
<1>14. CASE End
  BY <1>14, EndStep
<1>15. CASE UNCHANGED vars
  <2>1. /\ UNCHANGED searchVars /\ UNCHANGED <<active, ordinal, journal>>
        /\ setting' = setting /\ status' = status /\ failed' = failed /\ error' = error /\ jobs' = jobs
        /\ frontier' = frontier /\ answers' = answers /\ ordinal' = ordinal
        /\ attempts' = attempts /\ transitions' = transitions /\ active' = active
    BY <1>15 DEF vars, searchVars, journal
  <2>2. Proven!TypeOK'
    BY <1>0, <2>1, SearchStutters DEF command
  <2>3. RunTypeOK' /\ FrontierTypeOK'
    BY <1>0, <2>1, FrontierUnchanged, TypeParts DEF RunTypeOK, FrontierTypeOK, IInv
  <2>4. TypeOK'
    <3>1. Proven!TypeOK' => (TypeOK' <=> RunTypeOK' /\ FrontierTypeOK')
      BY TypeParts, PTL
    <3> QED
      BY <2>2, <2>3, <3>1
  <2>5. Fresh' /\ Recorded'
    BY <2>1 DEF IInv, Fresh, Recorded
  <2> QED
    BY <2>1, <2>2, <2>4, <2>5, QuietStep
<1> QED
  BY <1>1, <1>2, <1>3, <1>4, <1>5, <1>6, <1>7, <1>8, <1>10, <1>11, <1>12, <1>13, <1>14, <1>15
     DEF Next, RunStep, Settled

THEOREM Invariant == Spec => []IInv
<1>1. Init => IInv
  BY InitInvariant, SessionAssumption
<1>2. IInv /\ [Next]_vars => IInv'
  BY Induction, SessionAssumption
<1> QED
  BY <1>1, <1>2, PTL DEF Spec

\* The types of a run and its journal (lib.rs:433-637): what is answered is the
\* frontier that the search asks for.
THEOREM TypeCorrect == Spec => []TypeOK
<1>1. IInv => TypeOK
  BY DEF IInv
<1> QED
  BY <1>1, Invariant, PTL

\* However often runs stop, crash, meet errors or waver, the transitions in the
\* journal are one chain of ever smaller projects that were seen to fail
\* (lib.rs:607-632).
THEOREM ChainAlwaysLinked == Spec => []ChainLinked
<1>1. ASSUME IInv PROVE ChainLinked
  <2>1. {x.ordinal : x \in transitions} = 0..(Length - 1)
    BY <1>1 DEF IInv, Links
  <2>2. ASSUME NEW x \in transitions
        PROVE  /\ x.to \subseteq x.from /\ x.to # x.from /\ attempts[x.to] = "preserved"
               /\ x.from = IF x.ordinal = 0 THEN Unit
                           ELSE (CHOOSE y \in transitions : y.ordinal = x.ordinal - 1).to
    <3>1. /\ x.to \subseteq x.from /\ x.to # x.from /\ attempts[x.to] = "preserved"
          /\ StandsAt(x.ordinal, x.from)
      BY <1>1 DEF IInv, Links
    <3>2. CASE x.ordinal = 0
      BY <3>1, <3>2 DEF StandsAt
    <3>3. CASE x.ordinal # 0
      <4>1. PICK y \in transitions : y.ordinal = x.ordinal - 1 /\ y.to = x.from
        BY <3>1, <3>3 DEF StandsAt
      <4>2. \A z \in transitions : z.ordinal = x.ordinal - 1 => z = y
        BY <1>1, <4>1 DEF IInv, Links
      <4>3. (CHOOSE z \in transitions : z.ordinal = x.ordinal - 1) = y
        BY <4>1, <4>2, Zenon
      <4> QED
        BY <3>1, <3>3, <4>1, <4>3
    <3> QED
      BY <3>2, <3>3, <3>1
  <2> QED
    BY <2>1, <2>2 DEF ChainLinked
<1> QED
  BY <1>1, Invariant, PTL

(***************************************************************************)
(* The way of a steady command.  All runs take the same way through the    *)
(* search, of which the journal has the transitions: a place of it is the  *)
(* state of the search and the ordinal, At(s) the search in place s.  Only *)
(* a frontier of which an error has lost an answer can give the journal a  *)
(* transition off that way, and then no run comes further.                 *)
(***************************************************************************)
At(s) == INSTANCE Reducer
  WITH stage <- s.stage, active <- s.active, group <- s.group, granularity <- s.granularity,
       position <- s.position, failed <- FALSE, outcome <- [c \in Candidate |-> {}], Outcomes <- {}

Place(where, retained, next, parts, unit, n) ==
  [stage |-> where, active |-> retained, group |-> next, granularity |-> parts, position |-> unit, ordinal |-> n]

Here == Place(stage, active, group, granularity, position, ordinal)
Origin == Place("directories", Unit, 1, 2, 0, 0)

LinkAt(s, i) == [ordinal |-> s.ordinal, from |-> s.active, to |-> At(s)!Frontier[i]]

\* The winner of a frontier all of whose candidates are evaluated, or none.
Firsts(s) ==
  {i \in 1..Len(At(s)!Frontier) :
     \A j \in 1..Len(At(s)!Frontier) : j < i => At(s)!Frontier[j] # At(s)!Frontier[i]}
Chosen(cmd, s, i) ==
  /\ i \in Firsts(s)
  /\ cmd[At(s)!Frontier[i]] = {"preserved"}
  /\ \A j \in Firsts(s) : j < i => cmd[At(s)!Frontier[j]] # {"preserved"}
Barren(cmd, s) == \A j \in Firsts(s) : cmd[At(s)!Frontier[j]] # {"preserved"}

\* Where the search goes on when candidate i wins, and without asking.
Onward(s, i) ==
  Place(
    IF s.stage = "ddmin" /\ i = 0 /\ s.granularity >= At(s)!Size THEN "sweep" ELSE s.stage,
    IF i = 0 THEN s.active ELSE At(s)!Frontier[i],
    IF s.stage = "directories" THEN s.group + 1 ELSE s.group,
    CASE s.stage # "ddmin" -> s.granularity
      [] s.stage = "ddmin" /\ i = 0 ->
           IF s.granularity >= At(s)!Size THEN s.granularity ELSE At(s)!Min2(2 * s.granularity, At(s)!Size)
      [] s.stage = "ddmin" /\ i # 0 ->
           IF 2 * i <= Len(At(s)!Frontier) \/ s.granularity <= 3 THEN 2 ELSE s.granularity - 1,
    IF s.stage = "sweep" /\ i # 1 THEN s.position + 1 ELSE s.position,
    IF i = 0 THEN s.ordinal ELSE s.ordinal + 1)

Idle(s) ==
  Place(
    CASE s.stage = "directories" -> IF s.group <= Len(Groups) THEN "directories" ELSE "ddmin"
      [] s.stage = "ddmin" -> "sweep"
      [] OTHER -> "done",
    s.active,
    IF s.stage = "directories" /\ s.group <= Len(Groups) THEN s.group + 1 ELSE s.group,
    s.granularity, s.position, s.ordinal)

Leads(cmd, s, t) ==
  IF At(s)!Asking
  THEN \/ \E i : Chosen(cmd, s, i) /\ t = Onward(s, i)
       \/ Barren(cmd, s) /\ t = Onward(s, 0)
  ELSE s.stage # "done" /\ t = Idle(s)

Walk(cmd, n, w) ==
  /\ w[0] = Origin
  /\ \A k \in 0..n : w[k].ordinal \in Nat
  /\ \A k \in 1..n : Leads(cmd, w[k - 1], w[k])
  /\ \A j, k \in 0..n : j <= k => w[j].ordinal <= w[k].ordinal /\ w[k].active \subseteq w[j].active

\* Where errors meet single workers only, or no steady command.
Calm ==
  \A s \in Settings :
    (\A c \in Candidate : Cardinality(s.command[c]) = 1) => s.jobs = {1} \/ s.errors = 0

\* A transition to a candidate before which a preserved one was lost to an error.
Misled(cmd, s, x) ==
  /\ ~Calm /\ At(s)!Asking
  /\ \E j, k \in Firsts(s) : k < j /\ cmd[At(s)!Frontier[k]] = {"preserved"} /\ x = LinkAt(s, j)

\* The transition from a place of the way.
Taken(cmd, s, x) == At(s)!Asking /\ \E i : Chosen(cmd, s, i) /\ x = LinkAt(s, i)

Journaled(cmd, n, w, links) ==
  /\ \A x : \A k \in 1..n : Taken(cmd, w[k - 1], x) => x \in links
  /\ \A x \in links : (\E k \in 1..n : Taken(cmd, w[k - 1], x)) \/ Misled(cmd, w[n], x)

AllAlike ==
  Steady => \E n \in Nat : \E w :
    /\ Walk(command, n, w)
    /\ Journaled(command, n, w, transitions)
    /\ ~failed => \E m \in 0..n : w[m] = Here

(***************************************************************************)
(* Facts about the way.                                                    *)
(***************************************************************************)
LEMMA ChosenOnce ==
  ASSUME NEW cmd, NEW s, NEW i, NEW j, Chosen(cmd, s, i), Chosen(cmd, s, j)
  PROVE  i = j
<1> DEFINE len == Len(At(s)!Frontier)
<1>1. i \in 1..len /\ j \in 1..len /\ ~(j < i) /\ ~(i < j)
  BY DEF Chosen, Firsts
<1> HIDE DEF len
<1> QED
  BY <1>1

LEMMA OneWay ==
  ASSUME NEW cmd, NEW s, NEW t, NEW u, Leads(cmd, s, t), Leads(cmd, s, u)
  PROVE  t = u
<1>1. \A i : ~(Chosen(cmd, s, i) /\ Barren(cmd, s))
  BY DEF Chosen, Barren
<1> QED
  BY <1>1, ChosenOnce DEF Leads

LEMMA WalkStarts == ASSUME NEW cmd PROVE Walk(cmd, 0, [k \in {0} |-> Origin]) 
<1> DEFINE w == [k \in {0} |-> Origin]
<1>1. w[0] = Origin /\ w[0].ordinal = 0 /\ 0..0 = {0} /\ 1..0 = {}
  BY DEF Origin, Place
<1> HIDE DEF w
<1> QED
  BY <1>1 DEF Walk

\* A step to a place that no run has come to, and what the journal has then.
Further(cmd, s, t, links, more) ==
  /\ Leads(cmd, s, t)
  /\ t.ordinal \in Nat /\ s.ordinal <= t.ordinal /\ t.active \subseteq s.active
  /\ \A x \in links : ~Misled(cmd, s, x)
  /\ \A x : x \in more <=> x \in links \/ Taken(cmd, s, x)

LEMMA WalkExtends ==
  ASSUME NEW cmd, NEW n \in Nat, NEW w, NEW links, NEW more, NEW t,
         Walk(cmd, n, w), Journaled(cmd, n, w, links), Further(cmd, w[n], t, links, more)
  PROVE  \E v : Walk(cmd, n + 1, v) /\ Journaled(cmd, n + 1, v, more) /\ v[n + 1] = t
<1>0. /\ Leads(cmd, w[n], t)
      /\ t.ordinal \in Nat /\ w[n].ordinal <= t.ordinal /\ t.active \subseteq w[n].active
      /\ \A x \in links : ~Misled(cmd, w[n], x)
      /\ \A x : x \in more <=> x \in links \/ Taken(cmd, w[n], x)
  BY DEF Further
<1> DEFINE v == [k \in 0..(n + 1) |-> IF k = n + 1 THEN t ELSE w[k]]
<1>1. v[n + 1] = t /\ \A k \in 0..n : v[k] = w[k]
  OBVIOUS
<1> HIDE DEF v
<1>2. Walk(cmd, n + 1, v)
  <2>1. v[0] = Origin
    BY <1>1 DEF Walk
  <2>2. \A k \in 0..(n + 1) : v[k].ordinal \in Nat
    BY <1>0, <1>1 DEF Walk
  <2>3. ASSUME NEW k \in 1..(n + 1) PROVE Leads(cmd, v[k - 1], v[k])
    <3>1. CASE k = n + 1
      <4>1. v[k - 1] = w[n] /\ v[k] = t
        BY <1>1, <3>1
      <4> QED
        BY <1>0, <4>1
    <3>2. CASE k # n + 1
      <4>1. v[k - 1] = w[k - 1] /\ v[k] = w[k] /\ k \in 1..n
        BY <1>1, <3>2
      <4> QED
        BY <4>1 DEF Walk
    <3> QED
      BY <3>1, <3>2
  <2>4. ASSUME NEW j \in 0..(n + 1), NEW k \in 0..(n + 1), j <= k
        PROVE  v[j].ordinal <= v[k].ordinal /\ v[k].active \subseteq v[j].active
    <3>1. CASE k \in 0..n
      BY <1>1, <2>4, <3>1 DEF Walk
    <3>2. CASE k = n + 1 /\ j = n + 1
      BY <1>0, <1>1, <3>2
    <3>3. CASE k = n + 1 /\ j \in 0..n
      <4>1. w[j].ordinal <= w[n].ordinal /\ w[n].active \subseteq w[j].active
            /\ w[j].ordinal \in Nat /\ w[n].ordinal \in Nat
        BY <3>3 DEF Walk
      <4>2. v[k] = t /\ v[j] = w[j]
        BY <1>1, <3>3
      <4> QED
        BY <1>0, <4>1, <4>2
    <3> QED
      BY <2>4, <3>1, <3>2, <3>3
  <2> QED
    BY <2>1, <2>2, <2>3, <2>4 DEF Walk
<1>3. Journaled(cmd, n + 1, v, more)
  <2>1. \A k \in 1..n : v[k - 1] = w[k - 1]
    BY <1>1
  <2>2. v[(n + 1) - 1] = w[n] /\ n + 1 \in 1..(n + 1)
    BY <1>1
  <2>3. \A k \in 1..(n + 1) : k = n + 1 \/ k \in 1..n
    OBVIOUS
  <2>4. \A k \in 1..n : k \in 1..(n + 1)
    OBVIOUS
  <2>5. ASSUME NEW k \in 1..(n + 1), NEW x, Taken(cmd, v[k - 1], x) PROVE x \in more
    <3>1. CASE k = n + 1
      BY <1>0, <2>2, <2>5, <3>1
    <3>2. CASE k \in 1..n
      BY <1>0, <2>1, <2>5, <3>2 DEF Journaled
    <3> QED
      BY <2>3, <3>1, <3>2
  <2>6. ASSUME NEW x \in more PROVE \E k \in 1..(n + 1) : Taken(cmd, v[k - 1], x)
    <3>1. CASE Taken(cmd, w[n], x)
      BY <2>2, <3>1
    <3>2. CASE x \in links
      BY <1>0, <2>1, <2>4, <3>2 DEF Journaled
    <3> QED
      BY <1>0, <3>1, <3>2
  <2> QED
    BY <2>5, <2>6, Zenon DEF Journaled
<1> QED
  BY <1>1, <1>2, <1>3

(***************************************************************************)
(* The search of the model, as a place.                                    *)
(***************************************************************************)
LEMMA AtCardinality == ASSUME NEW s, NEW S PROVE At(s)!Cardinality(S) = Search!Cardinality(S)
BY Zenon DEF At!Cardinality, Search!Cardinality

LEMMA HereFrontier ==
  /\ At(Here)!Size = Search!Size
  /\ At(Here)!Frontier = Search!Frontier
  /\ At(Here)!Asking <=> Search!Asking
<1>0. /\ Here.stage = stage /\ Here.active = active /\ Here.group = group
      /\ Here.granularity = granularity /\ Here.position = position
  BY DEF Here, Place
<1>1. At(Here)!Size = Search!Size
  BY <1>0, AtCardinality DEF At!Size, Search!Size
<1>2. \A u : At(Here)!Position(u) = Search!Position(u)
  BY <1>0, AtCardinality DEF At!Position, Search!Position
<1>3. At(Here)!ChunkSize = Search!ChunkSize /\ At(Here)!Parts = Search!Parts
  BY <1>0, <1>1 DEF At!Parts, Search!Parts, At!ChunkSize, Search!ChunkSize, At!CeilDiv, Search!CeilDiv
<1>4. \A i : At(Here)!Part(i) = Search!Part(i)
  BY <1>0, <1>2, <1>3 DEF At!Part, Search!Part
<1>5. At(Here)!OrderedFrontier = Search!OrderedFrontier
  BY <1>0, <1>3, <1>4 DEF At!OrderedFrontier, Search!OrderedFrontier
<1>6. At(Here)!WithoutGroup = Search!WithoutGroup /\ At(Here)!WithoutPosition = Search!WithoutPosition
  BY <1>0, <1>2 DEF At!WithoutGroup, Search!WithoutGroup, At!WithoutPosition, Search!WithoutPosition
<1>7. At(Here)!Frontier = Search!Frontier
  BY <1>0, <1>5, <1>6 DEF At!Frontier, Search!Frontier
<1>8. At(Here)!Asking <=> Search!Asking
  BY <1>0, <1>1, <1>6 DEF At!Asking, Search!Asking
<1> QED
  BY <1>1, <1>7, <1>8

\* What the search does with an answer and without one, as steps from place to place.
LEMMA AnswerLeads ==
  ASSUME SessionAssumption, Proven!TypeOK, NEW i, i \in 0..Len(Search!Frontier), Search!Answered(i),
         ordinal' = IF i = 0 THEN ordinal ELSE ordinal + 1
  PROVE  Here' = Onward(Here, i)
<1>0. /\ Here.stage = stage /\ Here.active = active /\ Here.group = group
      /\ Here.granularity = granularity /\ Here.position = position /\ Here.ordinal = ordinal
      /\ Here' = Place(stage', active', group', granularity', position', ordinal')
  BY DEF Here, Place
<1>1. /\ At(Here)!Size = Search!Size /\ At(Here)!Frontier = Search!Frontier
      /\ \A a, b : At(Here)!Min2(a, b) = Search!Min2(a, b)
  BY HereFrontier DEF At!Min2, Search!Min2
<1>2. active' = IF i = 0 THEN active ELSE Search!Frontier[i]
  BY AnswerMoves
<1>3. i \in Nat /\ granularity \in Nat
  <2>1. Len(Search!Frontier) \in Nat
    BY AnswerMoves, FrontierFacts
  <2> QED
    BY <2>1 DEF Proven!TypeOK
<1>4. CASE Search!TryGroup(i)
  BY <1>0, <1>1, <1>2, <1>4 DEF Search!TryGroup, Onward
<1>5. CASE Search!AcceptCandidate(i)
  BY <1>0, <1>1, <1>2, <1>5 DEF Search!AcceptCandidate, Onward
<1>6. CASE Search!RefinePartition(i)
  BY <1>0, <1>1, <1>2, <1>6 DEF Search!RefinePartition, Onward
<1>7. CASE Search!SweepUnit(i)
  BY <1>0, <1>1, <1>2, <1>7 DEF Search!SweepUnit, Onward
<1> QED
  BY <1>4, <1>5, <1>6, <1>7 DEF Search!Answered

LEMMA AdvanceLeads ==
  ASSUME SessionAssumption, Proven!TypeOK, Search!Advance, ordinal' = ordinal
  PROVE  stage # "done" /\ Here' = Idle(Here) /\ ~At(Here)!Asking
<1>0. /\ Here.stage = stage /\ Here.active = active /\ Here.group = group
      /\ Here.granularity = granularity /\ Here.position = position /\ Here.ordinal = ordinal
      /\ Here' = Place(stage', active', group', granularity', position', ordinal')
  BY DEF Here, Place
<1>1. ~At(Here)!Asking
  BY AdvanceType, HereFrontier
<1>2. group \in Nat /\ Len(Groups) \in Nat
  BY DEF Proven!TypeOK, SessionAssumption
<1>3. CASE Search!SkipGroup
  BY <1>0, <1>1, <1>3 DEF Search!SkipGroup, Idle
<1>4. CASE Search!StartDdmin
  BY <1>0, <1>1, <1>2, <1>4 DEF Search!StartDdmin, Idle
<1>5. CASE Search!StartSweep
  BY <1>0, <1>1, <1>5 DEF Search!StartSweep, Idle
<1>6. CASE Search!Finish
  BY <1>0, <1>1, <1>6 DEF Search!Finish, Idle
<1> QED
  BY <1>3, <1>4, <1>5, <1>6 DEF Search!Advance

(***************************************************************************)
(* The invariant of the answers.  With one worker a preserved candidate    *)
(* has only answers of its command before it; settings whose errors meet   *)
(* single workers only, and a steady command, never lose another.          *)
(***************************************************************************)
Honest == \A c \in Candidate : attempts[c] # "none" => attempts[c] \in command[c]

Faithful ==
  \A i \in 1..Len(frontier) :
    answers[i] \in command[frontier[i]] \cup {"none"} \/ (error /\ answers[i] = "inconclusive")

InOrder ==
  jobs = 1 =>
    \A i \in Planned : answers[i] = "preserved" =>
      \A j \in Before(i) : answers[j] \in command[frontier[j]]

Alone == setting.jobs = {1} => jobs = 1

Patient == Calm /\ Steady => setting.jobs = {1} \/ (setting.errors = 0 /\ ~error)

Ended == status = "settled" => stage = "done" /\ ~error

Answers == Honest /\ Faithful /\ InOrder /\ Alone /\ Ended

Course == Answers /\ Patient /\ AllAlike /\ Proven!SweepSettled

SearchInv == IInv /\ Course

LEMMA NoAnswers == ASSUME frontier' = <<>> PROVE Faithful' /\ InOrder'
<1>1. Len(frontier') = 0 /\ 1..0 = {}
  OBVIOUS
<1> QED
  BY <1>1 DEF Faithful, InOrder, Planned

LEMMA SteadyVerdict ==
  ASSUME Steady, setting \in Setting, NEW c \in Candidate
  PROVE  \E v : command[c] = {v}
<1>1. command[c] \subseteq Verdict /\ Cardinality(command[c]) = 1
  BY DEF Steady, Setting, command
<1>2. IsFiniteSet(Verdict)
  <2>1. IsFiniteSet({"preserved"})
    BY FS_Singleton
  <2>2. IsFiniteSet({"preserved"} \cup {"rejected"})
    BY <2>1, FS_AddElement
  <2>3. IsFiniteSet(({"preserved"} \cup {"rejected"}) \cup {"inconclusive"})
    BY <2>2, FS_AddElement
  <2>4. Verdict = ({"preserved"} \cup {"rejected"}) \cup {"inconclusive"}
    BY DEF Verdict
  <2> QED
    BY <2>3, <2>4
<1>3. IsFiniteSet(command[c])
  BY <1>1, <1>2, FS_Subset
<1> QED
  BY <1>1, <1>3, FS_Singleton

LEMMA FrontierCandidates ==
  ASSUME SessionAssumption, IInv, frontier # <<>>
  PROVE  /\ frontier = Search!Frontier /\ Search!Asking /\ ~failed /\ Len(frontier) \in Nat
         /\ \A i \in 1..Len(frontier) :
              frontier[i] \in Candidate /\ frontier[i] \subseteq active /\ frontier[i] # active
<1>1. frontier = Search!Frontier /\ Search!Asking /\ ~failed /\ Proven!TypeOK
  BY DEF IInv, TypeOK
<1>2. /\ Len(frontier) \in Nat
      /\ \A i \in 1..Len(frontier) : frontier[i] \subseteq active /\ frontier[i] # active
  BY <1>1, FrontierFacts
<1> QED
  BY <1>1, <1>2 DEF Candidate, Proven!TypeOK

\* The winner was seen to fail, and no planned candidate before it always
\* does, unless an error has lost its answer.
LEMMA WinnerFits ==
  ASSUME SessionAssumption, IInv, Answers, NEW i, Winner(i)
  PROVE  /\ i \in Planned /\ frontier # <<>> /\ "preserved" \in command[frontier[i]]
         /\ ~error \/ jobs = 1 => \A j \in Before(i) : command[frontier[j]] # {"preserved"}
<1>1. /\ frontier # <<>> /\ i \in Planned /\ i \in 1..Len(frontier) /\ answers[i] = "preserved"
      /\ \A j \in Before(i) : j \in 1..Len(frontier) /\ j \in Planned /\ j < i /\ answers[j] # "none"
  BY DEF Winner, Asked, PreservedRanks, Waiting, Before, Planned
<1>2. "preserved" \in command[frontier[i]]
  BY <1>1 DEF Answers, Faithful
<1>3. ASSUME ~error \/ jobs = 1, NEW j \in Before(i) PROVE command[frontier[j]] # {"preserved"}
  <2>1. answers[j] \in command[frontier[j]]
    BY <1>1, <1>3 DEF Answers, Faithful, InOrder
  <2>2. answers[j] # "preserved"
    <3>1. i \in Nat /\ j \in Nat /\ j < i
      BY <1>1, <1>3
    <3>2. j \notin PreservedRanks
      BY <3>1 DEF Winner
    <3> QED
      BY <1>1, <1>3, <3>2 DEF PreservedRanks
  <2> QED
    BY <2>1, <2>2
<1> QED
  BY <1>1, <1>2, <1>3

LEMMA PlannedFirsts ==
  ASSUME SessionAssumption, IInv, frontier # <<>>
  PROVE  /\ Firsts(Here) = Planned /\ At(Here)!Frontier = frontier /\ At(Here)!Asking
         /\ \A i : LinkAt(Here, i) = Link(i)
BY FrontierCandidates, HereFrontier DEF Firsts, Planned, LinkAt, Link, Here, Place

(***************************************************************************)
(* Answers to candidates.                                                  *)
(***************************************************************************)
LEMMA WaitsForAll ==
  ASSUME NEW i, Startable(i), jobs = 1
  PROVE  \A j \in Before(i) : answers[j] # "none"
<1>1. IsFiniteSet(Waiting(i))
  <2>1. Waiting(i) \in SUBSET (1..Len(frontier)) /\ 1 \in Int /\ Len(frontier) \in Int
    BY DEF Waiting, Before, Planned
  <2> QED
    BY <2>1, FS_Interval, FS_Subset
<1>2. Cardinality(Waiting(i)) \in Nat
  BY <1>1, FS_CardinalityType
<1>3. Cardinality(Waiting(i)) = 0
  BY <1>2 DEF Startable
<1>4. Waiting(i) = {}
  BY <1>1, <1>3, FS_EmptySet
<1> QED
  BY <1>4 DEF Waiting

LEMMA GiveAnswers ==
  ASSUME SessionAssumption, IInv, Answers, NEW i, Startable(i), NEW verdict, Give(i, verdict),
         UNCHANGED <<status, searchVars, jobs, frontier>>,
         command' = command, setting'.jobs = setting.jobs, error' \in BOOLEAN, error => error',
         \/ ~error /\ verdict \in command[frontier[i]]
         \/ error' /\ verdict = "inconclusive",
         Honest'
  PROVE  Answers'
<1>0. /\ status = "running" /\ status' = status /\ jobs' = jobs /\ frontier' = frontier /\ frontier # <<>>
      /\ answers' = [answers EXCEPT ![i] = verdict] /\ answers[i] = "none" /\ i \in Planned
      /\ answers \in [1..Len(frontier) -> Verdict \cup {"none"}] /\ i \in 1..Len(frontier)
      /\ Planned' = Planned /\ \A j : Before(j)' = Before(j)
  BY DEF Give, Startable, Asked, Planned, Before, IInv, TypeOK
<1>1. /\ answers'[i] = verdict
      /\ \A j \in 1..Len(frontier) : j # i => answers'[j] = answers[j]
  BY <1>0
<1>2. Faithful'
  <2> SUFFICES ASSUME NEW j \in 1..Len(frontier)
               PROVE  \/ answers'[j] \in command[frontier[j]] \cup {"none"}
                      \/ error' /\ answers'[j] = "inconclusive"
    BY <1>0 DEF Faithful
  <2> QED
    BY <1>1 DEF Answers, Faithful
<1>3. InOrder'
  <2> SUFFICES ASSUME jobs = 1, NEW p \in Planned, answers'[p] = "preserved", NEW j \in Before(p)
               PROVE  answers'[j] \in command[frontier[j]]
    BY <1>0 DEF InOrder
  <2>1. p \in 1..Len(frontier) /\ j \in 1..Len(frontier) /\ j \in Planned /\ j < p
    BY DEF Before, Planned
  <2>2. CASE p = i
    <3>1. j # i /\ answers[j] # "none" /\ ~error
      BY <1>1, <2>1, <2>2, WaitsForAll
    <3> QED
      BY <1>1, <2>1, <3>1 DEF Answers, Faithful
  <2>3. CASE p # i
    <3>1. answers[j] \in command[frontier[j]]
      BY <1>1, <2>1, <2>3 DEF Answers, InOrder
    <3>2. command[frontier[j]] \subseteq Verdict
      BY <1>0, <2>1, FrontierCandidates DEF IInv, TypeOK, Setting, command
    <3>3. j # i
      BY <1>0, <3>1, <3>2 DEF Verdict
    <3> QED
      BY <1>1, <2>1, <3>1, <3>3
  <2> QED
    BY <2>2, <2>3
<1>4. Alone' /\ Ended'
  BY <1>0 DEF Answers, Alone, Ended
<1> QED
  BY <1>2, <1>3, <1>4 DEF Answers

(***************************************************************************)
(* Steps along the way.                                                    *)
(***************************************************************************)
LEMMA HereFields ==
  /\ Here.ordinal = ordinal /\ Here.active = active /\ Here.stage = stage
  /\ UNCHANGED <<searchVars, ordinal>> => Here' = Here
BY DEF Here, Place, searchVars

LEMMA AlikeStays ==
  ASSUME AllAlike, transitions' = transitions, command' = command,
         failed' \/ (~failed /\ Here' = Here)
  PROVE  AllAlike'
<1> SUFFICES ASSUME Steady'
             PROVE  \E n \in Nat : \E w :
                      /\ Walk(command, n, w)
                      /\ Journaled(command, n, w, transitions)
                      /\ ~failed' => \E m \in 0..n : w[m] = Here'
  BY DEF AllAlike
<1>1. Steady
  BY DEF Steady
<1>2. PICK n \in Nat : \E w :
        /\ Walk(command, n, w)
        /\ Journaled(command, n, w, transitions)
        /\ ~failed => \E m \in 0..n : w[m] = Here
  BY <1>1 DEF AllAlike
<1>3. PICK w :
        /\ Walk(command, n, w)
        /\ Journaled(command, n, w, transitions)
        /\ ~failed => \E m \in 0..n : w[m] = Here
  BY <1>2
<1> QED
  BY <1>3

LEMMA AlikeAgain ==
  ASSUME AllAlike, transitions' = transitions, command' = command, Here' = Origin
  PROVE  AllAlike'
<1> SUFFICES ASSUME Steady'
             PROVE  \E n \in Nat : \E w :
                      /\ Walk(command, n, w)
                      /\ Journaled(command, n, w, transitions)
                      /\ ~failed' => \E m \in 0..n : w[m] = Here'
  BY DEF AllAlike
<1>1. Steady
  BY DEF Steady
<1>2. PICK n \in Nat : \E w : Walk(command, n, w) /\ Journaled(command, n, w, transitions)
  BY <1>1 DEF AllAlike
<1>3. PICK w : Walk(command, n, w) /\ Journaled(command, n, w, transitions)
  BY <1>2
<1>4. w[0] = Here' /\ 0 \in 0..n
  BY <1>3 DEF Walk
<1> QED
  BY <1>3, <1>4

LEMMA AlikeGoesOn ==
  ASSUME NEW n \in Nat, NEW w, Walk(command, n, w), Journaled(command, n, w, transitions),
         NEW m \in 0..n, w[m] = Here, Leads(command, Here, Here'),
         ordinal \in Nat, ordinal' \in Nat, ordinal <= ordinal', active' \subseteq active, command' = command,
         \/ m < n /\ transitions' = transitions
         \/ /\ m = n
            /\ \A x \in transitions : ~Misled(command, Here, x)
            /\ \A x : x \in transitions' <=> x \in transitions \/ Taken(command, Here, x)
  PROVE  AllAlike'
<1>1. CASE m < n /\ transitions' = transitions
  <2>1. m + 1 \in 1..n /\ m + 1 \in 0..n /\ (m + 1) - 1 = m
    BY <1>1
  <2>2. Leads(command, Here, w[m + 1])
    BY <2>1 DEF Walk
  <2>3. w[m + 1] = Here'
    BY <2>2, OneWay
  <2> QED
    BY <1>1, <2>1, <2>3 DEF AllAlike
<1>2. CASE /\ m = n
           /\ \A x \in transitions : ~Misled(command, Here, x)
           /\ \A x : x \in transitions' <=> x \in transitions \/ Taken(command, Here, x)
  <2>1. w[n] = Here /\ Here'.ordinal = ordinal' /\ Here'.active = active'
    BY <1>2 DEF Here, Place
  <2>2. Further(command, w[n], Here', transitions, transitions')
    BY <1>2, <2>1, HereFields DEF Further
  <2>3. PICK v : Walk(command, n + 1, v) /\ Journaled(command, n + 1, v, transitions') /\ v[n + 1] = Here'
    <3>1. ASSUME NEW t, NEW more, Further(command, w[n], t, transitions, more)
          PROVE  \E v : Walk(command, n + 1, v) /\ Journaled(command, n + 1, v, more) /\ v[n + 1] = t
      BY <3>1, WalkExtends
    <3> QED
      BY <2>2, <3>1
  <2>4. n + 1 \in Nat /\ n + 1 \in 0..(n + 1)
    OBVIOUS
  <2> QED
    BY <2>3, <2>4 DEF AllAlike
<1> QED
  BY <1>1, <1>2

\* A step that asks for nothing, or that finds nothing in a frontier.
LEMMA AlikeQuiet ==
  ASSUME AllAlike, ~failed, transitions' = transitions, command' = command,
         Leads(command, Here, Here'), \A x : ~Taken(command, Here, x) /\ ~Misled(command, Here, x),
         ordinal \in Nat, ordinal' = ordinal, active' = active
  PROVE  AllAlike'
<1>1. CASE Steady
  <2>1. PICK n \in Nat : \E w :
          /\ Walk(command, n, w)
          /\ Journaled(command, n, w, transitions)
          /\ ~failed => \E m \in 0..n : w[m] = Here
    BY <1>1 DEF AllAlike
  <2>2. PICK w :
          /\ Walk(command, n, w)
          /\ Journaled(command, n, w, transitions)
          /\ ~failed => \E m \in 0..n : w[m] = Here
    BY <2>1
  <2>3. PICK m \in 0..n : w[m] = Here
    BY <2>2
  <2>4. ordinal <= ordinal' /\ (m < n \/ m = n)
    OBVIOUS
  <2> QED
    BY <2>2, <2>3, <2>4, AlikeGoesOn
<1>2. CASE ~Steady
  BY <1>2 DEF AllAlike, Steady
<1> QED
  BY <1>1, <1>2

LEMMA AlikeCommit ==
  ASSUME SessionAssumption, IInv, Answers, Patient, AllAlike, NEW i \in 1..Len(frontier), Commit(i)
  PROVE  AllAlike'
<1>0. /\ Winner(i) /\ Insertable(Link(i)) /\ transitions' = transitions \cup {Link(i)} /\ ordinal' = ordinal + 1
      /\ setting' = setting /\ command' = command /\ failed' = error /\ Search!Answered(i)
      /\ setting \in Setting /\ Proven!TypeOK /\ ordinal \in Nat
  BY DEF Commit, Continue, command, IInv, TypeOK
<1>1. CASE ~Steady
  BY <1>0, <1>1 DEF AllAlike, Steady
<1>2. CASE Steady
  <2>1. /\ i \in Planned /\ frontier # <<>> /\ "preserved" \in command[frontier[i]]
        /\ ~error \/ jobs = 1 => \A j \in Before(i) : command[frontier[j]] # {"preserved"}
    BY <1>0, WinnerFits
  <2>2. /\ frontier = Search!Frontier /\ ~failed /\ Len(frontier) \in Nat
        /\ \A j \in 1..Len(frontier) : frontier[j] \in Candidate
        /\ frontier[i] \subseteq active
    BY <2>1, FrontierCandidates
  <2>3. /\ Firsts(Here) = Planned /\ At(Here)!Frontier = frontier /\ At(Here)!Asking
        /\ \A j : LinkAt(Here, j) = Link(j)
    BY <2>1, PlannedFirsts
  <2>4. command[frontier[i]] = {"preserved"}
    BY <1>0, <1>2, <2>1, <2>2, SteadyVerdict
  <2>5. PICK n \in Nat : \E w :
          /\ Walk(command, n, w)
          /\ Journaled(command, n, w, transitions)
          /\ ~failed => \E m \in 0..n : w[m] = Here
    BY <1>2 DEF AllAlike
  <2>6. PICK w :
          /\ Walk(command, n, w)
          /\ Journaled(command, n, w, transitions)
          /\ ~failed => \E m \in 0..n : w[m] = Here
    BY <2>5
  <2>7. PICK m \in 0..n : w[m] = Here
    BY <2>2, <2>6
  <2>8. \A j \in Planned : frontier[j] = frontier[i] => j = i
    <3>1. \A j \in Planned : j \in 1..Len(frontier) /\ \A k \in 1..Len(frontier) : k < j => frontier[k] # frontier[j]
      BY DEF Planned
    <3> QED
      BY <2>1, <3>1
  <2>9. \A j \in Planned : Link(j).ordinal = ordinal /\ Link(j).to = frontier[j]
    BY DEF Link
  <2>10. \A x \in transitions : x.ordinal = ordinal => x = Link(i)
    BY <1>0, <2>1, <2>9 DEF Insertable
  <2>11. m < n => /\ Leads(command, Here, w[m + 1])
                  /\ \A x : Taken(command, Here, x) => x \in transitions
    <3>1. m < n => m + 1 \in 1..n /\ (m + 1) - 1 = m
      OBVIOUS
    <3> QED
      BY <2>6, <2>7, <3>1 DEF Walk, Journaled
  <2>12. CASE \A j \in Before(i) : command[frontier[j]] # {"preserved"}
    <3>1. Chosen(command, Here, i)
      BY <2>1, <2>3, <2>4, <2>12 DEF Chosen, Before
    <3>2. Leads(command, Here, Here')
      <4>1. i \in 0..Len(Search!Frontier) /\ i # 0
        BY <2>2
      <4>2. Here' = Onward(Here, i)
        BY <1>0, <4>1, AnswerLeads
      <4> QED
        BY <2>3, <3>1, <4>2 DEF Leads
    <3>3. \A x : Taken(command, Here, x) <=> x = Link(i)
      BY <2>3, <3>1, ChosenOnce DEF Taken
    <3>4. active' \subseteq active
      BY <1>0, <2>2, AnswerMoves
    <3>5. ordinal' \in Nat /\ ordinal <= ordinal'
      BY <1>0
    <3>6. CASE m < n
      <4>1. transitions' = transitions
        BY <1>0, <2>11, <3>3, <3>6
      <4> QED
        BY <1>0, <2>6, <2>7, <3>2, <3>4, <3>5, <3>6, <4>1, AlikeGoesOn
    <3>7. CASE m = n
      <4>1. ASSUME NEW x \in transitions, Misled(command, Here, x) PROVE FALSE
        <5>1. PICK j \in Planned, k \in Planned :
                k < j /\ command[frontier[k]] = {"preserved"} /\ x = Link(j)
          BY <2>3, <4>1 DEF Misled
        <5>2. j = i
          BY <2>8, <2>9, <2>10, <2>1, <5>1
        <5> QED
          BY <2>12, <5>1, <5>2 DEF Before
      <4>2. \A x : x \in transitions' <=> x \in transitions \/ Taken(command, Here, x)
        BY <1>0, <3>3
      <4> QED
        BY <1>0, <2>6, <2>7, <3>2, <3>4, <3>5, <3>7, <4>1, <4>2, AlikeGoesOn
    <3> QED
      BY <3>6, <3>7
  <2>13. CASE ~\A j \in Before(i) : command[frontier[j]] # {"preserved"}
    <3>1. PICK k \in Planned : k < i /\ command[frontier[k]] = {"preserved"}
      BY <2>13 DEF Before
    <3>2. error /\ jobs # 1
      BY <2>1, <2>13
    <3>3. ~Calm
      BY <1>2, <3>2 DEF Patient, Answers, Alone
    <3>4. Misled(command, Here, Link(i))
      BY <2>1, <2>3, <3>1, <3>3 DEF Misled
    <3>5. m = n
      <4> SUFFICES ASSUME m < n PROVE FALSE
        BY <2>7
      <4>1. CASE Barren(command, Here)
        BY <2>3, <3>1, <4>1 DEF Barren
      <4>2. ASSUME NEW l, Chosen(command, Here, l) PROVE FALSE
        <5>1. l \in Planned /\ ~(k < l) /\ k \in Nat /\ l \in Nat /\ i \in Nat
          BY <2>3, <3>1, <4>2 DEF Chosen, Planned
        <5>2. Link(l) \in transitions
          BY <2>3, <2>11, <4>2 DEF Taken
        <5>3. l = i
          BY <2>1, <2>8, <2>9, <2>10, <5>1, <5>2
        <5> QED
          BY <3>1, <5>1, <5>3
      <4> QED
        BY <2>3, <2>11, <4>1, <4>2 DEF Leads
    <3>6. Journaled(command, n, w, transitions')
      BY <1>0, <2>6, <2>7, <3>4, <3>5 DEF Journaled
    <3>7. failed'
      BY <1>0, <3>2
    <3> QED
      BY <1>0, <2>6, <3>6, <3>7 DEF AllAlike
  <2> QED
    BY <2>12, <2>13
<1> QED
  BY <1>1, <1>2

(***************************************************************************)
(* What the way says of the journal.                                       *)
(***************************************************************************)
LEMMA TakenAt ==
  ASSUME NEW cmd, NEW n \in Nat, NEW w, Walk(cmd, n, w), NEW k \in 1..n, NEW x, Taken(cmd, w[k - 1], x)
  PROVE  /\ x.ordinal = w[k - 1].ordinal /\ x.ordinal \in Nat /\ x.from = w[k - 1].active
         /\ x.to = w[k].active /\ w[k].ordinal = x.ordinal + 1
<1>1. PICK i : Chosen(cmd, w[k - 1], i) /\ x = LinkAt(w[k - 1], i)
  BY DEF Taken
<1>2. At(w[k - 1])!Asking /\ Leads(cmd, w[k - 1], w[k]) /\ ~Barren(cmd, w[k - 1])
  BY <1>1 DEF Taken, Walk, Chosen, Barren
<1>3. w[k] = Onward(w[k - 1], i)
  BY <1>1, <1>2, ChosenOnce DEF Leads
<1>4. i # 0
  BY <1>1 DEF Chosen, Firsts
<1>5. w[k].active = At(w[k - 1])!Frontier[i] /\ w[k].ordinal = w[k - 1].ordinal + 1
  BY <1>3, <1>4 DEF Onward, Place
<1>6. k - 1 \in 0..n
  OBVIOUS
<1> QED
  BY <1>1, <1>5, <1>6 DEF LinkAt, Walk

LEMMA ReplaysInCalm ==
  ASSUME SessionAssumption, IInv, Answers, Patient, AllAlike, Calm
  PROVE  SteadyReplays
<1> SUFFICES ASSUME Steady, NEW i \in 1..Len(frontier), Winner(i) PROVE Insertable(Link(i))
  BY DEF SteadyReplays, ReplaysTheChain
<1>1. ~error \/ jobs = 1
  BY DEF Patient, Answers, Alone
<1>2. /\ i \in Planned /\ frontier # <<>> /\ "preserved" \in command[frontier[i]]
      /\ \A j \in Before(i) : command[frontier[j]] # {"preserved"}
  BY <1>1, WinnerFits
<1>3. /\ ~failed /\ frontier[i] \in Candidate /\ frontier[i] \subseteq active /\ frontier[i] # active
      /\ setting \in Setting
  BY <1>2, FrontierCandidates DEF IInv, TypeOK
<1>4. /\ Firsts(Here) = Planned /\ At(Here)!Frontier = frontier /\ At(Here)!Asking
      /\ \A j : LinkAt(Here, j) = Link(j)
  BY <1>2, PlannedFirsts
<1>5. command[frontier[i]] = {"preserved"}
  BY <1>2, <1>3, SteadyVerdict
<1>6. Chosen(command, Here, i) /\ Taken(command, Here, Link(i))
  BY <1>2, <1>4, <1>5 DEF Chosen, Before, Taken
<1>7. PICK n \in Nat : \E w :
        /\ Walk(command, n, w)
        /\ Journaled(command, n, w, transitions)
        /\ ~failed => \E m \in 0..n : w[m] = Here
  BY DEF AllAlike
<1>8. PICK w :
        /\ Walk(command, n, w)
        /\ Journaled(command, n, w, transitions)
        /\ ~failed => \E m \in 0..n : w[m] = Here
  BY <1>7
<1>9. PICK m \in 0..n : w[m] = Here
  BY <1>3, <1>8
<1>10. /\ Link(i).ordinal = w[m].ordinal /\ Link(i).to = frontier[i]
       /\ frontier[i] \subseteq w[m].active /\ frontier[i] # w[m].active
  BY <1>3, <1>9, HereFields DEF Link
<1>11. ASSUME NEW x \in transitions
       PROVE  IF x.ordinal = Link(i).ordinal THEN x = Link(i) ELSE x.to # Link(i).to
  <2>1. PICK k \in 1..n : Taken(command, w[k - 1], x)
    BY <1>8 DEF Journaled, Misled
  <2>2. /\ x.ordinal = w[k - 1].ordinal /\ x.ordinal \in Nat /\ x.from = w[k - 1].active
        /\ x.to = w[k].active /\ w[k].ordinal = x.ordinal + 1
    BY <1>8, <2>1, TakenAt
  <2>3. /\ k \in 0..n /\ k - 1 \in 0..n /\ w[m].ordinal \in Nat
        /\ \A p, q \in 0..n : p <= q => w[p].ordinal <= w[q].ordinal /\ w[q].active \subseteq w[p].active
    BY <1>8 DEF Walk
  <2>4. CASE k - 1 = m
    BY <1>4, <1>6, <1>9, <2>1, <2>4, ChosenOnce DEF Taken
  <2>5. CASE k <= m
    <3>1. w[k].ordinal <= w[m].ordinal /\ w[m].active \subseteq w[k].active
      BY <2>3, <2>5
    <3>2. x.ordinal # Link(i).ordinal
      BY <1>10, <2>2, <2>3, <3>1
    <3>3. x.to # Link(i).to
      BY <1>10, <2>2, <3>1
    <3> QED
      BY <3>2, <3>3
  <2>6. CASE m + 1 <= k - 1
    <3>1. m + 1 \in 1..n /\ m + 1 \in 0..n /\ (m + 1) - 1 = m
      BY <2>3, <2>6
    <3>2. Link(i).to = w[m + 1].active /\ w[m + 1].ordinal = Link(i).ordinal + 1 /\ Link(i).ordinal \in Nat
      <4>1. ASSUME NEW q \in 1..n, q = m + 1
            PROVE  Link(i).to = w[q].active /\ w[q].ordinal = Link(i).ordinal + 1 /\ Link(i).ordinal \in Nat
        <5>1. Taken(command, w[q - 1], Link(i))
          BY <1>6, <1>9, <4>1
        <5> QED
          BY <1>8, <5>1, TakenAt
      <4> QED
        BY <3>1, <4>1
    <3>3. w[m + 1].ordinal <= w[k - 1].ordinal /\ w[k - 1].active \subseteq w[m + 1].active
      BY <2>3, <2>6, <3>1
    <3>4. x.ordinal # Link(i).ordinal
      BY <2>2, <3>2, <3>3
    <3>5. x.to \subseteq x.from /\ x.to # x.from
      BY DEF IInv, Links
    <3>6. x.to # Link(i).to
      BY <2>2, <3>2, <3>3, <3>5
    <3> QED
      BY <3>4, <3>6
  <2> QED
    BY <2>4, <2>5, <2>6
<1> QED
  BY <1>11 DEF Insertable

LEMMA LinkFound ==
  ASSUME NEW links, \A x, y \in links : x.ordinal = y.ordinal => x = y, NEW y \in links
  PROVE  (CHOOSE x \in links : x.ordinal = y.ordinal).to = y.to
<1>1. (CHOOSE x \in links : x.ordinal = y.ordinal) = y
  BY Zenon
<1> QED
  BY <1>1

LEMMA StandsAfter ==
  ASSUME IInv, NEW n, NEW project, StandsAt(n, project)
  PROVE  project = ProjectAfter(n)
<1>1. CASE n = 0
  BY <1>1 DEF StandsAt, ProjectAfter
<1>2. CASE n # 0
  <2>1. PICK y \in transitions : y.ordinal = n - 1 /\ y.to = project
    BY <1>2 DEF StandsAt
  <2>2. \A x, z \in transitions : x.ordinal = z.ordinal => x = z
    BY DEF IInv, Links
  <2>3. (CHOOSE x \in transitions : x.ordinal = y.ordinal).to = y.to
    BY <2>2, LinkFound
  <2> QED
    BY <1>2, <2>1, <2>3 DEF ProjectAfter
<1> QED
  BY <1>1, <1>2

LEMMA SettlesOnChain ==
  ASSUME SessionAssumption, IInv, Answers, AllAlike
  PROVE  SettledOnChain
<1> SUFFICES ASSUME status = "settled"
             PROVE  ordinal <= Length /\ active = ProjectAfter(ordinal) /\ (Steady => ordinal = Length)
  BY DEF SettledOnChain
<1>1. /\ IsFiniteSet(transitions) /\ Length \in Nat /\ Length = Cardinality(transitions)
      /\ ordinal \in 0..Length /\ {x.ordinal : x \in transitions} = 0..(Length - 1)
      /\ StandsAt(ordinal, active)
  BY FS_CardinalityType DEF IInv, Links, OnChain, Length
<1>2. active = ProjectAfter(ordinal)
  BY <1>1, StandsAfter
<1>3. ASSUME Steady PROVE ordinal = Length
  <2>1. stage = "done" /\ ~error /\ ~failed
    BY DEF Answers, Ended, IInv, TypeOK
  <2>2. PICK n \in Nat : \E w :
          /\ Walk(command, n, w)
          /\ Journaled(command, n, w, transitions)
          /\ ~failed => \E m \in 0..n : w[m] = Here
    BY <1>3 DEF AllAlike
  <2>3. PICK w :
          /\ Walk(command, n, w)
          /\ Journaled(command, n, w, transitions)
          /\ ~failed => \E m \in 0..n : w[m] = Here
    BY <2>2
  <2>4. PICK m \in 0..n : w[m] = Here
    BY <2>1, <2>3
  <2>5. ~At(Here)!Asking
    BY <2>1, HereFrontier DEF Search!Asking
  <2>6. m = n
    <3> SUFFICES ASSUME m # n PROVE FALSE
      OBVIOUS
    <3>1. m + 1 \in 1..n /\ (m + 1) - 1 = m
      OBVIOUS
    <3>2. Leads(command, Here, w[m + 1])
      BY <2>3, <2>4, <3>1 DEF Walk
    <3> QED
      BY <2>1, <2>5, <3>2, HereFields DEF Leads
  <2>7. ASSUME NEW x \in transitions PROVE x.ordinal < ordinal
    <3>1. PICK k \in 1..n : Taken(command, w[k - 1], x)
      BY <2>3, <2>4, <2>5, <2>6 DEF Journaled, Misled
    <3>2. x.ordinal \in Nat /\ w[k].ordinal = x.ordinal + 1
      BY <2>3, <3>1, TakenAt
    <3>3. w[k].ordinal <= w[n].ordinal
      BY <2>3 DEF Walk
    <3>4. w[n].ordinal = ordinal
      BY <2>4, <2>6, HereFields
    <3> QED
      BY <1>1, <3>2, <3>3, <3>4
  <2>8. CASE Length = 0
    BY <1>1, <2>8
  <2>9. CASE Length # 0
    <3>1. Length - 1 \in {x.ordinal : x \in transitions}
      <4>1. Length - 1 \in 0..(Length - 1)
        BY <1>1, <2>9
      <4> QED
        BY <1>1, <4>1
    <3>2. Length - 1 < ordinal
      BY <2>7, <3>1
    <3> QED
      BY <1>1, <3>2
  <2> QED
    BY <2>8, <2>9
<1> QED
  BY <1>1, <1>2, <1>3

(***************************************************************************)
(* The steps of a run.                                                     *)
(***************************************************************************)
LEMMA AnswersGone ==
  ASSUME Answers, frontier' = <<>>, status' # "settled", attempts' = attempts, command' = command,
         setting'.jobs = setting.jobs, jobs' = jobs \/ jobs' \in setting.jobs \/ jobs' = 1
  PROVE  Answers'
<1>1. Faithful' /\ InOrder'
  BY NoAnswers
<1>2. Honest' /\ Alone' /\ Ended'
  BY DEF Answers, Honest, Alone, Ended
<1> QED
  BY <1>1, <1>2 DEF Answers

LEMMA PatientStays ==
  ASSUME Patient, command' = command, setting'.jobs = setting.jobs,
         setting.errors # 0 \/ (setting'.errors = setting.errors /\ (error' => error))
  PROVE  Patient'
BY DEF Patient, Steady, Calm

LEMMA StandsStill ==
  ASSUME SessionAssumption, IInv, Course, UNCHANGED <<searchVars, ordinal, transitions>>, command' = command
  PROVE  AllAlike' /\ Proven!SweepSettled'
<1>1. Here' = Here /\ failed' = failed /\ failed \in BOOLEAN
  BY HereFields DEF searchVars, IInv, TypeOK
<1>2. AllAlike'
  BY <1>1, AlikeStays DEF Course
<1>3. UNCHANGED Proven!vars
  BY DEF searchVars, Proven!vars
<1>4. Proven!SweepSettled'
  BY <1>3, ProvenParameters, Proven!SettledInduction DEF IInv, Course
<1> QED
  BY <1>2, <1>4

LEMMA CourseForgotten ==
  ASSUME SessionAssumption, IInv, Course, Forget, command' = command, setting'.jobs = setting.jobs,
         setting'.errors = setting.errors
  PROVE  Course'
<1>0. /\ status' = "stopped" /\ frontier' = <<>> /\ attempts' = attempts /\ jobs' = 1 /\ error' = FALSE
      /\ transitions' = transitions /\ Here' = Origin /\ stage' = "directories"
  BY DEF Forget, journal, Here, Origin, Place
<1>1. Answers'
  BY <1>0, AnswersGone DEF Course
<1>2. Patient'
  BY <1>0, PatientStays DEF Course
<1>3. AllAlike'
  BY <1>0, AlikeAgain DEF Course
<1>4. Proven!SweepSettled'
  BY <1>0 DEF Proven!SweepSettled
<1> QED
  BY <1>1, <1>2, <1>3, <1>4 DEF Course

LEMMA CourseStarts == ASSUME SessionAssumption, IInv, Course, Start PROVE Course'
<1>0. /\ status' = "running" /\ jobs' \in setting.jobs /\ setting' = setting /\ command' = command
      /\ UNCHANGED <<searchVars, ordinal, transitions>> /\ attempts' = attempts /\ error' = error
      /\ frontier' = <<>>
  BY DEF Start, journal, command, IInv, Fresh
<1>1. Answers'
  BY <1>0, AnswersGone DEF Course
<1>2. Patient'
  BY <1>0, PatientStays DEF Course
<1> QED
  BY <1>0, <1>1, <1>2, StandsStill DEF Course

LEMMA CourseAsks == ASSUME SessionAssumption, IInv, Course, Ask PROVE Course'
<1>0. /\ status = "running" /\ status' = status /\ jobs' = jobs /\ setting' = setting /\ command' = command
      /\ UNCHANGED <<searchVars, ordinal, transitions>> /\ attempts' = attempts /\ error' = error
      /\ frontier' = Search!Frontier /\ answers' = [i \in 1..Len(Search!Frontier) |-> "none"]
  BY DEF Ask, journal, command
<1>1. \A i \in 1..Len(frontier') : answers'[i] = "none"
  BY <1>0
<1>2. Faithful' /\ InOrder'
  BY <1>1 DEF Faithful, InOrder, Planned
<1>3. Honest' /\ Alone' /\ Ended'
  BY <1>0 DEF Course, Answers, Honest, Alone, Ended
<1>4. Patient'
  BY <1>0, PatientStays DEF Course
<1> QED
  BY <1>0, <1>2, <1>3, <1>4, StandsStill DEF Course, Answers

LEMMA CourseAnswered ==
  ASSUME SessionAssumption, IInv, Course, NEW i, Startable(i), NEW verdict, Give(i, verdict),
         UNCHANGED <<status, searchVars, jobs, frontier, ordinal, transitions>>,
         command' = command, setting'.jobs = setting.jobs, error' \in BOOLEAN, error => error',
         \/ ~error /\ verdict \in command[frontier[i]]
         \/ error' /\ verdict = "inconclusive",
         setting.errors # 0 \/ (setting'.errors = setting.errors /\ (error' => error)),
         Honest'
  PROVE  Course'
<1>1. Answers'
  BY GiveAnswers DEF Course
<1>2. Patient'
  BY PatientStays DEF Course
<1>3. AllAlike' /\ Proven!SweepSettled'
  BY StandsStill
<1> QED
  BY <1>1, <1>2, <1>3 DEF Course

\* The search takes answers.
LEMMA SweepGoesOn ==
  ASSUME SessionAssumption, IInv, Course, NEW i, i \in 0..Len(Search!Frontier), Search!Answered(i)
  PROVE  Proven!SweepSettled'
<1>1. i \in Proven!Ranks
  BY AnswerMoves, FrontierFacts DEF IInv
<1>2. Proven!Answered(i) /\ Proven!Parameters
  BY SameAnswer, ProvenParameters
<1>3. Proven!Next
  BY <1>1, <1>2 DEF Proven!Next
<1> QED
  BY <1>2, <1>3, Proven!SettledInduction DEF IInv, Course

LEMMA CourseLost ==
  ASSUME SessionAssumption, IInv, Course, Continue(0), status = "running", error', transitions' = transitions,
         command' = command, setting'.jobs = setting.jobs, Patient'
  PROVE  Course'
<1>0. /\ status' = status /\ jobs' = jobs /\ attempts' = attempts /\ failed' = error'
      /\ frontier' = <<>> /\ Search!Answered(0) /\ Proven!TypeOK
  BY DEF Continue, IInv
<1>1. Answers'
  BY <1>0, AnswersGone DEF Course
<1>2. AllAlike'
  BY <1>0, AlikeStays DEF Course
<1>3. Proven!SweepSettled'
  <2>1. 0 \in 0..Len(Search!Frontier)
    BY <1>0, AnswerMoves, FrontierFacts
  <2> QED
    BY <1>0, <2>1, SweepGoesOn
<1> QED
  BY <1>1, <1>2, <1>3 DEF Course

LEMMA CourseRejects == ASSUME SessionAssumption, IInv, Course, Reject PROVE Course'
<1>0. /\ status = "running" /\ frontier # <<>> /\ setting' = setting /\ command' = command /\ error' = error
      /\ Continue(0) /\ Search!Answered(0) /\ ordinal' = ordinal /\ transitions' = transitions
      /\ status' = status /\ jobs' = jobs /\ attempts' = attempts /\ failed' = error' /\ frontier' = <<>>
      /\ Proven!TypeOK /\ error \in BOOLEAN /\ ordinal \in Nat
  BY DEF Reject, NoWinner, Asked, Continue, command, IInv, TypeOK
<1>1. Patient'
  BY <1>0, PatientStays DEF Course
<1>2. CASE error
  BY <1>0, <1>1, <1>2, CourseLost
<1>3. CASE ~error
  <2>1. Answers'
    BY <1>0, AnswersGone DEF Course
  <2>2. Proven!SweepSettled' /\ 0 \in 0..Len(Search!Frontier)
    <3>1. 0 \in 0..Len(Search!Frontier)
      BY <1>0, AnswerMoves, FrontierFacts
    <3> QED
      BY <1>0, <3>1, SweepGoesOn
  <2>3. AllAlike'
    <3>1. /\ At(Here)!Asking /\ At(Here)!Frontier = frontier /\ Firsts(Here) = Planned /\ ~failed
          /\ frontier = Search!Frontier
      BY <1>0, PlannedFirsts, FrontierCandidates
    <3>2. Barren(command, Here)
      <4>1. Search!Evaluated(0)
        BY <1>0 DEF Search!Answered, Search!TryGroup, Search!AcceptCandidate, Search!RefinePartition, Search!SweepUnit
      <4>2. \A j \in 1..Len(frontier) : command[frontier[j]] # {"preserved"}
        BY <1>0, <1>3, <3>1, <4>1 DEF Search!Evaluated
      <4> QED
        BY <3>1, <4>2 DEF Barren, Planned
    <3>3. Leads(command, Here, Here')
      <4>1. Here' = Onward(Here, 0)
        BY <1>0, <2>2, AnswerLeads
      <4> QED
        BY <3>1, <3>2, <4>1 DEF Leads
    <3>4. \A x : ~Taken(command, Here, x) /\ ~Misled(command, Here, x)
      BY <3>2 DEF Taken, Chosen, Barren, Misled
    <3>5. active' = active
      BY <1>0, AnswerMoves
    <3> QED
      BY <1>0, <3>1, <3>3, <3>4, <3>5, AlikeQuiet DEF Course
  <2> QED
    BY <1>1, <2>1, <2>2, <2>3 DEF Course
<1> QED
  BY <1>2, <1>3

LEMMA CourseCommits == ASSUME SessionAssumption, IInv, Course, NEW i \in 1..Len(frontier), Commit(i) PROVE Course'
<1>0. /\ status = "running" /\ frontier # <<>> /\ setting' = setting /\ command' = command /\ error' = error
      /\ Search!Answered(i) /\ status' = status /\ jobs' = jobs /\ attempts' = attempts /\ frontier' = <<>>
  BY DEF Commit, Winner, Asked, Continue, command
<1>1. Answers'
  BY <1>0, AnswersGone DEF Course
<1>2. Patient'
  BY <1>0, PatientStays DEF Course
<1>3. AllAlike'
  BY AlikeCommit DEF Course
<1>4. Proven!SweepSettled'
  <2>1. frontier = Search!Frontier /\ Len(frontier) \in Nat
    BY <1>0, FrontierCandidates
  <2>2. i \in 0..Len(Search!Frontier)
    BY <2>1
  <2> QED
    BY <1>0, <2>2, SweepGoesOn
<1> QED
  BY <1>1, <1>2, <1>3, <1>4 DEF Course

LEMMA CourseAdvances == ASSUME SessionAssumption, IInv, Course, Advance PROVE Course'
<1>0. /\ status = "running" /\ status' = status /\ setting' = setting /\ command' = command /\ Search!Advance
      /\ error' = error /\ jobs' = jobs /\ frontier' = frontier /\ ordinal' = ordinal /\ attempts' = attempts
      /\ transitions' = transitions /\ Proven!TypeOK /\ ordinal \in Nat
  BY DEF Advance, journal, command, IInv, TypeOK
<1>1. ~Search!Asking /\ active' = active /\ stage # "done" /\ Here' = Idle(Here) /\ ~At(Here)!Asking
  BY <1>0, AdvanceType, AdvanceLeads
<1>2. failed' = failed /\ failed \in BOOLEAN
  BY <1>0 DEF Search!Advance, Search!SkipGroup, Search!StartDdmin, Search!StartSweep, Search!Finish, IInv, TypeOK
<1>3. frontier = <<>>
  BY <1>1 DEF IInv, TypeOK
<1>4. Answers'
  BY <1>0, <1>3, AnswersGone DEF Course
<1>5. Patient'
  BY <1>0, PatientStays DEF Course
<1>6. Proven!SweepSettled'
  <2>1. Proven!Next /\ Proven!Parameters
    BY <1>0, SameAdvance, ProvenParameters DEF Proven!Next
  <2> QED
    BY <1>0, <2>1, Proven!SettledInduction DEF Course
<1>7. AllAlike'
  <2>1. CASE failed
    BY <1>0, <1>2, <2>1, AlikeStays DEF Course
  <2>2. CASE ~failed
    <3>1. AllAlike /\ ~At(Here)!Asking
      BY <1>1 DEF Course
    <3>2. Leads(command, Here, Here')
      BY <1>1, HereFields DEF Leads
    <3>3. \A x : ~Taken(command, Here, x) /\ ~Misled(command, Here, x)
      BY <3>1 DEF Taken, Misled
    <3> QED
      BY <1>0, <1>1, <2>2, <3>1, <3>2, <3>3, AlikeQuiet
  <2> QED
    BY <2>1, <2>2
<1> QED
  BY <1>4, <1>5, <1>6, <1>7 DEF Course

LEMMA CourseEnds == ASSUME SessionAssumption, IInv, Course, End PROVE Course'
<1>1. CASE Forget /\ UNCHANGED setting
  BY <1>1, CourseForgotten DEF command
<1>2. CASE ~(Forget /\ UNCHANGED setting)
  <2>0. /\ status = "running" /\ stage = "done" /\ ~error /\ status' = "settled" /\ setting' = setting
        /\ command' = command /\ UNCHANGED <<searchVars, ordinal, transitions>> /\ stage' = stage
        /\ error' = error /\ jobs' = jobs /\ frontier' = frontier /\ attempts' = attempts
    BY <1>2 DEF End, journal, command, searchVars
  <2>1. frontier' = <<>>
    BY <2>0 DEF IInv, TypeOK, Search!Asking
  <2>2. Faithful' /\ InOrder'
    BY <2>1, NoAnswers
  <2>3. Honest' /\ Alone' /\ Ended'
    BY <2>0 DEF Course, Answers, Honest, Alone, Ended
  <2>4. Patient'
    BY <2>0, PatientStays DEF Course
  <2> QED
    BY <2>0, <2>2, <2>3, <2>4, StandsStill DEF Course, Answers
<1> QED
  BY <1>1, <1>2

LEMMA InitCourse == ASSUME SessionAssumption, Init PROVE Course
<1>0. /\ setting \in Settings /\ status = "stopped" /\ error = FALSE /\ jobs = 1 /\ frontier = <<>>
      /\ ordinal = 0 /\ attempts = Nothing /\ transitions = {}
      /\ stage = "directories" /\ active = Unit /\ group = 1 /\ granularity = 2 /\ position = 0
  BY DEF Init, Search!Init
<1>1. Faithful /\ InOrder /\ Honest /\ Alone /\ Ended
  <2>1. Len(frontier) = 0 /\ 1..0 = {}
    BY <1>0
  <2> QED
    BY <1>0, <2>1 DEF Faithful, InOrder, Planned, Honest, Nothing, Alone, Ended
<1>2. Patient
  BY <1>0 DEF Patient, Calm, Steady, command
<1>3. AllAlike
  <2>1. Here = Origin
    BY <1>0 DEF Here, Origin
  <2>2. PICK w : w = [k \in {0} |-> Origin]
    OBVIOUS
  <2>3. Walk(command, 0, w) /\ w[0] = Here
    BY <2>1, <2>2, WalkStarts
  <2>4. Journaled(command, 0, w, transitions)
    <3>1. 1..0 = {}
      OBVIOUS
    <3> QED
      BY <1>0, <3>1 DEF Journaled
  <2>5. 0 \in Nat /\ 0 \in 0..0
    OBVIOUS
  <2> QED
    BY <2>3, <2>4, <2>5 DEF AllAlike
<1>4. Proven!SweepSettled
  BY <1>0 DEF Proven!SweepSettled
<1> QED
  BY <1>1, <1>2, <1>3, <1>4 DEF Course, Answers

LEMMA CourseInduction == ASSUME SessionAssumption, SearchInv, [Next]_vars PROVE SearchInv'
<1>0. /\ IInv /\ Course /\ Answers /\ Patient /\ setting \in Setting /\ error \in BOOLEAN
      /\ attempts \in [Candidate -> Verdict \cup {"none"}]
  BY DEF SearchInv, Course, IInv, TypeOK
<1>1. IInv'
  BY <1>0, Induction
<1>2. Course'
  <2>1. CASE Start
    BY <1>0, <2>1, CourseStarts
  <2>2. CASE Crash
    <3>1. Forget /\ command' = command /\ setting'.jobs = setting.jobs /\ setting'.errors = setting.errors
      BY <1>0, <2>2, Steadfast DEF Crash, Setting
    <3> QED
      BY <1>0, <3>1, CourseForgotten
  <2>3. CASE Ask
    BY <1>0, <2>3, CourseAsks
  <2>4. ASSUME NEW i \in 1..Len(frontier), SkipCandidate(i) PROVE Course'
    <3>1. /\ Startable(i) /\ Give(i, "inconclusive") /\ setting' = setting /\ command' = command
          /\ error /\ error' = error /\ attempts' = attempts
          /\ UNCHANGED <<status, searchVars, jobs, frontier, ordinal, transitions>>
      BY <2>4 DEF SkipCandidate, journal, command
    <3>2. Honest'
      BY <1>0, <3>1 DEF Answers, Honest
    <3> QED
      BY <1>0, <3>1, <3>2, CourseAnswered
  <2>5. ASSUME NEW i \in 1..Len(frontier), UseCached(i) PROVE Course'
    <3>1. /\ Startable(i) /\ Give(i, attempts[frontier[i]]) /\ setting' = setting /\ command' = command
          /\ ~error /\ error' = error /\ attempts' = attempts /\ attempts[frontier[i]] # "none"
          /\ UNCHANGED <<status, searchVars, jobs, frontier, ordinal, transitions>>
      BY <2>5 DEF UseCached, journal, command, Conclusive
    <3>2. Honest'
      BY <1>0, <3>1 DEF Answers, Honest
    <3>3. frontier[i] \in Candidate
      BY <1>0, <3>1, FrontierCandidates DEF Startable, Asked
    <3>4. attempts[frontier[i]] \in command[frontier[i]]
      BY <1>0, <3>1, <3>3 DEF Answers, Honest
    <3> QED
      BY <1>0, <3>1, <3>2, <3>4, CourseAnswered
  <2>6. ASSUME NEW i \in 1..Len(frontier), RunCandidate(i) PROVE Course'
    <3>1. PICK verdict \in command[frontier[i]] :
            Give(i, verdict) /\ attempts' = [attempts EXCEPT ![frontier[i]] = verdict]
      BY <2>6 DEF RunCandidate
    <3>2. /\ Startable(i) /\ setting' = setting /\ command' = command /\ ~error /\ error' = error
          /\ UNCHANGED <<status, searchVars, jobs, frontier, ordinal, transitions>>
      BY <2>6 DEF RunCandidate, command
    <3>3. Honest'
      BY <1>0, <3>1, <3>2 DEF Answers, Honest
    <3> QED
      BY <1>0, <3>1, <3>2, <3>3, CourseAnswered
  <2>7. ASSUME NEW i \in 1..Len(frontier), FailCandidate(i) PROVE Course'
    <3>1. /\ Startable(i) /\ Give(i, "inconclusive") /\ error' = TRUE /\ attempts' = attempts /\ ~error
          /\ setting.errors # 0 /\ setting'.jobs = setting.jobs /\ command' = command
          /\ UNCHANGED <<status, searchVars, jobs, frontier, ordinal, transitions>>
      BY <1>0, <2>7, Steadfast DEF FailCandidate, journal, Setting
    <3>2. Honest'
      BY <1>0, <3>1 DEF Answers, Honest
    <3>3. error' \in BOOLEAN /\ (error => error') /\ error'
      BY <3>1, Zenon
    <3> QED
      BY <1>0, <3>1, <3>2, <3>3, CourseAnswered
  <2>8. ASSUME NEW i \in 1..Len(frontier), Commit(i) PROVE Course'
    BY <1>0, <2>8, CourseCommits
  <2>9. ASSUME NEW i \in 1..Len(frontier), FailCommit(i) PROVE Course'
    <3>1. /\ Continue(0) /\ status = "running" /\ error' = TRUE /\ transitions' = transitions
          /\ setting.errors # 0 /\ setting'.jobs = setting.jobs /\ command' = command
      BY <1>0, <2>9, Steadfast DEF FailCommit, Forgo, Winner, Asked, Setting
    <3>2. Patient'
      BY <1>0, <3>1, PatientStays
    <3> QED
      BY <1>0, <3>1, <3>2, CourseLost
  <2>10. ASSUME NEW i \in 1..Len(frontier), Refused(i) PROVE Course'
    <3>1. /\ Continue(0) /\ status = "running" /\ error' = TRUE /\ transitions' = transitions
          /\ setting' = setting /\ command' = command /\ Winner(i) /\ ~Insertable(Link(i))
      BY <2>10 DEF Refused, Forgo, Winner, Asked, command
    <3>2. Patient'
      <4>1. Calm => SteadyReplays
        BY <1>0, ReplaysInCalm DEF Course
      <4>2. ~(Calm /\ Steady)
        BY <3>1, <4>1 DEF SteadyReplays, ReplaysTheChain
      <4> QED
        BY <3>1, <4>2 DEF Patient, Steady, Calm
    <3> QED
      BY <1>0, <3>1, <3>2, CourseLost
  <2>11. CASE Reject
    BY <1>0, <2>11, CourseRejects
  <2>12. CASE Void
    <3>1. /\ Continue(0) /\ status = "running" /\ failed /\ error' = error /\ transitions' = transitions
          /\ setting' = setting /\ command' = command
      BY <2>12 DEF Void, command
    <3>2. error'
      BY <1>0, <3>1 DEF IInv, TypeOK
    <3>3. Patient'
      BY <1>0, <3>1, PatientStays
    <3> QED
      BY <1>0, <3>1, <3>2, <3>3, CourseLost
  <2>13. CASE Advance
    BY <1>0, <2>13, CourseAdvances
  <2>14. CASE End
    BY <1>0, <2>14, CourseEnds
  <2>15. CASE UNCHANGED vars
    <3>1. /\ UNCHANGED <<searchVars, ordinal, transitions>> /\ setting' = setting /\ command' = command
          /\ status' = status /\ error' = error /\ jobs' = jobs /\ frontier' = frontier
          /\ answers' = answers /\ attempts' = attempts /\ stage' = stage
      BY <2>15 DEF vars, journal, command, searchVars
    <3>2. Answers'
      BY <1>0, <3>1 DEF Answers, Honest, Faithful, InOrder, Planned, Before, Alone, Ended
    <3>3. Patient'
      BY <1>0, <3>1, PatientStays
    <3> QED
      BY <1>0, <3>1, <3>2, <3>3, StandsStill DEF Course
  <2> QED
    BY <2>1, <2>2, <2>3, <2>4, <2>5, <2>6, <2>7, <2>8, <2>9, <2>10, <2>11, <2>12, <2>13, <2>14, <2>15
       DEF SearchInv, Next, RunStep, Settled
<1> QED
  BY <1>1, <1>2 DEF SearchInv

\* The inductive invariant of all runs together: with a steady command they take
\* one way through the search (lib.rs:433-640).
THEOREM SearchInvariant == Spec => []SearchInv
<1>1. Init => SearchInv
  BY InitInvariant, InitCourse, SessionAssumption DEF SearchInv
<1>2. SearchInv /\ [Next]_vars => SearchInv'
  BY CourseInduction, SessionAssumption
<1> QED
  BY <1>1, <1>2, PTL DEF Spec

\* A run that goes on to its result stands on the journal's chain, and with a
\* steady command at its end, whatever errors and crashes the runs met and
\* however many workers they had (lib.rs:635-640).
THEOREM AlwaysSettlesOnChain == Spec => []SettledOnChain
<1>1. SearchInv => SettledOnChain
  BY SettlesOnChain, SessionAssumption DEF SearchInv, Course
<1> QED
  BY <1>1, SearchInvariant, PTL

\* Where only single workers meet errors, a resumed run of a steady command is
\* never refused a transition (accept_transition as lib.rs:616-627 calls it).
THEOREM AlwaysReplays == ASSUME Calm PROVE Spec => []SteadyReplays
<1>1. SearchInv => SteadyReplays
  BY ReplaysInCalm, SessionAssumption DEF SearchInv, Course
<1> QED
  BY <1>1, SearchInvariant, PTL

(***************************************************************************)
(* The search takes the answers as they are.                               *)
(***************************************************************************)
LEMMA Least ==
  ASSUME NEW T \in SUBSET Nat, T # {}
  PROVE  \E m \in T : \A k \in T : m <= k
<1>1. IsWellFoundedOn(OpToRel(<, Nat), Nat)
  BY NatLessThanWellFounded
<1>2. PICK m \in T : \A k \in T : ~(<<k, m>> \in OpToRel(<, Nat))
  BY <1>1, WFMin
<1>3. ASSUME NEW k \in T PROVE ~(k < m)
  BY <1>2 DEF OpToRel
<1> QED
  BY <1>3

LEMMA PlannedFirst ==
  ASSUME NEW j \in 1..Len(frontier)
  PROVE  \E k \in Planned : k <= j /\ frontier[k] = frontier[j]
<1> DEFINE T == {k \in 1..Len(frontier) : frontier[k] = frontier[j]}
<1>1. T \in SUBSET Nat /\ j \in T
  OBVIOUS
<1>2. PICK m \in T : \A k \in T : m <= k
  BY <1>1, Least
<1>3. ASSUME NEW l \in 1..Len(frontier), l < m PROVE frontier[l] # frontier[m]
  BY <1>2, <1>3
<1> QED
  BY <1>1, <1>2, <1>3 DEF Planned

\* What Reducer asks of an evaluation without an error holds of every frontier
\* that is decided, at all its positions.
AnswersFit ==
  /\ \A i \in 1..Len(frontier) : Winner(i) =>
       /\ "preserved" \in command[frontier[i]]
       /\ ~error => \A j \in 1..(i - 1) : command[frontier[j]] # {"preserved"}
  /\ NoWinner /\ ~error => \A j \in 1..Len(frontier) : command[frontier[j]] # {"preserved"}

LEMMA CourseFits == ASSUME SessionAssumption, IInv, Answers PROVE AnswersFit
<1>1. ASSUME NEW i \in 1..Len(frontier), Winner(i)
      PROVE  /\ "preserved" \in command[frontier[i]]
             /\ ~error => \A j \in 1..(i - 1) : command[frontier[j]] # {"preserved"}
  <2>1. /\ "preserved" \in command[frontier[i]]
        /\ ~error => \A j \in Before(i) : command[frontier[j]] # {"preserved"}
    BY <1>1, WinnerFits
  <2>2. ASSUME NEW j \in 1..(i - 1) PROVE \E k \in Before(i) : frontier[k] = frontier[j]
    <3>1. j \in 1..Len(frontier) /\ j < i /\ j \in Nat /\ i \in Nat
      OBVIOUS
    <3>2. PICK k \in Planned : k <= j /\ frontier[k] = frontier[j]
      BY <3>1, PlannedFirst
    <3>3. k \in Nat /\ k < i
      BY <3>1, <3>2 DEF Planned
    <3> QED
      BY <3>2, <3>3 DEF Before
  <2> QED
    BY <2>1, <2>2
<1>2. ASSUME NoWinner, ~error, NEW j \in 1..Len(frontier) PROVE command[frontier[j]] # {"preserved"}
  <2>1. PICK k \in Planned : frontier[k] = frontier[j]
    BY PlannedFirst
  <2>2. answers[k] # "none" /\ answers[k] # "preserved" /\ k \in 1..Len(frontier)
    BY <1>2 DEF NoWinner, Planned
  <2>3. answers[k] \in command[frontier[k]]
    BY <1>2, <2>2 DEF Answers, Faithful
  <2> QED
    BY <2>1, <2>2, <2>3
<1> QED
  BY <1>1, <1>2 DEF AnswersFit

(***************************************************************************)
(* All the runs together implement Reduction.                              *)
(***************************************************************************)
LEMMA InitPromised == ASSUME SessionAssumption, Init PROVE Promise!ReductionInit
<1>1. setting \in Setting /\ transitions = {} /\ status = "stopped"
  BY DEF Init, SessionAssumption
<1>2. ProjectAfter(Length) = Unit
  BY <1>1, FS_EmptySet DEF Length, ProjectAfter
<1>3. command \in [SUBSET Unit -> SUBSET Promise!Verdict]
  BY <1>1 DEF Setting, command, Candidate, Verdict, Promise!Verdict
<1> QED
  BY <1>1, <1>2, <1>3 DEF Promise!ReductionInit

LEMMA PromiseStutters ==
  ASSUME command' = command, transitions' = transitions, status' = "settled" <=> status = "settled"
  PROVE  UNCHANGED Promise!reductionVars
BY DEF Promise!reductionVars, Length, ProjectAfter

LEMMA CommitShrinks ==
  ASSUME SessionAssumption, IInv, IInv', Answers, NEW i \in 1..Len(frontier), Commit(i)
  PROVE  [Promise!ReductionNext]_(Promise!reductionVars)
<1>0. /\ Winner(i) /\ Insertable(Link(i)) /\ transitions' = transitions \cup {Link(i)}
      /\ status = "running" /\ status' = status /\ command' = command /\ frontier # <<>>
  BY DEF Commit, Winner, Asked, Continue, command
<1>1. CASE Link(i) \in transitions
  BY <1>0, <1>1, PromiseStutters
<1>2. CASE Link(i) \notin transitions
  <2>1. /\ IsFiniteSet(transitions) /\ Length \in Nat /\ Length = Cardinality(transitions)
        /\ ordinal \in 0..Length /\ {x.ordinal : x \in transitions} = 0..(Length - 1)
        /\ StandsAt(ordinal, active)
    BY FS_CardinalityType DEF IInv, Links, OnChain, Length
  <2>2. ordinal = Length
    <3>1. ordinal \notin {x.ordinal : x \in transitions}
      BY <1>0, <1>2 DEF Insertable, Link
    <3>2. ordinal \notin 0..(Length - 1)
      BY <2>1, <3>1
    <3> QED
      BY <2>1, <3>2
  <2>3. ProjectAfter(Length) = active
    BY <2>1, <2>2, StandsAfter
  <2>4. Length' = Length + 1
    BY <1>0, <1>2, <2>1, FS_AddElement DEF Length
  <2>5. ProjectAfter(Length)' = frontier[i]
    <3>1. \A x, y \in transitions' : x.ordinal = y.ordinal => x = y
      BY DEF IInv, Links
    <3>2. Link(i) \in transitions' /\ Link(i).ordinal = Length /\ Link(i).to = frontier[i]
      BY <1>0, <2>2 DEF Link
    <3>3. (CHOOSE x \in transitions' : x.ordinal = Link(i).ordinal).to = Link(i).to
      BY <3>1, <3>2, LinkFound
    <3>4. Length' # 0 /\ Length' - 1 = Length
      BY <2>1, <2>4
    <3>5. ProjectAfter(Length)' = (CHOOSE x \in transitions' : x.ordinal = Length).to
      BY <3>4 DEF ProjectAfter
    <3> QED
      BY <3>2, <3>3, <3>5
  <2>6. "preserved" \in command[frontier[i]] /\ frontier[i] \subseteq active /\ frontier[i] # active
    BY <1>0, WinnerFits, FrontierCandidates
  <2>7. Promise!Shrink
    BY <1>0, <2>3, <2>5, <2>6 DEF Promise!Shrink
  <2> QED
    BY <2>7 DEF Promise!ReductionNext
<1> QED
  BY <1>1, <1>2

LEMMA EndSettles ==
  ASSUME SessionAssumption, IInv, Course, SettledOnChain', End
  PROVE  [Promise!ReductionNext]_(Promise!reductionVars)
<1>1. CASE Forget /\ UNCHANGED setting
  <2>1. command' = command /\ transitions' = transitions /\ status = "running" /\ status' = "stopped"
    BY <1>1 DEF End, Forget, journal, command
  <2> QED
    BY <2>1, PromiseStutters
<1>2. CASE ~(Forget /\ UNCHANGED setting)
  <2>0. /\ status = "running" /\ stage = "done" /\ ~error /\ status' = "settled" /\ command' = command
        /\ transitions' = transitions /\ ordinal' = ordinal /\ active' = active
    BY <1>2 DEF End, journal, command, searchVars
  <2>1. ~failed /\ setting \in Setting
    BY <2>0 DEF IInv, TypeOK
  <2>2. ProjectAfter(Length)' = ProjectAfter(Length) /\ Length' = Length
    BY <2>0 DEF ProjectAfter, Length
  <2>3. ASSUME Promise!Deterministic PROVE Promise!Irreducible
    <3>1. Steady
      <4>1. ASSUME NEW c \in Candidate PROVE Cardinality(command[c]) = 1
        <5>1. PICK v : command[c] = {v}
          BY <2>3 DEF Promise!Deterministic, Candidate
        <5> QED
          BY <5>1, FS_Singleton
      <4> QED
        BY <4>1 DEF Steady
    <3>2. ProjectAfter(Length) = active
      <4>1. Steady'
        BY <2>0, <3>1 DEF Steady
      <4>2. ordinal' = Length' /\ active' = ProjectAfter(ordinal)'
        BY <2>0, <4>1 DEF SettledOnChain
      <4>3. ProjectAfter(ordinal)' = ProjectAfter(ordinal)
        BY <2>0 DEF ProjectAfter
      <4> QED
        BY <2>0, <2>2, <4>2, <4>3
    <3>3. Proven!Promise!Deterministic
      BY <2>3 DEF Promise!Deterministic, Proven!Promise!Deterministic, Promise!Verdict, Proven!Promise!Verdict
    <3>4. Proven!Promise!Irreducible
      BY <2>0, <2>1, <3>3 DEF Course, Proven!SweepSettled
    <3> QED
      BY <3>2, <3>4 DEF Promise!Irreducible, Proven!Promise!Irreducible
  <2>4. Promise!Settle
    BY <2>0, <2>2, <2>3 DEF Promise!Settle
  <2> QED
    BY <2>4 DEF Promise!ReductionNext
<1> QED
  BY <1>1, <1>2

LEMMA OthersStutter ==
  ASSUME setting \in Setting, [Next]_vars, ~End, \A i \in 1..Len(frontier) : ~Commit(i)
  PROVE  UNCHANGED Promise!reductionVars
<1>1. command' = command /\ transitions' = transitions /\ (status' = "settled" <=> status = "settled")
  <2>1. CASE Start
    BY <2>1 DEF Start, journal, command
  <2>2. CASE Crash
    BY <2>2, Steadfast DEF Crash, Forget, journal
  <2>3. CASE Ask \/ Advance
    BY <2>3 DEF Ask, Advance, journal, command
  <2>4. ASSUME NEW i \in 1..Len(frontier), SkipCandidate(i) \/ UseCached(i) \/ RunCandidate(i)
        PROVE  command' = command /\ transitions' = transitions /\ status' = status
    BY <2>4 DEF SkipCandidate, UseCached, RunCandidate, journal, command
  <2>5. ASSUME NEW i \in 1..Len(frontier), FailCandidate(i)
        PROVE  command' = command /\ transitions' = transitions /\ status' = status
    BY <2>5, Steadfast DEF FailCandidate, journal
  <2>6. ASSUME NEW i \in 1..Len(frontier), FailCommit(i) \/ Refused(i)
        PROVE  command' = command /\ transitions' = transitions /\ status' = status
    BY <2>6, Steadfast DEF FailCommit, Refused, Forgo, Continue, command
  <2>7. CASE Reject \/ Void
    BY <2>7 DEF Reject, Void, Continue, command
  <2>8. CASE UNCHANGED vars
    BY <2>8 DEF vars, journal, command
  <2> QED
    BY <2>1, <2>2, <2>3, <2>4, <2>5, <2>6, <2>7, <2>8 DEF Next, RunStep, Settled
<1> QED
  BY <1>1, PromiseStutters

\* A decided frontier has the answers that the search was written for: the
\* lowest preserved candidate wins, and only an error can hide one before it
\* (lib.rs:538-627; reducer.rs:138-200).
THEOREM AnswersAlwaysFit == Spec => []AnswersFit
<1>1. SearchInv => AnswersFit
  BY CourseFits, SessionAssumption DEF SearchInv, Course
<1> QED
  BY <1>1, SearchInvariant, PTL

\* Through crashes, errors and resumes the journal's project only shrinks, to
\* projects that were seen to fail, and settles where no unit can be removed
\* alone (lib.rs:507-639).
THEOREM SessionImplementsReduction == Spec => ImplementsReduction
<1>1. Init => Promise!ReductionInit
  BY InitPromised, SessionAssumption
<1>2. SearchInv => SettledOnChain
  BY SettlesOnChain, SessionAssumption DEF SearchInv, Course
<1>3. ASSUME SearchInv, SearchInv', SettledOnChain', [Next]_vars
      PROVE  [Promise!ReductionNext]_(Promise!reductionVars)
  <2>1. CASE End
    BY <1>3, <2>1, EndSettles, SessionAssumption DEF SearchInv
  <2>2. ASSUME NEW i \in 1..Len(frontier), Commit(i)
        PROVE  [Promise!ReductionNext]_(Promise!reductionVars)
    BY <1>3, <2>2, CommitShrinks, SessionAssumption DEF SearchInv, Course
  <2>3. CASE ~End /\ \A i \in 1..Len(frontier) : ~Commit(i)
    BY <1>3, <2>3, OthersStutter DEF SearchInv, IInv, TypeOK
  <2> QED
    BY <2>1, <2>2, <2>3
<1> QED
  BY <1>1, <1>2, <1>3, SearchInvariant, PTL DEF Spec, ImplementsReduction, Promise!ReductionSpec

=============================================================================
