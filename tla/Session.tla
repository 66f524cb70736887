------------------------------- MODULE Session -------------------------------
(***************************************************************************)
(* The file search of a reduction over its journal                         *)
(* (run, crates/reprocut-engine/src/lib.rs:433-637).  A run asks the       *)
(* search for a frontier, evaluates its candidates on the workers, commits *)
(* the winner to the journal and lets the search go on.  A run that stops, *)
(* by a crash or with an error, can be resumed: the search starts over     *)
(* from the whole project, takes conclusive verdicts from the journal and  *)
(* commits its transitions again, which the journal takes when they are    *)
(* the ones it has.                                                        *)
(*                                                                         *)
(* The search is Reducer's and the journal's tables are those of Journal,  *)
(* for one session: an attempt is its verdict, which is cached when it is  *)
(* conclusive.  A candidate's digest is its set of units.  Evaluating one  *)
(* is a step, of which a crash loses all or nothing.  The candidates of    *)
(* the search are strict subsets of what is retained, so that none was     *)
(* accepted before (accepted_material_digests).                            *)
(***************************************************************************)
EXTENDS Naturals, Sequences, FiniteSets

CONSTANTS
  Unit, Groups,   \* as in Reducer
  Settings        \* a command under test and the --jobs, errors and crashes it meets

Verdict == {"preserved", "rejected", "inconclusive"}
Conclusive == {"preserved", "rejected"}
Candidate == SUBSET Unit

Setting == [command : [Candidate -> SUBSET Verdict], jobs : SUBSET (Nat \ {0}), errors : Nat, crashes : Nat]

ASSUME SessionAssumption ==
  /\ Unit \subseteq Nat /\ IsFiniteSet(Unit)
  /\ Groups \in Seq(SUBSET Unit)
  /\ Settings \subseteq Setting

VARIABLES
  setting,        \* what is left of errors and crashes shrinks
  status,         \* "stopped", "running" or "settled"
  stage, active, group, granularity, position,    \* the search, as in Reducer
  failed,         \* first_error was set when the frontier began
  error,          \* first_error is set
  jobs,           \* --jobs of this run
  frontier,       \* the candidates at hand
  answers,        \* the verdict on each so far, or "none"
  ordinal,        \* of the run's next transition
  attempts,       \* the journal: the verdict on each candidate, or "none"
  transitions     \* the journal: [ordinal, from, to]

command == setting.command

searchVars == <<stage, active, group, granularity, position, failed>>
journal == <<attempts, transitions>>
vars == <<setting, status, searchVars, error, jobs, frontier, answers, ordinal, journal>>

Search == INSTANCE Reducer WITH outcome <- command, Outcomes <- [Candidate -> SUBSET Verdict]

Nothing == [c \in Candidate |-> "none"]

Init ==
  /\ setting \in Settings
  /\ status = "stopped"
  /\ Search!Init
  /\ error = FALSE
  /\ jobs = 1
  /\ frontier = <<>> /\ answers = <<>>
  /\ ordinal = 0
  /\ attempts = Nothing
  /\ transitions = {}

\* What a run that stops leaves behind is the journal.
Forget ==
  /\ status' = "stopped"
  /\ stage' = "directories" /\ active' = Unit /\ group' = 1 /\ granularity' = 2 /\ position' = 0
  /\ failed' = FALSE /\ error' = FALSE
  /\ jobs' = 1
  /\ frontier' = <<>> /\ answers' = <<>>
  /\ ordinal' = 0
  /\ UNCHANGED journal

\* Mutated form of Start: a resumed run counts on from the journal's transitions.
StartAtTip ==
  /\ status = "stopped"
  /\ status' = "running"
  /\ jobs' \in setting.jobs
  /\ ordinal' = Cardinality(transitions)
  /\ UNCHANGED <<setting, searchVars, error, frontier, answers, journal>>

\* create, the first time, or resume: the search starts over.
Start ==
  /\ status = "stopped"
  /\ status' = "running"
  /\ jobs' \in setting.jobs
  /\ UNCHANGED <<setting, searchVars, error, frontier, answers, ordinal, journal>>

Crash ==
  /\ status = "running"
  /\ setting.crashes > 0
  /\ setting' = [setting EXCEPT !.crashes = @ - 1]
  /\ Forget

-----------------------------------------------------------------------------
\* The frontier on the workers.

Ask ==
  /\ status = "running"
  /\ frontier = <<>>
  /\ ~failed
  /\ Search!Asking
  /\ frontier' = Search!Frontier
  /\ answers' = [i \in 1..Len(Search!Frontier) |-> "none"]
  /\ UNCHANGED <<setting, status, searchVars, error, jobs, ordinal, journal>>

Asked == status = "running" /\ frontier # <<>>

\* A candidate is planned at its first position in the frontier only.
Planned == {i \in 1..Len(frontier) : \A j \in 1..Len(frontier) : j < i => frontier[j] # frontier[i]}
PreservedRanks == {i \in Planned : answers[i] = "preserved"}
Before(i) == {j \in Planned : j < i}
Waiting(i) == {j \in Before(i) : answers[j] = "none"}

\* Workers take ranks in order; one that has seen a preserved rank takes none
\* above it, so that at most the others are still at work there.
Startable(i) ==
  /\ Asked
  /\ i \in Planned /\ answers[i] = "none"
  /\ Cardinality(Waiting(i)) + (IF Before(i) \cap PreservedRanks = {} THEN 0 ELSE 1) < jobs

Give(i, verdict) == answers' = [answers EXCEPT ![i] = verdict]

\* After an error the workers answer without evaluating.
SkipCandidate(i) ==
  /\ Startable(i)
  /\ error
  /\ Give(i, "inconclusive")
  /\ UNCHANGED <<setting, status, searchVars, error, jobs, frontier, ordinal, journal>>

UseCached(i) ==
  /\ Startable(i)
  /\ ~error
  /\ attempts[frontier[i]] \in Conclusive
  /\ Give(i, attempts[frontier[i]])
  /\ UNCHANGED <<setting, status, searchVars, error, jobs, frontier, ordinal, journal>>

RunCandidate(i) ==
  /\ Startable(i)
  /\ ~error
  /\ attempts[frontier[i]] \notin Conclusive
  /\ \E verdict \in command[frontier[i]] :
       /\ Give(i, verdict)
       /\ attempts' = [attempts EXCEPT ![frontier[i]] = verdict]
  /\ UNCHANGED <<setting, status, searchVars, error, jobs, frontier, ordinal, transitions>>

\* The runner or the journal fails: the candidate is not recorded.
FailCandidate(i) ==
  /\ Startable(i)
  /\ ~error
  /\ setting.errors > 0
  /\ setting' = [setting EXCEPT !.errors = @ - 1]
  /\ error' = TRUE
  /\ Give(i, "inconclusive")
  /\ UNCHANGED <<status, searchVars, jobs, frontier, ordinal, journal>>

-----------------------------------------------------------------------------
\* The frontier's decision.

\* Mutated form of Winner: every rank must have answered.
WinnerOfAll(i) ==
  /\ Asked
  /\ i \in PreservedRanks /\ \A j \in PreservedRanks : i <= j
  /\ \A j \in Planned : answers[j] # "none"

\* The lowest preserved rank, once every rank before it has answered.
Winner(i) ==
  /\ Asked
  /\ i \in PreservedRanks /\ \A j \in PreservedRanks : i <= j
  /\ Waiting(i) = {}

NoWinner == Asked /\ \A i \in Planned : answers[i] \notin {"none", "preserved"}

Link(i) == [ordinal |-> ordinal, from |-> active, to |-> frontier[i]]

\* Mutated form of Insertable: the ordinal is not looked at.
InsertableTwice(link) == \A x \in transitions : x = link \/ x.to # link.to

\* As in Journal: the same transition again, or a new ordinal and a new output.
Insertable(link) ==
  \A x \in transitions : IF x.ordinal = link.ordinal THEN x = link ELSE x.to # link.to

\* Mutated form of Continue: the answers of the last frontier stay.
ContinueWithAnswers(i) ==
  /\ UNCHANGED <<status, jobs, attempts, frontier, answers>>
  /\ failed' = error'
  /\ Search!Answered(i)

\* The search takes the answers; an error keeps the next frontier from starting.
Continue(i) ==
  /\ UNCHANGED <<status, jobs, attempts>>
  /\ failed' = error'
  /\ frontier' = <<>> /\ answers' = <<>>
  /\ Search!Answered(i)

\* accept_transition, and the verdicts as they are to the search.
Commit(i) ==
  /\ Winner(i)
  /\ Insertable(Link(i))
  /\ transitions' = transitions \cup {Link(i)}
  /\ ordinal' = ordinal + 1
  /\ UNCHANGED <<setting, error>>
  /\ Continue(i)

\* The journal fails, or has another transition at this ordinal: no verdicts,
\* and an error.
Forgo ==
  /\ error' = TRUE
  /\ Continue(0)
  /\ UNCHANGED <<ordinal, transitions>>

FailCommit(i) ==
  /\ Winner(i)
  /\ setting.errors > 0
  /\ setting' = [setting EXCEPT !.errors = @ - 1]
  /\ Forgo

Refused(i) ==
  /\ Winner(i)
  /\ ~Insertable(Link(i))
  /\ UNCHANGED setting
  /\ Forgo

Reject ==
  /\ NoWinner
  /\ UNCHANGED <<setting, error>>
  /\ Continue(0)
  /\ UNCHANGED <<ordinal, transitions>>

\* A frontier after an error is not evaluated.
Void ==
  /\ status = "running"
  /\ failed
  /\ UNCHANGED <<setting, error>>
  /\ Continue(0)
  /\ UNCHANGED <<ordinal, transitions>>

Advance ==
  /\ status = "running"
  /\ UNCHANGED <<setting, status, error, jobs, frontier, answers, ordinal, journal>>
  /\ Search!Advance

\* Mutated form of End: first_error is not looked at.
EndDespiteError ==
  /\ status = "running"
  /\ stage = "done"
  /\ status' = "settled"
  /\ UNCHANGED <<setting, searchVars, error, jobs, frontier, answers, ordinal, journal>>

\* The run goes on from the retained units, or take_error finds an error.
End ==
  /\ status = "running"
  /\ stage = "done"
  /\ IF error
     THEN Forget /\ UNCHANGED setting
     ELSE /\ status' = "settled"
          /\ UNCHANGED <<setting, searchVars, error, jobs, frontier, answers, ordinal, journal>>

Settled == status = "settled" /\ UNCHANGED vars

RunStep ==
  \/ Ask
  \/ \E i \in 1..Len(frontier) :
       \/ SkipCandidate(i) \/ UseCached(i) \/ RunCandidate(i)
       \/ Commit(i) \/ Refused(i)
  \/ Reject \/ Void \/ Advance \/ End

Next ==
  \/ Start \/ Crash
  \/ RunStep
  \/ \E i \in 1..Len(frontier) : FailCandidate(i) \/ FailCommit(i)
  \/ Settled

Spec == Init /\ [][Next]_vars

\* A run goes on, and whoever started it resumes it when it has stopped.
FairSpec == Spec /\ WF_vars(Start \/ RunStep)

-----------------------------------------------------------------------------
\* The type invariant of a run and its journal: answers are those of the
\* frontier at hand, and a run that has noticed an error asks nothing.
TypeOK ==
  /\ setting \in Setting
  /\ status \in {"stopped", "running", "settled"}
  /\ stage \in {"directories", "ddmin", "sweep", "done"}
  /\ active \subseteq Unit
  /\ group \in 1..(Len(Groups) + 1)
  /\ granularity \in Nat /\ granularity >= 2
  /\ position \in Nat
  /\ failed \in BOOLEAN /\ error \in BOOLEAN /\ (failed => error)
  /\ jobs \in Nat \ {0}
  /\ frontier # <<>> => ~failed /\ Search!Asking /\ frontier = Search!Frontier
  /\ answers \in [1..Len(frontier) -> Verdict \cup {"none"}]
  /\ ordinal \in Nat
  /\ attempts \in [Candidate -> Verdict \cup {"none"}]
  /\ transitions \subseteq [ordinal : Nat, from : Candidate, to : Candidate]

Length == Cardinality(transitions)

\* The transitions of the journal are one chain from the whole project down,
\* each to a smaller project that was seen to fail, whichever runs wrote them
\* (lib.rs:607-632).
ChainLinked ==
  /\ {x.ordinal : x \in transitions} = 0..(Length - 1)
  /\ \A x \in transitions :
       /\ x.to \subseteq x.from /\ x.to # x.from
       /\ attempts[x.to] = "preserved"
       /\ x.from = IF x.ordinal = 0 THEN Unit
                   ELSE (CHOOSE y \in transitions : y.ordinal = x.ordinal - 1).to

\* The command always gives a project the same verdict.
Steady == \A c \in Candidate : Cardinality(command[c]) = 1

\* The project that the journal's first n transitions lead to.
ProjectAfter(n) == IF n = 0 THEN Unit ELSE (CHOOSE x \in transitions : x.ordinal = n - 1).to

\* A run that goes on to its result stands on the chain, where as many transitions
\* lead as it has made; and with a steady command it has walked all of it, whatever
\* errors and crashes the runs met, so that the evidence it reports is about the
\* project that the journal ends with (lib.rs:635-640).  A command that wavers can
\* take a resumed run through other frontiers, of which none has the chain's next
\* project: see the README.
SettledOnChain ==
  status = "settled" =>
    /\ ordinal <= Length
    /\ active = ProjectAfter(ordinal)
    /\ Steady => ordinal = Length

\* A resumed run comes to the transitions its journal has, in their order: it is
\* never refused one (lib.rs:616-627).
ReplaysTheChain == \A i \in 1..Len(frontier) : Winner(i) => Insertable(Link(i))

\* With a steady command a resumed run is never refused, although it takes some
\* verdicts from the journal and runs what was inconclusive or lost once more,
\* with workers that finish in another order.  It is said of settings in which
\* only single workers meet errors: see the README.
SteadyReplays == Steady => ReplaysTheChain

Promise == INSTANCE Reduction
  WITH outcome <- command, kept <- ProjectAfter(Length), status <- IF status = "settled" THEN "settled" ELSE "searching"

\* Seen from the journal, all the runs together are one search: through crashes
\* and errors its project only shrinks, to projects that were seen to fail,
\* and it settles where no unit can be removed alone (lib.rs:507-639).
ImplementsReduction == Promise!ReductionSpec

\* With crashes and errors that come to an end, and a steady command, the search
\* comes to its result (in the same settings).
Finishes == Steady => <>(status = "settled")

=============================================================================
