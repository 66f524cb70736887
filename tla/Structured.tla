----------------------------- MODULE Structured -----------------------------
(***************************************************************************)
(* The structured reduction that follows the file search (reduce and       *)
(* evaluate_frontier, crates/reprocut-engine/src/lib.rs:925-1059), up to   *)
(* the final verification (lib.rs:662-691).  For the project at hand it    *)
(* evaluates the manifest edits, then the deletions, then the hoists, and  *)
(* starts over from the manifests after every cut.  As in Session a run    *)
(* can stop and be resumed from the journal, and it replays its cuts.      *)
(*                                                                         *)
(* A candidate is run after preparation, which may rewrite it: what is     *)
(* observed, and kept, is the prepared project, while verdicts are cached  *)
(* for the candidate.  Verdicts of one candidate come from several runs,   *)
(* each prepared anew; they are one step, like the aggregation of their    *)
(* verdicts, but for the lookup in the cache before them, since two        *)
(* workers can evaluate one candidate.  Evidence is what the journal       *)
(* compares.  A run starts where the file search has ended, with its       *)
(* ordinals counted from there.                                            *)
(***************************************************************************)
EXTENDS Naturals, Sequences, FiniteSets

CONSTANTS
  Project,       \* project contents, by digest
  Origin,        \* the file search's result
  Refused,       \* a preparation command fails
  Offers,        \* the edits of a project in each phase, in the order of their keys
  Preserved,     \* evidence, by verdict
  Rejected,
  Inconclusive,
  Refusal,       \* the evidence of a candidate that is refused or has no effect
  Unsteady,      \* the evidence of one whose preparations differ
  Settings       \* a command and a preparation, and the --jobs, errors and crashes met

Evidence == Preserved \cup Rejected \cup Inconclusive
Terminal == Preserved \cup Rejected
Verdict == {"preserved", "rejected", "inconclusive"}
Phase == {"manifests", "delete", "hoist"}

\* prepared: the candidate brings preparation commands of its own.
Candidate == [edit : Project, prepared : BOOLEAN]

Setting ==
  [command : [Project -> SUBSET Evidence], preparation : [Candidate -> SUBSET (Project \cup {Refused})],
   jobs : SUBSET (Nat \ {0}), errors : Nat, crashes : Nat]

ASSUME StructuredAssumption ==
  /\ Origin \in Project /\ Refused \notin Project
  /\ Offers \in [Project -> [Phase -> Seq(Candidate)]]
  /\ Preserved \cap (Rejected \cup Inconclusive) = {} /\ Rejected \cap Inconclusive = {}
  /\ Refusal \in Rejected /\ Unsteady \in Inconclusive
  /\ Settings \subseteq Setting

VARIABLES
  setting,        \* what is left of errors and crashes shrinks
  status,         \* "stopped", "running" or "settled"
  jobs,           \* --jobs of this run
  project,        \* the current snapshot
  accepted,       \* accepted_material_digests
  phase,          \* a Phase, or "verify"
  frontier,       \* the candidates at hand
  answers,        \* for each "none", "running" or the verdict on it
  realized,       \* what preserved candidates of this frontier were run as
  error,          \* first_error is set
  ordinal,        \* of the run's next transition
  attempts,       \* the journal: the latest evidence on each candidate recorded
  transitions     \* the journal: [ordinal, from, to, candidate]

command == setting.command
preparation == setting.preparation

journal == <<attempts, transitions>>
place == <<project, accepted, phase, ordinal>>
work == <<frontier, answers, realized, error>>
vars == <<setting, status, jobs, place, work, journal>>

VerdictOf(e) ==
  IF e \in Preserved THEN "preserved" ELSE IF e \in Rejected THEN "rejected" ELSE "inconclusive"

With(f, c, x) == [d \in DOMAIN f \cup {c} |-> IF d = c THEN x ELSE f[d]]

Empty == [c \in {} |-> Origin]

Init ==
  /\ setting \in Settings
  /\ status = "stopped"
  /\ jobs = 1
  /\ project = Origin /\ accepted = {Origin}
  /\ phase = "manifests"
  /\ frontier = <<>> /\ answers = <<>>
  /\ realized = Empty
  /\ error = FALSE
  /\ ordinal = 0
  /\ attempts = Empty
  /\ transitions = {}

\* Mutated form of Leave: the verdicts are not cleared.
LeaveAnswers ==
  /\ frontier' = <<>> /\ UNCHANGED answers
  /\ realized' = Empty
  /\ error' = FALSE

\* The frontier's own state goes out of scope.
Leave ==
  /\ frontier' = <<>> /\ answers' = <<>>
  /\ realized' = Empty
  /\ error' = FALSE

\* What a run that stops leaves behind is the journal.
Stop ==
  /\ status' = "stopped"
  /\ jobs' = 1
  /\ project' = Origin /\ accepted' = {Origin}
  /\ phase' = "manifests"
  /\ ordinal' = 0
  /\ Leave
  /\ UNCHANGED journal

\* Mutated form of Start: a resumed run knows the journal's outputs as accepted.
StartKnowing ==
  /\ status = "stopped"
  /\ status' = "running"
  /\ jobs' \in setting.jobs
  /\ accepted' = {Origin} \cup {x.to : x \in transitions}
  /\ UNCHANGED <<setting, project, phase, ordinal, work, journal>>

\* Mutated form of Start: a resumed run counts on from the journal's transitions.
StartAtTip ==
  /\ status = "stopped"
  /\ status' = "running"
  /\ jobs' \in setting.jobs
  /\ ordinal' = Cardinality(transitions)
  /\ UNCHANGED <<setting, project, accepted, phase, work, journal>>

\* The run is started or resumed, and the file search has come to its result.
Start ==
  /\ status = "stopped"
  /\ status' = "running"
  /\ jobs' \in setting.jobs
  /\ UNCHANGED <<setting, place, work, journal>>

Crash ==
  /\ status = "running"
  /\ setting.crashes > 0
  /\ setting' = [setting EXCEPT !.crashes = @ - 1]
  /\ Stop

-----------------------------------------------------------------------------
\* The frontier on the workers.

After == [manifests |-> "delete", delete |-> "hoist", hoist |-> "verify"]

Searching == status = "running" /\ phase \in Phase

\* A phase that offers nothing is over.
SkipPhase ==
  /\ Searching
  /\ Offers[project][phase] = <<>>
  /\ phase' = After[phase]
  /\ UNCHANGED <<setting, status, jobs, project, accepted, ordinal, work, journal>>

Ask ==
  /\ Searching
  /\ frontier = <<>>
  /\ Offers[project][phase] # <<>>
  /\ frontier' = Offers[project][phase]
  /\ answers' = [i \in 1..Len(Offers[project][phase]) |-> "none"]
  /\ UNCHANGED <<setting, status, jobs, place, realized, error, journal>>

Asked == status = "running" /\ frontier # <<>>

\* canonicalize drops a candidate with the contents of the one before it.
Canonical(list) == {i \in 1..Len(list) : i = 1 \/ list[i - 1].edit # list[i].edit}
Planned == Canonical(frontier)
PreservedRanks == {i \in Planned : answers[i] = "preserved"}
Running == {i \in Planned : answers[i] = "running"}
Before(i) == {j \in Planned : j < i}

\* Workers take ranks in order; one that has seen a preserved rank takes none
\* above it, so that at most the others are still at work there.
Startable(i) ==
  /\ Asked
  /\ i \in Planned /\ answers[i] = "none"
  /\ \A j \in Before(i) : answers[j] # "none"
  /\ Cardinality(Running) + (IF Before(i) \cap PreservedRanks = {} THEN 0 ELSE 1) < jobs

Give(i, answer) == answers' = [answers EXCEPT ![i] = answer]

\* The journal, and the cache in memory, have a terminal verdict.
Conclusive(c) == c \in DOMAIN attempts /\ attempts[c] \in Terminal

\* After an error the workers answer without evaluating.
SkipCandidate(i) ==
  /\ Startable(i)
  /\ error
  /\ Give(i, "inconclusive")
  /\ UNCHANGED <<setting, status, jobs, place, frontier, realized, error, journal>>

Known(i) == ~frontier[i].prepared /\ frontier[i].edit \in accepted

\* The project has been this edit before: rejected, and not recorded.
RejectKnown(i) ==
  /\ Startable(i)
  /\ ~error
  /\ Known(i)
  /\ Give(i, "rejected")
  /\ UNCHANGED <<setting, status, jobs, place, frontier, realized, error, journal>>

UseCached(i) ==
  /\ Startable(i)
  /\ ~error /\ ~Known(i)
  /\ Conclusive(frontier[i])
  /\ Give(i, VerdictOf(attempts[frontier[i]]))
  /\ UNCHANGED <<setting, status, jobs, place, frontier, realized, error, journal>>

Begin(i) ==
  /\ Startable(i)
  /\ ~error /\ ~Known(i)
  /\ ~Conclusive(frontier[i])
  /\ Give(i, "running")
  /\ UNCHANGED <<setting, status, jobs, place, frontier, realized, error, journal>>

AtWork(i) == Asked /\ i \in Running

\* The evidence on a candidate whose preparations in its runs were these.
Observable(prepared) ==
  IF \E p, q \in prepared \ {Refused} : p # q THEN {Unsteady}
  ELSE UNION {IF p = Refused \/ p \in accepted THEN {Refusal} ELSE command[p] : p \in prepared}

\* Mutated form of Recordable: new evidence takes the place of a terminal one.
RecordableAlways(c, e) == c \in Candidate /\ e \in Evidence

\* The journal takes new evidence until there is a terminal one.
Recordable(c, e) == Conclusive(c) => attempts[c] = e

\* The candidate has been run and is recorded; what a preserved one was run
\* as is kept.  A refusal of the journal is an error.
Complete(i) ==
  /\ AtWork(i)
  /\ \E prepared \in SUBSET preparation[frontier[i]] : \E e \in Observable(prepared) :
       IF Recordable(frontier[i], e)
       THEN /\ Give(i, VerdictOf(e))
            /\ attempts' = With(attempts, frontier[i], e)
            /\ IF e \in Preserved
               THEN \E p \in prepared \ {Refused} : realized' = With(realized, frontier[i], p)
               ELSE UNCHANGED realized
            /\ UNCHANGED error
       ELSE /\ Give(i, "inconclusive")
            /\ error' = TRUE
            /\ UNCHANGED <<realized, attempts>>
  /\ UNCHANGED <<setting, status, jobs, place, frontier, transitions>>

\* The workspace, the runner or the journal fails: the candidate is not recorded.
FailCandidate(i) ==
  /\ AtWork(i)
  /\ setting.errors > 0
  /\ setting' = [setting EXCEPT !.errors = @ - 1]
  /\ error' = TRUE
  /\ Give(i, "inconclusive")
  /\ UNCHANGED <<status, jobs, place, frontier, realized, journal>>

-----------------------------------------------------------------------------
\* The frontier's decision, when its workers have ended.

Winner(i) ==
  /\ Asked
  /\ Running = {}
  /\ i \in PreservedRanks /\ \A j \in PreservedRanks : i <= j
  /\ \A j \in Before(i) : answers[j] # "none"

NoWinner ==
  /\ Asked
  /\ Running = {}
  /\ \A i \in Planned : answers[i] \notin {"none", "preserved"}

Decided == NoWinner \/ \E i \in Planned : Winner(i)

\* take_error: the first error ends the run, whatever the winner.
EndWithError ==
  /\ Decided
  /\ error
  /\ UNCHANGED setting
  /\ Stop

\* What the winner becomes: what it was run as, or for a verdict from the
\* journal what preparing it again yields.
Material(i) ==
  IF frontier[i] \in DOMAIN realized THEN {realized[frontier[i]]} ELSE preparation[frontier[i]]

Link(i, p) == [ordinal |-> ordinal, from |-> project, to |-> p, candidate |-> frontier[i]]

\* As in Journal: the same transition again, or a new ordinal and a new output.
Insertable(link) ==
  \A x \in transitions : IF x.ordinal = link.ordinal THEN x = link ELSE x.to # link.to

NextPhase == phase' = After[phase] /\ UNCHANGED <<project, accepted, ordinal>>

\* No rank is preserved, or the winner becomes a project that was there before.
\* Then the rest of the frontier is not looked at.
PassPhase ==
  /\ ~error
  /\ \/ NoWinner
     \/ \E i \in Planned : Winner(i) /\ Material(i) \cap accepted # {}
  /\ NextPhase
  /\ Leave
  /\ UNCHANGED <<setting, status, jobs, journal>>

\* Mutated form of Commit: the search goes on with the next phase.
CommitAndPass(i) ==
  /\ Winner(i)
  /\ ~error
  /\ \E p \in (Material(i) \ {Refused}) \ accepted :
       /\ Insertable(Link(i, p))
       /\ transitions' = transitions \cup {Link(i, p)}
       /\ project' = p
       /\ accepted' = accepted \cup {p}
  /\ ordinal' = ordinal + 1
  /\ phase' = After[phase]
  /\ Leave
  /\ UNCHANGED <<setting, status, jobs, attempts>>

\* Mutated form of Commit: the first error is looked at after the cut.
CommitDespiteError(i) ==
  /\ Winner(i)
  /\ \E p \in (Material(i) \ {Refused}) \ accepted :
       /\ Insertable(Link(i, p))
       /\ transitions' = transitions \cup {Link(i, p)}
       /\ project' = p
       /\ accepted' = accepted \cup {p}
  /\ ordinal' = ordinal + 1
  /\ phase' = "manifests"
  /\ Leave
  /\ UNCHANGED <<setting, status, jobs, attempts>>

\* accept_transition, and the search starts over from the manifests.
Commit(i) ==
  /\ Winner(i)
  /\ ~error
  /\ \E p \in (Material(i) \ {Refused}) \ accepted :
       /\ Insertable(Link(i, p))
       /\ transitions' = transitions \cup {Link(i, p)}
       /\ project' = p
       /\ accepted' = accepted \cup {p}
  /\ ordinal' = ordinal + 1
  /\ phase' = "manifests"
  /\ Leave
  /\ UNCHANGED <<setting, status, jobs, attempts>>

\* The winner can no longer be prepared, or the journal has another transition.
RefuseCut(i) ==
  /\ Winner(i)
  /\ ~error
  /\ \E p \in Material(i) : p = Refused \/ (p \notin accepted /\ ~Insertable(Link(i, p)))
  /\ UNCHANGED setting
  /\ Stop

FailCut(i) ==
  /\ Winner(i)
  /\ ~error
  /\ setting.errors > 0
  /\ setting' = [setting EXCEPT !.errors = @ - 1]
  /\ Stop

\* The final verification: the result is run once more.
Verify ==
  /\ status = "running"
  /\ phase = "verify"
  /\ \E e \in command[project] :
       IF e \in Preserved
       THEN /\ status' = "settled"
            /\ UNCHANGED <<setting, jobs, place, work, journal>>
       ELSE UNCHANGED setting /\ Stop

\* Listing the candidates or the verification fails.
FailAlone ==
  /\ status = "running"
  /\ frontier = <<>>
  /\ setting.errors > 0
  /\ setting' = [setting EXCEPT !.errors = @ - 1]
  /\ Stop

Settled == status = "settled" /\ UNCHANGED vars

RunStep ==
  \/ SkipPhase \/ Ask
  \/ \E i \in 1..Len(frontier) :
       \/ SkipCandidate(i) \/ RejectKnown(i) \/ UseCached(i) \/ Begin(i) \/ Complete(i)
       \/ Commit(i) \/ RefuseCut(i)
  \/ EndWithError \/ PassPhase \/ Verify

Next ==
  \/ Start \/ Crash
  \/ RunStep
  \/ \E i \in 1..Len(frontier) : FailCandidate(i) \/ FailCut(i)
  \/ FailAlone
  \/ Settled

Spec == Init /\ [][Next]_vars

\* A run goes on, and whoever started it resumes it when it has stopped.
FairSpec == Spec /\ WF_vars(Start \/ RunStep)

-----------------------------------------------------------------------------
\* The type invariant of a run and its journal: answers are those of the
\* frontier at hand, which is the one the project offers in this phase.
TypeOK ==
  /\ setting \in Setting
  /\ status \in {"stopped", "running", "settled"}
  /\ jobs \in Nat \ {0}
  /\ project \in accepted /\ accepted \subseteq Project
  /\ phase \in Phase \cup {"verify"}
  /\ frontier # <<>> => phase \in Phase /\ frontier = Offers[project][phase]
  /\ answers \in [1..Len(frontier) -> Verdict \cup {"none", "running"}]
  /\ DOMAIN realized \subseteq Candidate /\ \A c \in DOMAIN realized : realized[c] \in Project
  /\ error \in BOOLEAN /\ (error => frontier # <<>>)
  /\ ordinal \in Nat
  /\ DOMAIN attempts \subseteq Candidate /\ \A c \in DOMAIN attempts : attempts[c] \in Evidence
  /\ transitions \subseteq [ordinal : Nat, from : Project, to : Project, candidate : Candidate]

OfferedBy(p) == UNION {{Offers[p][ph][i] : i \in Canonical(Offers[p][ph])} : ph \in Phase}

Steady(cmd) == \A p \in Project : \E e \in cmd[p] : cmd[p] = {e}
Repeatable(prep) == \A c \in Candidate : \E p \in prep[c] : prep[c] = {p}
LeavesEdits(prep) == \A c \in Candidate : c.prepared \/ prep[c] = {c.edit}
OfferedOnce == \A p, q \in Project : \A c \in OfferedBy(p) \cap OfferedBy(q) : c.prepared => p = q
Settling(cmd, prep) == Steady(cmd) /\ Repeatable(prep) /\ LeavesEdits(prep) /\ OfferedOnce

Results(prep, p) == UNION {prep[c] \ {Refused} : c \in OfferedBy(p)}

\* The journal's transitions are one chain from the file search's result, whichever
\* runs wrote them: each goes on from the one before it, to a project that was
\* not there before, that a preserved candidate offered there becomes, and that
\* was seen to fail if preparation is repeatable (lib.rs:1050-1070).
ChainLinked ==
  /\ \A x \in transitions :
       /\ x.candidate \in OfferedBy(x.from) \cap DOMAIN attempts
       /\ attempts[x.candidate] \in Preserved
       /\ x.to \in preparation[x.candidate] /\ x.to # Origin
       /\ command[x.to] \cap Preserved # {} \/ ~Repeatable(preparation)
       /\ x.ordinal = 0 => x.from = Origin
       /\ x.ordinal # 0 => \E y \in transitions : y.ordinal = x.ordinal - 1 /\ y.to = x.from
       /\ \A k \in 0..x.ordinal : \E y \in transitions : y.ordinal = k
  /\ \A x, y \in transitions : x.ordinal = y.ordinal \/ x.to = y.to => x = y

\* A resumed run comes to the transitions its journal has, in their order,
\* with any number of workers and whatever errors they met: it is never
\* refused one (lib.rs:1026-1056).
ReplaysTheChain ==
  \A i \in 1..Len(frontier) :
    Winner(i) /\ ~error /\ Steady(command) /\ Repeatable(preparation) =>
      \A p \in (Material(i) \ {Refused}) \ accepted : Insertable(Link(i, p))

Outputs == {x.to : x \in transitions}
Tip ==
  IF transitions = {} THEN Origin
  ELSE (CHOOSE x \in transitions : \A y \in transitions : y.ordinal <= x.ordinal).to

\* A run that settles has made all the cuts of the journal, so that the chain it
\* reports leads to the project it keeps, also where verdicts waver
\* (lib.rs:1044-1056).
SettledOnChain ==
  status = "settled" /\ Repeatable(preparation) => project = Tip /\ \A x \in transitions : x.ordinal < ordinal

Promise == INSTANCE Fixpoint
  WITH kept <- Tip, visited <- {Origin} \cup Outputs,
       status <- IF status = "settled" THEN "settled" ELSE "searching"

\* Seen from the journal, all the runs together are one reduction: each cut is
\* an offered edit of the last one's result, new, and seen to fail, and the
\* end is a verified fixpoint of the edits (lib.rs:925-980, 662-691).
ImplementsFixpoint == Promise!FixpointSpec

\* With crashes and errors that come to an end, a steady failure is reduced to
\* a verified result: the fixpoint does not go round in circles.
Finishes ==
  Steady(command) /\ Repeatable(preparation) /\ command[Origin] \subseteq Preserved
    => <>(status = "settled")

\* "Only a preserved verdict can replace the current best snapshot."
\* (README.md:140): every output of the chain is a project that was seen to
\* fail when one of its edits was run.
OnlyPreservedReplaces == \A x \in transitions : command[x.to] \cap Preserved # {}

\* "ReproCut searches several layers until no explored transformation can make
\* the current result smaller" (README.md:93-94), for steady commands and
\* preparations.
LocallyMinimal ==
  status = "settled" /\ Steady(command) /\ Repeatable(preparation) =>
    \A p \in Results(preparation, project) \ accepted : command[p] \cap Preserved = {}

=============================================================================
