# Verification of ReproCut in TLA+

ReproCut takes a project whose test command fails and looks for a smaller
project that fails in the same way. This directory holds TLA+ models of the
parts of it that are hard to get right and hard to test, the TLC runs that
check them on small instances, and proofs, checked by TLAPS, that some of the
properties hold for every size.

    tlc -workers 2 -config MCJournal.cfg MCJournal      # check a run
    tlapm JournalProofs.tla                             # check the proofs of a module

`PROJECT.json` lists the runs, the source lines behind every definition, the
hazards found in the code with the properties that watch them, and, for every
property, a plausible bug (a "mutated form" in the module) that violates it.

## 1. The system and its parts

Paths are below `crates/` unless they name another directory. A reduction
(`reprocut-cli`) captures a snapshot of the project (`workspace`), observes the
failing command several times (`runner`), derives a fingerprint of the failure
(`core/oracle.rs`), and then searches (`engine`, `core/reducer.rs`). Each
candidate is written to a fresh directory, run, classified and counted by a
repetition policy (`core/policy.rs`). Candidates of one frontier run on worker
threads (`engine/scheduler.rs`). Verdicts and accepted cuts go through one
writer thread to SQLite (`state`), so that a run can be resumed. The result is
verified again and published as an artifact (`report`, `oci`, `cli`).

| Part | State | Operations | What is hard | What makes it correct | Here |
|---|---|---|---|---|---|
| Lowest-winner slot, `core/winner.rs` | an atomic rank | `claim`, `load` | races, weak exchange, stale loads | the slot ends at the lowest rank claimed | `LowestWinner` |
| Frontier scheduler, `engine/scheduler.rs` | a shared index, a bounded channel, verdict slots | `evaluate` on scoped threads | completion order, early stopping, back-pressure | the decision is that of a sequential evaluation; each candidate once; it returns | `FrontierScheduler`, `Frontier` |
| Reducer, `core/reducer.rs` | retained units, granularity, position | directory groups, ddmin, final sweep | boundaries of the granularity, non-monotone and flaky commands | only preserved cuts; locally irreducible; it ends | `Reducer`, `Reduction` |
| State journal, `state` | four tables, a schema version, a writer thread | open (migrate, create, restart, resume), record, accept, look up | several processes on one file, crashes between transactions, old schemas | terminal evidence is final; transitions rest on preserved evidence; answers stay true | `Journal`, `Ledger` |
| Reduction engine, `engine/lib.rs` | first error, caches, the transition counter | baselines, file search, structured fixpoint, final verification | resume replays the search against the journal; errors in the middle of a frontier | one chain of cuts whichever runs wrote it; it comes to a result | `Session` (file search), `Structured` (what follows it) |
| Structured pipeline, `engine/pipeline.rs` | candidate lists per phase | collect, order, deduplicate, prepare | equal results of different edits, preparations that vary | the project only becomes new projects that were seen to fail; the search ends | `Structured`, `Fixpoint` |
| Repetition policy, `core/policy.rs` | counts of verdicts | record, early decision, aggregate | thresholds, decisions taken early | observations end exactly when the outcome is inevitable | `Policy` |
| Failure oracle, `core/oracle.rs`, `diagnostic.rs` | the fingerprint | stabilise, classify | baselines that disagree, texts that vary | an oracle recognises the baselines it comes from | `Oracle`, `Diagnostic` (without the regular expressions) |
| Process runner, `runner` | a child, two pipe readers, a deadline | run, wait, kill | timeout against exit, descendants holding pipes | no process survives a timeout; the run returns | `Runner` |
| One observation, `engine/lib.rs`, `engine/python_isolation.rs` | baselines, oracle, evidence, preparation | probe, prepare, run, stabilise, decide, verify again | a resumed run with another oracle; failures in the middle | what is reported failed in the run that reports it | `Evaluation` |
| Transformations, `core/transformation.rs` | a set of edits | validate, apply | overlapping edits | an edit leaves all other bytes in place | `Transformation` |
| Workspace snapshot, `workspace` | captured files | inventory, capture, subset, edit | files changing meanwhile | a snapshot is made of whole files | `Snapshot`, `Hierarchy` (directory groups) |
| Report and verification, `report` | an artifact, its manifest | build, verify, check evidence | members that change between passes | what is confirmed was complete at one moment | `Verification`; the evidence in `Evaluation` |
| Command line, OCI export, `cli`, `oci` | staging directory, output path | reduce, gallery, export, verify | partial publication, others at the path | a directory appears only whole, in the place of nothing or an empty directory | `Publication` |
| Protocol and schemas, adapters, syntax, Python client, release scripts, editor and gallery tools | none, or files only | parsing, rendering, pumping, uploading | see section 5 | | not modelled |

How they interact. The engine calls the reducer with a callback; the callback
plans a frontier, calls the scheduler, and commits its winner to the journal
before the reducer sees the verdicts. Workers call the journal concurrently
through a channel to its one writer thread and wait for each reply. The slot is
shared by the workers of one frontier. Errors are not returned through the
reducer, which has no error path: the first is kept in `first_error`, from then
on every frontier is answered with no verdicts, and the engine looks at it when
the search has run out.

## 2. The modules

Layers, from the bottom, with the abstract specification each implements:

    LowestWinner <- FrontierScheduler  ==> Frontier      the decision of a frontier
                    Reducer            ==> Reduction     the project shrinks, then settles
                    Journal            ==> Ledger        terminal evidence and transitions are final
    Reducer      <- Session            ==> Reduction     all the runs on a journal are one search
                    Structured         ==> Fixpoint      and so are their structured reductions

    Diagnostic <- Oracle, Policy, Runner <- Evaluation   from a command to evidence
    Transformation <- Snapshot, Verification <- Publication   from a source to an output
    Hierarchy                                            the groups given to Reducer and Session

`Session` instantiates `Reducer`; it and `Structured` stand on what the first
and third abstract specifications say: a frontier's decision is the earliest
preserved rank whose predecessors have all answered (`Winner`, from `Frontier`),
and the journal's commands are atomic and keep terminal evidence (from `Ledger`).

### LowestWinner and FrontierScheduler

The slot is a sequence of writes; a load returns one of those the thread may
still see, the read half of an exchange the last one. The weak exchange can fail
for no reason. `FrontierScheduler` has one action per step of `evaluate` that
other threads can tell apart: `Sort`, `RefuseDuplicate`, `ReturnEmpty`, `Spawn`,
then for a worker `Take` (`fetch_add`), `Check` (the load of the slot),
`Evaluate`, `Claim`/`ClaimExchange`/`ClaimRetry`, `Send` (blocks on a full
channel), and for the caller `Receive` and `Finish`. `Frontier` is its contract
in three actions: refuse a duplicate rank, decide, nothing else.

### Reducer

One action per branch of `reduce_hierarchical_frontiers`. A frontier is
evaluated in one step, which `Frontier` justifies; `Evaluated(i)` says that the
verdicts of the candidates are such that the i-th is the earliest preserved one
(0 for none). The command is a function from sets of units to the verdicts it
may yield, so a flaky command is one with several. `failed` is the engine's
`first_error`. `Reduction` says that units only go to sets seen to fail, and
that, if the command always answers alike, the search settles where no single
unit can be removed. Nothing is assumed about the command being monotone.

### Journal

The tables `sessions`, `attempts`, `attempt_events`, `cache_entries` and
`transitions`, the schema version, and per process the state of `StateStore`
(opening, open, closed), the session it works on, the writer's mailbox and the
reply each of its threads is waiting for. `ReadVersion` and `Migrate` are
separate steps, since the version is read outside the migrations' transactions;
so are `CheckExisting` and `InsertSession`. The writer's commands are
one transaction each. A database may start at any schema version, with rows the
older program could have written. `Crash` takes a process at any point; what it
had not committed is lost. `Ledger` is the meaning: evidence per session and
candidate that becomes terminal once, and a set of transitions no two of which
share an ordinal or an output.

### Session

A run of the file search over its journal. `Start` is `create` or `resume`;
`Ask` plans a frontier; `SkipCandidate`, `UseCached`, `RunCandidate` and
`FailCandidate` are the ways the worker's callback answers a candidate;
`Commit`, `Refused`, `FailCommit`, `Reject` and `Void` are the ways the engine's
closure ends; each of these includes the step of the reducer that follows
(`Continue`, which is `Reducer`'s `Answered`); `Advance` is a step of the
reducer that asks nothing; `End` looks at the first error. `Crash` and an error
lose everything but the journal, and the next `Start` searches from the whole
project again. Abstractions:

- evaluating a candidate is one step; workers take candidates in rank order, and
  `Startable` bounds how many can be unanswered below the one taken;
- the journal is that of one session, with the verdict for the whole attempt;
- candidates are strict subsets of what is retained, so the set of digests that
  were already accepted never matters here;
- the in-memory cache has the journal's content, so only the journal is kept;
- baselines and the final verification are in `Evaluation`, the structured search
  in `Structured`; a run without a journal (`SessionMode` ephemeral) is not there.

`Groups` is a parameter; the runs compute it from paths with `Hierarchy`, which
is `DirectoryHierarchy` of the workspace. A path is the sequence of its bytes, and
directories of one depth are compared as whole paths, separator included.

### Structured

The search after the file search: manifest edits, then deletions, then hoists,
from the start again after each cut, then the final verification. `SkipPhase`
and `Ask` plan a frontier (`Canonical` is the removal of adjacent duplicates);
`SkipCandidate`, `RejectKnown`, `UseCached`, `Begin` with `Complete` or
`FailCandidate` are the ways a worker answers a rank; `EndWithError`,
`PassPhase`, `Commit`, `RefuseCut` and `FailCut` are the ways a frontier is
decided, and `Verify` is the end. A candidate is an edited project with or
without preparation commands; `preparation` says what preparing it may yield
(several outcomes where it depends on its environment, `Refused` where a command
of it fails), `command` what evidence running a project may yield. `Fixpoint` is
the contract: only new projects that an offered edit becomes and that were seen
to fail, and at the end no offered edit fails. Abstractions:

- the edits of a project are a constant (`Offers`), in the order of their keys;
- the runs of one candidate, with the repetition policy's decision, are one step
  after `Begin` looked into the cache, as two workers can hold one candidate;
- a run starts at the file search's result, with its ordinals counted from
  there; `Session` models how a run comes to it;
- a run without a journal is not there. The cache in memory has the journal's
  terminal verdicts, and `Complete` writes both.

### Evaluation, with Policy, Oracle, Diagnostic and Runner

The life of one candidate, from the command to the evidence. `Runner` is a run
of a command: the command's process (`Write`, `Exit`), what it leaves behind
(`Detach`, `DescendantExit`), and the runner that polls (`TryWait`, `Expire`),
kills the group (`Terminate`, `Reap`) and joins its readers (`Join`), or fails:
where waiting fails, the child is killed as it is dropped (`FailWaiting`); where
that kill fails too, its processes go on, and the drop waits for the leader
(`FailKilling`).
`Oracle` and `Diagnostic` are the fingerprint: lines of output with the fragments
in them that may vary, normalisation, the lines that all baselines share, and the
choice of anchors. `Policy` counts verdicts and decides. `Evaluation` puts them
together: `TakeProbe` and `Prepare` for isolated Python and for ecosystems,
`TakeBaseline` and `Stabilise`, `Observe`, `UseRecorded` and `Decide` for the
candidate, `ObserveFinal`, `Verify` and `Report` for the result. `FailRun` and
`CommandMissing` are errors, which end a run; `Resume` starts another one with
baselines of its own and the verdict the journal has. Abstractions:

- a line is its words and fragments; which patterns the words match and how they
  score is a constant (`Features`, `Score`). Regular expressions are not run;
- a limit on a stream is a number of lines, and writing a stream is one step;
- a program is what a command does in one run; it exits promptly, perhaps not
  before the deadline, or never;
- the candidate is one, and its parts of the search are those of `Session`;
- what a preparation installs is not looked at; the probe, each command and what
  counts as its success are.

### Publication, with Snapshot, Transformation and Verification

`Snapshot` captures a directory that another program edits: paths are looked for
one at a time (`LookAt`), a file is stamped, read byte by byte and stamped again
(`TakeStamp`, `ReadByte`, `TakeStampAgain`), and for a source the paths are
looked for again (`RescanEnds`). `Cut` is the subset and the edit of a snapshot,
with `Transformation`'s validation and byte ranges. `Verification` is the passes
over an artifact that another program edits: the manifest, the members, the
evidence, the derived members, the members again and the manifest again.
`Publication` composes them as the commands do: `reduce`, `gallery` without and
with the project (`gallery_source`), `export`, `verify`, and the engine's capture
of a prepared workspace. A builder's file lacks a member that an archive needs, is
cut short after these members, or is complete; the check of an archive cannot tell
the last two apart, and what another program put there may pass it as well. `Others` are the
other programs, at the source, in the artifact and at the output path; `Fail`
stands for any error or crash. Abstractions, and what they assume:

- each write of a file has a modification time of its own. Two writes within the
  clock's resolution that keep the length would not be noticed by the code;
- contents of an artifact's members go on to later ones and never come back. A
  member that is edited and put back between two passes would not be noticed;
- a member's content is the number of the artifact it belongs to, so that
  agreement of members is equality; all members of an artifact are known;
- the result of the search is any subset and any edit; staging a submission and
  copying a build context is one step, an artifact is staged member by member.

## 3. The runs

| Run | Checks | States | Bounds |
|---|---|---|---|
| `scheduler` | `TypeOK`, `EvaluatedOnce`, `ImplementsPromise`, `Terminates` | 282,587 | frontiers of up to three candidates (empty, out of order, repeated rank), any verdicts, 1 to 3 workers |
| `reducer` | `TypeOK`, `ImplementsReduction`, `Terminates` | 36,620 | four units, two nested directories, all cores plus two unrelated failing sets, flaky cores |
| `journal` | `TypeOK`, `TablesAgree`, `OwnContract`, `AnswersStand`, `ImplementsLedger` | about 550,000 | two processes with one thread each, two contracts, two sessions, two attempt events, one candidate, three clashing transitions, every schema version |
| `session` | `TypeOK`, `ChainLinked`, `SettledOnChain`, `SteadyReplays`, `ImplementsReduction`, `Finishes` | 228,668 | three units, one directory; steady commands, jobs 1 or 2, two crashes, or one worker, one crash and one error; wavering commands, jobs 1 or 2, one crash, one error |
| `structured` | `TypeOK`, `ChainLinked`, `ReplaysTheChain`, `SettledOnChain`, `ImplementsFixpoint`, `Finishes` | 83,146 | 48 projects: a dependency with its lock, up to two equal statements in a wrapper; steady and wavering commands; locks that vary or are refused, scripts that write code anew; jobs 1 or 2, one crash, one error |
| `evaluation` | `TypeOK`, `StopsWhenInevitable`, `RecognisesBaselines`, `VerifiedInThisRun`, `StrictIsPublishable`, `NoSurvivors`, `EndsUnlessHeld` | 95,853 | three of three and four of five; automatic, regex and exit-zero oracles on each stream; eight ways in which a command may run; preparations, a probe, a missing program; one error, also of a kill, one restart; streams of three lines |
| `artifact` | `TypeOK`, `SnapshotOfFiles`, `VerifiedAtOneMoment`, `OnlyWholeAppears` | 2,995,879 | three paths of two bytes (one optional, one excluded), two edits; nine edits of two files; three members, up to three edits; up to three steps of others at the output; submissions with and without the project |
| `journal_hidden` | `CreateHidesNothing`, violated | | as `journal` |
| `session_refused` | `ReplaysTheChain`, violated | | one worker, one crash, a wavering command |
| `structured_replaced` | `OnlyPreservedReplaces`, violated | | a lock of two outcomes, one worker, one crash |
| `structured_minimal` | `LocallyMinimal`, violated | | a script that writes a statement anew, one worker, no crash |
| `evaluation_flaky` | `VerifiedIsPublishable`, violated | | four of five, a command that fails now and then |

Why the bounds suffice. Three candidates on three workers give every pattern the
slot distinguishes: a lower rank that answers late, a worker that checks a stale
winner, one that stops, and a channel at its capacity. Four units let ddmin
refine once and then accept complements at a granularity above two, and let the
sweep cut more than one unit. Two processes suffice for every race
between a check and an insert. Transitions clash in their ordinal or in
their output. One crash puts every prefix of a run before a resumed one. Two
equal statements around a wrapper are the smallest project in which one
candidate is planned twice in a frontier, so that two workers run it at once;
with a dependency before them there is a cut, and a second frontier, in each
phase. Steady settings meet a crash and an error, wavering ones a crash. A policy
of three and one of five differ in whether a lost observation can be made up for;
eight behaviours in pairs give each order of outcomes that a policy can see. Two
edits of a file bring it back to its length; three edits of an artifact let a
member change behind each pass. For most safety properties the proofs
below lift the bounds.

`MaxSessions` and `MaxEvents` cap the journal's growing tables, `crashes` and
`errors` of a setting those of a run, `HostParallelism` the worker count. The
journal run uses symmetry among its two processes, each with one thread, and
among the two contracts; nothing distinguishes them, and the run checks no
liveness.

What the deeper properties say:

- `ImplementsPromise` (scheduler): the decision is the earliest preserved rank,
  and all ranks before it have a verdict, whatever the interleaving.
- `ImplementsReduction` (reducer): the sweep over single units is one pass and
  does not go back to earlier units after a cut. For commands that fail on some
  sets and not on their supersets this could leave a removable unit. It does not,
  since ddmin ended with every unit tried alone on the same set, so the sweep of
  a steady command cuts nothing (`SweepSettled` in the proof).
- `AnswersStand`: an answer on its way from the writer to a thread stays true
  until it is used, because terminal evidence is never replaced.
- `TablesAgree`: the current attempts, the event log and the cache tell one
  story, also after a migration that a crash split.
- `ChainLinked`, `SettledOnChain`: the transitions in the journal form one
  chain from the source project, even if several runs wrote it; a run that goes
  on to its result stands on that chain, and with a steady command at its end.
  The code compares only ordinals and outputs, so this holds by the search being
  replayed. With a wavering command the end may lie further on (finding 1).
- `ImplementsReduction` (session): with crashes and errors, the project at the
  chain's end still only shrinks to sets that were seen to fail, and settles
  where no single unit can be removed.
- `ReplaysTheChain` (structured): unlike the file search, the structured search
  looks at the first error before it commits (`EndWithError`), so errors met by
  any number of workers never make a resumed run choose another winner.
- `ImplementsFixpoint`: a cached verdict was given where the project was another
  one; the end is still a fixpoint if preparation leaves edits without commands
  as they are and a prepared edit is offered by one project only (`Settling`).
  Finding 4 is what happens without the first of these.
- `StopsWhenInevitable`: not one observation more or less than decides.
- `RecognisesBaselines`: the anchors are chosen from the first baseline by rank
  and category and are at most four; whatever is chosen, as many baselines as the
  policy requires contain all of it, although the final ranking mixes the lines of
  several streams and the anchors are cut at four.
- `VerifiedInThisRun`: a resumed run stabilises another oracle, under which the
  recorded verdict says nothing; its final verification makes up for that.
- `StrictIsPublishable`: the condition that the report puts on evidence is implied
  by what the engine verified. For flaky policies it is not (finding 5).
- `NoSurvivors`: also if the leader exits between the deadline and the kill. A kill
  that fails is an error of the run, of which it says nothing.
- `EndsUnlessHeld`: only a descendant that holds a pipe of a command that exited
  in time, or a command that could not be killed, keeps a run from its end.
- `SnapshotOfFiles`: each file of a snapshot was there at one moment of the
  capture, although it was read a byte at a time, and what an edit leaves is what
  the ranges say. `Edited` says it byte by byte, `ApplyReplacements` does it with a
  cursor over sorted operations of which only neighbours are compared.
- `VerifiedAtOneMoment`: six passes over a changing directory prove one moment
  at which everything agreed, although no pass saw it.
- `OnlyWholeAppears`: a directory appears at the output at once, whole, and in the
  place of nothing or of an empty directory, whoever fails and whatever comes to the
  path between the last look and the rename. An archive is not moved but written in
  place: that one is begun, or reported, only for an artifact that was complete is
  all that holds of it (see below for what does not).
- `Finishes` (structured): preparation may undo edits, and the search starts over
  after each cut; that accepted projects are remembered is what ends it.

### Fairness

- Scheduler: weak fairness for each worker's steps, for the caller's `Receive`
  and `Finish` and for starting. These are operating-system threads that
  block only on the channel, and the evaluation callback returns since runs
  have a timeout. A worker's view of the slot is refreshed at last.
- Reducer: weak fairness of `Next`; it is a sequential loop.
- Session and Structured: weak fairness of `Start \/ RunStep`: a run proceeds,
  and the user resumes one that stopped. Crashes and errors are not fair and are
  limited by the setting.
- Evaluation: `WF(EngineStep \/ RunnerMoves)`: the engine goes on, a command that
  exits does so, and deadlines pass. `[]<>~BaselinesComplete` is what weak fairness
  of `Stabilise` says, since it is enabled where the baselines are complete; so
  stated, TLC need not compute the oracle to know whether it is enabled. Nothing
  is assumed of descendants, and errors and restarts are not fair.
- Publication: no liveness; any step may fail.
- Journal: the run claims no liveness: its processes may close.

### Findings

1. `session_refused`: a resumed run can be refused its own chain, for good. A
   candidate that was inconclusive is retried on resume. If it is preserved this
   time and has a lower rank than the winner the journal recorded, the run
   commits a different transition at the same ordinal, and the journal answers
   "transition ordinal was reused with different evidence". The verdict is now
   conclusive and cached, so each further resume ends the same way. With two
   workers and one transient error this happens for a steady command too, which
   is why the steady settings of `session` combine errors with one worker only.
   The chain itself stays sound (`ChainLinked` holds in `session`).

   A resumed run of a wavering command can also end short of the chain. With ten
   units and the directory {1,2,3}, let the directory's cut be inconclusive in the
   first run and found again by ddmin as a complement, at granularity 4. That run
   goes on at granularity 3 and cuts {4,5,6}. After a crash, the next run takes the
   first cut in the directory stage, from its cached verdict, starts ddmin at
   granularity 2 and asks for chunks of 4, 2 and 1 of the 7 units: {4,5,6} is none
   of them, and it settles with one of the journal's two transitions. Of its result
   no unit can be removed alone, but the chain ends with a smaller project. TLC found
   this in an instance with that command; the bounds of `session` are below it, and
   `SettledOnChain` claims the chain's end for steady commands only.
2. `journal_hidden`: `create` checks that no session exists and then inserts its
   own in two statements. Two processes that create one journal at the same time
   both succeed, and the later session hides the earlier from `resume`, which the
   documentation of `create` excludes.
3. `structured_replaced`: a project that no run has observed can replace the
   current one. A winner whose verdict comes from the journal was not run in this
   frontier, so it is prepared again (`engine/src/lib.rs:1039`) and what that
   yields is kept, while the verdict is about an earlier preparation. If
   preparation depends on its environment, the two differ. README.md:140 of the
   repository says that only a preserved verdict replaces the current snapshot.
4. `structured_minimal`: if the winner of a frontier becomes a project that was
   accepted before, the frontier ends without a cut, though the ranks after the
   winner were not tried (`engine/src/lib.rs:1044`). A candidate whose scripts
   write the deleted code anew is offered again from its own result and wins
   its phase by its cached verdict; the edits after it are never tried, and the
   result is not the minimum that README.md:93-94 and 104 describe.

5. `evaluation_flaky`: under a flaky policy the final verification passes with
   some observations that do not show the failure, but evidence is valid only if
   all do (`report/src/evidence.rs:302`), so the reduction ends with "final
   observations do not prove publication" after all its work. README.md:132
   recommends that policy for commands that fail now and then. An exit-zero
   oracle has the same end where an accepted run was truncated.

Met while reading, and not stated as properties:

- Files are not tried again after structured edits, though README.md:93-94 can be
  read so.
- A preparation that fails is recorded as rejected (`engine/src/lib.rs:1221`), and
  an error of the runner ends the run, where README.md:99-101 speaks of
  inconclusive. That includes a candidate without the program that the command
  names (README.md:129 runs `./interesting.sh`): a search that cuts it away ends,
  and so does each run that resumes it (`CommandMissing`).
- An exit-zero oracle under a flaky policy always ends as an unstable diagnostic:
  baselines that succeed are left out of the pairs (`engine/src/lib.rs:750-758`).
- If a leader exits in time while a descendant holds a pipe, the readers outlast
  the deadline, and a descendant without a pipe survives (`Held`).
- A file edited after its own capture is not noticed: a snapshot is of whole
  files, but of no one moment (`workspace/src/lib.rs:202` speaks of a snapshot).
- A verdict recorded under another oracle is taken on resume; if the result then
  fails the final verification, each further resume ends the same way.
- A path with a colon is captured but refused by the manifest
  (`report/src/manifest.rs:489`), after the search.
- README.md:144 says "Existing output paths are not overwritten", as do
  `cli/src/main.rs:133` and `:187` of submissions and archives and
  `oci/src/lib.rs:411` ("Export is fail-closed and will not overwrite an existing
  path"). That is what the checks before the work find, not what is there after
  it: the rename replaces an empty directory that came after the last look
  (`Rename`), and a builder writes over anything that came since the one look of
  an export (`BuilderWrites`).
- `oci/src/lib.rs:172` speaks of "one real OCI archive" that is validated, but a file
  that ends after the headers of `oci-layout` and `index.json` is accepted, as the
  end of the file ends the loop (`:307`) and a payload that is too short is skipped
  unnoticed (`:324`). So a truncated archive is reported as exported
  (`ValidateArchive`), and so is a file of another program with such members.
- An artifact whose project was emptied is exported: only that the directory is
  there is asked for (`oci/src/lib.rs:139`).
- The gallery and the export read the artifact again after its verification.

## 4. What is proved

TLAPS checks these for every value of the constants, under the named
assumptions of the modules (finite sets, positive counts, `None` not a value).

- **`FrontierSchedulerProofs`**: `TypeCorrect`, `NoCandidateEvaluatedTwice`, and
  `SchedulerImplementsPromise`: any number of workers and candidates. The
  inductive invariant `IInv` relates where each index is (not taken, with one
  worker, in one message, received), what the slot can hold (only ranks
  that were preserved), and that an index is skipped only above a preserved one. The
  last is needed because the decision reads the slots, not the winner.
- **`ReducerProofs`**: `TypeCorrect`, which bounds the granularity by the retained
  units (two where fewer are left): a kept complement takes a whole part from the
  units and only one from the granularity, and yet leaves as many units as that
  asks for (`ComplementLeaves`); and `ReducerImplementsReduction` for every
  finite set of units, list of groups and command. The invariant `SweepSettled`
  says that with a steady command and no error the sweep starts where every unit
  has been tried alone; that needs the arithmetic of chunks (at a granularity of
  at least the number of units, each chunk is one unit).
- **`JournalProofs`**: `TypeCorrect`, `TablesAlwaysAgree`, `ContractsAreOwn`,
  `AnswersAlwaysStand`, and `JournalImplementsLedger`: any number of processes,
  threads, sessions and candidates. `IInv` adds to the checked invariants what a
  version of the schema says about its tables and what a process in each phase of
  opening knows.
- **`LedgerProofs`**: `LedgerIsHonest`: every behaviour of the ledger, hence of
  the journal, keeps terminal evidence, and each transition rests on preserved
  evidence.

- **`SessionProofs`**: `TypeCorrect`, `ChainAlwaysLinked`, `AlwaysSettlesOnChain`,
  `AlwaysReplays`, `AnswersAlwaysFit` and `SessionImplementsReduction`: every
  project, command and number of workers, any crashes and errors. `IInv` says that
  a run with n transitions stands where the journal's first n transitions lead
  (`OnChain`) and that a preserved answer is in the journal (`Recorded`). Facts
  about the search come from `ReducerProofs`, instantiated with the session's
  command: the type invariant, and that a candidate is a proper subset of what
  is retained (`FrontierProper`), which the first link of the chain needs.

  What runs of a steady command have in common is the second invariant,
  `SearchInv`. `AllAlike` says that there is one way through the search (`Walk`, a
  finite sequence of places each of which leads to the next), that every run
  stands on it, and that the journal has exactly the transitions taken on it. A
  way is extended by the run that is ahead; one that is behind finds its next place
  there, since a place leads to one place only (`OneWay`). An error can hide a
  preserved candidate and so put a transition off the way into the journal
  (`Misled`), but only at the way's last place, and then no run comes past it: the
  one that met the error ends, and those that resume choose otherwise and are
  refused, which is finding 1. So a run that settles is at the end of the way,
  which is the chain's. `AlwaysReplays` assumes `Calm`: settings with a steady
  command have single workers or no errors. Without it the property is false, again
  by finding 1. `AnswersFit` is what `Reducer` assumes of a decided frontier;
  with it each transition of a session is a step of `Reduction`, and a run that
  settles shows that the journal's project is minimal.

- **`StructuredProofs`**: `TypeCorrect`, `ChainAlwaysLinked`, `AlwaysReplays`,
  `SettledRunsOnChain` and `StructuredImplementsFixpoint`: every set of projects,
  list of edits, command and preparation, any workers, errors and crashes. The
  assumptions are that the kinds of evidence are disjoint and that the evidence of
  a refusal is a rejection, that of differing preparations inconclusive.
  `IInv` has to speak of what a run has passed on its way, because a
  resumed run comes to the journal's next cut only if nothing before it wins
  now. A rank is `Lost` where the candidate was known, is rejected for good, or
  yields something new that need not fail; a phase is `Passed` if its ranks are
  lost up to one that is preserved but not new (`Masked`). These hold
  for a project and what was accepted before it, and no later step ends them.
  `Behind` says that each transition won in its phase after the phases before it
  had been passed, `Ahead` that the run at hand has not passed the phase of the
  transition the journal has next. From these a phase that passes while its
  transition is ahead is a contradiction (`NotPassed`), which gives
  `SettledOnChain`; with steady commands the winner is that transition
  (`SameCut`); and at the end all ranks are lost (`NothingFails`), which
  gives the fixpoint.

- **`EvaluationProofs`**: `TypeCorrect`, `AlwaysStopsWhenInevitable`,
  `AlwaysRecognisesBaselines`, `AlwaysVerifiedInThisRun`, `StrictAlwaysPublishable`
  and `NeverSurvivors`: every policy that is allowed,
  every specification, command and preparation, any errors and restarts. `IInv` has a part for each piece of state: `RunnerSound`
  says what is known at each step of waiting (a run that was killed is overdue,
  one that returned was waited for), `RunSound` that nothing runs that is not
  wanted, so that each observation is counted while the outcome is open, and
  `FinalSound` that the counts of the final verification are those of the
  observations it kept, which is where a policy of three of three leaves no room.
  `AlwaysRecognisesBaselines` follows the anchors through the pipeline that chooses
  them: ranks are a bijection of the lines (`RankIs`, `OrderedIs`), filling takes
  from what is ranked (`FillIs`), and what is ranked was seen in each baseline that
  is counted (`StreamIs`, `AnchorsIs`). It needs of the constants that features have
  scores (`DiagnosticAssumption`).
- **`PublicationProofs`**: `TypeCorrect`, `AlwaysVerifiedAtOneMoment`,
  `OnlyWholeEverAppears` and `SnapshotsAlwaysOfFiles`: any number of members, any edits of source, artifact and
  output. Contents only grow, so a member that two passes saw alike was so in
  between (`Grown`). Evidence and derived members are read between the two
  passes and pinned by them (`Between`). When the second pass begins, either all
  is as it was seen, and then the artifact is complete at that moment
  (`CompleteNow`), or a member or the manifest has moved on, and the rest of the
  verification is bound to meet it (`Shows`). `Phases` says what the program has
  at each phase of a command, from which the theorem about the output follows.

  `SnapshotsAlwaysOfFiles` has an invariant of its own, `SInv`: versions only grow
  and each has one length (`Trees`), so as long as the file at hand has the version
  that was stamped, all that was read is of that version (`Reading`), and that it
  has it still is what the second stamp shows; a path that was never missing is
  either to be captured or has been (`NoneLeftOut`). What a cut leaves is a fact about data.
  Sorted operations that do not overlap their neighbours overlap no others
  (`ApartIs`); between two ranges bytes are kept, in them dropped (`Touched`,
  `Kept`, `Dropped`); so after i operations the code has what `Edited` leaves of
  the bytes before the cursor (`EditsLeave`). `SnapshotAssumption`: paths are
  numbers, and the operations asked for are finite sets with numbers for ranges.

Every invariant and action property of the passing runs is thus a theorem. Only
model-checked is liveness (`Terminates` twice, `Finishes` twice,
`EndsUnlessHeld`), which the prover does not handle. The library's induction
theorems cannot be used either; where a fact about all positions or lengths is
needed, the proofs take the least counterexample (`Least`, from
`NatLessThanWellFounded`) and show that there is none.

## 5. What is not modelled, and why

- Adapters, syntax, report pages, OCI layout: parsers and renderers. The edits
  they offer are the parameters `Offers` of `Structured` and `Cuts` of `Snapshot`.
- The regular expressions of oracle and normalisation: data; what they match is
  given by `Features` and by the context of a fragment.
- The protocol and the schemas: one request is read and run as a reduction, with
  an event before it and the others after it; that the baseline is stable is told
  only after publication (`cli/src/main.rs:516`).
- The Python client (`python/`), which pumps the streams of a subprocess, and the
  release scripts (`scripts/release`), which upload crates in the order of their
  dependencies: tools around the program, outside its crates.
- Isolated Python beyond its commands: the wheelhouse and the environments are
  files of an external installer.
- Containment on platforms without process groups, and memory orderings other
  than those of the slot: the code's other shared state is behind mutexes.
- `Session`, `Structured` and `Evaluation` each begin where the one before ends;
  they are not one module, as one instance of all three would be too small
  to have a case of any. That files are not tried again after structured edits is
  therefore a remark above and not a property.

What could follow: the end of a `Session` as the start of a `Structured`, with
the transitions of both in one chain.
