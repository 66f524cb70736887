-------------------------------- MODULE Runner --------------------------------
(***************************************************************************)
(* One run of a command in a process group                                 *)
(* (ProcessRunner::run, crates/reprocut-runner/src/lib.rs:205-255): the    *)
(* runner polls for the leader's exit until the deadline, kills the group  *)
(* if the deadline has passed, and then waits for the readers of the two   *)
(* streams, which end when no process holds the streams any more.          *)
(*                                                                         *)
(* A program is what a command does in one run: it writes its lines, may   *)
(* leave a descendant behind, and exits, promptly, perhaps not before the  *)
(* deadline, or never.  Writing and reading a stream is one step; the      *)
(* limit on a stream is a number of lines.                                 *)
(***************************************************************************)
EXTENDS Naturals, Sequences

CONSTANTS
  MaxOutput   \* max_output_bytes

VARIABLES
  program,    \* what the command does
  leader,     \* "none", "running", "finishing", "exited" (not waited for) or "reaped"
  descendant, \* "none", "holding" the streams, or "detached" from them
  status,     \* of the leader: how it exits, or "killed"
  captured,   \* the lines retained of each stream
  truncated,  \* a line was not retained
  waiting,    \* "idle", "polling", "overdue", "killed", "joining", "returned" or "lost"
  timedOut,   \* the group was terminated
  runError    \* the run failed

runnerVars == <<program, leader, descendant, status, captured, truncated, waiting, timedOut, runError>>

NoOutput == [stream \in {"stdout", "stderr"} |-> <<>>]

NoProgram == [output |-> NoOutput, exit |-> "none", pace |-> "prompt", leaves |-> "none"]

Idle ==
  /\ program = NoProgram
  /\ leader = "none" /\ descendant = "none" /\ status = "none"
  /\ captured = NoOutput /\ truncated = FALSE
  /\ waiting = "idle" /\ timedOut = FALSE /\ runError = FALSE

BackToIdle ==
  /\ program' = NoProgram
  /\ leader' = "none" /\ descendant' = "none" /\ status' = "none"
  /\ captured' = NoOutput /\ truncated' = FALSE
  /\ waiting' = "idle" /\ timedOut' = FALSE /\ runError' = FALSE

Spawn(prog) ==
  /\ waiting = "idle"
  /\ program' = prog
  /\ leader' = "running"
  /\ waiting' = "polling"
  /\ UNCHANGED <<descendant, status, captured, truncated, timedOut, runError>>

-----------------------------------------------------------------------------
\* The processes.

Alive == leader \in {"running", "finishing"}

Kept(lines) == SubSeq(lines, 1, IF Len(lines) < MaxOutput THEN Len(lines) ELSE MaxOutput)

\* read_bounded goes on to the end of the stream.
Write ==
  /\ leader = "running"
  /\ leader' = "finishing"
  /\ captured' = [stream \in DOMAIN captured |-> Kept(program.output[stream])]
  /\ truncated' = \E stream \in DOMAIN captured : Len(program.output[stream]) > MaxOutput
  /\ descendant' = program.leaves
  /\ UNCHANGED <<program, status, waiting, timedOut, runError>>

Exit ==
  /\ leader = "finishing"
  /\ program.pace # "hung"
  /\ leader' = "exited" /\ status' = program.exit
  /\ UNCHANGED <<program, descendant, captured, truncated, waiting, timedOut, runError>>

Detach ==
  /\ descendant = "holding"
  /\ descendant' = "detached"
  /\ UNCHANGED <<program, leader, status, captured, truncated, waiting, timedOut, runError>>

DescendantExit ==
  /\ descendant # "none"
  /\ descendant' = "none"
  /\ UNCHANGED <<program, leader, status, captured, truncated, waiting, timedOut, runError>>

-----------------------------------------------------------------------------
\* The runner.

\* wait_until: try_wait has the status.
TryWait ==
  /\ waiting = "polling" /\ leader = "exited"
  /\ leader' = "reaped"
  /\ waiting' = "joining"
  /\ UNCHANGED <<program, descendant, status, captured, truncated, timedOut, runError>>

\* Mutated form of Expire: the deadline is for the first output.
ExpireSilent ==
  /\ waiting = "polling" /\ leader = "running"
  /\ program.pace # "prompt"
  /\ waiting' = "overdue" /\ timedOut' = TRUE
  /\ UNCHANGED <<program, leader, descendant, status, captured, truncated, runError>>

\* try_wait has nothing, and the deadline has passed.
Expire ==
  /\ waiting = "polling" /\ Alive
  /\ program.pace # "prompt"
  /\ waiting' = "overdue" /\ timedOut' = TRUE
  /\ UNCHANGED <<program, leader, descendant, status, captured, truncated, runError>>

\* Mutated form of KillGroup: the leader alone is killed.
KillLeader ==
  /\ leader' = "exited"
  /\ status' = IF Alive THEN "killed" ELSE status
  /\ UNCHANGED descendant

\* A leader that exited meanwhile is not killed again; its group is.
KillGroup ==
  /\ leader' = "exited"
  /\ status' = IF Alive THEN "killed" ELSE status
  /\ descendant' = "none"

Terminate ==
  /\ waiting = "overdue"
  /\ KillGroup
  /\ waiting' = "killed"
  /\ UNCHANGED <<program, captured, truncated, timedOut, runError>>

\* terminate waits for the leader.
Reap ==
  /\ waiting = "killed"
  /\ leader' = "reaped"
  /\ waiting' = "joining"
  /\ UNCHANGED <<program, descendant, status, captured, truncated, timedOut, runError>>

\* Both readers have come to the end of their streams.
Join ==
  /\ waiting = "joining" /\ descendant # "holding"
  /\ waiting' = "returned"
  /\ UNCHANGED <<program, leader, descendant, status, captured, truncated, timedOut, runError>>

\* Waiting fails: the group is killed and waited for as the child is dropped.
FailWaiting ==
  /\ waiting \in {"polling", "overdue"}
  /\ leader' = "reaped" /\ descendant' = "none"
  /\ status' = IF Alive THEN "killed" ELSE status
  /\ waiting' = "returned" /\ runError' = TRUE
  /\ UNCHANGED <<program, captured, truncated, timedOut>>

\* The kill fails as well: what runs is left, and the leader is waited for.
FailKilling ==
  /\ waiting \in {"polling", "overdue"}
  /\ waiting' = "lost" /\ runError' = TRUE
  /\ UNCHANGED <<program, leader, descendant, status, captured, truncated, timedOut>>

\* A reader fails: the child was waited for, and its group is left alone.
FailReading ==
  /\ waiting = "joining"
  /\ waiting' = "returned" /\ runError' = TRUE
  /\ UNCHANGED <<program, leader, descendant, status, captured, truncated, timedOut>>

\* The run has come back with an error.
Errored == runError /\ (waiting = "returned" \/ (waiting = "lost" /\ ~Alive))

\* termination_reason
Reason == IF timedOut THEN "timed out" ELSE status

Observation ==
  [termination |-> Reason, stdout |-> captured.stdout, stderr |-> captured.stderr, truncated |-> truncated]

\* What goes on in a run by itself.
RunnerStep == Write \/ Exit \/ TryWait \/ Expire \/ Terminate \/ Reap \/ Join
DescendantStep == Detach \/ DescendantExit

=============================================================================
