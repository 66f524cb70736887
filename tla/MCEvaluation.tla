----------------------------- MODULE MCEvaluation -----------------------------
(***************************************************************************)
(* Requests with strict and flaky policies, the three modes of the oracle, *)
(* and commands that fail, pass, crash, hang, are slow, write too much or  *)
(* leave a descendant behind.  Streams are limited to three lines.         *)
(***************************************************************************)
EXTENDS Evaluation

Word(fragment, words) == [words |-> words, fragments |-> <<fragment>>]
Field(value) == [kind |-> "uuid", value |-> value, context |-> {"field"}]
Bare(value) == [kind |-> "uuid", value |-> value, context |-> {}]

MCFeatures ==
  [w \in {"", "Traceback", "ValueError", "TypeError", "assert", "failed"} |->
     CASE w = "Traceback" -> {"boilerplate", "message"}
       [] w \in {"ValueError", "TypeError"} -> {"root failure", "message"}
       [] w = "assert" -> {"assertion"}
       [] w = "failed" -> {"message"}
       [] OTHER -> {}]

MCScore ==
  [w \in DOMAIN MCFeatures |-> CASE w = "" -> 0 [] w = "failed" -> 22 [] w = "assert" -> 23 [] OTHER -> 25]

Blank == Word(Bare("1"), "")
Trace(id) == <<Word(Bare("1"), "Traceback"), Blank, Word(Field(id), "ValueError")>>
Other(id) == <<Word(Bare(id), "TypeError")>>
Asserts(id) == <<Word(Bare(id), "assert"), Word(Field(id), "failed")>>

Program(stdout, stderr, exit, pace, leaves) ==
  [output |-> [stdout |-> stdout, stderr |-> stderr], exit |-> exit, pace |-> pace, leaves |-> leaves]

Passes == Program(<<>>, <<>>, "exit 0", "prompt", "none")
Fails(id) == Program(Asserts("1"), Trace(id), "exit 1", "prompt", "none")
FailsAlike(id) == Program(<<>>, Asserts("1") \o Other(id), "exit 1", "prompt", "none")
Crashes == Program(<<>>, Trace("1"), "signal 11", "prompt", "none")
Slow(id) == Program(Asserts("1"), Trace(id), "exit 1", "slow", "holding")
Hangs == Program(<<>>, Trace("1"), "exit 1", "hung", "holding")
Leaves == Program(Asserts("2"), Trace("2"), "exit 1", "prompt", "holding")
Noisy(exit) == Program(Asserts("1") \o Trace("1"), Trace("1"), exit, "prompt", "none")

FourOfFive == [runs |-> 5, required |-> 4]

SpecOf(mode, channel, failure, reject) ==
  [mode |-> mode, channel |-> channel, failure |-> failure, reject |-> reject]
Automatic(channel) == SpecOf("automatic", channel, {}, {})

Unprepared == [whole |-> <<>>, cut |-> <<>>]
Command(programs) == [isolated |-> FALSE, programs |-> programs]
Isolated(programs) == [isolated |-> TRUE, programs |-> programs]

Ask(rule, spec, whole, cut, preparation, errors, restarts) ==
  [policy |-> rule, spec |-> spec, behaviour |-> [whole |-> whole, cut |-> cut],
   probe |-> {}, preparation |-> preparation, found |-> [whole |-> TRUE, cut |-> TRUE],
   errors |-> errors, restarts |-> restarts]

Cuts == {Fails("2"), FailsAlike("2"), Passes, Crashes, Slow("2"), Hangs, Leaves, Noisy("exit 1")}

\* Every two ways in which a candidate may run.
StrictRequests ==
  {Ask(Strict, Automatic(channel), {Fails("1"), Fails("2")}, {a, b}, Unprepared, 0, 1) :
     channel \in {"auto", "combined"}, a, b \in Cuts}
    \cup {Ask(Strict, Automatic("stderr"), {Fails("1"), FailsAlike("1")}, {FailsAlike("2"), Fails("2")}, Unprepared, 0, 1),
          Ask(Strict, Automatic("auto"), {Fails("1"), Passes, Slow("1")}, {Fails("2"), Slow("2")}, Unprepared, 1, 1),
          Ask(Strict, SpecOf("regex", "stdout", {{"assert"}}, {{"TypeError"}}), {Fails("1"), Fails("2")}, {Fails("1"), Passes},
                  [whole |-> <<Command({Passes})>>, cut |-> <<Command({Passes, Crashes})>>], 1, 1),
          Ask(Strict, SpecOf("exit_zero", "auto", {}, {}), {Passes, Noisy("exit 0")}, {Passes, Fails("1"), Crashes}, Unprepared, 1, 1)}

FlakyRequests ==
  {Ask(FourOfFive, Automatic("auto"), {Fails("1"), Passes}, {Fails("2"), Slow("2")}, Unprepared, 0, 1),
   Ask(FourOfFive, Automatic("combined"), {Fails("1"), Leaves, Crashes}, {Fails("2"), Leaves}, Unprepared, 1, 0),
   Ask(FourOfFive, SpecOf("regex", "auto", {{"ValueError"}, {"assert"}}, {}), {Fails("1"), FailsAlike("1")}, {Fails("2"), Hangs}, Unprepared, 0, 1),
   Ask(FourOfFive, Automatic("stderr"), {Fails("1"), FailsAlike("1")}, {Fails("2")},
           [whole |-> <<>>, cut |-> <<Command({Passes, Crashes})>>], 0, 1)}

\* An environment is made and filled for each run; the program may be cut away.
IsolatedRequest(probe, install, foundInCut) ==
  [Ask(Strict, Automatic("stderr"), {Fails("1")}, {Fails("2")},
           [whole |-> <<Isolated({Passes}), Isolated({Passes})>>, cut |-> <<Isolated({Passes}), Isolated(install)>>], 0, 1)
     EXCEPT !.probe = probe, !.found["cut"] = foundInCut]

IsolatedRequests ==
  {IsolatedRequest({Passes, Noisy("exit 0")}, {Passes, Noisy("exit 0"), Slow("1")}, TRUE),
   IsolatedRequest({Passes}, {Passes}, FALSE)}

MCRequests == StrictRequests \cup FlakyRequests \cup IsolatedRequests

\* A flaky policy, and a command whose exit code is enough.
LooseRequests ==
  {Ask(FourOfFive, Automatic("auto"), {Fails("1"), Passes}, {Fails("1"), Passes}, Unprepared, 0, 0)}

=============================================================================
