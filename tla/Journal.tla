------------------------------- MODULE Journal -------------------------------
(***************************************************************************)
(* The SQLite journal of crates/reprocut-state/src/lib.rs: processes open   *)
(* it (migrating old schemas, then creating, restarting or resuming a       *)
(* session) and their threads send commands to the writer of their process, *)
(* which runs each one as a transaction and replies.  Processes share the   *)
(* database file and stop at any point.                                     *)
(*                                                                          *)
(* A transaction is one step; SQLite serialises writers and a committed     *)
(* transaction survives a crash (WAL, synchronous = FULL).  A thread waits  *)
(* for its reply, so a queue holds at most one command of each thread and   *)
(* any of them may have been sent first.                                    *)
(***************************************************************************)
EXTENDS Naturals, Sequences

CONSTANTS
  Process,
  Thread,
  Host,           \* the process of each thread
  Contract,       \* session contract digests
  Candidate,      \* candidate digests
  Digest,         \* digests of project trees
  Preserved,      \* complete attempt records, by verdict
  Rejected,
  Inconclusive,
  Transition,     \* the transitions that callers may ask for
  None,
  MaxSessions,    \* bounds: sessions, and evidence per candidate before a
  MaxEvents       \* caller stops retrying

Evidence == Preserved \cup Rejected \cup Inconclusive
Terminal == Preserved \cup Rejected

ASSUME JournalAssumption ==
  /\ Host \in [Thread -> Process]
  /\ Terminal \cap Inconclusive = {} /\ Preserved \cap Rejected = {} /\ None \notin Evidence
  /\ Transition \subseteq [ordinal : Nat, from : Digest, to : Digest, candidate : Candidate]
  /\ MaxSessions \in Nat /\ MaxEvents \in Nat

SchemaVersion == 3
Identity == [contract : Contract, schema : {1, 2}]
Session == 1..MaxSessions
Row == Session \X Candidate
Mode == {"create", "restart", "resume"}

Command ==
  [op : {"record"}, candidate : Candidate, evidence : Evidence]
    \cup [op : {"accept"}, transition : Transition, evidence : Preserved]
    \cup [op : {"lookup"}, candidate : Candidate]

VARIABLES
  version,        \* PRAGMA user_version
  sessions,       \* contract and contract schema of each session
  attempts,       \* the tables, by session and candidate
  events,
  cache,
  transitions,
  process,        \* how far each process is with opening the journal
  command,        \* what each thread waits for, or None
  reply           \* what the writer answered, or None

tables == <<attempts, events, cache, transitions>>
vars == <<version, sessions, tables, process, command, reply>>

Idle == [step |-> "idle"]
Empty == [row \in Row |-> None]

\* A journal that a release with schema one or two left behind; only schema two
\* has the event log.
Legacy ==
  /\ version \in {1, 2}
  /\ \E c \in Contract : sessions = <<[contract |-> c, schema |-> 1]>>
  /\ \E c \in Candidate, e \in Evidence, retried \in Inconclusive \cup {None} :
       LET row == <<1, c>> IN
         /\ attempts = [Empty EXCEPT ![row] = e]
         /\ cache = IF e \in Terminal THEN [Empty EXCEPT ![row] = e] ELSE Empty
         /\ events = [r \in Row |->
              IF version = 1 \/ r # row THEN <<>>
              ELSE IF retried = None THEN <<e>> ELSE <<retried, e>>]
         /\ transitions \in {{}} \cup
              {{<<1, t>>} : t \in {x \in Transition : x.candidate = c /\ e \in Preserved}}

Init ==
  /\ \/ version = 0 /\ sessions = <<>> /\ attempts = Empty /\ cache = Empty
        /\ events = [row \in Row |-> <<>>] /\ transitions = {}
     \/ MaxSessions > 0 /\ Legacy
  /\ process = [p \in Process |-> Idle]
  /\ command = [t \in Thread |-> None]
  /\ reply = [t \in Thread |-> None]

-----------------------------------------------------------------------------
\* Opening the journal.

Step(p, state) == process' = [process EXCEPT ![p] = state]

\* The migrations still ahead of a database at version v.
Migrating(v, mode, contract) ==
  IF v < SchemaVersion
  THEN [step |-> "migrate", at |-> v, mode |-> mode, contract |-> contract]
  ELSE [step |-> "check", mode |-> mode, contract |-> contract]

ReadVersion(p) ==
  /\ process[p] = Idle
  /\ \E mode \in Mode, contract \in Contract : Step(p, Migrating(version, mode, contract))
  /\ UNCHANGED <<version, sessions, tables, command, reply>>

\* Mutated form of Migrate: migration 0002 does not copy the attempts.
MigrateWithoutBackfill(p) ==
  /\ process[p].step = "migrate"
  /\ IF version = process[p].at
     THEN /\ version' = version + 1
          /\ Step(p, Migrating(version + 1, process[p].mode, process[p].contract))
          /\ UNCHANGED events
     ELSE Step(p, Idle) /\ UNCHANGED <<version, events>>
  /\ UNCHANGED <<sessions, attempts, cache, transitions, command, reply>>

\* Each migration is a transaction.  One that another process has applied since
\* the version was read fails: its tables or columns exist.
Migrate(p) ==
  /\ process[p].step = "migrate"
  /\ IF version = process[p].at
     THEN /\ version' = version + 1
          /\ Step(p, Migrating(version + 1, process[p].mode, process[p].contract))
          /\ events' = IF version = 1
                       THEN [row \in Row |-> IF attempts[row] = None THEN <<>> ELSE <<attempts[row]>>]
                       ELSE events
     ELSE Step(p, Idle) /\ UNCHANGED <<version, events>>
  /\ UNCHANGED <<sessions, attempts, cache, transitions, command, reply>>

\* create refuses a journal that has a session; restart does not care.
CheckExisting(p) ==
  /\ process[p].step = "check"
  /\ process[p].mode \in {"create", "restart"}
  /\ Step(p, IF process[p].mode = "create" /\ sessions # <<>>
             THEN Idle
             ELSE [step |-> "insert", mode |-> process[p].mode, contract |-> process[p].contract])
  /\ UNCHANGED <<version, sessions, tables, command, reply>>

Opened(p, s) ==
  [step |-> "open", contract |-> process[p].contract, session |-> s]

InsertSession(p) ==
  /\ process[p].step = "insert"
  /\ Len(sessions) < MaxSessions
  /\ sessions' = Append(sessions, [contract |-> process[p].contract, schema |-> 2])
  /\ Step(p, Opened(p, Len(sessions) + 1))
  /\ UNCHANGED <<version, tables, command, reply>>

\* Mutated form of Resume: the contract is not compared.
ResumeAny(p) ==
  /\ process[p].step = "check"
  /\ process[p].mode = "resume"
  /\ Step(p, IF sessions # <<>> /\ sessions[Len(sessions)].schema = 2
             THEN Opened(p, Len(sessions))
             ELSE Idle)
  /\ UNCHANGED <<version, sessions, tables, command, reply>>

\* Only the newest session, and only under the contract it was started with.
Resume(p) ==
  /\ process[p].step = "check"
  /\ process[p].mode = "resume"
  /\ Step(p, IF sessions # <<>>
                /\ sessions[Len(sessions)] = [contract |-> process[p].contract, schema |-> 2]
             THEN Opened(p, Len(sessions))
             ELSE Idle)
  /\ UNCHANGED <<version, sessions, tables, command, reply>>

\* A crash loses what the threads had asked and what they were told; dropping
\* the store is a crash with nothing under way.
Crash(p) ==
  /\ process[p] # Idle
  /\ Step(p, Idle)
  /\ command' = [t \in Thread |-> IF Host[t] = p THEN None ELSE command[t]]
  /\ reply' = [t \in Thread |-> IF Host[t] = p THEN None ELSE reply[t]]
  /\ UNCHANGED <<version, sessions, tables>>

-----------------------------------------------------------------------------
\* The commands of an open journal.

SessionOf(t) == process[Host[t]].session
RowOf(t, c) == <<SessionOf(t), c>>

\* The bound on retries is on what callers ask, not on what the journal takes.
Send(t, c) ==
  /\ process[Host[t]].step = "open"
  /\ command[t] = None
  /\ c.op = "record" => Len(events[RowOf(t, c.candidate)]) < MaxEvents
  /\ command' = [command EXCEPT ![t] = c]
  /\ UNCHANGED <<version, sessions, tables, process, reply>>

Receive(t) ==
  /\ reply[t] # None
  /\ command' = [command EXCEPT ![t] = None]
  /\ reply' = [reply EXCEPT ![t] = None]
  /\ UNCHANGED <<version, sessions, tables, process>>

Reply(t, r) == reply' = [reply EXCEPT ![t] = r]
Ok == [is |-> "ok"]
Refused == [is |-> "refused"]

\* The writer takes a command of the kind op that it has not answered yet.
Taken(t, op) == command[t] # None /\ reply[t] = None /\ command[t].op = op

\* Mutated form of Recordable: terminal evidence is replaced as well.
RecordableAlways(row, e) == attempts[row] \in {None, e} \cup Evidence

\* record_attempt_evidence: evidence may be repeated, and replaced while it is
\* inconclusive.
Recordable(row, e) == attempts[row] \in {None, e} \cup Inconclusive

RecordEvidence(row, e) ==
  /\ attempts' = [attempts EXCEPT ![row] = e]
  /\ events' = IF attempts[row] = e THEN events ELSE [events EXCEPT ![row] = Append(@, e)]

\* Mutated form of InsertCache: the verdict is not looked at.
InsertCacheAlways(row, e) ==
  cache' = IF cache[row] = None THEN [cache EXCEPT ![row] = e] ELSE cache

InsertCache(row, e) ==
  cache' = IF e \in Terminal /\ cache[row] = None THEN [cache EXCEPT ![row] = e] ELSE cache

RecordAttempt(t) ==
  /\ Taken(t, "record")
  /\ LET row == RowOf(t, command[t].candidate)
         e == command[t].evidence
     IN  IF Recordable(row, e)
         THEN RecordEvidence(row, e) /\ InsertCache(row, e) /\ Reply(t, Ok)
         ELSE Reply(t, Refused) /\ UNCHANGED <<attempts, events, cache>>
  /\ UNCHANGED <<version, sessions, transitions, process, command>>

\* Mutated form of Insertable: the index on the output is missing.
InsertableAgain(s, t) ==
  \A x \in Transition : <<s, x>> \in transitions /\ x.ordinal = t.ordinal => x = t

\* The same transition may come again; otherwise its ordinal and its output are
\* new to the session.
Insertable(s, t) ==
  \A x \in Transition : <<s, x>> \in transitions =>
    IF x.ordinal = t.ordinal THEN x = t ELSE x.to # t.to

AcceptTransition(t) ==
  /\ Taken(t, "accept")
  /\ LET transition == command[t].transition
         row == RowOf(t, transition.candidate)
         e == command[t].evidence
     IN  IF Recordable(row, e) /\ Insertable(SessionOf(t), transition)
         THEN /\ RecordEvidence(row, e) /\ InsertCache(row, e) /\ Reply(t, Ok)
              /\ transitions' = transitions \cup {<<SessionOf(t), transition>>}
         ELSE Reply(t, Refused) /\ UNCHANGED tables
  /\ UNCHANGED <<version, sessions, process, command>>

\* The verdict comes from the cache and the run counts from the attempt.
LookupCache(t) ==
  /\ Taken(t, "lookup")
  /\ LET row == RowOf(t, command[t].candidate) IN
       Reply(t, IF cache[row] # None /\ attempts[row] # None
                THEN [is |-> "hit", verdict |-> cache[row], runs |-> attempts[row]]
                ELSE [is |-> "miss"])
  /\ UNCHANGED <<version, sessions, tables, process, command>>

Next ==
  \/ \E p \in Process :
       ReadVersion(p) \/ Migrate(p) \/ CheckExisting(p) \/ InsertSession(p) \/ Resume(p) \/ Crash(p)
  \/ \E t \in Thread :
       \/ \E c \in Command : Send(t, c)
       \/ RecordAttempt(t) \/ AcceptTransition(t) \/ LookupCache(t)
       \/ Receive(t)

Spec == Init /\ [][Next]_vars

-----------------------------------------------------------------------------
Answer ==
  {Ok, Refused, [is |-> "miss"]} \cup [is : {"hit"}, verdict : Terminal, runs : Evidence]

ProcessState ==
  {Idle} \cup [step : {"migrate"}, at : 0..2, mode : Mode, contract : Contract]
    \cup [step : {"check", "insert"}, mode : Mode, contract : Contract]
    \cup [step : {"open"}, contract : Contract, session : Session]

\* The type invariant of the tables and of the processes that share them; only
\* terminal evidence is cached (migrations/0001.sql:34, CHECK of cache_entries).
TypeOK ==
  /\ version \in 0..SchemaVersion
  /\ sessions \in Seq(Identity) /\ Len(sessions) <= MaxSessions
  /\ attempts \in [Row -> Evidence \cup {None}]
  /\ events \in [Row -> Seq(Evidence)]
  /\ cache \in [Row -> Terminal \cup {None}]
  /\ transitions \subseteq Session \X Transition
  /\ process \in [Process -> ProcessState]
  /\ command \in [Thread -> Command \cup {None}]
  /\ reply \in [Thread -> Answer \cup {None}]

\* The three tables that hold evidence tell the same story: an attempt is the
\* last of its events, and it is cached exactly when it is terminal
\* (record_attempt_evidence and insert_cache, lib.rs:833-934).
TablesAgree ==
  \A row \in Row :
    /\ version >= 2 =>
         attempts[row] = IF events[row] = <<>> THEN None ELSE events[row][Len(events[row])]
    /\ cache[row] = IF attempts[row] \in Terminal THEN attempts[row] ELSE None

\* A process only works on a session of the current contract schema that was
\* started under the contract it has itself, whatever other processes insert
\* meanwhile (create_inner and resume, lib.rs:509-582).
OwnContract ==
  \A p \in Process : process[p].step = "open" =>
    /\ process[p].session \in DOMAIN sessions
    /\ sessions[process[p].session] = [contract |-> process[p].contract, schema |-> 2]

\* What a thread was told still holds when it gets to use it, whatever the other
\* threads and processes did meanwhile: a cached verdict and its run counts, and
\* terminal evidence or a transition that was acknowledged (lib.rs:385-433).
AnswersStand ==
  \A t \in Thread : reply[t] # None =>
    /\ reply[t].is = "hit" =>
         LET row == RowOf(t, command[t].candidate) IN
           cache[row] = reply[t].verdict /\ attempts[row] = reply[t].verdict
             /\ reply[t].runs = reply[t].verdict
    /\ reply[t] = Ok /\ command[t].op = "record" /\ command[t].evidence \in Terminal =>
         attempts[RowOf(t, command[t].candidate)] = command[t].evidence
    /\ reply[t] = Ok /\ command[t].op = "accept" =>
         /\ attempts[RowOf(t, command[t].transition.candidate)] = command[t].evidence
         /\ <<SessionOf(t), command[t].transition>> \in transitions

\* Before the event log existed, an attempt was all the history there was.
History ==
  [row \in Row |-> IF version >= 2 THEN events[row]
                   ELSE IF attempts[row] = None THEN <<>> ELSE <<attempts[row]>>]

Promise == INSTANCE Ledger WITH history <- History, chain <- transitions

\* Through migrations, crashes, repeated messages and processes that share the
\* file, evidence is only added and never replaced once it is terminal, and
\* every transition rests on preserved evidence (lib.rs:757-934, migrations).
ImplementsLedger == Promise!LedgerSpec

\* create never hides a session that was there: "Returns StateError when ... an
\* existing session would be hidden" (lib.rs:493-494).
CreateHidesNothing ==
  [][\A p \in Process :
       process[p].step = "insert" /\ process[p].mode = "create" /\ process'[p].step = "open"
         => sessions = <<>>]_vars

=============================================================================
