--------------------------- MODULE JournalProofs ---------------------------
(***************************************************************************)
(* Proofs about the journal, for any number of processes, threads and      *)
(* sessions: its tables agree, its answers stand, and it implements Ledger. *)
(***************************************************************************)
EXTENDS Journal, TLAPS

USE JournalAssumption

(***************************************************************************)
(* Facts about states of the right type.                                   *)
(***************************************************************************)
\* Only a migrated journal is worked on, and only by threads of processes that
\* have it open.
Opening ==
  /\ \A p \in Process : process[p].step \in {"check", "insert", "open"} => version = SchemaVersion
  /\ \A t \in Thread : command[t] # None => process[Host[t]].step = "open"
  /\ \A t \in Thread : reply[t] # None => command[t] # None

\* Every transition rests on a preserved attempt.
Authorized ==
  \A s \in Session, x \in Transition :
    <<s, x>> \in transitions => attempts[<<s, x.candidate>>] \in Preserved

\* Only a lookup is answered with a hit.
HitsAreLookups ==
  \A t \in Thread : reply[t] # None /\ reply[t].is = "hit" => command[t].op = "lookup"

IInv ==
  /\ TypeOK /\ Opening /\ TablesAgree /\ Authorized
  /\ OwnContract /\ HitsAreLookups /\ AnswersStand

LEMMA ProcessTypes ==
  ASSUME TypeOK, NEW p \in Process
  PROVE  /\ process[p].step = "migrate" =>
              process[p].at \in 0..2 /\ process[p].mode \in Mode /\ process[p].contract \in Contract
         /\ process[p].step \in {"check", "insert"} =>
              process[p].mode \in Mode /\ process[p].contract \in Contract
         /\ process[p].step = "open" =>
              process[p].session \in Session /\ process[p].contract \in Contract
BY DEF TypeOK, ProcessState, Idle

LEMMA CommandTypes ==
  ASSUME TypeOK, NEW t \in Thread, command[t] # None
  PROVE  /\ command[t] \in Command
         /\ command[t].op = "record" =>
              command[t].candidate \in Candidate /\ command[t].evidence \in Evidence
         /\ command[t].op = "lookup" => command[t].candidate \in Candidate
         /\ command[t].op = "accept" =>
              /\ command[t].transition \in Transition /\ command[t].evidence \in Preserved
              /\ command[t].transition.candidate \in Candidate
<1>1. command[t] \in Command
  BY DEF TypeOK
<1>2. \A x \in Transition : x.candidate \in Candidate
  OBVIOUS
<1> QED
  BY <1>1, <1>2 DEF Command

LEMMA RowType ==
  ASSUME TypeOK, Opening, NEW t \in Thread, command[t] # None, NEW c \in Candidate
  PROVE  SessionOf(t) \in Session /\ RowOf(t, c) \in Row
<1>1. Host[t] \in Process /\ process[Host[t]].step = "open"
  BY DEF Opening
<1> QED
  BY <1>1, ProcessTypes DEF SessionOf, RowOf, Row

LEMMA EvidenceKinds ==
  /\ Preserved \subseteq Terminal /\ Rejected \subseteq Terminal
  /\ Terminal \subseteq Evidence /\ Inconclusive \subseteq Evidence
  /\ \A e \in Terminal : e \notin Inconclusive /\ e # None
  /\ \A e \in Evidence : e # None /\ (e \in Terminal \/ e \in Inconclusive)
BY DEF Terminal, Evidence

(***************************************************************************)
(* The two commands that write.                                            *)
(***************************************************************************)
\* t writes evidence e about a candidate, or is refused and writes nothing.
Writes(t, row, e) ==
  /\ Recordable(row, e)
  /\ RecordEvidence(row, e)
  /\ InsertCache(row, e)

LEMMA WriteType ==
  ASSUME TypeOK, NEW t, NEW row \in Row, NEW e \in Evidence, Writes(t, row, e)
  PROVE  /\ attempts' \in [Row -> Evidence \cup {None}]
         /\ events' \in [Row -> Seq(Evidence)]
         /\ cache' \in [Row -> Terminal \cup {None}]
<1>1. attempts' \in [Row -> Evidence \cup {None}]
  BY DEF TypeOK, Writes, RecordEvidence
<1>2. events' \in [Row -> Seq(Evidence)]
  BY DEF TypeOK, Writes, RecordEvidence
<1>3. cache' \in [Row -> Terminal \cup {None}]
  BY DEF TypeOK, Writes, InsertCache
<1> QED
  BY <1>1, <1>2, <1>3

\* Terminal evidence stays what it is.
LEMMA WriteKeeps ==
  ASSUME TypeOK, TablesAgree, NEW t, NEW row \in Row, NEW e \in Evidence, Writes(t, row, e)
  PROVE  /\ attempts'[row] = e
         /\ \A r \in Row : attempts[r] \in Terminal =>
              attempts'[r] = attempts[r] /\ cache'[r] = cache[r]
<1>1. attempts' = [attempts EXCEPT ![row] = e] /\ attempts \in [Row -> Evidence \cup {None}]
  BY DEF TypeOK, Writes, RecordEvidence
<1>2. attempts[row] \in Terminal => e = attempts[row]
  BY EvidenceKinds DEF Writes, Recordable
<1>3. ASSUME NEW r \in Row, attempts[r] \in Terminal PROVE cache'[r] = cache[r]
  <2>1. cache[r] # None
    BY <1>3, EvidenceKinds DEF TablesAgree
  <2>2. cache \in [Row -> Terminal \cup {None}]
    BY DEF TypeOK
  <2> QED
    BY <2>1, <2>2 DEF Writes, InsertCache
<1> QED
  BY <1>1, <1>2, <1>3

LEMMA WriteAgrees ==
  ASSUME TypeOK, TablesAgree, NEW t, NEW row \in Row, NEW e \in Evidence, Writes(t, row, e),
         version = SchemaVersion
  PROVE  \A r \in Row :
    /\ attempts'[r] = IF events'[r] = <<>> THEN None ELSE events'[r][Len(events'[r])]
    /\ cache'[r] = IF attempts'[r] \in Terminal THEN attempts'[r] ELSE None
<1> SUFFICES ASSUME NEW r \in Row
             PROVE  /\ attempts'[r] = IF events'[r] = <<>> THEN None ELSE events'[r][Len(events'[r])]
                    /\ cache'[r] = IF attempts'[r] \in Terminal THEN attempts'[r] ELSE None
  OBVIOUS
<1>1. /\ attempts \in [Row -> Evidence \cup {None}] /\ events \in [Row -> Seq(Evidence)]
      /\ cache \in [Row -> Terminal \cup {None}]
  BY DEF TypeOK
<1>2. /\ attempts[r] = IF events[r] = <<>> THEN None ELSE events[r][Len(events[r])]
      /\ cache[r] = IF attempts[r] \in Terminal THEN attempts[r] ELSE None
  BY DEF TablesAgree, SchemaVersion
<1>3. /\ attempts' = [attempts EXCEPT ![row] = e]
      /\ events' = IF attempts[row] = e THEN events ELSE [events EXCEPT ![row] = Append(@, e)]
      /\ cache' = IF e \in Terminal /\ cache[row] = None THEN [cache EXCEPT ![row] = e] ELSE cache
  BY DEF Writes, RecordEvidence, InsertCache
<1>4. CASE r # row
  BY <1>1, <1>2, <1>3, <1>4
<1>5. CASE r = row
  <2>1. attempts'[r] = e
    BY <1>1, <1>3, <1>5
  <2>2. CASE attempts[row] = e
    BY <1>1, <1>2, <1>3, <1>5, <2>1, <2>2, EvidenceKinds
  <2>3. CASE attempts[row] # e
    <3>1. events'[r] = Append(events[r], e) /\ events[r] \in Seq(Evidence)
      BY <1>1, <1>3, <1>5, <2>3
    <3>2. events'[r] # <<>> /\ events'[r][Len(events'[r])] = e
      BY <3>1
    <3>3. attempts[row] \in {None} \cup Inconclusive
      BY <2>3 DEF Writes, Recordable
    <3>4. cache[row] = None
      BY <1>2, <1>5, <3>3, EvidenceKinds
    <3>5. cache'[r] = IF e \in Terminal THEN e ELSE None
      BY <1>1, <1>3, <1>5, <3>4
    <3> QED
      BY <2>1, <3>2, <3>5
  <2> QED
    BY <2>2, <2>3
<1> QED
  BY <1>4, <1>5

\* What an answered command did: either it wrote its evidence, or it wrote nothing.
LEMMA RecordEffect ==
  ASSUME TypeOK, Opening, NEW t \in Thread, RecordAttempt(t)
  PROVE  LET row == RowOf(t, command[t].candidate)
             e == command[t].evidence
         IN  /\ command[t] # None /\ command[t].op = "record" /\ reply[t] = None
             /\ row \in Row /\ e \in Evidence
             /\ \/ Writes(t, row, e) /\ reply' = [reply EXCEPT ![t] = Ok]
                \/ UNCHANGED <<attempts, events, cache>> /\ reply' = [reply EXCEPT ![t] = Refused]
             /\ UNCHANGED <<version, sessions, transitions, process, command>>
<1>1. command[t] # None /\ command[t].op = "record" /\ reply[t] = None
  BY DEF RecordAttempt, Taken
<1>2. command[t].candidate \in Candidate /\ command[t].evidence \in Evidence
  BY <1>1, CommandTypes
<1>3. RowOf(t, command[t].candidate) \in Row
  BY <1>1, <1>2, RowType
<1> QED
  BY <1>1, <1>2, <1>3 DEF RecordAttempt, Writes, Reply

LEMMA AcceptEffect ==
  ASSUME TypeOK, Opening, NEW t \in Thread, AcceptTransition(t)
  PROVE  LET x == command[t].transition
             s == SessionOf(t)
             row == RowOf(t, x.candidate)
             e == command[t].evidence
         IN  /\ command[t] # None /\ command[t].op = "accept" /\ reply[t] = None
             /\ row \in Row /\ s \in Session /\ x \in Transition /\ e \in Preserved
             /\ row = <<s, x.candidate>>
             /\ \/ /\ Writes(t, row, e) /\ reply' = [reply EXCEPT ![t] = Ok]
                   /\ Insertable(s, x) /\ transitions' = transitions \cup {<<s, x>>}
                \/ UNCHANGED tables /\ reply' = [reply EXCEPT ![t] = Refused]
             /\ UNCHANGED <<version, sessions, process, command>>
<1>1. command[t] # None /\ command[t].op = "accept" /\ reply[t] = None
  BY DEF AcceptTransition, Taken
<1>2. /\ command[t].transition \in Transition /\ command[t].evidence \in Preserved
      /\ command[t].transition.candidate \in Candidate
  BY <1>1, CommandTypes
<1>3. SessionOf(t) \in Session /\ RowOf(t, command[t].transition.candidate) \in Row
  BY <1>1, <1>2, RowType
<1>4. RowOf(t, command[t].transition.candidate) = <<SessionOf(t), command[t].transition.candidate>>
  BY DEF RowOf
<1> QED
  BY <1>1, <1>2, <1>3, <1>4 DEF AcceptTransition, Writes, Reply

LEMMA LookupEffect ==
  ASSUME TypeOK, Opening, NEW t \in Thread, LookupCache(t)
  PROVE  LET row == RowOf(t, command[t].candidate)
         IN  /\ command[t] # None /\ command[t].op = "lookup" /\ reply[t] = None
             /\ row \in Row
             /\ \/ /\ cache[row] # None /\ attempts[row] # None
                   /\ reply' = [reply EXCEPT ![t] =
                                  [is |-> "hit", verdict |-> cache[row], runs |-> attempts[row]]]
                \/ reply' = [reply EXCEPT ![t] = [is |-> "miss"]]
             /\ UNCHANGED <<version, sessions, tables, process, command>>
<1>1. command[t] # None /\ command[t].op = "lookup" /\ reply[t] = None
  BY DEF LookupCache, Taken
<1>2. command[t].candidate \in Candidate
  BY <1>1, CommandTypes
<1>3. RowOf(t, command[t].candidate) \in Row
  BY <1>1, <1>2, RowType
<1> QED
  BY <1>1, <1>2, <1>3 DEF LookupCache, Reply

(***************************************************************************)
(* Type correctness, with Opening as its strengthening.                    *)
(***************************************************************************)
LEMMA MigratingType ==
  ASSUME NEW v \in 0..SchemaVersion, NEW mode \in Mode, NEW contract \in Contract
  PROVE  /\ Migrating(v, mode, contract) \in ProcessState
         /\ Migrating(v, mode, contract).step \in {"check", "insert", "open"} => v = SchemaVersion
BY DEF Migrating, ProcessState, SchemaVersion

LEMMA InitType == ASSUME Init PROVE TypeOK /\ Opening
<1>1. CASE version = 0 /\ sessions = <<>> /\ attempts = Empty /\ cache = Empty
           /\ events = [row \in Row |-> <<>>] /\ transitions = {}
  <2>1. /\ version \in 0..SchemaVersion /\ sessions \in Seq(Identity) /\ Len(sessions) <= MaxSessions
        /\ transitions \subseteq Session \X Transition
    BY <1>1 DEF SchemaVersion
  <2>2. /\ attempts \in [Row -> Evidence \cup {None}] /\ cache \in [Row -> Terminal \cup {None}]
        /\ events \in [Row -> Seq(Evidence)]
    BY <1>1 DEF Empty
  <2> QED
    BY <2>1, <2>2 DEF Init, TypeOK, Opening, ProcessState, Idle
<1>2. CASE MaxSessions > 0 /\ Legacy
  <2>1. PICK c \in Candidate, e \in Evidence, retried \in Inconclusive \cup {None} :
          /\ attempts = [Empty EXCEPT ![<<1, c>>] = e]
          /\ cache = IF e \in Terminal THEN [Empty EXCEPT ![<<1, c>>] = e] ELSE Empty
          /\ events = [r \in Row |->
               IF version = 1 \/ r # <<1, c>> THEN <<>>
               ELSE IF retried = None THEN <<e>> ELSE <<retried, e>>]
          /\ transitions \in {{}} \cup
               {{<<1, t>>} : t \in {x \in Transition : x.candidate = c /\ e \in Preserved}}
    BY <1>2 DEF Legacy
  <2>2. /\ version \in 0..SchemaVersion /\ sessions \in Seq(Identity) /\ Len(sessions) <= MaxSessions
    BY <1>2 DEF Legacy, SchemaVersion, Identity
  <2>3. transitions \subseteq Session \X Transition
    <3>1. 1 \in Session
      BY <1>2 DEF Session
    <3> QED
      BY <2>1, <3>1
  <2>4. /\ attempts \in [Row -> Evidence \cup {None}] /\ cache \in [Row -> Terminal \cup {None}]
    BY <2>1 DEF Empty
  <2>5. events \in [Row -> Seq(Evidence)]
    <3>1. <<>> \in Seq(Evidence) /\ <<e>> \in Seq(Evidence)
          /\ (retried # None => <<retried, e>> \in Seq(Evidence))
      BY <2>1, EvidenceKinds
    <3> QED
      BY <2>1, <3>1
  <2> QED
    BY <2>2, <2>3, <2>4, <2>5 DEF Init, TypeOK, Opening, ProcessState, Idle
<1> QED
  BY <1>1, <1>2 DEF Init

LEMMA StepTo ==
  ASSUME TypeOK, NEW p \in Process, NEW state, Step(p, state)
  PROVE  process'[p] = state /\ process' = [process EXCEPT ![p] = process'[p]]
BY DEF TypeOK, Step

OpeningStep(p) == ReadVersion(p) \/ Migrate(p) \/ CheckExisting(p) \/ InsertSession(p) \/ Resume(p)

\* A process that opens the journal changes no attempt, no cache entry and no
\* transition.
LEMMA ProcessStepType ==
  ASSUME TypeOK, Opening, NEW p \in Process, OpeningStep(p)
  PROVE  /\ process' = [process EXCEPT ![p] = process'[p]] /\ process'[p] \in ProcessState
         /\ process'[p].step \in {"check", "insert", "open"} => version' = SchemaVersion
         /\ process[p].step # "open"
         /\ version \in 0..SchemaVersion /\ version' \in 0..SchemaVersion /\ version' >= version
         /\ sessions' \in Seq(Identity) /\ Len(sessions') <= MaxSessions
         /\ events' \in [Row -> Seq(Evidence)]
         /\ UNCHANGED <<attempts, cache, transitions, command, reply>>
<1>0. /\ version \in 0..SchemaVersion /\ sessions \in Seq(Identity) /\ Len(sessions) <= MaxSessions
      /\ events \in [Row -> Seq(Evidence)] /\ attempts \in [Row -> Evidence \cup {None}]
  BY DEF TypeOK
<1>1. CASE ReadVersion(p)
  <2>1. PICK mode \in Mode, contract \in Contract : Step(p, Migrating(version, mode, contract))
    BY <1>1 DEF ReadVersion
  <2>2. /\ process' = [process EXCEPT ![p] = process'[p]] /\ process'[p] \in ProcessState
        /\ process'[p].step \in {"check", "insert", "open"} => version = SchemaVersion
    BY <1>0, <2>1, StepTo, MigratingType
  <2>3. /\ process[p].step = "idle"
        /\ UNCHANGED <<version, sessions, attempts, events, cache, transitions, command, reply>>
    BY <1>1 DEF ReadVersion, Idle, tables
  <2> QED
    BY <1>0, <2>2, <2>3
<1>2. CASE Migrate(p)
  <2>1. /\ process[p].step = "migrate" /\ process[p].at \in 0..2
        /\ process[p].mode \in Mode /\ process[p].contract \in Contract
    BY <1>2, ProcessTypes DEF Migrate
  <2>2. CASE version = process[p].at
    <3>1. version + 1 \in 0..SchemaVersion
      BY <2>1, <2>2 DEF SchemaVersion
    <3>2. events' \in [Row -> Seq(Evidence)]
      <4>1. [row \in Row |-> IF attempts[row] = None THEN <<>> ELSE <<attempts[row]>>]
              \in [Row -> Seq(Evidence)]
        BY <1>0
      <4> QED
        BY <1>0, <1>2, <2>2, <4>1 DEF Migrate
    <3>3. /\ version' = version + 1
          /\ Step(p, Migrating(version + 1, process[p].mode, process[p].contract))
          /\ UNCHANGED <<sessions, attempts, cache, transitions, command, reply>>
      BY <1>2, <2>2 DEF Migrate
    <3>4. /\ process' = [process EXCEPT ![p] = process'[p]] /\ process'[p] \in ProcessState
          /\ process'[p].step \in {"check", "insert", "open"} => version' = SchemaVersion
      BY <2>1, <3>1, <3>3, StepTo, MigratingType
    <3> QED
      BY <1>0, <2>1, <3>1, <3>2, <3>3, <3>4
  <2>3. CASE version # process[p].at
    <3>1. /\ Step(p, Idle) /\ UNCHANGED <<version, events>>
          /\ UNCHANGED <<sessions, attempts, cache, transitions, command, reply>>
      BY <1>2, <2>3 DEF Migrate
    <3>2. /\ process' = [process EXCEPT ![p] = process'[p]] /\ process'[p] \in ProcessState
          /\ process'[p].step = "idle"
      BY <3>1, StepTo DEF Idle, ProcessState
    <3> QED
      BY <1>0, <2>1, <3>1, <3>2
  <2> QED
    BY <2>2, <2>3
<1>3. CASE CheckExisting(p)
  <2>1. process[p].step = "check" /\ process[p].mode \in Mode /\ process[p].contract \in Contract
    BY <1>3, ProcessTypes DEF CheckExisting
  <2>2. version = SchemaVersion
    BY <2>1 DEF Opening
  <2> DEFINE state == IF process[p].mode = "create" /\ sessions # <<>>
                      THEN Idle
                      ELSE [step |-> "insert", mode |-> process[p].mode, contract |-> process[p].contract]
  <2>3. state \in ProcessState
    BY <2>1 DEF ProcessState
  <2>4. /\ Step(p, state)
        /\ UNCHANGED <<version, sessions, attempts, events, cache, transitions, command, reply>>
    BY <1>3 DEF CheckExisting, tables
  <2> HIDE DEF state
  <2>5. process' = [process EXCEPT ![p] = process'[p]] /\ process'[p] \in ProcessState
    BY <2>3, <2>4, StepTo
  <2> QED
    BY <1>0, <2>1, <2>2, <2>4, <2>5
<1>4. CASE InsertSession(p)
  <2>1. process[p].step = "insert" /\ process[p].contract \in Contract /\ Len(sessions) < MaxSessions
    BY <1>4, ProcessTypes DEF InsertSession
  <2>2. version = SchemaVersion
    BY <2>1 DEF Opening
  <2>3. Opened(p, Len(sessions) + 1) \in ProcessState
    BY <1>0, <2>1 DEF Opened, ProcessState, Session
  <2>4. sessions' \in Seq(Identity) /\ Len(sessions') <= MaxSessions
    <3>1. sessions' = Append(sessions, [contract |-> process[p].contract, schema |-> 2])
      BY <1>4 DEF InsertSession
    <3>2. [contract |-> process[p].contract, schema |-> 2] \in Identity
      BY <2>1 DEF Identity
    <3> QED
      BY <1>0, <2>1, <3>1, <3>2
  <2>5. /\ Step(p, Opened(p, Len(sessions) + 1))
        /\ UNCHANGED <<version, attempts, events, cache, transitions, command, reply>>
    BY <1>4 DEF InsertSession, tables
  <2>6. process' = [process EXCEPT ![p] = process'[p]] /\ process'[p] \in ProcessState
    BY <2>3, <2>5, StepTo
  <2> QED
    BY <1>0, <2>1, <2>2, <2>4, <2>5, <2>6
<1>5. CASE Resume(p)
  <2>1. process[p].step = "check" /\ process[p].contract \in Contract
    BY <1>5, ProcessTypes DEF Resume
  <2>2. version = SchemaVersion
    BY <2>1 DEF Opening
  <2> DEFINE state == IF sessions # <<>>
                           /\ sessions[Len(sessions)] = [contract |-> process[p].contract, schema |-> 2]
                      THEN Opened(p, Len(sessions))
                      ELSE Idle
  <2>3. state \in ProcessState
    <3>1. sessions # <<>> => Len(sessions) \in Session
      BY <1>0 DEF Session
    <3> QED
      BY <2>1, <3>1 DEF Opened, ProcessState
  <2>4. /\ Step(p, state)
        /\ UNCHANGED <<version, sessions, attempts, events, cache, transitions, command, reply>>
    BY <1>5 DEF Resume, tables
  <2> HIDE DEF state
  <2>5. process' = [process EXCEPT ![p] = process'[p]] /\ process'[p] \in ProcessState
    BY <2>3, <2>4, StepTo
  <2> QED
    BY <1>0, <2>1, <2>2, <2>4, <2>5
<1> QED
  BY <1>1, <1>2, <1>3, <1>4, <1>5 DEF OpeningStep

\* The steps of the journal.
LEMMA Steps ==
  ASSUME Next
  PROVE  \/ \E p \in Process : OpeningStep(p)
         \/ \E p \in Process : Crash(p)
         \/ \E t \in Thread : \E c \in Command : Send(t, c)
         \/ \E t \in Thread : RecordAttempt(t)
         \/ \E t \in Thread : AcceptTransition(t)
         \/ \E t \in Thread : LookupCache(t)
         \/ \E t \in Thread : Receive(t)
BY DEF Next, OpeningStep

LEMMA TypeInduction ==
  ASSUME TypeOK, Opening, [Next]_vars
  PROVE  TypeOK' /\ Opening'
<1>0. /\ version \in 0..SchemaVersion /\ sessions \in Seq(Identity) /\ Len(sessions) <= MaxSessions
      /\ attempts \in [Row -> Evidence \cup {None}] /\ events \in [Row -> Seq(Evidence)]
      /\ cache \in [Row -> Terminal \cup {None}] /\ transitions \subseteq Session \X Transition
      /\ process \in [Process -> ProcessState] /\ command \in [Thread -> Command \cup {None}]
      /\ reply \in [Thread -> Answer \cup {None}]
  BY DEF TypeOK
<1>a. /\ Ok \in Answer /\ Refused \in Answer /\ [is |-> "miss"] \in Answer
      /\ \A v \in Terminal, r \in Evidence : [is |-> "hit", verdict |-> v, runs |-> r] \in Answer
  BY DEF Answer
<1>1. ASSUME NEW p \in Process, OpeningStep(p) PROVE TypeOK' /\ Opening'
  <2>1. /\ process' = [process EXCEPT ![p] = process'[p]] /\ process'[p] \in ProcessState
        /\ process'[p].step \in {"check", "insert", "open"} => version' = SchemaVersion
        /\ process[p].step # "open"
        /\ version \in 0..SchemaVersion /\ version' \in 0..SchemaVersion /\ version' >= version
        /\ sessions' \in Seq(Identity) /\ Len(sessions') <= MaxSessions
        /\ events' \in [Row -> Seq(Evidence)]
        /\ UNCHANGED <<attempts, cache, transitions, command, reply>>
    BY <1>1, ProcessStepType
  <2>2. process' \in [Process -> ProcessState]
    BY <1>0, <2>1
  <2>3. TypeOK'
    BY <1>0, <2>1, <2>2 DEF TypeOK
  <2>4. version = SchemaVersion => version' = SchemaVersion
    BY <2>1 DEF SchemaVersion
  <2>5. ASSUME NEW q \in Process, process'[q].step \in {"check", "insert", "open"}
        PROVE  version' = SchemaVersion
    <3>1. CASE q = p
      BY <2>1, <2>5, <3>1
    <3>2. CASE q # p
      <4>1. process'[q] = process[q]
        BY <1>0, <2>1, <3>2
      <4> QED
        BY <2>4, <2>5, <4>1 DEF Opening
    <3> QED
      BY <3>1, <3>2
  <2>6. ASSUME NEW t \in Thread, command'[t] # None PROVE process'[Host[t]].step = "open"
    BY <1>0, <2>1, <2>6 DEF Opening
  <2> QED
    BY <2>1, <2>3, <2>5, <2>6 DEF Opening
<1>2. ASSUME NEW p \in Process, Crash(p) PROVE TypeOK' /\ Opening'
  <2>1. /\ process' = [process EXCEPT ![p] = Idle]
        /\ command' = [t \in Thread |-> IF Host[t] = p THEN None ELSE command[t]]
        /\ reply' = [t \in Thread |-> IF Host[t] = p THEN None ELSE reply[t]]
        /\ UNCHANGED <<version, sessions, attempts, events, cache, transitions>>
    BY <1>2 DEF Crash, Step, tables
  <2>2. Idle \in ProcessState /\ Idle.step = "idle"
    BY DEF ProcessState, Idle
  <2>3. TypeOK'
    BY <1>0, <2>1, <2>2 DEF TypeOK
  <2>4. \A q \in Process : process'[q].step \in {"check", "insert", "open"} => version' = SchemaVersion
    BY <1>0, <2>1, <2>2 DEF Opening
  <2>5. \A t \in Thread : command'[t] # None => process'[Host[t]].step = "open"
    BY <1>0, <2>1 DEF Opening
  <2>6. \A t \in Thread : reply'[t] # None => command'[t] # None
    BY <2>1 DEF Opening
  <2> QED
    BY <2>3, <2>4, <2>5, <2>6 DEF Opening
<1>3. ASSUME NEW t \in Thread, NEW c \in Command, Send(t, c) PROVE TypeOK' /\ Opening'
  BY <1>0, <1>3 DEF Send, TypeOK, Opening, tables
<1>4. ASSUME NEW t \in Thread, RecordAttempt(t) PROVE TypeOK' /\ Opening'
  <2> DEFINE row == RowOf(t, command[t].candidate)
             e == command[t].evidence
  <2>1. /\ command[t] # None /\ row \in Row /\ e \in Evidence
        /\ \/ Writes(t, row, e) /\ reply' = [reply EXCEPT ![t] = Ok]
           \/ UNCHANGED <<attempts, events, cache>> /\ reply' = [reply EXCEPT ![t] = Refused]
        /\ UNCHANGED <<version, sessions, transitions, process, command>>
    BY <1>4, RecordEffect
  <2> HIDE DEF row, e
  <2>2. /\ attempts' \in [Row -> Evidence \cup {None}] /\ events' \in [Row -> Seq(Evidence)]
        /\ cache' \in [Row -> Terminal \cup {None}]
    BY <1>0, <2>1, WriteType
  <2>3. reply' \in [Thread -> Answer \cup {None}]
    BY <1>0, <1>a, <2>1
  <2>4. TypeOK'
    BY <1>0, <2>1, <2>2, <2>3 DEF TypeOK
  <2>5. Opening'
    BY <1>0, <2>1 DEF Opening
  <2> QED
    BY <2>4, <2>5
<1>5. ASSUME NEW t \in Thread, AcceptTransition(t) PROVE TypeOK' /\ Opening'
  <2> DEFINE x == command[t].transition
             s == SessionOf(t)
             row == RowOf(t, x.candidate)
             e == command[t].evidence
  <2>1. /\ command[t] # None /\ row \in Row /\ s \in Session /\ x \in Transition /\ e \in Preserved
        /\ \/ /\ Writes(t, row, e) /\ reply' = [reply EXCEPT ![t] = Ok]
              /\ transitions' = transitions \cup {<<s, x>>}
           \/ UNCHANGED tables /\ reply' = [reply EXCEPT ![t] = Refused]
        /\ UNCHANGED <<version, sessions, process, command>>
    BY <1>5, AcceptEffect
  <2> HIDE DEF x, s, row, e
  <2>2. /\ attempts' \in [Row -> Evidence \cup {None}] /\ events' \in [Row -> Seq(Evidence)]
        /\ cache' \in [Row -> Terminal \cup {None}]
    BY <1>0, <2>1, WriteType, EvidenceKinds DEF tables
  <2>3. reply' \in [Thread -> Answer \cup {None}]
    BY <1>0, <1>a, <2>1
  <2>4. transitions' \subseteq Session \X Transition
    BY <1>0, <2>1 DEF tables
  <2>5. TypeOK'
    BY <1>0, <2>1, <2>2, <2>3, <2>4 DEF TypeOK
  <2>6. Opening'
    BY <1>0, <2>1 DEF Opening
  <2> QED
    BY <2>5, <2>6
<1>6. ASSUME NEW t \in Thread, LookupCache(t) PROVE TypeOK' /\ Opening'
  <2> DEFINE row == RowOf(t, command[t].candidate)
  <2>1. /\ command[t] # None /\ row \in Row
        /\ \/ /\ cache[row] # None /\ attempts[row] # None
              /\ reply' = [reply EXCEPT ![t] =
                             [is |-> "hit", verdict |-> cache[row], runs |-> attempts[row]]]
           \/ reply' = [reply EXCEPT ![t] = [is |-> "miss"]]
        /\ UNCHANGED <<version, sessions, tables, process, command>>
    BY <1>6, LookupEffect
  <2> HIDE DEF row
  <2>2. /\ UNCHANGED <<version, sessions, attempts, events, cache, transitions, process, command>>
    BY <2>1 DEF tables
  <2>3. reply' \in [Thread -> Answer \cup {None}]
    <3>1. cache[row] \in Terminal \cup {None} /\ attempts[row] \in Evidence \cup {None}
      BY <1>0, <2>1
    <3>2. PICK a \in Answer : reply' = [reply EXCEPT ![t] = a]
      BY <1>a, <2>1, <3>1
    <3> QED
      BY <1>0, <3>2
  <2>4. TypeOK'
    BY <1>0, <2>2, <2>3 DEF TypeOK
  <2>5. Opening'
    BY <1>0, <2>1, <2>2 DEF Opening
  <2> QED
    BY <2>4, <2>5
<1>7. ASSUME NEW t \in Thread, Receive(t) PROVE TypeOK' /\ Opening'
  BY <1>0, <1>7 DEF Receive, TypeOK, Opening, tables
<1>8. CASE UNCHANGED vars
  BY <1>0, <1>8 DEF vars, tables, TypeOK, Opening
<1> QED
  BY <1>1, <1>2, <1>3, <1>4, <1>5, <1>6, <1>7, <1>8, Steps

\* The tables and the processes that share them keep their types, for any number
\* of processes, threads, sessions and candidates.
THEOREM TypeCorrect == Spec => []TypeOK
<1>1. Init => TypeOK /\ Opening
  BY InitType
<1>2. TypeOK /\ Opening /\ [Next]_vars => TypeOK' /\ Opening'
  BY TypeInduction
<1> QED
  BY <1>1, <1>2, PTL DEF Spec

(***************************************************************************)
(* The inductive invariant.                                                *)
(***************************************************************************)
LEMMA Migrated ==
  ASSUME Opening, NEW t \in Thread, command[t] # None
  PROVE  version = SchemaVersion
BY DEF Opening

\* What opening does to the event log and to the sessions.
LEMMA OpeningEffect ==
  ASSUME NEW p, OpeningStep(p)
  PROVE  /\ \/ UNCHANGED <<version, events>>
            \/ /\ version' = version + 1
               /\ events' = IF version = 1
                            THEN [row \in Row |-> IF attempts[row] = None THEN <<>> ELSE <<attempts[row]>>]
                            ELSE events
         /\ sessions' = sessions \/ \E c : sessions' = Append(sessions, c)
BY DEF OpeningStep, ReadVersion, Migrate, CheckExisting, InsertSession, Resume, tables

LEMMA TablesInduction ==
  ASSUME TypeOK, Opening, TablesAgree, [Next]_vars
  PROVE  TablesAgree'
<1>1. ASSUME NEW p \in Process, OpeningStep(p) PROVE TablesAgree'
  <2>1. UNCHANGED <<attempts, cache>> /\ version \in 0..SchemaVersion
    BY <1>1, ProcessStepType
  <2>2. CASE UNCHANGED <<version, events>>
    BY <2>1, <2>2 DEF TablesAgree
  <2>3. CASE version' = version + 1 /\ version # 1 /\ UNCHANGED events
    BY <2>1, <2>3 DEF TablesAgree, SchemaVersion
  <2>4. CASE events' = [row \in Row |-> IF attempts[row] = None THEN <<>> ELSE <<attempts[row]>>]
    <3>1. ASSUME NEW row \in Row
          PROVE  attempts[row] = IF events'[row] = <<>> THEN None ELSE events'[row][Len(events'[row])]
      BY <2>4
    <3> QED
      BY <2>1, <3>1 DEF TablesAgree
  <2> QED
    BY <1>1, <2>2, <2>3, <2>4, OpeningEffect
<1>2. ASSUME NEW t \in Thread, RecordAttempt(t) PROVE TablesAgree'
  <2> DEFINE row == RowOf(t, command[t].candidate)
             e == command[t].evidence
  <2>1. /\ command[t] # None /\ row \in Row /\ e \in Evidence /\ version' = version
        /\ Writes(t, row, e) \/ UNCHANGED <<attempts, events, cache>>
    BY <1>2, RecordEffect
  <2> HIDE DEF row, e
  <2>2. version = SchemaVersion
    BY <2>1, Migrated
  <2>3. CASE Writes(t, row, e)
    BY <2>1, <2>2, <2>3, WriteAgrees DEF TablesAgree
  <2>4. CASE UNCHANGED <<attempts, events, cache>>
    BY <2>1, <2>4 DEF TablesAgree
  <2> QED
    BY <2>1, <2>3, <2>4
<1>3. ASSUME NEW t \in Thread, AcceptTransition(t) PROVE TablesAgree'
  <2> DEFINE row == RowOf(t, command[t].transition.candidate)
             e == command[t].evidence
  <2>1. /\ command[t] # None /\ row \in Row /\ e \in Evidence /\ version' = version
        /\ Writes(t, row, e) \/ UNCHANGED <<attempts, events, cache>>
    BY <1>3, AcceptEffect, EvidenceKinds DEF tables
  <2> HIDE DEF row, e
  <2>2. version = SchemaVersion
    BY <2>1, Migrated
  <2>3. CASE Writes(t, row, e)
    BY <2>1, <2>2, <2>3, WriteAgrees DEF TablesAgree
  <2>4. CASE UNCHANGED <<attempts, events, cache>>
    BY <2>1, <2>4 DEF TablesAgree
  <2> QED
    BY <2>1, <2>3, <2>4
<1>4. CASE UNCHANGED <<version, tables>>
  BY <1>4 DEF tables, TablesAgree
<1> QED
  BY <1>1, <1>2, <1>3, <1>4, Steps DEF Crash, Send, LookupCache, Receive, vars

\* Terminal evidence, its cache entry and transitions stay.
LEMMA Persistence ==
  ASSUME TypeOK, Opening, TablesAgree, [Next]_vars
  PROVE  /\ \A r \in Row : attempts[r] \in Terminal =>
              attempts'[r] = attempts[r] /\ cache'[r] = cache[r]
         /\ transitions \subseteq transitions'
<1>1. ASSUME NEW p \in Process, OpeningStep(p) PROVE UNCHANGED <<attempts, cache, transitions>>
  BY <1>1, ProcessStepType
<1>2. ASSUME NEW t \in Thread, RecordAttempt(t)
      PROVE  /\ \A r \in Row : attempts[r] \in Terminal =>
                  attempts'[r] = attempts[r] /\ cache'[r] = cache[r]
             /\ transitions \subseteq transitions'
  <2> DEFINE row == RowOf(t, command[t].candidate)
             e == command[t].evidence
  <2>1. /\ row \in Row /\ e \in Evidence /\ transitions' = transitions
        /\ Writes(t, row, e) \/ UNCHANGED <<attempts, events, cache>>
    BY <1>2, RecordEffect
  <2> HIDE DEF row, e
  <2> QED
    BY <2>1, WriteKeeps
<1>3. ASSUME NEW t \in Thread, AcceptTransition(t)
      PROVE  /\ \A r \in Row : attempts[r] \in Terminal =>
                  attempts'[r] = attempts[r] /\ cache'[r] = cache[r]
             /\ transitions \subseteq transitions'
  <2> DEFINE x == command[t].transition
             s == SessionOf(t)
             row == RowOf(t, x.candidate)
             e == command[t].evidence
  <2>1. /\ row \in Row /\ e \in Evidence
        /\ \/ Writes(t, row, e) /\ transitions' = transitions \cup {<<s, x>>}
           \/ UNCHANGED <<attempts, events, cache, transitions>>
    BY <1>3, AcceptEffect, EvidenceKinds DEF tables
  <2> HIDE DEF x, s, row, e
  <2> QED
    BY <2>1, WriteKeeps
<1>4. CASE UNCHANGED tables
  BY <1>4 DEF tables
<1> QED
  BY <1>1, <1>2, <1>3, <1>4, Steps DEF Crash, Send, LookupCache, Receive, vars

LEMMA AuthorizedInduction ==
  ASSUME TypeOK, Opening, TablesAgree, Authorized, [Next]_vars
  PROVE  Authorized'
<1> SUFFICES ASSUME NEW s \in Session, NEW x \in Transition, <<s, x>> \in transitions'
             PROVE  attempts'[<<s, x.candidate>>] \in Preserved
  BY DEF Authorized
<1>1. <<s, x.candidate>> \in Row
  BY DEF Row
<1>2. CASE <<s, x>> \in transitions
  BY <1>1, <1>2, Persistence, EvidenceKinds DEF Authorized
<1>3. CASE <<s, x>> \notin transitions
  <2>1. PICK t \in Thread : AcceptTransition(t)
    <3>1. ASSUME NEW p \in Process, OpeningStep(p) PROVE UNCHANGED transitions
      BY <3>1, ProcessStepType
    <3>2. ASSUME NEW t \in Thread, RecordAttempt(t) PROVE UNCHANGED transitions
      BY <3>2 DEF RecordAttempt
    <3> QED
      BY <1>3, <3>1, <3>2, Steps DEF Crash, Send, LookupCache, Receive, vars, tables
  <2> DEFINE y == command[t].transition
             z == SessionOf(t)
             row == RowOf(t, y.candidate)
             e == command[t].evidence
  <2>2. /\ row \in Row /\ e \in Preserved /\ row = <<z, y.candidate>>
        /\ \/ Writes(t, row, e) /\ transitions' = transitions \cup {<<z, y>>}
           \/ UNCHANGED transitions
    BY <2>1, AcceptEffect DEF tables
  <2> HIDE DEF y, z, row, e
  <2>3. Writes(t, row, e) /\ <<s, x>> = <<z, y>>
    BY <1>3, <2>2
  <2>4. s = z /\ x = y
    BY <2>3
  <2>5. attempts'[row] = e
    BY <2>2, <2>3, WriteKeeps, EvidenceKinds
  <2> QED
    BY <2>2, <2>4, <2>5
<1> QED
  BY <1>2, <1>3

LEMMA SessionsGrow ==
  ASSUME TypeOK, Opening, [Next]_vars
  PROVE  \A i \in DOMAIN sessions : i \in DOMAIN sessions' /\ sessions'[i] = sessions[i]
<1>1. sessions \in Seq(Identity) /\ sessions' \in Seq(Identity)
  BY TypeInduction DEF TypeOK
<1>2. sessions' = sessions \/ \E c : sessions' = Append(sessions, c)
  BY OpeningEffect, Steps DEF Crash, Send, RecordAttempt, AcceptTransition, LookupCache, Receive, vars
<1> QED
  BY <1>1, <1>2

LEMMA ContractInduction ==
  ASSUME TypeOK, Opening, OwnContract, [Next]_vars
  PROVE  OwnContract'
<1> SUFFICES ASSUME NEW q \in Process, process'[q].step = "open"
             PROVE  /\ process'[q].session \in DOMAIN sessions'
                    /\ sessions'[process'[q].session] = [contract |-> process'[q].contract, schema |-> 2]
  BY DEF OwnContract
<1>1. CASE process'[q] = process[q]
  BY <1>1, SessionsGrow DEF OwnContract
<1>2. CASE process'[q] # process[q]
  <2>0. process \in [Process -> ProcessState] /\ sessions \in Seq(Identity)
    BY DEF TypeOK
  <2>1. PICK p \in Process : OpeningStep(p)
    <3>1. ASSUME NEW p \in Process, Crash(p) PROVE process'[q] = process[q] \/ process'[q] = Idle
      BY <2>0, <3>1 DEF Crash, Step
    <3>2. Idle.step # "open"
      BY DEF Idle
    <3>3. ~ UNCHANGED process
      BY <1>2
    <3> QED
      BY <1>2, <3>1, <3>2, <3>3, Steps
         DEF Send, RecordAttempt, AcceptTransition, LookupCache, Receive, vars
  <2>2. process' = [process EXCEPT ![p] = process'[p]]
    BY <2>1, ProcessStepType
  <2>3. p = q
    BY <1>2, <2>0, <2>2
  <2>4. CASE InsertSession(q)
    <3>1. /\ sessions' = Append(sessions, [contract |-> process[q].contract, schema |-> 2])
          /\ process'[q] = Opened(q, Len(sessions) + 1)
      BY <2>4, StepTo DEF InsertSession
    <3>2. process'[q].session = Len(sessions) + 1 /\ process'[q].contract = process[q].contract
      BY <3>1 DEF Opened
    <3> QED
      BY <2>0, <3>1, <3>2
  <2>5. CASE Resume(q)
    <3>1. /\ sessions' = sessions
          /\ process'[q] = IF sessions # <<>> /\ sessions[Len(sessions)] =
                                 [contract |-> process[q].contract, schema |-> 2]
                           THEN Opened(q, Len(sessions)) ELSE Idle
      BY <2>5, StepTo DEF Resume
    <3>2. sessions # <<>> /\ sessions[Len(sessions)] = [contract |-> process[q].contract, schema |-> 2]
          /\ process'[q] = Opened(q, Len(sessions))
      BY <3>1 DEF Idle
    <3>3. process'[q].session = Len(sessions) /\ process'[q].contract = process[q].contract
      BY <3>2 DEF Opened
    <3> QED
      BY <2>0, <3>1, <3>2, <3>3
  <2>6. CASE ReadVersion(q)
    <3>1. PICK mode \in Mode, contract \in Contract : process'[q] = Migrating(version, mode, contract)
      BY <2>6, StepTo DEF ReadVersion
    <3> QED
      BY <3>1 DEF Migrating
  <2>7. CASE Migrate(q)
    <3>1. process'[q] = Idle \/ process'[q] = Migrating(version + 1, process[q].mode, process[q].contract)
      BY <2>7, StepTo DEF Migrate
    <3> QED
      BY <3>1 DEF Migrating, Idle
  <2>8. CASE CheckExisting(q)
    <3>1. \/ process'[q] = Idle
          \/ process'[q] = [step |-> "insert", mode |-> process[q].mode, contract |-> process[q].contract]
      BY <2>8, StepTo DEF CheckExisting
    <3> QED
      BY <3>1 DEF Idle
  <2> QED
    BY <2>1, <2>3, <2>4, <2>5, <2>6, <2>7, <2>8 DEF OpeningStep
<1> QED
  BY <1>1, <1>2

\* An answer that a thread holds is kept as it is until the thread takes it.
LEMMA AnswerKept ==
  ASSUME TypeOK, Opening, [Next]_vars, NEW t \in Thread, reply'[t] # None
  PROVE  \/ /\ reply'[t] = reply[t] /\ command'[t] = command[t]
            /\ process'[Host[t]] = process[Host[t]]
         \/ RecordAttempt(t) \/ AcceptTransition(t) \/ LookupCache(t)
<1>0. /\ reply \in [Thread -> Answer \cup {None}] /\ command \in [Thread -> Command \cup {None}]
      /\ process \in [Process -> ProcessState]
  BY DEF TypeOK
<1>1. ASSUME NEW p \in Process, OpeningStep(p)
      PROVE  /\ reply'[t] = reply[t] /\ command'[t] = command[t]
             /\ process'[Host[t]] = process[Host[t]]
  <2>1. /\ process' = [process EXCEPT ![p] = process'[p]] /\ process[p].step # "open"
        /\ UNCHANGED <<command, reply>>
    BY <1>1, ProcessStepType
  <2>2. process[Host[t]].step = "open"
    BY <2>1 DEF Opening
  <2>3. Host[t] # p /\ Host[t] \in Process
    BY <2>1, <2>2
  <2> QED
    BY <1>0, <2>1, <2>3
<1>2. ASSUME NEW p \in Process, Crash(p)
      PROVE  /\ reply'[t] = reply[t] /\ command'[t] = command[t]
             /\ process'[Host[t]] = process[Host[t]]
  <2>1. /\ process' = [process EXCEPT ![p] = Idle]
        /\ command' = [u \in Thread |-> IF Host[u] = p THEN None ELSE command[u]]
        /\ reply' = [u \in Thread |-> IF Host[u] = p THEN None ELSE reply[u]]
    BY <1>2 DEF Crash, Step
  <2>2. Host[t] # p /\ Host[t] \in Process
    BY <2>1
  <2> QED
    BY <1>0, <2>1, <2>2
<1>3. ASSUME NEW u \in Thread, NEW c \in Command, Send(u, c)
      PROVE  /\ reply'[t] = reply[t] /\ command'[t] = command[t]
             /\ process'[Host[t]] = process[Host[t]]
  <2>1. /\ command' = [command EXCEPT ![u] = c] /\ UNCHANGED <<process, reply>> /\ command[u] = None
    BY <1>3 DEF Send
  <2>2. u # t
    BY <2>1 DEF Opening
  <2> QED
    BY <1>0, <2>1, <2>2
<1>4. ASSUME NEW u \in Thread, u # t, RecordAttempt(u) \/ AcceptTransition(u) \/ LookupCache(u)
      PROVE  /\ reply'[t] = reply[t] /\ command'[t] = command[t]
             /\ process'[Host[t]] = process[Host[t]]
  <2>1. UNCHANGED <<command, process>>
    BY <1>4 DEF RecordAttempt, AcceptTransition, LookupCache
  <2>2. reply'[t] = reply[t]
    BY <1>0, <1>4 DEF RecordAttempt, AcceptTransition, LookupCache, Reply
  <2> QED
    BY <2>1, <2>2
<1>5. ASSUME NEW u \in Thread, Receive(u)
      PROVE  /\ reply'[t] = reply[t] /\ command'[t] = command[t]
             /\ process'[Host[t]] = process[Host[t]]
  BY <1>0, <1>5 DEF Receive
<1>6. CASE UNCHANGED vars
  BY <1>6 DEF vars
<1> QED
  BY <1>1, <1>2, <1>3, <1>4, <1>5, <1>6, Steps

\* What AnswersStand asks of the answer of one thread.
Stands(t) ==
  /\ reply[t].is = "hit" =>
       LET row == RowOf(t, command[t].candidate) IN
         cache[row] = reply[t].verdict /\ attempts[row] = reply[t].verdict
           /\ reply[t].runs = reply[t].verdict
  /\ reply[t] = Ok /\ command[t].op = "record" /\ command[t].evidence \in Terminal =>
       attempts[RowOf(t, command[t].candidate)] = command[t].evidence
  /\ reply[t] = Ok /\ command[t].op = "accept" =>
       /\ attempts[RowOf(t, command[t].transition.candidate)] = command[t].evidence
       /\ <<SessionOf(t), command[t].transition>> \in transitions

\* Only lookups are answered with a hit, whose verdict is terminal.
LEMMA HitType ==
  ASSUME TypeOK, NEW t \in Thread, reply[t] # None, reply[t].is = "hit"
  PROVE  reply[t].verdict \in Terminal
<1>1. reply[t] \in Answer
  BY DEF TypeOK
<1>2. Ok.is # "hit" /\ Refused.is # "hit" /\ [is |-> "miss"].is # "hit"
  BY DEF Ok, Refused
<1>3. reply[t] \in [is : {"hit"}, verdict : Terminal, runs : Evidence]
  BY <1>1, <1>2 DEF Answer
<1> QED
  BY <1>3

LEMMA AnswersInduction ==
  ASSUME TypeOK, Opening, TablesAgree, HitsAreLookups, AnswersStand, [Next]_vars
  PROVE  HitsAreLookups' /\ AnswersStand'
<1> SUFFICES ASSUME NEW t \in Thread, reply'[t] # None
             PROVE  (reply'[t].is = "hit" => command'[t].op = "lookup") /\ Stands(t)'
  BY DEF HitsAreLookups, AnswersStand, Stands
<1>0. reply \in [Thread -> Answer \cup {None}] /\ TypeOK' /\ Opening'
  BY TypeInduction DEF TypeOK
<1>a. /\ Ok.is # "hit" /\ Refused.is # "hit" /\ Refused # Ok /\ [is |-> "miss"] # Ok
      /\ [is |-> "miss"].is # "hit"
  <2>1. Ok.is = "ok" /\ Refused.is = "refused"
    BY DEF Ok, Refused
  <2> QED
    BY <2>1
<1>1. CASE /\ reply'[t] = reply[t] /\ command'[t] = command[t]
           /\ process'[Host[t]] = process[Host[t]]
  <2>1. command[t] # None /\ reply[t] # None
    BY <1>1 DEF Opening
  <2>2. Stands(t) /\ (reply[t].is = "hit" => command[t].op = "lookup")
    BY <2>1 DEF AnswersStand, Stands, HitsAreLookups
  <2>3. SessionOf(t)' = SessionOf(t) /\ \A c : RowOf(t, c)' = RowOf(t, c)
    BY <1>1 DEF SessionOf, RowOf
  <2>4. ASSUME reply[t].is = "hit"
        PROVE  LET row == RowOf(t, command[t].candidate) IN
                 cache'[row] = reply[t].verdict /\ attempts'[row] = reply[t].verdict
                   /\ reply[t].runs = reply[t].verdict
    <3>1. RowOf(t, command[t].candidate) \in Row
      BY <2>1, <2>2, <2>4, CommandTypes, RowType
    <3>2. reply[t].verdict \in Terminal
      BY <2>1, <2>4, HitType
    <3> QED
      BY <2>2, <2>4, <3>1, <3>2, Persistence DEF Stands
  <2>5. ASSUME reply[t] = Ok, command[t].op = "record", command[t].evidence \in Terminal
        PROVE  attempts'[RowOf(t, command[t].candidate)] = command[t].evidence
    <3>1. RowOf(t, command[t].candidate) \in Row
      BY <2>1, <2>5, CommandTypes, RowType
    <3> QED
      BY <2>2, <2>5, <3>1, Persistence DEF Stands
  <2>6. ASSUME reply[t] = Ok, command[t].op = "accept"
        PROVE  /\ attempts'[RowOf(t, command[t].transition.candidate)] = command[t].evidence
               /\ <<SessionOf(t), command[t].transition>> \in transitions'
    <3>1. RowOf(t, command[t].transition.candidate) \in Row /\ command[t].evidence \in Terminal
      BY <2>1, <2>6, CommandTypes, RowType, EvidenceKinds
    <3> QED
      BY <2>2, <2>6, <3>1, Persistence DEF Stands
  <2> QED
    BY <1>1, <2>2, <2>3, <2>4, <2>5, <2>6 DEF Stands
<1>2. CASE RecordAttempt(t)
  <2> DEFINE row == RowOf(t, command[t].candidate)
             e == command[t].evidence
  <2>1. /\ command[t].op = "record" /\ row \in Row /\ e \in Evidence
        /\ \/ Writes(t, row, e) /\ reply' = [reply EXCEPT ![t] = Ok]
           \/ reply' = [reply EXCEPT ![t] = Refused]
        /\ UNCHANGED <<process, command>>
    BY <1>2, RecordEffect
  <2>2. RowOf(t, command[t].candidate)' = row
    BY <2>1 DEF RowOf, SessionOf
  <2>3. reply'[t] = Ok => attempts'[row] = e
    <3> HIDE DEF row, e
    <3>1. reply'[t] = Ok => Writes(t, row, e)
      BY <1>0, <1>a, <2>1
    <3> QED
      BY <2>1, <3>1, WriteKeeps
  <2>4. reply'[t].is # "hit"
    <3> HIDE DEF row, e
    <3>1. reply'[t] \in {Ok, Refused}
      BY <1>0, <2>1
    <3> QED
      BY <1>a, <3>1
  <2> QED
    BY <2>1, <2>2, <2>3, <2>4 DEF Stands
<1>3. CASE AcceptTransition(t)
  <2> DEFINE x == command[t].transition
             s == SessionOf(t)
             row == RowOf(t, x.candidate)
             e == command[t].evidence
  <2>1. /\ command[t].op = "accept" /\ row \in Row /\ e \in Evidence
        /\ \/ Writes(t, row, e) /\ reply' = [reply EXCEPT ![t] = Ok]
              /\ transitions' = transitions \cup {<<s, x>>}
           \/ reply' = [reply EXCEPT ![t] = Refused]
        /\ UNCHANGED <<process, command>>
    BY <1>3, AcceptEffect, EvidenceKinds
  <2>2. RowOf(t, command[t].transition.candidate)' = row /\ SessionOf(t)' = s
    BY <2>1 DEF RowOf, SessionOf
  <2>3. reply'[t] = Ok => attempts'[row] = e /\ <<s, x>> \in transitions'
    <3> HIDE DEF x, s, row, e
    <3>1. reply'[t] = Ok => Writes(t, row, e) /\ transitions' = transitions \cup {<<s, x>>}
      BY <1>0, <1>a, <2>1
    <3> QED
      BY <2>1, <3>1, WriteKeeps
  <2>4. reply'[t].is # "hit"
    <3> HIDE DEF x, s, row, e
    <3>1. reply'[t] \in {Ok, Refused}
      BY <1>0, <2>1
    <3> QED
      BY <1>a, <3>1
  <2> QED
    BY <2>1, <2>2, <2>3, <2>4 DEF Stands
<1>4. CASE LookupCache(t)
  <2> DEFINE row == RowOf(t, command[t].candidate)
             hit == [is |-> "hit", verdict |-> cache[row], runs |-> attempts[row]]
  <2>1. /\ command[t].op = "lookup" /\ row \in Row
        /\ \/ /\ cache[row] # None /\ attempts[row] # None
              /\ reply' = [reply EXCEPT ![t] = hit]
           \/ reply' = [reply EXCEPT ![t] = [is |-> "miss"]]
        /\ UNCHANGED <<attempts, cache, process, command>>
    BY <1>4, LookupEffect DEF tables
  <2>2. RowOf(t, command[t].candidate)' = row
    BY <2>1 DEF RowOf, SessionOf
  <2>3. hit.verdict = cache[row] /\ hit.runs = attempts[row] /\ hit.is = "hit" /\ hit # Ok
    <3>1. Ok.is = "ok" /\ hit.is = "hit"
      BY DEF Ok
    <3> QED
      BY <3>1
  <2>4. cache[row] # None => cache[row] = attempts[row]
    BY <2>1 DEF TablesAgree
  <2> HIDE DEF row, hit
  <2>5. reply'[t] = [is |-> "miss"] \/ (reply'[t] = hit /\ cache[row] # None)
    <3>1. CASE reply' = [reply EXCEPT ![t] = [is |-> "miss"]]
      BY <1>0, <3>1
    <3>2. CASE cache[row] # None /\ reply' = [reply EXCEPT ![t] = hit]
      BY <1>0, <3>2
    <3> QED
      BY <2>1, <3>1, <3>2
  <2>6. reply'[t] # Ok
    BY <1>a, <2>3, <2>5
  <2>7. reply'[t].is = "hit" => reply'[t].verdict = cache[row] /\ reply'[t].runs = attempts[row]
                                /\ cache[row] = attempts[row]
    BY <1>a, <2>3, <2>4, <2>5
  <2> QED
    BY <2>1, <2>2, <2>6, <2>7 DEF Stands
<1> QED
  BY <1>1, <1>2, <1>3, <1>4, AnswerKept

LEMMA InitInvariant == ASSUME Init PROVE IInv
<1>1. TypeOK /\ Opening
  BY InitType
<1>2. /\ process = [p \in Process |-> Idle] /\ reply = [t \in Thread |-> None] /\ Idle.step = "idle"
  BY DEF Init, Idle
<1>3. OwnContract /\ HitsAreLookups /\ AnswersStand
  BY <1>2 DEF OwnContract, HitsAreLookups, AnswersStand
<1>4. TablesAgree /\ Authorized
  <2>1. CASE version = 0 /\ attempts = Empty /\ cache = Empty
             /\ events = [row \in Row |-> <<>>] /\ transitions = {}
    BY <2>1, EvidenceKinds DEF TablesAgree, Authorized, Empty
  <2>2. CASE Legacy
    <3>1. PICK c \in Candidate, e \in Evidence, retried \in Inconclusive \cup {None} :
          /\ attempts = [Empty EXCEPT ![<<1, c>>] = e]
          /\ cache = IF e \in Terminal THEN [Empty EXCEPT ![<<1, c>>] = e] ELSE Empty
          /\ events = [r \in Row |->
               IF version = 1 \/ r # <<1, c>> THEN <<>>
               ELSE IF retried = None THEN <<e>> ELSE <<retried, e>>]
          /\ transitions \in {{}} \cup
               {{<<1, t>>} : t \in {x \in Transition : x.candidate = c /\ e \in Preserved}}
      BY <2>2 DEF Legacy
    <3>2. ASSUME NEW r \in Row
          PROVE  /\ attempts[r] = IF r = <<1, c>> THEN e ELSE None
                 /\ cache[r] = IF r = <<1, c>> /\ e \in Terminal THEN e ELSE None
      BY <3>1 DEF Empty
    <3>3. ASSUME NEW r \in Row, version >= 2
          PROVE  attempts[r] = IF events[r] = <<>> THEN None ELSE events[r][Len(events[r])]
      BY <3>1, <3>2, <3>3
    <3>4. TablesAgree
      BY <3>2, <3>3, EvidenceKinds DEF TablesAgree
    <3>5. ASSUME NEW s \in Session, NEW x \in Transition, <<s, x>> \in transitions
          PROVE  attempts[<<s, x.candidate>>] \in Preserved
      <4>1. s = 1 /\ x.candidate = c /\ e \in Preserved
        BY <3>1, <3>5
      <4>2. <<s, x.candidate>> \in Row
        BY DEF Row
      <4> QED
        BY <3>2, <4>1, <4>2
    <3> QED
      BY <3>4, <3>5 DEF Authorized
  <2> QED
    BY <2>1, <2>2 DEF Init
<1> QED
  BY <1>1, <1>3, <1>4 DEF IInv

LEMMA Induction == IInv /\ [Next]_vars => IInv'
<1> SUFFICES ASSUME IInv, [Next]_vars PROVE IInv'
  OBVIOUS
<1>1. /\ TypeOK /\ Opening /\ TablesAgree /\ Authorized
      /\ OwnContract /\ HitsAreLookups /\ AnswersStand
  BY DEF IInv
<1>2. TypeOK' /\ Opening'
  BY <1>1, TypeInduction
<1>3. TablesAgree' /\ Authorized' /\ OwnContract'
  BY <1>1, TablesInduction, AuthorizedInduction, ContractInduction
<1>4. HitsAreLookups' /\ AnswersStand'
  BY <1>1, AnswersInduction
<1> QED
  BY <1>2, <1>3, <1>4 DEF IInv

\* The invariant the other theorems rest on: what threads were told, what the
\* tables say and who may write them fit together after every step.
THEOREM Invariant == Spec => []IInv
<1>1. Init => IInv
  BY InitInvariant
<1> QED
  BY <1>1, Induction, PTL DEF Spec

\* Attempts, events and cache entries agree (record_attempt_evidence,
\* insert_cache and migration 0002), whatever processes share the journal.
THEOREM TablesAlwaysAgree == Spec => []TablesAgree
<1>1. IInv => TablesAgree
  BY DEF IInv
<1> QED
  BY <1>1, Invariant, PTL

\* A process works under the contract of its session (create_inner and resume).
THEOREM ContractsAreOwn == Spec => []OwnContract
<1>1. IInv => OwnContract
  BY DEF IInv
<1> QED
  BY <1>1, Invariant, PTL

\* No other thread, process or crash makes an answer untrue that a thread still
\* holds (record_attempt, accept_transition and lookup_cache).
THEOREM AnswersAlwaysStand == Spec => []AnswersStand
<1>1. IInv => AnswersStand
  BY DEF IInv
<1> QED
  BY <1>1, Invariant, PTL

(***************************************************************************)
(* Refinement of Ledger.                                                   *)
(***************************************************************************)
LEMMA SameNames ==
  /\ Promise!Row = Row /\ Promise!Evidence = Evidence
BY DEF Promise!Row, Row, Promise!Evidence, Evidence

LEMMA InitRefines == ASSUME Init PROVE Promise!LedgerInit
<1>0. TypeOK /\ Authorized /\ TablesAgree
  BY InitInvariant DEF IInv
<1>1. sessions \in Seq(Identity) /\ transitions \subseteq Session \X Transition
  BY <1>0 DEF TypeOK
<1>2. History \in [Row -> Seq(Evidence)]
  <2>1. attempts \in [Row -> Evidence \cup {None}] /\ events \in [Row -> Seq(Evidence)]
    BY <1>0 DEF TypeOK
  <2> QED
    BY <2>1 DEF History
<1>3. \A row \in Row : Promise!WellFormed(History[row])
  <2> SUFFICES ASSUME NEW row \in Row, NEW i \in 1..Len(History[row]), i < Len(History[row])
               PROVE  History[row][i] \in Inconclusive
    BY <1>2, SameNames DEF Promise!WellFormed
  <2>1. CASE version = 0 /\ attempts = Empty
    BY <2>1 DEF History, Empty
  <2>2. CASE Legacy
    <3>1. PICK c \in Candidate, e \in Evidence, retried \in Inconclusive \cup {None} :
            /\ attempts = [Empty EXCEPT ![<<1, c>>] = e]
            /\ cache = IF e \in Terminal THEN [Empty EXCEPT ![<<1, c>>] = e] ELSE Empty
            /\ events = [r \in Row |->
                 IF version = 1 \/ r # <<1, c>> THEN <<>>
                 ELSE IF retried = None THEN <<e>> ELSE <<retried, e>>]
            /\ transitions \in {{}} \cup
                 {{<<1, t>>} : t \in {x \in Transition : x.candidate = c /\ e \in Preserved}}
      BY <2>2 DEF Legacy
    <3>2. \/ History[row] = <<>> \/ History[row] = <<attempts[row]>> \/ History[row] = <<e>>
          \/ retried \in Inconclusive /\ History[row] = <<retried, e>>
      BY <3>1 DEF History
    <3>3. ASSUME NEW a, History[row] = <<a>> PROVE FALSE
      <4>1. Len(History[row]) = 1
        BY <3>3
      <4> QED
        BY <4>1
    <3>5. CASE History[row] = <<>>
      <4>1. Len(History[row]) = 0
        BY <3>5
      <4> QED
        BY <4>1
    <3>4. CASE retried \in Inconclusive /\ History[row] = <<retried, e>>
      <4>1. i = 1
        BY <3>4
      <4> QED
        BY <3>4, <4>1
    <3> QED
      BY <3>2, <3>3, <3>4, <3>5
  <2> QED
    BY <2>1, <2>2 DEF Init
<1>4. \A x, y \in transitions : x[1] = y[1] => x = y
  <2>1. CASE transitions = {}
    BY <2>1
  <2>2. CASE Legacy
    <3>1. transitions = {} \/ \E t : transitions = {<<1, t>>}
      BY <2>2 DEF Legacy
    <3> QED
      BY <3>1
  <2> QED
    BY <2>1, <2>2 DEF Init
<1>5. ASSUME NEW x \in transitions
      PROVE  \E e \in Preserved : Promise!EndsWith(<<x[1], x[2].candidate>>, e)
  <2>1. x[1] \in Session /\ x[2] \in Transition /\ x = <<x[1], x[2]>> /\ x[2].candidate \in Candidate
    BY <1>1
  <2> DEFINE row == <<x[1], x[2].candidate>>
  <2>2. row \in Row /\ attempts[row] \in Preserved
    BY <1>0, <2>1 DEF Authorized, Row
  <2> HIDE DEF row
  <2>3. History[row] # <<>> /\ History[row][Len(History[row])] = attempts[row]
    BY <1>0, <2>2, EvidenceKinds DEF TablesAgree, History
  <2> QED
    BY <2>2, <2>3 DEF Promise!EndsWith, Promise!Latest, row
<1>6. Promise!Causal(transitions)
  BY <1>4, <1>5 DEF Promise!Causal
<1> QED
  BY <1>1, <1>2, <1>3, <1>6, SameNames DEF Promise!LedgerInit

\* Writing evidence extends the history, unless it repeats what is there.
LEMMA WriteRefines ==
  ASSUME TypeOK, TablesAgree, NEW t, NEW row \in Row, NEW e \in Evidence, Writes(t, row, e),
         version = SchemaVersion, version' = version
  PROVE  \/ History' = History /\ Promise!EndsWith(row, e)
         \/ Promise!Extend(row, e)
<1>0. /\ attempts \in [Row -> Evidence \cup {None}] /\ events \in [Row -> Seq(Evidence)]
      /\ version >= 2
  BY DEF TypeOK, SchemaVersion
<1>1. History = [r \in Row |-> events[r]] /\ History' = [r \in Row |-> events'[r]]
  BY <1>0 DEF History
<1>2. History = events
  BY <1>0, <1>1
<1>3. attempts[row] = IF events[row] = <<>> THEN None ELSE events[row][Len(events[row])]
  BY <1>0 DEF TablesAgree
<1>4. CASE attempts[row] = e
  <2>1. events' = events
    BY <1>4 DEF Writes, RecordEvidence
  <2>2. events[row] # <<>> /\ events[row][Len(events[row])] = e
    BY <1>3, <1>4, EvidenceKinds
  <2> QED
    BY <1>1, <1>2, <2>1, <2>2 DEF Promise!EndsWith, Promise!Latest
<1>5. CASE attempts[row] # e
  <2>1. events' = [events EXCEPT ![row] = Append(@, e)]
    BY <1>5 DEF Writes, RecordEvidence
  <2>2. attempts[row] \in {None} \cup Inconclusive
    BY <1>5 DEF Writes, Recordable
  <2>3. events[row] = <<>> \/ events[row][Len(events[row])] \in Inconclusive
    <3>1. CASE events[row] = <<>>
      BY <3>1
    <3>2. CASE events[row] # <<>>
      <4>1. events[row] \in Seq(Evidence) /\ Len(events[row]) \in 1..Len(events[row])
        BY <1>0, <3>2
      <4>2. events[row][Len(events[row])] \in Evidence
        BY <4>1
      <4> QED
        BY <1>3, <2>2, <3>2, <4>2, EvidenceKinds
    <3> QED
      BY <3>1, <3>2
  <2>4. History' = [History EXCEPT ![row] = Append(@, e)]
    BY <1>0, <1>1, <1>2, <2>1
  <2> QED
    BY <1>2, <2>3, <2>4 DEF Promise!Extend, Promise!Open, Promise!Latest
<1> QED
  BY <1>4, <1>5

LEMMA StepRefines ==
  ASSUME IInv, [Next]_vars
  PROVE  [Promise!LedgerNext]_(Promise!ledgerVars)
<1>0. TypeOK /\ Opening /\ TablesAgree /\ Authorized
  BY DEF IInv
<1>1. ASSUME NEW p \in Process, OpeningStep(p)
      PROVE  [Promise!LedgerNext]_(Promise!ledgerVars)
  <2>0. UNCHANGED <<attempts, transitions>> /\ version \in 0..SchemaVersion
    BY <1>0, <1>1, ProcessStepType
  <2>1. History' = History
    <3>1. CASE UNCHANGED <<version, events>>
      BY <2>0, <3>1 DEF History
    <3>2. CASE version' = version + 1 /\ version # 1 /\ UNCHANGED events
      BY <2>0, <3>2 DEF History, SchemaVersion
    <3>3. CASE /\ version' = version + 1 /\ version = 1
               /\ events' = [row \in Row |-> IF attempts[row] = None THEN <<>> ELSE <<attempts[row]>>]
      BY <2>0, <3>3 DEF History
    <3> QED
      BY <1>1, <3>1, <3>2, <3>3, OpeningEffect
  <2>2. sessions' = sessions \/ \E s \in Identity : sessions' = Append(sessions, s)
    <3>1. CASE InsertSession(p)
      <4>1. process[p].contract \in Contract
        BY <1>0, <3>1, ProcessTypes DEF InsertSession
      <4>2. [contract |-> process[p].contract, schema |-> 2] \in Identity
        BY <4>1 DEF Identity
      <4> QED
        BY <3>1, <4>2 DEF InsertSession
    <3> QED
      BY <1>1, <3>1 DEF OpeningStep, ReadVersion, Migrate, CheckExisting, Resume
  <2> QED
    BY <2>0, <2>1, <2>2 DEF Promise!LedgerNext, Promise!StartSession, Promise!ledgerVars
<1>2. ASSUME NEW t \in Thread, RecordAttempt(t)
      PROVE  [Promise!LedgerNext]_(Promise!ledgerVars)
  <2> DEFINE row == RowOf(t, command[t].candidate)
             e == command[t].evidence
  <2>1. /\ command[t] # None /\ row \in Row /\ e \in Evidence
        /\ Writes(t, row, e) \/ UNCHANGED <<attempts, events, cache>>
        /\ UNCHANGED <<version, sessions, transitions>>
    BY <1>0, <1>2, RecordEffect
  <2> HIDE DEF row, e
  <2>2. CASE Writes(t, row, e)
    <3>1. History' = History \/ Promise!Extend(row, e)
      BY <1>0, <2>1, <2>2, Migrated, WriteRefines
    <3> QED
      BY <2>1, <3>1, SameNames DEF Promise!LedgerNext, Promise!Record, Promise!ledgerVars
  <2>3. CASE UNCHANGED <<attempts, events, cache>>
    BY <2>1, <2>3 DEF History, Promise!ledgerVars
  <2> QED
    BY <2>1, <2>2, <2>3
<1>3. ASSUME NEW t \in Thread, AcceptTransition(t)
      PROVE  [Promise!LedgerNext]_(Promise!ledgerVars)
  <2> DEFINE x == command[t].transition
             s == SessionOf(t)
             row == RowOf(t, x.candidate)
             e == command[t].evidence
  <2>1. /\ command[t] # None /\ row \in Row /\ e \in Preserved
        /\ s \in Session /\ x \in Transition /\ row = <<s, x.candidate>>
        /\ \/ Writes(t, row, e) /\ Insertable(s, x) /\ transitions' = transitions \cup {<<s, x>>}
           \/ UNCHANGED <<attempts, events, cache, transitions>>
        /\ UNCHANGED <<version, sessions>>
    BY <1>0, <1>3, AcceptEffect DEF tables
  <2> HIDE DEF x, s, row, e
  <2>2. CASE Writes(t, row, e) /\ Insertable(s, x) /\ transitions' = transitions \cup {<<s, x>>}
    <3>1. (History' = History /\ Promise!EndsWith(row, e)) \/ Promise!Extend(row, e)
      BY <1>0, <2>1, <2>2, Migrated, WriteRefines, EvidenceKinds
    <3>2. CASE <<s, x>> \in transitions
      <4>1. transitions' = transitions
        BY <2>2, <3>2
      <4>2. attempts[row] \in Preserved
        BY <1>0, <2>1, <3>2 DEF Authorized
      <4>3. attempts[row] = e
        BY <2>2, <4>2, EvidenceKinds DEF Writes, Recordable
      <4>4. UNCHANGED events /\ attempts' = [attempts EXCEPT ![row] = attempts[row]]
        BY <2>2, <4>3 DEF Writes, RecordEvidence
      <4>5. UNCHANGED attempts
        BY <1>0, <2>1, <4>4 DEF TypeOK
      <4> QED
        BY <2>1, <4>1, <4>4, <4>5 DEF History, Promise!ledgerVars
    <3>3. CASE <<s, x>> \notin transitions
      <4>1. Promise!Fits(s, x)
        BY <2>2, <3>3 DEF Insertable, Promise!Fits
      <4> QED
        BY <2>1, <2>2, <3>1, <4>1 DEF Promise!LedgerNext, Promise!Accept
    <3> QED
      BY <3>2, <3>3
  <2>3. CASE UNCHANGED <<attempts, events, cache, transitions>>
    BY <2>1, <2>3 DEF History, Promise!ledgerVars
  <2> QED
    BY <2>1, <2>2, <2>3
<1>4. CASE UNCHANGED <<version, sessions, tables>>
  BY <1>4 DEF tables, History, Promise!ledgerVars
<1> QED
  BY <1>1, <1>2, <1>3, <1>4, Steps DEF Crash, Send, LookupCache, Receive, vars

\* The journal keeps Ledger's promises through migrations, crashes, repeated
\* commands and any number of processes that share the file (lib.rs:757-934).
THEOREM JournalImplementsLedger == Spec => ImplementsLedger
<1>1. Init => Promise!LedgerInit
  BY InitRefines
<1>2. IInv /\ [Next]_vars => [Promise!LedgerNext]_(Promise!ledgerVars)
  BY StepRefines
<1> QED
  BY <1>1, <1>2, Invariant, PTL DEF Spec, ImplementsLedger, Promise!LedgerSpec

=============================================================================
