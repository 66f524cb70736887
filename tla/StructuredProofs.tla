-------------------------- MODULE StructuredProofs --------------------------
(***************************************************************************)
(* The structured reduction for every set of projects, every list of       *)
(* edits, and every command and preparation: its journal is one chain,     *)
(* resumed runs walk it, and it implements Fixpoint.                       *)
(*                                                                         *)
(* The argument is about what a run has passed on its way.  With a         *)
(* repeatable preparation, a rank that did not win was known, is rejected  *)
(* for good, or its result is new and sometimes not preserved (Lost); a    *)
(* phase that made no cut was lost in all its ranks, or up to one whose    *)
(* result was not new (Passed).  Both are about the journal and about what *)
(* was accepted up to there, so that they hold in each later run that      *)
(* comes to the same place, which is why it comes to the same cut.         *)
(***************************************************************************)
EXTENDS Structured, TLAPS

Prep(c) == preparation[c]

\* What was accepted by a run that has made k cuts, and where it stands.
Acc(k) == {Origin} \cup {x.to : x \in {y \in transitions : y.ordinal < k}}
Stood(k, p) ==
  IF k = 0 THEN p = Origin ELSE \E x \in transitions : x.ordinal = k - 1 /\ x.to = p

OnChain == Stood(ordinal, project) /\ accepted = Acc(ordinal)

Shape ==
  /\ status # "running" => frontier = <<>>
  /\ status = "stopped" => phase = "manifests"
  /\ status = "settled" => phase = "verify"

Holds(c, evidence) == c \in DOMAIN attempts /\ attempts[c] \in evidence

KnownTo(acc, c) == ~c.prepared /\ c.edit \in acc
Wavers(c) == \E p \in Prep(c) \cap Project : command[p] \ Preserved # {}

Lost(acc, c) ==
  \/ KnownTo(acc, c)
  \/ Holds(c, Rejected)
  \/ Prep(c) \cap acc = {} /\ Wavers(c)

Masked(acc, c) == ~KnownTo(acc, c) /\ Holds(c, Preserved) /\ Prep(c) \cap acc # {}

First(p, ph, i) ==
  /\ i \in 1..Len(Offers[p][ph])
  /\ i = 1 \/ Offers[p][ph][i - 1].edit # Offers[p][ph][i].edit

LostBefore(p, acc, ph, i) == \A j \in Nat : j < i /\ First(p, ph, j) => Lost(acc, Offers[p][ph][j])

Passed(p, acc, ph) ==
  \E i \in Nat :
    /\ LostBefore(p, acc, ph, i)
    /\ i > Len(Offers[p][ph]) \/ (First(p, ph, i) /\ Masked(acc, Offers[p][ph][i]))

Rank == [manifests |-> 1, delete |-> 2, hoist |-> 3, verify |-> 4]

PassedBefore(p, acc, ph) == \A earlier \in Phase : Rank[earlier] < Rank[ph] => Passed(p, acc, earlier)

\* The edit that won where p was the project and acc had been accepted.
Won(p, acc, ph, c, q) ==
  /\ \E i \in Nat :
       /\ First(p, ph, i) /\ c = Offers[p][ph][i]
       /\ LostBefore(p, acc, ph, i)
  /\ ~KnownTo(acc, c)
  /\ Prep(c) = {q} /\ q \in Project \ acc

-----------------------------------------------------------------------------
\* The parts of the inductive invariant that say more with a repeatable
\* preparation.

\* The verdicts of the frontier at hand.
Answers ==
  /\ \A c \in DOMAIN realized : realized[c] \in Prep(c)
  /\ \A i \in Planned :
       /\ answers[i] \in {"preserved", "running"} => ~KnownTo(accepted, frontier[i])
       /\ answers[i] = "preserved" => Holds(frontier[i], Preserved)
       /\ answers[i] = "rejected" => KnownTo(accepted, frontier[i]) \/ Holds(frontier[i], Rejected)
       /\ answers[i] = "inconclusive" /\ ~error =>
            /\ \A x \in transitions : x.candidate # frontier[i]
            /\ Repeatable(preparation) => Prep(frontier[i]) \cap accepted = {} /\ Wavers(frontier[i])

\* What the journal's evidence is about.
Evidenced ==
  \A c \in DOMAIN attempts :
    /\ attempts[c] \in Preserved => \E p \in Prep(c) \cap Project : command[p] \cap Preserved # {}
    /\ attempts[c] \in Preserved /\ Repeatable(preparation) =>
         \E k \in Nat, p \in Project : Stood(k, p) /\ c \in OfferedBy(p) /\ Prep(c) \cap Acc(k) = {}
    /\ attempts[c] \in Rejected /\ Repeatable(preparation) =>
         \A p \in Prep(c) : p = Refused \/ p \in {Origin} \cup Outputs \/ command[p] \ Preserved # {}

WonAt(x, ph) ==
  /\ Won(x.from, Acc(x.ordinal), ph, x.candidate, x.to)
  /\ PassedBefore(x.from, Acc(x.ordinal), ph)

\* How each transition came about.
Behind == Repeatable(preparation) => \A x \in transitions : \E ph \in Phase : WonAt(x, ph)

\* The transition that the journal has next is not passed yet.
Ahead ==
  Repeatable(preparation) =>
    /\ PassedBefore(project, accepted, phase)
    /\ \A x \in transitions : x.ordinal = ordinal => \E ph \in Phase : Rank[phase] <= Rank[ph] /\ WonAt(x, ph)

IInv ==
  /\ TypeOK /\ Shape
  /\ ChainLinked /\ OnChain
  /\ Answers /\ Evidenced
  /\ Behind /\ Ahead

-----------------------------------------------------------------------------
\* A step that takes no terminal evidence back, and one that adds no transition
\* either.
Keeps ==
  /\ command' = command /\ preparation' = preparation
  /\ \A c \in DOMAIN attempts :
       attempts[c] \in Terminal => c \in DOMAIN attempts' /\ attempts'[c] = attempts[c]
Grows == transitions' = transitions /\ Keeps

LEMMA KeepsHolds ==
  ASSUME Keeps, NEW c
  PROVE  /\ Holds(c, Preserved) => Holds(c, Preserved)'
         /\ Holds(c, Rejected) => Holds(c, Rejected)'
BY DEF Keeps, Holds, Terminal

LEMMA KeepsLost ==
  ASSUME Keeps, NEW acc, NEW c
  PROVE  /\ Lost(acc, c) => Lost(acc, c)'
         /\ Masked(acc, c) => Masked(acc, c)'
<1>1. Prep(c)' = Prep(c) /\ (Wavers(c)' <=> Wavers(c))
  BY DEF Keeps, Prep, Wavers
<1>2. KnownTo(acc, c)' <=> KnownTo(acc, c)
  BY DEF KnownTo
<1> QED
  BY <1>1, <1>2, KeepsHolds DEF Lost, Masked

LEMMA KeepsPassed ==
  ASSUME Keeps, NEW p, NEW acc, NEW ph
  PROVE  /\ \A i : LostBefore(p, acc, ph, i) => LostBefore(p, acc, ph, i)'
         /\ Passed(p, acc, ph) => Passed(p, acc, ph)'
         /\ PassedBefore(p, acc, ph) => PassedBefore(p, acc, ph)'
         /\ \A c, q : Won(p, acc, ph, c, q) => Won(p, acc, ph, c, q)'
<1>1. \A i : LostBefore(p, acc, ph, i) => LostBefore(p, acc, ph, i)'
  BY KeepsLost DEF LostBefore, First
<1>2. \A b : (\A i : LostBefore(p, acc, b, i) => LostBefore(p, acc, b, i)')
  BY KeepsLost DEF LostBefore, First
<1>3. \A b : Passed(p, acc, b) => Passed(p, acc, b)'
  BY <1>2, KeepsLost DEF Passed, First
<1>4. PassedBefore(p, acc, ph) => PassedBefore(p, acc, ph)'
  BY <1>3 DEF PassedBefore, Rank
<1>5. \A c, q : Won(p, acc, ph, c, q) => Won(p, acc, ph, c, q)'
  BY <1>1 DEF Won, First, KnownTo, Keeps, Prep
<1> QED
  BY <1>1, <1>3, <1>4, <1>5

LEMMA GrowsChain ==
  ASSUME Grows
  PROVE  /\ \A k : Acc(k)' = Acc(k)
         /\ \A k, p : Stood(k, p)' <=> Stood(k, p)
         /\ Outputs' = Outputs
         /\ \A x, ph : WonAt(x, ph) => WonAt(x, ph)'
<1>1. \A k : Acc(k)' = Acc(k)
  BY DEF Grows, Keeps, Acc
<1>2. \A k, p : Stood(k, p)' <=> Stood(k, p)
  BY DEF Grows, Keeps, Stood
<1>3. Outputs' = Outputs
  BY DEF Grows, Keeps, Outputs
<1>4. ASSUME NEW x, NEW ph, WonAt(x, ph) PROVE WonAt(x, ph)'
  <2>1. PICK acc : acc = Acc(x.ordinal)
    OBVIOUS
  <2>2. Won(x.from, acc, ph, x.candidate, x.to)' /\ PassedBefore(x.from, acc, ph)'
    BY <1>4, <2>1, KeepsPassed DEF WonAt, Grows
  <2>3. Acc(x.ordinal)' = acc
    BY <1>1, <2>1
  <2> QED
    BY <2>2, <2>3 DEF WonAt
<1> QED
  BY <1>1, <1>2, <1>3, <1>4

-----------------------------------------------------------------------------
\* Steps that keep the command and the preparation.

LEMMA Steadfast ==
  ASSUME setting \in Setting,
         \/ setting' = setting
         \/ setting.errors > 0 /\ setting' = [setting EXCEPT !.errors = @ - 1]
         \/ setting.crashes > 0 /\ setting' = [setting EXCEPT !.crashes = @ - 1]
  PROVE  setting' \in Setting /\ command' = command /\ preparation' = preparation
BY DEF Setting, command, preparation

LEMMA AccIsOrigin ==
  ASSUME TypeOK
  PROVE  Acc(0) = {Origin} /\ Stood(0, Origin)
BY DEF Acc, Stood, TypeOK

LEMMA GrowsRepeatable ==
  ASSUME Grows
  PROVE  Repeatable(preparation)' <=> Repeatable(preparation)
BY DEF Grows, Keeps, Repeatable

\* The journal keeps its chain and what is said of it.
LEMMA GrowsKeeps ==
  ASSUME TypeOK, ChainLinked, Behind, Grows
  PROVE  ChainLinked' /\ Behind'
<1>1. ChainLinked'
  <2>1. \A x \in transitions :
          x.candidate \in DOMAIN attempts' /\ attempts'[x.candidate] \in Preserved
    BY DEF ChainLinked, Grows, Keeps, Terminal
  <2>2. \A p : OfferedBy(p)' = OfferedBy(p)
    BY DEF OfferedBy
  <2> QED
    BY <2>1, <2>2, GrowsRepeatable DEF ChainLinked, Grows, Keeps
<1>2. Behind'
  BY GrowsChain, GrowsRepeatable DEF Behind, Grows, Keeps
<1> QED
  BY <1>1, <1>2

\* Where the run stands does not change.
LEMMA GrowsStays ==
  ASSUME TypeOK, OnChain, Ahead, Grows, UNCHANGED place
  PROVE  OnChain' /\ Ahead'
<1>0. project' = project /\ accepted' = accepted /\ phase' = phase /\ ordinal' = ordinal
  BY DEF place
<1>1. OnChain'
  BY <1>0, GrowsChain DEF OnChain
<1>2. ASSUME Repeatable(preparation)' PROVE PassedBefore(project, accepted, phase)'
  <2>1. PassedBefore(project, accepted, phase)
    BY <1>2, GrowsRepeatable DEF Ahead
  <2>2. PICK p, acc, ph : p = project /\ acc = accepted /\ ph = phase
    OBVIOUS
  <2>3. PassedBefore(p, acc, ph)'
    BY <2>1, <2>2, KeepsPassed DEF Grows
  <2>4. p = project' /\ acc = accepted' /\ ph = phase'
    BY <1>0, <2>2
  <2> QED
    BY <2>3, <2>4
<1>3. ASSUME Repeatable(preparation)', NEW x \in transitions', x.ordinal = ordinal'
      PROVE  \E ph \in Phase : Rank[phase'] <= Rank[ph] /\ WonAt(x, ph)'
  BY <1>0, <1>3, GrowsRepeatable, GrowsChain DEF Ahead, Grows, Keeps
<1>4. Rank' = Rank /\ Phase' = Phase
  BY DEF Rank, Phase
<1> QED
  BY <1>1, <1>2, <1>3, <1>4 DEF Ahead

\* What the evidence says is about the past.
LEMMA GrowsEvidenced ==
  ASSUME Evidenced, Grows, attempts' = attempts
  PROVE  Evidenced'
<1>1. \A c : Prep(c)' = Prep(c) /\ \A p : OfferedBy(p)' = OfferedBy(p)
  BY DEF Grows, Keeps, Prep, OfferedBy
<1> QED
  BY <1>1, GrowsChain, GrowsRepeatable DEF Evidenced, Grows, Keeps

LEMMA JournalKept ==
  ASSUME UNCHANGED journal, command' = command, preparation' = preparation
  PROVE  Grows /\ attempts' = attempts
BY DEF Grows, Keeps, journal

-----------------------------------------------------------------------------
\* A run stops: only the journal is left.
LEMMA StopStep ==
  ASSUME StructuredAssumption, IInv, Stop,
         setting' \in Setting, command' = command, preparation' = preparation
  PROVE  IInv'
<1>1. Grows /\ attempts' = attempts
  BY JournalKept DEF Stop
<1>2. TypeOK'
  <2>1. /\ setting' \in Setting
        /\ status' \in {"stopped", "running", "settled"}
        /\ jobs' \in Nat \ {0}
        /\ project' \in accepted' /\ accepted' \subseteq Project
        /\ phase' \in Phase \cup {"verify"}
        /\ frontier' = <<>>
        /\ ordinal' \in Nat
    BY DEF Stop, Leave, Phase, StructuredAssumption
  <2>2. DOMAIN realized' \subseteq Candidate /\ \A c \in DOMAIN realized' : realized'[c] \in Project
    BY DEF Stop, Leave, Empty
  <2>3. answers' \in [1..Len(frontier') -> Verdict \cup {"none", "running"}]
    BY DEF Stop, Leave
  <2>4. error' \in BOOLEAN /\ ~error'
    BY Zenon DEF Stop, Leave
  <2> QED
    BY <1>1, <2>1, <2>2, <2>3, <2>4 DEF IInv, TypeOK, Grows, Keeps
<1>3. Shape'
  BY DEF Shape, Stop, Leave
<1>4. ChainLinked' /\ Behind' /\ Evidenced'
  BY <1>1, GrowsKeeps, GrowsEvidenced DEF IInv
<1>5. OnChain'
  <2>1. Acc(0)' = Acc(0) /\ (Stood(0, Origin)' <=> Stood(0, Origin))
    BY <1>1, GrowsChain
  <2>2. Acc(0) = {Origin} /\ Stood(0, Origin)
    BY AccIsOrigin DEF IInv
  <2> QED
    BY <2>1, <2>2 DEF Stop, OnChain
<1>6. Answers'
  BY DEF Stop, Leave, Empty, Answers, Planned, Canonical
<1>7. Ahead'
  <2>1. PassedBefore(project, accepted, phase)'
    BY DEF Stop, PassedBefore, Rank, Phase
  <2>2. \A ph \in Phase : Rank[phase'] <= Rank[ph]
    BY DEF Stop, Rank, Phase
  <2> QED
    BY <2>1, <2>2, <1>4 DEF Ahead, Behind, Rank, Phase
<1> QED
  BY <1>2, <1>3, <1>4, <1>5, <1>6, <1>7 DEF IInv

-----------------------------------------------------------------------------
\* A worker answers without a run.

LEMMA FrontierTyped ==
  ASSUME StructuredAssumption, TypeOK, NEW i \in Planned
  PROVE  /\ i \in 1..Len(frontier) /\ Len(frontier) \in Nat
         /\ frontier[i] \in Candidate
         /\ phase \in Phase /\ frontier = Offers[project][phase]
         /\ frontier[i] \in OfferedBy(project)
         /\ First(project, phase, i)
         /\ frontier # <<>>
<1>1. i \in 1..Len(frontier)
  BY DEF Planned, Canonical
<1>2. frontier # <<>>
  BY <1>1
<1>3. phase \in Phase /\ project \in Project /\ frontier = Offers[project][phase]
  BY <1>2 DEF TypeOK
<1>4. Offers[project][phase] \in Seq(Candidate)
  BY <1>3 DEF StructuredAssumption
<1>5. Len(frontier) \in Nat /\ frontier[i] \in Candidate /\ DOMAIN frontier = 1..Len(frontier)
  BY <1>1, <1>3, <1>4
<1>6. frontier[i] \in OfferedBy(project)
  BY <1>1, <1>3, <1>5 DEF OfferedBy, Planned
<1>7. First(project, phase, i)
  BY <1>3 DEF First, Planned, Canonical
<1> QED
  BY <1>1, <1>2, <1>3, <1>5, <1>6, <1>7

LEMMA AnswerStep ==
  ASSUME StructuredAssumption, IInv, NEW i \in Planned,
         NEW v \in Verdict \cup {"running"}, Give(i, v),
         UNCHANGED <<setting, status, jobs, place, frontier, realized, error, journal>>,
         v \in {"preserved", "running"} => ~KnownTo(accepted, frontier[i]),
         v = "preserved" => Holds(frontier[i], Preserved),
         v = "rejected" => KnownTo(accepted, frontier[i]) \/ Holds(frontier[i], Rejected),
         v = "inconclusive" => error
  PROVE  IInv'
<1>1. Grows /\ attempts' = attempts
  BY JournalKept DEF command, preparation
<1>2. ChainLinked' /\ Behind' /\ Evidenced' /\ OnChain' /\ Ahead'
  BY <1>1, GrowsKeeps, GrowsStays, GrowsEvidenced DEF IInv
<1>3. answers \in [1..Len(frontier) -> Verdict \cup {"none", "running"}] /\ i \in 1..Len(frontier)
  BY FrontierTyped DEF IInv, TypeOK
<1>4. answers' \in [1..Len(frontier') -> Verdict \cup {"none", "running"}]
  BY <1>3 DEF Give
<1>5. TypeOK'
  BY <1>1, <1>4 DEF IInv, TypeOK, place, journal
<1>6. Shape'
  BY DEF IInv, Shape, place
<1>7. Answers'
  <2>1. Planned' = Planned /\ frontier' = frontier /\ realized' = realized /\ (error' <=> error)
    BY DEF Planned, Canonical
  <2>2. accepted' = accepted /\ transitions' = transitions /\ preparation' = preparation /\ command' = command
    BY DEF place, journal, command, preparation
  <2>3. \A j \in Planned : answers'[j] = IF j = i THEN v ELSE answers[j]
    BY <1>3 DEF Give, Planned, Canonical
  <2>4. \A c : /\ Prep(c)' = Prep(c) /\ (Wavers(c)' <=> Wavers(c))
               /\ (Holds(c, Preserved)' <=> Holds(c, Preserved)) /\ (Holds(c, Rejected)' <=> Holds(c, Rejected))
    BY <1>1, <2>2 DEF Prep, Wavers, Holds
  <2>5. Answers
    BY DEF IInv
  <2>6. \A c \in DOMAIN realized' : realized'[c] \in Prep(c)'
    BY <2>1, <2>4, <2>5 DEF Answers
  <2>7. ASSUME NEW j \in Planned'
        PROVE  /\ answers'[j] \in {"preserved", "running"} => ~KnownTo(accepted', frontier'[j])
               /\ answers'[j] = "preserved" => Holds(frontier[j], Preserved)
               /\ answers'[j] = "rejected" => KnownTo(accepted', frontier'[j]) \/ Holds(frontier[j], Rejected)
               /\ answers'[j] = "inconclusive" /\ ~error' =>
                    /\ \A x \in transitions' : x.candidate # frontier'[j]
                    /\ Repeatable(preparation) => Prep(frontier[j]) \cap accepted' = {} /\ Wavers(frontier[j])
    <3>1. CASE j = i
      BY <2>1, <2>2, <2>3, <3>1
    <3>2. CASE j # i
      BY <2>1, <2>2, <2>3, <2>5, <3>2 DEF Answers
    <3> QED
      BY <3>1, <3>2
  <2> QED
    BY <2>1, <2>2, <2>4, <2>6, <2>7, <1>1, GrowsRepeatable DEF Answers, KnownTo
<1> QED
  BY <1>2, <1>5, <1>6, <1>7 DEF IInv

-----------------------------------------------------------------------------
\* A candidate is run.

LEMMA Observed ==
  ASSUME StructuredAssumption, TypeOK, NEW c \in Candidate,
         NEW prepared \in SUBSET preparation[c], NEW e \in Observable(prepared)
  PROVE  /\ e \in Evidence
         /\ e \in Preserved => \E p \in prepared : p \in Project \ accepted /\ e \in command[p]
         /\ Repeatable(preparation) =>
              \A p \in preparation[c] :
                \/ (p = Refused \/ p \in accepted) /\ e = Refusal
                \/ p \in Project \ accepted /\ e \in command[p]
<1>1. /\ preparation[c] \subseteq Project \cup {Refused}
      /\ \A p \in Project : command[p] \subseteq Evidence
  BY DEF TypeOK, Setting, preparation, command
<1>2. /\ Refused \notin Project /\ Refusal \in Rejected /\ Unsteady \in Inconclusive
      /\ Preserved \cap (Rejected \cup Inconclusive) = {}
  BY DEF StructuredAssumption
<1>3. \/ e = Unsteady /\ \E p, q \in prepared \ {Refused} : p # q
      \/ \E p \in prepared : e \in IF p = Refused \/ p \in accepted THEN {Refusal} ELSE command[p]
  BY DEF Observable
<1>4. e \in Evidence
  BY <1>1, <1>2, <1>3 DEF Evidence
<1>5. e \in Preserved => \E p \in prepared : p \in Project \ accepted /\ e \in command[p]
  BY <1>1, <1>2, <1>3
<1>6. ASSUME Repeatable(preparation), NEW p \in preparation[c]
      PROVE  \/ (p = Refused \/ p \in accepted) /\ e = Refusal
             \/ p \in Project \ accepted /\ e \in command[p]
  <2>1. preparation[c] = {p}
    BY <1>6 DEF Repeatable
  <2>2. e \in IF p = Refused \/ p \in accepted THEN {Refusal} ELSE command[p]
    BY <1>3, <2>1
  <2> QED
    BY <1>1, <1>6, <2>2
<1> QED
  BY <1>4, <1>5, <1>6

LEMMA RecordGrows ==
  ASSUME TypeOK, NEW c, NEW e, Recordable(c, e), attempts' = With(attempts, c, e),
         transitions' = transitions, setting' = setting
  PROVE  /\ Grows
         /\ DOMAIN attempts' = DOMAIN attempts \cup {c}
         /\ attempts'[c] = e
         /\ \A d \in DOMAIN attempts : d # c => attempts'[d] = attempts[d]
<1>1. /\ DOMAIN attempts' = DOMAIN attempts \cup {c}
      /\ attempts'[c] = e
      /\ \A d \in DOMAIN attempts : d # c => attempts'[d] = attempts[d]
  BY DEF With
<1>2. Grows
  BY <1>1 DEF Grows, Keeps, Recordable, Conclusive, command, preparation
<1> QED
  BY <1>1, <1>2

LEMMA RecordStep ==
  ASSUME StructuredAssumption, IInv, NEW i \in Planned, answers[i] = "running",
         NEW prepared \in SUBSET preparation[frontier[i]], NEW e \in Observable(prepared),
         Recordable(frontier[i], e), Give(i, VerdictOf(e)), attempts' = With(attempts, frontier[i], e),
         IF e \in Preserved
         THEN \E p \in prepared \ {Refused} : realized' = With(realized, frontier[i], p)
         ELSE UNCHANGED realized,
         UNCHANGED <<error, setting, status, jobs, place, frontier, transitions>>
  PROVE  IInv'
<1> DEFINE c == frontier[i]
<1>1. /\ Grows
      /\ DOMAIN attempts' = DOMAIN attempts \cup {c}
      /\ attempts'[c] = e
      /\ \A d \in DOMAIN attempts : d # c => attempts'[d] = attempts[d]
  BY RecordGrows DEF IInv
<1>2. ChainLinked' /\ Behind' /\ OnChain' /\ Ahead'
  BY <1>1, GrowsKeeps, GrowsStays DEF IInv
<1>3. /\ i \in 1..Len(frontier) /\ c \in Candidate /\ c \in OfferedBy(project)
      /\ answers \in [1..Len(frontier) -> Verdict \cup {"none", "running"}]
      /\ project \in Project /\ ordinal \in Nat
  BY FrontierTyped DEF IInv, TypeOK
<1>4. /\ e \in Evidence
      /\ e \in Preserved => \E p \in prepared : p \in Project \ accepted /\ e \in command[p]
      /\ Repeatable(preparation) =>
           \A p \in preparation[c] :
             \/ (p = Refused \/ p \in accepted) /\ e = Refusal
             \/ p \in Project \ accepted /\ e \in command[p]
  BY <1>3, Observed DEF IInv
<1>5. /\ VerdictOf(e) \in Verdict
      /\ VerdictOf(e) = "preserved" <=> e \in Preserved
      /\ VerdictOf(e) = "rejected" <=> e \in Rejected
      /\ VerdictOf(e) = "inconclusive" => e \in Inconclusive /\ e \notin Preserved /\ e # Refusal
  BY <1>4 DEF VerdictOf, Verdict, Evidence, StructuredAssumption
<1>6. /\ DOMAIN realized' \subseteq Candidate
      /\ \A d \in DOMAIN realized' : realized'[d] \in Project /\ realized'[d] \in Prep(d)
  <2>1. /\ DOMAIN realized \subseteq Candidate
        /\ \A d \in DOMAIN realized : realized[d] \in Project /\ realized[d] \in Prep(d)
    BY DEF IInv, TypeOK, Answers
  <2>2. CASE e \notin Preserved
    BY <2>1, <2>2
  <2>3. CASE e \in Preserved
    <3>1. PICK p \in prepared \ {Refused} : realized' = With(realized, c, p)
      BY <2>3
    <3>2. p \in Project /\ p \in Prep(c)
      BY <1>3 DEF Prep, IInv, TypeOK, Setting, preparation
    <3> QED
      BY <2>1, <3>1, <3>2, <1>3 DEF With
  <2> QED
    BY <2>2, <2>3
<1>7. TypeOK'
  <2>1. answers' \in [1..Len(frontier') -> Verdict \cup {"none", "running"}]
    BY <1>3, <1>5 DEF Give
  <2>2. DOMAIN attempts' \subseteq Candidate /\ \A d \in DOMAIN attempts' : attempts'[d] \in Evidence
    BY <1>1, <1>3, <1>4 DEF IInv, TypeOK
  <2> QED
    BY <1>6, <2>1, <2>2 DEF IInv, TypeOK, place
<1>8. Shape'
  BY DEF IInv, Shape, place
<1>9. Repeatable(preparation) => (e \in Inconclusive => Prep(c) \cap accepted = {} /\ Wavers(c))
  <2> SUFFICES ASSUME Repeatable(preparation), e \in Inconclusive
               PROVE  Prep(c) \cap accepted = {} /\ Wavers(c)
    OBVIOUS
  <2>1. e # Refusal /\ e \notin Preserved
    BY DEF StructuredAssumption
  <2>2. PICK p \in preparation[c] : preparation[c] = {p}
    BY <1>3 DEF Repeatable
  <2>3. p \in Project \ accepted /\ e \in command[p]
    BY <1>4, <2>1, <2>2
  <2> QED
    BY <2>1, <2>2, <2>3 DEF Prep, Wavers
<1>10. Answers'
  <2>1. Planned' = Planned /\ frontier' = frontier /\ (error' <=> error)
    BY DEF Planned, Canonical
  <2>2. accepted' = accepted /\ transitions' = transitions /\ preparation' = preparation /\ command' = command
    BY DEF place, command, preparation
  <2>3. \A j \in Planned : answers'[j] = IF j = i THEN VerdictOf(e) ELSE answers[j]
    BY <1>3 DEF Give, Planned, Canonical
  <2>4. \A d : /\ Prep(d)' = Prep(d) /\ (Wavers(d)' <=> Wavers(d))
               /\ (Holds(d, Preserved) => Holds(d, Preserved)') /\ (Holds(d, Rejected) => Holds(d, Rejected)')
    BY <1>1, <2>2, KeepsHolds DEF Prep, Wavers, Grows
  <2>5. Answers
    BY DEF IInv
  <2>6. \A d \in DOMAIN realized' : realized'[d] \in Prep(d)'
    BY <1>6, <2>4
  <2>7. /\ VerdictOf(e) = "preserved" => Holds(c, Preserved)'
        /\ VerdictOf(e) = "rejected" => Holds(c, Rejected)'
        /\ VerdictOf(e) = "preserved" => ~KnownTo(accepted, c)
        /\ VerdictOf(e) = "inconclusive" => \A x \in transitions : x.candidate # c
    <3>1. ~KnownTo(accepted, c)
      BY <2>5 DEF Answers
    <3>2. VerdictOf(e) = "inconclusive" => \A x \in transitions : x.candidate # c
      BY <1>5 DEF IInv, ChainLinked, Recordable, Conclusive, Terminal
    <3> QED
      BY <1>1, <1>5, <3>1, <3>2 DEF Holds
  <2>8. ASSUME NEW j \in Planned'
        PROVE  /\ answers'[j] \in {"preserved", "running"} => ~KnownTo(accepted', frontier'[j])
               /\ answers'[j] = "preserved" => Holds(frontier[j], Preserved)'
               /\ answers'[j] = "rejected" => KnownTo(accepted', frontier'[j]) \/ Holds(frontier[j], Rejected)'
               /\ answers'[j] = "inconclusive" /\ ~error' =>
                    /\ \A x \in transitions' : x.candidate # frontier'[j]
                    /\ Repeatable(preparation) => Prep(frontier[j]) \cap accepted' = {} /\ Wavers(frontier[j])
    <3>1. CASE j = i
      BY <1>5, <1>9, <2>1, <2>2, <2>3, <2>7, <3>1 DEF Verdict
    <3>2. CASE j # i
      BY <2>1, <2>2, <2>3, <2>4, <2>5, <3>2 DEF Answers
    <3> QED
      BY <3>1, <3>2
  <2> QED
    BY <2>1, <2>2, <2>4, <2>6, <2>8, <1>1, GrowsRepeatable DEF Answers, KnownTo
<1>11. Evidenced'
  <2>1. Stood(ordinal, project) /\ accepted = Acc(ordinal) /\ Acc(ordinal) \subseteq {Origin} \cup Outputs
    BY DEF IInv, OnChain, Acc, Outputs
  <2>2. e \in Preserved =>
          /\ \E p \in Prep(c) \cap Project : command[p] \cap Preserved # {}
          /\ Repeatable(preparation) =>
               \E k \in Nat, p \in Project : Stood(k, p) /\ c \in OfferedBy(p) /\ Prep(c) \cap Acc(k) = {}
    <3> SUFFICES ASSUME e \in Preserved
                 PROVE  /\ \E p \in Prep(c) \cap Project : command[p] \cap Preserved # {}
                        /\ Repeatable(preparation) => Prep(c) \cap accepted = {}
      BY <1>3, <2>1
    <3>1. PICK p \in prepared : p \in Project \ accepted /\ e \in command[p]
      BY <1>4
    <3>2. Repeatable(preparation) => preparation[c] = {p}
      BY <1>3, <3>1 DEF Repeatable
    <3> QED
      BY <3>1, <3>2 DEF Prep
  <2>3. e \in Rejected /\ Repeatable(preparation) =>
          \A p \in Prep(c) : p = Refused \/ p \in {Origin} \cup Outputs \/ command[p] \ Preserved # {}
    BY <1>4, <2>1 DEF Prep, StructuredAssumption
  <2>4. Evidenced
    BY DEF IInv
  <2>5. ASSUME NEW d \in DOMAIN attempts'
        PROVE  /\ attempts'[d] \in Preserved => \E p \in Prep(d) \cap Project : command[p] \cap Preserved # {}
               /\ attempts'[d] \in Preserved /\ Repeatable(preparation) =>
                    \E k \in Nat, p \in Project : Stood(k, p) /\ d \in OfferedBy(p) /\ Prep(d) \cap Acc(k) = {}
               /\ attempts'[d] \in Rejected /\ Repeatable(preparation) =>
                    \A p \in Prep(d) : p = Refused \/ p \in {Origin} \cup Outputs \/ command[p] \ Preserved # {}
    <3>1. CASE d = c
      BY <1>1, <2>2, <2>3, <3>1
    <3>2. CASE d # c
      BY <1>1, <2>4, <3>2 DEF Evidenced
    <3> QED
      BY <3>1, <3>2
  <2>6. \A d : Prep(d)' = Prep(d) /\ OfferedBy(d)' = OfferedBy(d)
    BY DEF Prep, OfferedBy, preparation
  <2> QED
    BY <1>1, <2>5, <2>6, GrowsChain, GrowsRepeatable DEF Evidenced, Grows, Keeps
<1> QED
  BY <1>2, <1>7, <1>8, <1>10, <1>11 DEF IInv

LEMMA FailStep ==
  ASSUME StructuredAssumption, IInv, NEW i \in Planned, Give(i, "inconclusive"), error' = TRUE,
         setting' \in Setting, command' = command, preparation' = preparation,
         UNCHANGED <<status, jobs, place, frontier, realized, journal>>
  PROVE  IInv'
<1>1. Grows /\ attempts' = attempts
  BY JournalKept
<1>2. ChainLinked' /\ Behind' /\ Evidenced' /\ OnChain' /\ Ahead'
  BY <1>1, GrowsKeeps, GrowsStays, GrowsEvidenced DEF IInv
<1>3. /\ answers \in [1..Len(frontier) -> Verdict \cup {"none", "running"}] /\ i \in 1..Len(frontier)
      /\ frontier # <<>>
  BY FrontierTyped DEF IInv, TypeOK
<1>4. answers' \in [1..Len(frontier') -> Verdict \cup {"none", "running"}]
  BY <1>3 DEF Give, Verdict
<1>5. TypeOK'
  <2>1. error' \in BOOLEAN /\ (error' => frontier' # <<>>)
    BY <1>3, Zenon
  <2> QED
    BY <1>1, <1>4, <2>1 DEF IInv, TypeOK, place, journal
<1>6. Shape'
  BY DEF IInv, Shape, place
<1>7. Answers'
  <2>1. Planned' = Planned /\ frontier' = frontier /\ realized' = realized /\ accepted' = accepted
    BY DEF Planned, Canonical, place
  <2>2. \A j \in Planned : answers'[j] = IF j = i THEN "inconclusive" ELSE answers[j]
    BY <1>3 DEF Give, Planned, Canonical
  <2>3. \A c : /\ Prep(c)' = Prep(c)
               /\ (Holds(c, Preserved)' <=> Holds(c, Preserved)) /\ (Holds(c, Rejected)' <=> Holds(c, Rejected))
    BY <1>1 DEF Prep, Holds
  <2>4. Answers
    BY DEF IInv
  <2>5. \A c \in DOMAIN realized' : realized'[c] \in Prep(c)'
    BY <2>1, <2>3, <2>4 DEF Answers
  <2> QED
    BY <2>1, <2>2, <2>3, <2>4, <2>5 DEF Answers, KnownTo
<1> QED
  BY <1>2, <1>5, <1>6, <1>7 DEF IInv

-----------------------------------------------------------------------------
\* The run goes from phase to phase.

LEMMA OffersTyped ==
  ASSUME StructuredAssumption, TypeOK, phase \in Phase
  PROVE  /\ Offers[project][phase] \in Seq(Candidate)
         /\ Len(Offers[project][phase]) \in Nat
<1>1. project \in Project
  BY DEF TypeOK
<1>2. Offers[project][phase] \in Seq(Candidate)
  BY <1>1 DEF StructuredAssumption
<1> QED
  BY <1>2

LEMMA StartStep ==
  ASSUME StructuredAssumption, IInv, Start
  PROVE  IInv'
<1>1. /\ Grows /\ attempts' = attempts /\ UNCHANGED <<setting, place, work, journal>>
  BY JournalKept DEF Start, command, preparation
<1>2. ChainLinked' /\ Behind' /\ Evidenced' /\ OnChain' /\ Ahead'
  BY <1>1, GrowsKeeps, GrowsStays, GrowsEvidenced DEF IInv
<1>3. jobs' \in Nat \ {0} /\ status' = "running"
  BY DEF Start, IInv, TypeOK, Setting
<1>4. TypeOK' /\ Shape'
  BY <1>1, <1>3 DEF IInv, TypeOK, Shape, place, work, journal
<1>5. Answers'
  BY <1>1 DEF IInv, Answers, Planned, Canonical, place, work, journal, Prep, Wavers, Holds, KnownTo,
              command, preparation, Repeatable
<1> QED
  BY <1>2, <1>4, <1>5 DEF IInv

LEMMA AskStep ==
  ASSUME StructuredAssumption, IInv, Ask
  PROVE  IInv'
<1>1. /\ Grows /\ attempts' = attempts
      /\ UNCHANGED <<setting, status, jobs, place, realized, error, journal>>
  BY JournalKept DEF Ask, command, preparation
<1>2. ChainLinked' /\ Behind' /\ Evidenced' /\ OnChain' /\ Ahead'
  BY <1>1, GrowsKeeps, GrowsStays, GrowsEvidenced DEF IInv
<1>3. /\ phase \in Phase /\ frontier' = Offers[project][phase] /\ frontier' # <<>>
      /\ status = "running"
      /\ answers' = [i \in 1..Len(frontier') |-> "none"]
      /\ frontier' \in Seq(Candidate)
  BY OffersTyped DEF Ask, Searching, IInv
<1>4. TypeOK' /\ Shape'
  BY <1>1, <1>3 DEF IInv, TypeOK, Shape, place, journal
<1>5. Answers'
  <2>1. \A i \in Planned' : answers'[i] = "none"
    BY <1>3 DEF Planned, Canonical
  <2>2. \A c \in DOMAIN realized' : realized'[c] \in Prep(c)'
    BY <1>1 DEF IInv, Answers, Prep, preparation
  <2> QED
    BY <2>1, <2>2 DEF Answers
<1> QED
  BY <1>2, <1>4, <1>5 DEF IInv

\* A phase is over: its own state is gone, and it has been passed.
LEMMA PhaseStep ==
  ASSUME StructuredAssumption, IInv,
         status = "running", phase \in Phase,
         NextPhase, frontier' = <<>>, error' = FALSE,
         answers' \in [1..Len(frontier') -> Verdict \cup {"none", "running"}],
         DOMAIN realized' \subseteq Candidate, \A c \in DOMAIN realized' : realized'[c] \in Project \cap Prep(c),
         UNCHANGED <<setting, status, jobs, journal>>,
         Repeatable(preparation) => Passed(project, accepted, phase),
         Repeatable(preparation) =>
           \A x \in transitions : x.ordinal = ordinal => ~WonAt(x, phase)
  PROVE  IInv'
<1>1. Grows /\ attempts' = attempts
  BY JournalKept DEF command, preparation
<1>2. ChainLinked' /\ Behind' /\ Evidenced'
  BY <1>1, GrowsKeeps, GrowsEvidenced DEF IInv
<1>3. project' = project /\ accepted' = accepted /\ ordinal' = ordinal /\ phase' = After[phase]
  BY DEF NextPhase
<1>4. /\ phase' \in Phase \cup {"verify"} /\ Rank[phase'] = Rank[phase] + 1
      /\ \A earlier \in Phase : Rank[earlier] \in Nat
      /\ \A earlier \in Phase : Rank[earlier] = Rank[phase] => earlier = phase
  BY <1>3 DEF After, Phase, Rank
<1>5. TypeOK' /\ Shape'
  <2>1. error' \in BOOLEAN /\ ~error'
    BY Zenon
  <2> QED
    BY <1>1, <1>3, <1>4, <2>1 DEF IInv, TypeOK, Shape, journal
<1>6. Answers'
  BY DEF Answers, Planned, Canonical, Prep, preparation
<1>7. OnChain'
  BY <1>1, <1>3, GrowsChain DEF IInv, OnChain
<1>8. Ahead'
  <2> SUFFICES ASSUME Repeatable(preparation)'
               PROVE  /\ PassedBefore(project, accepted, phase)'
                      /\ \A x \in transitions' : x.ordinal = ordinal' =>
                           \E ph \in Phase : Rank[phase'] <= Rank[ph] /\ WonAt(x, ph)'
    BY DEF Ahead, Rank, Phase
  <2>1. Repeatable(preparation)
    BY <1>1, GrowsRepeatable
  <2>2. PassedBefore(project, accepted, phase')
    BY <1>4, <2>1 DEF PassedBefore, IInv, Ahead
  <2>3. PICK p, acc, ph : p = project /\ acc = accepted /\ ph = phase'
    OBVIOUS
  <2>4. PassedBefore(p, acc, ph)'
    BY <1>1, <2>2, <2>3, KeepsPassed DEF Grows
  <2>5. PassedBefore(project, accepted, phase)'
    BY <1>3, <2>3, <2>4
  <2>6. ASSUME NEW x \in transitions', x.ordinal = ordinal'
        PROVE  \E ph2 \in Phase : Rank[phase'] <= Rank[ph2] /\ WonAt(x, ph2)'
    <3>1. x \in transitions /\ x.ordinal = ordinal
      BY <1>3, <2>6 DEF journal
    <3>2. PICK ph2 \in Phase : Rank[phase] <= Rank[ph2] /\ WonAt(x, ph2)
      BY <2>1, <3>1 DEF IInv, Ahead
    <3>3. ph2 # phase
      BY <2>1, <3>1, <3>2
    <3>4. Rank[phase'] <= Rank[ph2]
      <4>1. Rank[ph2] \in Nat /\ Rank[phase] \in Nat /\ Rank[ph2] # Rank[phase]
        BY <1>4, <3>3
      <4> QED
        BY <1>4, <3>2, <4>1
    <3> QED
      BY <1>1, <3>2, <3>4, GrowsChain
  <2> QED
    BY <2>5, <2>6
<1> QED
  BY <1>2, <1>5, <1>6, <1>7, <1>8 DEF IInv

LEMMA SkipPhaseStep ==
  ASSUME StructuredAssumption, IInv, SkipPhase
  PROVE  IInv'
<1>1. /\ status = "running" /\ phase \in Phase /\ Offers[project][phase] = <<>>
  BY DEF SkipPhase, Searching
<1>2. frontier = <<>> /\ ~error
  BY <1>1 DEF IInv, TypeOK
<1>3. Passed(project, accepted, phase)
  BY <1>1 DEF Passed, LostBefore, First
<1>4. \A x \in transitions : x.ordinal = ordinal => ~WonAt(x, phase)
  <2> SUFFICES ASSUME NEW x \in transitions, x.ordinal = ordinal, WonAt(x, phase)
               PROVE  FALSE
    OBVIOUS
  <2>1. x.from = project
    BY DEF IInv, ChainLinked, OnChain, Stood
  <2> QED
    BY <1>1, <2>1 DEF WonAt, Won, First
<1>5. error' = FALSE
  BY <1>2, Zenon DEF SkipPhase, work, IInv, TypeOK
<1> QED
  BY <1>1, <1>2, <1>3, <1>4, <1>5, PhaseStep DEF SkipPhase, NextPhase, work, IInv, TypeOK, Answers

-----------------------------------------------------------------------------
\* The decision on a frontier.

LEMMA Disjoint ==
  ASSUME StructuredAssumption, NEW c, Holds(c, Preserved)
  PROVE  ~Holds(c, Rejected)
BY DEF Holds, StructuredAssumption

LEMMA AnsweredLost ==
  ASSUME IInv, Repeatable(preparation), ~error, NEW j \in Planned,
         answers[j] \in {"rejected", "inconclusive"}
  PROVE  Lost(accepted, frontier[j])
<1>1. CASE answers[j] = "rejected"
  BY <1>1 DEF IInv, Answers, Lost
<1>2. CASE answers[j] = "inconclusive"
  BY <1>2 DEF IInv, Answers, Lost
<1> QED
  BY <1>1, <1>2

LEMMA Anyhow ==
  ASSUME IInv, NEW j \in Planned
  PROVE  answers[j] \in {"none", "running", "preserved", "rejected", "inconclusive"}
BY DEF IInv, TypeOK, Planned, Canonical, Verdict

\* The ranks of the frontier are those of its phase.
LEMMA PlannedFirst ==
  ASSUME StructuredAssumption, IInv, Asked, NEW j
  PROVE  /\ First(project, phase, j) <=> j \in Planned
         /\ Offers[project][phase] = frontier
BY DEF IInv, TypeOK, Asked, First, Planned, Canonical

LEMMA WinnerWon ==
  ASSUME StructuredAssumption, IInv, NEW i \in Planned, Winner(i)
  PROVE  /\ Holds(frontier[i], Preserved) /\ ~KnownTo(accepted, frontier[i])
         /\ Repeatable(preparation) /\ ~error => LostBefore(project, accepted, phase, i)
<1>1. answers[i] = "preserved"
  BY DEF Winner, PreservedRanks
<1>2. ASSUME Repeatable(preparation), ~error, NEW j \in Nat, j < i, First(project, phase, j)
      PROVE  Lost(accepted, Offers[project][phase][j])
  <2>1. j \in Planned /\ Offers[project][phase] = frontier
    BY <1>2, PlannedFirst DEF Winner
  <2>2. i \in Nat /\ j \in Before(i)
    BY <1>2, <2>1 DEF Before, Planned, Canonical
  <2>3. answers[j] \notin {"none", "running", "preserved"}
    BY <2>1, <2>2, <1>2 DEF Winner, Running, PreservedRanks
  <2> QED
    BY <1>2, <2>1, <2>3, Anyhow, AnsweredLost
<1> QED
  BY <1>1, <1>2 DEF IInv, Answers, LostBefore

LEMMA NoWinnerPassed ==
  ASSUME StructuredAssumption, IInv, Repeatable(preparation), ~error, NoWinner
  PROVE  Passed(project, accepted, phase)
<1>1. ASSUME NEW j \in Nat, First(project, phase, j)
      PROVE  Lost(accepted, Offers[project][phase][j])
  <2>1. j \in Planned /\ Offers[project][phase] = frontier
    BY <1>1, PlannedFirst DEF NoWinner
  <2>2. answers[j] \in {"rejected", "inconclusive"}
    BY <2>1, Anyhow DEF NoWinner, Running
  <2> QED
    BY <2>1, <2>2, AnsweredLost
<1>2. Len(frontier) \in Nat /\ Offers[project][phase] = frontier
  <2>1. frontier = Offers[project][phase] /\ phase \in Phase
    BY DEF NoWinner, Asked, IInv, TypeOK
  <2> QED
    BY <2>1, OffersTyped DEF IInv
<1>3. LostBefore(project, accepted, phase, Len(frontier) + 1)
  BY <1>1 DEF LostBefore
<1> QED
  BY <1>2, <1>3 DEF Passed

LEMMA MaterialPrepared ==
  ASSUME IInv, NEW i \in Planned
  PROVE  Material(i) \subseteq Prep(frontier[i])
BY DEF Material, Prep, IInv, Answers

LEMMA NotPassed ==
  ASSUME StructuredAssumption, IInv, Repeatable(preparation), ~error,
         NoWinner \/ \E i \in Planned : Winner(i) /\ Material(i) \cap accepted # {},
         NEW x \in transitions, x.ordinal = ordinal, WonAt(x, phase)
  PROVE  FALSE
<1>1. x.from = project /\ accepted = Acc(x.ordinal)
  BY DEF IInv, ChainLinked, OnChain, Stood
<1>2. Asked
  BY DEF NoWinner, Winner
<1>3. PICK w \in Nat :
        /\ First(project, phase, w) /\ x.candidate = Offers[project][phase][w]
        /\ LostBefore(project, accepted, phase, w)
  BY <1>1 DEF WonAt, Won
<1>4. w \in Planned /\ x.candidate = frontier[w] /\ Offers[project][phase] = frontier
  BY <1>2, <1>3, PlannedFirst
<1>5. /\ ~KnownTo(accepted, frontier[w]) /\ Prep(frontier[w]) = {x.to} /\ x.to \notin accepted
      /\ Holds(frontier[w], Preserved)
  BY <1>1, <1>4 DEF WonAt, Won, IInv, ChainLinked, Holds
<1>6. answers[w] \notin {"rejected", "inconclusive"}
  BY <1>4, <1>5, Disjoint DEF IInv, Answers
<1>7. ~NoWinner
  BY <1>4, <1>6, Anyhow DEF NoWinner, Running
<1>8. PICK i \in Planned : Winner(i) /\ Material(i) \cap accepted # {}
  BY <1>7
<1>9. i \in Nat /\ w \in Nat
  BY <1>4, <1>8 DEF Planned, Canonical
<1>10. i <= w
  <2>1. answers[w] \in {"none", "preserved"}
    BY <1>4, <1>6, <1>8, Anyhow DEF Winner, Running
  <2>2. CASE answers[w] = "preserved"
    BY <1>4, <1>8, <2>2 DEF Winner, PreservedRanks
  <2>3. CASE answers[w] = "none"
    BY <1>4, <1>8, <1>9, <2>3 DEF Winner, Before
  <2> QED
    BY <2>1, <2>2, <2>3
<1>11. Prep(frontier[i]) \cap accepted # {}
  BY <1>8, MaterialPrepared
<1>12. i < w
  BY <1>5, <1>9, <1>10, <1>11
<1>13. Lost(accepted, frontier[i])
  BY <1>2, <1>3, <1>4, <1>8, <1>9, <1>12, PlannedFirst DEF LostBefore
<1>14. Holds(frontier[i], Preserved) /\ ~KnownTo(accepted, frontier[i])
  BY <1>8, WinnerWon
<1> QED
  BY <1>11, <1>13, <1>14, Disjoint DEF Lost

LEMMA PassPhaseStep ==
  ASSUME StructuredAssumption, IInv, PassPhase
  PROVE  IInv'
<1>1. ~error /\ (NoWinner \/ \E i \in Planned : Winner(i) /\ Material(i) \cap accepted # {})
  BY DEF PassPhase
<1>2. Asked /\ status = "running" /\ phase \in Phase
  BY <1>1 DEF NoWinner, Winner, Asked, IInv, TypeOK
<1>3. Repeatable(preparation) => Passed(project, accepted, phase)
  <2> SUFFICES ASSUME Repeatable(preparation) PROVE Passed(project, accepted, phase)
    OBVIOUS
  <2>1. CASE NoWinner
    BY <1>1, <2>1, NoWinnerPassed
  <2>2. CASE \E i \in Planned : Winner(i) /\ Material(i) \cap accepted # {}
    <3>1. PICK i \in Planned : Winner(i) /\ Material(i) \cap accepted # {}
      BY <2>2
    <3>2. First(project, phase, i) /\ Offers[project][phase] = frontier /\ i \in Nat
      BY <1>2, PlannedFirst DEF Planned, Canonical
    <3>3. Masked(accepted, frontier[i]) /\ LostBefore(project, accepted, phase, i)
      BY <1>1, <3>1, WinnerWon, MaterialPrepared DEF Masked
    <3> QED
      BY <3>2, <3>3 DEF Passed
  <2> QED
    BY <1>1, <2>1, <2>2
<1>4. Repeatable(preparation) => \A x \in transitions : x.ordinal = ordinal => ~WonAt(x, phase)
  BY <1>1, NotPassed
<1>5. error' = FALSE /\ frontier' = <<>> /\ NextPhase
      /\ UNCHANGED <<setting, status, jobs, journal>>
  BY DEF PassPhase, Leave
<1>6. /\ DOMAIN realized' \subseteq Candidate
      /\ \A c \in DOMAIN realized' : realized'[c] \in Project \cap Prep(c)
      /\ answers' \in [1..Len(frontier') -> Verdict \cup {"none", "running"}]
  BY DEF PassPhase, Leave, Empty
<1> QED
  BY <1>2, <1>3, <1>4, <1>5, <1>6, PhaseStep

-----------------------------------------------------------------------------
\* A cut.

\* The run makes the cut to p that its first preserved rank is.
CutTo(i, p) ==
  /\ Winner(i) /\ ~error
  /\ p \in (Material(i) \ {Refused}) \ accepted
  /\ Insertable(Link(i, p))
  /\ transitions' = transitions \cup {Link(i, p)}
  /\ project' = p /\ accepted' = accepted \cup {p}
  /\ ordinal' = ordinal + 1 /\ phase' = "manifests"
  /\ Leave
  /\ UNCHANGED <<setting, status, jobs, attempts>>

LEMMA CutFacts ==
  ASSUME StructuredAssumption, IInv, NEW i \in Planned, NEW p, CutTo(i, p)
  PROVE  /\ p \in Project \ accepted /\ p \in Prep(frontier[i]) /\ p # Origin
         /\ frontier[i] \in OfferedBy(project) \cap DOMAIN attempts /\ attempts[frontier[i]] \in Preserved
         /\ Repeatable(preparation) => Prep(frontier[i]) = {p} /\ command[p] \cap Preserved # {}
         /\ Repeatable(preparation) => WonAt(Link(i, p), phase)
<1>1. /\ frontier[i] \in Candidate /\ frontier[i] \in OfferedBy(project)
      /\ First(project, phase, i) /\ frontier = Offers[project][phase] /\ i \in Nat
  BY FrontierTyped DEF IInv, Planned, Canonical
<1>2. p \in Prep(frontier[i]) /\ p # Refused /\ p \notin accepted
  BY MaterialPrepared DEF CutTo
<1>3. p \in Project
  BY <1>1, <1>2 DEF Prep, IInv, TypeOK, Setting, preparation
<1>4. Origin \in accepted /\ accepted = Acc(ordinal)
  BY DEF IInv, OnChain, Acc
<1>5. Holds(frontier[i], Preserved) /\ ~KnownTo(accepted, frontier[i])
  BY WinnerWon DEF CutTo
<1>6. ASSUME Repeatable(preparation)
      PROVE  /\ Prep(frontier[i]) = {p} /\ command[p] \cap Preserved # {}
             /\ WonAt(Link(i, p), phase)
  <2>1. Prep(frontier[i]) = {p}
    BY <1>1, <1>2, <1>6 DEF Repeatable, Prep
  <2>2. command[p] \cap Preserved # {}
    BY <1>5, <2>1 DEF Holds, IInv, Evidenced
  <2>3. LostBefore(project, accepted, phase, i)
    BY <1>6, WinnerWon DEF CutTo
  <2>4. Won(project, accepted, phase, frontier[i], p)
    BY <1>1, <1>2, <1>3, <1>5, <2>1, <2>3 DEF Won
  <2>5. PassedBefore(project, accepted, phase)
    BY <1>6 DEF IInv, Ahead
  <2> QED
    BY <1>4, <2>1, <2>2, <2>4, <2>5 DEF WonAt, Link
<1> QED
  BY <1>1, <1>2, <1>3, <1>4, <1>5, <1>6 DEF Holds

\* The transition is the one the journal has, or it is the journal's next.
LEMMA CutNext ==
  ASSUME StructuredAssumption, IInv, NEW i, NEW p, CutTo(i, p)
  PROVE  \/ Link(i, p) \in transitions
         \/ \A x \in transitions : x.ordinal < ordinal
<1> SUFFICES ASSUME NEW x \in transitions, ~(x.ordinal < ordinal)
             PROVE  Link(i, p) \in transitions
  OBVIOUS
<1>1. ordinal \in Nat /\ x.ordinal \in Nat /\ \A k \in 0..x.ordinal : \E y \in transitions : y.ordinal = k
  BY DEF IInv, TypeOK, ChainLinked
<1>2. PICK y \in transitions : y.ordinal = ordinal
  BY <1>1
<1>3. y = Link(i, p)
  BY <1>2 DEF CutTo, Insertable, Link
<1> QED
  BY <1>3

\* What had been accepted at each place of the chain stays.
LEMMA CutChain ==
  ASSUME StructuredAssumption, IInv, NEW i, NEW p, CutTo(i, p)
  PROVE  /\ \A k \in Nat : k <= ordinal => Acc(k)' = Acc(k)
         /\ \A k \in Nat : \A q : Stood(k, q) => Stood(k, q)' /\ Acc(k)' = Acc(k)
         /\ \A x \in transitions : Acc(x.ordinal)' = Acc(x.ordinal)
<1>0. ordinal \in Nat /\ \A x \in transitions : x.ordinal \in Nat
  BY DEF IInv, TypeOK
<1>1. \A k \in Nat : k <= ordinal => Acc(k)' = Acc(k)
  BY <1>0 DEF CutTo, Acc, Link
<1>2. CASE Link(i, p) \in transitions
  <2>1. transitions' = transitions
    BY <1>2 DEF CutTo
  <2> QED
    BY <1>1, <2>1 DEF Acc, Stood
<1>3. CASE \A x \in transitions : x.ordinal < ordinal
  <2>1. \A x \in transitions : Acc(x.ordinal)' = Acc(x.ordinal)
    BY <1>0, <1>1, <1>3
  <2>2. \A k \in Nat : \A q : Stood(k, q) => Stood(k, q)' /\ k <= ordinal
    BY <1>0, <1>3 DEF Stood, CutTo
  <2> QED
    BY <1>1, <2>1, <2>2
<1> QED
  BY <1>2, <1>3, CutNext

LEMMA CutLinked ==
  ASSUME StructuredAssumption, IInv, NEW i \in Planned, NEW p, CutTo(i, p)
  PROVE  ChainLinked'
<1> DEFINE l == Link(i, p)
<1>1. transitions' = transitions \cup {l} /\ attempts' = attempts
      /\ command' = command /\ preparation' = preparation
  BY DEF CutTo, command, preparation
<1>2. \A q : OfferedBy(q)' = OfferedBy(q)
  BY DEF OfferedBy
<1>3. Repeatable(preparation)' <=> Repeatable(preparation)
  BY <1>1 DEF Repeatable
<1>4. ordinal \in Nat /\ \A x \in transitions : x.ordinal \in Nat
  BY DEF IInv, TypeOK
<1>5. l.ordinal = ordinal /\ l.from = project /\ l.to = p /\ l.candidate = frontier[i]
  BY DEF Link
<1>6. /\ ordinal = 0 => project = Origin
      /\ ordinal # 0 => \E y \in transitions : y.ordinal = ordinal - 1 /\ y.to = project
  BY DEF IInv, OnChain, Stood
<1>7. ASSUME NEW k \in 0..ordinal
      PROVE  \E y \in transitions' : y.ordinal = k
  <2>1. CASE k = ordinal
    BY <1>1, <1>5, <2>1
  <2>2. CASE k # ordinal
    <3>1. ordinal # 0 /\ k \in 0..(ordinal - 1)
      BY <1>4, <2>2
    <3>2. PICK y \in transitions : y.ordinal = ordinal - 1
      BY <1>6, <3>1
    <3> QED
      BY <1>1, <3>1, <3>2 DEF IInv, ChainLinked
  <2> QED
    BY <2>1, <2>2
<1>8. ASSUME NEW x \in transitions'
      PROVE  /\ x.candidate \in OfferedBy(x.from) \cap DOMAIN attempts
             /\ attempts[x.candidate] \in Preserved
             /\ x.to \in preparation[x.candidate] /\ x.to # Origin
             /\ command[x.to] \cap Preserved # {} \/ ~Repeatable(preparation)
             /\ x.ordinal = 0 => x.from = Origin
             /\ x.ordinal # 0 => \E y \in transitions' : y.ordinal = x.ordinal - 1 /\ y.to = x.from
             /\ \A k \in 0..x.ordinal : \E y \in transitions' : y.ordinal = k
  <2>1. CASE x \in transitions
    BY <1>1, <2>1 DEF IInv, ChainLinked
  <2>2. CASE x = l
    BY <1>1, <1>5, <1>6, <1>7, <2>2, CutFacts DEF Prep
  <2> QED
    BY <1>1, <2>1, <2>2
<1>9. \A x, y \in transitions' : x.ordinal = y.ordinal \/ x.to = y.to => x = y
  <2>1. \A x \in transitions : x.ordinal = l.ordinal \/ x.to = l.to => x = l
    BY DEF CutTo, Insertable
  <2> QED
    BY <1>1, <2>1 DEF IInv, ChainLinked
<1> QED
  BY <1>1, <1>2, <1>3, <1>8, <1>9 DEF ChainLinked

LEMMA CutStep ==
  ASSUME StructuredAssumption, IInv, NEW i \in Planned, NEW p, CutTo(i, p)
  PROVE  IInv'
<1> DEFINE l == Link(i, p)
<1>1. transitions' = transitions \cup {l} /\ attempts' = attempts /\ Keeps
  BY DEF CutTo, command, preparation, Keeps
<1>2. ordinal \in Nat /\ (\A x \in transitions : x.ordinal \in Nat) /\ project \in Project
      /\ Repeatable(preparation)' = Repeatable(preparation)
  BY <1>1 DEF IInv, TypeOK, Keeps, Repeatable
<1>3. l.ordinal = ordinal /\ l.from = project /\ l.to = p /\ l.candidate = frontier[i]
  BY DEF Link
<1>4. frontier[i] \in Candidate /\ p \in Project
  BY FrontierTyped, CutFacts DEF IInv
<1>5. TypeOK'
  <2>1. error' \in BOOLEAN /\ ~error'
    BY Zenon DEF CutTo, Leave
  <2>2. DOMAIN realized' \subseteq Candidate /\ \A c \in DOMAIN realized' : realized'[c] \in Project
    BY DEF CutTo, Leave, Empty
  <2>3. answers' \in [1..Len(frontier') -> Verdict \cup {"none", "running"}]
    BY DEF CutTo, Leave
  <2>4. l \in [ordinal : Nat, from : Project, to : Project, candidate : Candidate]
    BY <1>2, <1>4 DEF Link
  <2>5. phase' \in Phase \cup {"verify"} /\ frontier' = <<>>
    BY DEF CutTo, Leave, Phase
  <2>6. setting' = setting /\ status' = status /\ jobs' = jobs /\ ordinal' = ordinal + 1
        /\ project' = p /\ accepted' = accepted \cup {p}
    BY DEF CutTo
  <2> QED
    BY <1>1, <1>2, <1>4, <2>1, <2>2, <2>3, <2>4, <2>5, <2>6 DEF IInv, TypeOK
<1>6. Shape'
  BY DEF CutTo, Leave, Winner, Asked, Shape
<1>7. Answers'
  BY DEF CutTo, Leave, Empty, Answers, Planned, Canonical
<1>8. OnChain'
  <2> PICK k \in Nat : k = ordinal + 1
    BY <1>2
  <2>1. Stood(k, p)'
    BY <1>1, <1>2, <1>3 DEF Stood
  <2>2. accepted = Acc(ordinal) /\ \A x \in transitions : x.ordinal = ordinal => x = l
    BY <1>3 DEF IInv, OnChain, CutTo, Insertable
  <2>3. Acc(k)' = accepted \cup {p}
    BY <1>1, <1>2, <1>3, <2>2 DEF Acc
  <2> QED
    BY <2>1, <2>3 DEF OnChain, CutTo
<1>9. Behind'
  <2> SUFFICES ASSUME Repeatable(preparation), NEW x \in transitions'
               PROVE  \E ph \in Phase : WonAt(x, ph)'
    BY <1>2 DEF Behind
  <2>1. PICK ph \in Phase : WonAt(x, ph)
    <3>1. CASE x \in transitions
      BY <3>1 DEF IInv, Behind
    <3>2. CASE x = l
      BY <3>2, CutFacts, FrontierTyped DEF IInv
    <3> QED
      BY <1>1, <3>1, <3>2
  <2>2. Acc(x.ordinal)' = Acc(x.ordinal)
    BY <1>1, <1>2, <1>3, CutChain
  <2>3. PICK acc : acc = Acc(x.ordinal)
    OBVIOUS
  <2>4. Won(x.from, acc, ph, x.candidate, x.to)' /\ PassedBefore(x.from, acc, ph)'
    BY <1>1, <2>1, <2>3, KeepsPassed DEF WonAt
  <2> QED
    BY <2>2, <2>3, <2>4 DEF WonAt
<1>10. Ahead'
  <2>1. phase' = "manifests"
    BY DEF CutTo
  <2>2. PassedBefore(project, accepted, phase)'
    BY <2>1 DEF PassedBefore, Rank, Phase
  <2>3. \A ph \in Phase : Rank[phase'] <= Rank[ph]
    BY <2>1 DEF Rank, Phase
  <2> QED
    BY <1>9, <2>2, <2>3 DEF Ahead, Behind, Rank, Phase
<1>11. Evidenced'
  <2>1. \A c : Prep(c)' = Prep(c) /\ \A q : OfferedBy(q)' = OfferedBy(q)
    BY <1>1 DEF Prep, OfferedBy, Keeps
  <2>2. Outputs \subseteq Outputs'
    BY <1>1 DEF Outputs
  <2>3. ASSUME NEW c \in DOMAIN attempts, attempts[c] \in Preserved, Repeatable(preparation)
        PROVE  \E k \in Nat, q \in Project : Stood(k, q)' /\ c \in OfferedBy(q) /\ Prep(c) \cap Acc(k)' = {}
    <3>1. PICK k \in Nat, q \in Project : Stood(k, q) /\ c \in OfferedBy(q) /\ Prep(c) \cap Acc(k) = {}
      BY <2>3 DEF IInv, Evidenced
    <3> QED
      BY <3>1, CutChain
  <2> QED
    BY <1>1, <1>2, <2>1, <2>2, <2>3 DEF IInv, Evidenced, Keeps
<1> QED
  BY <1>5, <1>6, <1>7, <1>8, <1>9, <1>10, <1>11, CutLinked DEF IInv

-----------------------------------------------------------------------------

LEMMA InitInvariant == StructuredAssumption /\ Init => IInv
<1> SUFFICES ASSUME StructuredAssumption, Init PROVE IInv
  OBVIOUS
<1>1. TypeOK
  <2>1. /\ setting \in Setting
        /\ status \in {"stopped", "running", "settled"}
        /\ jobs \in Nat \ {0}
        /\ project \in accepted /\ accepted \subseteq Project
        /\ phase \in Phase \cup {"verify"}
        /\ frontier = <<>>
        /\ ordinal \in Nat
        /\ transitions = {}
    BY DEF Init, StructuredAssumption, Phase
  <2>2. realized = Empty /\ attempts = Empty /\ answers = <<>>
    BY DEF Init
  <2>3. error \in BOOLEAN /\ ~error
    BY Zenon DEF Init
  <2> QED
    BY <2>1, <2>2, <2>3 DEF TypeOK, Empty
<1>2. Shape
  BY DEF Init, Shape
<1>3. ChainLinked
  BY DEF Init, ChainLinked
<1>4. OnChain
  BY DEF Init, OnChain, Acc, Stood
<1>5. Answers
  BY DEF Init, Answers, Planned, Canonical, Empty
<1>6. Evidenced
  BY DEF Init, Evidenced, Empty
<1>7. Behind /\ Ahead
  BY DEF Init, Behind, Ahead, PassedBefore, Rank, Phase
<1> QED
  BY <1>1, <1>2, <1>3, <1>4, <1>5, <1>6, <1>7 DEF IInv

LEMMA CompleteStep ==
  ASSUME StructuredAssumption, IInv, NEW i \in 1..Len(frontier), Complete(i)
  PROVE  IInv'
<1>1. i \in Planned /\ answers[i] = "running"
  BY DEF Complete, AtWork, Running
<1>2. PICK prepared \in SUBSET preparation[frontier[i]] : \E e \in Observable(prepared) :
        IF Recordable(frontier[i], e)
        THEN /\ Give(i, VerdictOf(e))
             /\ attempts' = With(attempts, frontier[i], e)
             /\ IF e \in Preserved
                THEN \E p \in prepared \ {Refused} : realized' = With(realized, frontier[i], p)
                ELSE UNCHANGED realized
             /\ UNCHANGED error
        ELSE /\ Give(i, "inconclusive")
             /\ error' = TRUE
             /\ UNCHANGED <<realized, attempts>>
  BY Zenon DEF Complete
<1>3. UNCHANGED <<setting, status, jobs, place, frontier, transitions>>
  BY DEF Complete
<1>4. PICK e \in Observable(prepared) :
        \/ /\ Recordable(frontier[i], e)
           /\ Give(i, VerdictOf(e))
           /\ attempts' = With(attempts, frontier[i], e)
           /\ IF e \in Preserved
              THEN \E p \in prepared \ {Refused} : realized' = With(realized, frontier[i], p)
              ELSE UNCHANGED realized
           /\ UNCHANGED error
        \/ /\ Give(i, "inconclusive")
           /\ error' = TRUE
           /\ UNCHANGED <<realized, attempts>>
  BY <1>2
<1>5. CASE Recordable(frontier[i], e) /\ Give(i, VerdictOf(e)) /\ UNCHANGED error
           /\ attempts' = With(attempts, frontier[i], e)
           /\ IF e \in Preserved
              THEN \E p \in prepared \ {Refused} : realized' = With(realized, frontier[i], p)
              ELSE UNCHANGED realized
  BY <1>1, <1>3, <1>5, RecordStep
<1>6. CASE Give(i, "inconclusive") /\ error' = TRUE /\ UNCHANGED <<realized, attempts>>
  <2>1. setting' \in Setting /\ command' = command /\ preparation' = preparation
    BY <1>3 DEF IInv, TypeOK, command, preparation
  <2>2. UNCHANGED journal
    BY <1>3, <1>6 DEF journal
  <2> QED
    BY <1>1, <1>3, <1>6, <2>1, <2>2, FailStep
<1> QED
  BY <1>4, <1>5, <1>6

LEMMA StopsStep ==
  ASSUME StructuredAssumption, IInv, Stop,
         \/ setting' = setting
         \/ setting.errors > 0 /\ setting' = [setting EXCEPT !.errors = @ - 1]
         \/ setting.crashes > 0 /\ setting' = [setting EXCEPT !.crashes = @ - 1]
  PROVE  IInv'
BY Steadfast, StopStep DEF IInv, TypeOK

LEMMA RunStepInvariant ==
  ASSUME StructuredAssumption, IInv, RunStep
  PROVE  IInv'
<1>1. CASE SkipPhase
  BY <1>1, SkipPhaseStep
<1>2. CASE Ask
  BY <1>2, AskStep
<1>3. ASSUME NEW i \in 1..Len(frontier), SkipCandidate(i) PROVE IInv'
  BY <1>3, AnswerStep DEF SkipCandidate, Startable, Verdict
<1>4. ASSUME NEW i \in 1..Len(frontier), RejectKnown(i) PROVE IInv'
  BY <1>4, AnswerStep DEF RejectKnown, Known, KnownTo, Startable, Verdict
<1>5. ASSUME NEW i \in 1..Len(frontier), UseCached(i) PROVE IInv'
  <2>1. /\ VerdictOf(attempts[frontier[i]]) \in {"preserved", "rejected"}
        /\ VerdictOf(attempts[frontier[i]]) = "preserved" => Holds(frontier[i], Preserved)
        /\ VerdictOf(attempts[frontier[i]]) = "rejected" => Holds(frontier[i], Rejected)
    BY <1>5 DEF UseCached, Conclusive, Terminal, VerdictOf, Holds
  <2>2. i \in Planned /\ ~KnownTo(accepted, frontier[i])
    BY <1>5 DEF UseCached, Startable, Known, KnownTo
  <2> QED
    BY <1>5, <2>1, <2>2, AnswerStep DEF UseCached, Verdict
<1>6. ASSUME NEW i \in 1..Len(frontier), Begin(i) PROVE IInv'
  BY <1>6, AnswerStep DEF Begin, Known, KnownTo, Startable
<1>7. ASSUME NEW i \in 1..Len(frontier), Complete(i) PROVE IInv'
  BY <1>7, CompleteStep
<1>8. ASSUME NEW i \in 1..Len(frontier), Commit(i) PROVE IInv'
  <2>1. i \in Planned
    BY <1>8 DEF Commit, Winner, PreservedRanks
  <2>2. \E p : CutTo(i, p)
    BY <1>8 DEF Commit, CutTo
  <2> QED
    BY <2>1, <2>2, CutStep
<1>9. ASSUME NEW i \in 1..Len(frontier), RefuseCut(i) PROVE IInv'
  BY <1>9, StopsStep DEF RefuseCut
<1>10. CASE EndWithError
  BY <1>10, StopsStep DEF EndWithError
<1>11. CASE PassPhase
  BY <1>11, PassPhaseStep
<1>12. CASE Verify
  <2>1. CASE Stop /\ UNCHANGED setting
    BY <2>1, StopsStep
  <2>2. CASE status' = "settled" /\ UNCHANGED <<setting, jobs, place, work, journal>>
    <3>1. Grows /\ attempts' = attempts
      BY <2>2, JournalKept DEF command, preparation
    <3>2. ChainLinked' /\ Behind' /\ Evidenced' /\ OnChain' /\ Ahead'
      BY <2>2, <3>1, GrowsKeeps, GrowsStays, GrowsEvidenced DEF IInv
    <3>3. frontier = <<>> /\ phase = "verify"
      BY <1>12 DEF Verify, IInv, TypeOK, Phase
    <3>4. TypeOK' /\ Shape'
      BY <2>2, <3>1, <3>3 DEF IInv, TypeOK, Shape, place, work, journal
    <3>5. Answers'
      BY <2>2, <3>3 DEF IInv, Answers, Planned, Canonical, work, Prep, preparation
    <3> QED
      BY <3>2, <3>4, <3>5 DEF IInv
  <2> QED
    BY <1>12, <2>1, <2>2 DEF Verify
<1> QED
  BY <1>1, <1>2, <1>3, <1>4, <1>5, <1>6, <1>7, <1>8, <1>9, <1>10, <1>11, <1>12 DEF RunStep

LEMMA StutterStep ==
  ASSUME IInv, UNCHANGED vars
  PROVE  IInv'
<1>1. Grows /\ attempts' = attempts /\ UNCHANGED place
  BY JournalKept DEF vars, command, preparation
<1>2. ChainLinked' /\ Behind' /\ Evidenced' /\ OnChain' /\ Ahead'
  BY <1>1, GrowsKeeps, GrowsStays, GrowsEvidenced DEF IInv
<1>3. TypeOK' /\ Shape'
  BY DEF vars, place, work, journal, IInv, TypeOK, Shape
<1>4. Answers'
  BY DEF vars, place, work, journal, IInv, Answers, Planned, Canonical, Prep, Wavers, Holds, KnownTo,
         command, preparation, Repeatable
<1> QED
  BY <1>2, <1>3, <1>4 DEF IInv

\* The journal is one chain, the run stands on it, and no cut it has still to
\* make is behind it: each step of a run keeps this (lib.rs:925-1070).
THEOREM Invariant == Spec => []IInv
<1>1. ASSUME IInv, [Next]_vars PROVE IInv'
  <2>1. CASE Start
    BY <1>1, <2>1, StartStep, StructuredAssumption
  <2>2. CASE Crash
    BY <1>1, <2>2, StopsStep, StructuredAssumption DEF Crash
  <2>3. CASE RunStep
    BY <1>1, <2>3, RunStepInvariant, StructuredAssumption
  <2>4. ASSUME NEW i \in 1..Len(frontier), FailCandidate(i) PROVE IInv'
    <3>1. i \in Planned
      BY <2>4 DEF FailCandidate, AtWork, Running
    <3>2. setting' \in Setting /\ command' = command /\ preparation' = preparation
      BY <1>1, <2>4, Steadfast DEF FailCandidate, IInv, TypeOK
    <3> QED
      BY <1>1, <2>4, <3>1, <3>2, FailStep, StructuredAssumption DEF FailCandidate
  <2>5. ASSUME NEW i \in 1..Len(frontier), FailCut(i) PROVE IInv'
    BY <1>1, <2>5, StopsStep, StructuredAssumption DEF FailCut
  <2>6. CASE FailAlone
    BY <1>1, <2>6, StopsStep, StructuredAssumption DEF FailAlone
  <2>7. CASE UNCHANGED vars
    BY <1>1, <2>7, StutterStep
  <2> QED
    BY <1>1, <2>1, <2>2, <2>3, <2>4, <2>5, <2>6, <2>7 DEF Next, Settled
<1> QED
  BY <1>1, InitInvariant, StructuredAssumption, PTL DEF Spec

\* Whatever is run, answered, refused, stopped or resumed, the frontier at hand
\* is the one its project offers, and its answers are about its ranks
\* (lib.rs:982-1059).
THEOREM TypeCorrect == Spec => []TypeOK
<1>1. IInv => TypeOK
  BY DEF IInv
<1> QED
  BY <1>1, Invariant, PTL

\* With any commands and preparations, the journal's transitions are one chain
\* from the file search's result (lib.rs:1050-1070).
THEOREM ChainAlwaysLinked == Spec => []ChainLinked
<1>1. IInv => ChainLinked
  BY DEF IInv
<1> QED
  BY <1>1, Invariant, PTL

-----------------------------------------------------------------------------
\* The same cuts again.

\* With steady commands and a repeatable preparation, a preserved edit is lost
\* only where it is known.
LEMMA PreservedStays ==
  ASSUME StructuredAssumption, IInv, Steady(command), Repeatable(preparation),
         NEW c, Holds(c, Preserved), NEW acc, Lost(acc, c)
  PROVE  KnownTo(acc, c)
<1>1. c \in Candidate /\ attempts[c] \in Preserved /\ c \in DOMAIN attempts
  BY DEF Holds, IInv, TypeOK
<1>2. PICK p \in Prep(c) \cap Project : command[p] \cap Preserved # {}
  BY <1>1 DEF IInv, Evidenced
<1>3. Prep(c) = {p}
  BY <1>1, <1>2 DEF Repeatable, Prep
<1>4. PICK e \in command[p] : command[p] = {e}
  BY <1>2 DEF Steady
<1>5. ~Wavers(c)
  BY <1>2, <1>3, <1>4 DEF Wavers
<1> QED
  BY <1>5, Disjoint DEF Lost

\* The journal's next transition is the one that the winner makes.
LEMMA SameCut ==
  ASSUME StructuredAssumption, IInv, Steady(command), Repeatable(preparation), ~error,
         NEW i \in Planned, Winner(i), NEW p \in (Material(i) \ {Refused}) \ accepted,
         NEW x \in transitions, x.ordinal = ordinal
  PROVE  x = Link(i, p)
<1>1. x.from = project /\ accepted = Acc(x.ordinal)
  BY DEF IInv, ChainLinked, OnChain, Stood
<1>2. PICK ph \in Phase : Rank[phase] <= Rank[ph] /\ WonAt(x, ph)
  BY DEF IInv, Ahead
<1>3. /\ Holds(frontier[i], Preserved) /\ ~KnownTo(accepted, frontier[i])
      /\ LostBefore(project, accepted, phase, i)
  BY WinnerWon
<1>4. /\ First(project, phase, i) /\ Offers[project][phase] = frontier /\ i \in Nat
      /\ phase \in Phase /\ Len(frontier) \in Nat /\ i <= Len(frontier)
      /\ frontier[i] \in Candidate
  BY FrontierTyped DEF IInv, Planned, Canonical
<1>5. p \in Prep(frontier[i]) /\ Prep(frontier[i]) = {p}
  BY <1>4, MaterialPrepared DEF Repeatable, Prep
<1>6. ASSUME NEW k \in Nat, LostBefore(project, accepted, phase, k)
      PROVE  k <= i
  BY <1>3, <1>4, <1>6, PreservedStays DEF LostBefore
<1>7. ASSUME NEW k \in Nat, k <= i, First(project, phase, k),
             Holds(frontier[k], Preserved), ~KnownTo(accepted, frontier[k])
      PROVE  k = i
  BY <1>3, <1>4, <1>7, PreservedStays DEF LostBefore
<1>8. ph = phase
  <2> SUFFICES ASSUME ph # phase PROVE FALSE
    OBVIOUS
  <2>1. Rank[phase] < Rank[ph]
    BY <1>2, <1>4 DEF Rank, Phase
  <2>2. PICK k \in Nat :
          /\ LostBefore(project, accepted, phase, k)
          /\ k > Len(frontier) \/ (First(project, phase, k) /\ Masked(accepted, frontier[k]))
    BY <1>1, <1>2, <1>4, <2>1 DEF WonAt, PassedBefore, Passed
  <2>3. k <= i
    BY <1>6, <2>2
  <2>4. k = i
    BY <1>4, <1>7, <2>2, <2>3 DEF Masked
  <2> QED
    BY <1>4, <1>5, <2>2, <2>4 DEF Masked
<1>9. PICK w \in Nat :
        First(project, phase, w) /\ x.candidate = frontier[w] /\ LostBefore(project, accepted, phase, w)
  BY <1>1, <1>2, <1>4, <1>8 DEF WonAt, Won
<1>10. Holds(x.candidate, Preserved) /\ ~KnownTo(accepted, x.candidate) /\ Prep(x.candidate) = {x.to}
  BY <1>1, <1>2 DEF WonAt, Won, IInv, ChainLinked, Holds
<1>11. w = i
  BY <1>6, <1>7, <1>9, <1>10
<1>12. x.candidate = frontier[i] /\ x.to = p
  BY <1>5, <1>9, <1>10, <1>11
<1> QED
  BY <1>1, <1>12 DEF Link, IInv, TypeOK

\* A steady failure's runs are never refused a cut: each comes to the one that
\* the journal has next (lib.rs:1026-1056).
THEOREM AlwaysReplays == Spec => []ReplaysTheChain
<1>1. ASSUME IInv PROVE ReplaysTheChain
  <2> SUFFICES ASSUME NEW i \in 1..Len(frontier), Winner(i), ~error,
                      Steady(command), Repeatable(preparation),
                      NEW p \in (Material(i) \ {Refused}) \ accepted, NEW x \in transitions
               PROVE  IF x.ordinal = ordinal THEN x = Link(i, p) ELSE x.to # p
    BY DEF ReplaysTheChain, Insertable, Link
  <2>1. i \in Planned
    BY DEF Winner, PreservedRanks
  <2>2. \A y \in transitions : y.ordinal = ordinal => y = Link(i, p)
    BY <1>1, <2>1, SameCut, StructuredAssumption
  <2>3. ordinal \in Nat /\ x.ordinal \in Nat /\ p \notin accepted /\ accepted = Acc(ordinal)
    BY <1>1 DEF IInv, TypeOK, OnChain
  <2>4. CASE x.ordinal < ordinal
    BY <2>3, <2>4 DEF Acc
  <2>5. CASE x.ordinal > ordinal
    <3>1. PICK y \in transitions : y.ordinal = ordinal
      BY <1>1, <2>3, <2>5 DEF IInv, ChainLinked
    <3>2. y.to = p
      BY <2>2, <3>1 DEF Link
    <3> QED
      BY <1>1, <2>5, <2>3, <3>1, <3>2 DEF IInv, ChainLinked
  <2> QED
    BY <2>2, <2>3, <2>4, <2>5
<1> QED
  BY <1>1, Invariant, PTL

LEMMA TipHere ==
  IInv /\ (\A x \in transitions : x.ordinal < ordinal)
    => project = Tip /\ accepted = {Origin} \cup Outputs
<1> SUFFICES ASSUME IInv, \A x \in transitions : x.ordinal < ordinal
             PROVE  project = Tip /\ accepted = {Origin} \cup Outputs
  OBVIOUS
<1>1. accepted = {Origin} \cup Outputs
  BY DEF IInv, OnChain, Acc, Outputs
<1>2. ordinal \in Nat /\ \A x \in transitions : x.ordinal \in Nat
  BY DEF IInv, TypeOK
<1>3. CASE transitions = {}
  <2>1. Tip = Origin
    BY <1>3, Zenon DEF Tip
  <2>2. project = Origin
    BY <1>3 DEF IInv, OnChain, Stood
  <2> QED
    BY <1>1, <2>1, <2>2
<1>4. CASE transitions # {}
  <2>1. ordinal # 0
    BY <1>2, <1>4
  <2>2. PICK z \in transitions : z.ordinal = ordinal - 1 /\ z.to = project
    BY <2>1 DEF IInv, OnChain, Stood
  <2>3. \A y \in transitions : y.ordinal <= z.ordinal
    BY <1>2, <2>2
  <2>4. \A x \in transitions : (\A y \in transitions : y.ordinal <= x.ordinal) => x = z
    <3> SUFFICES ASSUME NEW x \in transitions, \A y \in transitions : y.ordinal <= x.ordinal
                 PROVE  x = z
      OBVIOUS
    <3>1. x.ordinal = z.ordinal
      BY <1>2, <2>3
    <3> QED
      BY <3>1 DEF IInv, ChainLinked
  <2>5. (CHOOSE x \in transitions : \A y \in transitions : y.ordinal <= x.ordinal) = z
    BY <2>3, <2>4
  <2>6. Tip = z.to
    BY <1>4, <2>5, Zenon DEF Tip
  <2> QED
    BY <1>1, <2>2, <2>6
<1> QED
  BY <1>1, <1>3, <1>4

LEMMA TipThere ==
  (IInv /\ (\A x \in transitions : x.ordinal < ordinal))'
    => (project = Tip /\ accepted = {Origin} \cup Outputs)'
BY TipHere, PTL

\* With a repeatable preparation, a run that comes to the final verification has
\* made all the journal's cuts.
LEMMA VerifiedAtTip ==
  ASSUME IInv, phase = "verify", Repeatable(preparation)
  PROVE  \A x \in transitions : x.ordinal < ordinal
<1>1. \A x \in transitions : x.ordinal # ordinal
  BY DEF IInv, Ahead, Rank, Phase
<1>2. ordinal \in Nat /\ \A x \in transitions :
        x.ordinal \in Nat /\ \A k \in 0..x.ordinal : \E y \in transitions : y.ordinal = k
  BY DEF IInv, TypeOK, ChainLinked
<1> QED
  BY <1>1, <1>2

\* What a settled run reports as its chain of cuts leads to the project it keeps,
\* also where the command's verdicts waver (lib.rs:1044-1056).
THEOREM SettledRunsOnChain == Spec => []SettledOnChain
<1>1. ASSUME IInv PROVE SettledOnChain
  BY <1>1, VerifiedAtTip, TipHere DEF SettledOnChain, IInv, Shape
<1> QED
  BY <1>1, Invariant, PTL

-----------------------------------------------------------------------------
\* The abstract specification.

\* Settling commands and preparations: a phase that made no cut was lost in all
\* its ranks.
LEMMA NothingMasked ==
  ASSUME StructuredAssumption, IInv, Settling(command, preparation),
         NEW c \in OfferedBy(project)
  PROVE  ~Masked(accepted, c)
<1> SUFFICES ASSUME Masked(accepted, c) PROVE FALSE
  OBVIOUS
<1>1. /\ ~KnownTo(accepted, c) /\ c \in DOMAIN attempts /\ attempts[c] \in Preserved
      /\ Prep(c) \cap accepted # {} /\ c \in Candidate
  BY DEF Masked, Holds, IInv, TypeOK
<1>2. CASE ~c.prepared
  BY <1>1, <1>2 DEF Settling, LeavesEdits, KnownTo, Prep
<1>3. CASE c.prepared
  <2>1. PICK k \in Nat, p \in Project : Stood(k, p) /\ c \in OfferedBy(p) /\ Prep(c) \cap Acc(k) = {}
    BY <1>1 DEF IInv, Evidenced, Settling
  <2>2. project \in Project /\ p = project
    BY <1>3, <2>1 DEF Settling, OfferedOnce, IInv, TypeOK
  <2>3. k = ordinal
    <3>1. ordinal \in Nat /\ Stood(ordinal, project) /\ \A x \in transitions : x.to # Origin /\ x.ordinal \in Nat
      BY DEF IInv, TypeOK, OnChain, ChainLinked
    <3>2. CASE k = 0
      BY <2>1, <2>2, <3>1, <3>2 DEF Stood
    <3>3. CASE k # 0
      <4>1. PICK y \in transitions : y.ordinal = k - 1 /\ y.to = project
        BY <2>1, <2>2, <3>3 DEF Stood
      <4>2. PICK z \in transitions : z.ordinal = ordinal - 1 /\ z.to = project /\ ordinal # 0
        BY <3>1, <4>1 DEF Stood
      <4>3. y = z
        BY <4>1, <4>2 DEF IInv, ChainLinked
      <4> QED
        BY <3>1, <3>3, <4>1, <4>2, <4>3
    <3> QED
      BY <3>2, <3>3
  <2> QED
    BY <1>1, <2>1, <2>3 DEF IInv, OnChain
<1> QED
  BY <1>2, <1>3

\* The result is a fixpoint of the edits.
LEMMA NothingFails ==
  ASSUME StructuredAssumption, IInv, phase = "verify", Settling(command, preparation),
         NEW p \in Results(preparation, project) \ accepted
  PROVE  command[p] \cap Preserved = {}
<1>1. PICK c \in OfferedBy(project) : p \in preparation[c] /\ p # Refused
  BY DEF Results
<1>2. PICK ph \in Phase : \E i \in Canonical(Offers[project][ph]) : c = Offers[project][ph][i]
  BY <1>1 DEF OfferedBy
<1>3. /\ project \in Project /\ Offers[project][ph] \in Seq(Candidate)
      /\ Len(Offers[project][ph]) \in Nat
  <2>1. project \in Project
    BY DEF IInv, TypeOK
  <2>2. Offers[project][ph] \in Seq(Candidate)
    BY <2>1 DEF StructuredAssumption
  <2> QED
    BY <2>1, <2>2
<1>2a. PICK j \in Canonical(Offers[project][ph]) : c = Offers[project][ph][j]
  BY <1>2
<1>4. /\ j \in Nat /\ j <= Len(Offers[project][ph]) /\ First(project, ph, j)
      /\ c \in Candidate
  <2>1. j \in 1..Len(Offers[project][ph]) /\ First(project, ph, j)
    BY DEF Canonical, First
  <2>2. \A n \in 1..Len(Offers[project][ph]) : Offers[project][ph][n] \in Candidate
    BY <1>3
  <2> QED
    BY <1>3, <1>2a, <2>1, <2>2
<1>5. p \in Project /\ Prep(c) = {p}
  BY <1>1, <1>4 DEF Settling, Repeatable, Prep, IInv, TypeOK, Setting, preparation
<1>6. Passed(project, accepted, ph)
  BY DEF IInv, Ahead, Settling, PassedBefore, Rank, Phase
<1>7. PICK k \in Nat :
        /\ LostBefore(project, accepted, ph, k)
        /\ k > Len(Offers[project][ph]) \/ (First(project, ph, k) /\ Masked(accepted, Offers[project][ph][k]))
  BY <1>6 DEF Passed
<1>8. k > Len(Offers[project][ph])
  <2> SUFFICES ASSUME First(project, ph, k), Masked(accepted, Offers[project][ph][k]) PROVE FALSE
    BY <1>7
  <2>1. Offers[project][ph][k] \in OfferedBy(project)
    BY <1>3 DEF OfferedBy, First, Canonical
  <2> QED
    BY <2>1, NothingMasked
<1>9. Lost(accepted, c)
  BY <1>2a, <1>3, <1>4, <1>7, <1>8 DEF LostBefore
<1>10. command[p] \ Preserved # {}
  <2>1. CASE KnownTo(accepted, c)
    BY <1>1, <1>4, <2>1 DEF Settling, LeavesEdits, KnownTo
  <2>2. CASE Holds(c, Rejected)
    <3>1. p = Refused \/ p \in {Origin} \cup Outputs \/ command[p] \ Preserved # {}
      BY <1>5, <2>2 DEF Holds, IInv, Evidenced, Settling
    <3>2. accepted = {Origin} \cup Outputs
      BY VerifiedAtTip, TipHere DEF Settling
    <3> QED
      BY <1>1, <3>1, <3>2
  <2>3. CASE Prep(c) \cap accepted = {} /\ Wavers(c)
    BY <1>5, <2>3 DEF Wavers
  <2> QED
    BY <1>9, <2>1, <2>2, <2>3 DEF Lost
<1> QED
  BY <1>5, <1>10 DEF Settling, Steady

LEMMA QuietStep ==
  ASSUME transitions' = transitions, command' = command, preparation' = preparation,
         status' = "settled" <=> status = "settled"
  PROVE  UNCHANGED Promise!fixpointVars
BY DEF Promise!fixpointVars, Tip, Outputs

LEMMA CutImplements ==
  ASSUME StructuredAssumption, IInv, IInv', NEW i \in Planned, NEW p, CutTo(i, p)
  PROVE  [Promise!FixpointNext]_Promise!fixpointVars
<1>1. /\ transitions' = transitions \cup {Link(i, p)}
      /\ command' = command /\ preparation' = preparation /\ status' = status
  BY DEF CutTo, command, preparation
<1>2. CASE Link(i, p) \in transitions
  BY <1>1, <1>2, QuietStep
<1>3. CASE \A x \in transitions : x.ordinal < ordinal
  <2>1. project = Tip /\ accepted = {Origin} \cup Outputs
    BY <1>3, TipHere
  <2>2. \A x \in transitions' : x.ordinal < ordinal'
    BY <1>1, <1>3 DEF CutTo, Link, IInv, TypeOK
  <2>3. project' = Tip'
    BY <2>2, TipThere
  <2>4. project' = p /\ Outputs' = Outputs \cup {p}
    BY <1>1 DEF CutTo, Outputs, Link
  <2>5. p \in Results(preparation, Tip) \ ({Origin} \cup Outputs)
    BY <2>1, CutFacts DEF Results, Prep, CutTo
  <2>6. Repeatable(preparation) => command[p] \cap Preserved # {}
    BY CutFacts
  <2>7. status = "running"
    BY DEF CutTo, Winner, Asked
  <2>8. Promise!Cut
    BY <1>1, <2>3, <2>4, <2>5, <2>6, <2>7 DEF Promise!Cut, Promise!Fails
  <2> QED
    BY <2>8 DEF Promise!FixpointNext
<1> QED
  BY <1>2, <1>3, CutNext

LEMMA VerifyImplements ==
  ASSUME StructuredAssumption, IInv, Verify
  PROVE  [Promise!FixpointNext]_Promise!fixpointVars
<1>1. CASE Stop /\ UNCHANGED setting
  <2>1. transitions' = transitions /\ command' = command /\ preparation' = preparation
        /\ status # "settled" /\ status' # "settled"
    BY <1>1 DEF Stop, journal, command, preparation, Verify
  <2> QED
    BY <2>1, QuietStep
<1>2. CASE status' = "settled" /\ UNCHANGED <<setting, jobs, place, work, journal>>
           /\ command[project] \cap Preserved # {}
  <2>1. transitions' = transitions /\ command' = command /\ preparation' = preparation
        /\ phase = "verify" /\ status = "running"
    BY <1>2 DEF journal, command, preparation, Verify
  <2>2. Tip' = Tip /\ Outputs' = Outputs
    BY <2>1 DEF Tip, Outputs
  <2>3. Repeatable(preparation) =>
          project = Tip /\ accepted = {Origin} \cup Outputs
    BY <2>1, VerifiedAtTip, TipHere
  <2>4. Settling(command, preparation) =>
          \A p \in Results(preparation, Tip) \ ({Origin} \cup Outputs) : command[p] \cap Preserved = {}
    BY <2>1, <2>3, NothingFails DEF Settling
  <2>5. Promise!Settle
    BY <1>2, <2>1, <2>2, <2>3, <2>4 DEF Promise!Settle, Promise!Fails
  <2> QED
    BY <2>5 DEF Promise!FixpointNext
<1> QED
  BY <1>1, <1>2 DEF Verify

\* All the runs together are one reduction that keeps what Fixpoint promises
\* (lib.rs:925-980, 662-691).
THEOREM StructuredImplementsFixpoint == Spec => ImplementsFixpoint
<1>1. ASSUME Init PROVE Promise!FixpointInit
  BY <1>1 DEF Init, Promise!FixpointInit, Tip, Outputs
<1>2. ASSUME IInv, IInv', [Next]_vars PROVE [Promise!FixpointNext]_Promise!fixpointVars
  <2>1. CASE Start
    BY <2>1, QuietStep DEF Start, journal, command, preparation
  <2>2. ASSUME Stop, status = "running",
               \/ setting' = setting
               \/ setting.errors > 0 /\ setting' = [setting EXCEPT !.errors = @ - 1]
               \/ setting.crashes > 0 /\ setting' = [setting EXCEPT !.crashes = @ - 1]
        PROVE  UNCHANGED Promise!fixpointVars
    BY <1>2, <2>2, QuietStep, Steadfast DEF Stop, journal, IInv, TypeOK
  <2>3. CASE Crash \/ FailAlone \/ EndWithError \/ \E i \in 1..Len(frontier) : FailCut(i) \/ RefuseCut(i)
    BY <2>2, <2>3 DEF Crash, FailAlone, EndWithError, FailCut, RefuseCut,
                      Decided, NoWinner, Winner, Asked
  <2>4. ASSUME NEW i \in 1..Len(frontier), Commit(i) PROVE [Promise!FixpointNext]_Promise!fixpointVars
    <3>1. i \in Planned
      BY <2>4 DEF Commit, Winner, PreservedRanks
    <3>2. \E p : CutTo(i, p)
      BY <2>4 DEF Commit, CutTo
    <3> QED
      BY <1>2, <3>1, <3>2, CutImplements, StructuredAssumption
  <2>5. CASE Verify
    BY <1>2, <2>5, VerifyImplements, StructuredAssumption
  <2>6. ASSUME NEW i \in 1..Len(frontier), FailCandidate(i) PROVE UNCHANGED Promise!fixpointVars
    <3>1. command' = command /\ preparation' = preparation
      BY <1>2, <2>6, Steadfast DEF FailCandidate, IInv, TypeOK
    <3> QED
      BY <2>6, <3>1, QuietStep DEF FailCandidate, journal
  <2>7. CASE SkipPhase \/ Ask \/ PassPhase \/ UNCHANGED vars
    BY <2>7, QuietStep DEF SkipPhase, Ask, PassPhase, vars, journal, command, preparation
  <2>8. ASSUME NEW i \in 1..Len(frontier),
               SkipCandidate(i) \/ RejectKnown(i) \/ UseCached(i) \/ Begin(i) \/ Complete(i)
        PROVE  UNCHANGED Promise!fixpointVars
    BY <2>8, QuietStep DEF SkipCandidate, RejectKnown, UseCached, Begin, Complete, journal, command, preparation
  <2> QED
    BY <1>2, <2>1, <2>3, <2>4, <2>5, <2>6, <2>7, <2>8 DEF Next, RunStep, Settled
<1> QED
  BY <1>1, <1>2, Invariant, PTL DEF Spec, ImplementsFixpoint, Promise!FixpointSpec

=============================================================================
