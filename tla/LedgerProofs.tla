---------------------------- MODULE LedgerProofs ----------------------------
(***************************************************************************)
(* What follows from the promises of Ledger alone: every behaviour of them *)
(* stays honest, so every implementation does.                             *)
(***************************************************************************)
EXTENDS Ledger, TLAPS

\* Transitions have a candidate that the ledger has a row for.
Typed == \A t \in Transition : t.candidate \in Candidate

LEMMA ExtendKeeps ==
  ASSUME Honest, NEW row \in Row, NEW e \in Evidence, Extend(row, e),
         Preserved \cap Inconclusive = {}
  PROVE  /\ history' \in [Row -> Seq(Evidence)]
         /\ \A r \in Row : WellFormed(history'[r])
         /\ \A r \in Row, p \in Preserved : EndsWith(r, p) => EndsWith(r, p)'
         /\ EndsWith(row, e)'
<1>1. /\ history \in [Row -> Seq(Evidence)]
      /\ history' = [history EXCEPT ![row] = Append(@, e)]
  BY DEF Honest, Extend
<1>2. history' \in [Row -> Seq(Evidence)] /\ history'[row] = Append(history[row], e)
  BY <1>1
<1>3. ASSUME NEW r \in Row PROVE WellFormed(history'[r])
  <2>1. WellFormed(history[r])
    BY DEF Honest
  <2>2. CASE r # row
    BY <1>1, <2>1, <2>2
  <2>3. CASE r = row
    <3> DEFINE h == history[row]
    <3>1. h = <<>> \/ (h # <<>> /\ h[Len(h)] \in Inconclusive)
      BY <1>1 DEF Extend, Open, Latest
    <3>2. \A i \in 1..Len(h) : i < Len(h) => h[i] \in Inconclusive
      BY <2>1, <2>3 DEF WellFormed
    <3>3. h \in Seq(Evidence)
      BY <1>1
    <3> HIDE DEF h
    <3>4. \A i \in 1..Len(Append(h, e)) : i < Len(Append(h, e)) => Append(h, e)[i] \in Inconclusive
      <4> SUFFICES ASSUME NEW i \in 1..Len(Append(h, e)), i < Len(Append(h, e))
                   PROVE  Append(h, e)[i] \in Inconclusive
        OBVIOUS
      <4>1. Len(Append(h, e)) = Len(h) + 1 /\ i \in 1..Len(h) /\ Append(h, e)[i] = h[i]
        BY <3>3
      <4>2. CASE i < Len(h)
        BY <3>2, <4>1, <4>2
      <4>3. CASE i = Len(h)
        <5>1. h # <<>>
          BY <4>1, <4>3, <3>3
        <5> QED
          BY <3>1, <4>1, <4>3, <5>1
      <4> QED
        BY <3>3, <4>1, <4>2, <4>3
    <3>5. history'[r] = Append(h, e) /\ Append(h, e) \in Seq(Evidence)
      BY <1>2, <2>3, <3>3 DEF h
    <3> QED
      BY <3>4, <3>5 DEF WellFormed
  <2> QED
    BY <2>2, <2>3
<1>4. ASSUME NEW r \in Row, NEW p \in Preserved, EndsWith(r, p) PROVE EndsWith(r, p)'
  <2>1. r # row
    BY <1>4 DEF EndsWith, Extend, Open
  <2>2. history'[r] = history[r]
    BY <1>1, <2>1
  <2> QED
    BY <1>4, <2>2 DEF EndsWith, Latest
<1>5. EndsWith(row, e)'
  <2>1. history[row] \in Seq(Evidence)
    BY <1>1
  <2>2. history'[row] # <<>> /\ history'[row][Len(history'[row])] = e
    BY <1>2, <2>1
  <2> QED
    BY <2>2 DEF EndsWith, Latest
<1> QED
  BY <1>2, <1>3, <1>4, <1>5

LEMMA HonestInduction ==
  ASSUME Typed, Preserved \cap Inconclusive = {}, Honest, [LedgerNext]_ledgerVars
  PROVE  Honest'
<1>0. /\ history \in [Row -> Seq(Evidence)] /\ \A row \in Row : WellFormed(history[row])
      /\ chain \subseteq Session \X Transition /\ Causal(chain)
  BY DEF Honest
<1>1. ASSUME NEW links \in SUBSET (Session \X Transition), NEW x \in links
      PROVE  x[1] \in Session /\ x[2] \in Transition /\ <<x[1], x[2].candidate>> \in Row
             /\ x = <<x[1], x[2]>>
  BY DEF Typed, Row
<1>2. CASE UNCHANGED <<history, chain>>
  BY <1>0, <1>2 DEF Honest, WellFormed, Causal, EndsWith, Latest
<1>3. ASSUME NEW row \in Row, NEW e \in Evidence, Extend(row, e), UNCHANGED chain
      PROVE  Honest'
  <2>1. /\ history' \in [Row -> Seq(Evidence)] /\ \A r \in Row : WellFormed(history'[r])
        /\ \A r \in Row, p \in Preserved : EndsWith(r, p) => EndsWith(r, p)'
    BY <1>3, ExtendKeeps
  <2>2. Causal(chain)'
    BY <1>0, <1>1, <1>3, <2>1 DEF Causal
  <2> QED
    BY <1>0, <1>3, <2>1, <2>2 DEF Honest, WellFormed
<1>4. ASSUME NEW s \in Session, NEW t \in Transition, NEW e \in Preserved,
             (EndsWith(<<s, t.candidate>>, e) /\ UNCHANGED history) \/ Extend(<<s, t.candidate>>, e),
             Fits(s, t), chain' = chain \cup {<<s, t>>}
      PROVE  Honest'
  <2> DEFINE row == <<s, t.candidate>>
  <2>1. row \in Row /\ e \in Evidence
    BY DEF Typed, Row, Evidence
  <2>2. /\ history' \in [Row -> Seq(Evidence)] /\ \A r \in Row : WellFormed(history'[r])
        /\ \A r \in Row, p \in Preserved : EndsWith(r, p) => EndsWith(r, p)'
        /\ EndsWith(row, e)'
    <3>1. CASE Extend(row, e)
      BY <2>1, <3>1, ExtendKeeps
    <3>2. CASE EndsWith(row, e) /\ UNCHANGED history
      BY <1>0, <3>2 DEF EndsWith, Latest
    <3> QED
      BY <1>4, <3>1, <3>2
  <2>3. chain' \subseteq Session \X Transition
    BY <1>0, <1>4
  <2>4. ASSUME NEW x \in chain'
        PROVE  (\E p \in Preserved : EndsWith(<<x[1], x[2].candidate>>, p))'
    <3>1. CASE x \in chain
      <4>1. PICK p \in Preserved : EndsWith(<<x[1], x[2].candidate>>, p)
        BY <1>0, <3>1 DEF Causal
      <4> QED
        BY <1>0, <1>1, <2>2, <3>1, <4>1
    <3>2. CASE x = <<s, t>>
      BY <2>2, <3>2
    <3> QED
      BY <1>4, <3>1, <3>2
  <2>5. ASSUME NEW x \in chain', NEW y \in chain', x[1] = y[1],
               x[2].ordinal = y[2].ordinal \/ x[2].to = y[2].to
        PROVE  x = y
    <3>1. CASE x \in chain /\ y \in chain
      BY <1>0, <2>5, <3>1 DEF Causal
    <3>2. ASSUME NEW z \in chain, z[1] = s PROVE z[2].ordinal # t.ordinal /\ z[2].to # t.to
      BY <1>0, <1>1, <1>4, <3>2 DEF Fits
    <3>3. CASE x = <<s, t>> \/ y = <<s, t>>
      BY <1>4, <2>5, <3>2, <3>3
    <3> QED
      BY <1>4, <3>1, <3>3
  <2> HIDE DEF row
  <2>6. Causal(chain)'
    BY <2>4, <2>5 DEF Causal
  <2> QED
    BY <2>2, <2>3, <2>6 DEF Honest, WellFormed
<1> QED
  BY <1>2, <1>3, <1>4 DEF LedgerNext, StartSession, Record, Accept, ledgerVars

\* Whatever implements Ledger keeps one final verdict per candidate and a causal
\* chain of transitions (the tables of migrations/0001.sql).
THEOREM LedgerIsHonest ==
  ASSUME Typed, Preserved \cap Inconclusive = {}
  PROVE  LedgerSpec => []Honest
<1>1. LedgerInit => Honest
  BY DEF LedgerInit, Honest
<1>2. Honest /\ [LedgerNext]_ledgerVars => Honest'
  BY HonestInduction
<1> QED
  BY <1>1, <1>2, PTL DEF LedgerSpec

=============================================================================
