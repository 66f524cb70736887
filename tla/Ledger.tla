------------------------------- MODULE Ledger -------------------------------
(***************************************************************************)
(* What a reduction journal promises its callers, without tables,          *)
(* migrations, processes or replies: evidence about a candidate is only    *)
(* added, and only until it is terminal; every accepted transition rests   *)
(* on preserved evidence; nothing is ever taken back                       *)
(* (crates/reprocut-state/src/lib.rs:1, 385-419).                          *)
(***************************************************************************)
EXTENDS Naturals, Sequences

CONSTANTS
  Session,        \* session identities
  Identity,       \* what a session is started with
  Candidate,      \* candidate digests
  Preserved,      \* the evidence that can be recorded, by verdict
  Rejected,
  Inconclusive,
  Transition      \* transition records: [ordinal, from, to, candidate]

Evidence == Preserved \cup Rejected \cup Inconclusive
Row == Session \X Candidate

VARIABLES
  sessions,       \* the sessions started, oldest first
  history,        \* the evidence of each session about each candidate
  chain           \* the accepted transitions, each with its session

ledgerVars == <<sessions, history, chain>>

Latest(row) == history[row][Len(history[row])]

\* A candidate can get new evidence while what there is is inconclusive.
Open(row) == history[row] = <<>> \/ Latest(row) \in Inconclusive

EndsWith(row, e) == history[row] # <<>> /\ Latest(row) = e

WellFormed(h) ==
  /\ h \in Seq(Evidence)
  /\ \A i \in 1..Len(h) : i < Len(h) => h[i] \in Inconclusive

\* One transition per ordinal and per output, each resting on preserved evidence.
Causal(links) ==
  \A x, y \in links :
    /\ \E e \in Preserved : EndsWith(<<x[1], x[2].candidate>>, e)
    /\ x[1] = y[1] /\ (x[2].ordinal = y[2].ordinal \/ x[2].to = y[2].to) => x = y

LedgerInit ==
  /\ sessions \in Seq(Identity)
  /\ history \in [Row -> Seq(Evidence)]
  /\ \A row \in Row : WellFormed(history[row])
  /\ chain \subseteq Session \X Transition
  /\ Causal(chain)

StartSession ==
  /\ \E s \in Identity : sessions' = Append(sessions, s)
  /\ UNCHANGED <<history, chain>>

Extend(row, e) ==
  /\ Open(row)
  /\ history' = [history EXCEPT ![row] = Append(@, e)]

Record ==
  /\ \E row \in Row, e \in Evidence : Extend(row, e)
  /\ UNCHANGED <<sessions, chain>>

Fits(s, t) ==
  \A x \in Transition :
    <<s, x>> \in chain => x.ordinal # t.ordinal /\ x.to # t.to

Accept ==
  /\ \E s \in Session, t \in Transition, e \in Preserved :
       /\ \/ EndsWith(<<s, t.candidate>>, e) /\ UNCHANGED history
          \/ Extend(<<s, t.candidate>>, e)
       /\ Fits(s, t)
       /\ chain' = chain \cup {<<s, t>>}
  /\ UNCHANGED sessions

LedgerNext == StartSession \/ Record \/ Accept

LedgerSpec == LedgerInit /\ [][LedgerNext]_ledgerVars

-----------------------------------------------------------------------------
\* The ledger stays well formed and causal: one verdict per candidate is final
\* and every transition rests on it.
Honest ==
  /\ history \in [Row -> Seq(Evidence)]
  /\ \A row \in Row : WellFormed(history[row])
  /\ chain \subseteq Session \X Transition
  /\ Causal(chain)

=============================================================================
