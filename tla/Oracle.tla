-------------------------------- MODULE Oracle --------------------------------
(***************************************************************************)
(* The failure oracle (crates/reprocut-core/src/oracle.rs): made from      *)
(* baselines under a specification, it says of an observation whether it   *)
(* shows the same failure.  An observation is                              *)
(* [termination, stdout, stderr, truncated], a stream is its lines.  A     *)
(* regular expression is the set of the words it finds in a line, and is   *)
(* matched against the output as it came.                                  *)
(***************************************************************************)
EXTENDS Diagnostic

ExitCode == {"exit 0", "exit 1", "exit 2"}
UnixSignal == {"signal 11"}
TerminationReason == ExitCode \cup UnixSignal \cup {"timed out", "runner failure"}

OracleMode == {"automatic", "regex", "exit_zero"}

OracleSpec ==
  [mode : OracleMode, channel : DiagnosticChannel, failure : SUBSET SUBSET STRING, reject : SUBSET SUBSET STRING]

\* OracleSpec::new, for patterns that compile and are within the limits.
ValidSpec(spec) ==
  /\ spec.mode \in OracleMode /\ spec.channel \in DiagnosticChannel
  /\ spec.mode = "automatic" => spec.failure = {}
  /\ spec.mode = "regex" => spec.failure # {}
  /\ spec.mode = "exit_zero" => spec.failure = {} /\ spec.reject = {}

NoSpec == [mode |-> "none", channel |-> "none", failure |-> {}, reject |-> {}]

NoOracle == [spec |-> NoSpec, termination |-> "runner failure", anchors |-> <<>>]

-----------------------------------------------------------------------------
\* The output a specification looks at.

DiagnosticView(channel, observation) ==
  UNION {Elements(observation[stream]) : stream \in IF channel \in Stream THEN {channel} ELSE Stream}

Matches(pattern, view) == \E line \in view : line.words \in pattern

RejectMatches(spec, observation) ==
  \E pattern \in spec.reject : Matches(pattern, DiagnosticView(spec.channel, observation))

FailureMatches(spec, observation) ==
  \A pattern \in spec.failure : Matches(pattern, DiagnosticView(spec.channel, observation))

-----------------------------------------------------------------------------
\* from_spec_and_baselines

CompleteText(observation) ==
  observation.termination \notin {"timed out", "runner failure"} /\ ~observation.truncated

StableAnchors(spec, baselines) ==
  IF spec.mode = "automatic" THEN StableDiscriminators(spec.channel, baselines) ELSE <<>>

Stable(spec, baselines) ==
  /\ Len(baselines) >= 2
  /\ IF spec.mode = "exit_zero"
     THEN \A i \in DOMAIN baselines : baselines[i].termination = "exit 0"
     ELSE /\ \A i \in DOMAIN baselines :
               /\ CompleteText(baselines[i])
               /\ baselines[i].termination = baselines[1].termination
               /\ ~RejectMatches(spec, baselines[i])
               /\ spec.mode = "regex" => FailureMatches(spec, baselines[i])
          /\ spec.mode = "automatic" => StableAnchors(spec, baselines) # <<>>

FromBaselines(spec, baselines) ==
  [spec |-> spec, termination |-> baselines[1].termination, anchors |-> StableAnchors(spec, baselines)]

-----------------------------------------------------------------------------
\* classify

HasAnchor(observation, anchor) ==
  anchor.text \in Elements(NormalizeDiagnostic(observation[anchor.channel]))

SameText(oracle, observation) ==
  /\ observation.termination = oracle.termination
  /\ ~RejectMatches(oracle.spec, observation)
  /\ IF oracle.spec.mode = "regex"
     THEN FailureMatches(oracle.spec, observation)
     ELSE \A i \in DOMAIN oracle.anchors : HasAnchor(observation, oracle.anchors[i])

\* Mutated form of Classify: the limit of the streams is not looked at.
ClassifyTruncated(oracle, observation) ==
  IF observation.termination \in {"timed out", "runner failure"} THEN "inconclusive"
  ELSE IF SameText(oracle, observation) THEN "preserved" ELSE "rejected"

ClassifyExit(termination) ==
  IF termination = "exit 0" THEN "preserved" ELSE IF termination \in ExitCode THEN "rejected" ELSE "inconclusive"

Classify(oracle, observation) ==
  IF observation.termination \in {"timed out", "runner failure"} THEN "inconclusive"
  ELSE IF oracle.spec.mode = "exit_zero" THEN ClassifyExit(observation.termination)
  ELSE IF observation.truncated THEN "inconclusive"
  ELSE IF SameText(oracle, observation) THEN "preserved" ELSE "rejected"

=============================================================================
