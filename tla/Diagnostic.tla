------------------------------ MODULE Diagnostic ------------------------------
(***************************************************************************)
(* The stable lines of a failure (crates/reprocut-core/src/diagnostic.rs). *)
(* A line of output is its words and the fragments in it that may vary     *)
(* from run to run; normalisation replaces a fragment where its            *)
(* surroundings say what it is.  The anchors of a failure are at most four *)
(* lines that all baselines have, the most telling ones first.             *)
(*                                                                         *)
(* Which of the patterns the words of a line match, and how many words and *)
(* letters they have, is given by Features and Score.                      *)
(***************************************************************************)
EXTENDS Naturals, Sequences, FiniteSets

CONSTANTS
  Features,   \* the patterns that the words of a line match
  Score       \* and their score

ASSUME DiagnosticAssumption == Score \in [DOMAIN Features -> Nat]

Stream == {"stdout", "stderr"}
DiagnosticChannel == Stream \cup {"auto", "combined"}

Fragment == [kind : STRING, value : STRING, context : SUBSET STRING]
Line == [words : DOMAIN Features, fragments : Seq(Fragment)]

-----------------------------------------------------------------------------
\* Normalisation.  A fragment is [kind, value, context].

\* A path with a line number, after directories for temporary files were replaced.
SourceLocation(context) ==
  /\ "url" \notin context
  /\ "compiler" \in context \/ "absolute" \notin context
  /\ IF "data file" \in context
     THEN "compiler" \in context
     ELSE context \cap {"compiler", "temporary", "source tree", "source file"} # {}

Volatile(fragment) ==
  \/ fragment.kind \in {"temporary path", "address", "loopback port"}
  \/ fragment.kind = "uuid" /\ "field" \in fragment.context
  \/ fragment.kind = "timestamp" /\ fragment.context \cap {"field", "log envelope"} # {}
  \/ fragment.kind \in {"process id", "port", "duration", "line number"} /\ "bounded" \in fragment.context
  \/ fragment.kind = "location" /\ SourceLocation(fragment.context)

Placeholder == "<>"

Normal(line) ==
  [line EXCEPT !.fragments =
     [i \in DOMAIN @ |-> IF Volatile(@[i]) THEN [@[i] EXCEPT !.value = Placeholder] ELSE @[i]]]

NotBlank(line) == line.words # ""

\* The lines that are left, each at the place where it was.
NormalizeDiagnostic(lines) == [i \in {j \in DOMAIN lines : NotBlank(lines[j])} |-> Normal(lines[i])]

-----------------------------------------------------------------------------
\* Eligible lines, and their order.

DiscriminatorKind == <<"failing test", "compiler diagnostic", "root failure", "assertion", "message">>
Message == 5

KindsOf(line) ==
  IF "boilerplate" \in Features[line.words] THEN {}
  ELSE {k \in DOMAIN DiscriminatorKind : DiscriminatorKind[k] \in Features[line.words]}

EligibleLine(stream, lines, i) ==
  [channel |-> stream, text |-> lines[i], position |-> Cardinality({j \in DOMAIN lines : j < i}),
   score |-> Score[lines[i].words],
   kind |-> CHOOSE k \in KindsOf(lines[i]) : \A l \in KindsOf(lines[i]) : k <= l]

EligibleLines(stream, lines) ==
  {EligibleLine(stream, lines, i) : i \in {j \in DOMAIN lines : KindsOf(lines[j]) # {}}}

\* Lines of the first baseline that all others have too.
StreamDiscriminators(requested, stream, baselines) ==
  LET Lines(k) == EligibleLines(stream, NormalizeDiagnostic(baselines[k][stream]))
  IN  {line \in Lines(1) :
         /\ requested \in {stream, "auto", "combined"}
         /\ \A k \in 2..Len(baselines) : \E other \in Lines(k) : other.text = line.text}

ChannelOrder(channel) == IF channel = "stdout" THEN 0 ELSE 1

Before(l, r) ==
  \/ l.kind < r.kind
  \/ l.kind = r.kind /\ l.score > r.score
  \/ l.kind = r.kind /\ l.score = r.score /\ l.position < r.position
  \/ /\ l.kind = r.kind /\ l.score = r.score /\ l.position = r.position
     /\ ChannelOrder(l.channel) < ChannelOrder(r.channel)

Ordered(lines) ==
  [i \in 1..Cardinality(lines) |-> CHOOSE line \in lines : Cardinality({l \in lines : Before(l, line)}) = i - 1]

RankLines(lines, allowGeneric) == Ordered({line \in lines : allowGeneric \/ line.kind # Message})

-----------------------------------------------------------------------------
\* The choice of anchors.

MaxAnchors == 4

AtMost(lines) == SubSeq(lines, 1, IF Len(lines) < MaxAnchors THEN Len(lines) ELSE MaxAnchors)

Elements(lines) == {lines[i] : i \in DOMAIN lines}
SameLine(l, r) == l.channel = r.channel /\ l.text = r.text

\* The first line of each kind that has none selected.
FillCategories(selected, lines) ==
  LET firsts == {line \in Elements(lines) :
                   /\ \A l \in Elements(selected) : l.kind # line.kind
                   /\ \A l \in Elements(lines) : Before(l, line) => l.kind # line.kind}
  IN  AtMost(selected \o Ordered(firsts))

FillRanked(selected, lines) ==
  LET others == {line \in Elements(lines) :
                   /\ \A l \in Elements(selected) : ~SameLine(l, line)
                   /\ \A l \in Elements(lines) : Before(l, line) => ~SameLine(l, line)}
  IN  AtMost(selected \o Ordered(others))

First(lines) == SubSeq(lines, 1, IF lines = <<>> THEN 0 ELSE 1)

SelectAnchors(lines) ==
  LET ranked == RankLines(lines, TRUE)
  IN  FillRanked(FillCategories(<<>>, ranked), ranked)

\* Both streams are heard, but neither with a generic message.
SelectAutoAnchors(stdout, stderr) ==
  LET ranked == RankLines(stdout \cup stderr, FALSE)
  IN  FillRanked(FillCategories(First(RankLines(stdout, FALSE)) \o First(RankLines(stderr, FALSE)), ranked), ranked)

SelectCombinedAnchors(stdout, stderr) ==
  FillRanked(First(RankLines(stdout, TRUE)) \o First(RankLines(stderr, TRUE)), RankLines(stdout \cup stderr, TRUE))

Anchor(line) == [channel |-> line.channel, text |-> line.text]

StableDiscriminators(channel, baselines) ==
  LET stdout == StreamDiscriminators(channel, "stdout", baselines)
      stderr == StreamDiscriminators(channel, "stderr", baselines)
      selected == CASE channel = "auto" -> SelectAutoAnchors(stdout, stderr)
                    [] channel = "combined" -> IF stdout = {} \/ stderr = {} THEN <<>>
                                               ELSE SelectCombinedAnchors(stdout, stderr)
                    [] OTHER -> SelectAnchors(stdout \cup stderr)
  IN  [i \in DOMAIN selected |-> Anchor(selected[i])]

=============================================================================
