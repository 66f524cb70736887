--------------------------- MODULE PublicationProofs ---------------------------
(***************************************************************************)
(* Proofs about Publication: its types, that a verified artifact was       *)
(* complete at one moment of its verification, that nothing but what comes *)
(* of a complete one appears at the output path, and that a snapshot is of *)
(* whole files, less what was cut.                                         *)
(***************************************************************************)
EXTENDS Publication, FiniteSetTheorems, SequenceTheorems, WellFoundedInduction, TLAPS

\* What holds of a verification besides its types.  Contents only grow, so what is
\* read twice with one content had it in between.
Comparing == {"evidence", "derived", "collect again", "manifest again"}
Confirming == {"derived", "collect again", "manifest again"}

Project == Member \ (Derived \cup {Evidence})

\* The manifest has not gone behind what was declared, nor the members behind what
\* was seen.
Grown ==
  /\ check = "build" => declared = NoManifest
  /\ check \in {"collect"} \cup Comparing => \A m \in Member : declared[m] <= manifest[m]
  /\ check = "collect" => \A m \in visited : seen[m] <= dir[m]
  /\ check \in Comparing => seen = declared /\ \A m \in Member : seen[m] <= dir[m]

\* The evidence lies between the content that was seen and that which is there now,
\* of the evidence and of what was derived from it; the project is declared with it.
Between(m) == seen[m] <= evidence /\ evidence <= dir[m]

Agreed ==
  /\ check \in Confirming =>
       /\ evidence \in Artifact
       /\ \A m \in Member : declared[m] # Absent
       /\ \A m \in Project : declared[m] = evidence
       /\ Between(Evidence)
  /\ check = "derived" => \A m \in visited : Between(m)
  /\ check \in {"collect again", "manifest again"} => \A m \in Derived : Between(m)

\* If the artifact was not complete when the second collection began, a member or
\* the manifest shows it at the end.
Shows(m) == dir[m] # seen[m] /\ (m \in visited => again[m] # seen[m])

Moment ==
  /\ Verifying /\ Whole(dir, manifest) => whole
  /\ check = "collect again" => whole \/ manifest # declared \/ \E m \in Member : Shows(m)
  /\ check = "manifest again" => whole \/ manifest # declared
  /\ check = "verified" => whole

\* Where the program is, and what it has of snapshot and verification there.
Phases ==
  /\ action = "gallery_source" => kind = "listed" /\ step # "cut"
  /\ phase = "look" => action \in {"reduce", "gallery", "gallery_source"} /\ check = "idle"
  /\ phase = "capture" =>
       /\ action \in {"reduce", "gallery_source", "realize"}
       /\ check = IF action = "gallery_source" THEN "verified" ELSE "idle"
  /\ phase = "write" => action = "reduce" /\ step = "cut" /\ check \in {"idle", "build"}
  /\ phase = "verify" =>
       /\ action \in {"reduce", "gallery", "gallery_source", "verify", "export"} /\ check # "build"
       /\ action = "reduce" => step = "cut" /\ check # "idle"
  /\ phase \in {"context", "build", "validate"} => action = "export" /\ check = "verified"
  /\ phase \in {"look again", "rename"} =>
       /\ action \in {"reduce", "gallery", "gallery_source"} /\ check = "verified"
       /\ action = "reduce" => step = "cut"
       /\ action = "gallery_source" => step = "captured"

IInv == TypeOK /\ Phases /\ Grown /\ Agreed /\ Moment

-----------------------------------------------------------------------------
\* Facts about contents.

LEMMA Levels ==
  /\ Last \in Nat \ {0} /\ Evidence \in Member /\ Derived \subseteq Member \ {Evidence}
  /\ Content = 0..(Last + 1) /\ Content \ {Gone} = 0..Last /\ Artifact = 1..Last
  /\ Nothing \in [Member -> 0..Last] /\ NoManifest = Nothing
<1>1. Last \in Nat \ {0} BY VerificationAssumption
<1>2. Evidence \in Member /\ Derived \subseteq Member \ {Evidence} BY VerificationAssumption
<1>3. Content = 0..(Last + 1) /\ Content \ {Gone} = 0..Last /\ Artifact = 1..Last
  BY <1>1 DEF Content, Gone, Absent, Artifact
<1>4. Nothing \in [Member -> 0..Last] /\ NoManifest = Nothing
  BY <1>1 DEF Nothing, NoManifest, Absent
<1> QED BY <1>1, <1>2, <1>3, <1>4

LEMMA Ranges == 1 \in 0..(Last + 1) /\ Artifact \subseteq 0..Last
<1>1. Last \in Nat \ {0} BY VerificationAssumption
<1> QED BY <1>1 DEF Artifact

LEMMA Predecessor == \A n \in Nat : n > 0 => n - 1 \in Nat
OBVIOUS

\* Edits go on to later contents.
LEMMA Later ==
  ASSUME NEW n \in 0..(Last + 1), NEW content \in (n + 1)..Gone
  PROVE  content \in 0..(Last + 1) /\ content > n
BY VerificationAssumption DEF Gone

\* A step leaves the artifact and its verification alone, or is one of these.
Untouched == UNCHANGED <<dir, manifest, edits, verifyVars>>

LEMMA StepKinds ==
  ASSUME Next
  PROVE  /\ Watch \/ UNCHANGED vars
         /\ \/ Untouched
            \/ WriteMember \/ AllWritten \/ CollectForManifest \/ BuildManifest \/ BeginVerification
            \/ phase = "verify" /\ Verify /\ UNCHANGED <<snapshotVars, action, phase, output, others>>
            \/ OthersEditArtifact
<1>1. Watch \/ UNCHANGED vars BY Zenon DEF Next, Done, vars
<1>2. CASE Step
  <2>1. CASE Look BY <1>1, <2>1, Zenon DEF Look, Untouched, verifyVars
  <2>2. CASE CaptureStep BY <1>1, <2>2, Zenon DEF CaptureStep, Untouched, verifyVars
  <2>3. CASE CaptureEnds BY <1>1, <2>3, Zenon DEF CaptureEnds, Untouched, verifyVars
  <2>4. CASE VerificationEnds BY <1>1, <2>4, Zenon DEF VerificationEnds, Untouched, verifyVars
  <2>5. CASE ExportVerified BY <1>1, <2>5, Zenon DEF ExportVerified, Untouched, verifyVars
  <2>6. CASE CopyContext BY <1>1, <2>6, Zenon DEF CopyContext, Untouched, verifyVars
  <2>7. CASE BuilderWrites BY <1>1, <2>7, Zenon DEF BuilderWrites, Untouched, verifyVars
  <2>8. CASE BuilderEnds BY <1>1, <2>8, Zenon DEF BuilderEnds, Untouched, verifyVars
  <2>9. CASE ValidateArchive BY <1>1, <2>9, Zenon DEF ValidateArchive, Untouched, verifyVars
  <2>10. CASE LookAgain BY <1>1, <2>10, Zenon DEF LookAgain, Untouched, verifyVars
  <2>11. CASE Rename BY <1>1, <2>11, Zenon DEF Rename, Untouched, verifyVars
  <2>12. CASE Fail BY <1>1, <2>12, Zenon DEF Fail, Untouched, verifyVars
  <2>13. CASE VerifyStep BY <2>13, <1>1, Zenon DEF VerifyStep
  <2> QED BY <1>1, <1>2, <2>1, <2>2, <2>3, <2>4, <2>5, <2>6, <2>7, <2>8, <2>9, <2>10, <2>11, <2>12, <2>13, Zenon DEF Step
<1>3. CASE Others
  <2>1. CASE OthersEdit BY <1>1, <2>1, Zenon DEF OthersEdit, besideSnapshot, artifactVars, Untouched, verifyVars
  <2>2. CASE OthersAtOutput BY <1>1, <2>2, Zenon DEF OthersAtOutput, Untouched, verifyVars
  <2> QED BY <1>1, <1>3, <2>1, <2>2, Zenon DEF Others
<1>4. CASE Done BY <1>4 DEF Done, vars, artifactVars, verifyVars, Untouched
<1> QED BY <1>2, <1>3, <1>4, Zenon DEF Next


-----------------------------------------------------------------------------
\* The types.

\* Of a verification, with what it is about.
ArtifactTypes ==
  /\ edits \in Nat
  /\ dir \in [Member -> 0..(Last + 1)] /\ manifest \in [Member -> 0..Last]
  /\ check \in {"idle", "build", "manifest", "collect", "evidence", "derived", "collect again",
                "manifest again", "verified", "refused"}
  /\ declared \in [Member -> 0..Last] /\ seen \in [Member -> 0..Last] /\ again \in [Member -> 0..Last]
  /\ visited \subseteq Member /\ evidence \in 0..Last /\ whole \in BOOLEAN
  /\ check \in {"idle", "manifest", "evidence", "manifest again", "verified"} => visited = {}
  /\ check \in {"idle", "manifest"} => seen = Nothing /\ declared = NoManifest

\* And of what is beside it.
PlaceTypes ==
  /\ action \in {"reduce", "gallery", "gallery_source", "export", "verify", "realize"}
  /\ phase \in {"look", "capture", "write", "verify", "context", "build", "validate", "look again", "rename"} \cup Ended
  /\ output \in Free \cup Archives \cup {"theirs", "ours"} /\ (output = "ours") = (phase = "published")
  /\ others \in Nat

LEMMA TypesAre == TypeOK <=> ArtifactTypes /\ PlaceTypes
<1>1. Content = 0..(Last + 1) /\ Content \ {Gone} = 0..Last BY Levels
<1> QED BY <1>1, Zenon DEF TypeOK, ArtifactTypes, PlaceTypes

\* What a pass shows of a member is nothing, or what is there.
LEMMA ShownIs ==
  ASSUME ArtifactTypes, NEW m \in Member
  PROVE  Shown(m) \in 0..Last /\ (Shown(m) = 0 \/ Shown(m) = dir[m]) /\ Shown(m) <= dir[m] /\ dir[m] \in 0..(Last + 1)
<1>1. dir[m] \in 0..(Last + 1) BY Levels DEF ArtifactTypes
<1>2. Last \in Nat BY Levels
<1> QED BY <1>1, <1>2 DEF Shown, Gone, Absent

LEMMA WatchType == ASSUME Watch PROVE whole' \in BOOLEAN
BY DEF Watch, Verifying

LEMMA Tables ==
  /\ CapturedAs["reduce"] = "source" /\ CapturedAs["gallery"] = "listed" /\ CapturedAs["gallery_source"] = "listed"
  /\ CapturedAs["export"] = "listed" /\ CapturedAs["verify"] = "listed" /\ CapturedAs["realize"] = "prepared"
  /\ FirstPhase["reduce"] = "look" /\ FirstPhase["gallery"] = "look" /\ FirstPhase["gallery_source"] = "look"
  /\ FirstPhase["export"] = "verify" /\ FirstPhase["verify"] = "verify" /\ FirstPhase["realize"] = "capture"
  /\ AfterCapture["reduce"] = "write" /\ AfterCapture["gallery_source"] = "look again"
  /\ AfterCapture["realize"] = "realized"
  /\ AfterVerification["reduce"] = "look again" /\ AfterVerification["gallery"] = "look again"
  /\ AfterVerification["gallery_source"] = "capture" /\ AfterVerification["verify"] = "confirmed"
BY DEF CapturedAs, FirstPhase, AfterCapture, AfterVerification

\* Where a capture or a verification leads.
LEMMA CaptureLeads ==
  ASSUME CaptureEnds, action \in {"reduce", "gallery_source", "realize"}
  PROVE  phase' = IF step = "refused" THEN "failed" ELSE IF action = "reduce" THEN "write"
                  ELSE IF action = "gallery_source" THEN "look again" ELSE "realized"
<1>1. phase' = IF step = "refused" THEN "failed" ELSE AfterCapture[action] BY Zenon DEF CaptureEnds, Go
<1>2. AfterCapture[action] =
        IF action = "reduce" THEN "write" ELSE IF action = "gallery_source" THEN "look again" ELSE "realized"
  <2>1. CASE action = "reduce" BY <2>1, Tables
  <2>2. CASE action = "gallery_source" BY <2>2, Tables
  <2>3. CASE action = "realize" BY <2>3, Tables
  <2> QED BY <2>1, <2>2, <2>3
<1> QED BY <1>1, <1>2

LEMMA VerificationLeads ==
  ASSUME VerificationEnds, action \in {"reduce", "gallery", "gallery_source", "verify", "export"}
  PROVE  phase' = IF check = "refused" THEN "failed" ELSE IF action \in {"reduce", "gallery"} THEN "look again"
                  ELSE IF action = "gallery_source" THEN "capture" ELSE "confirmed"
<1>1. phase' = IF check = "refused" THEN "failed" ELSE AfterVerification[action] BY Zenon DEF VerificationEnds, Go
<1>2. check # "refused" => action # "export" BY DEF VerificationEnds
<1>3. action # "export" =>
        AfterVerification[action] = IF action \in {"reduce", "gallery"} THEN "look again"
                                    ELSE IF action = "gallery_source" THEN "capture" ELSE "confirmed"
  <2>1. CASE action = "reduce" BY <2>1, Tables
  <2>2. CASE action = "gallery" BY <2>2, Tables
  <2>3. CASE action = "gallery_source" BY <2>3, Tables
  <2>4. CASE action = "verify" BY <2>4, Tables
  <2> QED BY <2>1, <2>2, <2>3, <2>4
<1> QED BY <1>1, <1>2, <1>3

LEMMA PlaceTypesHold ==
  ASSUME PlaceTypes, Phases, Next
  PROVE  PlaceTypes'
<1> USE DEF PlaceTypes, Ended, Free, Archives
<1>1. CASE Step
  <2>1. CASE Look BY <2>1 DEF Look, Go
  <2>2. CASE CaptureEnds BY <2>2, CaptureLeads DEF CaptureEnds, Go, Phases
  <2>3. CASE VerificationEnds BY <2>3, VerificationLeads DEF VerificationEnds, Go, Phases
  <2>4. CASE ExportVerified BY <2>4 DEF ExportVerified, Go
  <2>5. CASE CopyContext BY <2>5 DEF CopyContext, Go
  <2>6. CASE BuilderEnds BY <2>6 DEF BuilderEnds, Go
  <2>7. CASE ValidateArchive BY <2>7 DEF ValidateArchive, Go
  <2>8. CASE LookAgain BY <2>8 DEF LookAgain, Go
  <2>9. CASE Rename BY <2>9 DEF Rename, Go
  <2>10. CASE Fail BY <2>10 DEF Fail, Go
  <2>11. CASE BuilderWrites BY <2>11 DEF BuilderWrites
  <2>12. CASE CaptureStep BY <2>12 DEF CaptureStep
  <2>13. CASE WriteMember BY <2>13 DEF WriteMember
  <2>14. CASE AllWritten BY <2>14 DEF AllWritten
  <2>15. CASE CollectForManifest BY <2>15 DEF CollectForManifest
  <2>16. CASE BuildManifest BY <2>16 DEF BuildManifest, Go
  <2>17. CASE BeginVerification BY <2>17 DEF BeginVerification
  <2>18. CASE VerifyStep BY <2>18 DEF VerifyStep
  <2> QED BY <1>1, <2>1, <2>2, <2>3, <2>4, <2>5, <2>6, <2>7, <2>8, <2>9, <2>10, <2>11, <2>12, <2>13, <2>14, <2>15, <2>16, <2>17, <2>18, Zenon DEF Step
<1>2. CASE Others
  <2>1. CASE OthersEdit BY <2>1 DEF OthersEdit, besideSnapshot
  <2>2. CASE OthersEditArtifact BY <2>2 DEF OthersEditArtifact, besideArtifact
  <2>3. CASE OthersAtOutput
    <3>1. phase # "published" /\ output # "ours" BY <2>3 DEF OthersAtOutput
    <3>2. others' \in Nat
      <4>1. others \in Nat /\ others > 0 /\ others' = others - 1 BY <2>3, Zenon DEF OthersAtOutput, PlaceTypes
      <4> QED BY <4>1, Predecessor, Zenon
    <3>3. output' \in {"theirs", "empty directory", "absent"} BY <2>3 DEF OthersAtOutput
    <3>4. phase' = phase /\ action' = action BY <2>3 DEF OthersAtOutput
    <3> QED BY <3>1, <3>2, <3>3, <3>4
  <2> QED BY <1>2, <2>1, <2>2, <2>3, Zenon DEF Others
<1>3. CASE Done BY <1>3 DEF Done, vars
<1> QED BY <1>1, <1>2, <1>3, Zenon DEF Next

LEMMA ArtifactTypesHold ==
  ASSUME ArtifactTypes, Grown, Next
  PROVE  ArtifactTypes'
<1> USE Levels DEF ArtifactTypes
<1>1. whole' \in BOOLEAN BY StepKinds, WatchType DEF vars, artifactVars
<1>2. CASE Untouched BY <1>1, <1>2 DEF Untouched, verifyVars
<1>3. CASE WriteMember
  <2>1. PICK i \in DOMAIN Order : dir' = [dir EXCEPT ![Order[i]] = 1] BY <1>3, Zenon DEF WriteMember
  <2>2. dir' \in [Member -> 0..(Last + 1)]
    <3>1. 1 \in 0..(Last + 1) BY Ranges
    <3> QED BY <2>1, <3>1
  <2> QED BY <1>1, <1>3, <2>2, Zenon DEF WriteMember, verifyVars
<1>4. CASE AllWritten BY <1>1, <1>4 DEF AllWritten
<1>5. CASE CollectForManifest
  <2>1. PICK m \in Member : Collect(m) BY <1>5 DEF CollectForManifest
  <2>2. Shown(m) \in 0..Last BY ShownIs
  <2> QED BY <1>1, <1>5, <2>1, <2>2 DEF Collect, CollectForManifest
<1>6. CASE BuildManifest BY <1>1, <1>6 DEF BuildManifest, Grown
<1>7. CASE BeginVerification BY <1>1, <1>7 DEF BeginVerification
<1>8. CASE phase = "verify" /\ Verify /\ UNCHANGED <<snapshotVars, action, phase, output, others>>
  <2>1. CASE ReadManifest BY <1>1, <2>1 DEF ReadManifest, Refuse
  <2>2. ASSUME NEW m \in Member, Collect(m), check = "collect" PROVE ArtifactTypes'
    <3>1. Shown(m) \in 0..Last BY ShownIs
    <3> QED BY <1>1, <2>2, <3>1 DEF Collect
  <2>3. ASSUME NEW m \in Member, ReadDerived(m) PROVE ArtifactTypes' BY <1>1, <2>3 DEF ReadDerived, Refuse
  <2>4. ASSUME NEW m \in Member, CollectAgain(m) PROVE ArtifactTypes'
    <3>1. Shown(m) \in 0..Last BY ShownIs
    <3> QED BY <1>1, <2>4, <3>1 DEF CollectAgain
  <2>5. CASE CompareMembers BY <1>1, <2>5 DEF CompareMembers, Refuse
  <2>6. CASE ReadEvidence
    <3>1. Shown(Evidence) \in 0..Last BY ShownIs
    <3> QED BY <1>1, <2>6, <3>1 DEF ReadEvidence, Refuse
  <2>7. CASE DerivedRead BY <1>1, <2>7 DEF DerivedRead
  <2>8. CASE CompareAgain BY <1>1, <2>8 DEF CompareAgain, Refuse
  <2>9. CASE ReadManifestAgain BY <1>1, <2>9 DEF ReadManifestAgain, Refuse
  <2> QED BY <1>8, <2>1, <2>2, <2>3, <2>4, <2>5, <2>6, <2>7, <2>8, <2>9, Zenon DEF Verify
<1>9. CASE OthersEditArtifact
  <2>1. ASSUME NEW m \in Member, EditMember(m) PROVE ArtifactTypes'
    <3>1. PICK content \in (dir[m] + 1)..Gone : dir' = [dir EXCEPT ![m] = content] BY <2>1 DEF EditMember
    <3>2. content \in 0..(Last + 1)
      <4>1. dir[m] \in 0..(Last + 1) BY ShownIs
      <4> QED BY <3>1, <4>1, Later
    <3>3. edits' \in Nat BY <2>1, Predecessor, Zenon DEF EditMember
    <3>4. dir' \in [Member -> 0..(Last + 1)] BY <3>1, <3>2
    <3> QED BY <1>1, <2>1, <3>3, <3>4, Zenon DEF EditMember, verifyVars
  <2>2. CASE EditManifest
    <3>1. PICK later \in [Member -> Artifact] : manifest' = later BY <2>2, Zenon DEF EditManifest
    <3>2. \A content \in Artifact : content \in 0..Last BY Ranges, Zenon
    <3>3. later \in [Member -> 0..Last] BY <3>2
    <3>4. edits' \in Nat BY <2>2, Predecessor, Zenon DEF EditManifest
    <3> QED BY <1>1, <2>2, <3>1, <3>3, <3>4, Zenon DEF EditManifest, verifyVars
  <2> QED BY <1>9, <2>1, <2>2, Zenon DEF OthersEditArtifact
<1> QED BY <1>2, <1>3, <1>4, <1>5, <1>6, <1>7, <1>8, <1>9, StepKinds, Zenon

-----------------------------------------------------------------------------
\* Where the program is.

LEMMA PhasesHold ==
  ASSUME PlaceTypes, Phases, Next
  PROVE  Phases'
<1> USE DEF Phases, Ended
<1>1. CASE Step
  <2>1. CASE Look BY <2>1 DEF Look, Go, verifyVars, snapshotVars, captureVars
  <2>2. CASE CaptureStep
    <3>1. kind' = kind /\ (kind = "listed" /\ step # "cut" => step' # "cut")
      BY <2>2 DEF CaptureStep, Capture, LookAt, ScanEnds, RescanEnds, TakeStamp, ReadByte, TakeStampAgain, AllCaptured, Cut
    <3> QED BY <2>2, <3>1 DEF CaptureStep, verifyVars
  <2>3. CASE CaptureEnds
    <3>1. /\ phase = "capture"
          /\ step \in {"cut", "refused"} \/ (step = "captured" /\ action # "reduce")
          /\ UNCHANGED <<action, kind, step, check>>
      BY <2>3 DEF CaptureEnds, Go, verifyVars, snapshotVars, captureVars
    <3> QED BY <2>3, <3>1, CaptureLeads
  <2>4. CASE WriteMember BY <2>4 DEF WriteMember, verifyVars, snapshotVars, captureVars
  <2>5. CASE AllWritten BY <2>5 DEF AllWritten, snapshotVars, captureVars
  <2>6. CASE CollectForManifest BY <2>6 DEF CollectForManifest, Collect, snapshotVars, captureVars
  <2>7. CASE BuildManifest BY <2>7 DEF BuildManifest, Go, snapshotVars, captureVars
  <2>8. CASE BeginVerification BY <2>8 DEF BeginVerification, snapshotVars, captureVars
  <2>9. CASE VerifyStep
    <3>1. check \notin {"idle", "build"} /\ check' \notin {"idle", "build"}
      BY <2>9 DEF VerifyStep, Verify, ReadManifest, Collect, ReadDerived, CollectAgain, CompareMembers, ReadEvidence,
                  DerivedRead, CompareAgain, ReadManifestAgain, Refuse
    <3> QED BY <2>9, <3>1 DEF VerifyStep, snapshotVars, captureVars
  <2>10. CASE VerificationEnds
    <3>1. /\ phase = "verify"
          /\ check = "refused" \/ (check = "verified" /\ action # "export")
          /\ UNCHANGED <<action, kind, step, check>>
      BY <2>10 DEF VerificationEnds, Go, verifyVars, snapshotVars, captureVars
    <3> QED BY <2>10, <3>1, VerificationLeads
  <2>11. CASE ExportVerified BY <2>11 DEF ExportVerified, Go, verifyVars, snapshotVars, captureVars
  <2>12. CASE CopyContext BY <2>12 DEF CopyContext, Go, verifyVars, snapshotVars, captureVars
  <2>13. CASE BuilderWrites BY <2>13 DEF BuilderWrites, verifyVars, snapshotVars, captureVars
  <2>14. CASE BuilderEnds BY <2>14 DEF BuilderEnds, Go, verifyVars, snapshotVars, captureVars
  <2>15. CASE ValidateArchive BY <2>15 DEF ValidateArchive, Go, verifyVars, snapshotVars, captureVars
  <2>16. CASE LookAgain BY <2>16 DEF LookAgain, Go, verifyVars, snapshotVars, captureVars
  <2>17. CASE Rename BY <2>17 DEF Rename, Go, verifyVars, snapshotVars, captureVars
  <2>18. CASE Fail BY <2>18 DEF Fail, Go, verifyVars, snapshotVars, captureVars
  <2> QED BY <1>1, <2>1, <2>2, <2>3, <2>4, <2>5, <2>6, <2>7, <2>8, <2>9, <2>10, <2>11, <2>12, <2>13, <2>14, <2>15,
             <2>16, <2>17, <2>18, Zenon DEF Step
<1>2. CASE Others
  <2>1. CASE OthersEdit
    <3>1. step' = step /\ kind' = kind BY <2>1 DEF OthersEdit, Edit, WriteFile, Chmod, RemoveFile, Put, captureVars
    <3> QED BY <2>1, <3>1 DEF OthersEdit, besideSnapshot, artifactVars, verifyVars
  <2>2. CASE OthersEditArtifact
    BY <2>2 DEF OthersEditArtifact, EditMember, EditManifest, besideArtifact, snapshotVars, captureVars, verifyVars
  <2>3. CASE OthersAtOutput BY <2>3 DEF OthersAtOutput, verifyVars, snapshotVars, captureVars
  <2> QED BY <1>2, <2>1, <2>2, <2>3, Zenon DEF Others
<1>3. CASE Done BY <1>3 DEF Done, vars, artifactVars, verifyVars, snapshotVars, captureVars
<1> QED BY <1>1, <1>2, <1>3, Zenon DEF Next

-----------------------------------------------------------------------------
\* What is read of an artifact is not ahead of it.

\* Edits only go on.
LEMMA MembersGrow ==
  ASSUME ArtifactTypes, NEW m \in Member, EditMember(m)
  PROVE  /\ \A n \in Member : dir[n] <= dir'[n]
         /\ \A n \in Member : dir'[n] # dir[n] => dir[n] < dir'[n]
         /\ UNCHANGED <<manifest, verifyVars>>
<1>1. PICK content \in (dir[m] + 1)..Gone : dir' = [dir EXCEPT ![m] = content] BY DEF EditMember
<1>2. dir \in [Member -> 0..(Last + 1)] BY Zenon DEF ArtifactTypes
<1>3. content > dir[m] BY <1>1, <1>2, Later
<1>4. \A n \in Member : dir[n] \in 0..(Last + 1) BY <1>2
<1>5. content \in 0..(Last + 1) BY <1>1, <1>4, Later
<1>6. \A n \in Member : dir'[n] = IF n = m THEN content ELSE dir[n] BY <1>1, <1>2
<1>7. Last \in Nat BY Levels
<1>8. UNCHANGED <<manifest, verifyVars>> BY DEF EditMember
<1> QED BY <1>3, <1>4, <1>5, <1>6, <1>7, <1>8

LEMMA ManifestGrows ==
  ASSUME ArtifactTypes, EditManifest
  PROVE  /\ \A n \in Member : manifest[n] <= manifest'[n] /\ manifest'[n] \in 0..Last
         /\ manifest' # manifest /\ manifest' \in [Member -> 0..Last]
         /\ UNCHANGED <<dir, verifyVars>>
<1>1. PICK later \in [Member -> Artifact] :
        /\ later # manifest /\ \A m \in Member : manifest[m] <= later[m]
        /\ manifest' = later
  BY Zenon DEF EditManifest
<1>2. \A content \in Artifact : content \in 0..Last BY Ranges, Zenon
<1>3. later \in [Member -> 0..Last] BY <1>2
<1>4. UNCHANGED <<dir, verifyVars>> BY DEF EditManifest
<1> QED BY <1>1, <1>3, <1>4

\* All contents are numbers.
LEMMA Numbers ==
  ASSUME ArtifactTypes
  PROVE  /\ Last \in Nat /\ evidence \in 0..Last
         /\ \A m \in Member : /\ dir[m] \in 0..(Last + 1) /\ manifest[m] \in 0..Last /\ declared[m] \in 0..Last
                              /\ seen[m] \in 0..Last /\ again[m] \in 0..Last
<1>1. Last \in Nat BY Levels
<1> QED BY <1>1 DEF ArtifactTypes

LEMMA GrownHolds ==
  ASSUME ArtifactTypes, ArtifactTypes', Phases, Grown, Next
  PROVE  Grown'
<1>1. CASE Untouched BY <1>1 DEF Untouched, verifyVars, Grown, Comparing
<1>2. CASE WriteMember BY <1>2 DEF WriteMember, verifyVars, Grown, Comparing
<1>3. CASE AllWritten BY <1>3 DEF AllWritten, ArtifactTypes, Grown, Comparing
<1>4. CASE CollectForManifest BY <1>4 DEF CollectForManifest, Collect, Grown, Comparing
<1>5. CASE BuildManifest BY <1>5 DEF BuildManifest, Grown, Comparing
<1>6. CASE BeginVerification BY <1>6 DEF BeginVerification, Grown, Comparing
<1>7. CASE phase = "verify" /\ Verify /\ UNCHANGED <<snapshotVars, action, phase, output, others>>
  <2>1. CASE ReadManifest
    <3>1. check = "manifest" /\ visited = {} BY <2>1 DEF ReadManifest, ArtifactTypes
    <3>2. CASE manifest = NoManifest BY <2>1, <3>2 DEF ReadManifest, Refuse, Grown, Comparing
    <3>3. CASE manifest # NoManifest
      <4>1. declared' = manifest /\ manifest' = manifest /\ visited' = {} /\ check' = "collect"
        BY <2>1, <3>1, <3>3, Zenon DEF ReadManifest
      <4>2. \A m \in Member : manifest[m] <= manifest[m] BY Numbers
      <4> QED BY <4>1, <4>2 DEF Grown, Comparing
    <3> QED BY <3>2, <3>3
  <2>2. ASSUME NEW m \in Member, Collect(m), check = "collect" PROVE Grown'
    <3>1. Shown(m) <= dir[m] BY ShownIs
    <3>2. seen' = [seen EXCEPT ![m] = Shown(m)] /\ seen \in [Member -> 0..Last] BY <2>2, Zenon DEF Collect, ArtifactTypes
    <3>3. \A n \in visited' : n \in Member /\ seen'[n] <= dir[n] BY <2>2, <3>1, <3>2 DEF Collect, ArtifactTypes, Grown
    <3>4. UNCHANGED <<dir, manifest, check, declared>> BY <2>2 DEF Collect
    <3> QED BY <2>2, <3>3, <3>4 DEF Grown, Comparing
  <2>3. ASSUME NEW m \in Member, ReadDerived(m) PROVE Grown' BY <2>3 DEF ReadDerived, Refuse, Grown, Comparing
  <2>4. ASSUME NEW m \in Member, CollectAgain(m) PROVE Grown' BY <2>4 DEF CollectAgain, Grown, Comparing
  <2>5. CASE CompareMembers BY <2>5 DEF CompareMembers, Refuse, Grown, Comparing
  <2>6. CASE ReadEvidence BY <2>6 DEF ReadEvidence, Refuse, Grown, Comparing
  <2>7. CASE DerivedRead BY <2>7 DEF DerivedRead, Grown, Comparing
  <2>8. CASE CompareAgain BY <2>8 DEF CompareAgain, Refuse, Grown, Comparing
  <2>9. CASE ReadManifestAgain BY <2>9 DEF ReadManifestAgain, Refuse, Grown, Comparing
  <2> QED BY <1>7, <2>1, <2>2, <2>3, <2>4, <2>5, <2>6, <2>7, <2>8, <2>9, Zenon DEF Verify
<1>8. CASE OthersEditArtifact
  <2>1. ASSUME NEW m \in Member, EditMember(m) PROVE Grown'
    <3>1. /\ \A n \in Member : dir[n] <= dir'[n]
          /\ UNCHANGED <<manifest, check, declared, seen, again, visited, evidence>>
      BY <2>1, MembersGrow DEF verifyVars
    <3>2. \A n \in Member : dir[n] \in Nat /\ seen[n] \in Nat /\ dir'[n] \in Nat
      <4>1. dir' \in [Member -> 0..(Last + 1)] BY Zenon DEF ArtifactTypes
      <4> QED BY <4>1, Numbers
    <3>3. \A n \in Member : seen[n] <= dir[n] => seen[n] <= dir'[n] BY <3>1, <3>2
    <3>4. visited \subseteq Member BY DEF ArtifactTypes
    <3> QED BY <3>1, <3>3, <3>4 DEF Grown, Comparing
  <2>2. CASE EditManifest
    <3>1. /\ \A n \in Member : manifest[n] <= manifest'[n] /\ manifest'[n] \in 0..Last
          /\ UNCHANGED <<dir, check, declared, seen, again, visited, evidence>>
      BY <2>2, ManifestGrows DEF verifyVars
    <3>2. \A n \in Member : declared[n] <= manifest[n] => declared[n] <= manifest'[n] BY <3>1, Numbers
    <3> QED BY <3>1, <3>2 DEF Grown, Comparing
  <2> QED BY <1>8, <2>1, <2>2, Zenon DEF OthersEditArtifact
<1> QED BY <1>1, <1>2, <1>3, <1>4, <1>5, <1>6, <1>7, <1>8, StepKinds, Zenon

-----------------------------------------------------------------------------
\* The members lie about the evidence that was read.

\* A step that reads only, and goes neither to nor on with a comparison.
LEMMA AgreedStays ==
  ASSUME Agreed, UNCHANGED <<dir, declared, seen, evidence>>,
         (check' = check /\ visited' = visited) \/ check' \notin Confirming
  PROVE  Agreed'
BY DEF Agreed, Confirming, Between

\* What shows a content is that content.
LEMMA ShownThere ==
  ASSUME ArtifactTypes, Grown, check \in {"evidence", "derived"}, NEW m \in Member, Shown(m) # Absent
  PROVE  seen[m] <= Shown(m) /\ Shown(m) <= dir[m] /\ Shown(m) \in Artifact
<1>1. /\ Shown(m) \in 0..Last /\ Shown(m) = dir[m] /\ Shown(m) # 0
  BY ShownIs DEF Absent
<1>2. seen[m] <= dir[m] BY DEF Grown, Comparing
<1>3. Last \in Nat /\ Artifact = 1..Last BY Levels
<1> QED BY <1>1, <1>2, <1>3

LEMMA AgreedHolds ==
  ASSUME ArtifactTypes, ArtifactTypes', Phases, Grown, Agreed, Next
  PROVE  Agreed'
<1>1. CASE Untouched BY <1>1, AgreedStays DEF Untouched, verifyVars
<1>2. CASE WriteMember BY <1>2 DEF WriteMember, verifyVars, Agreed, Confirming
<1>3. CASE AllWritten BY <1>3, AgreedStays DEF AllWritten, Confirming
<1>4. CASE CollectForManifest BY <1>4 DEF CollectForManifest, Collect, Agreed, Confirming
<1>5. CASE BuildManifest BY <1>5 DEF BuildManifest, Agreed, Confirming
<1>6. CASE BeginVerification BY <1>6, AgreedStays DEF BeginVerification, Confirming
<1>7. CASE phase = "verify" /\ Verify /\ UNCHANGED <<snapshotVars, action, phase, output, others>>
  <2>1. CASE ReadManifest BY <2>1 DEF ReadManifest, Refuse, Agreed, Confirming
  <2>2. ASSUME NEW m \in Member, Collect(m), check = "collect" PROVE Agreed' BY <2>2 DEF Collect, Agreed, Confirming
  <2>3. ASSUME NEW m \in Member, ReadDerived(m) PROVE Agreed'
    <3>1. CASE Shown(m) # evidence BY <2>3, <3>1, AgreedStays DEF ReadDerived, Refuse, Confirming
    <3>2. CASE Shown(m) = evidence
      <4>1. check = "derived" /\ check' = "derived" /\ visited' = visited \cup {m} /\ UNCHANGED <<dir, declared, seen, evidence>>
        BY <2>3, <3>2 DEF ReadDerived
      <4>2. evidence \in Artifact BY <4>1 DEF Agreed, Confirming
      <4>3. Shown(m) # Absent BY <3>2, <4>2, Levels DEF Absent
      <4>4. Between(m) BY <3>2, <4>1, <4>3, ShownThere DEF Between
      <4> QED BY <4>1, <4>4 DEF Agreed, Confirming, Between
    <3> QED BY <3>1, <3>2
  <2>4. ASSUME NEW m \in Member, CollectAgain(m) PROVE Agreed' BY <2>4 DEF CollectAgain, Agreed, Confirming, Between
  <2>5. CASE CompareMembers BY <2>5 DEF CompareMembers, Refuse, Agreed, Confirming
  <2>6. CASE ReadEvidence
    <3>1. CASE Shown(Evidence) = Absent \/ ~ExpectedBy(Shown(Evidence))
      BY <2>6, <3>1, AgreedStays DEF ReadEvidence, Refuse, Confirming
    <3>2. CASE Shown(Evidence) # Absent /\ ExpectedBy(Shown(Evidence))
      <4>1. /\ check = "evidence" /\ check' = "derived" /\ visited' = visited /\ evidence' = Shown(Evidence)
            /\ UNCHANGED <<dir, declared, seen>>
        BY <2>6, <3>2 DEF ReadEvidence
      <4>2. visited = {} BY <4>1 DEF ArtifactTypes
      <4>3. /\ seen[Evidence] <= Shown(Evidence) /\ Shown(Evidence) <= dir[Evidence] /\ Shown(Evidence) \in Artifact
        BY <3>2, <4>1, ShownThere, Levels
      <4>4. /\ \A m \in Member : declared[m] # Absent
            /\ \A m \in Project : declared[m] = Shown(Evidence)
        BY <3>2 DEF ExpectedBy, Project
      <4> QED BY <4>1, <4>2, <4>3, <4>4 DEF Agreed, Confirming, Between
    <3> QED BY <3>1, <3>2
  <2>7. CASE DerivedRead BY <2>7 DEF DerivedRead, Agreed, Confirming, Between
  <2>8. CASE CompareAgain BY <2>8 DEF CompareAgain, Refuse, Agreed, Confirming, Between
  <2>9. CASE ReadManifestAgain BY <2>9, AgreedStays DEF ReadManifestAgain, Refuse, Confirming
  <2> QED BY <1>7, <2>1, <2>2, <2>3, <2>4, <2>5, <2>6, <2>7, <2>8, <2>9, Zenon DEF Verify
<1>8. CASE OthersEditArtifact
  <2>1. ASSUME NEW m \in Member, EditMember(m) PROVE Agreed'
    <3>1. /\ \A n \in Member : dir[n] <= dir'[n]
          /\ UNCHANGED <<manifest, check, declared, seen, again, visited, evidence>>
      BY <2>1, MembersGrow DEF verifyVars
    <3>2. \A n \in Member : dir[n] \in Nat /\ dir'[n] \in Nat
      <4>1. dir' \in [Member -> 0..(Last + 1)] BY Zenon DEF ArtifactTypes
      <4> QED BY <4>1, Numbers
    <3>3. evidence \in Nat BY Numbers
    <3>4. \A n \in Member : evidence <= dir[n] => evidence <= dir'[n] BY <3>1, <3>2, <3>3
    <3>5. \A n \in Member : Between(n) => Between(n)' BY <3>1, <3>4 DEF Between
    <3>6. visited \subseteq Member /\ Evidence \in Member /\ Derived \subseteq Member
      BY Levels DEF ArtifactTypes
    <3> QED BY <3>1, <3>5, <3>6 DEF Agreed, Confirming
  <2>2. CASE EditManifest
    <3>1. UNCHANGED <<dir, check, declared, seen, again, visited, evidence>> BY <2>2, ManifestGrows DEF verifyVars
    <3> QED BY <3>1, AgreedStays
  <2> QED BY <1>8, <2>1, <2>2, Zenon DEF OthersEditArtifact
<1> QED BY <1>1, <1>2, <1>3, <1>4, <1>5, <1>6, <1>7, <1>8, StepKinds, Zenon

-----------------------------------------------------------------------------
\* The moment.

LEMMA WatchIs ==
  ASSUME Watch \/ UNCHANGED vars, ArtifactTypes, Moment
  PROVE  /\ Verifying' /\ Whole(dir, manifest)' => whole'
         /\ Verifying /\ Verifying' /\ whole => whole'
<1>1. CASE Watch BY <1>1 DEF Watch, Whole
<1>2. CASE UNCHANGED vars
  <2>1. UNCHANGED <<dir, manifest, check, whole>> BY <1>2 DEF vars, artifactVars, verifyVars
  <2> QED BY <2>1 DEF Moment, Verifying, Whole, Of
<1> QED BY <1>1, <1>2

\* When the second collection begins, a member or the manifest has changed, or the
\* artifact is complete now.
LEMMA CompleteNow ==
  ASSUME ArtifactTypes, Grown, Agreed, check = "derived", visited = Derived,
         manifest = declared, \A m \in Member : dir[m] = seen[m]
  PROVE  Whole(dir, manifest)
<1>1. seen = declared /\ evidence \in Artifact BY DEF Grown, Comparing, Agreed, Confirming
<1>2. \A m \in Member : dir[m] = evidence
  <2>1. ASSUME NEW m \in Member, Between(m) PROVE dir[m] = evidence BY <2>1, Numbers DEF Between
  <2>2. Between(Evidence) /\ \A m \in Derived : Between(m) BY DEF Agreed, Confirming
  <2>3. \A m \in Project : dir[m] = evidence BY <1>1 DEF Agreed, Confirming, Project
  <2> QED BY <2>1, <2>2, <2>3 DEF Project
<1>3. dir = Of(evidence)
  <2>1. dir \in [Member -> 0..(Last + 1)] BY Zenon DEF ArtifactTypes
  <2> QED BY <1>2, <2>1 DEF Of
<1>4. manifest = Of(evidence)
  <2>1. manifest \in [Member -> 0..Last] BY Zenon DEF ArtifactTypes
  <2>2. \A m \in Member : manifest[m] = evidence BY <1>1, <1>2
  <2> QED BY <2>1, <2>2 DEF Of
<1> QED BY <1>1, <1>3, <1>4 DEF Whole

\* A step that changes no content, and no pass of the verification.
LEMMA MomentStays ==
  ASSUME Moment, Verifying' /\ Whole(dir, manifest)' => whole', Verifying /\ Verifying' /\ whole => whole',
         UNCHANGED <<dir, manifest, check, declared, seen, again, visited>>
  PROVE  Moment'
BY DEF Moment, Verifying, Shows

\* A step of which nothing is to be shown.
LEMMA MomentElsewhere ==
  ASSUME Verifying' /\ Whole(dir, manifest)' => whole',
         check' \notin {"collect again", "manifest again", "verified"}
  PROVE  Moment'
BY DEF Moment

LEMMA MomentHolds ==
  ASSUME ArtifactTypes, ArtifactTypes', Phases, Grown, Agreed, Moment, Next
  PROVE  Moment'
<1>w. /\ Verifying' /\ Whole(dir, manifest)' => whole'
      /\ Verifying /\ Verifying' /\ whole => whole'
  BY StepKinds, WatchIs
<1>1. CASE Untouched BY <1>w, <1>1, MomentStays DEF Untouched, verifyVars
<1>2. CASE WriteMember BY <1>w, <1>2, MomentElsewhere DEF WriteMember, verifyVars
<1>3. CASE AllWritten BY <1>w, <1>3, MomentElsewhere DEF AllWritten
<1>4. CASE CollectForManifest BY <1>w, <1>4, MomentElsewhere DEF CollectForManifest, Collect
<1>5. CASE BuildManifest BY <1>w, <1>5, MomentElsewhere DEF BuildManifest
<1>6. CASE BeginVerification BY <1>w, <1>6, MomentElsewhere DEF BeginVerification
<1>7. CASE phase = "verify" /\ Verify /\ UNCHANGED <<snapshotVars, action, phase, output, others>>
  <2>1. CASE ReadManifest BY <1>w, <2>1, MomentElsewhere DEF ReadManifest, Refuse
  <2>2. ASSUME NEW m \in Member, Collect(m), check = "collect" PROVE Moment'
    BY <1>w, <2>2, MomentElsewhere DEF Collect
  <2>3. ASSUME NEW m \in Member, ReadDerived(m) PROVE Moment' BY <1>w, <2>3, MomentElsewhere DEF ReadDerived, Refuse
  <2>4. ASSUME NEW m \in Member, CollectAgain(m) PROVE Moment'
    <3>1. /\ check = "collect again" /\ check' = check /\ visited' = visited \cup {m}
          /\ again' = [again EXCEPT ![m] = Shown(m)]
          /\ UNCHANGED <<dir, manifest, declared, seen>>
      BY <2>4 DEF CollectAgain
    <3>2. \A n \in Member : again'[n] = IF n = m THEN Shown(m) ELSE again[n]
      BY <3>1, Zenon DEF ArtifactTypes
    <3>3. dir[m] # seen[m] => Shown(m) # seen[m]
      <4>1. seen[m] # 0 BY <3>1 DEF Grown, Comparing, Agreed, Confirming, Absent
      <4> QED BY <4>1, ShownIs
    <3>4. \A n \in Member : Shows(n) => Shows(n)' BY <3>1, <3>2, <3>3 DEF Shows
    <3>5. whole' \/ manifest' # declared' \/ \E n \in Member : Shows(n)'
      BY <1>w, <3>1, <3>4 DEF Moment, Verifying
    <3> QED BY <1>w, <3>1, <3>5 DEF Moment
  <2>5. CASE CompareMembers BY <1>w, <2>5, MomentElsewhere DEF CompareMembers, Refuse
  <2>6. CASE ReadEvidence BY <1>w, <2>6, MomentElsewhere DEF ReadEvidence, Refuse
  <2>7. CASE DerivedRead
    <3>1. /\ check = "derived" /\ visited = Derived /\ check' = "collect again" /\ visited' = {}
          /\ UNCHANGED <<dir, manifest, declared, seen>>
      BY <2>7 DEF DerivedRead
    <3>2. Whole(dir, manifest) \/ manifest # declared \/ \E m \in Member : dir[m] # seen[m]
      BY <3>1, CompleteNow
    <3>3. Whole(dir, manifest) => Whole(dir, manifest)' BY <3>1 DEF Whole, Of
    <3>4. Verifying' BY <3>1 DEF Verifying
    <3> QED BY <1>w, <3>1, <3>2, <3>3, <3>4 DEF Moment, Shows
  <2>8. CASE CompareAgain
    <3>1. CASE again # seen BY <1>w, <2>8, <3>1, MomentElsewhere DEF CompareAgain, Refuse
    <3>2. CASE again = seen
      <4>1. /\ check = "collect again" /\ visited = Member /\ check' = "manifest again"
            /\ UNCHANGED <<dir, manifest, declared>>
        BY <2>8, <3>2 DEF CompareAgain
      <4>2. whole \/ manifest # declared BY <3>2, <4>1 DEF Moment, Shows
      <4> QED BY <1>w, <4>1, <4>2 DEF Moment, Verifying
    <3> QED BY <3>1, <3>2
  <2>9. CASE ReadManifestAgain
    <3>1. CASE manifest # declared BY <1>w, <2>9, <3>1, MomentElsewhere DEF ReadManifestAgain, Refuse
    <3>2. CASE manifest = declared
      <4>1. check = "manifest again" /\ check' = "verified" BY <2>9, <3>2 DEF ReadManifestAgain
      <4> QED BY <1>w, <3>2, <4>1 DEF Moment, Verifying
    <3> QED BY <3>1, <3>2
  <2> QED BY <1>7, <2>1, <2>2, <2>3, <2>4, <2>5, <2>6, <2>7, <2>8, <2>9, Zenon DEF Verify
<1>8. CASE OthersEditArtifact
  <2>1. ASSUME NEW m \in Member, EditMember(m) PROVE Moment'
    <3>1. /\ \A n \in Member : dir'[n] # dir[n] => dir[n] < dir'[n]
          /\ UNCHANGED <<manifest, check, declared, seen, again, visited>>
      BY <2>1, MembersGrow DEF verifyVars
    <3>2. CASE check = "collect again"
      <4>1. \A n \in Member : seen[n] <= dir[n] BY <3>2 DEF Grown, Comparing
      <4>2. \A n \in Member : dir'[n] \in Nat /\ dir[n] \in Nat /\ seen[n] \in Nat
        <5>1. dir' \in [Member -> 0..(Last + 1)] BY Zenon DEF ArtifactTypes
        <5> QED BY <5>1, Numbers
      <4>3. \A n \in Member : dir[n] # seen[n] => dir'[n] # seen[n] BY <3>1, <4>1, <4>2
      <4>4. \A n \in Member : Shows(n) => Shows(n)' BY <3>1, <4>3 DEF Shows
      <4> QED BY <1>w, <3>1, <3>2, <4>4 DEF Moment, Verifying
    <3>3. CASE check # "collect again" BY <1>w, <3>1, <3>3 DEF Moment, Verifying
    <3> QED BY <3>2, <3>3
  <2>2. CASE EditManifest
    <3>1. /\ \A n \in Member : manifest[n] <= manifest'[n] /\ manifest'[n] \in 0..Last
          /\ manifest' # manifest /\ manifest' \in [Member -> 0..Last]
          /\ UNCHANGED <<dir, check, declared, seen, again, visited>>
      BY <2>2, ManifestGrows DEF verifyVars
    <3>2. CASE check \in {"collect again", "manifest again"}
      <4>1. \A n \in Member : declared[n] <= manifest[n] BY <3>2 DEF Grown, Comparing
      <4>2. manifest' # declared
        <5>1. SUFFICES ASSUME manifest' = declared PROVE FALSE OBVIOUS
        <5>2. \A n \in Member : manifest'[n] = manifest[n] BY <3>1, <4>1, <5>1, Numbers
        <5>3. manifest \in [Member -> 0..Last] BY Zenon DEF ArtifactTypes
        <5> QED BY <3>1, <5>2, <5>3
      <4> QED BY <1>w, <3>1, <3>2, <4>2 DEF Moment
    <3>3. CASE check \notin {"collect again", "manifest again"} BY <1>w, <3>1, <3>3 DEF Moment, Verifying
    <3> QED BY <3>2, <3>3
  <2> QED BY <1>8, <2>1, <2>2, Zenon DEF OthersEditArtifact
<1> QED BY <1>1, <1>2, <1>3, <1>4, <1>5, <1>6, <1>7, <1>8, StepKinds, Zenon

-----------------------------------------------------------------------------
\* The theorems.

LEMMA InitIInv == Init => IInv
<1> SUFFICES ASSUME Init PROVE IInv OBVIOUS
<1>1. PICK request \in Requests :
        /\ action = request.action /\ edits = request.edits /\ others = request.others
  BY DEF Init
<1>2. request \in Request BY PublicationAssumption
<1>3. action \in {"reduce", "gallery", "gallery_source", "export", "verify", "realize"} /\ edits \in Nat /\ others \in Nat
  BY <1>1, <1>2 DEF Request
<1>4. /\ kind = CapturedAs[action] /\ phase = FirstPhase[action] /\ output \in {"absent", "theirs"}
      /\ check = "idle" /\ declared = NoManifest /\ seen = Nothing /\ again = Nothing /\ visited = {}
      /\ evidence = Absent /\ whole = FALSE
      /\ step = IF kind = "prepared" THEN "stamp" ELSE "scan"
  BY DEF Init, InitVerification, InitSnapshot
<1>5. dir \in [Member -> 0..(Last + 1)] /\ manifest \in [Member -> 0..Last]
  <2>1. CASE action \in {"reduce", "realize"}
    <3>1. dir = Nothing /\ manifest = NoManifest BY <2>1 DEF Init
    <3> QED BY <3>1, Levels DEF Nothing, Absent
  <2>2. CASE action \notin {"reduce", "realize"}
    <3>1. dir \in [Member -> {Absent, 1}] /\ manifest \in {NoManifest, Of(1)} BY <2>2 DEF Init
    <3>2. 0 \in 0..Last /\ 1 \in 0..Last /\ 0 \in 0..(Last + 1) /\ 1 \in 0..(Last + 1) BY Levels
    <3>3. dir \in [Member -> 0..(Last + 1)] BY <3>1, <3>2 DEF Absent
    <3>4. manifest \in [Member -> 0..Last] BY <3>1, <3>2 DEF NoManifest, Nothing, Of, Absent
    <3> QED BY <3>3, <3>4
  <2> QED BY <2>1, <2>2
<1>6. ArtifactTypes
  <2>1. evidence \in 0..Last BY <1>4, Levels DEF Absent
  <2>2. declared \in [Member -> 0..Last] /\ seen \in [Member -> 0..Last] /\ again \in [Member -> 0..Last]
    BY <1>4, Levels
  <2>3. visited \subseteq Member /\ whole \in BOOLEAN BY <1>4
  <2> QED BY <1>3, <1>4, <1>5, <2>1, <2>2, <2>3 DEF ArtifactTypes
<1>7. phase \in {"look", "verify", "capture"} /\ (phase = "look" => action \in {"reduce", "gallery", "gallery_source"})
      /\ (phase = "verify" => action \in {"verify", "export"}) /\ (phase = "capture" => action = "realize")
  BY <1>3, <1>4, Tables
<1>8. PlaceTypes BY <1>3, <1>4, <1>7 DEF PlaceTypes, Free, Archives, Ended
<1>9. action = "gallery_source" => kind = "listed" BY <1>4, Tables
<1>10. Phases BY <1>4, <1>7, <1>9 DEF Phases
<1>11. Grown /\ Agreed /\ Moment BY <1>4 DEF Grown, Comparing, Agreed, Confirming, Moment, Verifying
<1> QED BY <1>6, <1>8, <1>10, <1>11, TypesAre DEF IInv

LEMMA NextIInv == IInv /\ [Next]_vars => IInv'
<1> SUFFICES ASSUME IInv, [Next]_vars PROVE IInv' OBVIOUS
<1>1. ArtifactTypes /\ PlaceTypes /\ Phases /\ Grown /\ Agreed /\ Moment BY TypesAre DEF IInv
<1>2. CASE Next
  <2>1. ArtifactTypes' BY <1>1, <1>2, ArtifactTypesHold
  <2>2. PlaceTypes' BY <1>1, <1>2, PlaceTypesHold
  <2>3. Phases' BY <1>1, <1>2, PhasesHold
  <2>4. Grown' BY <1>1, <1>2, <2>1, GrownHolds
  <2>5. Agreed' BY <1>1, <1>2, <2>1, AgreedHolds
  <2>6. Moment' BY <1>1, <1>2, <2>1, MomentHolds
  <2>7. (TypeOK <=> ArtifactTypes /\ PlaceTypes)' BY TypesAre, PTL
  <2> QED BY <2>1, <2>2, <2>3, <2>4, <2>5, <2>6, <2>7 DEF IInv
<1>3. CASE UNCHANGED vars
  <2>1. UNCHANGED <<dir, manifest, edits, check, declared, seen, again, visited, evidence, whole, kind, step, action, phase, output, others>>
    BY <1>3 DEF vars, artifactVars, verifyVars, snapshotVars, captureVars
  <2>2. ArtifactTypes' BY <1>1, <2>1 DEF ArtifactTypes, Nothing, NoManifest
  <2>6. PlaceTypes' BY <1>1, <2>1, Zenon DEF PlaceTypes, Free, Archives, Ended
  <2>3. Phases' BY <1>1, <2>1 DEF Phases
  <2>4. Grown' /\ Agreed' /\ Moment'
    BY <1>1, <2>1 DEF Grown, Comparing, Agreed, Confirming, Between, Moment, Verifying, Whole, Of, Shows
  <2>5. (TypeOK <=> ArtifactTypes /\ PlaceTypes)' BY TypesAre, PTL
  <2> QED BY <2>2, <2>3, <2>4, <2>5, <2>6 DEF IInv
<1> QED BY <1>2, <1>3

\* The inductive invariant holds of every publication, gallery, export,
\* verification and realisation, whatever others edit (main.rs:874-951, 632-733,
\* 822-850, 464-479; engine lib.rs:1075-1109).
THEOREM Invariant == Spec => []IInv
BY InitIInv, NextIInv, PTL DEF Spec

\* The types of the program, of the artifact and of its verification
\* (crates/reprocut-cli/src/main.rs:874-951).
THEOREM TypeCorrect == Spec => []TypeOK
<1>1. IInv => TypeOK BY DEF IInv
<1> QED BY <1>1, Invariant, PTL

\* However many members an artifact has, and however others edit it, one that is
\* confirmed was complete at a moment of its verification (verify.rs:175-234).
THEOREM AlwaysVerifiedAtOneMoment == Spec => []VerifiedAtOneMoment
<1>1. IInv => VerifiedAtOneMoment BY DEF IInv, Moment, VerifiedAtOneMoment
<1> QED BY <1>1, Invariant, PTL

\* The artifact that is about to be moved, or has been exported, was complete.
LEMMA WholeBefore ==
  ASSUME IInv, phase \in {"rename", "build", "validate"}
  PROVE  /\ whole
         /\ phase = "rename" => /\ action = "reduce" => step = "cut"
                                /\ action = "gallery_source" => step = "captured"
<1>1. Phases /\ Moment BY DEF IInv
<1>2. check = "verified" BY <1>1 DEF Phases
<1> QED BY <1>1, <1>2 DEF Phases, Moment

\* A step that leaves the output alone, and does not end an export.
LEMMA NothingAppears ==
  ASSUME output' = output \/ output' \in Free \cup {"theirs"}, phase' # "exported"
  PROVE  /\ output' = "ours" /\ output # "ours" =>
               /\ output \in Free /\ whole
               /\ action = "reduce" => step = "cut"
               /\ action = "gallery_source" => step = "captured"
         /\ output' \in Archives /\ output \notin Archives => whole
         /\ phase' = "exported" => whole
BY DEF Free, Archives

\* Whatever becomes of the program and whoever else writes at its output path, what
\* is moved there is a whole directory, in the place of nothing or of an empty one,
\* and an archive is begun, and reported, only for an artifact that was complete
\* (main.rs:1289-1303; oci lib.rs:177-199).
THEOREM OnlyWholeEverAppears == Spec => OnlyWholeAppears
<1> DEFINE Appears ==
      /\ output' = "ours" /\ output # "ours" =>
            /\ output \in Free /\ whole
            /\ action = "reduce" => step = "cut"
            /\ action = "gallery_source" => step = "captured"
      /\ output' \in Archives /\ output \notin Archives => whole
      /\ phase' = "exported" => whole
<1>1. IInv /\ Next => Appears \/ UNCHANGED vars
  <2> SUFFICES ASSUME IInv, Next PROVE Appears \/ UNCHANGED vars OBVIOUS
  <2>0. PlaceTypes /\ Phases BY TypesAre DEF IInv
  <2>1. CASE Step
    <3> HIDE DEF Appears
    <3>1. CASE Look BY <3>1, NothingAppears DEF Look, Go, Appears
    <3>2. CASE CaptureEnds BY <2>0, <3>2, CaptureLeads, NothingAppears DEF CaptureEnds, Phases, Appears
    <3>3. CASE VerificationEnds BY <2>0, <3>3, VerificationLeads, NothingAppears DEF VerificationEnds, Phases, Appears
    <3>4. CASE ExportVerified BY <3>4, NothingAppears DEF ExportVerified, Go, Appears
    <3>5. CASE CopyContext BY <3>5, NothingAppears DEF CopyContext, Go, Appears
    <3>6. CASE BuilderEnds BY <3>6, NothingAppears DEF BuilderEnds, Go, Appears
    <3>7. CASE LookAgain BY <3>7, NothingAppears DEF LookAgain, Go, Appears
    <3>8. CASE Fail BY <3>8, NothingAppears DEF Fail, Go, Appears
    <3>9. CASE BuildManifest BY <3>9, NothingAppears DEF BuildManifest, Go, Appears
    <3>10. CASE CaptureStep BY <3>10, NothingAppears DEF CaptureStep, Appears
    <3>11. CASE WriteMember BY <3>11, NothingAppears DEF WriteMember, Appears
    <3>12. CASE AllWritten BY <3>12, NothingAppears DEF AllWritten, Appears
    <3>13. CASE CollectForManifest BY <3>13, NothingAppears DEF CollectForManifest, Appears
    <3>14. CASE BeginVerification BY <3>14, NothingAppears DEF BeginVerification, Appears
    <3>15. CASE VerifyStep BY <3>15, NothingAppears DEF VerifyStep, Appears
    <3>16. CASE ValidateArchive BY <3>16, WholeBefore DEF ValidateArchive, Go, Appears, Archives
    <3>17. CASE BuilderWrites BY <3>17, WholeBefore DEF BuilderWrites, Appears, Archives
    <3>18. CASE Rename
      <4>1. CASE output \in Free
        <5>1. phase = "rename" /\ output' = "ours" /\ phase' = "published" BY <3>18, <4>1, Zenon DEF Rename, Go
        <5>2. whole /\ (action = "reduce" => step = "cut") /\ (action = "gallery_source" => step = "captured")
          BY <5>1, WholeBefore, Zenon
        <5>3. output' \notin Archives /\ phase' # "exported" BY <5>1 DEF Archives
        <5> QED BY <4>1, <5>2, <5>3, Zenon DEF Appears
      <4>2. CASE output \notin Free BY <3>18, <4>2, NothingAppears DEF Rename, Go, Appears
      <4> QED BY <4>1, <4>2
    <3> QED BY <2>1, <3>1, <3>2, <3>3, <3>4, <3>5, <3>6, <3>7, <3>8, <3>9, <3>10, <3>11, <3>12, <3>13, <3>14, <3>15, <3>16, <3>17, <3>18, Zenon DEF Step
  <2>2. CASE Others
    <3>1. CASE OthersEdit BY <3>1, NothingAppears DEF OthersEdit, besideSnapshot, Ended
    <3>2. CASE OthersEditArtifact BY <3>2, NothingAppears DEF OthersEditArtifact, besideArtifact, Ended
    <3>3. CASE OthersAtOutput BY <3>3, NothingAppears DEF OthersAtOutput, Ended, Free
    <3> QED BY <2>2, <3>1, <3>2, <3>3, Zenon DEF Others
  <2>3. CASE Done BY <2>3 DEF Done
  <2> QED BY <2>1, <2>2, <2>3, Zenon DEF Next
<1>2. IInv /\ [Next]_vars => [Appears]_vars BY <1>1
<1> QED BY <1>2, Invariant, PTL DEF Spec, OnlyWholeAppears

-----------------------------------------------------------------------------
\* Least elements and recursion, without induction over an operator.

\* Every nonempty set of naturals has a least element.
LEMMA Least ==
  ASSUME NEW T \in SUBSET Nat, T # {}
  PROVE  \E m \in T : \A k \in T : m <= k
<1>1. IsWellFoundedOn(OpToRel(<, Nat), Nat)
  BY NatLessThanWellFounded
<1>2. PICK m \in T : \A k \in T : ~(<<k, m>> \in OpToRel(<, Nat))
  BY <1>1, WFMin
<1>3. ASSUME NEW k \in T PROVE ~(k < m)
  BY <1>2 DEF OpToRel
<1> QED
  BY <1>3

\* What is built up step by step exists.
Stepwise(X, n, x0, G) == n \in Nat /\ x0 \in X /\ G \in [1..n -> [X -> X]]
Stepped(X, n, x0, G, h) == h \in [0..n -> X] /\ h[0] = x0 /\ \A i \in 1..n : h[i] = G[i][h[i - 1]]

LEMMA StepsAre == \A X, n, x0, G : Stepwise(X, n, x0, G) => \E h : Stepped(X, n, x0, G, h)
<1> SUFFICES ASSUME NEW X, NEW n, NEW x0, NEW G, Stepwise(X, n, x0, G)
             PROVE  \E h : Stepped(X, n, x0, G, h)
  OBVIOUS
<1>0. n \in Nat /\ x0 \in X /\ G \in [1..n -> [X -> X]]
  BY DEF Stepwise
<1> DEFINE Built(m, h) == h \in [0..m -> X] /\ h[0] = x0 /\ \A i \in 1..m : h[i] = G[i][h[i - 1]]
           T == {m \in 0..n : ~\E h : Built(m, h)}
<1>1. SUFFICES T = {}
  <2>1. n \in 0..n
    BY <1>0
  <2>2. \E h : Built(n, h)
    BY <1>1, <2>1
  <2> QED
    BY <2>2 DEF Stepped
<1>2. SUFFICES ASSUME T # {} PROVE FALSE
  OBVIOUS
<1>3. T \in SUBSET Nat
  OBVIOUS
<1>4. PICK m \in T : \A k \in T : m <= k
  BY <1>2, <1>3, Least
<1>5. m \in 0..n /\ ~\E h : Built(m, h)
  BY <1>4
<1>6. CASE m = 0
  <2>1. Built(0, [i \in 0..0 |-> x0])
    BY <1>0
  <2> QED
    BY <1>5, <1>6, <2>1
<1>7. CASE m > 0
  <2>1. m - 1 \in 0..n /\ m - 1 \notin T /\ m \in 1..n
    <3>1. m - 1 \in 0..n /\ m \in 1..n /\ ~(m <= m - 1)
      BY <1>0, <1>5, <1>7
    <3> QED
      BY <1>4, <3>1
  <2>2. PICK h : Built(m - 1, h)
    BY <2>1
  <2> DEFINE g == [i \in 0..m |-> IF i < m THEN h[i] ELSE G[m][h[m - 1]]]
  <2>3. h[m - 1] \in X /\ G[m][h[m - 1]] \in X
    <3>1. h \in [0..(m - 1) -> X] /\ m - 1 \in 0..(m - 1)
      BY <2>1, <2>2
    <3>2. G[m] \in [X -> X]
      BY <1>0, <2>1
    <3> QED
      BY <3>1, <3>2
  <2>4. g \in [0..m -> X]
    <3>1. \A i \in 0..m : i < m => i \in 0..(m - 1)
      BY <2>1
    <3> QED
      BY <2>2, <2>3, <3>1
  <2>5. g[0] = x0 /\ g[m] = G[m][g[m - 1]]
    BY <1>7, <2>1, <2>2
  <2>6. ASSUME NEW i \in 1..(m - 1) PROVE g[i] = G[i][g[i - 1]]
    <3>1. h[i] = G[i][h[i - 1]] /\ i \in 0..m /\ i - 1 \in 0..m /\ i < m /\ i - 1 < m
      BY <2>1, <2>2
    <3> QED
      BY <3>1
  <2>7. \A i \in 1..m : i = m \/ i \in 1..(m - 1)
    BY <2>1
  <2> HIDE DEF g
  <2>8. Built(m, g)
    BY <2>4, <2>5, <2>6, <2>7
  <2> QED
    BY <1>5, <2>8
<1> QED
  BY <1>5, <1>6, <1>7

-----------------------------------------------------------------------------
\* The canonical order.

\* Ranges are numbers.
Placed(E) == \A o \in E : o.tag \in Nat /\ o.start \in Nat /\ o.end \in Nat

\* Some operation comes first.
LEMMA FirstOperation ==
  ASSUME NEW E, Placed(E), E # {}
  PROVE  \E o \in E : \A l \in E : ~Precedes(l, o)
<1>1. PICK t \in {o.tag : o \in E} : \A k \in {o.tag : o \in E} : t <= k
  <2>1. {o.tag : o \in E} \in SUBSET Nat /\ {o.tag : o \in E} # {}
    BY DEF Placed
  <2> QED
    BY <2>1, Least
<1> DEFINE A == {o \in E : o.tag = t}
<1>2. PICK s \in {o.start : o \in A} : \A k \in {o.start : o \in A} : s <= k
  <2>1. {o.start : o \in A} \in SUBSET Nat /\ {o.start : o \in A} # {}
    BY <1>1 DEF Placed
  <2> QED
    BY <2>1, Least
<1> DEFINE B == {o \in A : o.start = s}
<1>3. PICK e \in {o.end : o \in B} : \A k \in {o.end : o \in B} : e <= k
  <2>1. {o.end : o \in B} \in SUBSET Nat /\ {o.end : o \in B} # {}
    BY <1>2 DEF Placed
  <2> QED
    BY <2>1, Least
<1>4. PICK o \in E : o.tag = t /\ o.start = s /\ o.end = e
  BY <1>3
<1>5. ASSUME NEW l \in E PROVE ~Precedes(l, o)
  <2>1. t <= l.tag /\ (l.tag = t => s <= l.start) /\ (l.tag = t /\ l.start = s => e <= l.end)
    BY <1>1, <1>2, <1>3
  <2> QED
    BY <1>4, <2>1 DEF Precedes, Placed
<1> QED
  BY <1>5

\* The operations in canonical order, each once.
Ordering(E, n, ordered) ==
  /\ ordered \in [1..n -> E]
  /\ \A i, j \in 1..n : i < j => ordered[i] # ordered[j] /\ ~Precedes(ordered[j], ordered[i])

\* A set has such an order: its first operation, then an order of the others.
LEMMA OrderingExists ==
  ASSUME NEW E, Placed(E), IsFiniteSet(E)
  PROVE  \E ordered : Ordering(E, Cardinality(E), ordered)
<1> DEFINE T == {n \in Nat : \E F \in SUBSET E : IsFiniteSet(F) /\ Cardinality(F) = n /\ ~\E f : Ordering(F, n, f)}
<1>1. SUFFICES T = {}
  <2>1. Cardinality(E) \in Nat
    BY FS_CardinalityType
  <2> QED
    BY <1>1, <2>1
<1>2. SUFFICES ASSUME T # {} PROVE FALSE
  OBVIOUS
<1>3. PICK n \in T : \A k \in T : n <= k
  BY <1>2, Least
<1>4. PICK F \in SUBSET E : IsFiniteSet(F) /\ Cardinality(F) = n /\ ~\E f : Ordering(F, n, f)
  BY <1>3
<1>5. n \in Nat
  BY <1>3
<1>6. CASE F = {}
  <2>1. n = 0
    BY <1>4, <1>6, FS_EmptySet
  <2>2. Ordering({}, 0, [i \in {} |-> {}])
    BY DEF Ordering
  <2> QED
    BY <1>4, <1>6, <2>1, <2>2
<1>7. CASE F # {}
  <2>1. PICK o \in F : \A l \in F : ~Precedes(l, o)
    <3>1. Placed(F)
      BY DEF Placed
    <3> QED
      BY <1>7, <3>1, FirstOperation
  <2>2. IsFiniteSet(F \ {o}) /\ Cardinality(F \ {o}) = n - 1
    BY <1>4, FS_RemoveElement
  <2>3. n - 1 \in Nat /\ n >= 1
    BY <1>5, <2>2, FS_CardinalityType
  <2>4. n - 1 \notin T
    BY <1>3, <1>5
  <2>5. PICK f : Ordering(F \ {o}, n - 1, f)
    BY <2>2, <2>3, <2>4
  <2> DEFINE g == [i \in 1..n |-> IF i = 1 THEN o ELSE f[i - 1]]
  <2>6. \A i \in 1..n : i # 1 => i - 1 \in 1..(n - 1) /\ f[i - 1] \in F \ {o} /\ g[i] = f[i - 1]
    BY <1>5, <2>3, <2>5 DEF Ordering
  <2>7. g \in [1..n -> F] /\ (1 \in 1..n => g[1] = o)
    BY <2>6
  <2> HIDE DEF g
  <2>8. ASSUME NEW i \in 1..n, NEW j \in 1..n, i < j PROVE g[i] # g[j] /\ ~Precedes(g[j], g[i])
    <3>1. j # 1 /\ g[j] \in F \ {o}
      BY <1>5, <2>6, <2>8
    <3>2. CASE i = 1
      BY <2>1, <2>7, <3>1, <3>2
    <3>3. CASE i # 1
      <4>1. i - 1 < j - 1
        BY <1>5, <2>8
      <4> QED
        BY <2>5, <2>6, <3>1, <3>3, <4>1 DEF Ordering
    <3> QED
      BY <3>2, <3>3
  <2>9. Ordering(F, n, g)
    BY <2>7, <2>8 DEF Ordering
  <2> QED
    BY <1>4, <2>9
<1> QED
  BY <1>6, <1>7

\* What OperationsOn gives is one.
Enumerates(E, on) ==
  /\ IsFiniteSet(E) /\ Placed(E) /\ Ordering(E, Cardinality(E), on)
  /\ \A o \in E : \E i \in 1..Cardinality(E) : on[i] = o

LEMMA OperationsOnIs ==
  ASSUME NEW asked, IsFiniteSet(asked), Placed(asked), NEW path
  PROVE  Enumerates({o \in asked : o.path = path}, OperationsOn(asked, path))
<1> DEFINE E == {o \in asked : o.path = path}
           n == Cardinality(E)
           on == OperationsOn(asked, path)
<1>1. IsFiniteSet(E)
  <2>1. E \in SUBSET asked
    OBVIOUS
  <2> HIDE DEF E
  <2> QED
    BY <2>1, FS_Subset
<1>2. Placed(E)
  BY DEF Placed
<1>3. on = CHOOSE ordered \in [1..n -> E] :
             \A i, j \in 1..n : i < j => ordered[i] # ordered[j] /\ ~Precedes(ordered[j], ordered[i])
  BY Zenon DEF OperationsOn
<1> HIDE DEF E, n, on
<1>4. \E ordered \in [1..n -> E] :
             \A i, j \in 1..n : i < j => ordered[i] # ordered[j] /\ ~Precedes(ordered[j], ordered[i])
  BY <1>1, <1>2, OrderingExists DEF Ordering, n
<1>5. Ordering(E, n, on)
  BY <1>3, <1>4 DEF Ordering
<1>6. n \in Nat
  BY <1>1, FS_CardinalityType DEF n
<1>7. on \in Injection(1..n, E)
  <2>1. \A i, j \in 1..n : i # j => i < j \/ j < i
    BY <1>6
  <2> QED
    BY <1>5, <2>1 DEF Ordering, Injection, IsInjective
<1>8. Cardinality(1..n) = n
  BY <1>6, FS_Interval
<1>9. on \in Surjection(1..n, E)
  BY <1>1, <1>7, <1>8, FS_Injection DEF n
<1>10. \A o \in E : \E i \in 1..n : on[i] = o
  BY <1>9 DEF Surjection
<1> QED
  BY <1>1, <1>2, <1>5, <1>10 DEF E, n, on, Enumerates

-----------------------------------------------------------------------------
\* What an edit leaves.

\* Operations in order that do not conflict come one after the other.
Apart(E, n, on) ==
  /\ on \in [1..n -> E] /\ \A o \in E : \E i \in 1..n : on[i] = o
  /\ \A o \in E : o.start \in Nat /\ o.end \in Nat /\ o.start < o.end
  /\ \A i, j \in 1..n : i < j => on[i].end <= on[j].start

LEMMA ApartIs ==
  ASSUME NEW E, NEW n \in Nat, NEW on, Ordering(E, n, on), Placed(E), ~Conflict(on),
         \A o \in E : ValidRange(o) /\ o.tag = 1, \A o \in E : \E i \in 1..n : on[i] = o
  PROVE  Apart(E, n, on)
<1>1. on \in [1..n -> E] /\ DOMAIN on = 1..n
  BY DEF Ordering
<1>2. \A o \in E : o.start \in Nat /\ o.end \in Nat /\ o.start < o.end
  BY DEF Placed, ValidRange
<1>3. ASSUME NEW i \in 1..n, i > 1 PROVE on[i - 1].end <= on[i].start
  <2>1. i - 1 \in 1..n /\ i - 1 < i
    BY <1>3
  <2>2. ~Overlap(on[i - 1], on[i])
    BY <1>1, <1>3 DEF Conflict
  <2>3. ~Precedes(on[i], on[i - 1])
    BY <2>1 DEF Ordering
  <2>4. on[i - 1] \in E /\ on[i] \in E
    BY <1>1, <2>1
  <2>5. on[i - 1].start <= on[i].start
    BY <1>2, <2>3, <2>4 DEF Precedes
  <2> QED
    BY <1>2, <2>2, <2>4, <2>5 DEF Overlap
<1>4. ASSUME NEW i \in 1..n, NEW j \in 1..n, i < j PROVE on[i].end <= on[j].start
  <2> DEFINE T == {k \in (i + 1)..n : ~(on[i].end <= on[k].start)}
  <2>1. T \in SUBSET Nat
    OBVIOUS
  <2>2. SUFFICES ASSUME T # {} PROVE FALSE
    BY <1>4
  <2>3. PICK k \in T : \A l \in T : k <= l
    BY <2>1, <2>2, Least
  <2>4. k \in 1..n /\ k > 1 /\ k - 1 \in 1..n /\ k \in (i + 1)..n
    BY <2>3
  <2>5. on[k - 1].end <= on[k].start
    BY <1>3, <2>4
  <2>6. k # i + 1
    BY <2>3, <2>5
  <2>7. k - 1 \in (i + 1)..n /\ ~(k <= k - 1)
    BY <2>4, <2>6
  <2>8. on[i].end <= on[k - 1].start
    BY <2>3, <2>7
  <2>9. on[i] \in E /\ on[k - 1] \in E /\ on[k] \in E
    BY <1>1, <2>4
  <2> QED
    BY <1>2, <2>3, <2>5, <2>8, <2>9
<1> QED
  BY <1>1, <1>2, <1>4 DEF Apart

\* With this name for t \in Seq(B) the provers take a sequence as it is.
Word(B, t) == t \in Seq(B)

LEMMA Associative ==
  \A B, t, u, v : Word(B, t) /\ Word(B, u) /\ Word(B, v) => (t \o u) \o v = t \o (u \o v)
BY ConcatAssociative DEF Word

\* A byte is put after those before it.
Splices(t, all, a, b) ==
  (t \o SubSeq(all, a + 1, b - 1)) \o <<all[b]>> = t \o SubSeq(all, a + 1, b)

LEMMA Spliced ==
  \A B, t, all, a, b :
    Word(B, t) /\ Word(B, all) /\ a \in Nat /\ b \in 1..Len(all) /\ a < b => Splices(t, all, a, b)
<1> SUFFICES ASSUME NEW B, NEW t \in Seq(B), NEW all \in Seq(B), NEW a \in Nat, NEW b \in 1..Len(all), a < b
             PROVE  (t \o SubSeq(all, a + 1, b - 1)) \o <<all[b]>> = t \o SubSeq(all, a + 1, b)
  BY DEF Word, Splices
<1>1. a + 1 \in 1..Len(all) /\ b \in (a + 1)..Len(all) /\ b - 1 \in Int
  OBVIOUS
<1>2. SubSeq(all, a + 1, b) = SubSeq(all, a + 1, b - 1) \o <<all[b]>>
  BY <1>1, SubSeqRecursiveSecond
<1>3. SubSeq(all, a + 1, b - 1) \in Seq(B)
  <2>1. \A i \in (a + 1)..(b - 1) : all[i] \in B
    OBVIOUS
  <2> QED
    BY <1>1, <2>1, SubSeqProperties
<1>4. <<all[b]>> \in Seq(B)
  OBVIOUS
<1>5. PICK u \in Seq(B), v \in Seq(B) : u = SubSeq(all, a + 1, b - 1) /\ v = <<all[b]>>
  BY <1>3, <1>4
<1>6. (t \o u) \o v = t \o (u \o v)
  <2>1. Word(B, t) /\ Word(B, u) /\ Word(B, v)
    BY DEF Word
  <2> QED
    BY <2>1, Associative
<1> QED
  BY <1>2, <1>5, <1>6

\* What is left of the first bytes.
Continues(left, all, E, i, j) == left[i] = left[j] \o Piece(all, E, i)

Leaves(B, all, E, left) ==
  /\ \A i \in 0..(Len(all) + 1) : Word(B, left[i])
  /\ left[0] = <<>>
  /\ \A i \in 1..(Len(all) + 1) : Continues(left, all, E, i, i - 1)

Bytes(B, all, E) == all \in Seq(B) /\ \A o \in E : o.bytes \in Seq(B)

LEMMA PieceIs ==
  ASSUME NEW B, NEW all, NEW E, Bytes(B, all, E), NEW i \in 1..(Len(all) + 1)
  PROVE  Piece(all, E, i) \in Seq(B)
<1>1. all \in Seq(B)
  BY DEF Bytes
<1>2. (IF From(E, i) = {} THEN <<>> ELSE (CHOOSE o \in From(E, i) : TRUE).bytes) \in Seq(B)
  <2>1. From(E, i) # {} => (CHOOSE o \in From(E, i) : TRUE) \in From(E, i)
    OBVIOUS
  <2>2. \A o \in From(E, i) : o.bytes \in Seq(B)
    BY DEF From, Bytes
  <2>3. <<>> \in Seq(B)
    OBVIOUS
  <2> QED
    BY <2>1, <2>2, <2>3
<1>3. (IF i > Len(all) \/ Inside(E, i) THEN <<>> ELSE <<all[i]>>) \in Seq(B)
  <2>1. i <= Len(all) => all[i] \in B
    BY <1>1
  <2>2. i <= Len(all) => <<all[i]>> \in Seq(B)
    BY <2>1
  <2>3. <<>> \in Seq(B) /\ (i > Len(all) \/ i <= Len(all))
    BY <1>1
  <2> QED
    BY <2>2, <2>3
<1> QED
  BY <1>2, <1>3, ConcatProperties, Zenon DEF Piece

\* Edited is what is left of all bytes, and after all.
LEMMA EditedIs ==
  ASSUME NEW B, NEW all, NEW E, Bytes(B, all, E)
  PROVE  \E left : Leaves(B, all, E, left) /\ Edited(all, E) = left[Len(all) + 1]
<1> DEFINE n == Len(all) + 1
           Recurs(left) == left = [i \in 0..n |-> IF i = 0 THEN <<>> ELSE left[i - 1] \o Piece(all, E, i)]
           G == [i \in 1..n |-> [x \in Seq(B) |-> x \o Piece(all, E, i)]]
<1>1. all \in Seq(B) /\ n \in Nat
  BY DEF Bytes
<1>2. Edited(all, E) = (CHOOSE left : Recurs(left))[n]
  BY DEF Edited
<1>3. G \in [1..n -> [Seq(B) -> Seq(B)]]
  <2>1. \A i \in 1..n : Piece(all, E, i) \in Seq(B)
    BY PieceIs
  <2>2. \A i \in 1..n : \A x \in Seq(B) : x \o Piece(all, E, i) \in Seq(B)
    BY <2>1, ConcatProperties
  <2> QED
    BY <2>2
<1>4. <<>> \in Seq(B)
  OBVIOUS
<1>5. PICK h \in [0..n -> Seq(B)] : h[0] = <<>> /\ \A i \in 1..n : h[i] = G[i][h[i - 1]]
  <2> HIDE DEF n, G
  <2>1. Stepwise(Seq(B), n, <<>>, G)
    BY <1>1, <1>3, <1>4, Zenon DEF Stepwise
  <2>2. \E h : Stepped(Seq(B), n, <<>>, G, h)
    BY <2>1, StepsAre, Zenon
  <2> QED
    BY <2>2, Zenon DEF Stepped
<1>6. ASSUME NEW i \in 1..n PROVE h[i] = h[i - 1] \o Piece(all, E, i)
  <2>1. i - 1 \in 0..n
    BY <1>1
  <2>2. h[i - 1] \in Seq(B)
    BY <1>5, <2>1
  <2>3. h[i] = G[i][h[i - 1]]
    BY <1>5
  <2> QED
    BY <2>2, <2>3
<1>7. Recurs(h)
  <2>1. \A i \in 0..n : i # 0 => i \in 1..n
    BY <1>1
  <2> HIDE DEF n
  <2>2. \A i \in 0..n : h[i] = IF i = 0 THEN <<>> ELSE h[i - 1] \o Piece(all, E, i)
    BY <1>5, <1>6, <2>1
  <2> QED
    BY <1>5, <2>2
<1> DEFINE left == CHOOSE l : Recurs(l)
<1>8. Recurs(left)
  BY <1>7, Zenon
<1>9. ASSUME NEW i \in 0..n PROVE left[i] = IF i = 0 THEN <<>> ELSE left[i - 1] \o Piece(all, E, i)
  <2> HIDE DEF left, n
  <2> QED
    BY <1>8, Zenon
<1>10. \A i \in 0..n : left[i] = h[i]
  <2> DEFINE T == {i \in 0..n : left[i] # h[i]}
  <2> HIDE DEF left
  <2>1. SUFFICES ASSUME T # {} PROVE FALSE
    OBVIOUS
  <2>2. PICK i \in T : \A k \in T : i <= k
    <3>1. T \in SUBSET Nat
      OBVIOUS
    <3> QED
      BY <2>1, <3>1, Least
  <2>3. i # 0
    BY <1>1, <1>5, <1>9, <2>2
  <2>4. i \in 1..n /\ i - 1 \in 0..n /\ ~(i <= i - 1)
    BY <1>1, <2>2, <2>3
  <2>5. left[i - 1] = h[i - 1]
    BY <2>2, <2>4
  <2> QED
    BY <1>6, <1>9, <2>2, <2>3, <2>4, <2>5
<1>11. Leaves(B, all, E, h) /\ Edited(all, E) = h[n]
  <2>1. n \in 0..n
    BY <1>1
  <2>2. left[n] = h[n]
    BY <1>10, <2>1
  <2>3. Leaves(B, all, E, h)
    BY <1>5, <1>6 DEF Leaves, Word, Continues
  <2> QED
    BY <1>2, <2>2, <2>3
<1> QED
  BY <1>11

\* A byte that is kept, one that is dropped, and one whose range begins.
LEMMA Pieces ==
  ASSUME NEW B, NEW all, NEW E, Bytes(B, all, E), NEW i \in Nat
  PROVE  /\ i \in 1..Len(all) /\ From(E, i) = {} /\ ~Inside(E, i) => Piece(all, E, i) = <<all[i]>>
         /\ From(E, i) = {} /\ (i > Len(all) \/ Inside(E, i)) => Piece(all, E, i) = <<>>
         /\ \A o \in E : From(E, i) = {o} /\ Inside(E, i) => Piece(all, E, i) = o.bytes
<1>1. all \in Seq(B) /\ Len(all) \in Nat
  BY DEF Bytes
<1>2. <<>> \o <<>> = <<>> /\ \A t \in Seq(B) : <<>> \o t = t /\ t \o <<>> = t
  BY ConcatEmptySeq
<1>3. ASSUME i \in 1..Len(all), From(E, i) = {}, ~Inside(E, i) PROVE Piece(all, E, i) = <<all[i]>>
  <2>1. ~(i > Len(all)) /\ <<all[i]>> \in Seq(B)
    BY <1>1, <1>3
  <2>2. Piece(all, E, i) = <<>> \o <<all[i]>>
    BY <1>3, <2>1, Zenon DEF Piece
  <2> QED
    BY <1>2, <2>1, <2>2
<1>4. ASSUME From(E, i) = {}, i > Len(all) \/ Inside(E, i) PROVE Piece(all, E, i) = <<>>
  <2>1. Piece(all, E, i) = <<>> \o <<>>
    BY <1>4, Zenon DEF Piece
  <2> QED
    BY <1>2, <2>1
<1>5. ASSUME NEW o \in E, From(E, i) = {o}, Inside(E, i) PROVE Piece(all, E, i) = o.bytes
  <2>1. From(E, i) # {} /\ (CHOOSE x \in From(E, i) : TRUE) = o
    BY <1>5
  <2>2. Piece(all, E, i) = o.bytes \o <<>>
    BY <1>5, <2>1, Zenon DEF Piece
  <2>3. o.bytes \in Seq(B)
    BY DEF Bytes
  <2> QED
    BY <1>2, <2>2, <2>3
<1> QED
  BY <1>3, <1>4, <1>5

\* Bytes that no operation touches are left.
Extends(left, all, a, b) == left[b] = left[a] \o SubSeq(all, a + 1, b)

LEMMA Kept ==
  ASSUME NEW B, NEW all, NEW E, NEW left, Bytes(B, all, E), Leaves(B, all, E, left),
         NEW a \in Nat, NEW b \in Nat, a <= b, b <= Len(all),
         \A i \in (a + 1)..b : From(E, i) = {} /\ ~Inside(E, i)
  PROVE  Extends(left, all, a, b)
<1> SUFFICES left[b] = left[a] \o SubSeq(all, a + 1, b)
  BY DEF Extends
<1>1. Word(B, all) /\ Len(all) \in Nat
  BY DEF Bytes, Word
<1> DEFINE R(c) == left[c] = left[a] \o SubSeq(all, a + 1, c)
           T == {c \in a..b : ~R(c)}
<1>2. SUFFICES ASSUME T # {} PROVE FALSE
  <2> HIDE DEF R
  <2>1. b \in T \/ R(b)
    OBVIOUS
  <2> QED
    BY <2>1 DEF R
<1>3. PICK c \in T : \A k \in T : c <= k
  <2> HIDE DEF R
  <2>1. T \in SUBSET Nat
    OBVIOUS
  <2> QED
    BY <1>2, <2>1, Least
<1>4. c \in a..b /\ left[c] # left[a] \o SubSeq(all, a + 1, c)
  BY <1>3, Zenon
<1>5. Word(B, left[a])
  BY <1>1 DEF Leaves
<1>6. c # a
  <2>1. SubSeq(all, a + 1, a) = <<>>
    BY <1>1, SubSeqEmpty DEF Word
  <2>2. left[a] \o <<>> = left[a]
    BY <1>5, ConcatEmptySeq DEF Word
  <2> QED
    BY <1>4, <2>1, <2>2
<1>7. c - 1 \in a..b /\ ~(c <= c - 1) /\ c \in (a + 1)..b /\ c \in 1..Len(all) /\ c \in 1..(Len(all) + 1) /\ a \in 0..Len(all) /\ a < c
  BY <1>1, <1>4, <1>6
<1>8. left[c - 1] = left[a] \o SubSeq(all, a + 1, c - 1)
  BY <1>3, <1>7, Zenon
<1>9. Piece(all, E, c) = <<all[c]>>
  BY <1>7, Pieces
<1>10. left[c] = left[c - 1] \o <<all[c]>>
  BY <1>7, <1>9 DEF Leaves, Continues
<1>11. (left[a] \o SubSeq(all, a + 1, c - 1)) \o <<all[c]>> = left[a] \o SubSeq(all, a + 1, c)
  <2>1. Word(B, left[a]) /\ Word(B, all) /\ a \in Nat /\ c \in 1..Len(all) /\ a < c
    BY <1>1, <1>5, <1>7
  <2>2. Splices(left[a], all, a, c)
    BY <2>1, Spliced, Zenon
  <2> QED
    BY <2>2 DEF Splices
<1> QED
  BY <1>4, <1>8, <1>10, <1>11, Zenon

\* Nothing is left of the bytes inside a range.
LEMMA Dropped ==
  ASSUME NEW B, NEW all, NEW E, NEW left, Bytes(B, all, E), Leaves(B, all, E, left),
         NEW a \in Nat, NEW b \in Nat, a <= b, b <= Len(all) + 1,
         \A i \in (a + 1)..b : From(E, i) = {} /\ (i > Len(all) \/ Inside(E, i))
  PROVE  left[b] = left[a]
<1>1. Word(B, all) /\ Len(all) \in Nat
  BY DEF Bytes, Word
<1> DEFINE T == {c \in a..b : left[c] # left[a]}
<1>2. SUFFICES ASSUME T # {} PROVE FALSE
  OBVIOUS
<1>3. PICK c \in T : \A k \in T : c <= k
  <2>1. T \in SUBSET Nat
    OBVIOUS
  <2> QED
    BY <1>2, <2>1, Least
<1>4. c \in a..b /\ left[c] # left[a] /\ c # a
  BY <1>3
<1>5. Word(B, left[a])
  BY <1>1 DEF Leaves
<1>7. c - 1 \in a..b /\ ~(c <= c - 1) /\ c \in (a + 1)..b /\ c \in 1..(Len(all) + 1)
  BY <1>1, <1>4
<1>8. left[c - 1] = left[a]
  BY <1>3, <1>7
<1>9. Piece(all, E, c) = <<>>
  BY <1>7, Pieces
<1>10. left[c] = left[a] \o <<>>
  BY <1>7, <1>8, <1>9 DEF Leaves, Continues
<1>11. left[a] \o <<>> = left[a]
  BY <1>5, ConcatEmptySeq DEF Word
<1> QED
  BY <1>4, <1>10, <1>11

\* Between two ranges nothing is touched, and in a range nothing else is.
LEMMA Touched ==
  ASSUME NEW E, NEW n \in Nat, NEW on, Apart(E, n, on), NEW N \in Nat, \A o \in E : o.end <= N
  PROVE  /\ \A k \in 0..n : Cursor(on, k) \in 0..N
         /\ \A k \in 1..n : Cursor(on, k - 1) <= on[k].start /\ on[k].start \in Nat /\ on[k].end \in Nat /\ on[k].start < on[k].end
         /\ \A k \in 1..n : \A i \in (Cursor(on, k - 1) + 1)..on[k].start : From(E, i) = {} /\ ~Inside(E, i)
         /\ \A i \in (Cursor(on, n) + 1)..N : From(E, i) = {} /\ ~Inside(E, i)
         /\ \A k \in 1..n : From(E, on[k].start + 1) = {on[k]} /\ Inside(E, on[k].start + 1)
         /\ \A k \in 1..n : \A i \in (on[k].start + 2)..on[k].end : From(E, i) = {} /\ Inside(E, i)
         /\ From(E, N + 1) = {}
<1>1. \A k \in 1..n : on[k] \in E /\ on[k].start \in Nat /\ on[k].end \in Nat /\ on[k].start < on[k].end /\ on[k].end <= N
  BY DEF Apart
<1>2. \A k, m \in 1..n : k < m => on[k].end <= on[m].start
  BY DEF Apart
<1>3. \A o \in E : \E k \in 1..n : o = on[k]
  BY DEF Apart
<1>4. \A k \in 0..n : Cursor(on, k) \in 0..N
  BY <1>1 DEF Cursor
<1>5. \A k \in 1..n : k - 1 \in 0..n /\ (k - 1 # 0 => k - 1 \in 1..n /\ k - 1 < k)
  OBVIOUS
<1>6. \A k \in 1..n : Cursor(on, k - 1) <= on[k].start
  BY <1>1, <1>2, <1>5 DEF Cursor
<1>7. ASSUME NEW k \in 0..n, NEW m \in 1..n, m <= k PROVE on[m].end <= Cursor(on, k)
  <2>1. k \in 1..n /\ Cursor(on, k) = on[k].end
    BY <1>7 DEF Cursor
  <2>2. CASE m = k
    BY <1>1, <2>1, <2>2
  <2>3. CASE m < k
    BY <1>1, <1>2, <2>1, <2>3
  <2> QED
    BY <1>7, <2>1, <2>2, <2>3
<1>8. ASSUME NEW k \in 1..n, NEW m \in 1..n, k <= m PROVE on[k].start <= on[m].start
  BY <1>1, <1>2, <1>8
<1>9. ASSUME NEW k \in 1..n, NEW i \in (Cursor(on, k - 1) + 1)..on[k].start
      PROVE  From(E, i) = {} /\ ~Inside(E, i)
  <2>1. i \in Nat /\ Cursor(on, k - 1) < i /\ i <= on[k].start
    BY <1>1, <1>4, <1>5
  <2>2. ASSUME NEW m \in 1..n PROVE on[m].start # i - 1 /\ ~(on[m].start < i /\ i <= on[m].end)
    <3>1. CASE m <= k - 1
      <4>1. on[m].end <= Cursor(on, k - 1)
        BY <1>5, <1>7, <3>1
      <4> QED
        BY <1>1, <1>4, <1>5, <2>1, <4>1
    <3>2. CASE k <= m
      BY <1>1, <1>8, <2>1, <3>2
    <3> QED
      BY <3>1, <3>2
  <2> QED
    BY <1>3, <2>2 DEF From, Inside
<1>10. ASSUME NEW i \in (Cursor(on, n) + 1)..N PROVE From(E, i) = {} /\ ~Inside(E, i)
  <2>1. i \in Nat /\ Cursor(on, n) < i /\ n \in 0..n
    BY <1>4
  <2>2. ASSUME NEW m \in 1..n PROVE on[m].start # i - 1 /\ ~(on[m].start < i /\ i <= on[m].end)
    <3>1. on[m].end <= Cursor(on, n)
      BY <1>7, <2>1
    <3> QED
      BY <1>1, <1>4, <2>1, <3>1
  <2> QED
    BY <1>3, <2>2 DEF From, Inside
<1>11. ASSUME NEW k \in 1..n PROVE From(E, on[k].start + 1) = {on[k]} /\ Inside(E, on[k].start + 1)
  <2>1. \A m \in 1..n : on[m].start = on[k].start => m = k
    BY <1>1, <1>2
  <2>2. on[k].start + 1 - 1 = on[k].start /\ on[k].start < on[k].start + 1 /\ on[k].start + 1 <= on[k].end
    BY <1>1
  <2>3. From(E, on[k].start + 1) = {on[k]}
    BY <1>1, <1>3, <2>1, <2>2 DEF From
  <2> QED
    BY <1>1, <2>2, <2>3 DEF Inside
<1>12. ASSUME NEW k \in 1..n, NEW i \in (on[k].start + 2)..on[k].end PROVE From(E, i) = {} /\ Inside(E, i)
  <2>1. on[k].start < i /\ i <= on[k].end /\ i \in Nat
    BY <1>1
  <2>2. ASSUME NEW m \in 1..n PROVE on[m].start # i - 1
    <3>1. CASE m < k
      BY <1>1, <1>2, <3>1
    <3>2. CASE m = k
      BY <1>1, <3>2
    <3>3. CASE k < m
      BY <1>1, <1>2, <2>1, <3>3
    <3> QED
      BY <3>1, <3>2, <3>3
  <2> QED
    BY <1>1, <1>3, <2>1, <2>2 DEF From, Inside
<1>13. From(E, N + 1) = {}
  BY <1>1, <1>3 DEF From
<1> QED
  BY <1>1, <1>4, <1>6, <1>9, <1>10, <1>11, <1>12, <1>13

Appends(t, u, v, w) == t = u \o v \o w

\* Applying the replacements from cursor to cursor leaves what the byte-wise definition
\* leaves: after i operations the one has what the other has at the cursor.
LEMMA EditsLeave ==
  ASSUME NEW B, NEW all, NEW E, NEW n \in Nat, NEW on, Bytes(B, all, E), Apart(E, n, on),
         \A o \in E : o.end <= Len(all)
  PROVE  ApplyReplacements(all, on) = Edited(all, E)
<1> DEFINE N == Len(all)
<1>1. N \in Nat
  BY DEF Bytes
<1>2. PICK left : Leaves(B, all, E, left) /\ Edited(all, E) = left[N + 1]
  BY EditedIs
<1>3. Len(on) = n
  <2>1. DOMAIN on = 1..n /\ on \in Seq(E)
    BY DEF Apart
  <2> QED
    BY <2>1
<1> HIDE DEF N
<1>4. /\ \A k \in 0..n : Cursor(on, k) \in 0..N
      /\ \A k \in 1..n : Cursor(on, k - 1) <= on[k].start /\ on[k].start \in Nat /\ on[k].end \in Nat /\ on[k].start < on[k].end
      /\ \A k \in 1..n : \A i \in (Cursor(on, k - 1) + 1)..on[k].start : From(E, i) = {} /\ ~Inside(E, i)
      /\ \A i \in (Cursor(on, n) + 1)..N : From(E, i) = {} /\ ~Inside(E, i)
      /\ \A k \in 1..n : From(E, on[k].start + 1) = {on[k]} /\ Inside(E, on[k].start + 1)
      /\ \A k \in 1..n : \A i \in (on[k].start + 2)..on[k].end : From(E, i) = {} /\ Inside(E, i)
      /\ From(E, N + 1) = {}
  <2>1. \A o \in E : o.end <= N
    BY DEF N
  <2> QED
    BY <1>1, <2>1, Touched
<1>5. \A k \in 1..n : on[k] \in E /\ on[k].end <= N
  BY DEF Apart, N
<1>6. ASSUME NEW k \in 1..n
      PROVE  Appends(left[Cursor(on, k)], left[Cursor(on, k - 1)], SubSeq(all, Cursor(on, k - 1) + 1, on[k].start), on[k].bytes)
  <2> DEFINE a == Cursor(on, k - 1)
             s == on[k].start
             e == on[k].end
  <2>1. a \in Nat /\ s \in Nat /\ e \in Nat /\ a <= s /\ s < e /\ e <= N /\ Cursor(on, k) = e
    <3>1. k - 1 \in 0..n /\ k # 0
      OBVIOUS
    <3> QED
      BY <1>4, <1>5, <3>1 DEF Cursor
  <2>2. \A i \in (a + 1)..s : From(E, i) = {} /\ ~Inside(E, i)
    BY <1>4
  <2>3. From(E, s + 1) = {on[k]} /\ Inside(E, s + 1) /\ on[k] \in E
    BY <1>4, <1>5
  <2>4. \A i \in (s + 1 + 1)..e : From(E, i) = {} /\ Inside(E, i)
    <3>1. s + 1 + 1 = s + 2
      BY <2>1
    <3> QED
      BY <1>4, <3>1
  <2> HIDE DEF a, s, e
  <2>5. left[s] = left[a] \o SubSeq(all, a + 1, s)
    <3>1. s <= Len(all)
      BY <1>1, <2>1 DEF N
    <3> QED
      <4>1. Extends(left, all, a, s)
        BY <1>2, <2>1, <2>2, <3>1, Kept
      <4> QED
        BY <4>1 DEF Extends
  <2>6. left[s + 1] = left[s] \o on[k].bytes
    <3>1. s + 1 \in Nat /\ s + 1 \in 1..(Len(all) + 1) /\ (s + 1) - 1 = s
      BY <1>1, <2>1 DEF N
    <3>2. Piece(all, E, s + 1) = on[k].bytes
      BY <2>3, <3>1, Pieces
    <3>3. Continues(left, all, E, s + 1, (s + 1) - 1)
      BY <1>2, <3>1, Zenon DEF Leaves
    <3>4. Continues(left, all, E, s + 1, s)
      BY <3>1, <3>3, Zenon
    <3> QED
      BY <3>2, <3>4 DEF Continues
  <2>7. left[e] = left[s + 1]
    <3>1. s + 1 \in Nat /\ s + 1 <= e /\ e <= Len(all) + 1
      BY <1>1, <2>1 DEF N
    <3> QED
      BY <1>2, <2>1, <2>4, <3>1, Dropped
  <2>8. Appends(left[e], left[a], SubSeq(all, a + 1, s), on[k].bytes)
    BY <2>5, <2>6, <2>7 DEF Appends
  <2> QED
    BY <2>1, <2>8 DEF a, s
<1>7. left[N + 1] = left[Cursor(on, n)] \o SubSeq(all, Cursor(on, n) + 1, N)
  <2>1. Cursor(on, n) \in Nat /\ Cursor(on, n) <= N
    <3>1. n \in 0..n
      OBVIOUS
    <3> QED
      BY <1>1, <1>4, <3>1
  <2>2. left[N] = left[Cursor(on, n)] \o SubSeq(all, Cursor(on, n) + 1, N)
    <3>1. Extends(left, all, Cursor(on, n), N)
      <4>1. N \in Nat /\ N = Len(all) /\ N <= Len(all)
        BY <1>1 DEF N
      <4>2. \A i \in (Cursor(on, n) + 1)..N : From(E, i) = {} /\ ~Inside(E, i)
        BY <1>4
      <4>3. Leaves(B, all, E, left)
        BY <1>2
      <4> QED
        BY <2>1, <4>1, <4>2, <4>3, Kept
    <3> QED
      BY <3>1 DEF Extends
  <2>3. left[N + 1] = left[N]
    <3>1. \A i \in (N + 1)..(N + 1) : From(E, i) = {} /\ (i > N \/ Inside(E, i))
      BY <1>1, <1>4
    <3> QED
      BY <1>1, <1>2, <3>1, Dropped DEF N
  <2> QED
    BY <2>2, <2>3
<1> DEFINE Recurs(f) == f = [i \in 0..Len(on) |->
             IF i = 0 THEN <<>>
             ELSE f[i - 1] \o SubSeq(all, Cursor(on, i - 1) + 1, on[i].start) \o on[i].bytes]
           h == [i \in 0..n |-> left[Cursor(on, i)]]
<1>8. ApplyReplacements(all, on) =
        (CHOOSE f : Recurs(f))[Len(on)] \o SubSeq(all, Cursor(on, Len(on)) + 1, Len(all))
  BY DEF ApplyReplacements
<1>9. h[0] = <<>>
  BY <1>2 DEF Cursor, Leaves
<1>10. ASSUME NEW i \in 1..n
       PROVE  Appends(h[i], h[i - 1], SubSeq(all, Cursor(on, i - 1) + 1, on[i].start), on[i].bytes)
  <2>1. i \in 0..n /\ i - 1 \in 0..n
    OBVIOUS
  <2> QED
    BY <1>6, <2>1
<1>11. Recurs(h)
  <2> HIDE DEF h
  <2>1. \A i \in 0..n : i # 0 => i \in 1..n
    OBVIOUS
  <2>2. \A i \in 0..n : h[i] = IF i = 0 THEN <<>>
             ELSE h[i - 1] \o SubSeq(all, Cursor(on, i - 1) + 1, on[i].start) \o on[i].bytes
    BY <1>9, <1>10, <2>1 DEF Appends
  <2>3. h = [i \in 0..n |-> h[i]]
    BY DEF h
  <2> QED
    BY <1>3, <2>2, <2>3
<1> DEFINE f == CHOOSE g : Recurs(g)
<1>12. Recurs(f)
  BY <1>11, Zenon
<1>13. ASSUME NEW i \in 0..n
       PROVE  f[i] = IF i = 0 THEN <<>>
                     ELSE f[i - 1] \o SubSeq(all, Cursor(on, i - 1) + 1, on[i].start) \o on[i].bytes
  <2> HIDE DEF f
  <2> QED
    BY <1>3, <1>12, Zenon
<1>14. f[n] = h[n]
  <2> DEFINE T == {i \in 0..n : f[i] # h[i]}
  <2> HIDE DEF f, h
  <2>1. SUFFICES ASSUME T # {} PROVE FALSE
    OBVIOUS
  <2>2. PICK i \in T : \A k \in T : i <= k
    <3>1. T \in SUBSET Nat
      OBVIOUS
    <3> QED
      BY <2>1, <3>1, Least
  <2>3. i # 0
    BY <1>9, <1>13, <2>2
  <2>4. i \in 1..n /\ i - 1 \in 0..n /\ ~(i <= i - 1)
    BY <2>2, <2>3
  <2>5. f[i - 1] = h[i - 1]
    BY <2>2, <2>4
  <2>6. Appends(h[i], h[i - 1], SubSeq(all, Cursor(on, i - 1) + 1, on[i].start), on[i].bytes)
    BY <1>10, <2>4
  <2> QED
    BY <1>13, <2>2, <2>3, <2>5, <2>6 DEF Appends
<1>15. h[n] = left[Cursor(on, n)]
  OBVIOUS
<1> HIDE DEF h, f
<1>16. ApplyReplacements(all, on) = f[n] \o SubSeq(all, Cursor(on, n) + 1, N)
  BY <1>3, <1>8, Zenon DEF f, N
<1> QED
  BY <1>2, <1>7, <1>14, <1>15, <1>16

-----------------------------------------------------------------------------
\* A snapshot is of files: the invariant.

File == [version : Nat, length : Nat, mask : {0, 1}]

\* Newer writes have newer versions, and a version has one length.
Trees ==
  /\ changes \in Nat
  /\ tree \in [Path -> File] /\ past \in [Path -> SUBSET File]
  /\ \A path \in Path :
       /\ tree[path] \in past[path]
       /\ \E v \in {f.version : f \in past[path]} : \A f \in past[path] : f.version <= v
       /\ \A f \in past[path] : f # Missing => f.version # 0
       /\ \A f, g \in past[path] : f.version = g.version => f.length = g.length

\* As long as the file at hand is the version that was stamped, what was read is its.
ReadSoFar == [i \in 1..Len(bytes) |-> <<before.version, i>>]
Reading ==
  /\ inventory \subseteq Path /\ found \subseteq Path
  /\ bytes \in Seq(Nat \X Nat)
  /\ step \in {"read", "restamp"} =>
       /\ inventory # {} /\ before \in past[At] /\ before # Missing
       /\ tree[At].version = before.version => bytes = ReadSoFar
  /\ step \notin {"read", "restamp"} => bytes = <<>>

\* The three parts of SnapshotOfFiles, the last for every step of the capture.
WholeFiles ==
  \A path \in DOMAIN files :
    /\ path \in Path
    /\ \E f \in past[path] : f # Missing /\ files[path] = [bytes |-> Contents(f), mask |-> f.mask]

Stayed(path) == path \in Path \ Excluded /\ Missing \notin past[path]

NoneLeftOut ==
  \A path \in Path : Stayed(path) =>
    /\ step = "scan" /\ path \in looked => path \in found
    /\ step \in {"stamp", "read", "restamp"} => path \in inventory \cup DOMAIN files
    /\ step \in {"rescan", "captured", "cut"} => path \in DOMAIN files

Cutting ==
  /\ step # "cut" => DOMAIN result = {}
  /\ \A path \in DOMAIN result :
       /\ path \in DOMAIN files /\ result[path].mask = files[path].mask
       /\ result[path].bytes = Edited(files[path].bytes, {o \in operations : o.path = path})

SInv == Trees /\ Reading /\ WholeFiles /\ NoneLeftOut /\ Cutting

LEMMA MissingIsFile == Missing \in File /\ Missing.version = 0
BY DEF Missing, File

LEMMA FirstOfInventory ==
  ASSUME inventory \subseteq Path, inventory # {}
  PROVE  At \in inventory /\ At \in Path
<1>1. inventory \in SUBSET Nat
  BY SnapshotAssumption
<1>2. \E path \in inventory : \A other \in inventory : path <= other
  BY <1>1, Least
<1> QED
  BY <1>2 DEF At

-----------------------------------------------------------------------------
\* The snapshot's steps.

LEMMA SnapshotInit == Init => SInv
<1> SUFFICES ASSUME Init PROVE SInv
  OBVIOUS
<1>1. InitSnapshot /\ changes \in Nat
  BY PublicationAssumption DEF Init, Request
<1>2. tree \in [Path -> File] /\ \A path \in Path : tree[path] = Missing \/ tree[path].version = 1
  BY <1>1, SnapshotAssumption, MissingIsFile DEF InitSnapshot, File
<1>3. past = [path \in Path |-> {tree[path]}]
  BY <1>1 DEF InitSnapshot
<1>4. Trees
  <2>1. past \in [Path -> SUBSET File]
    BY <1>2, <1>3
  <2>2. ASSUME NEW path \in Path
        PROVE  /\ tree[path] \in past[path]
               /\ \E v \in {f.version : f \in past[path]} : \A f \in past[path] : f.version <= v
               /\ \A f \in past[path] : f # Missing => f.version # 0
               /\ \A f, g \in past[path] : f.version = g.version => f.length = g.length
    <3>1. past[path] = {tree[path]} /\ tree[path].version \in Nat
      BY <1>2, <1>3 DEF File
    <3> QED
      BY <1>2, <3>1
  <2> QED
    BY <1>1, <1>2, <2>1, <2>2 DEF Trees
<1>5. Reading
  BY <1>1 DEF InitSnapshot, Reading
<1>6. WholeFiles /\ NoneLeftOut /\ Cutting
  BY <1>1 DEF InitSnapshot, NoFiles, WholeFiles, NoneLeftOut, Cutting, Stayed
<1> QED
  BY <1>4, <1>5, <1>6 DEF SInv

\* A step leaves the snapshot alone, or is one of these.
LEMMA SnapshotSteps == Next => Edit \/ Capture \/ UNCHANGED snapshotVars
<1> SUFFICES ASSUME Next PROVE Edit \/ Capture \/ UNCHANGED snapshotVars
  OBVIOUS
<1>1. CASE Step
  <2>1. CASE VerifyStep BY <2>1, Zenon DEF VerifyStep
  <2>2. CASE CaptureStep BY <2>2, Zenon DEF CaptureStep
  <2>3. CASE Look \/ CaptureEnds \/ BuildManifest \/ VerificationEnds \/ ExportVerified \/ CopyContext
    BY <2>3, Zenon DEF Look, CaptureEnds, BuildManifest, VerificationEnds, ExportVerified, CopyContext, Go
  <2>4. CASE WriteMember \/ AllWritten \/ CollectForManifest \/ BeginVerification
    BY <2>4, Zenon DEF WriteMember, AllWritten, CollectForManifest, BeginVerification
  <2>5. CASE BuilderWrites \/ BuilderEnds \/ ValidateArchive \/ LookAgain \/ Rename \/ Fail
    BY <2>5, Zenon DEF BuilderWrites, BuilderEnds, ValidateArchive, LookAgain, Rename, Fail, Go
  <2> QED
    BY <1>1, <2>1, <2>2, <2>3, <2>4, <2>5, Zenon DEF Step
<1>2. CASE Others
  BY <1>2, Zenon DEF Others, OthersEdit, OthersEditArtifact, OthersAtOutput, besideArtifact
<1>3. CASE Done
  BY <1>3, Zenon DEF Done, vars
<1> QED
  BY <1>1, <1>2, <1>3, Zenon DEF Next

\* What an edit does to one path.
Puts(path, file) ==
  /\ path \in Path /\ file \in File
  /\ changes \in Nat \ {0} /\ changes' = changes - 1
  /\ tree' = [tree EXCEPT ![path] = file]
  /\ past' = [past EXCEPT ![path] = @ \cup {file}]
  /\ UNCHANGED <<captureVars, operations, result>>

\* Whoever edits leaves nothing, the version that was there, or a version of his own.
LEMMA EditPuts ==
  ASSUME Trees, Edit
  PROVE  \E path \in Path, file \in File :
           /\ Puts(path, file)
           /\ \/ file = Missing
              \/ file.version = tree[path].version /\ file.length = tree[path].length /\ file # Missing /\ tree[path] # Missing
              \/ \A f \in past[path] : f.version < file.version
<1>1. PICK path \in Path : WriteFile(path) \/ Chmod(path) \/ RemoveFile(path)
  BY DEF Edit
<1>2. tree[path] \in File /\ past[path] \in SUBSET File
  BY DEF Trees
<1>3. ASSUME NEW file \in File, Put(path, file) PROVE Puts(path, file)
  BY <1>3 DEF Put, Puts, Trees
<1>4. CASE WriteFile(path)
  <2>1. PICK length \in 1..MaxLength :
          Put(path, [version |-> Latest(path) + 1, length |-> length, mask |-> tree[path].mask])
    BY <1>4 DEF WriteFile
  <2>2. \E v \in {f.version : f \in past[path]} : \A f \in past[path] : f.version <= v
    BY DEF Trees
  <2>3. Latest(path) \in {f.version : f \in past[path]} /\ \A f \in past[path] : f.version <= Latest(path)
    BY <2>2, Zenon DEF Latest
  <2> HIDE DEF Latest
  <2>4. Latest(path) \in Nat
    BY <1>2, <2>3 DEF File
  <2> DEFINE file == [version |-> Latest(path) + 1, length |-> length, mask |-> tree[path].mask]
  <2>5. file \in File /\ \A f \in past[path] : f.version < file.version
    BY <1>2, <2>3, <2>4, SnapshotAssumption DEF File
  <2> QED
    BY <1>3, <2>1, <2>5
<1>5. CASE Chmod(path)
  <2> DEFINE file == [tree[path] EXCEPT !.mask = 1 - @]
  <2>1. tree[path] # Missing /\ Put(path, file)
    BY <1>5 DEF Chmod, There
  <2>2. file \in File /\ file.version = tree[path].version /\ file.length = tree[path].length
    BY <1>2 DEF File
  <2>3. file # Missing
    <3>1. tree[path].version # 0
      BY <2>1 DEF Trees
    <3> QED
      BY <2>2, <3>1 DEF Missing
  <2> QED
    BY <1>3, <2>1, <2>2, <2>3
<1>6. CASE RemoveFile(path)
  BY <1>3, <1>6, MissingIsFile DEF RemoveFile
<1> QED
  BY <1>1, <1>4, <1>5, <1>6

LEMMA EditKeeps == SInv /\ Edit => SInv'
<1> SUFFICES ASSUME SInv, Edit PROVE SInv'
  OBVIOUS
<1>0. Trees /\ Reading /\ WholeFiles /\ NoneLeftOut /\ Cutting
  BY DEF SInv
<1>1. PICK path \in Path, file \in File :
           /\ Puts(path, file)
           /\ \/ file = Missing
              \/ file.version = tree[path].version /\ file.length = tree[path].length /\ file # Missing /\ tree[path] # Missing
              \/ \A f \in past[path] : f.version < file.version
  BY <1>0, EditPuts
<1>2. tree \in [Path -> File] /\ past \in [Path -> SUBSET File]
  BY <1>0 DEF Trees
<1>3. /\ changes' \in Nat
      /\ tree' = [tree EXCEPT ![path] = file] /\ past' = [past EXCEPT ![path] = @ \cup {file}]
      /\ UNCHANGED <<kind, step, found, looked, inventory, before, bytes, files, operations, result>>
  BY <1>1 DEF Puts, captureVars
<1>4. tree' \in [Path -> File] /\ past' \in [Path -> SUBSET File]
  BY <1>2, <1>3
<1>5. tree'[path] = file /\ past'[path] = past[path] \cup {file}
  BY <1>2, <1>3
<1>6. \A other \in Path : other # path => tree'[other] = tree[other] /\ past'[other] = past[other]
  BY <1>2, <1>3
<1>7. \A other \in Path : past[other] \subseteq past'[other]
  BY <1>5, <1>6
<1>8. Trees'
  <2>1. ASSUME NEW other \in Path
        PROVE  /\ tree'[other] \in past'[other]
               /\ \E v \in {f.version : f \in past'[other]} : \A f \in past'[other] : f.version <= v
               /\ \A f \in past'[other] : f # Missing => f.version # 0
               /\ \A f, g \in past'[other] : f.version = g.version => f.length = g.length
    <3>0. /\ tree[other] \in past[other]
          /\ \E v \in {f.version : f \in past[other]} : \A f \in past[other] : f.version <= v
          /\ \A f \in past[other] : f # Missing => f.version # 0
          /\ \A f, g \in past[other] : f.version = g.version => f.length = g.length
      BY <1>0 DEF Trees
    <3>1. CASE other # path
      BY <1>6, <3>0, <3>1
    <3>2. CASE other = path
      <4>1. tree[path] \in past[path] /\ past[path] \in SUBSET File
        BY <1>2, <3>0, <3>2
      <4>2. \A f \in past[path] : f.version \in Nat
        BY <4>1 DEF File
      <4>3. file.version \in Nat /\ Missing.version = 0 /\ Missing.length = 0
        BY DEF File, Missing
      <4>4. PICK v \in {f.version : f \in past[path]} : \A f \in past[path] : f.version <= v
        BY <3>0, <3>2
      <4>5. v \in Nat
        BY <4>2, <4>4
      <4>6. \E w \in {f.version : f \in past'[path]} : \A f \in past'[path] : f.version <= w
        <5>1. CASE file.version <= v
          <6>1. v \in {f.version : f \in past'[path]}
            BY <1>5, <4>4
          <6>2. \A f \in past'[path] : f.version <= v
            BY <1>5, <4>4, <5>1
          <6> QED
            BY <6>1, <6>2
        <5>2. CASE ~(file.version <= v)
          <6>1. file.version \in {f.version : f \in past'[path]}
            BY <1>5
          <6>2. \A f \in past[path] : f.version <= file.version
            BY <4>2, <4>3, <4>4, <4>5, <5>2
          <6>3. \A f \in past'[path] : f.version <= file.version
            BY <1>5, <4>3, <6>2
          <6> QED
            BY <6>1, <6>3
        <5> QED
          BY <5>1, <5>2
      <4>7. file # Missing => file.version # 0
        <5>1. tree[path] # Missing => tree[path].version # 0
          BY <3>0, <3>2
        <5>2. (\A f \in past[path] : f.version < file.version) => file.version # 0
          BY <4>1, <4>2, <4>3
        <5> QED
          BY <1>1, <5>1, <5>2
      <4>8. \A f \in past[path] : f.version = file.version => f.length = file.length
        <5>1. CASE file = Missing
          BY <3>0, <3>2, <4>3, <5>1
        <5>2. CASE file.version = tree[path].version /\ file.length = tree[path].length
          BY <3>0, <3>2, <4>1, <5>2
        <5>3. CASE \A f \in past[path] : f.version < file.version
          BY <4>2, <4>3, <5>3
        <5> QED
          BY <1>1, <5>1, <5>2, <5>3
      <4> QED
        BY <1>5, <3>0, <3>2, <4>6, <4>7, <4>8
    <3> QED
      BY <3>1, <3>2
  <2> QED
    BY <1>3, <1>4, <2>1 DEF Trees
<1>9. Reading'
  <2>1. At' = At
    BY <1>3 DEF At
  <2>2. ASSUME step \in {"read", "restamp"}
        PROVE  /\ before \in past'[At] /\ before # Missing
               /\ tree'[At].version = before.version => bytes = ReadSoFar
    <3>1. /\ inventory \subseteq Path /\ inventory # {} /\ before \in past[At] /\ before # Missing
          /\ tree[At].version = before.version => bytes = ReadSoFar
      BY <1>0, <2>2 DEF Reading
    <3>2. At \in Path
      BY <3>1, FirstOfInventory
    <3> HIDE DEF At
    <3>3. CASE At # path
      BY <1>6, <3>1, <3>2, <3>3
    <3>4. CASE At = path
      <4>1. before.version # 0 /\ before.version \in Nat
        BY <1>0, <1>2, <3>1, <3>2 DEF Trees, File
      <4>2. file.version = before.version => tree[path].version = before.version
        BY <1>1, <3>1, <3>4, <4>1, MissingIsFile DEF File
      <4> QED
        BY <1>5, <1>7, <3>1, <3>2, <3>4, <4>2
    <3> QED
      BY <3>3, <3>4
  <2>3. ReadSoFar' = ReadSoFar
    BY <1>3 DEF ReadSoFar
  <2> QED
    BY <1>0, <1>3, <2>1, <2>2, <2>3 DEF Reading
<1>10. WholeFiles'
  <2> SUFFICES ASSUME NEW p \in DOMAIN files
               PROVE  p \in Path /\ \E f \in past'[p] : f # Missing /\ files[p] = [bytes |-> Contents(f), mask |-> f.mask]
    BY <1>3 DEF WholeFiles
  <2>1. p \in Path /\ \E f \in past[p] : f # Missing /\ files[p] = [bytes |-> Contents(f), mask |-> f.mask]
    BY <1>0 DEF WholeFiles
  <2> QED
    BY <1>7, <2>1
<1>11. NoneLeftOut'
  <2>1. \A p \in Path : Stayed(p)' => Stayed(p)
    BY <1>7 DEF Stayed
  <2> QED
    BY <1>0, <1>3, <2>1 DEF NoneLeftOut
<1>12. Cutting'
  BY <1>0, <1>3 DEF Cutting
<1> QED
  BY <1>8, <1>9, <1>10, <1>11, <1>12 DEF SInv

LEMMA TreesStay == Trees /\ UNCHANGED <<tree, past, changes>> => Trees'
BY DEF Trees

LEMMA FilesStay == WholeFiles /\ UNCHANGED <<past, files>> => WholeFiles'
BY DEF WholeFiles

LEMMA CuttingStays ==
  ASSUME Cutting, UNCHANGED <<operations, result>>, step # "cut", step' # "cut"
  PROVE  Cutting'
BY DEF Cutting

LEMMA LookKeeps ==
  ASSUME SInv, NEW path \in Path, LookAt(path)
  PROVE  SInv'
<1>1. /\ step \in {"scan", "rescan"} /\ looked' = looked \cup {path}
      /\ found' = IF There(path) /\ path \notin Excluded THEN found \cup {path} ELSE found
      /\ UNCHANGED <<tree, past, changes, kind, step, inventory, before, bytes, files, operations, result>>
  BY DEF LookAt
<1>2. Trees' /\ WholeFiles' /\ Cutting'
  BY <1>1, TreesStay, FilesStay, CuttingStays DEF SInv
<1>3. Reading'
  BY <1>1 DEF SInv, Reading, At, ReadSoFar
<1>4. NoneLeftOut'
  <2>1. \A p \in Path : Stayed(p)' = Stayed(p)
    BY <1>1 DEF Stayed
  <2>2. Stayed(path) => path \in found'
    <3>1. tree[path] \in past[path]
      BY DEF SInv, Trees
    <3> QED
      BY <1>1, <3>1 DEF Stayed, There
  <2>3. found \subseteq found'
    BY <1>1
  <2> QED
    BY <1>1, <2>1, <2>2, <2>3 DEF SInv, NoneLeftOut
<1> QED
  BY <1>2, <1>3, <1>4 DEF SInv

LEMMA ScanEndKeeps ==
  ASSUME SInv, ScanEnds
  PROVE  SInv'
<1>1. /\ step = "scan" /\ looked = Path /\ inventory' = found /\ found' = {}
      /\ step' \in {"stamp", "refused"}
      /\ UNCHANGED <<tree, past, changes, before, bytes, files, operations, result>>
  BY DEF ScanEnds, LookedEverywhere
<1>2. Trees' /\ WholeFiles' /\ Cutting'
  BY <1>1, TreesStay, FilesStay, CuttingStays DEF SInv
<1>3. Reading'
  BY <1>1 DEF SInv, Reading
<1>4. NoneLeftOut'
  BY <1>1 DEF SInv, NoneLeftOut, Stayed
<1> QED
  BY <1>2, <1>3, <1>4 DEF SInv

LEMMA RescanEndKeeps ==
  ASSUME SInv, RescanEnds
  PROVE  SInv'
<1>1. /\ step = "rescan" /\ step' \in {"captured", "refused"}
      /\ UNCHANGED <<tree, past, changes, found, looked, inventory, before, bytes, files, operations, result>>
  BY DEF RescanEnds, LookedEverywhere
<1>2. Trees' /\ WholeFiles' /\ Cutting'
  BY <1>1, TreesStay, FilesStay, CuttingStays DEF SInv
<1>3. Reading'
  BY <1>1 DEF SInv, Reading
<1>4. NoneLeftOut'
  BY <1>1 DEF SInv, NoneLeftOut, Stayed
<1> QED
  BY <1>2, <1>3, <1>4 DEF SInv

LEMMA StampKeeps ==
  ASSUME SInv, TakeStamp
  PROVE  SInv'
<1>1. /\ step = "stamp" /\ inventory # {} /\ before' = tree[At]
      /\ UNCHANGED <<tree, past, changes, found, looked, bytes, files, operations, result>>
      /\ \/ tree[At] # Missing /\ step' = "read" /\ inventory' = inventory
         \/ tree[At] = Missing /\ inventory' = inventory \ {At} /\ step' = step
         \/ tree[At] = Missing /\ step' = "refused" /\ inventory' = inventory
  BY DEF TakeStamp, Capturing, Stamp, There
<1>2. Trees' /\ WholeFiles' /\ Cutting'
  BY <1>1, TreesStay, FilesStay, CuttingStays DEF SInv
<1>3. At \in inventory /\ At \in Path
  BY <1>1, FirstOfInventory DEF SInv, Reading
<1>4. tree[At] \in past[At]
  BY <1>3 DEF SInv, Trees
<1>5. bytes = <<>>
  BY <1>1 DEF SInv, Reading
<1>6. Reading'
  <2>1. inventory' \subseteq Path /\ found' \subseteq Path /\ bytes' = <<>>
    BY <1>1, <1>5 DEF SInv, Reading
  <2>2. ASSUME step' \in {"read", "restamp"}
        PROVE  /\ inventory' # {} /\ before' \in past'[At'] /\ before' # Missing
               /\ bytes' = ReadSoFar'
    <3>1. tree[At] # Missing /\ inventory' = inventory
      BY <1>1, <2>2
    <3>2. At' = At
      BY <3>1 DEF At
    <3>3. ReadSoFar' = <<>>
      BY <2>1 DEF ReadSoFar
    <3> HIDE DEF At
    <3> QED
      BY <1>1, <1>4, <2>1, <3>1, <3>2, <3>3
  <2> QED
    BY <2>1, <2>2 DEF Reading
<1>7. NoneLeftOut'
  <2>1. \A p \in Path : Stayed(p)' => Stayed(p) /\ (p = At => tree[At] # Missing)
    BY <1>1, <1>4 DEF Stayed
  <2>2. \A p \in Path : Stayed(p) => p \in inventory \cup DOMAIN files
    BY <1>1 DEF SInv, NoneLeftOut
  <2> HIDE DEF At
  <2> QED
    BY <1>1, <2>1, <2>2 DEF NoneLeftOut
<1> QED
  BY <1>2, <1>6, <1>7 DEF SInv

LEMMA ReadKeeps ==
  ASSUME SInv, ReadByte
  PROVE  SInv'
<1>1. /\ step = "read" /\ inventory # {}
      /\ UNCHANGED <<tree, past, changes, found, looked, inventory, before, files, operations, result>>
      /\ \/ bytes' = Append(bytes, <<tree[At].version, Len(bytes) + 1>>) /\ step' = step
         \/ step' = "restamp" /\ bytes' = bytes
  BY DEF ReadByte, Capturing
<1>2. Trees' /\ WholeFiles' /\ Cutting'
  BY <1>1, TreesStay, FilesStay, CuttingStays DEF SInv
<1>3. At \in inventory /\ At \in Path /\ At' = At
  <2>1. At \in inventory /\ At \in Path
    BY <1>1, FirstOfInventory DEF SInv, Reading
  <2> QED
    BY <1>1, <2>1 DEF At
<1>4. tree[At] \in File /\ tree[At].version \in Nat
  BY <1>3 DEF SInv, Trees, File
<1> HIDE DEF At
<1>5. /\ inventory \subseteq Path /\ found \subseteq Path /\ bytes \in Seq(Nat \X Nat)
      /\ before \in past[At] /\ before # Missing
      /\ tree[At].version = before.version => bytes = ReadSoFar
  BY <1>1 DEF SInv, Reading
<1>6. CASE bytes' = bytes /\ step' = "restamp"
  <2>1. ReadSoFar' = ReadSoFar
    BY <1>1, <1>6 DEF ReadSoFar
  <2>2. Reading'
    BY <1>1, <1>3, <1>5, <1>6, <2>1 DEF Reading
  <2>3. NoneLeftOut'
    BY <1>1, <1>6 DEF SInv, NoneLeftOut, Stayed
  <2> QED
    BY <1>2, <2>2, <2>3 DEF SInv
<1>7. CASE bytes' = Append(bytes, <<tree[At].version, Len(bytes) + 1>>) /\ step' = step
  <2>1. Len(bytes) \in Nat /\ <<tree[At].version, Len(bytes) + 1>> \in Nat \X Nat
    BY <1>4, <1>5
  <2>2. bytes' \in Seq(Nat \X Nat) /\ Len(bytes') = Len(bytes) + 1
    BY <1>5, <1>7, <2>1
  <2>3. ASSUME tree[At].version = before.version PROVE bytes' = ReadSoFar'
    <3>1. \A i \in 1..Len(bytes) : bytes[i] = <<before.version, i>>
      BY <1>5, <2>3 DEF ReadSoFar
    <3>2. \A i \in 1..(Len(bytes) + 1) : bytes'[i] = <<before.version, i>>
      BY <1>5, <1>7, <2>1, <2>3, <3>1
    <3>3. DOMAIN bytes' = 1..(Len(bytes) + 1)
      BY <2>1, <2>2
    <3>4. bytes' = [i \in 1..(Len(bytes) + 1) |-> bytes'[i]]
      BY <2>2, <3>3
    <3> QED
      BY <1>1, <2>2, <3>2, <3>4 DEF ReadSoFar
  <2>4. Reading'
    BY <1>1, <1>3, <1>5, <1>7, <2>2, <2>3 DEF Reading
  <2>5. NoneLeftOut'
    BY <1>1, <1>7 DEF SInv, NoneLeftOut, Stayed
  <2> QED
    BY <1>2, <2>4, <2>5 DEF SInv
<1> QED
  BY <1>1, <1>6, <1>7

LEMMA StampAgainKeeps ==
  ASSUME SInv, TakeStampAgain
  PROVE  SInv'
<1>1. /\ step = "restamp" /\ inventory # {} /\ bytes' = <<>>
      /\ UNCHANGED <<tree, past, changes, found, looked, operations, result>>
      /\ \/ Undisturbed /\ files' = Captured /\ inventory' = inventory \ {At} /\ step' = "stamp"
         \/ step' = "refused" /\ files' = files /\ inventory' = inventory
  BY DEF TakeStampAgain, Capturing
<1>2. Trees' /\ Cutting'
  <2>1. DOMAIN result = {} /\ step' # "cut"
    BY <1>1 DEF SInv, Cutting
  <2> QED
    BY <1>1, <2>1, TreesStay DEF SInv, Cutting
<1>3. At \in inventory /\ At \in Path
  BY <1>1, FirstOfInventory DEF SInv, Reading
<1> HIDE DEF At
<1>4. Reading'
  BY <1>1 DEF SInv, Reading
<1>5. CASE step' = "refused" /\ files' = files /\ inventory' = inventory
  BY <1>1, <1>2, <1>4, <1>5, FilesStay DEF SInv, NoneLeftOut, Stayed
<1>6. CASE Undisturbed /\ files' = Captured /\ inventory' = inventory \ {At} /\ step' = "stamp"
  <2>1. before \in past[At] /\ before # Missing /\ before = tree[At] /\ bytes = ReadSoFar
    BY <1>1, <1>6 DEF SInv, Reading, Undisturbed, Stamp
  <2>2. before.length = Len(bytes)
    BY <1>6 DEF Undisturbed
  <2>3. bytes = Contents(before)
    BY <2>1, <2>2 DEF ReadSoFar, Contents
  <2>4. DOMAIN files' = DOMAIN files \cup {At}
    BY <1>6 DEF Captured
  <2>5. files'[At] = [bytes |-> Contents(before), mask |-> before.mask]
    BY <1>6, <2>3 DEF Captured
  <2>6. \A p \in DOMAIN files : p # At => files'[p] = files[p]
    BY <1>6 DEF Captured
  <2>7. WholeFiles'
    <3> SUFFICES ASSUME NEW p \in DOMAIN files'
                 PROVE  p \in Path /\ \E f \in past[p] : f # Missing /\ files'[p] = [bytes |-> Contents(f), mask |-> f.mask]
      BY <1>1 DEF WholeFiles
    <3>1. CASE p = At
      BY <1>3, <2>1, <2>5, <3>1
    <3>2. CASE p # At
      BY <2>4, <2>6, <3>2 DEF SInv, WholeFiles
    <3> QED
      BY <3>1, <3>2
  <2>8. NoneLeftOut'
    BY <1>1, <1>6, <2>4 DEF SInv, NoneLeftOut, Stayed
  <2> QED
    BY <1>2, <1>4, <2>7, <2>8 DEF SInv
<1> QED
  BY <1>1, <1>5, <1>6

LEMMA AllCapturedKeeps ==
  ASSUME SInv, AllCaptured
  PROVE  SInv'
<1>1. /\ step = "stamp" /\ inventory = {}
      /\ step' \in {"rescan", "captured"} /\ inventory' \in {inventory, DOMAIN files}
      /\ UNCHANGED <<tree, past, changes, found, looked, before, bytes, files, operations, result>>
  BY DEF AllCaptured
<1>2. Trees' /\ WholeFiles' /\ Cutting'
  BY <1>1, TreesStay, FilesStay, CuttingStays DEF SInv
<1>3. DOMAIN files \subseteq Path
  BY DEF SInv, WholeFiles
<1>4. Reading'
  BY <1>1, <1>3 DEF SInv, Reading
<1>5. NoneLeftOut'
  BY <1>1 DEF SInv, NoneLeftOut, Stayed
<1> QED
  BY <1>2, <1>4, <1>5 DEF SInv

\* What a snapshot's bytes and the replacements are made of.
Byte == (Nat \X Nat) \cup STRING

\* What with_transformation leaves of a file is what the edit should leave.
LEMMA ReplacementsEdit ==
  ASSUME NEW asked \in Cuts, Canonical(asked), NEW path, path \notin Deleted(asked),
         NEW all \in Seq(Byte), ~OutOfBounds(all, OperationsOn(asked, path))
  PROVE  ApplyReplacements(all, OperationsOn(asked, path)) = Edited(all, {o \in asked : o.path = path})
<1> DEFINE E == {o \in asked : o.path = path}
           n == Cardinality(E)
           on == OperationsOn(asked, path)
<1>1. IsFiniteSet(asked) /\ asked \subseteq Operation
  BY SnapshotAssumption
<1>2. Placed(asked)
  BY <1>1 DEF Placed, Operation
<1>3. /\ IsFiniteSet(E) /\ Placed(E) /\ Ordering(E, n, on)
      /\ \A o \in E : \E i \in 1..n : on[i] = o
  <2>1. Enumerates({o \in asked : o.path = path}, OperationsOn(asked, path))
    BY <1>1, <1>2, OperationsOnIs, Zenon
  <2> QED
    BY <2>1, Zenon DEF Enumerates
<1>4. n \in Nat
  BY <1>3, FS_CardinalityType
<1>5. \A o \in E : o \in asked /\ o.path = path
  OBVIOUS
<1>6. ~OutOfBounds(all, on)
  OBVIOUS
<1>7. \A o \in E : ~Conflict(on)
  BY <1>5 DEF Canonical
<1> HIDE DEF E, n, on
<1>8. on \in [1..n -> E] /\ DOMAIN on = 1..n
  BY <1>3 DEF Ordering
<1>9. ~Conflict(on)
  <2>1. CASE E = {}
    BY <1>8, <2>1 DEF Conflict
  <2>2. CASE E # {}
    BY <1>7, <2>2
  <2> QED
    BY <2>1, <2>2
<1>10. \A o \in E : ValidRange(o) /\ o.tag = 1
  <2>1. ASSUME NEW o \in E PROVE ValidRange(o) /\ o.tag = 1
    <3>1. o \in Operation /\ ValidRange(o)
      BY <1>1, <1>5 DEF Canonical
    <3>2. o.tag # 0
      BY <1>5 DEF Deleted
    <3> QED
      BY <3>1, <3>2 DEF Operation
  <2> QED
    BY <2>1
<1>11. Apart(E, n, on)
  BY <1>3, <1>4, <1>9, <1>10, ApartIs
<1>12. \A o \in E : o.end <= Len(all)
  <2>1. \A i \in 1..n : on[i] \in E /\ ~(on[i].end > Len(all))
    BY <1>6, <1>8 DEF OutOfBounds
  <2>2. Len(all) \in Nat /\ \A o \in E : o.end \in Nat
    BY <1>3 DEF Placed
  <2> QED
    BY <1>3, <2>1, <2>2
<1>13. Bytes(Byte, all, E)
  <2>1. \A o \in E : o.bytes \in Seq(STRING)
    BY <1>1, <1>5 DEF Operation
  <2>2. \A t \in Seq(STRING) : t \in Seq(Byte)
    BY DEF Byte
  <2> QED
    BY <2>1, <2>2 DEF Bytes
<1>14. ApplyReplacements(all, on) = Edited(all, E)
  BY <1>4, <1>11, <1>12, <1>13, EditsLeave
<1> QED
  BY <1>14 DEF E, on

LEMMA CutKeeps ==
  ASSUME SInv, Cut
  PROVE  SInv'
<1>1. step = "captured" /\ step' = "cut"
      /\ UNCHANGED <<tree, past, changes, found, looked, inventory, before, bytes, files>>
  BY DEF Cut
<1>2. PICK kept \in SUBSET DOMAIN files, asked \in Cuts :
        LET subset == [path \in kept |-> files[path]]
        IN  /\ Canonical(asked) /\ Applicable(subset, asked)
            /\ operations' = asked
            /\ result' = WithTransformation(subset, asked)
  BY DEF Cut
<1> DEFINE subset == [path \in kept |-> files[path]]
<1>3. Canonical(asked) /\ Applicable(subset, asked) /\ operations' = asked /\ result' = WithTransformation(subset, asked)
  BY <1>2
<1>4. DOMAIN subset = kept /\ \A path \in kept : subset[path] = files[path] /\ path \in DOMAIN files
  OBVIOUS
<1> HIDE DEF subset
<1>5. Trees' /\ WholeFiles'
  BY <1>1, TreesStay, FilesStay DEF SInv
<1>6. Reading'
  BY <1>1 DEF SInv, Reading
<1>7. NoneLeftOut'
  BY <1>1 DEF SInv, NoneLeftOut, Stayed
<1>8. ASSUME NEW path \in DOMAIN result'
      PROVE  /\ path \in DOMAIN files /\ result'[path].mask = files[path].mask
             /\ result'[path].bytes = Edited(files[path].bytes, {o \in asked : o.path = path})
  <2>1. path \in kept /\ path \notin Deleted(asked) /\ path \in DOMAIN files /\ subset[path] = files[path]
    BY <1>3, <1>4 DEF WithTransformation
  <2>2. result'[path] = [files[path] EXCEPT !.bytes = ApplyReplacements(files[path].bytes, OperationsOn(asked, path))]
    BY <1>3, <1>4, <2>1 DEF WithTransformation
  <2>3. PICK f \in past[path] : files[path] = [bytes |-> Contents(f), mask |-> f.mask] /\ path \in Path
    BY <2>1 DEF SInv, WholeFiles
  <2>4. f.length \in Nat /\ f.version \in Nat
    BY <2>3 DEF SInv, Trees, File
  <2>5. Contents(f) \in Seq(Byte)
    BY <2>4 DEF Contents, Byte
  <2>6. files[path].bytes = Contents(f) /\ files[path].mask = f.mask
    BY <2>3
  <2>7. ~OutOfBounds(Contents(f), OperationsOn(asked, path))
    BY <1>3, <1>4, <2>1, <2>6 DEF Applicable
  <2>8. ApplyReplacements(Contents(f), OperationsOn(asked, path)) = Edited(Contents(f), {o \in asked : o.path = path})
    BY <1>3, <2>1, <2>5, <2>7, ReplacementsEdit
  <2>9. result'[path] = [bytes |-> Edited(Contents(f), {o \in asked : o.path = path}), mask |-> f.mask]
    BY <2>2, <2>3, <2>6, <2>8
  <2> QED
    BY <2>1, <2>6, <2>9
<1>9. Cutting'
  BY <1>1, <1>3, <1>8 DEF Cutting
<1> QED
  BY <1>5, <1>6, <1>7, <1>9 DEF SInv

LEMMA SnapshotStep == SInv /\ [Next]_vars => SInv'
<1> SUFFICES ASSUME SInv, [Next]_vars PROVE SInv'
  OBVIOUS
<1>1. Edit \/ Capture \/ UNCHANGED snapshotVars
  BY SnapshotSteps, Zenon DEF vars
<1>2. CASE UNCHANGED snapshotVars
  BY <1>2 DEF snapshotVars, captureVars, SInv, Trees, Reading, At, ReadSoFar, WholeFiles, NoneLeftOut, Stayed, Cutting
<1>3. CASE Capture
  BY <1>3, LookKeeps, ScanEndKeeps, StampKeeps, ReadKeeps, StampAgainKeeps, AllCapturedKeeps, RescanEndKeeps, CutKeeps, Zenon DEF Capture
<1> QED
  BY <1>1, <1>2, <1>3, EditKeeps

\* However the directory is edited while it is captured, a snapshot has whole files, each
\* as its path had it at one moment, less exactly the ranges that were cut, and no file
\* that stayed there is left out (lib.rs:202-230, 464-506, 703-802).
THEOREM SnapshotsAlwaysOfFiles == Spec => []SnapshotOfFiles
<1>1. SInv => SnapshotOfFiles
  <2> SUFFICES ASSUME SInv PROVE SnapshotOfFiles
    OBVIOUS
  <2>1. \A path \in DOMAIN files :
       \E f \in past[path] : f # Missing /\ files[path] = [bytes |-> Contents(f), mask |-> f.mask]
    BY DEF SInv, WholeFiles
  <2>2. \A path \in DOMAIN result :
       /\ path \in DOMAIN files /\ result[path].mask = files[path].mask
       /\ result[path].bytes = Edited(files[path].bytes, {o \in operations : o.path = path})
    BY DEF SInv, Cutting
  <2>3. step \in {"captured", "cut"} =>
       \A path \in Path \ Excluded : Missing \notin past[path] => path \in DOMAIN files
    BY DEF SInv, NoneLeftOut, Stayed
  <2> QED
    BY <2>1, <2>2, <2>3, Zenon DEF SnapshotOfFiles
<1> QED
  BY <1>1, SnapshotInit, SnapshotStep, PTL DEF Spec

=============================================================================
