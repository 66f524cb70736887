----------------------------- MODULE Verification -----------------------------
(***************************************************************************)
(* The verification of an artifact that may be edited meanwhile            *)
(* (verify_artifact, crates/reprocut-report/src/verify.rs:163-478).        *)
(* The members of an artifact are hashed one at a time and compared with   *)
(* its manifest; the evidence is read and the members compared with it;    *)
(* what can be derived from the evidence is read once more; and then all   *)
(* members are hashed again and the manifest is read again.                *)
(*                                                                         *)
(* A member's content is the number of the artifact it belongs to: members *)
(* with one number make an artifact, in which evidence, report, project    *)
(* and the others agree.  A manifest gives the contents of the members.    *)
(* Edits go on to higher numbers: no content comes back.                   *)
(***************************************************************************)
EXTENDS Naturals, FiniteSets

CONSTANTS
  Member,     \* of an artifact, the manifest left out
  Evidence,   \* reduction.json
  Derived,    \* the members that the evidence determines byte by byte
  Last        \* the artifacts are 1..Last

Absent == 0
Gone == Last + 1     \* removed, for good
Artifact == 1..Last
Content == Absent..Gone

ASSUME VerificationAssumption ==
  /\ Last \in Nat \ {0}
  /\ Evidence \in Member /\ Derived \subseteq Member \ {Evidence}

VARIABLES
  dir,        \* the content of each member
  manifest,   \* artifact-manifest.json: the content of each member, or NoManifest
  edits,      \* edits still to come
  check,      \* what is done next
  declared,   \* the manifest that was read
  seen,       \* the members collected first
  again,      \* and again
  visited,    \* the members collected in this pass
  evidence,   \* the content of the evidence that was read
  whole       \* since the verification began there was a moment with a whole artifact

verifyVars == <<check, declared, seen, again, visited, evidence>>
artifactVars == <<dir, manifest, edits, verifyVars, whole>>

Nothing == [m \in Member |-> Absent]
NoManifest == Nothing

Of(artifact) == [m \in Member |-> artifact]

\* A complete artifact, in which everything agrees.
Whole(members, envelope) == \E a \in Artifact : members = Of(a) /\ envelope = Of(a)

InitVerification ==
  /\ check = "idle"
  /\ declared = NoManifest /\ seen = Nothing /\ again = Nothing /\ visited = {}
  /\ evidence = Absent
  /\ whole = FALSE

-----------------------------------------------------------------------------
\* Another program edits the artifact.

EditMember(m) ==
  /\ edits > 0
  /\ edits' = edits - 1
  /\ \E content \in (dir[m] + 1)..Gone : dir' = [dir EXCEPT ![m] = content]
  /\ UNCHANGED <<manifest, verifyVars>>

\* A manifest gives later contents for some members.
EditManifest ==
  /\ edits > 0
  /\ edits' = edits - 1
  /\ \E later \in [Member -> Artifact] :
       /\ later # manifest /\ \A m \in Member : manifest[m] <= later[m]
       /\ manifest' = later
  /\ UNCHANGED <<dir, verifyVars>>

-----------------------------------------------------------------------------
\* What a pass shows of a member.
Shown(m) == IF dir[m] = Gone THEN Absent ELSE dir[m]

Refuse ==
  /\ check' = "refused"
  /\ UNCHANGED <<dir, manifest, edits, declared, seen, again, visited, evidence>>

ReadManifest ==
  /\ check = "manifest"
  /\ IF manifest = NoManifest
     THEN Refuse
     ELSE /\ declared' = manifest
          /\ check' = "collect"
          /\ UNCHANGED <<dir, manifest, edits, seen, again, visited, evidence>>

\* stream_member; another change of the file while it is read is refused by its
\* length, mask and modification time.
Collect(m) ==
  /\ check \in {"build", "collect"}
  /\ m \in Member \ visited
  /\ seen' = [seen EXCEPT ![m] = Shown(m)]
  /\ visited' = visited \cup {m}
  /\ UNCHANGED <<dir, manifest, edits, check, declared, again, evidence>>

\* The set of members, and each of them, must be as declared.
CompareMembers ==
  /\ check = "collect" /\ visited = Member
  /\ IF seen # declared
     THEN Refuse
     ELSE /\ check' = "evidence" /\ visited' = {}
          /\ UNCHANGED <<dir, manifest, edits, declared, seen, again, evidence>>

\* verify_expected_member_set and verify_retained_project: the manifest has all
\* members, and the project in it is that of the evidence.
ExpectedBy(content) ==
  /\ \A m \in Member : declared[m] # Absent
  /\ \A m \in Member \ (Derived \cup {Evidence}) : declared[m] = content

ReadEvidence ==
  /\ check = "evidence"
  /\ IF Shown(Evidence) = Absent \/ ~ExpectedBy(Shown(Evidence))
     THEN Refuse
     ELSE /\ evidence' = Shown(Evidence)
          /\ check' = "derived"
          /\ UNCHANGED <<dir, manifest, edits, declared, seen, again, visited>>

\* verify_derived_files
ReadDerived(m) ==
  /\ check = "derived"
  /\ m \in Derived \ visited
  /\ IF Shown(m) # evidence
     THEN Refuse
     ELSE /\ visited' = visited \cup {m}
          /\ UNCHANGED <<dir, manifest, edits, check, declared, seen, again, evidence>>

\* Mutated form of DerivedRead: the members are not collected again.
DerivedAndDone ==
  /\ check = "derived" /\ visited = Derived
  /\ check' = "manifest again" /\ visited' = {}
  /\ UNCHANGED <<dir, manifest, edits, declared, seen, again, evidence>>

DerivedRead ==
  /\ check = "derived" /\ visited = Derived
  /\ check' = "collect again" /\ visited' = {}
  /\ UNCHANGED <<dir, manifest, edits, declared, seen, again, evidence>>

CollectAgain(m) ==
  /\ check = "collect again"
  /\ m \in Member \ visited
  /\ again' = [again EXCEPT ![m] = Shown(m)]
  /\ visited' = visited \cup {m}
  /\ UNCHANGED <<dir, manifest, edits, check, declared, seen, evidence>>

CompareAgain ==
  /\ check = "collect again" /\ visited = Member
  /\ IF again # seen
     THEN Refuse
     ELSE /\ check' = "manifest again" /\ visited' = {}
          /\ UNCHANGED <<dir, manifest, edits, declared, seen, again, evidence>>

ReadManifestAgain ==
  /\ check = "manifest again"
  /\ IF manifest # declared
     THEN Refuse
     ELSE /\ check' = "verified"
          /\ UNCHANGED <<dir, manifest, edits, declared, seen, again, visited, evidence>>

Verify ==
  \/ ReadManifest
  \/ \E m \in Member : (check = "collect" /\ Collect(m)) \/ ReadDerived(m) \/ CollectAgain(m)
  \/ CompareMembers \/ ReadEvidence \/ DerivedRead \/ CompareAgain \/ ReadManifestAgain

\* A verification begins where it reads the manifest; the artifact is watched from there.
Verifying == check \notin {"idle", "build"}
Watch == whole' = (Verifying' /\ ((Verifying /\ whole) \/ Whole(dir', manifest')))

\* An artifact that is confirmed was complete, and agreed with its manifest, at
\* one moment of its verification, although nothing was read at that moment, and
\* whatever was edited before, meanwhile and since (verify.rs:175-234).
VerifiedAtOneMoment == check = "verified" => whole

=============================================================================
