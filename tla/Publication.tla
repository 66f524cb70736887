------------------------------ MODULE Publication ------------------------------
(***************************************************************************)
(* From a source to what stands at the output path, in the presence of     *)
(* other programs (execute_reduction and publish_artifact,                 *)
(* crates/reprocut-cli/src/main.rs:874-951, 1262-1307; prepare_gallery,    *)
(* :632-733; export_oci, :822-850; verify_completed_artifact, :464-479).    *)
(*                                                                         *)
(*   "reduce"   looks at the output, captures and cuts the source, stages  *)
(*              the artifact, verifies it, looks again, and renames it     *)
(*   "gallery"  looks at the output, verifies an artifact, stages a        *)
(*              submission, looks again, and renames it; "gallery_source"  *)
(*              also captures the artifact's project (--include-source)    *)
(*   "export"   verifies an artifact, looks at the output, copies the       *)
(*              project, has a builder write an archive there, and reads it *)
(*              (crates/reprocut-oci/src/lib.rs:135-340)                    *)
(*   "verify"   verifies an artifact                                       *)
(*   "realize"  captures a prepared workspace (engine lib.rs:1075-1109)    *)
(*                                                                         *)
(* The search is left out: any subset and edit may be its result.  A       *)
(* submission is staged in one step, an artifact member by member.         *)
(***************************************************************************)
EXTENDS Snapshot, Verification

CONSTANTS
  Order,      \* the members, in the order in which they are written
  Requests    \* what is asked for, what is there, and how many edits are met

Request ==
  [action : {"reduce", "gallery", "gallery_source", "export", "verify", "realize"},
   changes : Nat, edits : Nat, others : Nat]

ASSUME PublicationAssumption ==
  /\ Requests \subseteq Request
  /\ Order \in Seq(Member) /\ \A m \in Member : \E i \in DOMAIN Order : Order[i] = m

VARIABLES
  action,
  phase,
  output,     \* what stands at the output path
  others      \* what others still do there

vars == <<snapshotVars, artifactVars, action, phase, output, others>>
\* Everything but the snapshot, and everything but the verification.
besideSnapshot == <<artifactVars, action, phase, output, others>>
besideArtifact == <<snapshotVars, action, phase, output, others>>

Free == {"absent", "empty directory"}
Ended == {"published", "exported", "confirmed", "realized", "failed"}
\* A file of the builder: a required member is still missing, or all are there and
\* the rest is missing, or it is complete.
Archives == {"partial archive", "truncated archive", "archive"}

\* What a source is captured as, and what is done when.
CapturedAs ==
  [reduce |-> "source", gallery |-> "listed", gallery_source |-> "listed", export |-> "listed",
   verify |-> "listed", realize |-> "prepared"]
FirstPhase ==
  [reduce |-> "look", gallery |-> "look", gallery_source |-> "look", export |-> "verify",
   verify |-> "verify", realize |-> "capture"]
AfterCapture == [reduce |-> "write", gallery_source |-> "look again", realize |-> "realized"]
AfterVerification ==
  [reduce |-> "look again", gallery |-> "look again", gallery_source |-> "capture", verify |-> "confirmed"]

Init ==
  /\ \E request \in Requests :
       /\ action = request.action
       /\ changes = request.changes /\ edits = request.edits /\ others = request.others
  /\ kind = CapturedAs[action]
  /\ InitSnapshot
  /\ InitVerification
  /\ IF action \in {"reduce", "realize"}
     THEN dir = Nothing /\ manifest = NoManifest
     ELSE /\ dir \in [Member -> {Absent, 1}]
          /\ manifest \in {NoManifest, Of(1)}
  /\ action \in {"verify", "export"} => \A path \in Path : ~There(path)
  /\ phase = FirstPhase[action]
  /\ output \in {"absent", "theirs"}

-----------------------------------------------------------------------------
\* Other programs.

OthersEdit ==
  /\ phase \notin Ended
  /\ phase = "capture" /\ Edit
  /\ UNCHANGED besideSnapshot

OthersEditArtifact ==
  /\ phase \notin Ended \cup {"look", "capture"}
  /\ \/ \E m \in Member : (action = "reduce" => dir[m] # Absent) /\ EditMember(m)
     \/ (action = "reduce" => manifest # NoManifest) /\ EditManifest
  /\ UNCHANGED besideArtifact

OthersAtOutput ==
  /\ phase \notin Ended
  /\ others > 0 /\ others' = others - 1
  /\ \/ output \in Free /\ output' = "theirs"
     \/ output = "absent" /\ output' = "empty directory"
     \/ output # "absent" /\ output' = "absent"
  /\ UNCHANGED <<snapshotVars, dir, manifest, edits, verifyVars, action, phase>>

-----------------------------------------------------------------------------
\* The program.

Go(to) ==
  /\ phase' = to
  /\ UNCHANGED <<snapshotVars, action, others>>

\* ensure_output_absent, before the work
Look ==
  /\ phase = "look"
  /\ Go(IF output # "absent" THEN "failed" ELSE IF action = "reduce" THEN "capture" ELSE "verify")
  /\ UNCHANGED <<output, dir, manifest, edits, verifyVars>>

CaptureStep ==
  /\ phase = "capture"
  /\ Capture
  /\ UNCHANGED <<dir, manifest, edits, verifyVars, action, phase, output, others>>

CaptureEnds ==
  /\ phase = "capture"
  /\ step \in {"cut", "refused"} \/ (step = "captured" /\ action # "reduce")
  /\ Go(IF step = "refused" THEN "failed" ELSE AfterCapture[action])
  /\ UNCHANGED <<output, dir, manifest, edits, verifyVars>>

Written(m) == dir[m] # Absent

\* copy_to and write_file
WriteMember ==
  /\ phase = "write" /\ check = "idle"
  /\ \E i \in DOMAIN Order :
       /\ ~Written(Order[i]) /\ \A j \in 1..(i - 1) : Written(Order[j])
       /\ dir' = [dir EXCEPT ![Order[i]] = 1]
  /\ UNCHANGED <<snapshotVars, manifest, edits, verifyVars, action, phase, output, others>>

AllWritten ==
  /\ phase = "write" /\ check = "idle"
  /\ \A m \in Member : Written(m)
  /\ check' = "build"
  /\ UNCHANGED <<snapshotVars, dir, manifest, edits, declared, seen, again, visited, evidence>>
  /\ UNCHANGED <<action, phase, output, others>>

CollectForManifest ==
  /\ phase = "write" /\ check = "build"
  /\ \E m \in Member : Collect(m)
  /\ UNCHANGED <<snapshotVars, action, phase, output, others>>

\* Mutated form of BuildManifest: the verification takes the members it was built from.
BuildManifestAndKeep ==
  /\ phase = "write" /\ check = "build" /\ visited = Member
  /\ manifest' = seen
  /\ check' = "manifest"
  /\ Go("verify")
  /\ UNCHANGED <<dir, edits, declared, seen, again, visited, evidence, output>>

\* build_artifact_manifest
BuildManifest ==
  /\ phase = "write" /\ check = "build" /\ visited = Member
  /\ manifest' = seen
  /\ check' = "manifest" /\ seen' = Nothing /\ visited' = {}
  /\ Go("verify")
  /\ UNCHANGED <<dir, edits, declared, again, evidence, output>>

BeginVerification ==
  /\ phase = "verify" /\ check = "idle"
  /\ check' = "manifest"
  /\ UNCHANGED <<snapshotVars, dir, manifest, edits, declared, seen, again, visited, evidence>>
  /\ UNCHANGED <<action, phase, output, others>>

VerifyStep ==
  /\ phase = "verify"
  /\ Verify
  /\ UNCHANGED <<snapshotVars, action, phase, output, others>>

VerificationEnds ==
  /\ phase = "verify"
  /\ check = "refused" \/ (check = "verified" /\ action # "export")
  /\ Go(IF check = "refused" THEN "failed" ELSE AfterVerification[action])
  /\ UNCHANGED <<output, dir, manifest, edits, verifyVars>>

\* Mutated form of ExportVerified: the artifact is not verified.
ExportAtOnce ==
  /\ phase = "verify" /\ action = "export"
  /\ Go(IF output = "absent" THEN "context" ELSE "failed")
  /\ UNCHANGED <<output, dir, manifest, edits, verifyVars>>

\* export_oci, and ensure_output_absent of export_archive
ExportVerified ==
  /\ phase = "verify" /\ check = "verified" /\ action = "export"
  /\ Go(IF output = "absent" THEN "context" ELSE "failed")
  /\ UNCHANGED <<output, dir, manifest, edits, verifyVars>>

\* prepare_context: the project as it is now, and be it empty.
CopyContext ==
  /\ phase = "context"
  /\ Go("build")
  /\ UNCHANGED <<output, dir, manifest, edits, verifyVars>>

\* The builder writes a file: it does not look at what is there.
BuilderWrites ==
  /\ phase = "build"
  /\ \/ output \notin Archives /\ output' \in Archives
     \/ output = "partial archive" /\ output' \in Archives \ {output}
     \/ output = "truncated archive" /\ output' = "archive"
  /\ UNCHANGED <<dir, manifest, edits, verifyVars, snapshotVars, action, phase, others>>

\* invoke_builder comes back; a builder that failed leaves what it wrote, and one
\* that reports success need not have written all.
BuilderEnds ==
  /\ phase = "build"
  /\ \E success \in BOOLEAN : Go(IF success THEN "validate" ELSE "failed")
  /\ UNCHANGED <<output, dir, manifest, edits, verifyVars>>

\* validate_oci_archive looks for two members, and takes a file that is cut short for
\* one that ends there; what another program put there may have them as well.
WithMembers == {"truncated archive", "archive"}

ValidateArchive ==
  /\ phase = "validate"
  /\ \/ output \in WithMembers \cup {"theirs"} /\ Go("exported")
     \/ output \notin WithMembers /\ Go("failed")
  /\ UNCHANGED <<output, dir, manifest, edits, verifyVars>>

\* ensure_output_absent, after the work
LookAgain ==
  /\ phase = "look again"
  /\ Go(IF output = "absent" THEN "rename" ELSE "failed")
  /\ UNCHANGED <<output, dir, manifest, edits, verifyVars>>

\* Mutated form of Rename: what is there is removed first.
RenameOver ==
  /\ phase = "rename"
  /\ output' = "ours" /\ Go("published")
  /\ UNCHANGED <<dir, manifest, edits, verifyVars>>

\* rename(2) of a directory replaces nothing but an empty directory.
Rename ==
  /\ phase = "rename"
  /\ IF output \in Free
     THEN output' = "ours" /\ Go("published")
     ELSE UNCHANGED output /\ Go("failed")
  /\ UNCHANGED <<dir, manifest, edits, verifyVars>>

\* Any step may fail, or the program crash: what is staged is not moved.
Fail ==
  /\ phase \notin Ended
  /\ Go("failed")
  /\ UNCHANGED <<output, dir, manifest, edits, verifyVars>>

Done == phase \in Ended /\ UNCHANGED <<vars>>

Step ==
  \/ Look \/ CaptureStep \/ CaptureEnds
  \/ WriteMember \/ AllWritten \/ CollectForManifest \/ BuildManifest
  \/ BeginVerification \/ VerifyStep \/ VerificationEnds
  \/ ExportVerified \/ CopyContext \/ BuilderWrites \/ BuilderEnds \/ ValidateArchive
  \/ LookAgain \/ Rename \/ Fail

Others ==
  \/ OthersEdit
  \/ OthersEditArtifact
  \/ OthersAtOutput

Next == (Step /\ Watch) \/ (Others /\ Watch) \/ Done

Spec == Init /\ [][Next]_vars

-----------------------------------------------------------------------------
\* The phases, and what each has of the verification: nothing is collected when a
\* collection begins, and nothing is read before the manifest is.
TypeOK ==
  /\ action \in {"reduce", "gallery", "gallery_source", "export", "verify", "realize"}
  /\ phase \in {"look", "capture", "write", "verify", "context", "build", "validate", "look again", "rename"} \cup Ended
  /\ output \in Free \cup Archives \cup {"theirs", "ours"} /\ (output = "ours") = (phase = "published")
  /\ others \in Nat /\ edits \in Nat
  /\ dir \in [Member -> Content] /\ manifest \in [Member -> Content \ {Gone}]
  /\ check \in {"idle", "build", "manifest", "collect", "evidence", "derived", "collect again",
                "manifest again", "verified", "refused"}
  /\ {declared, seen, again} \subseteq [Member -> Content \ {Gone}]
  /\ visited \subseteq Member /\ evidence \in Content \ {Gone} /\ whole \in BOOLEAN
  /\ check \in {"idle", "manifest", "evidence", "manifest again", "verified"} => visited = {}
  /\ check \in {"idle", "manifest"} => seen = Nothing /\ declared = NoManifest

\* What is moved to the output path appears there at once, in the place of nothing or
\* of an empty directory, and only where the source was captured whole (when there is
\* one) and the artifact was complete at a moment of its verification: an end at any
\* step, or another program at the path, leaves what is there as it was
\* (main.rs:1289-1303).  An archive is written in place by the builder, over whatever
\* came there since the path was found free, and may be cut short: of it this says
\* only that it is begun, and that success is reported, for an artifact that was
\* complete (oci lib.rs:177-199, 295-340).
OnlyWholeAppears ==
  [][/\ output' = "ours" /\ output # "ours" =>
          /\ output \in Free /\ whole
          /\ action = "reduce" => step = "cut"
          /\ action = "gallery_source" => step = "captured"
     /\ output' \in Archives /\ output \notin Archives => whole
     /\ phase' = "exported" => whole]_vars

=============================================================================
