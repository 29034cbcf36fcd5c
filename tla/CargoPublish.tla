---------------------------- MODULE CargoPublish ---------------------------
(***************************************************************************)
(* tools/cargo-optee: builds of one project that run at the same time in   *)
(* one target directory and install into one directory, as make starts     *)
(* them.  A TA is built, stripped to a temporary file, signed to another,  *)
(* renamed into place, made readable and copied; a plugin is copied to a   *)
(* temporary file and renamed; a CA is stripped in place.  A file is two   *)
(* halves, written one after the other by whoever writes it; each half is  *)
(* the version of the source it comes from, or Absent.  Any command may    *)
(* fail, and a build may be killed at any point.                           *)
(***************************************************************************)
EXTENDS Naturals, FiniteSets, TLC

CONSTANTS
  Builds,    \* builds; each runs once
  MaxEdits,  \* how often the source is edited
  Absent     \* no file, no half

(* What a file may be; it is something, and so is each half that is there. *)
Versions == 0..MaxEdits
Modes == {"0600", "0644", "0755"}
Files == [a : Versions, b : Versions \cup {Absent}, mode : Modes, stripped : BOOLEAN]

ASSUME EditsAssumption == MaxEdits \in Nat

(* Where a build that runs stands. *)
Places == {"cargo", "strip", "sign", "signing", "publish", "chmod", "copy", "copying",
           "chmod copy"}

ASSUME AbsentAssumption ==
  Absent \notin Versions /\ Absent \notin Places /\ Absent \notin Files

VARIABLES
  project,  \* "ta", "plugin" or "ca"
  source,   \* the version of the source
  binary,   \* what cargo left in the target directory
  temp,     \* temporary files by name
  out,      \* the published <uuid>.ta or <uuid>.plugin.so
  inst,     \* the file in the install directory
  pc,       \* the next step of every build, or how it ended
  held,     \* of every build: the version built for it, what it has open, where it stopped
  shared    \* builds that overlapped with another one, or with a clean

vars == <<project, source, binary, temp, out, inst, pc, held, shared>>

Ended == {"idle", "done", "failed", "kept", "killed"}
Names == Builds \X {"stripped", "partial"}

(* A complete file. *)
File(v, mode) == [a |-> v, b |-> v, mode |-> mode, stripped |-> TRUE]

Init ==
  /\ project \in {"ta", "plugin", "ca"}
  /\ source = 0
  /\ binary = Absent
  /\ temp = [n \in Names |-> Absent]
  /\ out = Absent
  /\ inst = Absent
  /\ pc = [b \in Builds |-> "idle"]
  /\ held = [b \in Builds |-> [version |-> Absent, open |-> Absent, at |-> Absent]]
  /\ shared = {}

Running == {b \in Builds : pc[b] \notin Ended}

(* The developer saves a change. *)
Edit ==
  /\ source < MaxEdits
  /\ source' = source + 1
  /\ UNCHANGED <<project, binary, temp, out, inst, pc, held, shared>>

(* Mutant: temporary files have a fixed name. *)
NameFixed(b, what) == <<CHOOSE x \in Builds : TRUE, what>>

(* unique_tempfile_in: no two builds have a temporary file in common. *)
Name(b, what) == <<b, what>>

(* NamedTempFile::drop of whatever the build still owns. *)
DropTemps(b) == temp' = [n \in Names |-> IF n[1] = b THEN Absent ELSE temp[n]]

(* A step at which build b stands, and the steps it leads to.  The temporary *)
(* files go when the build returns.                                          *)
Leave(b, to) ==
  /\ pc' = [pc EXCEPT ![b] = to]
  /\ UNCHANGED <<project, source, shared>>

Fail(b) ==
  /\ Leave(b, "failed")
  /\ DropTemps(b)
  /\ held' = [held EXCEPT ![b].at = pc[b]]
  /\ UNCHANGED <<binary, out, inst>>

(* A command fails: the build returns the error. *)
CommandFails(b) == b \in Running /\ Fail(b)

(* The build is killed: nothing is dropped. *)
Kill(b) ==
  /\ b \in Running
  /\ Leave(b, "killed")
  /\ held' = [held EXCEPT ![b].at = pc[b]]
  /\ UNCHANGED <<binary, temp, out, inst>>

(* build_ta and build_ca are entered; cargo is about to run. *)
Start(b) ==
  /\ pc[b] = "idle"
  /\ pc' = [pc EXCEPT ![b] = "cargo"]
  /\ shared' = IF Running = {} THEN shared ELSE shared \cup Running \cup {b}
  /\ UNCHANGED <<project, source, binary, temp, out, inst, held>>

(* cargo build: the target directory is locked by cargo itself. *)
BuildBinary(b) ==
  /\ pc[b] = "cargo"
  /\ binary' = [File(source, "0755") EXCEPT !.stripped = FALSE]
  /\ held' = [held EXCEPT ![b].version = source]
  /\ Leave(b, "strip")
  /\ UNCHANGED <<temp, out, inst>>

(* strip_binary of a TA: objcopy writes to a temporary file; copy_plugin: a   *)
(* copy, with the mode of the plugin.                                        *)
StripBinary(b) ==
  /\ pc[b] = "strip"
  /\ project \in {"ta", "plugin"}
  /\ IF binary = Absent THEN Fail(b)
     ELSE /\ temp' = [temp EXCEPT ![Name(b, IF project = "ta" THEN "stripped" ELSE "partial")]
                        = [binary EXCEPT !.stripped = TRUE]]
          /\ Leave(b, IF project = "ta" THEN "sign" ELSE "publish")
          /\ UNCHANGED <<binary, out, inst, held>>

(* strip_binary of a CA: objcopy rewrites the binary in the target directory. *)
StripInPlace(b) ==
  /\ pc[b] = "strip"
  /\ project = "ca"
  /\ IF binary = Absent THEN Fail(b)
     ELSE /\ binary' = [binary EXCEPT !.stripped = TRUE]
          /\ Leave(b, "copy")
          /\ UNCHANGED <<temp, out, inst, held>>

(* sign_ta: sign_encrypt.py reads the stripped file, truncates the temporary  *)
(* file, whose mode is 0600, and writes its first half.                      *)
SignOpens(b) ==
  /\ pc[b] = "sign"
  /\ IF temp[Name(b, "stripped")] = Absent THEN Fail(b)
     ELSE /\ held' = [held EXCEPT ![b].open = temp[Name(b, "stripped")]]
          /\ temp' = [temp EXCEPT ![Name(b, "partial")] =
                        [File(temp[Name(b, "stripped")].a, "0600") EXCEPT !.b = Absent]]
          /\ Leave(b, "signing")
          /\ UNCHANGED <<binary, out, inst>>

SignWrites(b) ==
  /\ pc[b] = "signing"
  /\ IF temp[Name(b, "partial")] = Absent THEN Fail(b)
     ELSE /\ temp' = [temp EXCEPT ![Name(b, "partial")].b = held[b].open.b]
          /\ Leave(b, "publish")
          /\ UNCHANGED <<binary, out, inst, held>>

(* Mutant: an artifact that exists is not replaced. *)
PublishOnce(b) ==
  /\ out' = IF out = Absent THEN temp[Name(b, "partial")] ELSE out
  /\ temp' = [temp EXCEPT ![Name(b, "partial")] = Absent]

(* publish_tempfile: one rename onto the destination. *)
Publish(b) ==
  /\ out' = temp[Name(b, "partial")]
  /\ temp' = [temp EXCEPT ![Name(b, "partial")] = Absent]

PublishTempfile(b) ==
  /\ pc[b] = "publish"
  /\ IF temp[Name(b, "partial")] = Absent THEN Fail(b)
     ELSE /\ Publish(b)
          /\ Leave(b, IF project = "ta" THEN "chmod" ELSE "copy")
          /\ UNCHANGED <<binary, inst, held>>

(* The rename fails after keep: the temporary file is no longer dropped. *)
RenameFails(b) ==
  /\ pc[b] = "publish"
  /\ Leave(b, "kept")
  /\ temp' = [n \in Names |-> IF n = <<b, "stripped">> THEN Absent ELSE temp[n]]
  /\ UNCHANGED <<binary, out, inst, held>>

(* Mutant: the published file keeps the mode of the temporary file. *)
ModeKept(f) == f

(* set_ta_file_permissions: 0644. *)
Readable(f) == [f EXCEPT !.mode = "0644"]

SetTaFilePermissions(b) ==
  /\ pc[b] = "chmod"
  /\ IF out = Absent THEN Fail(b)
     ELSE /\ out' = Readable(out)
          /\ Leave(b, "copy")
          /\ UNCHANGED <<binary, temp, inst, held>>

(* No --target-dir was given. *)
NoInstall(b) ==
  /\ pc[b] = "copy"
  /\ Leave(b, "done")
  /\ DropTemps(b)
  /\ UNCHANGED <<binary, out, inst, held>>

(* fs::copy of what stands under the artifact's name now: the destination is *)
(* truncated, takes the mode of the source, and its first half is written.   *)
CopyOpens(b) ==
  LET from == IF project = "ca" THEN binary ELSE out IN
  /\ pc[b] = "copy"
  /\ IF from = Absent THEN Fail(b)
     ELSE /\ held' = [held EXCEPT ![b].open = from]
          /\ inst' = [from EXCEPT !.b = Absent]
          /\ Leave(b, "copying")
          /\ UNCHANGED <<binary, temp, out>>

CopyWrites(b) ==
  /\ pc[b] = "copying"
  /\ inst' = [inst EXCEPT !.b = held[b].open.b]
  /\ IF project = "ta"
     THEN Leave(b, "chmod copy") /\ temp' = temp
     ELSE Leave(b, "done") /\ DropTemps(b)
  /\ UNCHANGED <<binary, out, held>>

CopyReadable(b) ==
  /\ pc[b] = "chmod copy"
  /\ inst' = Readable(inst)
  /\ Leave(b, "done")
  /\ DropTemps(b)
  /\ UNCHANGED <<binary, out, held>>

(* clean_project: the target directory goes, under the builds that use it. *)
CleanProject ==
  /\ binary' = Absent
  /\ temp' = [n \in Names |-> Absent]
  /\ out' = Absent
  /\ shared' = shared \cup Running
  /\ UNCHANGED <<project, source, inst, pc, held>>

Step(b) ==
  \/ Start(b) \/ BuildBinary(b) \/ StripBinary(b) \/ StripInPlace(b)
  \/ SignOpens(b) \/ SignWrites(b) \/ PublishTempfile(b) \/ SetTaFilePermissions(b)
  \/ NoInstall(b) \/ CopyOpens(b) \/ CopyWrites(b) \/ CopyReadable(b)

Next ==
  \/ \E b \in Builds : Step(b) \/ CommandFails(b) \/ Kill(b) \/ RenameFails(b)
  \/ Edit \/ CleanProject

Spec == Init /\ [][Next]_vars

----------------------------------------------------------------------------
(* "parallel strip/sign cannot clobber each other": whatever builds run, fail *)
(* or are killed, the published artifact is the complete and stripped product *)
(* of one version of the source.                                             *)
PublishedWhole == out # Absent => out = File(out.a, out.mode) /\ out.a # Absent

(* tee-supplicant may run as another user: a published TA it cannot read is   *)
(* there only while a build stands between the rename and the change of mode, *)
(* or because one was stopped there.                                         *)
UnreadableOnlyMidway ==
  project = "ta" /\ out # Absent /\ out.mode = "0600" =>
    \E b \in Builds : "chmod" \in {pc[b], held[b].at}

(* A build that ran by itself and succeeded did what it printed: the artifact *)
(* is the one it built, "so a rebuild cannot leave make/emulate installing a  *)
(* stale .ta", it can be read, and so is the copy if it installed one.        *)
OwnProduct ==
  [][\A b \in Builds \ shared : pc[b] # "done" /\ pc'[b] = "done" =>
       LET v == held[b].version
           good(f) == f = File(v, IF project = "ta" THEN "0644" ELSE "0755")
       IN  /\ good(IF project = "ca" THEN binary' ELSE out')
           /\ pc[b] # "copy" => good(inst')]_vars
=============================================================================
