------------------------------ MODULE CargoRun -----------------------------
(***************************************************************************)
(* tools/cargo-optee/src/common.rs: run_cargo_build starts cargo with its  *)
(* standard output in a pipe, reads the JSON messages to the end of the    *)
(* pipe, waits for the child, and picks the one artifact of the package.   *)
(* Cargo and the pipe are external; cargo writes what it likes and exits   *)
(* as it likes.  CargoTool says when a build is run.                       *)
(***************************************************************************)
EXTENDS Naturals, Sequences

CONSTANTS
  Messages,   \* messages cargo may write: text, bad, or artifact records
  MaxOutput,  \* the most messages in one build
  PipeSize,   \* the messages a pipe holds
  None        \* no path

VARIABLES
  kind,       \* "Bin" or "Cdylib"
  written,    \* what cargo has written
  plan,       \* what cargo has yet to write
  succeeds,   \* whether cargo exits with success
  pipe,       \* the messages in the pipe
  child,      \* "running", "ok" or "failed"
  parent,     \* "reading", "waiting" or "done"
  artifacts,  \* the set of paths collected so far
  readError,  \* the reader gave up; the pipe is closed
  result      \* the path, or what the error says

cargoVars == <<written, plan, succeeds, child>>

(* No build has been started. *)
NoBuild ==
  /\ kind = None
  /\ plan = <<>>
  /\ succeeds = FALSE
  /\ written = <<>>
  /\ pipe = <<>>
  /\ child = "running"
  /\ parent = "reading"
  /\ artifacts = {}
  /\ readError = FALSE
  /\ result = None

(* The build has returned, and its state is gone. *)
Discard ==
  /\ kind' = None
  /\ plan' = <<>>
  /\ succeeds' = FALSE
  /\ written' = <<>>
  /\ pipe' = <<>>
  /\ child' = "running"
  /\ parent' = "reading"
  /\ artifacts' = {}
  /\ readError' = FALSE
  /\ result' = None

(* Cargo is spawned, to build a product of kind k. *)
Spawn(k) ==
  /\ kind' = k
  /\ \E n \in 0 .. MaxOutput : plan' \in [1 .. n -> Messages]
  /\ succeeds' \in BOOLEAN
  /\ UNCHANGED <<written, pipe, child, parent, artifacts, readError, result>>

(* Cargo writes a message.  On a closed pipe it fails, or goes on regardless. *)
CargoWrites ==
  /\ child = "running"
  /\ plan # <<>>
  /\ \/ /\ ~readError
        /\ Len(pipe) < PipeSize
        /\ pipe' = Append(pipe, Head(plan))
        /\ child' = child
     \/ /\ readError
        /\ child' \in {"running", "failed"}
        /\ pipe' = pipe
  /\ written' = Append(written, Head(plan))
  /\ plan' = Tail(plan)
  /\ UNCHANGED <<kind, succeeds, parent, artifacts, readError, result>>

CargoExits ==
  /\ child = "running"
  /\ plan = <<>>
  /\ child' = IF succeeds THEN "ok" ELSE "failed"
  /\ UNCHANGED <<kind, written, plan, succeeds, pipe, parent, artifacts, readError, result>>

(* Mutant: the executables of tests are collected as well. *)
CollectedTests(m) ==
  IF m.what # "artifact" \/ ~m.own \/ m.build THEN {}
  ELSE IF kind = "Bin" THEN {m.exe} \ {None}
  ELSE IF m.cdylib THEN m.so ELSE {}

(* collect_cargo_artifacts: the paths one message adds.  Messages of other   *)
(* packages, of tests and of build scripts add none.                         *)
Collected(m) ==
  IF m.what # "artifact" \/ ~m.own \/ m.test \/ m.build THEN {}
  ELSE IF kind = "Bin" THEN {m.exe} \ {None}
  ELSE IF m.cdylib THEN m.so ELSE {}

(* A message that cannot be read ends the collection and drops the reader. *)
ReadMessage ==
  /\ parent = "reading"
  /\ pipe # <<>>
  /\ IF Head(pipe).what = "bad"
     THEN /\ readError' = TRUE
          /\ parent' = "waiting"
          /\ pipe' = <<>>
          /\ artifacts' = artifacts
     ELSE /\ artifacts' = artifacts \union Collected(Head(pipe))
          /\ pipe' = Tail(pipe)
          /\ UNCHANGED <<readError, parent>>
  /\ UNCHANGED <<kind, cargoVars, result>>

(* Mutant: the tool keeps a writing end of the pipe, so there is no end of file. *)
EndOfFileKept == FALSE

EndOfFile == parent = "reading" /\ pipe = <<>> /\ child # "running"

ReadToEnd ==
  /\ EndOfFile
  /\ parent' = "waiting"
  /\ UNCHANGED <<kind, cargoVars, pipe, artifacts, readError, result>>

(* unique_cargo_artifact: sorted, without duplicates, exactly one. *)
UniqueCargoArtifact(paths) ==
  IF paths = {} THEN "no artifact"
  ELSE IF \E p \in paths : paths = {p} THEN CHOOSE p \in paths : TRUE
  ELSE "multiple artifacts"

(* The status of the build comes before the read error. *)
Outcome ==
  IF child = "failed" THEN "build failed"
  ELSE IF readError THEN "read error"
  ELSE UniqueCargoArtifact(artifacts)

Wait ==
  /\ parent = "waiting"
  /\ child # "running"
  /\ parent' = "done"
  /\ result' = Outcome
  /\ UNCHANGED <<kind, cargoVars, pipe, artifacts, readError>>

CargoStep == CargoWrites \/ CargoExits
ParentStep == ReadMessage \/ ReadToEnd \/ Wait

----------------------------------------------------------------------------
Named == UNION {{m.exe} \cup m.so : m \in {n \in Messages : n.what = "artifact"}}
Paths == Named \ {None}

(* All that cargo has written. *)
Output == {written[i] : i \in DOMAIN written}

(* What a message says was produced for the package itself. *)
OwnProduct(m) ==
  m.what = "artifact" /\ m.own /\ ~m.test /\ ~m.build /\ (kind = "Cdylib" => m.cdylib)
Products ==
  UNION {IF kind = "Cdylib" THEN m.so ELSE {m.exe} \ {None} : m \in {n \in Output : OwnProduct(n)}}

(* The path that is stripped and signed is the package's own product, and its *)
(* only one: cargo succeeded, and of all it wrote exactly this path was       *)
(* produced by a target that is neither a test nor a build script.  A build   *)
(* that failed is reported as such, whatever the reader met: "Prefer the      *)
(* build failure status over a stdout read error".                            *)
ResultIsTheProduct ==
  /\ result \in Paths =>
       /\ child = "ok"
       /\ {m \in Output : m.what = "bad"} = {}
       /\ Products = {result}
  /\ parent = "done" /\ child = "failed" => result = "build failed"
=============================================================================
