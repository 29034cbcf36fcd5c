----------------------------- MODULE CargoTool -----------------------------
(***************************************************************************)
(* One invocation of tools/cargo-optee from the command line to the UUID   *)
(* of the product: the configuration (CargoConfig), the cargo command that *)
(* it leads to (CargoRun), and the ELF file that cargo leaves (ElfUuid).   *)
(* Each part hands the next one what it needs and nothing else: the kind   *)
(* of product decides which artifact of the build is looked for and how    *)
(* its UUID is found.  State that no later step reads is forgotten when a  *)
(* part ends.  What follows the UUID is in CargoPublish.                   *)
(***************************************************************************)
EXTENDS CargoConfig

CONSTANTS Messages, MaxOutput, PipeSize,  \* of CargoRun
          Elfs, MaxAddr, UuidSize         \* of ElfUuid

VARIABLES
  tool,     \* "configuring", "spawning", "building", "built", "reading" or "ended"
  product,  \* what is built: "ta", "ca" or "plugin"
  kind, written, plan, succeeds, pipe, process, parent, artifacts, readError,
  result,   \* of CargoRun
  elf,      \* the file cargo left
  uuid      \* where its UUID is, or why it was not found

B == INSTANCE CargoRun WITH child <- process
U == INSTANCE ElfUuid WITH kind <- product, result <- uuid

(* What a build ends with is a path or one of these, never both. *)
Failures == {"build failed", "read error", "no artifact", "multiple artifacts"}

ASSUME PathsAssumption == B!Paths \cap Failures = {}

ASSUME ElfsAssumption == /\ MaxAddr \in Nat /\ UuidSize \in Nat
                         /\ \A e \in Elfs : U!IsElf(e)

buildVars == <<kind, written, plan, succeeds, pipe, process, parent, artifacts,
               readError, result>>
elfVars == <<elf, uuid>>
toolVars == <<configVars, tool, product, buildVars, elfVars>>

ToolInit ==
  /\ ConfigInit
  /\ tool = "configuring"
  /\ product = None
  /\ B!NoBuild
  /\ elf = None
  /\ uuid = None

----------------------------------------------------------------------------
Configure ==
  /\ tool = "configuring"
  /\ ConfigNext
  /\ UNCHANGED <<tool, product, buildVars, elfVars>>

ForgetConfig ==
  /\ cmd' = None /\ workspace' = None /\ environ' = None /\ meta' = None
  /\ stage' = "spent" /\ config' = None /\ child' = None

(* The configuration is there or has failed.  For clippy, cargo is run with   *)
(* the output of the tool itself, and that is all.                            *)
Configured ==
  /\ tool = "configuring"
  /\ stage \in {"ready", "failed"}
  /\ tool' = IF stage = "ready" /\ cmd.op # "clippy" THEN "spawning" ELSE "ended"
  /\ product' = cmd.kind
  /\ ForgetConfig
  /\ UNCHANGED <<buildVars, elfVars>>

(* inspect_uuid: the command that prints the UUID of a file looks at none of  *)
(* the inputs of a build.                                                     *)
InspectUuid ==
  /\ tool = "configuring"
  /\ cmd.op = "inspect-uuid"
  /\ cmd.kind # "ca"
  /\ tool' = "built"
  /\ product' = cmd.kind
  /\ ForgetConfig
  /\ UNCHANGED <<buildVars, elfVars>>

(* clean_project, whose files are in CargoPublish. *)
Clean ==
  /\ tool = "configuring"
  /\ cmd.op = "clean"
  /\ tool' = "ended"
  /\ ForgetConfig
  /\ UNCHANGED <<product, buildVars, elfVars>>

(* Cargo cannot be started, or the product cannot be stripped or opened. *)
GivesUp ==
  /\ tool \in {"spawning", "built"}
  /\ tool' = "ended"
  /\ UNCHANGED <<configVars, product, buildVars, elfVars>>

(* build_binary: a plugin is a cdylib, the others are binaries. *)
SpawnCargo ==
  /\ tool = "spawning"
  /\ B!Spawn(IF product = "plugin" THEN "Cdylib" ELSE "Bin")
  /\ tool' = "building"
  /\ UNCHANGED <<configVars, product, elfVars>>

Building(step) ==
  /\ tool = "building"
  /\ step
  /\ UNCHANGED <<configVars, tool, product, elfVars>>

(* The build has returned.  Only a path goes on, and only a TA or a plugin    *)
(* has a UUID.                                                                *)
Built ==
  /\ tool = "building"
  /\ parent = "done"
  /\ tool' = IF result \in B!Paths /\ product # "ca" THEN "built" ELSE "ended"
  /\ B!Discard
  /\ UNCHANGED <<configVars, product, elfVars>>

(* sign_ta opens the stripped copy of the file, copy_plugin the file itself. *)
OpenElf ==
  /\ tool = "built"
  /\ elf' \in Elfs
  /\ tool' = "reading"
  /\ UNCHANGED <<configVars, product, buildVars, uuid>>

ReadUuid ==
  /\ tool = "reading"
  /\ U!Read
  /\ tool' = "ended"
  /\ UNCHANGED <<configVars, buildVars>>

----------------------------------------------------------------------------
CargoStep == Building(B!CargoStep)
BuildStep ==
  Configure \/ Configured \/ InspectUuid \/ Clean \/ SpawnCargo \/ Building(B!ParentStep) \/ Built

ToolNext == CargoStep \/ BuildStep \/ GivesUp \/ OpenElf \/ ReadUuid

(* Cargo runs on by itself, and so does the tool up to the end of the build. *)
ToolSpec == /\ ToolInit /\ [][ToolNext]_toolVars
            /\ WF_toolVars(CargoStep) /\ WF_toolVars(BuildStep)

----------------------------------------------------------------------------
(* The path that goes on is the only product of the package, of the kind the  *)
(* command is for, and a failed build is reported as one.                     *)
ResultIsTheProduct == B!ResultIsTheProduct

(* What is read as the UUID is what the loader finds at the symbol, in the    *)
(* layout of the product that was built.                                      *)
ReadsWhatIsLoaded == U!ReadsWhatIsLoaded

(* "Drain stdout to EOF before waiting so a full pipe cannot deadlock the     *)
(* child": every invocation gets past its build, whatever cargo writes.       *)
Ends == <>(tool \in {"built", "reading", "ended"})
============================================================================
