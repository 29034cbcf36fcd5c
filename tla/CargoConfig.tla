---------------------------- MODULE CargoConfig ----------------------------
(***************************************************************************)
(* tools/cargo-optee, from the command line to the cargo command that is   *)
(* run: main.rs and cli.rs take the flags, config.rs resolves the          *)
(* configuration from flags, Cargo.toml metadata, environment and          *)
(* defaults, ta_builder.rs and ca_builder.rs set up the cargo command.     *)
(* A path is a sequence of components, absolute when it starts with "/".   *)
(***************************************************************************)
EXTENDS Naturals, Sequences

CONSTANTS
  Commands,      \* command lines: records of op, kind and flags
  Workspaces,    \* what cargo metadata says: a root and packages with their tables
  Environments,  \* environments the tool is started in
  Cwd,           \* the directory the tool is started in
  Dirs, RegularFiles,  \* the absolute paths that are directories and files
  None           \* an option that is None

VARIABLES
  cmd, workspace, environ,  \* the inputs
  stage,   \* "start", "resolved", "formatted", "ready" or "failed"
  meta,    \* the [package.metadata.optee.<kind>] table that was read, or None
  config,  \* the resolved configuration
  child    \* the environment and target of the cargo command

configVars == <<cmd, workspace, environ, stage, meta, config, child>>

Arch == {"aarch64", "arm"}

(* The commands that resolve a configuration; clean and inspect-uuid do not. *)
Configures(c) == c.op \in {"build", "install", "clippy"}

(* --std excludes --no-std, and only a TA has these and a key. *)
OwnFlags(c) ==
  /\ ~(c.std /\ c.no_std)
  /\ c.kind # "ta" => ~c.std /\ ~c.no_std /\ c.key = None

(* What clap accepts.  Every key of --env has a value. *)
Parsed(c) ==
  /\ Configures(c) \/ c.op \in {"clean", "inspect-uuid"}
  /\ c.kind \in {"ta", "ca", "plugin"}
  /\ c.arch \in Arch \cup {None}
  /\ \A i \in DOMAIN c.env : Len(c.env[i]) = 2
  /\ OwnFlags(c)

ASSUME CommandsAssumption == \A c \in Commands : Parsed(c)

----------------------------------------------------------------------------
IsAbsolute(p) == p # <<>> /\ p[1] = "/"

(* absolute_from_cwd: the directory of --target-dir. *)
AbsoluteFromCwd(p) == IF IsAbsolute(p) THEN p ELSE Cwd \o p

(* resolve_project_path: the directory of --manifest-path, or the current one. *)
ProjectPath ==
  IF cmd.manifest = None THEN Cwd
  ELSE AbsoluteFromCwd(SubSeq(cmd.manifest, 1, Len(cmd.manifest) - 1))

(* Cargo metadata describes the workspace of the project. *)
Describes(w) ==
  \/ ProjectPath \o <<"Cargo.toml">> \notin RegularFiles
  \/ ProjectPath \in {w.root} \cup {w.packages[i].dir : i \in DOMAIN w.packages}

ConfigInit ==
  /\ cmd \in Commands
  /\ workspace \in Workspaces
  /\ Describes(workspace)
  /\ environ \in Environments
  /\ stage = "start"
  /\ meta = None
  /\ config = None
  /\ child = None

(* The package in the root of the workspace, for a project that is none. *)
RootPackages(w) == SelectSeq(w.packages, LAMBDA p : p.dir = w.root)

(* The path of the manifest is looked for as a part of the package's own. *)
MatchingPackages(w) ==
  SelectSeq(w.packages, LAMBDA p : \E i \in 1 .. Len(p.dir) + 1 :
                                     SubSeq(p.dir, i, Len(p.dir)) = Tail(ProjectPath))

(* discover_app_metadata: the packages to take the table from, best first. *)
Candidates(w) == RootPackages(w) \o MatchingPackages(w)

Discoverable(w) ==
  /\ ProjectPath \o <<"Cargo.toml">> \in RegularFiles
  /\ Candidates(w) # <<>>

DiscoverAppMetadata(w) == Candidates(w)[1].table[cmd.kind]

(* Option::or_else. *)
OrElse(option, other) == IF option = None THEN other ELSE option

(* The --std and --no-std flags. *)
StdMode == IF cmd.std = cmd.no_std THEN None ELSE IF cmd.std THEN "true" ELSE "false"

(* --debug only ever forces debug. *)
DebugOverride == IF cmd.debug THEN "true" ELSE None

(* Mutant: the metadata is read for its own architecture. *)
MetaArchOwn(m) == IF m.arch = None THEN "aarch64" ELSE m.arch

(* The architecture whose entries of the table are read. *)
MetaArch(m) == IF cmd.arch # None THEN cmd.arch
               ELSE IF m.arch = None THEN "aarch64" ELSE m.arch

(* The tables that extract_build_config refuses. *)
Refused(m) == m.uuid_path \/ MetaArch(m) = "invalid" \/ "invalid" \in {m.debug, m.std}

NonEmpty(p) == IF p = <<>> THEN None ELSE p

(* metadata_bool: a missing key is false. *)
MetadataBool(v) == IF v = None THEN "false" ELSE v

(* The table, or nothing where there is none.  dir stands for ta-dev-kit-dir *)
(* or optee-client-export: a path per architecture, the same for both when it *)
(* is given as a plain string.                                               *)
ExtractBuildConfig(m) ==
  IF m = None
  THEN [arch |-> None, debug |-> None, std |-> None,
        dir |-> None, key |-> None, env |-> <<>>]
  ELSE [arch |-> MetaArch(m), debug |-> MetadataBool(m.debug), std |-> MetadataBool(m.std),
        dir |-> NonEmpty(m.dir[MetaArch(m)]),
        key |-> IF cmd.kind = "ta" THEN NonEmpty(m.key) ELSE None,
        env |-> m.env]

(* Relative paths are relative to the project. *)
Place(p) == IF IsAbsolute(p) THEN p ELSE ProjectPath \o p

DirVariable == IF cmd.kind = "ta" THEN "TA_DEV_KIT_DIR" ELSE "OPTEE_CLIENT_EXPORT"

(* Mutant: the environment comes before the metadata. *)
ConfigPathEnvFirst(x) == OrElse(cmd.dir, OrElse(environ[DirVariable], x.dir))

(* resolve_config_path: command line, metadata, environment. *)
ConfigPath(x) == OrElse(cmd.dir, OrElse(x.dir, environ[DirVariable]))

(* clippy drops the flag. *)
KeyFlag == IF cmd.op = "clippy" THEN None ELSE cmd.key

SigningKey(x) == OrElse(KeyFlag, OrElse(x.key, OrElse(environ["TA_SIGN_KEY"],
                          ConfigPath(x) \o <<"keys", "default_ta.pem">>)))

NeedSigningKey == cmd.kind = "ta" /\ cmd.op # "clippy"

MergedEnv(x) == x.env \o cmd.env

(* TaBuildConfig::resolve and CaBuildConfig::resolve: what they return. *)
Resolved(x) ==
  [arch  |-> OrElse(cmd.arch, OrElse(x.arch, "aarch64")),
   debug |-> OrElse(DebugOverride, OrElse(x.debug, "false")),
   std   |-> OrElse(StdMode, OrElse(x.std, "false")),
   dir   |-> Place(ConfigPath(x)),
   key   |-> IF NeedSigningKey THEN Place(SigningKey(x)) ELSE <<>>,
   env   |-> MergedEnv(x),
   features |-> cmd.features,
   no_default_features |-> cmd.no_default_features,
   path  |-> ProjectPath,
   install |-> IF cmd.op = "install" THEN AbsoluteFromCwd(cmd.target_dir) ELSE None]

Resolvable(m) ==
  /\ m = None \/ ~Refused(m)
  /\ LET x == ExtractBuildConfig(m) IN
       /\ ConfigPath(x) # None
       /\ Place(ConfigPath(x)) \in Dirs
       /\ NeedSigningKey => Place(SigningKey(x)) \in RegularFiles

ConfigFails ==
  /\ stage' = "failed"
  /\ UNCHANGED <<cmd, workspace, environ, meta, config, child>>

Resolve ==
  /\ stage = "start"
  /\ Configures(cmd)
  /\ IF Discoverable(workspace) /\ Resolvable(DiscoverAppMetadata(workspace))
     THEN /\ meta' = DiscoverAppMetadata(workspace)
          /\ config' = Resolved(ExtractBuildConfig(meta'))
          /\ stage' = "resolved"
          /\ UNCHANGED <<cmd, workspace, environ, child>>
     ELSE ConfigFails

(* The directory or the manifest has gone, or a toolchain is not installed.   *)
NotPrepared ==
  /\ stage = "resolved"
  /\ ConfigFails

(* run_clippy starts with cargo fmt, before anything is set up. *)
CargoFmt ==
  /\ stage = "resolved"
  /\ cmd.op = "clippy"
  /\ \/ ConfigFails
     \/ /\ stage' = "formatted"
        /\ UNCHANGED <<cmd, workspace, environ, meta, config, child>>

Prepared == stage = IF cmd.op = "clippy" THEN "formatted" ELSE "resolved"

(* BuildMode and TARGET_CONFIGS: the triple of an architecture. *)
Target(arch) == [arch |-> arch,
                 os |-> IF cmd.kind = "ta" /\ config.std = "true" THEN "optee" ELSE "linux"]

(* resolve_target_and_cross_compile: an empty variable counts as unset. *)
CrossCompile(arch) ==
  IF environ["CROSS_COMPILE"] \in {None, ""} THEN arch ELSE environ["CROSS_COMPILE"]

(* Command::env. *)
WithVar(e, key, value) == [k \in DOMAIN e \cup {key} |-> IF k = key THEN value ELSE e[k]]

(* The same for every pair, in order: the last one for a variable stays. *)
WithEnv(e, pairs) ==
  LET for(k) == {i \in DOMAIN pairs : pairs[i][1] = k}
      last(k) == CHOOSE i \in for(k) : \A j \in for(k) : j <= i
  IN  [k \in DOMAIN e \cup {pairs[i][1] : i \in DOMAIN pairs} |->
         IF for(k) = {} THEN e[k] ELSE pairs[last(k)][2]]

RustFlags ==
  (IF environ["RUSTFLAGS"] = None THEN {} ELSE environ["RUSTFLAGS"]) \cup {"panic=abort"}
    \cup (IF config.std = "true" THEN {"unstable-options"} ELSE {})

(* The kit and the cross compiler. *)
Reserved(e) ==
  WithVar(WithVar(e, "TA_DEV_KIT_DIR", config.dir), "CROSS_COMPILE", CrossCompile(config.arch))

(* setup_custom_targets: the directory of the two target files; and the       *)
(* sources of the standard library.                                           *)
StdVariables(e) ==
  IF config.std = "true"
  THEN WithVar(WithVar(e, "RUST_TARGET_PATH", "temporary"), "SRC_ROOT", environ["SRC_ROOT"])
  ELSE e

(* Mutant: the custom variables are applied last. *)
TaEnvironmentCustomLast ==
  StdVariables(WithEnv(Reserved(WithVar(environ, "RUSTFLAGS", RustFlags)), config.env))

(* setup_build_command: RUSTFLAGS, the custom variables, then the others. *)
TaEnvironment ==
  StdVariables(Reserved(WithEnv(WithVar(environ, "RUSTFLAGS", RustFlags), config.env)))

(* The features of a TA begin with std for a std build. *)
Features == config.features \cup
  (IF cmd.kind = "ta" /\ config.std = "true" THEN {"std"} ELSE {})

DenyLints == {"warnings", "clippy::unwrap_used", "clippy::expect_used", "clippy::panic"}

(* build_binary adds the profile and the linker, run_clippy the denied lints. *)
CargoCommand(env) ==
  [env |-> env, target |-> Target(config.arch), cwd |-> config.path, features |-> Features,
   no_default_features |-> config.no_default_features,
   release |-> cmd.op # "clippy" /\ config.debug = "false",
   linker |-> IF cmd.op = "clippy" THEN None ELSE CrossCompile(config.arch),
   deny |-> IF cmd.op = "clippy" THEN DenyLints ELSE {}]

(* A std build needs the sources of the standard library. *)
SetupBuildCommand ==
  /\ Prepared
  /\ cmd.kind = "ta"
  /\ IF config.std = "true" /\ environ["SRC_ROOT"] # "there"
     THEN ConfigFails
     ELSE /\ child' = CargoCommand(TaEnvironment)
          /\ stage' = "ready"
          /\ UNCHANGED <<cmd, workspace, environ, meta, config>>

SetupCaCargoCommand ==
  /\ Prepared
  /\ cmd.kind # "ta"
  /\ child' = CargoCommand(WithEnv(WithVar(environ, DirVariable, config.dir), config.env))
  /\ stage' = "ready"
  /\ UNCHANGED <<cmd, workspace, environ, meta, config>>

ConfigNext == Resolve \/ NotPrepared \/ CargoFmt \/ SetupBuildCommand \/ SetupCaCargoCommand

----------------------------------------------------------------------------
(* What the table says for the architecture that is built for. *)
TableDir == IF meta = None THEN None ELSE NonEmpty(meta.dir[config.arch])
TableKey == IF meta = None THEN None ELSE NonEmpty(meta.key)

(* The directory of another architecture is never built against: whichever    *)
(* of the flag and the table chose the architecture, a directory that the     *)
(* command line does not name is the entry of the table for the architecture  *)
(* the command builds for or, where that is empty, the environment's.         *)
DirForArch ==
  config # None /\ cmd.dir = None =>
    LET dir == OrElse(TableDir, environ[DirVariable])
    IN  dir # None /\ config.dir = Place(dir)

(* "Environment variables - Used when CLI and metadata omit a value"          *)
(* (README.md of the tool): where the command line or the table names a       *)
(* directory that applies to this architecture, or a key to sign with, one of *)
(* those is used, and neither the environment nor a default.                  *)
EnvironmentLast ==
  config # None =>
    /\ cmd.dir # None \/ TableDir # None =>
         config.dir \in {Place(d) : d \in {cmd.dir, TableDir} \ {None}}
    /\ NeedSigningKey /\ (cmd.key # None \/ TableKey # None) =>
         config.key \in {Place(k) : k \in {cmd.key, TableKey} \ {None}}

(* Every cargo command for a TA carries the cross compiler of its             *)
(* architecture, which is its linker as well, and the kit that was resolved   *)
(* and printed, whatever custom variables say.  The std feature is on for the *)
(* target that has a standard library of OP-TEE, and for another one only if  *)
(* it was asked for by name.                                                  *)
ToolchainMatches ==
  stage = "ready" /\ cmd.kind = "ta" =>
    /\ child.env["TA_DEV_KIT_DIR"] = config.dir
    /\ child.env["CROSS_COMPILE"] = CrossCompile(child.target.arch)
    /\ child.linker \in {None, child.env["CROSS_COMPILE"]}
    /\ ("std" \in child.features) = (child.target.os = "optee" \/ "std" \in cmd.features)
=============================================================================
