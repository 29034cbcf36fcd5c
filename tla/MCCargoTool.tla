---------------------------- MODULE MCCargoTool ----------------------------
(* CargoTool with flags, tables and environments that name different          *)
(* directories and keys, some of them missing, relative or empty; projects    *)
(* alone and in workspaces, with and without a table; builds that write up to *)
(* three messages through a pipe that holds one; and images with two segments *)
(* and up to one symbol, in an address space small enough for every sum to    *)
(* overflow somewhere.                                                        *)
EXTENDS CargoTool, TLC

MCCwd == <<"/", "project">>

MCDirs == {<<"/", "project">>, <<"/", "cli">>, <<"/", "project", "kit64">>,
           <<"/", "project", "ws", "ta", "kit64">>,
           <<"/", "kit32">>, <<"/", "env">>}
MCFiles == {<<"/", "project", "Cargo.toml">>, <<"/", "project", "ws", "Cargo.toml">>,
            <<"/", "project", "ws", "ta", "Cargo.toml">>,
            <<"/", "key">>, <<"/", "project", "meta.pem">>,
            <<"/", "project", "kit64", "keys", "default_ta.pem">>}

Kinds == {"ta", "ca", "plugin"}
Flags == {<<FALSE, FALSE>>, <<TRUE, FALSE>>, <<FALSE, TRUE>>}

Manifests == {None, <<"ws", "ta", "Cargo.toml">>}

(* clean and inspect-uuid take none of the flags of a build. *)
NoFlags ==
  [manifest |-> None, arch |-> None, debug |-> FALSE, std |-> FALSE, no_std |-> FALSE,
   dir |-> None, key |-> None, env |-> <<>>, features |-> {},
   no_default_features |-> FALSE, target_dir |-> None]

MCCommands ==
  {c \in
  {[op |-> op, kind |-> k, manifest |-> m, arch |-> a, debug |-> e # <<>>, std |-> f[1],
    no_std |-> f[2], dir |-> p, key |-> y, env |-> e,
    features |-> IF e = <<>> THEN {} ELSE IF p = None THEN {"extra"} ELSE {"std"},
    no_default_features |-> p # None,
    target_dir |-> IF op = "install" THEN <<"shared">> ELSE None] :
     op \in {"install", "clippy"}, k \in Kinds, m \in Manifests, a \in Arch \cup {None},
     f \in Flags, p \in {None, <<"/", "cli">>}, y \in {None, <<"/", "key">>},
     e \in {<<>>, <<<<"CROSS_COMPILE", "mine">>, <<"FOO", "cli">>>>}} : OwnFlags(c)}
  \cup {[op |-> "build", kind |-> k] @@ NoFlags : k \in Kinds}
  \cup {[op |-> "build", kind |-> "ta", manifest |-> m] @@ NoFlags :
          m \in {<<"/", "gone", "Cargo.toml">>, <<"ws", "Cargo.toml">>}}
  \cup {[op |-> op, kind |-> k] @@ NoFlags :
          op \in {"clean", "inspect-uuid"}, k \in {"ta", "plugin"}}

(* At most one value of a table is invalid. *)
Tables ==
  {[uuid_path |-> FALSE, arch |-> a[1], debug |-> a[2], std |-> None, dir |-> p, key |-> y,
    env |-> <<<<"FOO", "meta">>>>] :
     a \in {<<None, None>>, <<"arm", None>>, <<"invalid", None>>, <<None, "invalid">>},
     p \in {[aarch64 |-> <<"kit64">>, arm |-> <<"/", "kit32">>],
            [aarch64 |-> <<>>, arm |-> <<"missing">>],
            [aarch64 |-> None, arm |-> <<"/", "kit32">>], [a2 \in Arch |-> <<"kit64">>]},
     y \in {None, <<>>, <<"meta.pem">>}}

SomeTable == CHOOSE t \in Tables : TRUE

Package(d, t) == [dir |-> d, table |-> [k \in Kinds |-> t]]
Alone(t) == [root |-> <<"/", "project">>, packages |-> <<Package(<<"/", "project">>, t)>>]

(* A project by itself, and workspaces with and without a package in the root. *)
MCWorkspaces ==
  {Alone(t) : t \in Tables \cup {None, [SomeTable EXCEPT !.uuid_path = TRUE]}} \cup
  {[root |-> <<"/", "project", "ws">>, packages |-> p] :
     p \in {<<Package(<<"/", "project", "ws", "ca">>, None),
              Package(<<"/", "project", "ws", "ta">>, SomeTable)>>,
            <<Package(<<"/", "project", "ws", "ta">>, None),
              Package(<<"/", "project", "ws">>, SomeTable)>>}}

(* No step looks at both the signing key and the directory of the targets. *)
MCEnvironments ==
  {[TA_DEV_KIT_DIR |-> p, OPTEE_CLIENT_EXPORT |-> p, TA_SIGN_KEY |-> y,
    RUSTFLAGS |-> {"inherited"}, CROSS_COMPILE |-> c,
    SRC_ROOT |-> IF y = None THEN "there" ELSE None] :
     p \in {None, <<"/", "env">>}, y \in {None, <<"/", "gone">>}, c \in {"", "prefix"}}

Artifact(own, test, build, exe, cdylib, so) ==
  [what |-> "artifact", own |-> own, test |-> test, build |-> build, exe |-> exe,
   cdylib |-> cdylib, so |-> so]

MCMessages ==
  {[what |-> "text"], [what |-> "bad"],
   Artifact(TRUE, FALSE, FALSE, "ta", FALSE, {}),
   Artifact(TRUE, FALSE, FALSE, "other", TRUE, {"lib.so"}),
   Artifact(TRUE, TRUE, FALSE, "test", FALSE, {}),
   Artifact(TRUE, FALSE, TRUE, "build.rs", FALSE, {}),
   Artifact(TRUE, FALSE, FALSE, None, TRUE, {"lib.so", "lib2.so"}),
   Artifact(FALSE, FALSE, FALSE, "dependency", TRUE, {"dep.so"})}

Segments == {[load |-> l, vaddr |-> v, memsz |-> m, filesz |-> f, offset |-> o] :
               l \in {TRUE}, v \in {0, 2, 5}, m \in {3, 4}, f \in {1, 3, 4}, o \in {0, 3, 6}}

Symbols == {[defined |-> d, bind |-> "GLOBAL", type |-> t, value |-> v, size |-> z] :
              d \in BOOLEAN, t \in {"OBJECT", "FUNC"}, v \in {0, 1, 3, 6}, z \in {0, 1, 2, 4}}

Note == [load |-> FALSE, vaddr |-> 0, memsz |-> 7, filesz |-> 7, offset |-> 0]

Targets == {[machine |-> m, class |-> c, le |-> TRUE, dyn |-> TRUE] :
              m \in {"AARCH64", "ARM"}, c \in {32, 64}}

MCElfs ==
  {[little_endian |-> t.le, dyn |-> t.dyn, machine |-> t.machine, class |-> t.class,
    dynsyms |-> d, phdrs |-> p, length |-> 7] :
     t \in Targets \cup {[machine |-> "ARM", class |-> 32, le |-> FALSE, dyn |-> TRUE]},
     d \in {<<>>} \cup {<<s>> : s \in Symbols},
     p \in {<<Note, s>> : s \in Segments} \cup
           {<<s, q>> : s \in {x \in Segments : x.memsz = 3 /\ x.offset # 3},
                       q \in {x \in Segments : x.vaddr # 0 /\ x.filesz = 3 /\ x.offset = 3}}}
============================================================================
