------------------------------- MODULE TaBuild -------------------------------
(***************************************************************************)
(* The build script of a TA (optee-utee-build) under cargo: Builder::build *)
(* writes the header, link_all writes the linker script and prints what    *)
(* cargo is to do, and with it what a later build depends on.  Cargo,      *)
(* which is external, runs the script again only if one of these has       *)
(* changed since it was last invoked.  Meanwhile somebody works on the     *)
(* TA_DEV_KIT_DIR, on the compiler and on build.rs.                        *)
(***************************************************************************)
EXTENDS Naturals, FiniteSets

CONSTANTS Kits,       \* directories TA_DEV_KIT_DIR may name
          Compilers,  \* commands CC may name
          Targets,    \* targets, with one OUT_DIR each
          MaxChanges  \* bound on what is changed or goes wrong from outside

ASSUME TargetsAssumption == Targets # {}

VARIABLES env,       \* the variables: kit ("unset" if there is none), cc, target
          template,  \* kit -> version of its ta.ld.S
          works,     \* compiler -> whether it "works", "fails" or is "missing"
          build_rs,  \* version of build.rs: the TaConfig in it
          out_dir,   \* target -> OUT_DIR: header, ta.lds and the arguments for the linker
          cargo,     \* target -> what cargo knows of the last run
          script,    \* the run in progress
          changes    \* changes and failures from outside so far
scriptVars == <<env, template, works, build_rs, out_dir, cargo, script, changes>>

Nothing == <<>>
Idle == [at |-> "idle"]

(* What cargo knows of a script that has not run to its end: which one.    *)
Unfinished(version) ==
  [ok |-> FALSE, config |-> version, modified |-> {}, watched |-> {}, env |-> [v \in {} |-> Nothing]]

ScriptInit ==
  /\ env \in [kit : Kits, cc : Compilers, target : Targets]
  /\ template = [k \in Kits |-> 0] /\ works = [c \in Compilers |-> "works"] /\ build_rs = 0
  /\ out_dir = [t \in Targets |-> [header |-> Nothing, lds |-> Nothing, kit |-> Nothing]]
  /\ cargo = [t \in Targets |-> Unfinished(build_rs)]
  /\ script = Idle /\ changes = 0

(* What generate_new_link_script gets on the compiler's stdout.  Its exit  *)
(* status is not looked at: after an error this is empty.                  *)
Preprocessed(kit, cc, target) ==
  IF works[cc] = "works" THEN <<kit, template[kit], cc, target>> ELSE <<"empty">>

-----------------------------------------------------------------------------
(* Cargo.                                                                  *)

(* Nothing the last run printed rerun-if-changed or rerun-if-env-changed   *)
(* for has changed since that run was invoked, and neither has build.rs.   *)
Fresh(t) ==
  /\ cargo[t].ok /\ cargo[t].config = build_rs /\ cargo[t].modified = {}
  /\ \A v \in DOMAIN cargo[t].env : cargo[t].env[v] = env[v]

(* cargo build, when the script has to run: from now on what is modified   *)
(* is newer than the run.                                                  *)
Invoke ==
  /\ script.at = "idle" /\ ~Fresh(env.target)
  /\ script' = [at |-> "header", env |-> env, config |-> build_rs, lds |-> Nothing]
  /\ cargo' = [cargo EXCEPT ![env.target] = Unfinished(build_rs)]
  /\ UNCHANGED <<env, template, works, build_rs, out_dir, changes>>

Change == changes < MaxChanges /\ changes' = changes + 1

(* The script fails on a file, or is killed, and may leave ta.lds written  *)
(* in part: it will run again.                                             *)
ScriptFails ==
  /\ Change /\ script.at # "idle" /\ script' = Idle
  /\ \/ UNCHANGED out_dir
     \/ script.at = "lds" /\ out_dir' = [out_dir EXCEPT ![script.env.target].lds = <<"part">>]
  /\ UNCHANGED <<env, template, works, build_rs, cargo>>

(* A file is modified at a time later than the last invocation.            *)
Modified(t, file) == [cargo EXCEPT ![t].modified = @ \union {file}]

-----------------------------------------------------------------------------
(* The build script.                                                       *)

(* The script goes on to a step, with a linker script to write. *)
Goes(at, lds) == script' = [at |-> at, env |-> script.env, config |-> script.config, lds |-> lds]

(* write_header_file creates the file, *)
CreateHeader ==
  /\ script.at = "header"
  /\ out_dir' = [out_dir EXCEPT ![script.env.target].header = Nothing]
  /\ Goes("generate", script.lds)
  /\ UNCHANGED <<env, template, works, build_rs, cargo, changes>>

(* and writes the code that was generated to it.                           *)
WriteHeader ==
  /\ script.at = "generate"
  /\ out_dir' = [out_dir EXCEPT ![script.env.target].header = <<script.config>>]
  /\ Goes("kit", script.lds)
  /\ UNCHANGED <<env, template, works, build_rs, cargo, changes>>

(* Mutant: the compiler is not among the variables to watch. *)
DirectivesFew(s) == [env |-> [v \in {"kit"} |-> s.env[v]], watched |-> {s.env.kit, "ta.lds"}]

(* What link_all has told cargo to watch when it ends.  TARGET and the     *)
(* architecture are set by cargo, which has an OUT_DIR for each.           *)
Directives(s) == [env |-> [v \in {"kit", "cc"} |-> s.env[v]], watched |-> {s.env.kit, "ta.lds"}]

(* generate_new_link_script, for which TA_DEV_KIT_DIR has to be set and    *)
(* the command has to be there: the compiler reads the template.           *)
Preprocess ==
  /\ script.at = "kit"
  /\ IF script.env.kit = "unset" \/ works[script.env.cc] = "missing" THEN script' = Idle
     ELSE Goes("lds", Preprocessed(script.env.kit, script.env.cc, script.env.target))
  /\ UNCHANGED <<env, template, works, build_rs, out_dir, cargo, changes>>

(* Mutant: the script is written whatever there is. *)
MustWriteAlways(old, new) == TRUE

(* ta.lds is left alone if it is what would be written. *)
MustWrite(old, new) == old # new

(* write_and_set_linker_script writes ta.lds, *)
WriteScript ==
  /\ script.at = "lds"
  /\ LET t == script.env.target
     IN  IF MustWrite(out_dir[t].lds, script.lds)
         THEN out_dir' = [out_dir EXCEPT ![t].lds = script.lds] /\ cargo' = Modified(t, "ta.lds")
         ELSE UNCHANGED <<out_dir, cargo>>
  /\ Goes("args", script.lds)
  /\ UNCHANGED <<env, template, works, build_rs, changes>>

(* and link_all prints the arguments, creates dyn_list and ends; cargo     *)
(* keeps what it printed.                                                  *)
Finish ==
  /\ script.at = "args" /\ script' = Idle
  /\ LET t == script.env.target
         d == Directives(script)
     IN  /\ out_dir' = [out_dir EXCEPT ![t].kit = <<script.env.kit>>]
         /\ cargo' = [cargo EXCEPT ![t] = [ok |-> TRUE, config |-> script.config, env |-> d.env,
                                           watched |-> d.watched, modified |-> @.modified \intersect d.watched]]
  /\ UNCHANGED <<env, template, works, build_rs, changes>>

-----------------------------------------------------------------------------
(* Changes from outside, at any time.                                      *)

SetEnv(e) == Change /\ e # env /\ env' = e /\ UNCHANGED <<template, works, build_rs, out_dir, cargo, script>>

(* Every run, finished or not, is older than the new template. *)
EditTemplate(k) ==
  /\ Change /\ template' = [template EXCEPT ![k] = @ + 1]
  /\ cargo' = [t \in Targets |->
                 IF ~cargo[t].ok \/ k \in cargo[t].watched
                 THEN [cargo[t] EXCEPT !.modified = @ \union {k}] ELSE cargo[t]]
  /\ UNCHANGED <<env, works, build_rs, out_dir, script>>

(* A compiler is broken, removed or repaired; no file of the kit changes.  *)
SwitchCompiler(c) ==
  /\ Change /\ \E w \in {"works", "fails", "missing"} \ {works[c]} : works' = [works EXCEPT ![c] = w]
  /\ UNCHANGED <<env, template, build_rs, out_dir, cargo, script>>

EditBuildRs == Change /\ build_rs' = build_rs + 1 /\ UNCHANGED <<env, template, works, out_dir, cargo, script>>

(* ta.lds is deleted, which is a change of it. *)
DeleteScript(t) ==
  /\ Change /\ out_dir[t].lds # Nothing /\ script.at = "idle"
  /\ out_dir' = [out_dir EXCEPT ![t].lds = Nothing] /\ cargo' = Modified(t, "ta.lds")
  /\ UNCHANGED <<env, template, works, build_rs, script>>

Steps == Invoke \/ CreateHeader \/ WriteHeader \/ Preprocess \/ WriteScript \/ Finish
ScriptNext ==
  \/ Steps \/ ScriptFails \/ EditBuildRs
  \/ \E e \in [kit : Kits \union {"unset"}, cc : Compilers, target : Targets] : SetEnv(e)
  \/ \E k \in Kits : EditTemplate(k)
  \/ \E c \in Compilers : SwitchCompiler(c)
  \/ \E t \in Targets : DeleteScript(t)

(* The developer goes on building, and a script that runs goes on.         *)
ScriptSpec == ScriptInit /\ [][ScriptNext]_scriptVars /\ WF_scriptVars(Steps)

-----------------------------------------------------------------------------
(* When cargo takes the last run of the script for current, and so links   *)
(* with what it left, that is what a run would leave now: the header of    *)
(* this build.rs, and the linker script and the libraries of the kit, the  *)
(* compiler and the target that are set.  Only a compiler that failed      *)
(* during the run, of which the script takes no notice, leaves an empty    *)
(* linker script behind.                                                   *)
FreshIsCurrent ==
  Fresh(env.target) /\ script.at = "idle" =>
    LET o == out_dir[env.target]
    IN  /\ o.header = <<build_rs>> /\ o.kit = <<env.kit>>
        /\ o.lds \in {<<env.kit, template[env.kit], env.cc, env.target>>, <<"empty">>}

(* Once nothing is changed any more, and unless the kit or the compiler is *)
(* missing, cargo stops running the script, although a run may touch the   *)
(* file that it tells cargo to watch.                                      *)
Settles == <>[](env.kit = "unset" \/ works[env.cc] = "missing") \/ <>[](Fresh(env.target))
=============================================================================
