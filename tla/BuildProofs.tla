----------------------------- MODULE BuildProofs ----------------------------
(***************************************************************************)
(* Proofs about the builds: the build script of a TA under cargo           *)
(* (TaBuild), for any kits, compilers, targets and changes, and the builds *)
(* of cargo-optee that run at the same time (CargoPublish), for any number *)
(* of builds and edits.  Of what is built with them, the training of a     *)
(* model and the answers from it (Mnist), for any data, runs and requests. *)
(***************************************************************************)
EXTENDS TaBuild, CargoPublish, Mnist, TLAPS

-----------------------------------------------------------------------------
(* TaBuild: what cargo takes for current. *)

(* Values of the variables of cargo, and of what cargo knows and OUT_DIR   *)
(* holds: records with these fields.                                       *)
Settings == [kit : Kits \union {"unset"}, cc : Compilers, target : Targets]
KnownAs(c) == c = [ok |-> c.ok, config |-> c.config, modified |-> c.modified, watched |-> c.watched, env |-> c.env]
HeldAs(o) == o = [header |-> o.header, lds |-> o.lds, kit |-> o.kit]

ScriptShape ==
  /\ env \in Settings /\ template \in [Kits -> Nat]
  /\ out_dir = [t \in Targets |-> out_dir[t]] /\ \A t \in Targets : HeldAs(out_dir[t])
  /\ cargo = [t \in Targets |-> cargo[t]] /\ \A t \in Targets : KnownAs(cargo[t])
  /\ \/ script = Idle
     \/ /\ script = [at |-> script.at, env |-> script.env, config |-> script.config, lds |-> script.lds]
        /\ script.at \in {"header", "generate", "kit", "lds", "args"} /\ script.env \in Settings

(* The linker script was made from kit k by compiler c for target t, and   *)
(* from the template there is now unless that is among what was modified.  *)
MadeFrom(lds, k, c, t, modified) ==
  /\ k \in Kits
  /\ lds = <<"empty">> \/ k \in modified \/ lds = <<k, template[k], c, t>>

(* How far the run in progress is.                                         *)
InProgress ==
  script # Idle =>
    LET t == script.env.target
    IN  /\ ~cargo[t].ok
        /\ script.at \in {"kit", "lds", "args"} => out_dir[t].header = <<script.config>>
        /\ script.at \in {"lds", "args"} =>
             MadeFrom(script.lds, script.env.kit, script.env.cc, t, cargo[t].modified)
        /\ script.at = "args" => out_dir[t].lds = script.lds

(* What a run that has ended left, and what cargo watches since.           *)
Left(t) ==
  LET c == cargo[t]
      o == out_dir[t]
  IN  /\ DOMAIN c.env = {"kit", "cc"} /\ c.env["kit"] \in c.watched
      /\ o.header = <<c.config>> /\ o.kit = <<c.env["kit"]>>
      /\ "ta.lds" \notin c.modified => MadeFrom(o.lds, c.env["kit"], c.env["cc"], t, c.modified)
RunsEnded == \A t \in Targets : cargo[t].ok => Left(t)

(* The inductive invariant.                                                *)
ScriptIInv == ScriptShape /\ InProgress /\ RunsEnded

(* It holds initially.                                                     *)
LEMMA ScriptInitIInv == ScriptInit => ScriptIInv
<1> SUFFICES ASSUME ScriptInit PROVE ScriptIInv
  OBVIOUS
<1>1. ScriptShape
  BY DEF ScriptInit, ScriptShape, Settings, HeldAs, KnownAs, Unfinished
<1>2. \A t \in Targets : ~cargo[t].ok
  BY DEF ScriptInit, Unfinished
<1> QED BY <1>1, <1>2 DEF ScriptInit, ScriptIInv, InProgress, RunsEnded

(* Cargo invokes the script.                                               *)
LEMMA InvokeKeeps == ASSUME ScriptIInv, Invoke PROVE ScriptIInv'
<1> DEFINE u == env.target
           n == Unfinished(build_rs)
           s == [at |-> "header", env |-> env, config |-> build_rs, lds |-> Nothing]
<1>1. /\ script' = s /\ cargo' = [cargo EXCEPT ![u] = n] /\ u \in Targets /\ env \in Settings
      /\ UNCHANGED <<env, template, works, build_rs, out_dir>>
  BY DEF Invoke, ScriptIInv, ScriptShape, Settings
<1>2. KnownAs(n) /\ n.ok = FALSE
  BY DEF KnownAs, Unfinished
<1>3. s.at = "header" /\ s.env = env /\ s = [at |-> s.at, env |-> s.env, config |-> s.config, lds |-> s.lds]
  OBVIOUS
<1> HIDE DEF n, s
<1>4. /\ cargo'[u] = n /\ \A t \in Targets : t # u => cargo'[t] = cargo[t]
      /\ cargo' = [t \in Targets |-> cargo'[t]]
  BY <1>1 DEF ScriptIInv, ScriptShape
<1>5. ScriptShape'
  BY <1>1, <1>2, <1>3, <1>4 DEF ScriptIInv, ScriptShape
<1>6. InProgress'
  BY <1>1, <1>2, <1>3, <1>4 DEF InProgress
<1>7. RunsEnded'
  BY <1>1, <1>2, <1>4 DEF ScriptIInv, RunsEnded, Left, MadeFrom
<1> QED BY <1>5, <1>6, <1>7 DEF ScriptIInv

(* OUT_DIR holds r for target u, and for the others what it held.          *)
OutBecomes(u, r) ==
  /\ out_dir'[u] = r
  /\ \A t \in Targets : t # u => out_dir'[t] = out_dir[t]
  /\ out_dir' = [t \in Targets |-> out_dir'[t]]

(* The header of target u is written, *)
LEMMA OutHeader ==
  ASSUME ScriptIInv, NEW u \in Targets, NEW x, out_dir' = [out_dir EXCEPT ![u].header = x]
  PROVE  OutBecomes(u, [header |-> x, lds |-> out_dir[u].lds, kit |-> out_dir[u].kit])
<1>1. out_dir[u] = [header |-> out_dir[u].header, lds |-> out_dir[u].lds, kit |-> out_dir[u].kit]
  BY DEF ScriptIInv, ScriptShape, HeldAs
<1>2. out_dir = [t \in Targets |-> out_dir[t]]
  BY DEF ScriptIInv, ScriptShape
<1> QED BY <1>1, <1>2 DEF OutBecomes

(* its linker script, *)
LEMMA OutLds ==
  ASSUME ScriptIInv, NEW u \in Targets, NEW x, out_dir' = [out_dir EXCEPT ![u].lds = x]
  PROVE  OutBecomes(u, [header |-> out_dir[u].header, lds |-> x, kit |-> out_dir[u].kit])
<1>1. out_dir[u] = [header |-> out_dir[u].header, lds |-> out_dir[u].lds, kit |-> out_dir[u].kit]
  BY DEF ScriptIInv, ScriptShape, HeldAs
<1>2. out_dir = [t \in Targets |-> out_dir[t]]
  BY DEF ScriptIInv, ScriptShape
<1> QED BY <1>1, <1>2 DEF OutBecomes

(* or what it was linked with. *)
LEMMA OutKit ==
  ASSUME ScriptIInv, NEW u \in Targets, NEW x, out_dir' = [out_dir EXCEPT ![u].kit = x]
  PROVE  OutBecomes(u, [header |-> out_dir[u].header, lds |-> out_dir[u].lds, kit |-> x])
<1>1. out_dir[u] = [header |-> out_dir[u].header, lds |-> out_dir[u].lds, kit |-> out_dir[u].kit]
  BY DEF ScriptIInv, ScriptShape, HeldAs
<1>2. out_dir = [t \in Targets |-> out_dir[t]]
  BY DEF ScriptIInv, ScriptShape
<1> QED BY <1>1, <1>2 DEF OutBecomes

(* What the script knows when it goes on.                                  *)
LEMMA GoesFacts ==
  ASSUME ScriptIInv, script # Idle, NEW p \in {"header", "generate", "kit", "lds", "args"}, NEW x, Goes(p, x)
  PROVE  /\ script' # Idle /\ script'.at = p /\ script'.lds = x
         /\ script'.env = script.env /\ script'.config = script.config
         /\ script' = [at |-> script'.at, env |-> script'.env, config |-> script'.config, lds |-> script'.lds]
         /\ script.env \in Settings /\ script.env.target \in Targets
         /\ script'.at \in {"header", "generate", "kit", "lds", "args"} /\ script'.env \in Settings
<1>1. script.env \in Settings /\ script.env.target \in Targets
  BY DEF ScriptIInv, ScriptShape, Settings
<1>2. script'.at = p /\ p # "idle"
  BY DEF Goes
<1> QED BY <1>1, <1>2 DEF Goes, Idle

(* write_header_file. *)
LEMMA HeaderKeeps == ASSUME ScriptIInv, CreateHeader \/ WriteHeader PROVE ScriptIInv'
<1> DEFINE u == script.env.target
           p == IF CreateHeader THEN "generate" ELSE "kit"
           x == IF CreateHeader THEN Nothing ELSE <<script.config>>
<1>1. /\ script # Idle /\ Goes(p, script.lds) /\ UNCHANGED <<env, template, cargo>>
      /\ out_dir' = [out_dir EXCEPT ![u].header = x]
  <2>1. CASE CreateHeader
    BY <2>1 DEF CreateHeader, Idle
  <2>2. CASE ~CreateHeader
    <3>1. WriteHeader
      BY <2>2
    <3> QED BY <2>2, <3>1 DEF WriteHeader, Idle
  <2> QED BY <2>1, <2>2
<1>0. p \in {"generate", "kit"} /\ (p = "kit" => x = <<script.config>>)
  OBVIOUS
<1> HIDE DEF p, x
<1>2. /\ script' # Idle /\ script'.at = p /\ script'.env = script.env /\ script'.config = script.config
      /\ script' = [at |-> script'.at, env |-> script'.env, config |-> script'.config, lds |-> script'.lds]
      /\ u \in Targets /\ script'.env \in Settings
  BY <1>0, <1>1, GoesFacts
<1>3. /\ out_dir'[u] = [header |-> x, lds |-> out_dir[u].lds, kit |-> out_dir[u].kit]
      /\ \A t \in Targets : t # u => out_dir'[t] = out_dir[t]
      /\ out_dir' = [t \in Targets |-> out_dir'[t]]
  <2>1. OutBecomes(u, [header |-> x, lds |-> out_dir[u].lds, kit |-> out_dir[u].kit])
    BY <1>1, <1>2, OutHeader, Zenon
  <2> QED BY <2>1, Zenon DEF OutBecomes
<1>4. ~cargo[u].ok
  BY <1>1 DEF ScriptIInv, InProgress
<1> HIDE DEF u
<1>5. ScriptShape'
  BY <1>0, <1>1, <1>2, <1>3 DEF ScriptIInv, ScriptShape, HeldAs, KnownAs
<1>6. InProgress'
  BY <1>0, <1>1, <1>2, <1>3, <1>4 DEF InProgress, u
<1>7. RunsEnded'
  BY <1>1, <1>3, <1>4, Zenon DEF ScriptIInv, RunsEnded, Left, MadeFrom
<1> QED BY <1>5, <1>6, <1>7 DEF ScriptIInv

(* generate_new_link_script: the compiler reads the template there is now. *)
LEMMA PreprocessKeeps == ASSUME ScriptIInv, Preprocess PROVE ScriptIInv'
<1>1. script # Idle /\ script.at = "kit" /\ UNCHANGED <<env, template, cargo, out_dir>>
  BY DEF Preprocess, Idle
<1>2. CASE script' = Idle
  BY <1>1, <1>2, Zenon DEF ScriptIInv, ScriptShape, HeldAs, KnownAs, InProgress, RunsEnded, Left, MadeFrom
<1>3. CASE script' # Idle
  <2> DEFINE u == script.env.target
             new == Preprocessed(script.env.kit, script.env.cc, u)
  <2>1. Goes("lds", new) /\ script.env.kit # "unset"
    BY <1>3 DEF Preprocess
  <2>2. /\ script'.at = "lds" /\ script'.env = script.env /\ script'.config = script.config /\ script'.lds = new
        /\ script' = [at |-> script'.at, env |-> script'.env, config |-> script'.config, lds |-> script'.lds]
        /\ script.env \in Settings /\ script'.env \in Settings
    BY <1>1, <2>1, GoesFacts
  <2>3. MadeFrom(new, script.env.kit, script.env.cc, u, cargo[u].modified)
    BY <2>1, <2>2 DEF MadeFrom, Preprocessed, Settings
  <2> HIDE DEF new
  <2>4. ScriptShape'
    BY <1>1, <2>2 DEF ScriptIInv, ScriptShape, HeldAs, KnownAs
  <2>5. InProgress'
    BY <1>1, <2>2, <2>3 DEF ScriptIInv, InProgress, MadeFrom
  <2>6. RunsEnded'
    BY <1>1 DEF ScriptIInv, RunsEnded, Left, MadeFrom
  <2> QED BY <2>4, <2>5, <2>6 DEF ScriptIInv
<1> QED BY <1>2, <1>3

(* A file is modified: nothing but that is known of it.                    *)
LEMMA ModifiedFields ==
  ASSUME ScriptIInv, NEW u \in Targets, NEW f, cargo' = Modified(u, f)
  PROVE  /\ cargo'[u] = [ok |-> cargo[u].ok, config |-> cargo[u].config, modified |-> cargo[u].modified \union {f},
                         watched |-> cargo[u].watched, env |-> cargo[u].env]
         /\ \A t \in Targets : t # u => cargo'[t] = cargo[t]
         /\ cargo' = [t \in Targets |-> cargo'[t]]
<1>1. KnownAs(cargo[u]) /\ cargo = [t \in Targets |-> cargo[t]]
  BY DEF ScriptIInv, ScriptShape
<1> QED BY <1>1, Zenon DEF KnownAs, Modified

(* write_and_set_linker_script.                                            *)
LEMMA WriteScriptKeeps == ASSUME ScriptIInv, WriteScript PROVE ScriptIInv'
<1> DEFINE u == script.env.target
<1>1. script # Idle /\ script.at = "lds" /\ Goes("args", script.lds) /\ UNCHANGED <<env, template>>
  BY DEF WriteScript, Idle
<1>2. /\ script'.at = "args" /\ script'.env = script.env /\ script'.config = script.config
      /\ script'.lds = script.lds
      /\ script' = [at |-> script'.at, env |-> script'.env, config |-> script'.config, lds |-> script'.lds]
      /\ u \in Targets /\ script'.env \in Settings
  BY <1>1, GoesFacts
<1>3. /\ out_dir'[u] = [header |-> out_dir[u].header, lds |-> script.lds, kit |-> out_dir[u].kit]
      /\ \A t \in Targets : t # u => out_dir'[t] = out_dir[t]
      /\ out_dir' = [t \in Targets |-> out_dir'[t]]
  <2>1. CASE out_dir[u].lds = script.lds
    <3>1. out_dir' = out_dir
      BY <2>1 DEF WriteScript, MustWrite
    <3> QED BY <1>2, <2>1, <3>1 DEF ScriptIInv, ScriptShape, HeldAs
  <2>2. CASE out_dir[u].lds # script.lds
    <3>1. out_dir' = [out_dir EXCEPT ![u].lds = script.lds]
      BY <2>2 DEF WriteScript, MustWrite
    <3>2. OutBecomes(u, [header |-> out_dir[u].header, lds |-> script.lds, kit |-> out_dir[u].kit])
      BY <1>2, <3>1, OutLds, Zenon
    <3> QED BY <3>2, Zenon DEF OutBecomes
  <2> QED BY <2>1, <2>2
<1>4. /\ KnownAs(cargo'[u]) /\ cargo'[u].ok = cargo[u].ok /\ cargo[u].modified \subseteq cargo'[u].modified
      /\ \A t \in Targets : t # u => cargo'[t] = cargo[t]
      /\ cargo' = [t \in Targets |-> cargo'[t]]
  <2>1. CASE cargo' = cargo
    BY <1>2, <2>1 DEF ScriptIInv, ScriptShape
  <2>2. CASE cargo' = Modified(u, "ta.lds")
    <3>1. /\ cargo'[u] = [ok |-> cargo[u].ok, config |-> cargo[u].config,
                          modified |-> cargo[u].modified \union {"ta.lds"},
                          watched |-> cargo[u].watched, env |-> cargo[u].env]
          /\ \A t \in Targets : t # u => cargo'[t] = cargo[t]
          /\ cargo' = [t \in Targets |-> cargo'[t]]
      BY <1>2, <2>2, ModifiedFields
    <3> QED BY <3>1 DEF KnownAs
  <2> QED BY <2>1, <2>2 DEF WriteScript
<1>5. ~cargo[u].ok
  BY <1>1 DEF ScriptIInv, InProgress
<1> HIDE DEF u
<1>6. ScriptShape'
  BY <1>1, <1>2, <1>3, <1>4, Zenon DEF ScriptIInv, ScriptShape, HeldAs
<1>7. InProgress'
  BY <1>1, <1>2, <1>3, <1>4 DEF ScriptIInv, InProgress, MadeFrom, u
<1>8. RunsEnded'
  BY <1>1, <1>3, <1>4, <1>5 DEF ScriptIInv, RunsEnded, Left, MadeFrom
<1> QED BY <1>6, <1>7, <1>8 DEF ScriptIInv

(* link_all ends, and cargo keeps what it printed.                         *)
LEMMA FinishKeeps == ASSUME ScriptIInv, Finish PROVE ScriptIInv'
<1> DEFINE u == script.env.target
           d == Directives(script)
           c == [ok |-> TRUE, config |-> script.config, env |-> d.env,
                 watched |-> d.watched, modified |-> cargo[u].modified \intersect d.watched]
<1>1. /\ script # Idle /\ script.at = "args" /\ script' = Idle /\ UNCHANGED <<env, template>>
      /\ out_dir' = [out_dir EXCEPT ![u].kit = <<script.env.kit>>] /\ cargo' = [cargo EXCEPT ![u] = c]
  BY DEF Finish, Idle
<1>2. script.env \in Settings /\ u \in Targets
  BY <1>1 DEF ScriptIInv, ScriptShape, Settings
<1>3. /\ out_dir'[u] = [header |-> out_dir[u].header, lds |-> out_dir[u].lds, kit |-> <<script.env.kit>>]
      /\ \A t \in Targets : t # u => out_dir'[t] = out_dir[t]
      /\ out_dir' = [t \in Targets |-> out_dir'[t]]
  <2>1. OutBecomes(u, [header |-> out_dir[u].header, lds |-> out_dir[u].lds, kit |-> <<script.env.kit>>])
    BY <1>1, <1>2, OutKit, Zenon
  <2> QED BY <2>1, Zenon DEF OutBecomes
<1>4. /\ d.watched = {script.env.kit, "ta.lds"}
      /\ DOMAIN d.env = {"kit", "cc"} /\ d.env["kit"] = script.env.kit /\ d.env["cc"] = script.env.cc
  BY <1>2 DEF Directives, Settings
<1>5. /\ cargo'[u] = c /\ \A t \in Targets : t # u => cargo'[t] = cargo[t]
      /\ cargo' = [t \in Targets |-> cargo'[t]]
  BY <1>1, <1>2, Zenon DEF ScriptIInv, ScriptShape
<1>6. /\ KnownAs(c) /\ c.config = script.config /\ c.env = d.env /\ c.watched = d.watched
      /\ c.modified = cargo[u].modified \intersect d.watched
  BY Zenon DEF KnownAs
<1>7. /\ out_dir[u].header = <<script.config>> /\ out_dir[u].lds = script.lds
      /\ MadeFrom(script.lds, script.env.kit, script.env.cc, u, cargo[u].modified)
  BY <1>1, Zenon DEF ScriptIInv, InProgress
<1> HIDE DEF c, d
<1>8. ScriptShape'
  BY <1>1, <1>3, <1>5, <1>6, Zenon DEF ScriptIInv, ScriptShape, HeldAs
<1>9. RunsEnded'
  <2> SUFFICES ASSUME NEW t \in Targets, cargo'[t].ok PROVE Left(t)'
    BY DEF RunsEnded
  <2>1. CASE t = u
    <3>1. out_dir'[t].header = <<c.config>> /\ out_dir'[t].kit = <<c.env["kit"]>> /\ out_dir'[t].lds = script.lds
      BY <1>3, <1>4, <1>6, <1>7, <2>1
    <3>2. MadeFrom(script.lds, c.env["kit"], c.env["cc"], t, c.modified)
      BY <1>4, <1>6, <1>7, <2>1 DEF MadeFrom
    <3>3. cargo'[t] = c /\ DOMAIN c.env = {"kit", "cc"} /\ c.env["kit"] \in c.watched
      BY <1>4, <1>5, <1>6, <2>1
    <3> QED BY <1>1, <3>1, <3>2, <3>3, Zenon DEF Left, MadeFrom
  <2>2. CASE t # u
    <3>1. Left(t)
      BY <1>5, <2>2 DEF ScriptIInv, RunsEnded
    <3> QED BY <1>1, <1>3, <1>5, <2>2, <3>1, Zenon DEF Left, MadeFrom
  <2> QED BY <2>1, <2>2
<1> QED BY <1>1, <1>8, <1>9, Zenon DEF ScriptIInv, InProgress

(* The script fails or is killed.                                          *)
LEMMA ScriptFailKeeps == ASSUME ScriptIInv, ScriptFails PROVE ScriptIInv'
<1> DEFINE u == script.env.target
<1>1. /\ script # Idle /\ script' = Idle /\ UNCHANGED <<env, template, cargo>>
      /\ out_dir' = out_dir \/ out_dir' = [out_dir EXCEPT ![u].lds = <<"part">>]
  BY DEF ScriptFails, Idle
<1>2. u \in Targets /\ ~cargo[u].ok
  BY <1>1, Zenon DEF ScriptIInv, ScriptShape, Settings, InProgress
<1>3. /\ \A t \in Targets : t # u => out_dir'[t] = out_dir[t]
      /\ out_dir' = [t \in Targets |-> out_dir'[t]] /\ HeldAs(out_dir'[u])
  <2>1. CASE out_dir' = out_dir
    BY <1>2, <2>1 DEF ScriptIInv, ScriptShape
  <2>2. CASE out_dir' = [out_dir EXCEPT ![u].lds = <<"part">>]
    <3>1. /\ out_dir'[u] = [header |-> out_dir[u].header, lds |-> <<"part">>, kit |-> out_dir[u].kit]
          /\ \A t \in Targets : t # u => out_dir'[t] = out_dir[t]
          /\ out_dir' = [t \in Targets |-> out_dir'[t]]
      <4>1. OutBecomes(u, [header |-> out_dir[u].header, lds |-> <<"part">>, kit |-> out_dir[u].kit])
        BY <1>2, <2>2, OutLds, Zenon
      <4> QED BY <4>1, Zenon DEF OutBecomes
    <3> QED BY <3>1 DEF HeldAs
  <2> QED BY <1>1, <2>1, <2>2
<1> HIDE DEF u
<1>4. ScriptShape'
  BY <1>1, <1>2, <1>3 DEF ScriptIInv, ScriptShape
<1>5. RunsEnded'
  BY <1>1, <1>2, <1>3 DEF ScriptIInv, RunsEnded, Left, MadeFrom
<1> QED BY <1>1, <1>4, <1>5 DEF ScriptIInv, InProgress

(* ta.lds is deleted.                                                      *)
LEMMA DeleteKeeps == ASSUME ScriptIInv, NEW u \in Targets, DeleteScript(u) PROVE ScriptIInv'
<1>1. /\ UNCHANGED <<env, template, script>> /\ cargo' = Modified(u, "ta.lds")
      /\ out_dir' = [out_dir EXCEPT ![u].lds = Nothing] /\ script.at = "idle"
  BY DEF DeleteScript
<1>2. script = Idle
  BY <1>1 DEF ScriptIInv, ScriptShape
<1>3. /\ out_dir'[u] = [header |-> out_dir[u].header, lds |-> Nothing, kit |-> out_dir[u].kit]
      /\ \A t \in Targets : t # u => out_dir'[t] = out_dir[t]
      /\ out_dir' = [t \in Targets |-> out_dir'[t]]
  <2>1. OutBecomes(u, [header |-> out_dir[u].header, lds |-> Nothing, kit |-> out_dir[u].kit])
    BY <1>1, OutLds, Zenon
  <2> QED BY <2>1, Zenon DEF OutBecomes
<1>4. /\ cargo'[u] = [ok |-> cargo[u].ok, config |-> cargo[u].config, modified |-> cargo[u].modified \union {"ta.lds"},
                      watched |-> cargo[u].watched, env |-> cargo[u].env]
      /\ \A t \in Targets : t # u => cargo'[t] = cargo[t]
      /\ cargo' = [t \in Targets |-> cargo'[t]]
  BY <1>1, ModifiedFields
<1>5. ScriptShape'
  BY <1>1, <1>3, <1>4, Zenon DEF ScriptIInv, ScriptShape, HeldAs, KnownAs
<1>6. RunsEnded'
  <2> SUFFICES ASSUME NEW t \in Targets, cargo'[t].ok PROVE Left(t)'
    BY DEF RunsEnded
  <2>1. Left(t)
    BY <1>4 DEF ScriptIInv, RunsEnded
  <2>2. CASE t = u
    BY <1>3, <1>4, <2>1, <2>2 DEF Left
  <2>3. CASE t # u
    BY <1>1, <1>3, <1>4, <2>1, <2>3, Zenon DEF Left, MadeFrom
  <2> QED BY <2>2, <2>3
<1> QED BY <1>1, <1>2, <1>5, <1>6 DEF ScriptIInv, InProgress

(* Somebody writes the template of a kit.                                  *)
LEMMA TemplateKeeps == ASSUME ScriptIInv, NEW k \in Kits, EditTemplate(k) PROVE ScriptIInv'
<1>1. /\ UNCHANGED <<env, out_dir, script>> /\ template' = [template EXCEPT ![k] = @ + 1]
      /\ cargo' = [t \in Targets |-> IF ~cargo[t].ok \/ k \in cargo[t].watched
                                     THEN [cargo[t] EXCEPT !.modified = @ \union {k}] ELSE cargo[t]]
  BY DEF EditTemplate
<1>2. template' \in [Kits -> Nat] /\ \A j \in Kits : j # k => template'[j] = template[j]
  BY <1>1 DEF ScriptIInv, ScriptShape
<1>3. ASSUME NEW t \in Targets
      PROVE  /\ KnownAs(cargo'[t]) /\ cargo'[t].ok = cargo[t].ok /\ cargo'[t].config = cargo[t].config
             /\ cargo'[t].watched = cargo[t].watched /\ cargo'[t].env = cargo[t].env
             /\ cargo[t].modified \subseteq cargo'[t].modified
             /\ ~cargo[t].ok \/ k \in cargo[t].watched => k \in cargo'[t].modified
  <2>1. KnownAs(cargo[t])
    BY DEF ScriptIInv, ScriptShape
  <2>2. CASE ~cargo[t].ok \/ k \in cargo[t].watched
    <3>1. cargo'[t] = [cargo[t] EXCEPT !.modified = @ \union {k}]
      BY <1>1, <2>2
    <3>2. cargo'[t] = [ok |-> cargo[t].ok, config |-> cargo[t].config, modified |-> cargo[t].modified \union {k},
                       watched |-> cargo[t].watched, env |-> cargo[t].env]
      BY <2>1, <3>1, Zenon DEF KnownAs
    <3> QED BY <3>2 DEF KnownAs
  <2>3. CASE ~(~cargo[t].ok \/ k \in cargo[t].watched)
    BY <1>1, <2>1, <2>3
  <2> QED BY <2>2, <2>3, Zenon
<1>4. ScriptShape'
  BY <1>1, <1>2, <1>3 DEF ScriptIInv, ScriptShape
<1>5. ASSUME NEW t \in Targets, NEW lds, NEW j, NEW c, MadeFrom(lds, j, c, t, cargo[t].modified),
             j = k => ~cargo[t].ok \/ k \in cargo[t].watched
      PROVE  MadeFrom(lds, j, c, t, cargo[t].modified)'
  BY <1>2, <1>3, <1>5, Zenon DEF MadeFrom
<1>6. InProgress'
  <2> SUFFICES ASSUME script # Idle PROVE InProgress'
    BY <1>1, Zenon DEF InProgress
  <2>1. script.env.target \in Targets
    BY Zenon DEF ScriptIInv, ScriptShape, Settings
  <2>2. InProgress
    BY DEF ScriptIInv
  <2> QED BY <1>1, <1>3, <1>5, <2>1, <2>2, Zenon DEF InProgress
<1>7. RunsEnded'
  <2> SUFFICES ASSUME NEW t \in Targets, cargo'[t].ok PROVE Left(t)'
    BY DEF RunsEnded
  <2>1. Left(t)
    BY <1>3 DEF ScriptIInv, RunsEnded
  <2> QED BY <1>1, <1>3, <1>5, <2>1, Zenon DEF Left
<1> QED BY <1>4, <1>6, <1>7 DEF ScriptIInv

(* Every step keeps the invariant.                                         *)
LEMMA ScriptNextIInv == ScriptIInv /\ [ScriptNext]_scriptVars => ScriptIInv'
<1> SUFFICES ASSUME ScriptIInv, [ScriptNext]_scriptVars PROVE ScriptIInv'
  OBVIOUS
<1>1. ASSUME env' \in Settings, UNCHANGED <<template, out_dir, cargo, script>> PROVE ScriptIInv'
  BY <1>1, Zenon DEF ScriptIInv, ScriptShape, HeldAs, KnownAs, InProgress, RunsEnded, Left, MadeFrom
<1>2. env \in Settings
  BY Zenon DEF ScriptIInv, ScriptShape
<1>3. ASSUME NEW e \in Settings, SetEnv(e) PROVE ScriptIInv'
  BY <1>1, <1>3 DEF SetEnv
<1>4. ASSUME \/ EditBuildRs \/ UNCHANGED scriptVars
             \/ \E c \in Compilers : SwitchCompiler(c)
      PROVE  ScriptIInv'
  <2>1. UNCHANGED <<env, template, out_dir, cargo, script>>
    BY <1>4, Zenon DEF EditBuildRs, SwitchCompiler, scriptVars
  <2> QED BY <1>1, <1>2, <2>1
<1> QED
  BY <1>3, <1>4, InvokeKeeps, HeaderKeeps, PreprocessKeeps, WriteScriptKeeps, FinishKeeps, ScriptFailKeeps,
     DeleteKeeps, TemplateKeeps DEF ScriptNext, Steps, Settings

(* So it always holds.                                                     *)
THEOREM ScriptIInvHolds == ScriptSpec => []ScriptIInv
BY ScriptInitIInv, ScriptNextIInv, PTL DEF ScriptSpec

(* What cargo takes for current is what a run of the script would leave    *)
(* now, however the kit, the compiler, the variables and build.rs are      *)
(* changed between and during the runs (link_all, Builder::build).         *)
THEOREM FreshAlwaysCurrent == ScriptSpec => []FreshIsCurrent
<1>1. ScriptIInv => FreshIsCurrent
  <2> SUFFICES ASSUME ScriptIInv, Fresh(env.target)
               PROVE  LET o == out_dir[env.target]
                      IN  /\ o.header = <<build_rs>> /\ o.kit = <<env.kit>>
                          /\ o.lds \in {<<env.kit, template[env.kit], env.cc, env.target>>, <<"empty">>}
    BY Zenon DEF FreshIsCurrent
  <2> DEFINE u == env.target
  <2>1. u \in Targets /\ cargo[u].ok /\ cargo[u].config = build_rs /\ cargo[u].modified = {}
    BY Zenon DEF Fresh, ScriptIInv, ScriptShape, Settings
  <2>2. Left(u)
    BY <2>1 DEF ScriptIInv, RunsEnded
  <2>3. cargo[u].env["kit"] = env.kit /\ cargo[u].env["cc"] = env.cc
    BY <2>2, Zenon DEF Fresh, Left
  <2>4. MadeFrom(out_dir[u].lds, env.kit, env.cc, u, {})
    BY <2>1, <2>2, <2>3, Zenon DEF Left
  <2> QED BY <2>1, <2>2, <2>3, <2>4, Zenon DEF Left, MadeFrom
<1> QED BY <1>1, ScriptIInvHolds, PTL

-----------------------------------------------------------------------------
(* CargoPublish: what is published and installed is whole. *)

MaybeFiles == Files \cup {Absent}

TypeOK ==
  /\ project \in {"ta", "plugin", "ca"}
  /\ source \in Versions
  /\ binary \in MaybeFiles
  /\ temp \in [Names -> MaybeFiles]
  /\ out \in MaybeFiles
  /\ inst \in MaybeFiles
  /\ pc \in [Builds -> Places \cup Ended]
  /\ held \in [Builds -> [version : Versions \cup {Absent}, open : MaybeFiles,
                          at : Places \cup {Absent}]]
  /\ shared \subseteq Builds

(* A file that is all there. *)
Complete(f) == f \in Files /\ f.b = f.a /\ f.stripped = TRUE

Stripped(b) == temp[<<b, "stripped">>]
Partial(b) == temp[<<b, "partial">>]

(* What a build owns, at each of its steps, and what it is a build of. *)
Owns(b) ==
  /\ Stripped(b) # Absent => Complete(Stripped(b))
  /\ pc[b] = "signing" =>
       /\ Complete(held[b].open)
       /\ Partial(b) # Absent =>
            Partial(b).a = held[b].open.a /\ Partial(b).stripped = TRUE
  /\ pc[b] = "publish" /\ Partial(b) # Absent => Complete(Partial(b))
  /\ pc[b] = "copying" => held[b].open # Absent
  /\ pc[b] \in {"copying", "chmod copy"} => inst # Absent
  /\ held[b].at # Absent => pc[b] \in {"failed", "killed"}
  /\ pc[b] \in {"sign", "signing", "chmod", "chmod copy"} => project = "ta"
  /\ pc[b] = "publish" => project # "ca"
  /\ pc[b] \in Places \ {"cargo"} => held[b].version \in Versions

(* What is installed. *)
Product == IF project = "ca" THEN binary ELSE out

(* What the builds share. *)
SharedWhole ==
  /\ binary # Absent => binary.b = binary.a
  /\ out # Absent => Complete(out)

IInv ==
  /\ TypeOK /\ SharedWhole /\ UnreadableOnlyMidway
  /\ \A b \in Builds : Owns(b)

-----------------------------------------------------------------------------
(* A step of build b leaves alone what other builds own. *)
StepOf(b) ==
  /\ project' = project
  /\ \A c \in Builds \ {b} :
       /\ pc'[c] = pc[c] /\ held'[c] = held[c]
       /\ Stripped(c)' = Stripped(c) /\ Partial(c)' = Partial(c)

(* What a step of b does to a published TA: none is there, it can be       *)
(* read, b stands or stopped before the change of its mode, or it is as    *)
(* before and b has nothing to do with that.                               *)
ModeStep(b) ==
  \/ project # "ta" \/ out' = Absent \/ out'.mode # "0600"
  \/ "chmod" \in {pc'[b], held'[b].at}
  \/ out' = out /\ "chmod" \notin {pc[b], held[b].at}

(* A complete file is a file, and its fields are those it was made of. *)
LEMMA FileFacts ==
  ASSUME NEW v \in Versions, NEW m \in Modes
  PROVE  /\ File(v, m) \in Files /\ File(v, m) # Absent /\ Complete(File(v, m))
         /\ File(v, m).a = v /\ File(v, m).b = v /\ File(v, m).mode = m
         /\ File(v, m).stripped = TRUE
<1>1. /\ File(v, m).a = v /\ File(v, m).b = v /\ File(v, m).mode = m
      /\ File(v, m).stripped = TRUE
  BY DEF File
<1>2. File(v, m) \in Files
  BY DEF File, Files
<1>3. File(v, m) # Absent
  BY <1>2, AbsentAssumption
<1> QED  BY <1>1, <1>2, <1>3, Zenon DEF Complete

(* ... and nothing else is complete. *)
LEMMA CompleteIsFile ==
  ASSUME NEW f, Complete(f)
  PROVE  f = File(f.a, f.mode) /\ f.a # Absent /\ f # Absent
<1>1. f \in [a : Versions, b : Versions \cup {Absent}, mode : Modes, stripped : BOOLEAN]
  BY DEF Complete, Files
<1>2. f = [a |-> f.a, b |-> f.b, mode |-> f.mode, stripped |-> f.stripped]
  BY <1>1, Zenon
<1>3. f = File(f.a, f.mode)
  BY <1>2, Zenon DEF Complete, File
<1>4. f.a # Absent /\ f # Absent
  BY <1>1, AbsentAssumption DEF Files
<1> QED  BY <1>3, <1>4

(* The invariant holds before the first build. *)
LEMMA InitIInv == Init => IInv
<1> SUFFICES ASSUME Init PROVE IInv
  OBVIOUS
<1>1. TypeOK
  BY EditsAssumption DEF Init, TypeOK, MaybeFiles, Versions, Ended
<1>2. \A b \in Builds : /\ pc[b] = "idle" /\ held[b].at = Absent
                        /\ Stripped(b) = Absent /\ Partial(b) = Absent
  BY Zenon DEF Init, Stripped, Partial, Names
<1>3. \A b \in Builds : Owns(b)
  BY <1>2, Zenon DEF Owns, Places
<1> QED  BY <1>1, <1>3, Zenon DEF Init, IInv, SharedWhole, UnreadableOnlyMidway

(* A step keeps the invariant when it keeps the part that it works on. *)
LEMMA StepKeeps ==
  ASSUME IInv, NEW b \in Builds, StepOf(b), ModeStep(b),
         TypeOK', SharedWhole', Owns(b)', inst # Absent => inst' # Absent
  PROVE  IInv'
<1>1. \A c \in Builds : Owns(c)'
  <2> SUFFICES ASSUME NEW c \in Builds, c # b PROVE Owns(c)'
    OBVIOUS
  <2>1. /\ project' = project /\ pc'[c] = pc[c] /\ held'[c] = held[c]
        /\ Stripped(c)' = Stripped(c) /\ Partial(c)' = Partial(c)
    BY Zenon DEF StepOf
  <2>2. Owns(c)
    BY Zenon DEF IInv
  <2> HIDE DEF Stripped, Partial
  <2> QED  BY <2>1, <2>2, Zenon DEF Owns
<1>2. UnreadableOnlyMidway'
  <2> SUFFICES ASSUME project' = "ta", out' # Absent, out'.mode = "0600"
               PROVE  \E c \in Builds : "chmod" \in {pc'[c], held'[c].at}
    BY Zenon DEF UnreadableOnlyMidway
  <2>1. CASE "chmod" \in {pc'[b], held'[b].at}
    BY <2>1, Zenon
  <2>2. CASE out' = out /\ "chmod" \notin {pc[b], held[b].at}
    <3>1. PICK c \in Builds : "chmod" \in {pc[c], held[c].at}
      BY <2>2, Zenon DEF IInv, UnreadableOnlyMidway, StepOf
    <3>2. c # b
      BY <2>2, <3>1, Zenon
    <3> QED  BY <3>1, <3>2, Zenon DEF StepOf
  <2> QED  BY <2>1, <2>2, Zenon DEF ModeStep, StepOf
<1> QED  BY <1>1, <1>2 DEF IInv

-----------------------------------------------------------------------------
(* One lemma for each way a build goes on *)

(* The names of temporary files are as many as they look. *)
LEMMA NameFacts ==
  ASSUME NEW b \in Builds
  PROVE  /\ Name(b, "stripped") = <<b, "stripped">> /\ <<b, "stripped">> \in Names
         /\ Name(b, "partial") = <<b, "partial">> /\ <<b, "partial">> \in Names
         /\ <<b, "stripped">> # <<b, "partial">>
         /\ \A c \in Builds \ {b}, w \in {"stripped", "partial"} :
              /\ <<c, w>> \in Names
              /\ <<c, w>> # <<b, "stripped">> /\ <<c, w>> # <<b, "partial">>
BY Zenon DEF Name, Names

(* One temporary file of b is written. *)
LEMMA TempFacts ==
  ASSUME TypeOK, NEW b \in Builds, NEW w \in {"stripped", "partial"}, NEW f \in MaybeFiles,
         temp' = [temp EXCEPT ![<<b, w>>] = f]
  PROVE  /\ temp' \in [Names -> MaybeFiles]
         /\ temp'[<<b, w>>] = f
         /\ w = "stripped" => Partial(b)' = Partial(b)
         /\ w = "partial" => Stripped(b)' = Stripped(b)
         /\ \A c \in Builds \ {b} : Stripped(c)' = Stripped(c) /\ Partial(c)' = Partial(c)
BY NameFacts, Zenon DEF TypeOK, Stripped, Partial, Names

(* NamedTempFile::drop *)
LEMMA DropFacts ==
  ASSUME TypeOK, NEW b \in Builds, DropTemps(b)
  PROVE  /\ temp' \in [Names -> MaybeFiles]
         /\ Stripped(b)' = Absent /\ Partial(b)' = Absent
         /\ \A c \in Builds \ {b} : Stripped(c)' = Stripped(c) /\ Partial(c)' = Partial(c)
BY Zenon DEF DropTemps, TypeOK, Stripped, Partial, Names, MaybeFiles

(* No temporary file is touched. *)
LEMMA SameTemps ==
  ASSUME temp' = temp
  PROVE  \A c \in Builds : Stripped(c)' = Stripped(c) /\ Partial(c)' = Partial(c)
BY Zenon DEF Stripped, Partial

(* A build that goes on or ends changes its own place only. *)
LEMMA LeaveFacts ==
  ASSUME TypeOK, NEW b \in Builds, NEW to \in Places \cup Ended, Leave(b, to)
  PROVE  /\ pc' \in [Builds -> Places \cup Ended] /\ pc'[b] = to
         /\ \A c \in Builds \ {b} : pc'[c] = pc[c]
         /\ project' = project /\ source' = source /\ shared' = shared
BY Zenon DEF TypeOK, Leave

(* A build ends before its time, and its place is noted. *)
LEMMA StopKeeps ==
  ASSUME IInv, NEW b \in Running, NEW to \in {"failed", "killed"},
         Leave(b, to), DropTemps(b) \/ temp' = temp,
         held' = [held EXCEPT ![b].at = pc[b]],
         UNCHANGED <<binary, out, inst>>
  PROVE  IInv'
<1>1. b \in Builds /\ pc[b] \in Places /\ TypeOK /\ to \in Places \cup Ended
  BY DEF Running, IInv, TypeOK, Ended
<1>2. /\ held'[b].at = pc[b]
      /\ \A c \in Builds \ {b} : held'[c] = held[c]
      /\ held' \in [Builds -> [version : Versions \cup {Absent}, open : MaybeFiles,
                               at : Places \cup {Absent}]]
  BY <1>1, Zenon DEF TypeOK
<1>3. /\ temp' \in [Names -> MaybeFiles]
      /\ Stripped(b)' = Absent \/ Stripped(b)' = Stripped(b)
      /\ \A c \in Builds \ {b} : Stripped(c)' = Stripped(c) /\ Partial(c)' = Partial(c)
  BY <1>1, DropFacts, SameTemps DEF TypeOK
<1>4. StepOf(b) /\ TypeOK' /\ pc'[b] = to
  BY <1>1, <1>2, <1>3, LeaveFacts DEF StepOf, TypeOK
<1>5. ModeStep(b)
  <2>1. held[b].at # "chmod"
    <3>1. pc[b] \notin {"failed", "killed"}
      BY DEF Running, Ended
    <3>2. held[b].at = Absent
      BY <1>1, <3>1, Zenon DEF IInv, Owns
    <3> QED  BY <3>2, AbsentAssumption, Zenon DEF Places
  <2> QED  BY <1>2, <2>1 DEF ModeStep
<1>6. SharedWhole'
  BY DEF IInv, SharedWhole
<1>7. Owns(b)'
  <2>1. Stripped(b)' # Absent => Complete(Stripped(b))' 
    BY <1>1, <1>3, Zenon DEF IInv, Owns, Complete
  <2>2. pc'[b] \in {"failed", "killed"} /\ pc'[b] \notin Places
    BY <1>4, Zenon DEF Places
  <2> QED  BY <2>1, <2>2, Zenon DEF Owns, Places
<1> QED  BY <1>1, <1>4, <1>5, <1>6, <1>7, StepKeeps

(* A command that fails. *)
LEMMA FailKeeps ==
  ASSUME IInv, NEW b \in Running, Fail(b)
  PROVE  IInv'
BY StopKeeps, Zenon DEF Fail

(* A build starts. *)
LEMMA StartKeeps ==
  ASSUME IInv, NEW b \in Builds, Start(b)
  PROVE  IInv'
<1>1. /\ TypeOK /\ Owns(b) /\ pc[b] = "idle" /\ pc' = [pc EXCEPT ![b] = "cargo"]
      /\ shared' \subseteq Builds
      /\ UNCHANGED <<project, source, binary, temp, out, inst, held>>
  BY Zenon DEF Start, IInv, TypeOK, Running
<1>2. TypeOK' /\ StepOf(b) /\ pc'[b] = "cargo"
  BY <1>1, SameTemps, Zenon DEF TypeOK, StepOf, Places
<1>3. held[b].at = Absent
  BY <1>1, Zenon DEF Owns
<1>4. ModeStep(b)
  BY <1>1, <1>3, AbsentAssumption, Zenon DEF ModeStep, Places
<1>5. Owns(b)'
  BY <1>1, <1>2, <1>3, SameTemps, Zenon DEF Owns, Complete
<1>6. SharedWhole'
  BY <1>1, Zenon DEF IInv, SharedWhole
<1> QED  BY <1>1, <1>2, <1>4, <1>5, <1>6, StepKeeps, Zenon

(* Cargo leaves the binary. *)
LEMMA BuildBinaryKeeps ==
  ASSUME IInv, NEW b \in Builds, BuildBinary(b)
  PROVE  IInv'
<1>1. /\ TypeOK /\ Owns(b) /\ pc[b] = "cargo" /\ Leave(b, "strip")
      /\ binary' = [File(source, "0755") EXCEPT !.stripped = FALSE]
      /\ held' = [held EXCEPT ![b].version = source]
      /\ UNCHANGED <<temp, out, inst>>
  BY DEF BuildBinary, IInv
<1>2. source \in Versions
  BY <1>1 DEF TypeOK
<1>3. binary' \in Files /\ binary'.b = binary'.a
  BY <1>1, <1>2, Zenon DEF File, Files, Modes
<1>4. /\ held'[b].version = source /\ held'[b].at = held[b].at
      /\ \A c \in Builds \ {b} : held'[c] = held[c]
      /\ held' \in [Builds -> [version : Versions \cup {Absent}, open : MaybeFiles,
                               at : Places \cup {Absent}]]
  BY <1>1, <1>2, Zenon DEF TypeOK
<1>5. TypeOK' /\ StepOf(b) /\ pc'[b] = "strip"
  <2>1. "strip" \in Places \cup Ended
    BY DEF Places
  <2>2. /\ pc' \in [Builds -> Places \cup Ended] /\ pc'[b] = "strip"
        /\ \A c \in Builds \ {b} : pc'[c] = pc[c]
        /\ project' = project /\ source' = source /\ shared' = shared
    BY <1>1, <2>1, LeaveFacts
  <2>3. TypeOK'
    BY <1>1, <1>3, <1>4, <2>2, Zenon DEF TypeOK, MaybeFiles
  <2> QED  BY <1>1, <1>4, <2>2, <2>3, SameTemps, Zenon DEF StepOf
<1>6. held[b].at = Absent
  BY <1>1 DEF Owns
<1>7. ModeStep(b)
  BY <1>1, <1>6, AbsentAssumption, Zenon DEF ModeStep, Places
<1>8. Owns(b)'
  BY <1>1, <1>2, <1>4, <1>5, <1>6, SameTemps, Zenon DEF Owns, Complete
<1>9. SharedWhole'
  BY <1>1, <1>3 DEF IInv, SharedWhole
<1> QED  BY <1>1, <1>5, <1>7, <1>8, <1>9, StepKeeps

(* A step of a build that is neither killed nor failing, by what it        *)
(* touches: its place is one at which it runs or the end.                  *)
LEMMA GoesOn ==
  ASSUME IInv, NEW b \in Running
  PROVE  /\ b \in Builds /\ TypeOK /\ Owns(b) /\ pc[b] \in Places
         /\ held[b].at = Absent /\ held[b].at # "chmod"
<1>1. b \in Builds /\ TypeOK /\ Owns(b) /\ pc[b] \in Places
  BY Zenon DEF Running, IInv, TypeOK
<1>2. held[b].at = Absent
  BY <1>1, Zenon DEF Owns, Places
<1> QED  BY <1>1, <1>2, AbsentAssumption, Zenon DEF Places

(* objcopy strips it into a temporary file. *)
LEMMA StripBinaryKeeps ==
  ASSUME IInv, NEW b \in Running, StripBinary(b), binary # Absent
  PROVE  IInv'
<1>1. b \in Builds /\ TypeOK /\ Owns(b) /\ held[b].at = Absent /\ held[b].at # "chmod"
  BY GoesOn, Zenon
<1> DEFINE w == IF project = "ta" THEN "stripped" ELSE "partial"
           f == [binary EXCEPT !.stripped = TRUE]
           to == IF project = "ta" THEN "sign" ELSE "publish"
<1>2. /\ pc[b] = "strip" /\ project \in {"ta", "plugin"} /\ Leave(b, to)
      /\ temp' = [temp EXCEPT ![<<b, w>>] = f]
      /\ UNCHANGED <<binary, out, inst, held>>
  BY Zenon DEF StripBinary, Name
<1>3. binary \in Files /\ binary.b = binary.a
  BY <1>1, Zenon DEF TypeOK, MaybeFiles, IInv, SharedWhole
<1>4. f \in Files /\ f.b = f.a /\ f.stripped = TRUE
  BY <1>3, Zenon DEF Files
<1>5. Complete(f) /\ f \in MaybeFiles /\ w \in {"stripped", "partial"}
      /\ to \in Places \cup Ended /\ to \in {"sign", "publish"}
      /\ (to = "sign" => project = "ta") /\ (to = "publish" => project # "ca")
  BY <1>2, <1>4 DEF Complete, MaybeFiles, Places
<1> HIDE DEF f, to
<1>6. TypeOK' /\ StepOf(b) /\ pc'[b] = to
  BY <1>1, <1>2, <1>5, LeaveFacts, TempFacts, Zenon DEF TypeOK, StepOf
<1>7. /\ Stripped(b)' # Absent => Complete(Stripped(b)')
      /\ to = "publish" => Complete(Partial(b)')
  <2>1. CASE w = "stripped"
    BY <1>1, <1>2, <1>5, <2>1, TempFacts, Zenon DEF Stripped, to
  <2>2. CASE w = "partial"
    BY <1>1, <1>2, <1>5, <2>2, TempFacts, Zenon DEF Partial, to, Owns
  <2> QED  BY <1>5, <2>1, <2>2, Zenon
<1>8. Owns(b)'
  <2>1. pc'[b] \in {"sign", "publish"} /\ held'[b] = held[b] /\ project' = project
    BY <1>1, <1>2, <1>5, <1>6, Zenon DEF StepOf
  <2>2. held[b].version \in Versions
    BY <1>1, <1>2, Zenon DEF Owns, Places
  <2> QED  BY <1>1, <1>5, <1>6, <1>7, <2>1, <2>2, Zenon DEF Owns
<1>9. ModeStep(b) /\ SharedWhole'
  BY <1>1, <1>2, Zenon DEF ModeStep, IInv, SharedWhole
<1> QED  BY <1>1, <1>2, <1>6, <1>8, <1>9, StepKeeps, Zenon

(* strip works on the binary itself. *)
LEMMA StripInPlaceKeeps ==
  ASSUME IInv, NEW b \in Running, StripInPlace(b), binary # Absent
  PROVE  IInv'
<1>1. b \in Builds /\ TypeOK /\ Owns(b) /\ held[b].at = Absent /\ held[b].at # "chmod"
  BY GoesOn
<1>2. /\ pc[b] = "strip" /\ Leave(b, "copy")
      /\ binary' = [binary EXCEPT !.stripped = TRUE]
      /\ UNCHANGED <<temp, out, inst, held>>
  BY DEF StripInPlace
<1>3. binary' \in Files /\ binary'.b = binary'.a
  <2>1. binary \in Files /\ binary.b = binary.a
    BY <1>1 DEF TypeOK, MaybeFiles, IInv, SharedWhole
  <2> QED  BY <1>2, <2>1, Zenon DEF Files
<1>4. TypeOK' /\ StepOf(b) /\ pc'[b] = "copy"
  BY <1>1, <1>2, <1>3, LeaveFacts, SameTemps, Zenon DEF TypeOK, StepOf, Places, MaybeFiles
<1>5. Owns(b)'
  BY <1>1, <1>2, <1>4, SameTemps DEF Owns, Complete, Places
<1>6. ModeStep(b) /\ SharedWhole'
  BY <1>1, <1>2, <1>3 DEF ModeStep, IInv, SharedWhole
<1> QED  BY <1>1, <1>2, <1>4, <1>5, <1>6, StepKeeps

(* sign_encrypt.py creates its output, *)
LEMMA SignOpensKeeps ==
  ASSUME IInv, NEW b \in Running, SignOpens(b), Stripped(b) # Absent
  PROVE  IInv'
<1>1. b \in Builds /\ TypeOK /\ Owns(b) /\ held[b].at = Absent /\ held[b].at # "chmod"
  BY GoesOn, Zenon
<1> DEFINE f == [File(Stripped(b).a, "0600") EXCEPT !.b = Absent]
<1>2. /\ pc[b] = "sign" /\ project = "ta" /\ Leave(b, "signing")
      /\ held' = [held EXCEPT ![b].open = Stripped(b)]
      /\ temp' = [temp EXCEPT ![<<b, "partial">>] = f]
      /\ UNCHANGED <<binary, out, inst>>
  BY <1>1 DEF SignOpens, Name, Stripped, Owns
<1>3. Complete(Stripped(b)) /\ Stripped(b) \in Files /\ Stripped(b).a \in Versions
  BY <1>1, Zenon DEF Owns, Complete, Files
<1>4. f \in Files /\ f.a = Stripped(b).a /\ f.stripped = TRUE
  BY <1>3, Zenon DEF File, Files, Modes
<1> HIDE DEF f
<1>5. /\ held'[b].open = Stripped(b) /\ held'[b].at = held[b].at
      /\ held'[b].version = held[b].version
      /\ \A c \in Builds \ {b} : held'[c] = held[c]
      /\ held' \in [Builds -> [version : Versions \cup {Absent}, open : MaybeFiles,
                               at : Places \cup {Absent}]]
  BY <1>1, <1>2, <1>3 DEF TypeOK, MaybeFiles
<1>6. /\ temp' \in [Names -> MaybeFiles] /\ Partial(b)' = f /\ Stripped(b)' = Stripped(b)
      /\ \A c \in Builds \ {b} : Stripped(c)' = Stripped(c) /\ Partial(c)' = Partial(c)
  BY <1>1, <1>2, <1>4, TempFacts, Zenon DEF MaybeFiles, Partial
<1>7. TypeOK' /\ StepOf(b) /\ pc'[b] = "signing"
  <2>1. "signing" \in Places \cup Ended
    BY Zenon DEF Places
  <2>2. /\ pc' \in [Builds -> Places \cup Ended] /\ pc'[b] = "signing"
        /\ \A c \in Builds \ {b} : pc'[c] = pc[c]
        /\ project' = project /\ source' = source /\ shared' = shared
    BY <1>1, <1>2, <2>1, LeaveFacts, Zenon
  <2>3. TypeOK'
    BY <1>1, <1>2, <1>5, <1>6, <2>2, Zenon DEF TypeOK, MaybeFiles
  <2> QED  BY <1>2, <1>5, <1>6, <2>2, <2>3, Zenon DEF StepOf
<1>8. Owns(b)'
  <2>1. held[b].version \in Versions /\ project' = "ta"
    BY <1>1, <1>2, <1>7, Zenon DEF Owns, Places, StepOf
  <2> QED  BY <1>1, <1>3, <1>4, <1>5, <1>6, <1>7, <2>1, Zenon DEF Owns
<1>9. ModeStep(b) /\ SharedWhole'
  BY <1>1, <1>2, <1>5, Zenon DEF ModeStep, IInv, SharedWhole
<1> QED  BY <1>1, <1>2, <1>7, <1>8, <1>9, StepKeeps

(* and writes it. *)
LEMMA SignWritesKeeps ==
  ASSUME IInv, NEW b \in Running, SignWrites(b), Partial(b) # Absent
  PROVE  IInv'
<1>1. b \in Builds /\ TypeOK /\ Owns(b) /\ held[b].at = Absent /\ held[b].at # "chmod"
  BY GoesOn
<1> DEFINE f == [Partial(b) EXCEPT !.b = held[b].open.b]
<1>2. /\ pc[b] = "signing" /\ Leave(b, "publish")
      /\ temp' = [temp EXCEPT ![<<b, "partial">>] = f]
      /\ UNCHANGED <<binary, out, inst, held>>
  BY <1>1, Zenon DEF SignWrites, Name, Partial
<1>3. /\ Complete(held[b].open) /\ Partial(b) \in Files
      /\ Partial(b).a = held[b].open.a /\ Partial(b).stripped = TRUE
  BY <1>1, <1>2, NameFacts, Zenon DEF Owns, TypeOK, Partial, MaybeFiles
<1>4. f \in Files /\ f.a = Partial(b).a /\ f.b = held[b].open.b /\ f.stripped = TRUE
  BY <1>3, Zenon DEF Complete, Files
<1>5. Complete(f)
  BY <1>3, <1>4, Zenon DEF Complete
<1> HIDE DEF f
<1>6. /\ temp' \in [Names -> MaybeFiles] /\ Partial(b)' = f /\ Stripped(b)' = Stripped(b)
      /\ \A c \in Builds \ {b} : Stripped(c)' = Stripped(c) /\ Partial(c)' = Partial(c)
  BY <1>1, <1>2, <1>4, TempFacts, Zenon DEF MaybeFiles, Partial
<1>7. TypeOK' /\ StepOf(b) /\ pc'[b] = "publish"
  BY <1>1, <1>2, <1>6, LeaveFacts, Zenon DEF TypeOK, StepOf, Places
<1>8. Owns(b)'
  <2>1. held[b].version \in Versions /\ project' = "ta" /\ held'[b] = held[b]
    BY <1>1, <1>2, <1>7, Zenon DEF Owns, Places, StepOf
  <2> QED  BY <1>1, <1>5, <1>6, <1>7, <2>1, Zenon DEF Owns
<1>9. ModeStep(b) /\ SharedWhole'
  BY <1>1, <1>2, Zenon DEF ModeStep, IInv, SharedWhole
<1> QED  BY <1>1, <1>2, <1>7, <1>8, <1>9, StepKeeps, Zenon

(* The rename to the published name, *)
LEMMA PublishKeeps ==
  ASSUME IInv, NEW b \in Running, PublishTempfile(b), Partial(b) # Absent
  PROVE  IInv'
<1>1. b \in Builds /\ TypeOK /\ Owns(b) /\ held[b].at = Absent /\ held[b].at # "chmod"
  BY GoesOn
<1> DEFINE to == IF project = "ta" THEN "chmod" ELSE "copy"
<1>2. /\ pc[b] = "publish" /\ Leave(b, to) /\ out' = Partial(b)
      /\ temp' = [temp EXCEPT ![<<b, "partial">>] = Absent]
      /\ UNCHANGED <<binary, inst, held>>
  BY <1>1, Zenon DEF PublishTempfile, Publish, Name, Partial
<1>3. Complete(Partial(b)) /\ Partial(b) \in MaybeFiles
  BY <1>1, <1>2, Zenon DEF Owns, Complete, MaybeFiles
<1>4. /\ to \in {"chmod", "copy"} /\ to \in Places \cup Ended
      /\ project = "ta" => to = "chmod"
      /\ to = "chmod" => project = "ta"
  BY Zenon DEF Places
<1> HIDE DEF to
<1>5. /\ temp' \in [Names -> MaybeFiles] /\ Stripped(b)' = Stripped(b)
      /\ \A c \in Builds \ {b} : Stripped(c)' = Stripped(c) /\ Partial(c)' = Partial(c)
  BY <1>1, <1>2, TempFacts, Zenon DEF MaybeFiles
<1>6. TypeOK' /\ StepOf(b) /\ pc'[b] = to
  BY <1>1, <1>2, <1>3, <1>4, <1>5, LeaveFacts, Zenon DEF TypeOK, StepOf
<1>7. Owns(b)'
  <2>1. held[b].version \in Versions /\ project' = project /\ held'[b] = held[b]
    BY <1>1, <1>2, <1>6, Zenon DEF Owns, Places, StepOf
  <2> QED  BY <1>1, <1>4, <1>5, <1>6, <2>1, Zenon DEF Owns
<1>8. SharedWhole'
  BY <1>2, <1>3, Zenon DEF IInv, SharedWhole
<1>9. ModeStep(b)
  BY <1>4, <1>6, Zenon DEF ModeStep
<1> QED  BY <1>1, <1>2, <1>6, <1>7, <1>8, <1>9, StepKeeps, Zenon

(* or its failure. *)
LEMMA RenameFailsKeeps ==
  ASSUME IInv, NEW b \in Running, RenameFails(b)
  PROVE  IInv'
<1>1. b \in Builds /\ TypeOK /\ Owns(b) /\ held[b].at = Absent /\ held[b].at # "chmod"
  BY GoesOn, Zenon
<1>2. /\ pc[b] = "publish" /\ Leave(b, "kept")
      /\ temp' = [n \in Names |-> IF n = <<b, "stripped">> THEN Absent ELSE temp[n]]
      /\ UNCHANGED <<binary, out, inst, held>>
  BY Zenon DEF RenameFails
<1>3. /\ temp' \in [Names -> MaybeFiles] /\ Stripped(b)' = Absent
      /\ \A c \in Builds \ {b} : Stripped(c)' = Stripped(c) /\ Partial(c)' = Partial(c)
  BY <1>1, <1>2, NameFacts, Zenon DEF TypeOK, Stripped, Partial, MaybeFiles
<1>4. TypeOK' /\ StepOf(b) /\ pc'[b] = "kept"
  BY <1>1, <1>2, <1>3, LeaveFacts, Zenon DEF TypeOK, StepOf, Ended
<1>5. Owns(b)'
  BY <1>1, <1>2, <1>3, <1>4, Zenon DEF Owns, Places
<1>6. ModeStep(b) /\ SharedWhole'
  BY <1>1, <1>2, Zenon DEF ModeStep, IInv, SharedWhole
<1> QED  BY <1>1, <1>2, <1>4, <1>5, <1>6, StepKeeps, Zenon

(* The change of mode. *)
LEMMA PermissionsKeep ==
  ASSUME IInv, NEW b \in Running, SetTaFilePermissions(b), out # Absent
  PROVE  IInv'
<1>1. b \in Builds /\ TypeOK /\ Owns(b) /\ held[b].at = Absent /\ held[b].at # "chmod"
  BY GoesOn
<1>2. /\ pc[b] = "chmod" /\ Leave(b, "copy") /\ out' = [out EXCEPT !.mode = "0644"]
      /\ UNCHANGED <<binary, temp, inst, held>>
  BY Zenon DEF SetTaFilePermissions, Readable
<1>3. Complete(out)
  BY Zenon DEF IInv, SharedWhole
<1>4. out' \in Files /\ out'.b = out'.a /\ out'.stripped = TRUE /\ out'.mode = "0644"
  BY <1>2, <1>3, Zenon DEF Complete, Files, Modes
<1>5. TypeOK' /\ StepOf(b) /\ pc'[b] = "copy"
  BY <1>1, <1>2, <1>4, LeaveFacts, SameTemps, Zenon DEF TypeOK, StepOf, Places, MaybeFiles
<1>6. Owns(b)'
  BY <1>1, <1>2, <1>5, SameTemps, Zenon DEF Owns, Complete, Places
<1>7. ModeStep(b) /\ SharedWhole'
  BY <1>2, <1>4, Zenon DEF ModeStep, IInv, SharedWhole, Complete
<1> QED  BY <1>1, <1>2, <1>5, <1>6, <1>7, StepKeeps, Zenon

(* The build returns, with success. *)
LEMMA DoneKeeps ==
  ASSUME IInv, NEW b \in Running, Leave(b, "done"), DropTemps(b), pc[b] # "chmod",
         UNCHANGED <<binary, out, held>>, inst' \in MaybeFiles,
         inst # Absent => inst' # Absent
  PROVE  IInv'
<1>1. b \in Builds /\ TypeOK /\ Owns(b) /\ held[b].at = Absent /\ held[b].at # "chmod"
  BY GoesOn, Zenon
<1>2. TypeOK' /\ StepOf(b) /\ pc'[b] = "done" /\ Stripped(b)' = Absent
  BY <1>1, LeaveFacts, DropFacts, Zenon DEF TypeOK, StepOf, Ended
<1>3. Owns(b)'
  BY <1>1, <1>2, Zenon DEF Owns, Places
<1>4. ModeStep(b) /\ SharedWhole'
  BY <1>1, Zenon DEF ModeStep, IInv, SharedWhole
<1> QED  BY <1>1, <1>2, <1>3, <1>4, StepKeeps, Zenon

(* The copy to the directory of the installation. *)
LEMMA CopyOpensKeeps ==
  ASSUME IInv, NEW b \in Running, CopyOpens(b), Product # Absent
  PROVE  IInv'
<1>1. b \in Builds /\ TypeOK /\ Owns(b) /\ held[b].at = Absent /\ held[b].at # "chmod"
  BY GoesOn, Zenon
<1>2. /\ pc[b] = "copy" /\ Leave(b, "copying")
      /\ held' = [held EXCEPT ![b].open = Product]
      /\ inst' = [Product EXCEPT !.b = Absent]
      /\ UNCHANGED <<binary, temp, out>>
  BY Zenon DEF CopyOpens, Product
<1>3. Product \in Files
  BY <1>1, Zenon DEF TypeOK, Product, MaybeFiles
<1>4. inst' \in Files
  BY <1>2, <1>3, Zenon DEF Files
<1>5. /\ held'[b].open = Product /\ held'[b].at = held[b].at
      /\ held'[b].version = held[b].version
      /\ \A c \in Builds \ {b} : held'[c] = held[c]
      /\ held' \in [Builds -> [version : Versions \cup {Absent}, open : MaybeFiles,
                               at : Places \cup {Absent}]]
  BY <1>1, <1>2, <1>3 DEF TypeOK, MaybeFiles
<1>6. TypeOK' /\ StepOf(b) /\ pc'[b] = "copying"
  <2>1. "copying" \in Places \cup Ended
    BY Zenon DEF Places
  <2>2. /\ pc' \in [Builds -> Places \cup Ended] /\ pc'[b] = "copying"
        /\ \A c \in Builds \ {b} : pc'[c] = pc[c]
        /\ project' = project /\ source' = source /\ shared' = shared
    BY <1>1, <1>2, <2>1, LeaveFacts, Zenon
  <2>3. TypeOK'
    BY <1>1, <1>2, <1>4, <1>5, <2>2, Zenon DEF TypeOK, MaybeFiles
  <2> QED  BY <1>2, <1>5, SameTemps, <2>2, <2>3, Zenon DEF StepOf
<1>7. inst' # Absent /\ Product # Absent
  BY <1>3, <1>4, AbsentAssumption, Zenon
<1>8. Owns(b)'
  BY <1>1, <1>2, <1>5, <1>6, <1>7, SameTemps, Zenon DEF Owns, Complete, Places
<1>9. ModeStep(b) /\ SharedWhole'
  BY <1>1, <1>2, <1>5, Zenon DEF ModeStep, IInv, SharedWhole
<1> QED  BY <1>1, <1>6, <1>7, <1>8, <1>9, StepKeeps, Zenon

(* The second half of the copy, and the mode of the copy. *)
LEMMA CopyKeeps ==
  ASSUME IInv, NEW b \in Running, CopyWrites(b) \/ CopyReadable(b)
  PROVE  IInv'
<1>1. b \in Builds /\ TypeOK /\ Owns(b) /\ held[b].at = Absent /\ held[b].at # "chmod"
  BY GoesOn, Zenon
<1>2. CASE CopyWrites(b)
  <2>1. pc[b] = "copying" /\ inst' = [inst EXCEPT !.b = held[b].open.b]
        /\ UNCHANGED <<binary, out, held>>
    BY <1>2, Zenon DEF CopyWrites
  <2>2. inst \in Files /\ held[b].open \in Files
    BY <1>1, <2>1, Zenon DEF Owns, TypeOK, MaybeFiles
  <2>3. inst' \in Files /\ inst' # Absent
    BY <2>1, <2>2, AbsentAssumption DEF Files
  <2>4. CASE project = "ta"
    <3>1. Leave(b, "chmod copy") /\ temp' = temp
      BY <1>2, <2>4, Zenon DEF CopyWrites
    <3>2. TypeOK' /\ StepOf(b) /\ pc'[b] = "chmod copy"
      BY <1>1, <2>1, <2>3, <3>1, LeaveFacts, SameTemps, Zenon DEF TypeOK, StepOf, Places, MaybeFiles
    <3>3. Owns(b)'
      BY <1>1, <2>1, <2>3, <2>4, <3>1, <3>2, SameTemps, Zenon DEF Owns, Complete, Places, StepOf
    <3>4. ModeStep(b) /\ SharedWhole'
      BY <1>1, <2>1, Zenon DEF ModeStep, IInv, SharedWhole
    <3> QED  BY <1>1, <2>3, <3>2, <3>3, <3>4, StepKeeps, Zenon
  <2>5. CASE project # "ta"
    BY <1>2, <2>1, <2>3, <2>5, DoneKeeps, Zenon DEF CopyWrites, MaybeFiles
  <2> QED  BY <2>4, <2>5, Zenon
<1>3. CASE CopyReadable(b)
  <2>1. pc[b] = "chmod copy" /\ inst' = [inst EXCEPT !.mode = "0644"]
    BY <1>3, Zenon DEF CopyReadable, Readable
  <2>2. inst \in Files
    BY <1>1, <2>1, Zenon DEF Owns, TypeOK, MaybeFiles
  <2>3. inst' \in Files /\ inst' # Absent
    BY <2>1, <2>2, AbsentAssumption, Zenon DEF Files, Modes
  <2> QED  BY <1>3, <2>1, <2>3, DoneKeeps, Zenon DEF CopyReadable, MaybeFiles
<1> QED  BY <1>2, <1>3, Zenon

(* The source is edited. *)
LEMMA EditKeeps ==
  ASSUME IInv, Edit
  PROVE  IInv'
<1>1. /\ source < MaxEdits /\ source' = source + 1
      /\ UNCHANGED <<project, binary, temp, out, inst, pc, held, shared>>
  BY Zenon DEF Edit
<1>2. TypeOK'
  BY <1>1, EditsAssumption DEF IInv, TypeOK, Versions
<1>3. \A b \in Builds : Owns(b)'
  BY <1>1, SameTemps, Zenon DEF IInv, Owns, Complete
<1> QED  BY <1>1, <1>2, <1>3, Zenon DEF IInv, SharedWhole, Complete, UnreadableOnlyMidway

(* The target directory is cleaned. *)
LEMMA CleanKeeps ==
  ASSUME IInv, CleanProject
  PROVE  IInv'
<1>1. /\ binary' = Absent /\ out' = Absent /\ temp' = [n \in Names |-> Absent]
      /\ shared' = shared \cup Running
      /\ UNCHANGED <<project, source, inst, pc, held>>
  BY Zenon DEF CleanProject
<1>2. TypeOK'
  BY <1>1, Zenon DEF IInv, TypeOK, MaybeFiles, Running
<1>3. \A b \in Builds : Owns(b)'
  <2> SUFFICES ASSUME NEW b \in Builds PROVE Owns(b)'
    OBVIOUS
  <2>1. Stripped(b)' = Absent /\ Partial(b)' = Absent
    BY <1>1, NameFacts, Zenon DEF Stripped, Partial
  <2>2. Owns(b)
    BY Zenon DEF IInv
  <2> QED  BY <1>1, <2>1, <2>2, Zenon DEF Owns, Complete
<1> QED  BY <1>1, <1>2, <1>3, Zenon DEF IInv, SharedWhole, UnreadableOnlyMidway

(* A build that takes a step other than its first one was running. *)
LEMMA StepRuns ==
  ASSUME IInv, NEW b \in Builds,
         (Step(b) /\ pc[b] # "idle") \/ CommandFails(b) \/ Kill(b) \/ RenameFails(b)
  PROVE  b \in Running
BY Zenon DEF Step, Start, BuildBinary, StripBinary, StripInPlace, SignOpens, SignWrites,
   PublishTempfile, SetTaFilePermissions, NoInstall, CopyOpens, CopyWrites, CopyReadable,
   CommandFails, Kill, RenameFails, Running, Ended

(* Every step preserves the invariant. *)
LEMMA Inductive == IInv /\ [Next]_vars => IInv'
<1> SUFFICES ASSUME IInv, [Next]_vars PROVE IInv'
  OBVIOUS
<1>1. ASSUME NEW b \in Builds, Step(b), pc[b] = "idle"
      PROVE  IInv'
  <2>1. Start(b)
    BY <1>1, Zenon DEF Step, Start, BuildBinary, StripBinary, StripInPlace, SignOpens, SignWrites,
       PublishTempfile, SetTaFilePermissions, NoInstall, CopyOpens, CopyWrites, CopyReadable
  <2> QED  BY <2>1, StartKeeps, Zenon
<1>2. ASSUME NEW b \in Running, Step(b)
      PROVE  IInv'
  <2>0. b \in Builds /\ TypeOK
    BY GoesOn, Zenon
  <2>1. CASE Start(b) \/ BuildBinary(b)
    BY <2>0, <2>1, StartKeeps, BuildBinaryKeeps, Zenon
  <2>2. CASE StripBinary(b)
    BY <2>2, StripBinaryKeeps, FailKeeps, Zenon DEF StripBinary
  <2>3. CASE StripInPlace(b)
    BY <2>3, StripInPlaceKeeps, FailKeeps, Zenon DEF StripInPlace
  <2>4. CASE SignOpens(b)
    BY <2>4, SignOpensKeeps, FailKeeps, Zenon DEF SignOpens, Stripped, Name
  <2>5. CASE SignWrites(b)
    BY <2>5, SignWritesKeeps, FailKeeps, Zenon DEF SignWrites, Partial, Name
  <2>6. CASE PublishTempfile(b)
    BY <2>6, PublishKeeps, FailKeeps, Zenon DEF PublishTempfile, Partial, Name
  <2>7. CASE SetTaFilePermissions(b)
    BY <2>7, PermissionsKeep, FailKeeps, Zenon DEF SetTaFilePermissions
  <2>8. CASE NoInstall(b)
    BY <2>0, <2>8, DoneKeeps, Zenon DEF NoInstall, TypeOK
  <2>9. CASE CopyOpens(b)
    BY <2>9, CopyOpensKeeps, FailKeeps, Zenon DEF CopyOpens, Product
  <2>10. CASE CopyWrites(b) \/ CopyReadable(b)
    BY <2>10, CopyKeeps, Zenon
  <2> QED  BY <1>2, <2>1, <2>2, <2>3, <2>4, <2>5, <2>6, <2>7, <2>8, <2>9, <2>10, Zenon DEF Step
<1>3. ASSUME NEW b \in Running, CommandFails(b) \/ Kill(b) \/ RenameFails(b)
      PROVE  IInv'
  BY <1>3, FailKeeps, StopKeeps, RenameFailsKeeps, Zenon DEF CommandFails, Kill
<1>4. CASE Edit \/ CleanProject
  BY <1>4, EditKeeps, CleanKeeps, Zenon
<1>5. CASE UNCHANGED vars
  <2>1. TypeOK' /\ SharedWhole' /\ UnreadableOnlyMidway'
    BY <1>5, Zenon DEF vars, IInv, TypeOK, Complete, SharedWhole, UnreadableOnlyMidway
  <2>2. ASSUME NEW b \in Builds PROVE Owns(b)'
    <3>1. Owns(b)
      BY Zenon DEF IInv
    <3> QED  BY <1>5, <3>1, SameTemps, Zenon DEF vars, Owns, Complete
  <2> QED  BY <2>1, <2>2, Zenon DEF IInv
<1> QED  BY <1>1, <1>2, <1>3, <1>4, <1>5, StepRuns, Zenon DEF Next

(* What the builds own and share is as IInv says, in every reachable state. *)
THEOREM IInvHolds == Spec => []IInv
BY InitIInv, Inductive, PTL DEF Spec

(* However many builds run, fail or are killed in one target directory,    *)
(* what stands under the artifact's name is one complete, stripped         *)
(* product.                                                                *)
THEOREM AlwaysWhole == Spec => []PublishedWhole
<1>1. IInv => PublishedWhole
  BY CompleteIsFile, Zenon DEF IInv, SharedWhole, PublishedWhole
<1> QED  BY <1>1, IInvHolds, PTL

(* A published TA that only its owner can read means a build between the   *)
(* rename and the change of mode, or one that was stopped there.           *)
THEOREM UnreadableIsMidway == Spec => []UnreadableOnlyMidway
<1>1. IInv => UnreadableOnlyMidway
  BY Zenon DEF IInv
<1> QED  BY <1>1, IInvHolds, PTL

-----------------------------------------------------------------------------
(* The file that a build is to leave. *)
Good(b) == File(held[b].version, IF project = "ta" THEN "0644" ELSE "0755")

(* A build that runs by itself: what stands between it and its product. *)
OnTrack(b) ==
  LET v == held[b].version
  IN  /\ pc[b] = "strip" => binary = [File(v, "0755") EXCEPT !.stripped = FALSE]
      /\ pc[b] = "sign" => Stripped(b) = File(v, "0755")
      /\ pc[b] = "signing" => /\ held[b].open = File(v, "0755")
                              /\ Partial(b) = [File(v, "0600") EXCEPT !.b = Absent]
      /\ pc[b] = "publish" =>
           Partial(b) = File(v, IF project = "ta" THEN "0600" ELSE "0755")
      /\ pc[b] = "chmod" => out = File(v, "0600")
      /\ pc[b] \in {"copy", "copying", "chmod copy"} => Product = Good(b)
      /\ pc[b] = "copying" => /\ held[b].open = Good(b)
                              /\ inst = [Good(b) EXCEPT !.b = Absent]
      /\ pc[b] = "chmod copy" => inst = Good(b)

(* A build that has not overlapped with another one is the only one that   *)
(* runs.                                                                   *)
Alone == \A b \in Running \ shared : Running = {b} /\ OnTrack(b)

(* A file is its halves, its mode and whether it is stripped. *)
LEMMA SameFile ==
  ASSUME NEW f \in Files, NEW g \in Files,
         f.a = g.a, f.b = g.b, f.mode = g.mode, f.stripped = g.stripped
  PROVE  f = g
<1>1. f \in [a : Versions, b : Versions \cup {Absent}, mode : Modes, stripped : BOOLEAN]
  BY Zenon DEF Files
<1>2. g \in [a : Versions, b : Versions \cup {Absent}, mode : Modes, stripped : BOOLEAN]
  BY Zenon DEF Files
<1>3. f = [a |-> f.a, b |-> f.b, mode |-> f.mode, stripped |-> f.stripped]
  BY <1>1, Zenon
<1>4. g = [a |-> g.a, b |-> g.b, mode |-> g.mode, stripped |-> g.stripped]
  BY <1>2, Zenon
<1> QED  BY <1>3, <1>4, Zenon

(* Writing the second half, stripping and changing the mode. *)
LEMMA RewriteFacts ==
  ASSUME NEW v \in Versions, NEW m \in Modes, NEW n \in Modes
  PROVE  /\ [[File(v, m) EXCEPT !.b = Absent] EXCEPT !.b = v] = File(v, m)
         /\ [[File(v, m) EXCEPT !.stripped = FALSE] EXCEPT !.stripped = TRUE] = File(v, m)
         /\ [File(v, m) EXCEPT !.mode = n] = File(v, n)
<1> DEFINE f == File(v, m)
           half == [f EXCEPT !.b = Absent]
           unstripped == [f EXCEPT !.stripped = FALSE]
<1>1. /\ f \in Files /\ f.a = v /\ f.b = v /\ f.mode = m /\ f.stripped = TRUE
      /\ File(v, n) \in Files /\ File(v, n).a = v /\ File(v, n).b = v
      /\ File(v, n).mode = n /\ File(v, n).stripped = TRUE
  BY FileFacts, Zenon
<1> HIDE DEF f
<1>2. [half EXCEPT !.b = v] = f
  <2>1. half \in Files
    BY <1>1 DEF Files
  <2>2. [half EXCEPT !.b = v] \in Files
    BY <2>1, Zenon DEF Files
  <2>3. /\ [half EXCEPT !.b = v].a = f.a /\ [half EXCEPT !.b = v].b = v
        /\ [half EXCEPT !.b = v].mode = f.mode
        /\ [half EXCEPT !.b = v].stripped = f.stripped
    BY <1>1 DEF Files
  <2> QED  BY <1>1, <2>2, <2>3, SameFile, Zenon
<1>3. [unstripped EXCEPT !.stripped = TRUE] = f
  <2>1. unstripped \in Files
    BY <1>1, Zenon DEF Files
  <2>2. [unstripped EXCEPT !.stripped = TRUE] \in Files
    BY <2>1, Zenon DEF Files
  <2>3. /\ [unstripped EXCEPT !.stripped = TRUE].a = f.a
        /\ [unstripped EXCEPT !.stripped = TRUE].b = f.b
        /\ [unstripped EXCEPT !.stripped = TRUE].mode = f.mode
        /\ [unstripped EXCEPT !.stripped = TRUE].stripped = TRUE
    BY <1>1 DEF Files
  <2> QED  BY <1>1, <2>2, <2>3, SameFile, Zenon
<1>4. [f EXCEPT !.mode = n] = File(v, n)
  <2>1. [f EXCEPT !.mode = n] \in Files
    BY <1>1 DEF Files
  <2>2. /\ [f EXCEPT !.mode = n].a = v /\ [f EXCEPT !.mode = n].b = v
        /\ [f EXCEPT !.mode = n].mode = n /\ [f EXCEPT !.mode = n].stripped = TRUE
    BY <1>1 DEF Files
  <2> QED  BY <1>1, <2>1, <2>2, SameFile, Zenon
<1> QED  BY <1>2, <1>3, <1>4, Zenon DEF f

(* What a build on its track has at hand is there. *)
LEMMA TrackFacts ==
  ASSUME IInv, NEW b \in Running, OnTrack(b), pc[b] # "cargo"
  PROVE  LET v == held[b].version
         IN  /\ v \in Versions
             /\ File(v, "0755") # Absent /\ File(v, "0600") # Absent /\ Good(b) # Absent
             /\ pc[b] = "strip" => binary # Absent
             /\ pc[b] = "sign" => Stripped(b) # Absent
             /\ pc[b] \in {"signing", "publish"} => Partial(b) # Absent
             /\ pc[b] = "chmod" => out # Absent
             /\ pc[b] = "copy" => Product # Absent
<1> DEFINE v == held[b].version
<1>1. v \in Versions
  BY GoesOn, Zenon DEF Owns
<1>2. /\ File(v, "0755") \in Files /\ File(v, "0755") # Absent
      /\ File(v, "0600") \in Files /\ File(v, "0600") # Absent
      /\ Good(b) \in Files /\ Good(b) # Absent
  <2>1. ASSUME NEW m \in Modes PROVE File(v, m) \in Files /\ File(v, m) # Absent
    BY <1>1, FileFacts, Zenon
  <2>2. "0755" \in Modes /\ "0600" \in Modes /\ "0644" \in Modes
    BY Zenon DEF Modes
  <2> QED  BY <2>1, <2>2, Zenon DEF Good
<1> HIDE DEF v
<1>3. /\ [File(v, "0755") EXCEPT !.stripped = FALSE] \in Files
      /\ [File(v, "0600") EXCEPT !.b = Absent] \in Files
  BY <1>2, Zenon DEF Files
<1>4. /\ [File(v, "0755") EXCEPT !.stripped = FALSE] # Absent
      /\ [File(v, "0600") EXCEPT !.b = Absent] # Absent
  BY <1>3, AbsentAssumption, Zenon
<1> QED  BY <1>1, <1>2, <1>4, Zenon DEF OnTrack, v

(* The copy is good once its second half is written. *)
LEMMA CopyIsGood ==
  ASSUME IInv, NEW b \in Running, OnTrack(b), pc[b] = "copying",
         inst' = [inst EXCEPT !.b = held[b].open.b]
  PROVE  inst' = Good(b)
<1> DEFINE v == held[b].version
           m == IF project = "ta" THEN "0644" ELSE "0755"
<1>1. v \in Versions /\ m \in Modes
  BY TrackFacts DEF Modes
<1>2. Good(b) = File(v, m)
  BY DEF Good
<1>3. held[b].open = File(v, m) /\ inst = [File(v, m) EXCEPT !.b = Absent]
  BY <1>2 DEF OnTrack
<1>4. held[b].open.b = v
  BY <1>3 DEF File
<1> HIDE DEF v, m
<1> QED  BY <1>1, <1>2, <1>3, <1>4, RewriteFacts, Zenon

(* The variables of a step that has not failed, for the build that takes   *)
(* it.                                                                     *)
LEMMA TrackStep ==
  ASSUME IInv, NEW b \in Running, OnTrack(b), Step(b), b \in Running'
  PROVE  OnTrack(b)'
<1> DEFINE v == held[b].version
<1>1. b \in Builds /\ TypeOK /\ Owns(b)
  BY GoesOn, Zenon
<1>2. pc'[b] \notin {"failed", "done"}
  BY Zenon DEF Running, Ended
<1>3. ~Start(b)
  BY Zenon DEF Start, Running, Ended
<1>4. ~Fail(b)
  BY <1>1, <1>2, LeaveFacts DEF Fail, Ended
<1>5. CASE BuildBinary(b)
  <2>1. /\ Leave(b, "strip") /\ held' = [held EXCEPT ![b].version = source]
        /\ binary' = [File(source, "0755") EXCEPT !.stripped = FALSE]
    BY <1>5 DEF BuildBinary
  <2>2. pc'[b] = "strip"
    BY <1>1, <2>1, LeaveFacts, Zenon DEF Places
  <2>3. held'[b].version = source
    BY <1>1, <2>1 DEF TypeOK
  <2> QED  BY <2>1, <2>2, <2>3, Zenon DEF OnTrack
<1>6. CASE StripBinary(b)
  <2>1. /\ pc[b] = "strip" /\ project \in {"ta", "plugin"} /\ held' = held
        /\ Leave(b, IF project = "ta" THEN "sign" ELSE "publish")
        /\ temp' = [temp EXCEPT ![Name(b, IF project = "ta" THEN "stripped" ELSE "partial")]
                                  = [binary EXCEPT !.stripped = TRUE]]
    BY <1>4, <1>6 DEF StripBinary
  <2>2. v \in Versions /\ binary = [File(v, "0755") EXCEPT !.stripped = FALSE]
    BY <2>1, TrackFacts, Zenon DEF OnTrack
  <2>3. [binary EXCEPT !.stripped = TRUE] = File(v, "0755")
    BY <2>2, RewriteFacts, Zenon DEF Modes
  <2>4. project' = project /\ held'[b].version = v
    BY <2>1 DEF Leave
  <2>5. CASE project = "ta"
    <3>1. pc'[b] = "sign" /\ Stripped(b)' = File(v, "0755")
      BY <1>1, <2>1, <2>3, <2>5, LeaveFacts, NameFacts, Zenon DEF Places, Stripped, TypeOK
    <3> QED  BY <2>4, <3>1, Zenon DEF OnTrack
  <2>6. CASE project = "plugin"
    <3>1. pc'[b] = "publish" /\ Partial(b)' = File(v, "0755")
      BY <1>1, <2>1, <2>3, <2>6, LeaveFacts, NameFacts, Zenon DEF Places, Partial, TypeOK
    <3> QED  BY <2>4, <2>6, <3>1, Zenon DEF OnTrack
  <2> QED  BY <2>1, <2>5, <2>6
<1>7. CASE StripInPlace(b)
  <2>1. /\ pc[b] = "strip" /\ project = "ca" /\ held' = held /\ Leave(b, "copy")
        /\ binary' = [binary EXCEPT !.stripped = TRUE]
    BY <1>4, <1>7 DEF StripInPlace
  <2>2. v \in Versions /\ binary = [File(v, "0755") EXCEPT !.stripped = FALSE]
    BY <2>1, TrackFacts, Zenon DEF OnTrack
  <2>3. binary' = File(v, "0755")
    BY <2>1, <2>2, RewriteFacts, Zenon DEF Modes
  <2>4. project' = project /\ held'[b].version = v /\ pc'[b] = "copy"
    BY <1>1, <2>1, LeaveFacts, Zenon DEF Places
  <2> QED  BY <2>1, <2>3, <2>4, Zenon DEF OnTrack, Product, Good
<1>8. CASE SignOpens(b)
  <2>1. /\ pc[b] = "sign" /\ Leave(b, "signing")
        /\ held' = [held EXCEPT ![b].open = Stripped(b)]
        /\ temp' = [temp EXCEPT ![<<b, "partial">>] =
                      [File(Stripped(b).a, "0600") EXCEPT !.b = Absent]]
    BY <1>4, <1>8 DEF SignOpens, Stripped, Name
  <2>2. v \in Versions /\ Stripped(b) = File(v, "0755") /\ Stripped(b).a = v
    <3>1. v \in Versions /\ Stripped(b) = File(v, "0755")
      BY <2>1, TrackFacts, Zenon DEF OnTrack
    <3> QED  BY <3>1 DEF File
  <2>3. Partial(b)' = [File(v, "0600") EXCEPT !.b = Absent]
    BY <1>1, <2>1, <2>2, NameFacts, Zenon DEF Partial, TypeOK
  <2>4. held'[b].open = File(v, "0755") /\ held'[b].version = v
    BY <1>1, <2>1, <2>2 DEF TypeOK
  <2>5. pc'[b] = "signing"
    BY <1>1, <2>1, LeaveFacts, Zenon DEF Places
  <2> QED  BY <2>3, <2>4, <2>5, Zenon DEF OnTrack
<1>9. CASE SignWrites(b)
  <2>1. /\ pc[b] = "signing" /\ Leave(b, "publish") /\ held' = held
        /\ temp' = [temp EXCEPT ![<<b, "partial">>] =
                      [Partial(b) EXCEPT !.b = held[b].open.b]]
    BY <1>4, <1>9 DEF SignWrites, Partial, Name
  <2>2. /\ v \in Versions /\ held[b].open.b = v
        /\ Partial(b) = [File(v, "0600") EXCEPT !.b = Absent]
    <3>1. /\ v \in Versions /\ held[b].open = File(v, "0755")
          /\ Partial(b) = [File(v, "0600") EXCEPT !.b = Absent]
      BY <2>1, TrackFacts, Zenon DEF OnTrack
    <3>2. held[b].open.b = v
      BY <3>1 DEF File
    <3> QED  BY <3>1, <3>2
  <2>3. [Partial(b) EXCEPT !.b = held[b].open.b] = File(v, "0600")
    BY <2>2, RewriteFacts, Zenon DEF Modes
  <2>4. Partial(b)' = File(v, "0600")
    BY <1>1, <2>1, <2>3, NameFacts, Zenon DEF Partial, TypeOK
  <2>5. /\ pc'[b] = "publish" /\ held'[b].version = v /\ project = "ta" /\ project' = "ta"
    BY <1>1, <2>1, LeaveFacts, Zenon DEF Places, Owns
  <2> QED  BY <2>4, <2>5, Zenon DEF OnTrack
<1>10. CASE PublishTempfile(b)
  <2>1. /\ pc[b] = "publish" /\ out' = Partial(b) /\ held' = held
        /\ Leave(b, IF project = "ta" THEN "chmod" ELSE "copy")
    BY <1>4, <1>10, Zenon DEF PublishTempfile, Publish, Partial, Name
  <2>2. out' = File(v, IF project = "ta" THEN "0600" ELSE "0755") /\ project # "ca"
    BY <1>1, <2>1 DEF OnTrack, Owns
  <2>3. /\ project' = project /\ held'[b].version = v
        /\ pc'[b] = IF project = "ta" THEN "chmod" ELSE "copy"
    BY <1>1, <2>1, LeaveFacts, Zenon DEF Places
  <2> QED  BY <2>2, <2>3, Zenon DEF OnTrack, Product, Good
<1>11. CASE SetTaFilePermissions(b)
  <2>1. /\ pc[b] = "chmod" /\ out' = [out EXCEPT !.mode = "0644"] /\ held' = held
        /\ Leave(b, "copy")
    BY <1>4, <1>11 DEF SetTaFilePermissions, Readable
  <2>2. v \in Versions /\ out = File(v, "0600") /\ project = "ta"
    BY <1>1, <2>1, TrackFacts, Zenon DEF OnTrack, Owns
  <2>3. out' = File(v, "0644")
    BY <2>1, <2>2, RewriteFacts, Zenon DEF Modes
  <2>4. project' = project /\ held'[b].version = v /\ pc'[b] = "copy"
    BY <1>1, <2>1, LeaveFacts, Zenon DEF Places
  <2> QED  BY <2>2, <2>3, <2>4, Zenon DEF OnTrack, Product, Good
<1>12. CASE CopyOpens(b)
  <2>1. /\ pc[b] = "copy" /\ Leave(b, "copying")
        /\ held' = [held EXCEPT ![b].open = Product]
        /\ inst' = [Product EXCEPT !.b = Absent]
        /\ UNCHANGED <<binary, out>>
    BY <1>4, <1>12 DEF CopyOpens, Product
  <2>2. Product = Good(b)
    BY <2>1 DEF OnTrack
  <2>3. /\ project' = project /\ pc'[b] = "copying"
        /\ held'[b].version = v /\ held'[b].open = Product
    <3>1. held'[b].version = v /\ held'[b].open = Product
      BY <1>1, <2>1 DEF TypeOK
    <3> QED  BY <1>1, <2>1, <3>1, LeaveFacts, Zenon DEF Places
  <2>4. Product' = Product /\ Good(b)' = Good(b)
    BY <2>1, <2>3 DEF Product, Good
  <2> QED  BY <2>1, <2>2, <2>3, <2>4 DEF OnTrack
<1>13. CASE CopyWrites(b)
  <2>1. /\ pc[b] = "copying" /\ inst' = [inst EXCEPT !.b = held[b].open.b]
        /\ UNCHANGED <<binary, out, held>>
        /\ Leave(b, "chmod copy") \/ Leave(b, "done")
    BY <1>13, Zenon DEF CopyWrites
  <2>2. pc'[b] = "chmod copy" /\ project' = project
    BY <1>1, <1>2, <2>1, LeaveFacts, Zenon DEF Places, Ended
  <2>3. Product' = Product /\ Good(b)' = Good(b) /\ Product = Good(b)
    BY <2>1, <2>2, Zenon DEF OnTrack, Product, Good
  <2>4. inst' = Good(b)
    BY <2>1, CopyIsGood, Zenon
  <2> QED  BY <2>2, <2>3, <2>4, Zenon DEF OnTrack
<1>14. CASE NoInstall(b) \/ CopyReadable(b)
  BY <1>1, <1>2, <1>14, LeaveFacts, Zenon DEF NoInstall, CopyReadable, Ended
<1> QED
  BY <1>3, <1>5, <1>6, <1>7, <1>8, <1>9, <1>10, <1>11, <1>12, <1>13, <1>14, Zenon DEF Step

(* A step of one build other than its first one, by who runs before and    *)
(* after it.                                                               *)
LEMMA OthersStay ==
  ASSUME IInv, NEW c \in Running,
         Step(c) \/ CommandFails(c) \/ Kill(c) \/ RenameFails(c)
  PROVE  /\ Running' \subseteq Running /\ shared' = shared
         /\ Step(c) \/ c \notin Running'
<1>1. c \in Builds /\ TypeOK /\ pc[c] \notin Ended
  BY GoesOn, Zenon DEF Running
<1>2. ~Start(c)
  BY <1>1, Zenon DEF Start, Ended
<1>3. shared' = shared /\ \E to : pc' = [pc EXCEPT ![c] = to]
  BY <1>2, Zenon DEF Step, BuildBinary, StripBinary, StripInPlace, SignOpens, SignWrites,
     PublishTempfile, SetTaFilePermissions, NoInstall, CopyOpens, CopyWrites, CopyReadable,
     CommandFails, Kill, RenameFails, Fail, Leave
<1>4. \A b \in Builds \ {c} : pc'[b] = pc[b]
  BY <1>1, <1>3, Zenon DEF TypeOK
<1>5. Running' \subseteq Running
  BY <1>1, <1>4, Zenon DEF Running
<1>6. CommandFails(c) \/ Kill(c) \/ RenameFails(c) => c \notin Running'
  BY <1>1 DEF CommandFails, Fail, Kill, RenameFails, Leave, TypeOK, Running, Ended
<1> QED  BY <1>3, <1>5, <1>6

(* A build that starts is alone, or it and all that run are shared. *)
LEMMA StartStep ==
  ASSUME IInv, Alone, NEW c \in Builds, Start(c)
  PROVE  Alone'
<1>1. /\ pc[c] = "idle" /\ pc' = [pc EXCEPT ![c] = "cargo"]
      /\ shared' = IF Running = {} THEN shared ELSE shared \cup Running \cup {c}
  BY DEF Start
<1>2. pc'[c] = "cargo" /\ \A b \in Builds \ {c} : pc'[b] = pc[b]
  BY <1>1, Zenon DEF IInv, TypeOK
<1>3. Running' = Running \cup {c}
  BY <1>1, <1>2 DEF Running, Ended
<1>4. CASE Running = {}
  <2>1. OnTrack(c)'
    BY <1>2 DEF OnTrack
  <2> QED  BY <1>3, <1>4, <2>1 DEF Alone
<1>5. CASE Running # {}
  BY <1>1, <1>3, <1>5 DEF Alone
<1> QED  BY <1>4, <1>5

(* Every step keeps a build that is alone on its track. *)
LEMMA AloneStep == IInv /\ Alone /\ [Next]_vars => Alone'
<1> SUFFICES ASSUME IInv, Alone, [Next]_vars PROVE Alone'
  OBVIOUS
<1>1. ASSUME NEW c \in Running,
             Step(c) \/ CommandFails(c) \/ Kill(c) \/ RenameFails(c)
      PROVE  Alone'
  <2> SUFFICES ASSUME NEW b \in Running', b \notin shared'
               PROVE  Running' = {b} /\ OnTrack(b)'
    BY DEF Alone
  <2>1. Running' \subseteq Running /\ shared' = shared /\ (Step(c) \/ c \notin Running')
    BY <1>1, OthersStay
  <2>2. Running = {b} /\ OnTrack(b)
    BY <2>1 DEF Alone
  <2>3. c = b /\ Running' = {b} /\ Step(b)
    BY <1>1, <2>1, <2>2
  <2> QED  BY <2>2, <2>3, TrackStep
<1>2. ASSUME NEW c \in Builds, c \notin Running,
             Step(c) \/ CommandFails(c) \/ Kill(c) \/ RenameFails(c)
      PROVE  Alone'
  <2>1. Start(c)
    BY <1>2, StepRuns, Zenon DEF Step, Start, BuildBinary, StripBinary, StripInPlace, SignOpens,
       SignWrites, PublishTempfile, SetTaFilePermissions, NoInstall, CopyOpens, CopyWrites,
       CopyReadable
  <2> QED  BY <2>1, StartStep
<1>3. CASE CleanProject
  <2>1. Running' = Running /\ shared' = shared \cup Running
    BY <1>3 DEF CleanProject, Running
  <2> QED  BY <2>1 DEF Alone
<1>4. CASE Edit \/ UNCHANGED vars
  <2>1. UNCHANGED <<project, binary, temp, out, inst, pc, held, shared>>
    BY <1>4 DEF Edit, vars
  <2>2. Running' = Running /\ shared' = shared
    BY <2>1 DEF Running
  <2>3. ASSUME NEW b \in Running, OnTrack(b) PROVE OnTrack(b)'
    BY <2>1, <2>3, Zenon DEF OnTrack, Stripped, Partial, Product, Good
  <2> QED  BY <2>2, <2>3 DEF Alone
<1> QED  BY <1>1, <1>2, <1>3, <1>4 DEF Next

(* So it is, in every reachable state. *)
LEMMA AloneHolds == Spec => []Alone
<1>1. Init => Alone
  BY DEF Init, Alone, Running, Ended
<1> QED  BY <1>1, AloneStep, IInvHolds, PTL DEF Spec

(* A build that nothing overlapped with leaves, when it succeeds, the      *)
(* complete and readable product of the version it built, and installs     *)
(* that.                                                                   *)
THEOREM AlwaysOwnProduct == Spec => OwnProduct
<1> DEFINE Own(b) ==
      pc[b] # "done" /\ pc'[b] = "done" =>
        LET v == held[b].version
            good(f) == f = File(v, IF project = "ta" THEN "0644" ELSE "0755")
        IN  /\ good(IF project = "ca" THEN binary' ELSE out')
            /\ pc[b] # "copy" => good(inst')
<1>1. IInv /\ Alone /\ [Next]_vars => [\A b \in Builds \ shared : Own(b)]_vars
  <2> SUFFICES ASSUME IInv, Alone, Next, NEW b \in Builds \ shared,
                      pc[b] # "done", pc'[b] = "done"
               PROVE  Own(b)
    OBVIOUS
  <2>1. TypeOK
    BY DEF IInv
  <2>2. NoInstall(b) \/ CopyReadable(b) \/ (CopyWrites(b) /\ project # "ta")
    <3>1. CASE Edit \/ CleanProject
      BY <3>1 DEF Edit, CleanProject
    <3>2. ASSUME NEW c \in Builds, c # b,
                 Step(c) \/ CommandFails(c) \/ Kill(c) \/ RenameFails(c)
          PROVE  FALSE
      <4>1. \E to : pc' = [pc EXCEPT ![c] = to]
        BY <3>2, Zenon DEF Step, Start, BuildBinary, StripBinary, StripInPlace, SignOpens, SignWrites,
           PublishTempfile, SetTaFilePermissions, NoInstall, CopyOpens, CopyWrites,
           CopyReadable, CommandFails, Kill, RenameFails, Fail, Leave
      <4> QED  BY <2>1, <3>2, <4>1 DEF TypeOK
    <3>3. CASE Step(b) \/ CommandFails(b) \/ Kill(b) \/ RenameFails(b)
      BY <2>1, <3>3, Zenon DEF TypeOK, Step, Start, BuildBinary, StripBinary, StripInPlace,
         SignOpens, SignWrites, PublishTempfile, SetTaFilePermissions, CopyOpens, CopyWrites,
         CommandFails, Kill, RenameFails, Fail, Leave
    <3> QED  BY <3>1, <3>2, <3>3, Zenon DEF Next
  <2>3. b \in Running /\ b \in Builds
    BY <2>2, Zenon DEF NoInstall, CopyReadable, CopyWrites, Running, Ended
  <2>4. OnTrack(b) /\ Owns(b)
    BY <2>3, Zenon DEF Alone, IInv
  <2>5. /\ pc[b] \in {"copy", "copying", "chmod copy"} /\ Product = Good(b)
        /\ binary' = binary /\ out' = out
    BY <2>2, <2>4, Zenon DEF OnTrack, NoInstall, CopyReadable, CopyWrites
  <2>6. pc[b] # "copy" => inst' = Good(b)
    <3>1. CASE NoInstall(b)
      BY <3>1, Zenon DEF NoInstall
    <3>2. CASE CopyReadable(b)
      <4>1. inst' = [inst EXCEPT !.mode = "0644"] /\ inst = Good(b) /\ project = "ta"
        BY <2>4, <3>2, Zenon DEF CopyReadable, Readable, OnTrack, Owns
      <4>2. held[b].version \in Versions /\ Good(b) = File(held[b].version, "0644")
        BY <2>3, <2>4, <2>5, <4>1, TrackFacts, Zenon DEF Good
      <4> QED  BY <4>1, <4>2, RewriteFacts, Zenon DEF Modes
    <3>3. CASE CopyWrites(b)
      BY <2>3, <2>4, <3>3, CopyIsGood, Zenon DEF CopyWrites
    <3> QED  BY <2>2, <3>1, <3>2, <3>3, Zenon
  <2> QED  BY <2>5, <2>6, Zenon DEF Product, Good
<1>2. [][\A b \in Builds \ shared : Own(b)]_vars => OwnProduct
  BY DEF OwnProduct
<1> QED  BY <1>1, <1>2, IInvHolds, AloneHolds, PTL DEF Spec

-----------------------------------------------------------------------------
(* Mnist: what train exports, and what infer and serve answer from it.     *)
(* The models whose export was completed. *)
Models == {e[2] : e \in exported}

(* A record that is whole, and every model that was loaded from one, is among *)
(* them, and so is what was answered.                                         *)
AnswerIInv ==
  /\ file.at = "whole" => file.model \in Models
  /\ inf.pc # "off" => inf.model \in Models /\ inf.call \in Calls
  /\ srv.pc # "off" => srv.model \in Models
  /\ DOMAIN inf = DOMAIN Quiet /\ DOMAIN srv = DOMAIN Down
  /\ AnswersWhole

(* Only the end of an export adds a model, and none is removed. *)
LEMMA ModelsGrow ==
  ASSUME MnistNext \/ UNCHANGED mnistVars PROVE \A m \in Models : m \in Models'
<1>1. exported \subseteq exported'
  BY Zenon DEF MnistNext, mnistVars, TrainKilled, Fetch, Store, Load, TrainBatch, TrainedAll, ValidBatch, EpochEnds, Export,
     WriteModel, TrainStart, InferBatch, InferEnds, InferStart, ServeStart, Handle, Respond, Recv
<1> QED BY <1>1, Zenon DEF Models

(* A function on 1 .. n is a sequence, *)
LEMMA IsSequence ==
  ASSUME NEW n \in Nat, NEW S, NEW f \in [1..n -> S] PROVE f \in Seq(S) /\ Len(f) = n /\ DOMAIN f = 1..n
OBVIOUS

(* and what is in two sequences together is in one of them. *)
LEMMA InOneOf ==
  ASSUME NEW S, NEW f \in Seq(S), NEW g \in Seq(S), NEW i \in DOMAIN (f \o g)
  PROVE  (f \o g)[i] \in {f[j] : j \in DOMAIN f} \union {g[j] : j \in DOMAIN g}
<1>1. CASE i <= Len(f)
  BY <1>1
<1>2. CASE ~(i <= Len(f))
  <2>1. i - Len(f) \in DOMAIN g /\ (f \o g)[i] = g[i - Len(f)]
    BY <1>2
  <2> QED BY <2>1, Zenon
<1> QED BY <1>1, <1>2, Zenon

(* The lines of infer carry the model of the session. *)
LEMMA LinesAreOfModel ==
  ASSUME NEW m, NEW c \in Calls, NEW i \in DOMAIN LineAt(c, Inferred(m, c.binary \o c.image))
  PROVE  LineAt(c, Inferred(m, c.binary \o c.image))[i][2][1] = m
<1>a. c.binary \in Seq(STRING) /\ c.image \in Seq(STRING)
  BY ArgsAssumption, Zenon
<1>b. PICK images : images = c.binary \o c.image
  BY Zenon
<1>c. PICK nb \in Nat, ni \in Nat : nb = Len(c.binary) /\ ni = Len(c.image)
  BY <1>a
<1>d. DOMAIN images = 1 .. (nb + ni)
  BY <1>a, <1>b, <1>c
<1>e. PICK answered : answered = Inferred(m, images)
  BY Zenon
<1>0. \A j \in 1 .. (nb + ni) : answered[j][1] = m
  BY <1>d, <1>e, Zenon DEF Inferred
<1> DEFINE f == [j \in 1..nb |-> <<c.binary[j], answered[j]>>]
           g == [j \in 1..ni |-> <<c.image[j], answered[nb + 1]>>]
           S == {f[j] : j \in 1..nb} \union {g[j] : j \in 1..ni}
<1>1. LineAt(c, answered) = f \o g
  BY <1>c, Zenon DEF LineAt
<1>2. \A j \in 1..nb : f[j][2][1] = m
  <2> SUFFICES ASSUME NEW j \in 1..nb PROVE <<c.binary[j], answered[j]>>[2][1] = m
    BY Zenon
  <2>1. j \in 1..(nb + ni)
    OBVIOUS
  <2> QED BY <1>0, <2>1, Zenon
<1>3. \A j \in 1..ni : g[j][2][1] = m
  <2> SUFFICES ASSUME NEW j \in 1..ni PROVE <<c.image[j], answered[nb + 1]>>[2][1] = m
    BY Zenon
  <2>1. nb + 1 \in 1..(nb + ni)
    OBVIOUS
  <2> QED BY <1>0, <2>1, Zenon
<1>4. f \in [1..nb -> S] /\ g \in [1..ni -> S] /\ DOMAIN f = 1..nb /\ DOMAIN g = 1..ni
  BY Zenon
<1> HIDE DEF f, g, S
<1>5. f \in Seq(S) /\ g \in Seq(S)
  BY <1>4, IsSequence, Zenon
<1>6. i \in DOMAIN (f \o g)
  BY <1>1, <1>b, <1>e, Zenon
<1>7. (f \o g)[i] \in {f[j] : j \in DOMAIN f} \union {g[j] : j \in DOMAIN g}
  BY <1>5, <1>6, InOneOf
<1>8. \A x \in {f[j] : j \in DOMAIN f} \union {g[j] : j \in DOMAIN g} : x[2][1] = m
  BY <1>2, <1>3, <1>4, Zenon
<1>9. (f \o g)[i][2][1] = m
  BY <1>7, <1>8, Zenon
<1> QED BY <1>1, <1>9, <1>b, <1>e, Zenon

(* What serve answers is the class of the body under the model. *)
Answered(b) ==
  /\ srv'.model = srv.model /\ srv'.req = srv.req /\ DOMAIN srv' = DOMAIN srv
  /\ srv'.resp = Status(500) \/ srv'.resp = [status |-> 200, class |-> <<srv.model, b>>]

(* What handle_infer answers is from the model of the session, for the image sent. *)
LEMMA InfersBody ==
  ASSUME NEW b, HandleInfer(<<b>>), DOMAIN srv = DOMAIN Down PROVE Answered(b)
<1>1. <<b>> # <<>> /\ 1 \in DOMAIN <<b>> /\ <<b>>[1] = b
  OBVIOUS
<1>2. Inferred(srv.model, <<b>>)[1] = <<srv.model, b>>
  BY <1>1, Zenon DEF Inferred
<1>3. \/ Responds(500)
      \/ srv' = [srv EXCEPT !.pc = "respond", !.resp = Status(500), !.ta = "dead"]
      \/ srv' = [srv EXCEPT !.pc = "respond", !.resp = [status |-> 200, class |-> <<srv.model, b>>]]
  <2>1. \/ Responds(500)
        \/ srv' = [srv EXCEPT !.pc = "respond", !.resp = Status(500), !.ta = "dead"]
        \/ srv' = [srv EXCEPT !.pc = "respond",
                              !.resp = [status |-> 200, class |-> Inferred(srv.model, <<b>>)[1]]]
    BY Zenon DEF HandleInfer
  <2> QED BY <1>2, <2>1, Zenon
<1>4. {"pc", "ta", "model", "req", "resp"} \subseteq DOMAIN srv
  BY DEF Down
<1>5. CASE Responds(500)
  BY <1>4, <1>5 DEF Responds, Answered
<1>6. CASE srv' = [srv EXCEPT !.pc = "respond", !.resp = Status(500), !.ta = "dead"]
  BY <1>4, <1>6 DEF Answered
<1>7. CASE srv' = [srv EXCEPT !.pc = "respond", !.resp = [status |-> 200, class |-> <<srv.model, b>>]]
  BY <1>4, <1>7 DEF Answered
<1> QED BY <1>3, <1>5, <1>6, <1>7, Zenon

(* What was printed and what was answered is of those models. *)
LinesWhole == \A i \in DOMAIN inf.lines : inf.lines[i][2][1] \in Models
RespWhole == srv.resp.status = 200 => srv.resp.class[1] \in Models /\ srv.resp.class[2] = srv.req.body

(* The property is one part for the lines of infer and one for the answers of serve. *)
LEMMA AnswersAre == AnswersWhole <=> LinesWhole /\ RespWhole
BY Zenon DEF AnswersWhole, LinesWhole, RespWhole, Models

(* The invariant of the answers holds before the first command. *)
LEMMA AnswersStart ==
  ASSUME MnistInit PROVE AnswerIInv
<1>1. file.at # "whole" /\ inf = Quiet /\ srv = Down /\ inf.pc = "off" /\ srv.pc = "off"
  BY Zenon DEF MnistInit, Quiet, Down
<1>2. LinesWhole
  BY <1>1 DEF LinesWhole, Quiet
<1>3. RespWhole
  BY <1>1 DEF RespWhole, Down
<1> QED BY <1>1, <1>2, <1>3, AnswersAre, Zenon DEF AnswerIInv

(* A step of one process leaves the others and their answers alone. *)
LEMMA InfStays ==
  ASSUME AnswerIInv, inf' = inf, \A m \in Models : m \in Models'
  PROVE  LinesWhole' /\ DOMAIN inf' = DOMAIN Quiet
         /\ (inf'.pc # "off" => inf'.model \in Models' /\ inf'.call \in Calls)
BY AnswersAre, Zenon DEF AnswerIInv, LinesWhole

(* A step that serve does not take leaves its part. *)
LEMMA SrvStays ==
  ASSUME AnswerIInv, srv' = srv, \A m \in Models : m \in Models'
  PROVE  RespWhole' /\ DOMAIN srv' = DOMAIN Down /\ (srv'.pc # "off" => srv'.model \in Models')
BY AnswersAre, Zenon DEF AnswerIInv, RespWhole

(* Together they are the invariant. *)
LEMMA AnswersTogether ==
  ASSUME LinesWhole', RespWhole', DOMAIN inf' = DOMAIN Quiet, DOMAIN srv' = DOMAIN Down,
         inf'.pc # "off" => inf'.model \in Models' /\ inf'.call \in Calls,
         srv'.pc # "off" => srv'.model \in Models',
         file'.at = "whole" => file'.model \in Models'
  PROVE  AnswerIInv'
<1>1. (LinesWhole /\ RespWhole)' => AnswersWhole'
  BY Zenon DEF AnswersWhole, LinesWhole, RespWhole, Models
<1> QED BY <1>1, Zenon DEF AnswerIInv

(* The steps of train: a record is whole when its model is exported. *)
LEMMA TrainAnswers ==
  ASSUME AnswerIInv, \A m \in Models : m \in Models', UNCHANGED <<inf, srv>>,
         \/ UNCHANGED file
         \/ Export
         \/ WriteModel
  PROVE  AnswerIInv'
<1>1. file'.at = "whole" => file'.model \in Models'
  <2>1. CASE UNCHANGED file
    BY <2>1, Zenon DEF AnswerIInv
  <2>2. CASE Export
    <3>1. UNCHANGED file \/ file' = [at |-> "torn", model |-> Untrained]
      BY <2>2, Zenon DEF Export
    <3>2. CASE file' = [at |-> "torn", model |-> Untrained]
      BY <3>2
    <3> QED BY <2>1, <3>1, <3>2, Zenon
  <2>3. CASE WriteModel
    <3>1. file'.model = tr.model /\ <<tr.args, tr.model>> \in exported'
      BY <2>3, Zenon DEF WriteModel, Exported
    <3>2. <<tr.args, tr.model>>[2] = tr.model
      OBVIOUS
    <3>3. tr.model \in Models'
      BY <3>1, <3>2, Zenon DEF Models
    <3> QED BY <3>1, <3>3, Zenon
  <2> QED BY <2>1, <2>2, <2>3, Zenon
<1> QED BY <1>1, InfStays, SrvStays, AnswersTogether, Zenon

(* The steps of infer. *)
LEMMA InferAnswers ==
  ASSUME AnswerIInv, \A m \in Models : m \in Models', UNCHANGED <<file, srv>>,
         InferBatch \/ InferEnds \/ \E c \in Calls : InferStart(c)
  PROVE  AnswerIInv'
<1>1. CASE inf' = Quiet
  <2>1. inf'.pc = "off" /\ DOMAIN inf'.lines = {}
    BY <1>1 DEF Quiet
  <2>2. LinesWhole'
    BY <2>1, Zenon DEF LinesWhole
  <2> QED BY <1>1, <2>1, <2>2, SrvStays, AnswersTogether, Zenon DEF AnswerIInv
<1>2. ASSUME NEW c \in Calls, InferStart(c) PROVE AnswerIInv'
  <2>1. /\ inf' = [Quiet EXCEPT !.pc = "infer", !.ta = "alive", !.model = file.model, !.call = c]
        /\ file.at = "whole"
    BY <1>2, Zenon DEF InferStart, SessionOpens, Imports, ModelRead
  <2>2. inf'.model = file.model /\ inf'.call = c /\ DOMAIN inf'.lines = {} /\ DOMAIN inf' = DOMAIN Quiet
    BY <2>1 DEF Quiet
  <2>3. LinesWhole'
    BY <2>2, Zenon DEF LinesWhole
  <2> QED BY <1>2, <2>1, <2>2, <2>3, SrvStays, AnswersTogether, Zenon DEF AnswerIInv
<1>3. CASE InferBatch /\ inf' # Quiet
  <2>1. {"pc", "ta", "lines"} \subseteq DOMAIN inf /\ inf.pc # "off" /\ inf.pc = "infer"
    BY <1>3 DEF AnswerIInv, Quiet, InferBatch
  <2>2. inf.model \in Models /\ inf.call \in Calls /\ DOMAIN inf = DOMAIN Quiet
    BY <2>1, Zenon DEF AnswerIInv
  <2>3. CASE inf' = [inf EXCEPT !.pc = "done", !.ta = "dead"]
    <3>1. inf'.lines = inf.lines /\ inf'.model = inf.model /\ inf'.call = inf.call /\ DOMAIN inf' = DOMAIN inf
      BY <2>1, <2>3
    <3>2. LinesWhole'
      BY <3>1, AnswersAre, Zenon DEF LinesWhole, AnswerIInv
    <3> QED BY <2>2, <3>1, <3>2, SrvStays, AnswersTogether, Zenon DEF AnswerIInv
  <2>4. CASE inf' = [inf EXCEPT !.pc = "done",
                       !.lines = LineAt(inf.call, Inferred(inf.model, inf.call.binary \o inf.call.image))]
    <3>1. PICK lines : lines = LineAt(inf.call, Inferred(inf.model, inf.call.binary \o inf.call.image))
      BY Zenon
    <3>2. inf' = [inf EXCEPT !.pc = "done", !.lines = lines]
      BY <2>4, <3>1, Zenon
    <3>3. inf'.lines = lines /\ inf'.model = inf.model /\ inf'.call = inf.call /\ DOMAIN inf' = DOMAIN inf
      BY <2>1, <3>2
    <3>4. \A i \in DOMAIN lines : lines[i][2][1] = inf.model
      BY <2>2, <3>1, LinesAreOfModel, Zenon
    <3>5. LinesWhole'
      BY <2>2, <3>3, <3>4, Zenon DEF LinesWhole
    <3> QED BY <2>2, <3>3, <3>5, SrvStays, AnswersTogether, Zenon DEF AnswerIInv
  <2> QED BY <1>3, <2>3, <2>4, Zenon DEF InferBatch
<1> QED BY <1>1, <1>2, <1>3, Zenon DEF InferEnds

(* The steps of serve. *)
LEMMA ServeAnswers ==
  ASSUME AnswerIInv, \A m \in Models : m \in Models', UNCHANGED <<file, inf>>,
         ServeStart \/ Handle \/ Respond \/ \E r \in Requests : Recv(r)
  PROVE  AnswerIInv'
<1>0. {"pc", "ta", "model", "req", "resp"} \subseteq DOMAIN srv /\ DOMAIN srv = DOMAIN Down
  BY DEF Down, AnswerIInv
<1>1. ASSUME RespWhole', DOMAIN srv' = DOMAIN Down, srv'.pc # "off" => srv'.model \in Models' PROVE AnswerIInv'
  BY <1>1, InfStays, AnswersTogether, Zenon DEF AnswerIInv
<1>2. ASSUME srv.pc # "off", srv'.model = srv.model, DOMAIN srv' = DOMAIN srv,
             srv'.resp.status = 200 => srv'.resp.class = <<srv.model, srv'.req.body>>
      PROVE  AnswerIInv'
  <2>1. srv.model \in Models'
    BY <1>2, Zenon DEF AnswerIInv
  <2>2. RespWhole'
    BY <1>2, <2>1 DEF RespWhole
  <2> QED BY <1>0, <1>1, <1>2, <2>1, <2>2, Zenon
<1>3. \A n \in {0, 400, 404, 500} : Status(n).status # 200
  BY DEF Status
<1>4. CASE ServeStart
  <2>1. srv' = [Down EXCEPT !.pc = "recv", !.ta = "alive", !.model = file.model] /\ file.at = "whole"
    BY <1>4, Zenon DEF ServeStart, SessionOpens, Imports, ModelRead
  <2>2. srv'.model = file.model /\ srv'.resp.status # 200 /\ DOMAIN srv' = DOMAIN Down
    BY <2>1 DEF Down
  <2> QED BY <1>1, <2>1, <2>2, Zenon DEF AnswerIInv, RespWhole
<1>5. ASSUME NEW r \in Requests, Recv(r) PROVE AnswerIInv'
  <2>1. srv' = [srv EXCEPT !.pc = "handle", !.req = r, !.resp = Status(0)] /\ srv.pc = "recv"
    BY <1>5, Zenon DEF Recv
  <2>2. srv'.model = srv.model /\ srv'.resp = Status(0) /\ DOMAIN srv' = DOMAIN srv /\ srv.pc # "off"
    BY <1>0, <2>1
  <2> QED BY <1>2, <1>3, <2>2
<1>6. CASE Handle
  <2>1. srv.pc # "off"
    BY <1>6, Zenon DEF Handle
  <2>2. ASSUME NEW n \in {400, 404, 500}, Responds(n) PROVE AnswerIInv'
    <3>1. srv'.model = srv.model /\ srv'.resp = Status(n) /\ DOMAIN srv' = DOMAIN srv
      BY <1>0, <2>2 DEF Responds
    <3> QED BY <1>2, <1>3, <2>1, <3>1
  <2>3. ASSUME HandleInfer(<<srv.req.body>>) PROVE AnswerIInv'
    <3>1. /\ srv'.model = srv.model /\ srv'.req = srv.req /\ DOMAIN srv' = DOMAIN srv
          /\ srv'.resp = Status(500) \/ srv'.resp = [status |-> 200, class |-> <<srv.model, srv.req.body>>]
      <4>1. Answered(srv.req.body)
        BY <1>0, <2>3, InfersBody, Zenon
      <4> QED BY <4>1, Zenon DEF Answered
    <3>2. srv'.resp.status = 200 => srv'.resp.class = <<srv.model, srv'.req.body>>
      <4>1. CASE srv'.resp = Status(500)
        BY <4>1 DEF Status
      <4>2. CASE srv'.resp = [status |-> 200, class |-> <<srv.model, srv.req.body>>]
        <5>1. srv'.resp.class = <<srv.model, srv.req.body>>
          BY <4>2
        <5> QED BY <3>1, <5>1, Zenon
      <4> QED BY <3>1, <4>1, <4>2, Zenon
    <3> QED BY <1>2, <2>1, <3>1, <3>2, Zenon
  <2>4. srv.req.body \in Images => Tensor(srv.req.body)[1] = <<srv.req.body>>
    BY DEF Tensor
  <2>5. srv.req.body \notin Images => Tensor(srv.req.body) = <<>>
    BY DEF Tensor
  <2>6. Responds(400) \/ Responds(404) \/ Responds(500) \/ HandleInfer(<<srv.req.body>>)
    BY <1>6, <2>4, <2>5, Zenon DEF Handle
  <2> QED BY <2>2, <2>3, <2>6
<1>7. CASE Respond
  <2>1. CASE srv' = Down
    <3>1. srv'.pc = "off" /\ srv'.resp.status # 200
      BY <2>1 DEF Down
    <3> QED BY <1>1, <2>1, <3>1, Zenon DEF RespWhole
  <2>2. CASE srv' = [srv EXCEPT !.pc = "recv"]
    <3>1. srv'.model = srv.model /\ srv'.resp = srv.resp /\ srv'.req = srv.req /\ DOMAIN srv' = DOMAIN srv
      BY <1>0, <2>2
    <3>2. srv.pc # "off" /\ srv.model \in Models /\ RespWhole
      BY <1>7, AnswersAre DEF Respond, AnswerIInv
    <3>3. srv.resp.status = 200 => srv.resp.class[1] \in Models' /\ srv.resp.class[2] = srv.req.body
      BY <3>2, Zenon DEF RespWhole
    <3>4. RespWhole'
      BY <3>1, <3>3 DEF RespWhole
    <3> QED BY <1>0, <1>1, <3>1, <3>2, <3>4, Zenon
  <2> QED BY <1>7, <2>1, <2>2, Zenon DEF Respond
<1> QED BY <1>4, <1>5, <1>6, <1>7, Zenon

(* Every step preserves it. *)
LEMMA AnswersStep ==
  ASSUME AnswerIInv, [MnistNext]_mnistVars PROVE AnswerIInv'
<1>1. \A m \in Models : m \in Models'
  BY ModelsGrow, Zenon
<1>2. CASE UNCHANGED mnistVars
  BY <1>1, <1>2, TrainAnswers, Zenon DEF mnistVars
<1>3. CASE InferBatch \/ InferEnds \/ \E c \in Calls : InferStart(c)
  BY <1>1, <1>3, InferAnswers, Zenon DEF InferBatch, InferEnds, InferStart
<1>4. CASE ServeStart \/ Handle \/ Respond \/ \E r \in Requests : Recv(r)
  BY <1>1, <1>4, ServeAnswers, Zenon DEF ServeStart, Handle, Respond, Recv
<1>5. CASE \/ TrainKilled \/ Fetch \/ Store \/ Load \/ TrainBatch \/ TrainedAll \/ ValidBatch \/ EpochEnds
           \/ \E a \in Runs : TrainStart(a)
  <2>1. UNCHANGED <<file, inf, srv>>
    BY <1>5, Zenon DEF TrainKilled, Fetch, Store, Load, TrainBatch, TrainedAll, ValidBatch, EpochEnds, TrainStart
  <2> QED BY <1>1, <2>1, TrainAnswers, Zenon
<1>6. CASE Export \/ WriteModel
  BY <1>1, <1>6, TrainAnswers, Zenon DEF Export, WriteModel
<1> QED BY <1>2, <1>3, <1>4, <1>5, <1>6, Zenon DEF MnistNext

(* What infer prints and what serve answers with status 200 come from a    *)
(* model whose record was exported completely, and are for the image that  *)
(* was sent, however training, inference and serving interleave, fail or   *)
(* are killed.                                                             *)
THEOREM AnswersAlwaysWhole == MnistSpec => []AnswersWhole
<1>1. MnistInit => AnswerIInv
  BY AnswersStart, Zenon
<1>2. AnswerIInv /\ [MnistNext]_mnistVars => AnswerIInv'
  BY AnswersStep, Zenon
<1>3. AnswerIInv => AnswersWhole
  BY Zenon DEF AnswerIInv
<1> QED BY <1>1, <1>2, <1>3, PTL DEF MnistSpec

-----------------------------------------------------------------------------
(* What a model has been shown. *)

(* An image of the training set with its own label, *)
OwnLabel(p) == p[1] \in TrainData /\ p[1] = p[2]

(* shown n times, while nothing else was shown. *)
Times(p, n) == IF OwnLabel(p) THEN n ELSE 0

(* Whether p is in the part of the epoch that is done. *)
ShownIn(s, n, p) == IF \E i \in DOMAIN s : i < n /\ s[i] = p THEN 1 ELSE 0

(* The inductive invariant of the training. *)
TrainIInv ==
  /\ DOMAIN tr = DOMAIN Off
  /\ tr.pc # "off" => tr.args \in Runs
  /\ tr.pc \in {"fetch", "store"} => tr.model = Untrained /\ tr.epoch = 1 /\ tr.pos = 1
  /\ tr.pc \in {"train", "valid"} => /\ tr.train \in Shuffled(TrainData)
                                     /\ tr.epoch \in Nat /\ tr.pos \in Nat \ {0}
  /\ tr.pc = "train" => /\ tr.epoch <= tr.args.epochs + 1
                        /\ tr.epoch > tr.args.epochs => tr.pos = 1
                        /\ \A p \in Seen : tr.model[p] = Times(p, tr.epoch - 1) + ShownIn(tr.train, tr.pos, p)
  /\ tr.pc = "valid" => /\ tr.epoch <= tr.args.epochs
                        /\ \A p \in Seen : tr.model[p] = Times(p, tr.epoch)
  /\ tr.pc = "write" => \A p \in Seen : tr.model[p] = Times(p, tr.args.epochs)
  /\ ExportSawAll

(* The function that Cardinality counts the elements of S with. *)
Counter(S, h) == h = [T \in SUBSET S |-> IF T = {} THEN 0 ELSE 1 + h[T \ {CHOOSE x : x \in T}]]

(* Cardinality is what such a function gives. *)
LEMMA Counting ==
  ASSUME NEW S, NEW f, Counter(S, f) PROVE \E g : Counter(S, g) /\ Cardinality(S) = g[S]
<1>1. PICK g : g = CHOOSE h : Counter(S, h)
  BY Zenon
<1>2. Counter(S, g)
  BY <1>1, Zenon
<1> QED BY <1>1, <1>2, Zenon DEF Cardinality, Counter

(* No element, *)
LEMMA CountNone == Cardinality({}) = 0
<1>1. PICK f : f = [T \in SUBSET {} |-> 0]
  BY Zenon
<1>2. Counter({}, f)
  BY <1>1, Zenon DEF Counter
<1>3. PICK g : Counter({}, g) /\ Cardinality({}) = g[{}]
  BY <1>2, Counting, Zenon
<1> QED BY <1>3, Zenon DEF Counter

(* and one. *)
LEMMA CountOne == ASSUME NEW i PROVE Cardinality({i}) = 1
<1>0. (CHOOSE x : x \in {i}) = i /\ {i} \ {i} = {} /\ {i} # {} /\ 1 + 0 = 1
  <2>1. i \in {i}
    BY Zenon
  <2>2. (CHOOSE x : x \in {i}) \in {i}
    BY <2>1, Zenon
  <2> QED BY <2>2
<1>1. PICK f : f = [T \in SUBSET {i} |-> IF T = {} THEN 0 ELSE 1]
  BY Zenon
<1>2. \A T \in SUBSET {i} : T = {} \/ T = {i}
  OBVIOUS
<1>3. f[{}] = 0 /\ 1 + f[{i} \ {CHOOSE x : x \in {i}}] = 1
  BY <1>0, <1>1, Zenon
<1>4. ASSUME NEW T \in SUBSET {i}
      PROVE (IF T = {} THEN 0 ELSE 1) = IF T = {} THEN 0 ELSE 1 + f[T \ {CHOOSE x : x \in T}]
  <2>1. CASE T = {}
    BY <2>1, Zenon
  <2>2. CASE T = {i}
    BY <2>2, <1>3, Zenon
  <2> QED BY <1>2, <2>1, <2>2, Zenon
<1>5. Counter({i}, f)
  BY <1>1, <1>4, Zenon DEF Counter
<1>6. PICK g : Counter({i}, g) /\ Cardinality({i}) = g[{i}]
  BY <1>5, Counting, Zenon
<1>7. g[{}] = 0 /\ g[{i}] = 1 + g[{i} \ {CHOOSE x : x \in {i}}]
  BY <1>0, <1>6, Zenon DEF Counter
<1> QED BY <1>0, <1>6, <1>7, Zenon

(* A shuffled set has each of its images once, with its label. *)
LEMMA ShuffledFacts ==
  ASSUME NEW s \in Shuffled(TrainData)
  PROVE  /\ s \in Seq(Seen) /\ Len(s) \in Nat /\ DOMAIN s = 1..Len(s)
         /\ \A i \in DOMAIN s : OwnLabel(s[i]) /\ s[i] = <<s[i][1], s[i][2]>>
         /\ \A p \in Seen : OwnLabel(p) => \E i \in DOMAIN s : s[i] = p
         /\ \A i, j \in DOMAIN s : s[i] = s[j] => i = j
<1>1. PICK o \in Orders(TrainData) : s = [i \in DOMAIN o |-> <<o[i], o[i]>>]
  BY Zenon DEF Shuffled
<1>2. PICK n \in Nat : n = Cardinality(TrainData)
  BY DataAssumption, Zenon
<1>3. /\ o \in [1..n -> TrainData]
      /\ \A x \in TrainData : \E i \in DOMAIN o : \A j \in DOMAIN o : o[j] = x <=> j = i
  BY <1>2, Zenon DEF Orders
<1>4. DOMAIN s = 1..n /\ \A i \in 1..n : s[i] = <<o[i], o[i]>> /\ o[i] \in TrainData
  BY <1>1, <1>3, Zenon
<1>5. s \in Seq(Seen) /\ Len(s) = n
  <2>1. \A i \in 1..n : s[i] \in Seen
    <3> SUFFICES ASSUME NEW i \in 1..n PROVE <<o[i], o[i]>> \in Seen
      BY <1>4, Zenon
    <3>1. o[i] \in TrainData \union TestData
      BY <1>4, Zenon
    <3> QED BY <3>1, Zenon DEF Seen
  <2>2. s = [i \in 1..n |-> s[i]]
    BY <1>1, <1>4, Zenon
  <2>3. s \in [1..n -> Seen]
    BY <2>1, <2>2, Zenon
  <2> QED BY <2>3, IsSequence, Zenon
<1>6. \A i \in 1..n : s[i][1] = o[i] /\ s[i][2] = o[i]
  BY <1>4
<1>7. \A i \in DOMAIN s : OwnLabel(s[i]) /\ s[i] = <<s[i][1], s[i][2]>>
  BY <1>4, <1>6, Zenon DEF OwnLabel
<1>8. ASSUME NEW p \in Seen, OwnLabel(p) PROVE \E i \in DOMAIN s : s[i] = p
  <2>1. p = <<p[1], p[1]>> /\ p[1] \in TrainData
    BY <1>8 DEF OwnLabel, Seen
  <2>2. PICK i \in 1..n : o[i] = p[1]
    BY <1>3, <2>1, Zenon
  <2> QED BY <1>4, <2>1, <2>2, Zenon
<1>9. ASSUME NEW i \in DOMAIN s, NEW j \in DOMAIN s, s[i] = s[j] PROVE i = j
  <2>1. o[i] = o[j] /\ o[i] \in TrainData /\ i \in DOMAIN o /\ j \in DOMAIN o
    BY <1>1, <1>4, <1>6, <1>9, Zenon
  <2> QED BY <1>3, <2>1, Zenon
<1> QED BY <1>4, <1>5, <1>7, <1>8, <1>9, Zenon

(* The chunk that starts at from has the next n elements, or what is left. *)
Cuts(c, s, from, n) ==
  /\ \A i \in DOMAIN c : /\ i \in Nat /\ i >= 1 /\ i <= n /\ from + i - 1 \in DOMAIN s
                         /\ c[i] = s[from + i - 1]
  /\ \A j \in DOMAIN s : from <= j /\ j < from + n => j - from + 1 \in DOMAIN c

(* What chunks() cuts out of the shuffled set. *)
LEMMA ChunkFacts ==
  ASSUME NEW S, NEW s \in Seq(S), NEW from \in 1..Len(s), NEW n \in Nat \ {0}, NEW c, c = Chunk(s, from, n)
  PROVE  Cuts(c, s, from, n)
<1>1. PICK k \in from..Len(s) : c = SubSeq(s, from, k) /\ (k = from + n - 1 \/ (k = Len(s) /\ k < from + n))
  BY DEF Chunk
<1>2. DOMAIN c = 1..(k - from + 1) /\ \A i \in 1..(k - from + 1) : c[i] = s[from + i - 1]
  BY <1>1
<1>3. Len(s) \in Nat /\ DOMAIN s = 1..Len(s)
  OBVIOUS
<1>4. PICK l \in Nat : l = Len(s)
  BY <1>3, Zenon
<1>5. k \in Int /\ from \in Int /\ 1 <= from /\ from <= k /\ k <= l /\ k <= from + n - 1
  BY <1>1, <1>4
<1>6. ASSUME NEW i \in DOMAIN c
      PROVE  i \in Nat /\ i >= 1 /\ i <= n /\ from + i - 1 \in DOMAIN s /\ c[i] = s[from + i - 1]
  <2>1. i \in 1..(k - from + 1)
    BY <1>2, <1>6, Zenon
  <2>2. i \in Nat /\ i >= 1 /\ i <= n /\ from + i - 1 \in 1..l
    BY <1>5, <2>1
  <2> QED BY <1>2, <1>3, <1>4, <2>1, <2>2, Zenon
<1>7. ASSUME NEW j \in DOMAIN s, from <= j, j < from + n PROVE j - from + 1 \in DOMAIN c
  <2>1. j \in 1..l
    BY <1>3, <1>4, <1>7, Zenon
  <2>2. k = from + n - 1 \/ k = l
    BY <1>1, <1>4, Zenon
  <2>3. j <= k
    BY <1>5, <1>7, <2>1, <2>2
  <2>4. j - from + 1 \in 1..(k - from + 1)
    BY <1>5, <1>7, <2>1, <2>3
  <2> QED BY <1>2, <2>4, Zenon
<1> QED BY <1>6, <1>7, Zenon DEF Cuts

(* Places in a chunk are places in the set, moved. *)
LEMMA Cancel ==
  ASSUME NEW a \in Int, NEW i \in Int, NEW j \in Int, a + j - 1 = a + i - 1 PROVE j = i
OBVIOUS

(* The model was shown p k times before the epoch, and then what comes before from. *)
Counts(model, p, k, s, from) == model[p] = k + ShownIn(s, from, p)

(* Training on a chunk shows what is in it, once. *)
LEMMA ShownOnce ==
  ASSUME NEW s \in Shuffled(TrainData), NEW from \in 1..Len(s), NEW n \in Nat \ {0}, NEW model, NEW p \in Seen,
         NEW c, c = Chunk(s, from, n), NEW k \in Int, Counts(model, p, k, s, from)
  PROVE  Counts(Trained(model, ImagesOf(c), LabelsOf(c)), p, k, s, from + n)
<1>0. /\ model[p] = k + ShownIn(s, from, p)
      /\ Counts(Trained(model, ImagesOf(c), LabelsOf(c)), p, k, s, from + n)
         <=> Trained(model, ImagesOf(c), LabelsOf(c))[p] = k + ShownIn(s, from + n, p)
  BY Zenon DEF Counts
<1> SUFFICES Trained(model, ImagesOf(c), LabelsOf(c))[p] = k + ShownIn(s, from + n, p)
  BY <1>0, Zenon
<1>1. /\ s \in Seq(Seen) /\ Len(s) \in Nat /\ DOMAIN s = 1..Len(s)
      /\ \A i \in DOMAIN s : s[i] = <<s[i][1], s[i][2]>>
      /\ \A i, j \in DOMAIN s : s[i] = s[j] => i = j
  BY ShuffledFacts, Zenon
<1>2. /\ \A i \in DOMAIN c : /\ i \in Nat /\ i >= 1 /\ i <= n /\ from + i - 1 \in DOMAIN s
                             /\ c[i] = s[from + i - 1]
      /\ \A j \in DOMAIN s : from <= j /\ j < from + n => j - from + 1 \in DOMAIN c
  <2>1. s \in Seq(Seen)
    BY <1>1, Zenon
  <2>2. Cuts(c, s, from, n)
    BY <2>1, ChunkFacts, Zenon
  <2> QED BY <2>2, Zenon DEF Cuts
<1>3. PICK I : I = {i \in DOMAIN c : c[i] = p}
  BY Zenon
<1>4. \A i \in DOMAIN c : c[i] = <<c[i][1], c[i][2]>>
  <2> SUFFICES ASSUME NEW i \in DOMAIN c PROVE c[i] = <<c[i][1], c[i][2]>>
    BY Zenon
  <2>1. PICK j \in DOMAIN s : c[i] = s[j]
    BY <1>2, Zenon
  <2> QED BY <1>1, <2>1, Zenon
<1>5. {i \in DOMAIN ImagesOf(c) : <<ImagesOf(c)[i], LabelsOf(c)[i]>> = p} = I
  BY <1>3, <1>4, Zenon DEF ImagesOf, LabelsOf
<1>6. Trained(model, ImagesOf(c), LabelsOf(c))[p] = model[p] + Cardinality(I)
  BY <1>5, Zenon DEF Trained
<1>7. CASE \E i \in DOMAIN c : c[i] = p
  <2>1. PICK i \in DOMAIN c : c[i] = p
    BY <1>7, Zenon
  <2>2. from + i - 1 \in DOMAIN s /\ s[from + i - 1] = p /\ i \in Nat /\ i >= 1 /\ i <= n
    BY <1>2, <2>1, Zenon
  <2>3. \A j \in DOMAIN c : c[j] = p => j = i
    <3> SUFFICES ASSUME NEW j \in DOMAIN c, c[j] = p PROVE j = i
      BY Zenon
    <3>1. from + j - 1 \in DOMAIN s /\ s[from + j - 1] = p /\ j \in Nat
      BY <1>2, Zenon
    <3>2. from + j - 1 = from + i - 1
      BY <1>1, <2>2, <3>1, Zenon
    <3>3. from \in Int /\ i \in Int /\ j \in Int
      BY <1>1, <2>2, <3>1
    <3> QED BY <3>2, <3>3, Cancel, Zenon
  <2>4. I = {i}
    BY <1>3, <2>1, <2>3, Zenon
  <2>5. Cardinality(I) = 1
    BY <2>4, CountOne, Zenon
  <2>6. ShownIn(s, from, p) = 0
    <3>1. ASSUME NEW j \in DOMAIN s, j < from, s[j] = p PROVE FALSE
      <4>1. j = from + i - 1
        BY <1>1, <2>2, <3>1, Zenon
      <4> QED BY <2>2, <3>1, <4>1
    <3> QED BY <3>1, Zenon DEF ShownIn
  <2>7. ShownIn(s, from + n, p) = 1
    <3>1. from + i - 1 < from + n
      BY <2>2
    <3> QED BY <2>2, <3>1, Zenon DEF ShownIn
  <2> QED BY <1>0, <1>6, <2>5, <2>6, <2>7
<1>8. CASE ~\E i \in DOMAIN c : c[i] = p
  <2>1. I = {}
    BY <1>3, <1>8, Zenon
  <2>2. Cardinality(I) = 0
    BY <2>1, CountNone, Zenon
  <2>3. \A j \in DOMAIN s : s[j] = p => (j < from <=> j < from + n)
    <3> SUFFICES ASSUME NEW j \in DOMAIN s, s[j] = p, ~(j < from), j < from + n PROVE FALSE
      BY <1>1
    <3>1. j - from + 1 \in DOMAIN c /\ j \in Nat
      BY <1>1, <1>2
    <3>2. c[j - from + 1] = s[from + (j - from + 1) - 1]
      BY <1>2, <3>1, Zenon
    <3>3. from + (j - from + 1) - 1 = j
      BY <3>1
    <3> QED BY <1>8, <3>1, <3>2, <3>3, Zenon
  <2>4. ShownIn(s, from, p) = ShownIn(s, from + n, p)
    BY <2>3, Zenon DEF ShownIn
  <2>5. ShownIn(s, from, p) \in {0, 1}
    BY Zenon DEF ShownIn
  <2>6. PICK m \in {0, 1} : m = ShownIn(s, from, p)
    BY <2>5, Zenon
  <2>7. model[p] = k + m /\ Trained(model, ImagesOf(c), LabelsOf(c))[p] = model[p] + 0
    BY <1>0, <1>6, <2>2, <2>6, Zenon
  <2>8. Trained(model, ImagesOf(c), LabelsOf(c))[p] = k + m
    BY <2>7
  <2> QED BY <2>4, <2>6, <2>8, Zenon
<1> QED BY <1>7, <1>8, Zenon

(* The fields of the command. *)
LEMMA TrFields ==
  ASSUME TrainIInv
  PROVE  {"pc", "ta", "args", "left", "now", "train", "test", "epoch", "pos", "model"} \subseteq DOMAIN tr
BY Zenon DEF TrainIInv, Off

(* What was exported stays as it was. *)
LEMMA SawStays ==
  ASSUME ExportSawAll, exported' = exported PROVE ExportSawAll'
BY Zenon DEF ExportSawAll

(* A command that ends leaves nothing behind. *)
LEMMA TrainEndsKeeps ==
  ASSUME ExportSawAll', TrainEnds PROVE TrainIInv'
<1>1. tr' = Off
  BY Zenon DEF TrainEnds
<1>2. tr'.pc = "off" /\ tr'.pc \notin {"fetch", "store"} /\ tr'.pc \notin {"train", "valid"} /\ tr'.pc # "train"
      /\ tr'.pc # "valid" /\ tr'.pc # "write"
  BY <1>1 DEF Off
<1> QED BY <1>1, <1>2, Zenon DEF TrainIInv

(* One whose TA has panicked does nothing more. *)
LEMMA FailedKeeps ==
  ASSUME TrainIInv, ExportSawAll', tr.pc # "off", tr' = [tr EXCEPT !.ta = "dead", !.pc = "failed"] PROVE TrainIInv'
<1>1. tr'.pc = "failed" /\ tr'.args = tr.args /\ DOMAIN tr' = DOMAIN tr
  BY TrFields
<1>2. tr'.pc # "off" /\ tr'.pc \notin {"fetch", "store"} /\ tr'.pc \notin {"train", "valid"} /\ tr'.pc # "train"
      /\ tr'.pc # "valid" /\ tr'.pc # "write"
  BY <1>1
<1> QED BY <1>1, <1>2, Zenon DEF TrainIInv

(* Before the data is loaded the model is new. *)
LEMMA FetchingKeeps ==
  ASSUME ExportSawAll', DOMAIN tr' = DOMAIN Off, tr'.pc \in {"fetch", "store"}, tr'.args \in Runs,
         tr'.model = Untrained, tr'.epoch = 1, tr'.pos = 1
  PROVE  TrainIInv'
<1>1. tr'.pc \notin {"train", "valid"} /\ tr'.pc # "train" /\ tr'.pc # "valid" /\ tr'.pc # "write"
  OBVIOUS
<1> QED BY <1>1, Zenon DEF TrainIInv

(* The steps of train preserve its invariant: the download, *)
LEMMA FetchKeeps ==
  ASSUME TrainIInv, ExportSawAll', Fetch \/ Store \/ \E a \in Runs : TrainStart(a) PROVE TrainIInv'
<1>1. ASSUME NEW a \in Runs, TrainStart(a) PROVE TrainIInv'
  <2>1. tr' = [Off EXCEPT !.pc = "fetch", !.ta = "alive", !.args = a, !.left = DataFiles]
    BY <1>1, Zenon DEF TrainStart, Trainer
  <2>2. /\ tr'.pc = "fetch" /\ tr'.args = a /\ tr'.model = Untrained /\ tr'.epoch = 1 /\ tr'.pos = 1
        /\ DOMAIN tr' = DOMAIN Off
    BY <2>1 DEF Off
  <2> QED BY <1>1, <2>2, FetchingKeeps, Zenon
<1>2. CASE Store
  <2>1. tr' = [tr EXCEPT !.pc = "fetch", !.now = {}] /\ tr.pc = "store"
    BY <1>2, Zenon DEF Store
  <2>2. /\ tr'.pc = "fetch" /\ tr'.args = tr.args /\ tr'.model = tr.model /\ tr'.epoch = tr.epoch /\ tr'.pos = tr.pos
        /\ DOMAIN tr' = DOMAIN tr
    BY <2>1, TrFields
  <2>3. tr.pc # "off" /\ tr.pc \in {"fetch", "store"}
    BY <2>1
  <2> QED BY <2>2, <2>3, FetchingKeeps, Zenon DEF TrainIInv
<1>3. CASE Fetch
  <2>1. PICK f \in tr.left :
          \/ tr' = [tr EXCEPT !.left = @ \ {f}]
          \/ TrainEnds
          \/ tr' = [tr EXCEPT !.pc = "store", !.left = @ \ {f}, !.now = {f}]
    BY <1>3, Zenon DEF Fetch
  <2>0. tr.pc = "fetch"
    BY <1>3, Zenon DEF Fetch
  <2>2. tr.pc # "off" /\ tr.pc \in {"fetch", "store"}
    BY <2>0
  <2>3. ASSUME tr' = [tr EXCEPT !.left = @ \ {f}] \/ tr' = [tr EXCEPT !.pc = "store", !.left = @ \ {f}, !.now = {f}]
        PROVE  TrainIInv'
    <3>1. /\ tr'.pc \in {"fetch", "store"} /\ tr'.args = tr.args /\ tr'.model = tr.model
          /\ tr'.epoch = tr.epoch /\ tr'.pos = tr.pos /\ DOMAIN tr' = DOMAIN tr
      <4>1. PICK rest : rest = tr.left \ {f}
        BY Zenon
      <4>2. CASE tr' = [tr EXCEPT !.left = rest]
        BY <2>0, <4>2, TrFields
      <4>3. CASE tr' = [tr EXCEPT !.pc = "store", !.left = rest, !.now = {f}]
        BY <4>3, TrFields
      <4> QED BY <2>3, <4>1, <4>2, <4>3, Zenon
    <3> QED BY <2>2, <3>1, FetchingKeeps, Zenon DEF TrainIInv
  <2> QED BY <2>1, <2>3, TrainEndsKeeps, Zenon
<1> QED BY <1>1, <1>2, <1>3, Zenon

(* In an epoch the model has seen the part that is done once more. *)
LEMMA TrainingKeeps ==
  ASSUME ExportSawAll', DOMAIN tr' = DOMAIN Off, tr'.pc = "train", tr'.args \in Runs,
         tr'.train \in Shuffled(TrainData), tr'.epoch \in Nat, tr'.pos \in Nat \ {0},
         tr'.epoch <= tr'.args.epochs + 1, tr'.epoch > tr'.args.epochs => tr'.pos = 1,
         \A p \in Seen : tr'.model[p] = Times(p, tr'.epoch - 1) + ShownIn(tr'.train, tr'.pos, p)
  PROVE  TrainIInv'
<1>1. tr'.pc \notin {"fetch", "store"} /\ tr'.pc # "valid" /\ tr'.pc # "write"
  OBVIOUS
<1> QED BY <1>1, Zenon DEF TrainIInv

(* At its beginning nothing is done. *)
LEMMA NothingShown ==
  ASSUME NEW s \in Shuffled(TrainData), NEW p PROVE ShownIn(s, 1, p) = 0
<1>1. \A i \in DOMAIN s : ~(i < 1)
  <2>1. Len(s) \in Nat /\ DOMAIN s = 1..Len(s)
    BY ShuffledFacts, Zenon
  <2> QED BY <2>1
<1> QED BY <1>1, Zenon DEF ShownIn

(* At its end all is. *)
LEMMA AllShown ==
  ASSUME NEW s \in Shuffled(TrainData), NEW n \in Nat, n > Len(s), NEW p \in Seen
  PROVE  ShownIn(s, n, p) = IF OwnLabel(p) THEN 1 ELSE 0
<1>1. \A i \in DOMAIN s : i < n
  <2>1. Len(s) \in Nat /\ DOMAIN s = 1..Len(s)
    BY ShuffledFacts, Zenon
  <2> QED BY <2>1
<1>2. (\E i \in DOMAIN s : s[i] = p) <=> OwnLabel(p)
  <2>1. (\A i \in DOMAIN s : OwnLabel(s[i])) /\ (OwnLabel(p) => \E i \in DOMAIN s : s[i] = p)
    BY ShuffledFacts, Zenon
  <2> QED BY <2>1, Zenon
<1> QED BY <1>1, <1>2, Zenon DEF ShownIn

(* the conversion of the data sets, *)
LEMMA LoadKeeps ==
  ASSUME TrainIInv, ExportSawAll', Load PROVE TrainIInv'
<1>1. CASE TrainEnds
  BY <1>1, TrainEndsKeeps, Zenon
<1>2. ASSUME NEW o \in Shuffled(TrainData), NEW v, tr' = [tr EXCEPT !.pc = "train", !.train = o, !.test = v]
      PROVE  TrainIInv'
  <2>0. tr.pc = "fetch"
    BY Zenon DEF Load
  <2>1. tr.pc \in {"fetch", "store"} /\ tr.pc # "off"
    BY <2>0
  <2>2. tr.args \in Runs /\ tr.model = Untrained /\ tr.epoch = 1 /\ tr.pos = 1 /\ DOMAIN tr = DOMAIN Off
    BY <2>1, Zenon DEF TrainIInv
  <2>3. /\ tr'.pc = "train" /\ tr'.args = tr.args /\ tr'.model = tr.model /\ tr'.epoch = tr.epoch
        /\ tr'.pos = tr.pos /\ tr'.train = o /\ DOMAIN tr' = DOMAIN tr
    BY <1>2, TrFields
  <2>4. ASSUME NEW p \in Seen
        PROVE  tr'.model[p] = Times(p, tr'.epoch - 1) + ShownIn(tr'.train, tr'.pos, p)
    <3>1. tr'.model[p] = 0
      BY <2>2, <2>3, Zenon DEF Untrained
    <3>2. ShownIn(tr'.train, tr'.pos, p) = 0
      BY <2>2, <2>3, NothingShown, Zenon
    <3>3. Times(p, tr'.epoch - 1) = 0
      BY <2>2, <2>3 DEF Times
    <3> QED BY <3>1, <3>2, <3>3
  <2>5. tr'.epoch \in Nat /\ tr'.pos \in Nat \ {0} /\ tr'.pos = 1 /\ tr'.epoch <= tr'.args.epochs + 1
    BY <2>2, <2>3, ArgsAssumption
  <2> QED BY <2>2, <2>3, <2>4, <2>5, TrainingKeeps, Zenon
<1> QED BY <1>1, <1>2, Zenon DEF Load

(* a batch that is trained on, *)
LEMMA TrainBatchKeeps ==
  ASSUME TrainIInv, ExportSawAll', TrainBatch PROVE TrainIInv'
<1>1. /\ tr.pc = "train" /\ tr.epoch <= tr.args.epochs /\ tr.pos <= Len(tr.train) /\ tr.pc # "off"
      /\ tr.pc \in {"train", "valid"}
  BY DEF TrainBatch
<1>2. /\ tr.args \in Runs /\ tr.train \in Shuffled(TrainData) /\ tr.epoch \in Nat /\ tr.pos \in Nat \ {0}
      /\ \A p \in Seen : tr.model[p] = Times(p, tr.epoch - 1) + ShownIn(tr.train, tr.pos, p)
      /\ DOMAIN tr = DOMAIN Off
  BY <1>1, Zenon DEF TrainIInv
<1>3. tr.args.batch \in Nat /\ tr.args.epochs \in Nat
  BY <1>2, ArgsAssumption, Zenon
<1>4. PICK c : c = Chunk(tr.train, tr.pos, tr.args.batch)
  BY Zenon
<1>5. PICK model : model = Trained(tr.model, ImagesOf(c), LabelsOf(c))
  BY Zenon
<1>6. CASE tr.args.batch # 0 /\ tr' = [tr EXCEPT !.model = model, !.pos = @ + tr.args.batch]
  <2>1. /\ tr'.pc = tr.pc /\ tr'.args = tr.args /\ tr'.model = model /\ tr'.epoch = tr.epoch
        /\ tr'.pos = tr.pos + tr.args.batch /\ tr'.train = tr.train /\ DOMAIN tr' = DOMAIN tr
    BY <1>6, TrFields
  <2>2. Len(tr.train) \in Nat
    BY <1>2, ShuffledFacts, Zenon
  <2>3. tr.pos \in 1..Len(tr.train) /\ tr.args.batch \in Nat \ {0} /\ tr'.pos \in Nat \ {0}
        /\ ~(tr'.epoch > tr'.args.epochs) /\ tr'.epoch <= tr'.args.epochs + 1
    BY <1>1, <1>2, <1>3, <1>6, <2>1, <2>2
  <2>4. ASSUME NEW p \in Seen
        PROVE  model[p] = Times(p, tr.epoch - 1) + ShownIn(tr.train, tr.pos + tr.args.batch, p)
    <3>1. Times(p, tr.epoch - 1) \in Int
      BY <1>2 DEF Times
    <3>2. tr.model[p] = Times(p, tr.epoch - 1) + ShownIn(tr.train, tr.pos, p)
      BY <1>2, Zenon
    <3>3. PICK k \in Int : k = Times(p, tr.epoch - 1)
      BY <3>1, Zenon
    <3>4. tr.model[p] = k + ShownIn(tr.train, tr.pos, p)
      BY <3>2, <3>3, Zenon
    <3>5. /\ tr.train \in Shuffled(TrainData) /\ tr.pos \in 1..Len(tr.train) /\ tr.args.batch \in Nat \ {0}
          /\ p \in Seen /\ c = Chunk(tr.train, tr.pos, tr.args.batch)
      BY <1>2, <1>4, <2>3, Zenon
    <3>6. Trained(tr.model, ImagesOf(c), LabelsOf(c))[p] = k + ShownIn(tr.train, tr.pos + tr.args.batch, p)
      <4>1. Counts(tr.model, p, k, tr.train, tr.pos)
        BY <3>4, Zenon DEF Counts
      <4>2. Counts(Trained(tr.model, ImagesOf(c), LabelsOf(c)), p, k, tr.train, tr.pos + tr.args.batch)
        BY <3>3, <3>5, <4>1, ShownOnce, Zenon
      <4> QED BY <4>2, Zenon DEF Counts
    <3> QED BY <1>5, <3>3, <3>6, Zenon
  <2> QED BY <1>1, <1>2, <2>1, <2>3, <2>4, TrainingKeeps, Zenon
<1>7. \/ TrainEnds
      \/ tr' = [tr EXCEPT !.ta = "dead", !.pc = "failed"]
      \/ tr.args.batch # 0 /\ tr' = [tr EXCEPT !.model = model, !.pos = @ + tr.args.batch]
  BY <1>4, <1>5, Zenon DEF TrainBatch
<1> QED BY <1>1, <1>6, <1>7, TrainEndsKeeps, FailedKeeps, Zenon

(* the end of the training part of an epoch, *)
LEMMA TrainedAllKeeps ==
  ASSUME TrainIInv, ExportSawAll', TrainedAll PROVE TrainIInv'
<1>1. /\ tr.pc = "train" /\ tr.epoch <= tr.args.epochs /\ tr.pos > Len(tr.train)
      /\ tr' = [tr EXCEPT !.pc = "valid", !.pos = 1]
  BY Zenon DEF TrainedAll
<1>2. tr.pc # "off" /\ tr.pc \in {"train", "valid"}
  BY <1>1
<1>3. /\ tr.args \in Runs /\ tr.train \in Shuffled(TrainData) /\ tr.epoch \in Nat /\ tr.pos \in Nat \ {0}
      /\ \A p \in Seen : tr.model[p] = Times(p, tr.epoch - 1) + ShownIn(tr.train, tr.pos, p)
      /\ DOMAIN tr = DOMAIN Off
  BY <1>1, <1>2, Zenon DEF TrainIInv
<1>4. /\ tr'.pc = "valid" /\ tr'.args = tr.args /\ tr'.model = tr.model /\ tr'.epoch = tr.epoch
      /\ tr'.pos = 1 /\ tr'.train = tr.train /\ DOMAIN tr' = DOMAIN tr
  BY <1>1, TrFields
<1>5. ASSUME NEW p \in Seen PROVE tr.model[p] = Times(p, tr.epoch)
  <2>1. tr.model[p] = Times(p, tr.epoch - 1) + ShownIn(tr.train, tr.pos, p)
    BY <1>3, Zenon
  <2>2. tr.pos \in Nat
    BY <1>3
  <2>3. ShownIn(tr.train, tr.pos, p) = IF OwnLabel(p) THEN 1 ELSE 0
    BY <1>1, <1>3, <2>2, AllShown, Zenon
  <2>4. PICK e \in Nat : e = tr.epoch
    BY <1>3, Zenon
  <2>5. Times(p, e) = (IF OwnLabel(p) THEN e ELSE 0) /\ Times(p, e - 1) = (IF OwnLabel(p) THEN e - 1 ELSE 0)
    BY Zenon DEF Times
  <2>6. tr.model[p] = Times(p, e - 1) + (IF OwnLabel(p) THEN 1 ELSE 0)
    BY <2>1, <2>3, <2>4, Zenon
  <2>7. tr.model[p] = Times(p, e)
    BY <2>5, <2>6
  <2> QED BY <2>4, <2>7, Zenon
<1>6. tr'.pos \in Nat \ {0} /\ tr'.pc \notin {"fetch", "store"} /\ tr'.pc # "train" /\ tr'.pc # "write"
  BY <1>4
<1> QED BY <1>1, <1>3, <1>4, <1>5, <1>6, Zenon DEF TrainIInv

(* a batch that is only validated, *)
LEMMA ValidBatchKeeps ==
  ASSUME TrainIInv, ExportSawAll', ValidBatch PROVE TrainIInv'
<1>1. PICK c : c = Chunk(tr.test, tr.pos, tr.args.batch)
  BY Zenon
<1>2. /\ tr.pc = "valid"
      /\ \/ TrainEnds
         \/ tr' = [tr EXCEPT !.ta = "dead", !.pc = "failed"]
         \/ tr' = [tr EXCEPT !.model = Validated(@, ImagesOf(c), LabelsOf(c)), !.pos = @ + tr.args.batch]
  BY <1>1, Zenon DEF ValidBatch
<1>3. tr.pc # "off" /\ tr.pc \in {"train", "valid"}
  BY <1>2
<1>4. ASSUME tr' = [tr EXCEPT !.model = Validated(@, ImagesOf(c), LabelsOf(c)), !.pos = @ + tr.args.batch]
      PROVE  TrainIInv'
  <2>1. tr' = [tr EXCEPT !.model = @, !.pos = @ + tr.args.batch]
    BY <1>4, Zenon DEF Validated
  <2>2. /\ tr.args \in Runs /\ tr.train \in Shuffled(TrainData) /\ tr.epoch \in Nat /\ tr.pos \in Nat \ {0}
        /\ tr.epoch <= tr.args.epochs /\ \A p \in Seen : tr.model[p] = Times(p, tr.epoch)
        /\ DOMAIN tr = DOMAIN Off
    BY <1>2, <1>3, Zenon DEF TrainIInv
  <2>3. /\ tr'.pc = "valid" /\ tr'.args = tr.args /\ tr'.model = tr.model /\ tr'.epoch = tr.epoch
        /\ tr'.pos = tr.pos + tr.args.batch /\ tr'.train = tr.train /\ DOMAIN tr' = DOMAIN tr
    BY <1>2, <2>1, TrFields
  <2>4. tr.args.batch \in Nat
    BY <2>2, ArgsAssumption, Zenon
  <2>5. tr'.pos \in Nat \ {0} /\ tr'.pc \notin {"fetch", "store"} /\ tr'.pc # "train" /\ tr'.pc # "write"
    BY <2>2, <2>3, <2>4
  <2> QED BY <2>2, <2>3, <2>5, Zenon DEF TrainIInv
<1> QED BY <1>2, <1>3, <1>4, TrainEndsKeeps, FailedKeeps, Zenon

(* the end of an epoch *)
LEMMA EpochEndsKeeps ==
  ASSUME TrainIInv, ExportSawAll', EpochEnds PROVE TrainIInv'
<1>1. tr.pc = "valid" /\ tr' = [tr EXCEPT !.pc = "train", !.pos = 1, !.epoch = @ + 1]
  BY Zenon DEF EpochEnds
<1>2. tr.pc # "off" /\ tr.pc \in {"train", "valid"}
  BY <1>1
<1>3. /\ tr.args \in Runs /\ tr.train \in Shuffled(TrainData) /\ tr.epoch \in Nat
      /\ tr.epoch <= tr.args.epochs /\ \A p \in Seen : tr.model[p] = Times(p, tr.epoch)
      /\ DOMAIN tr = DOMAIN Off
  BY <1>1, <1>2, Zenon DEF TrainIInv
<1>4. /\ tr'.pc = "train" /\ tr'.args = tr.args /\ tr'.model = tr.model /\ tr'.epoch = tr.epoch + 1
      /\ tr'.pos = 1 /\ tr'.train = tr.train /\ DOMAIN tr' = DOMAIN tr
  BY <1>1, TrFields
<1>5. ASSUME NEW p \in Seen
      PROVE  tr'.model[p] = Times(p, tr'.epoch - 1) + ShownIn(tr'.train, tr'.pos, p)
  <2>1. ShownIn(tr'.train, tr'.pos, p) = 0
    BY <1>3, <1>4, NothingShown, Zenon
  <2>2. tr'.model[p] = Times(p, tr.epoch)
    BY <1>3, <1>4, Zenon
  <2>3. PICK e \in Nat : e = tr.epoch
    BY <1>3, Zenon
  <2>4. tr'.epoch - 1 = e
    BY <1>4, <2>3
  <2>5. Times(p, e) \in Int
    BY DEF Times
  <2>6. Times(p, e) = Times(p, e) + 0
    BY <2>5
  <2> QED BY <2>1, <2>2, <2>3, <2>4, <2>6, Zenon
<1>6. tr.args.epochs \in Nat
  BY <1>3, ArgsAssumption, Zenon
<1>7. tr'.epoch \in Nat /\ tr'.pos \in Nat \ {0} /\ tr'.pos = 1 /\ tr'.epoch <= tr'.args.epochs + 1
  BY <1>3, <1>4, <1>6
<1> QED BY <1>3, <1>4, <1>5, <1>7, TrainingKeeps, Zenon

(* and the export. *)
LEMMA ExportKeeps ==
  ASSUME TrainIInv, ExportSawAll', Export PROVE TrainIInv'
<1>1. tr.pc = "train" /\ tr.epoch > tr.args.epochs /\ (TrainEnds \/ tr' = [tr EXCEPT !.pc = "write"])
  BY Zenon DEF Export
<1>2. tr.pc # "off" /\ tr.pc \in {"train", "valid"}
  BY <1>1
<1>3. /\ tr.args \in Runs /\ tr.train \in Shuffled(TrainData) /\ tr.epoch \in Nat
      /\ tr.epoch <= tr.args.epochs + 1 /\ tr.pos = 1
      /\ \A p \in Seen : tr.model[p] = Times(p, tr.epoch - 1) + ShownIn(tr.train, tr.pos, p)
      /\ DOMAIN tr = DOMAIN Off
  BY <1>1, <1>2, Zenon DEF TrainIInv
<1>4. ASSUME tr' = [tr EXCEPT !.pc = "write"] PROVE TrainIInv'
  <2>1. tr'.pc = "write" /\ tr'.args = tr.args /\ tr'.model = tr.model /\ DOMAIN tr' = DOMAIN tr
    BY <1>4, TrFields
  <2>2. tr.args.epochs \in Nat
    BY <1>3, ArgsAssumption, Zenon
  <2>3. tr.epoch - 1 = tr.args.epochs
    BY <1>1, <1>3, <2>2
  <2>4. ASSUME NEW p \in Seen PROVE tr.model[p] = Times(p, tr.args.epochs)
    <3>1. ShownIn(tr.train, tr.pos, p) = 0
      BY <1>3, NothingShown, Zenon
    <3>2. tr.model[p] = Times(p, tr.args.epochs) + ShownIn(tr.train, tr.pos, p)
      BY <1>3, <2>3, Zenon
    <3> QED BY <2>2, <3>1, <3>2 DEF Times
  <2>5. tr'.pc \notin {"fetch", "store"} /\ tr'.pc \notin {"train", "valid"} /\ tr'.pc # "train" /\ tr'.pc # "valid"
    BY <2>1
  <2> QED BY <1>3, <2>1, <2>4, <2>5, Zenon DEF TrainIInv
<1> QED BY <1>1, <1>4, TrainEndsKeeps, Zenon

(* The model that is written has seen every image of the training set as   *)
(* often as there were epochs.                                             *)
LEMMA WriteModelSaw ==
  ASSUME TrainIInv, WriteModel PROVE ExportSawAll'
<1>1. tr.pc = "write" /\ exported' = exported \union {<<tr.args, tr.model>>}
  BY Zenon DEF WriteModel
<1>2. ExportSawAll /\ \A p \in Seen : tr.model[p] = Times(p, tr.args.epochs)
  BY <1>1, Zenon DEF TrainIInv
<1>3. PICK e : e = <<tr.args, tr.model>>
  BY Zenon
<1>4. e[1] = tr.args /\ e[2] = tr.model
  BY <1>3
<1>5. \A p \in Seen : e[2][p] = IF p[1] \in TrainData /\ p[1] = p[2] THEN e[1].epochs ELSE 0
  BY <1>2, <1>4, Zenon DEF Times, OwnLabel
<1>6. exported' = exported \union {e}
  BY <1>1, <1>3, Zenon
<1> QED BY <1>2, <1>5, <1>6, Zenon DEF ExportSawAll

(* It holds before the first command. *)
LEMMA InitTrainIInv ==
  ASSUME MnistInit PROVE TrainIInv
<1>1. tr = Off /\ exported = {}
  BY Zenon DEF MnistInit
<1>2. tr.pc = "off" /\ tr.pc \notin {"fetch", "store"} /\ tr.pc \notin {"train", "valid"} /\ tr.pc # "train"
      /\ tr.pc # "valid" /\ tr.pc # "write"
  BY <1>1 DEF Off
<1> QED BY <1>1, <1>2, Zenon DEF TrainIInv, ExportSawAll

(* Every step of the training keeps it. *)
LEMMA TrainStep ==
  ASSUME TrainIInv, [MnistNext]_mnistVars PROVE TrainIInv'
<1>0. ExportSawAll
  BY Zenon DEF TrainIInv
<1>1. ASSUME UNCHANGED <<tr, exported>> PROVE TrainIInv'
  BY <1>1, Zenon DEF TrainIInv, ExportSawAll
<1>2. ASSUME WriteModel PROVE TrainIInv'
  BY <1>2, WriteModelSaw, TrainEndsKeeps, Zenon DEF WriteModel
<1>3. ASSUME exported' = exported,
             \/ TrainEnds \/ Fetch \/ Store \/ Load \/ TrainBatch \/ TrainedAll \/ ValidBatch \/ EpochEnds
             \/ Export \/ \E a \in Runs : TrainStart(a)
      PROVE  TrainIInv'
  BY <1>0, <1>3, SawStays, TrainEndsKeeps, FetchKeeps, LoadKeeps, TrainBatchKeeps, TrainedAllKeeps, ValidBatchKeeps,
     EpochEndsKeeps, ExportKeeps, Zenon
<1>4. \A a \in Runs : TrainStart(a) => exported' = exported
  BY Zenon DEF TrainStart
<1>5. Fetch \/ Store \/ Load \/ TrainBatch \/ TrainedAll \/ ValidBatch \/ EpochEnds \/ Export => exported' = exported
  BY Zenon DEF Fetch, Store, Load, TrainBatch, TrainedAll, ValidBatch, EpochEnds, Export
<1>6. TrainKilled => TrainEnds /\ exported' = exported
  BY Zenon DEF TrainKilled
<1>7. (InferBatch \/ InferEnds \/ \E c \in Calls : InferStart(c)) => UNCHANGED <<tr, exported>>
  BY Zenon DEF InferBatch, InferEnds, InferStart
<1>8. (ServeStart \/ Handle \/ Respond \/ \E r \in Requests : Recv(r)) => UNCHANGED <<tr, exported>>
  BY Zenon DEF ServeStart, Handle, Respond, Recv
<1>9. ASSUME UNCHANGED mnistVars PROVE UNCHANGED <<tr, exported>>
  BY <1>9, Zenon DEF mnistVars
<1> QED BY <1>1, <1>2, <1>3, <1>4, <1>5, <1>6, <1>7, <1>8, <1>9, Zenon DEF MnistNext

(* What train exports has seen every image of the training set, with its   *)
(* own label, once for each epoch asked for, and nothing else: for every   *)
(* data set, batch size and number of epochs.                              *)
THEOREM ExportsAlwaysSawAll == MnistSpec => []ExportSawAll
<1>1. MnistInit => TrainIInv
  BY InitTrainIInv
<1>2. TrainIInv /\ [MnistNext]_mnistVars => TrainIInv'
  BY TrainStep
<1>3. TrainIInv => ExportSawAll
  BY Zenon DEF TrainIInv
<1> QED BY <1>1, <1>2, <1>3, PTL DEF MnistSpec
=============================================================================
