----------------------------- MODULE TaSessions -----------------------------
(***************************************************************************)
(* The entry points that crates/optee-utee-macros generates for a Trusted  *)
(* Application whose functions take a session context, and the OP-TEE core *)
(* that calls them.  The context of a session is a Rust Box that           *)
(* ta_open_session leaks into a raw pointer, ta_invoke_command borrows     *)
(* (Box::from_raw, then mem::forget) and ta_close_session takes back.  The *)
(* core keeps the pointer, serialises the calls into one TA instance, and  *)
(* kills the instance when its code panics.                                *)
(***************************************************************************)
EXTENDS Naturals, FiniteSets

CONSTANTS
  Sessions,        \* sessions clients open
  Instances,       \* TA instances (address spaces) the core can create
  Addresses,       \* heap addresses a Box can have, in each instance
  Data,            \* contents of a session context
  DefaultData,     \* Default::default()
  Null,            \* the null pointer
  None             \* no session, no instance

ASSUME DataAssumption == DefaultData \in Data
ASSUME NullAssumption == Null \notin Addresses
ASSUME NoneAssumption == None \notin Sessions \cup Instances

VARIABLES
  flags,     \* the ta_flags the TA is built with
  instance,  \* of every instance: "none", "live", "panicked" or "gone"
  heap,      \* of every instance: the addresses of its live boxes
  content,   \* of every instance and address: what the box holds
  run,       \* of every instance: the entry point it is executing
  session,   \* of every session: "new", "opening", "open" or "closed"
  of,        \* the instance of the session
  sess_ctx,  \* the pointer the core passes for the session
  expected,  \* history: what the session's own calls left in its context
  result     \* what the last call on the session returned to the client

vars == <<flags, instance, heap, content, run, session, of, sess_ctx, expected,
          result>>
memory == <<heap, content>>

SingleInstance == "SINGLE_INSTANCE" \in flags
MultiSession == "MULTI_SESSION" \in flags
KeepAlive == "INSTANCE_KEEP_ALIVE" \in flags
Flags == {"SINGLE_INSTANCE", "MULTI_SESSION", "INSTANCE_KEEP_ALIVE"}

Idle == [op |-> "idle", sess |-> None, box |-> Null]
Call(op, s, b) == [op |-> op, sess |-> s, box |-> b]

(* What the client sees: a code and who produced it.  User code may well   *)
(* return TARGET_DEAD itself, with the TA as origin, when a TA it called   *)
(* is dead.                                                                *)
TaErrors == [code : {"error", "target_dead"}, origin : {"ta"}]
Ok == [code |-> "ok", origin |-> "ta"]
Refused(code) == [code |-> code, origin |-> "tee"]
Pending == [code |-> "pending", origin |-> "tee"]
Results == TaErrors \cup {Ok, Pending}
           \cup {Refused(c) : c \in {"busy", "target_dead"}}
           \cup {[code |-> "security", origin |-> "ta"]}

Init ==
  /\ flags \in SUBSET Flags
  /\ instance = [i \in Instances |-> "none"]
  /\ heap = [i \in Instances |-> {}]
  /\ content = [i \in Instances |-> [a \in Addresses |-> DefaultData]]
  /\ run = [i \in Instances |-> Idle]
  /\ session = [s \in Sessions |-> "new"]
  /\ of = [s \in Sessions |-> None]
  /\ sess_ctx = [s \in Sessions |-> Null]
  /\ expected = [s \in Sessions |-> DefaultData]
  /\ result = [s \in Sessions |-> Pending]

(* The sessions the instance's library still knows. *)
SessionsOf(i) == {s \in Sessions : of[s] = i /\ session[s] \in {"opening", "open"}}

Answer(s, r) == result' = [result EXCEPT ![s] = r]

(* The entry point of i returns: the instance can take the next call.  A   *)
(* last session that is gone takes the instance with it, after             *)
(* TA_DestroyEntryPoint, unless it is kept alive.                          *)
Leave(i, s, left) ==
  /\ run' = [run EXCEPT ![i] = Idle]
  /\ instance' =
       [instance EXCEPT ![i] =
          IF left /\ SessionsOf(i) = {s} /\ ~KeepAlive THEN "gone" ELSE @]

-----------------------------------------------------------------------------
(* Opening a session. *)

(* A new session may join instance i: a live single instance, or a fresh   *)
(* one when there is no live single instance.                              *)
Eligible(i) ==
  LET running == {j \in Instances : instance[j] = "live"}
  IN IF SingleInstance /\ running # {} THEN i \in running
                                       ELSE instance[i] = "none"

OpenStart(s) ==
  /\ session[s] = "new"
  /\ \E i \in Instances :
       /\ Eligible(i)
       /\ run[i] = Idle
       /\ \/ /\ SessionsOf(i) # {} /\ ~MultiSession
             /\ session' = [session EXCEPT ![s] = "closed"]
             /\ Answer(s, Refused("busy"))
             /\ UNCHANGED <<instance, run, of>>
          \/ /\ SessionsOf(i) = {} \/ MultiSession
             /\ instance' = [instance EXCEPT ![i] = "live"]
             /\ session' = [session EXCEPT ![s] = "opening"]
             /\ of' = [of EXCEPT ![s] = i]
             /\ run' = [run EXCEPT ![i] = Call("open", s, Null)]
             /\ Answer(s, Pending)
  /\ UNCHANGED <<memory, sess_ctx, expected>>

(* TA_CreateEntryPoint of a new instance, FromRawParameters::from_raw or   *)
(* the user's function fails: no context is stored, and the core drops the *)
(* session without TA_CloseSessionEntryPoint.                              *)
OpenFails(i) ==
  LET s == run[i].sess
  IN /\ run[i].op = "open"
     /\ session' = [session EXCEPT ![s] = "closed"]
     /\ \E r \in TaErrors : Answer(s, r)
     /\ Leave(i, s, TRUE)
     /\ UNCHANGED <<memory, of, sess_ctx, expected>>

(* The user's function has set up its context and succeeded: the context   *)
(* moves into a Box, whose raw pointer the core keeps.                     *)
OpenSucceeds(i) ==
  LET s == run[i].sess
  IN /\ run[i].op = "open"
     /\ \E a \in Addresses \ heap[i], d \in Data :
          /\ heap' = [heap EXCEPT ![i] = @ \cup {a}]
          /\ content' = [content EXCEPT ![i][a] = d]
          /\ sess_ctx' = [sess_ctx EXCEPT ![s] = a]
          /\ expected' = [expected EXCEPT ![s] = d]
     /\ session' = [session EXCEPT ![s] = "open"]
     /\ Answer(s, Ok)
     /\ Leave(i, s, FALSE)
     /\ UNCHANGED of

-----------------------------------------------------------------------------
(* Invoking a command. *)

(* The core: a command on a session of a panicked instance is refused. *)
InvokeStart(s) ==
  /\ session[s] = "open"
  /\ \/ /\ instance[of[s]] = "panicked"
        /\ Answer(s, Refused("target_dead"))
        /\ UNCHANGED run
     \/ /\ instance[of[s]] = "live"
        /\ run[of[s]] = Idle
        /\ run' = [run EXCEPT ![of[s]] = Call("invoke", s, Null)]
        /\ Answer(s, Pending)
  /\ UNCHANGED <<instance, memory, session, of, sess_ctx, expected>>

(* TA_InvokeCommandEntryPoint returns before it touches the context: the   *)
(* pointer is null, or the parameters do not have the declared types.      *)
InvokeRefused(i) ==
  LET s == run[i].sess
  IN /\ run[i].op = "invoke" /\ run[i].box = Null
     /\ IF sess_ctx[s] = Null
        THEN Answer(s, [code |-> "security", origin |-> "ta"])
        ELSE Answer(s, [code |-> "error", origin |-> "ta"])
     /\ Leave(i, s, FALSE)
     /\ UNCHANGED <<memory, session, of, sess_ctx, expected>>

(* let mut b = Box::from_raw(sess_ctx): the call owns the context. *)
InvokeBorrow(i) ==
  LET s == run[i].sess
  IN /\ run[i].op = "invoke" /\ run[i].box = Null
     /\ sess_ctx[s] # Null
     /\ run' = [run EXCEPT ![i].box = sess_ctx[s]]
     /\ UNCHANGED <<instance, memory, session, of, sess_ctx, expected, result>>

(* Mutant: an error is returned with `?`, which drops the Box. *)
InvokeReturnsDropping(i) ==
  LET s == run[i].sess
      b == run[i].box
  IN /\ run[i].op = "invoke" /\ b # Null
     /\ \E d \in Data, r \in TaErrors \cup {Ok} :
          /\ content' = [content EXCEPT ![i][b] = d]
          /\ expected' = [expected EXCEPT ![s] = d]
          /\ heap' = [heap EXCEPT ![i] = IF r = Ok THEN @ ELSE @ \ {b}]
          /\ Answer(s, r)
     /\ Leave(i, s, FALSE)
     /\ UNCHANGED <<session, of, sess_ctx>>

(* The user's function has run on &mut b, and returned Ok or Err; b is     *)
(* forgotten in both cases.                                                *)
InvokeReturns(i) ==
  LET s == run[i].sess
      b == run[i].box
  IN /\ run[i].op = "invoke" /\ b # Null
     /\ \E d \in Data :
          /\ content' = [content EXCEPT ![i][b] = d]
          /\ expected' = [expected EXCEPT ![s] = d]
     /\ \E r \in TaErrors \cup {Ok} : Answer(s, r)
     /\ Leave(i, s, FALSE)
     /\ UNCHANGED <<heap, session, of, sess_ctx>>

-----------------------------------------------------------------------------
(* Closing a session. *)

(* The core: a session of a panicked instance is dropped without calling   *)
(* the TA.                                                                 *)
CloseStart(s) ==
  /\ session[s] = "open"
  /\ \/ /\ instance[of[s]] = "panicked"
        /\ session' = [session EXCEPT ![s] = "closed"]
        /\ UNCHANGED run
     \/ /\ instance[of[s]] = "live"
        /\ run[of[s]] = Idle
        /\ run' = [run EXCEPT ![of[s]] = Call("close", s, Null)]
        /\ UNCHANGED session
  /\ UNCHANGED <<instance, memory, of, sess_ctx, expected, result>>

(* Mutant: the Box is forgotten here as in ta_invoke_command. *)
CloseReturnsForgetting(i) ==
  LET s == run[i].sess
  IN /\ run[i].op = "close"
     /\ session' = [session EXCEPT ![s] = "closed"]
     /\ Leave(i, s, TRUE)
     /\ UNCHANGED <<memory, of, sess_ctx, expected, result>>

(* Box::from_raw(sess_ctx), the user's function, drop(b). *)
CloseReturns(i) ==
  LET s == run[i].sess
  IN /\ run[i].op = "close"
     /\ sess_ctx[s] # Null
     /\ heap' = [heap EXCEPT ![i] = @ \ {sess_ctx[s]}]
     /\ session' = [session EXCEPT ![s] = "closed"]
     /\ Leave(i, s, TRUE)
     /\ UNCHANGED <<content, of, sess_ctx, expected, result>>

-----------------------------------------------------------------------------
(* Mutant: the panic handler returns an error to the core instead. *)
PanicReturns(i) ==
  LET s == run[i].sess
  IN /\ run[i] # Idle
     /\ session' = [session EXCEPT ![s] = IF run[i].op = "invoke"
                                          THEN @ ELSE "closed"]
     /\ Leave(i, s, run[i].op # "invoke")
     /\ Answer(s, Refused("target_dead"))
     /\ UNCHANGED <<memory, of, sess_ctx, expected>>

(* User code panics (or close finds a null pointer): the panic handler     *)
(* calls TEE_Panic, and the core tears the instance down with its memory.  *)
(* A session being opened is gone, the others stay, dead.                  *)
Panic(i) ==
  LET s == run[i].sess
  IN /\ run[i] # Idle
     /\ instance' = [instance EXCEPT ![i] = "panicked"]
     /\ heap' = [heap EXCEPT ![i] = {}]
     /\ run' = [run EXCEPT ![i] = Idle]
     /\ session' = [session EXCEPT ![s] = IF run[i].op = "invoke"
                                          THEN @ ELSE "closed"]
     /\ Answer(s, Refused("target_dead"))
     /\ UNCHANGED <<content, of, sess_ctx, expected>>

-----------------------------------------------------------------------------
EntryPoint(i) ==
  \/ OpenFails(i) \/ OpenSucceeds(i)
  \/ InvokeRefused(i) \/ InvokeBorrow(i) \/ InvokeReturns(i)
  \/ CloseReturns(i) \/ Panic(i)

Next ==
  /\ \/ \E s \in Sessions : OpenStart(s) \/ InvokeStart(s) \/ CloseStart(s)
     \/ \E i \in Instances : EntryPoint(i)
  /\ UNCHANGED flags

Spec == Init /\ [][Next]_vars

-----------------------------------------------------------------------------
Calls == [op : {"open", "invoke", "close"}, sess : Sessions,
          box : Addresses \cup {Null}]

(* The shape of the state: of the core's tables and the TA's heap. *)
TypeOK ==
  /\ flags \subseteq Flags
  /\ instance \in [Instances -> {"none", "live", "panicked", "gone"}]
  /\ heap \in [Instances -> SUBSET Addresses]
  /\ content \in [Instances -> [Addresses -> Data]]
  /\ run \in [Instances -> Calls \cup {Idle}]
  /\ session \in [Sessions -> {"new", "opening", "open", "closed"}]
  /\ of \in [Sessions -> Instances \cup {None}]
  /\ sess_ctx \in [Sessions -> Addresses \cup {Null}]
  /\ expected \in [Sessions -> Data]
  /\ result \in [Sessions -> Results]

(* The sessions whose context the TA can be asked to use. *)
Usable == {s \in Sessions : session[s] = "open" /\ instance[of[s]] = "live"}

(* The pointer the core passes for an open session points to a live Box,   *)
(* and to no other session's: whatever ta_invoke_command returned before,  *)
(* the next Box::from_raw reads no freed memory, and the drop of           *)
(* ta_close_session frees nothing twice.                                   *)
ContextOwned ==
  /\ \A s \in Usable : sess_ctx[s] \in heap[of[s]]
  /\ \A s, t \in Usable :
       s # t /\ of[s] = of[t] => sess_ctx[s] # sess_ctx[t]

(* Every Box in a live instance is the context of one of its open          *)
(* sessions: ta_close_session and the error paths of ta_open_session leave *)
(* nothing behind in an instance that goes on serving other sessions.      *)
NoContextLeak ==
  \A i \in Instances : instance[i] = "live" =>
    heap[i] \subseteq {sess_ctx[s] : s \in {t \in Usable : of[t] = i}}

(* A session finds in its context what its own calls last left there,      *)
(* failed commands included, however the calls of other sessions of the    *)
(* instance come in between.                                               *)
ContextKept ==
  \A s \in Usable : content[of[s]][sess_ctx[s]] = expected[s]

(* A session told by the TEE that its target is dead never gets another    *)
(* answer, even when a new instance of the TA has started: what the        *)
(* client_pool example's Connection::valid relies on to drop a connection. *)
DeadForGood ==
  [][\A s \in Sessions : result[s] = Refused("target_dead")
                            => result'[s] = result[s]]_vars
=============================================================================
