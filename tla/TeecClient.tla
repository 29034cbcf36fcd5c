----------------------------- MODULE TeecClient -----------------------------
(***************************************************************************)
(* The client API of crates/optee-teec: Context, Session and the reference *)
(* count that ties the lifetime of the raw TEEC_Context to both, used by   *)
(* the threads of one Client Application.                                  *)
(*                                                                         *)
(* A Context and a Session are values of one thread at a time, which may   *)
(* send them to another (both are Send); a method that takes &mut self     *)
(* excludes any other use of the value until it returns.  The TEEC_*       *)
(* functions of libteec are calls that begin and return.                   *)
(***************************************************************************)
EXTENDS Naturals

CONSTANTS
  Threads,   \* threads of the Client Application
  Contexts,  \* Context values
  Sessions,  \* Session values
  Free       \* no thread, no context, no session

(* What the theorems assume of the constants: contexts, sessions and       *)
(* threads are told apart as holders of the Arc, and Free is none of them. *)
ConstantsAssumption ==
  /\ Free \notin Threads \cup Contexts \cup Sessions
  /\ Threads \cap Contexts = {}
  /\ Threads \cap Sessions = {}
  /\ Contexts \cap Sessions = {}

VARIABLES
  teec,    \* of every context: "fresh", "live" or "finalized" TEEC_Context
  strong,  \* of every context: who holds its Arc: the Context value, Session
           \* values (in _ctx), threads (inner_ctx, a local of Session::new)
  lock,    \* of every context: the thread that has locked its Mutex
  owner,   \* of every Context and Session value: the thread it belongs to
  raw,     \* of every session: "none", "open" or "closed" TEEC_Session
  of,      \* of every session: the context it was opened in
  pc       \* of every thread: where it is in the API, and on which values

vars == <<teec, strong, lock, owner, raw, of, pc>>

Values == Contexts \cup Sessions
Idle == [at |-> "idle", ctx |-> Free, sess |-> Free]
At(step, c, s) == [at |-> step, ctx |-> c, sess |-> s]
Goto(t, step, c, s) == pc' = [pc EXCEPT ![t] = At(step, c, s)]
Return(t) == pc' = [pc EXCEPT ![t] = Idle]

Init ==
  /\ teec = [c \in Contexts |-> "fresh"]
  /\ strong = [c \in Contexts |-> {}]
  /\ lock = [c \in Contexts |-> Free]
  /\ owner = [v \in Values |-> Free]
  /\ raw = [s \in Sessions |-> "none"]
  /\ of = [s \in Sessions |-> Free]
  /\ pc = [t \in Threads |-> Idle]

(* Mutant: the count is compared before it is decremented. *)
DropArcLate(t, c, h) ==
  /\ strong' = [strong EXCEPT ![c] = @ \ {h}]
  /\ IF strong[c] = {} THEN Goto(t, "finalize", c, Free) ELSE Return(t)

(* An Arc<Mutex<InnerContext>> is dropped, the last thing a method does:   *)
(* whoever drops the last one goes on to drop the InnerContext.            *)
DropArc(t, c, h) ==
  /\ strong' = [strong EXCEPT ![c] = @ \ {h}]
  /\ IF strong[c] = {h} THEN Goto(t, "finalize", c, Free) ELSE Return(t)

(* impl Drop for InnerContext: TEEC_FinalizeContext. *)
Finalize(t) ==
  /\ pc[t].at = "finalize"
  /\ teec' = [teec EXCEPT ![pc[t].ctx] = "finalized"]
  /\ Return(t)
  /\ UNCHANGED <<strong, lock, owner, raw, of>>

-----------------------------------------------------------------------------
(* Context *)

(* Context::new; when TEEC_InitializeContext fails there is no Context and *)
(* nothing has changed.                                                    *)
New(t, c) ==
  /\ pc[t] = Idle
  /\ teec[c] = "fresh"
  /\ teec' = [teec EXCEPT ![c] = "live"]
  /\ strong' = [strong EXCEPT ![c] = {c}]
  /\ owner' = [owner EXCEPT ![c] = t]
  /\ UNCHANGED <<lock, raw, of, pc>>

(* A Context goes out of scope. *)
DropContext(t, c) ==
  /\ pc[t] = Idle
  /\ owner[c] = t
  /\ owner' = [owner EXCEPT ![c] = Free]
  /\ DropArc(t, c, c)
  /\ UNCHANGED <<teec, lock, raw, of>>

(* A value is sent to another thread. *)
Move(t, u, v) ==
  /\ pc[t] = Idle
  /\ t # u
  /\ owner[v] = t
  /\ owner' = [owner EXCEPT ![v] = u]
  /\ UNCHANGED <<teec, strong, lock, raw, of, pc>>

-----------------------------------------------------------------------------
(* Session::new, under the three Context::open_session* methods *)

(* let inner_ctx = context.inner_context() *)
OpenBegin(t, c, s) ==
  /\ pc[t] = Idle
  /\ owner[c] = t
  /\ raw[s] = "none"
  /\ \A u \in Threads : pc[u].sess # s
  /\ strong' = [strong EXCEPT ![c] = @ \cup {t}]
  /\ Goto(t, "lock", c, s)
  /\ UNCHANGED <<teec, lock, owner, raw, of>>

(* inner_ctx.lock(), poisoned or not; TEEC_OpenSession begins. *)
Lock(t) ==
  LET c == pc[t].ctx
  IN /\ pc[t].at = "lock"
     /\ lock[c] = Free
     /\ lock' = [lock EXCEPT ![c] = t]
     /\ Goto(t, "open", c, pc[t].sess)
     /\ UNCHANGED <<teec, strong, owner, raw, of>>

(* Mutant: the Session does not keep the context. *)
OpenSucceedsUnheld(t) ==
  LET c == pc[t].ctx
      s == pc[t].sess
  IN /\ pc[t].at = "open"
     /\ raw' = [raw EXCEPT ![s] = "open"]
     /\ of' = [of EXCEPT ![s] = c]
     /\ owner' = [owner EXCEPT ![s] = t]
     /\ lock' = [lock EXCEPT ![c] = Free]
     /\ Goto(t, "release", c, s)
     /\ UNCHANGED <<teec, strong>>

(* TEEC_OpenSession returns success: the Session takes a clone of the Arc, *)
(* and the guard is dropped.                                               *)
OpenSucceeds(t) ==
  LET c == pc[t].ctx
      s == pc[t].sess
  IN /\ pc[t].at = "open"
     /\ raw' = [raw EXCEPT ![s] = "open"]
     /\ of' = [of EXCEPT ![s] = c]
     /\ strong' = [strong EXCEPT ![c] = @ \cup {s}]
     /\ owner' = [owner EXCEPT ![s] = t]
     /\ lock' = [lock EXCEPT ![c] = Free]
     /\ Goto(t, "release", c, s)
     /\ UNCHANGED teec

(* TEEC_OpenSession returns an error: no Session. *)
OpenFails(t) ==
  LET c == pc[t].ctx
  IN /\ pc[t].at = "open"
     /\ lock' = [lock EXCEPT ![c] = Free]
     /\ Goto(t, "release", c, Free)
     /\ UNCHANGED <<teec, strong, owner, raw, of>>

(* inner_ctx is dropped, after the guard. *)
Release(t) ==
  /\ pc[t].at = "release"
  /\ DropArc(t, pc[t].ctx, t)
  /\ UNCHANGED <<teec, lock, owner, raw, of>>

-----------------------------------------------------------------------------
(* Session *)

(* invoke_command: TEEC_InvokeCommand begins, without the lock. *)
InvokeBegin(t, s) ==
  /\ pc[t] = Idle
  /\ owner[s] = t
  /\ Goto(t, "invoke", of[s], s)
  /\ UNCHANGED <<teec, strong, lock, owner, raw, of>>

InvokeReturns(t) ==
  /\ pc[t].at = "invoke"
  /\ Return(t)
  /\ UNCHANGED <<teec, strong, lock, owner, raw, of>>

(* Mutant: the Session is forgotten without TEEC_CloseSession. *)
CloseBeginForgets(t, s) ==
  /\ pc[t] = Idle
  /\ owner[s] = t
  /\ owner' = [owner EXCEPT ![s] = Free]
  /\ Goto(t, "drop_ctx", of[s], s)
  /\ UNCHANGED <<teec, strong, lock, raw, of>>

(* impl Drop for Session: TEEC_CloseSession begins. *)
CloseBegin(t, s) ==
  /\ pc[t] = Idle
  /\ owner[s] = t
  /\ owner' = [owner EXCEPT ![s] = Free]
  /\ Goto(t, "close", of[s], s)
  /\ UNCHANGED <<teec, strong, lock, raw, of>>

(* TEEC_CloseSession returns; only then are the fields dropped. *)
CloseReturns(t) ==
  LET s == pc[t].sess
  IN /\ pc[t].at = "close"
     /\ raw' = [raw EXCEPT ![s] = "closed"]
     /\ Goto(t, "drop_ctx", of[s], s)
     /\ UNCHANGED <<teec, strong, lock, owner, of>>

(* The field _ctx is dropped. *)
DropCtx(t) ==
  /\ pc[t].at = "drop_ctx"
  /\ DropArc(t, pc[t].ctx, pc[t].sess)
  /\ UNCHANGED <<teec, lock, owner, raw, of>>

-----------------------------------------------------------------------------
(* What a thread has begun it finishes. *)
Step(t) ==
  \/ Lock(t) \/ OpenSucceeds(t) \/ OpenFails(t) \/ Release(t)
  \/ InvokeReturns(t) \/ CloseReturns(t) \/ DropCtx(t) \/ Finalize(t)

Next ==
  \E t \in Threads :
    \/ Step(t)
    \/ \E c \in Contexts :
         New(t, c) \/ DropContext(t, c) \/ (\E s \in Sessions : OpenBegin(t, c, s))
    \/ \E s \in Sessions : InvokeBegin(t, s) \/ CloseBegin(t, s)
    \/ \E u \in Threads, v \in Values : Move(t, u, v)

Spec == Init /\ [][Next]_vars

-----------------------------------------------------------------------------
InCall == {"lock", "open", "release", "invoke", "close", "drop_ctx", "finalize"}
Places == [at : InCall, ctx : Contexts, sess : Sessions \cup {Free}] \cup {Idle}

(* The shape of the state: a thread inside the API is there on behalf of a *)
(* context, and only the context itself, sessions and threads hold its Arc.*)
TypeOK ==
  /\ teec \in [Contexts -> {"fresh", "live", "finalized"}]
  /\ strong \in [Contexts -> SUBSET (Values \cup Threads)]
  /\ lock \in [Contexts -> Threads \cup {Free}]
  /\ owner \in [Values -> Threads \cup {Free}]
  /\ raw \in [Sessions -> {"none", "open", "closed"}]
  /\ of \in [Sessions -> Contexts \cup {Free}]
  /\ pc \in [Threads -> Places]

(* The TEEC_Context is valid whenever libteec is handed it or a session    *)
(* opened in it: TEEC_FinalizeContext runs after the last of its sessions  *)
(* has been closed and the last call has returned, in whatever order       *)
(* Context and Sessions are dropped, by whichever threads.                 *)
ContextOutlivesSessions ==
  /\ \A s \in Sessions : raw[s] = "open" => teec[of[s]] = "live"
  /\ \A t \in Threads : pc[t].at \in {"open", "invoke", "close"}
                          => teec[pc[t].ctx] = "live"

(* The drop of InnerContext runs in one thread, on a valid context: no     *)
(* TEEC_Context is finalized twice.                                        *)
FinalizedOnce ==
  \A t \in Threads : pc[t].at = "finalize" =>
    /\ teec[pc[t].ctx] = "live"
    /\ \A u \in Threads \ {t} : pc[u].at = "finalize" => pc[u].ctx # pc[t].ctx

(* No open TEEC_Session is lost: it belongs to a Session value some thread *)
(* still has, or a thread is closing it.                                   *)
NoSessionLost ==
  \A s \in Sessions : raw[s] = "open" =>
    owner[s] # Free \/ \E t \in Threads : pc[t].at = "close" /\ pc[t].sess = s

(* Once the Context and all its Sessions are dropped, the TEEC_Context is  *)
(* finalized.                                                              *)
Dropped(c) ==
  /\ teec[c] = "live"
  /\ owner[c] = Free
  /\ \A s \in Sessions : of[s] = c => owner[s] = Free

EventuallyFinalized ==
  \A c \in Contexts : Dropped(c) ~> teec[c] = "finalized"
=============================================================================
