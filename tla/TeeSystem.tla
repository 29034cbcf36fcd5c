------------------------------ MODULE TeeSystem ------------------------------
(***************************************************************************)
(* The two worlds together: the threads of a Client Application that use   *)
(* optee-teec (TeecClient) and the Trusted Application built with the      *)
(* optee-utee macros, run by the OP-TEE core (TaSessions).  A TEEC_* call  *)
(* on a session is a request that the core picks up, hands to the entry    *)
(* point and answers.                                                      *)
(***************************************************************************)
EXTENDS TaSessions

CONSTANTS Threads, Contexts

VARIABLES
  teec, strong, lock, owner, raw, ctx_of, pc,  \* the client's state
  call  \* of every session: "none", "requested", "running" or "answered"

CA == INSTANCE TeecClient WITH of <- ctx_of, Free <- None

ASSUME ClientAssumption == CA!ConstantsAssumption

clientVars == <<teec, strong, lock, owner, raw, ctx_of, pc>>
systemVars == <<clientVars, vars, call>>

SystemInit == CA!Init /\ Init /\ call = [s \in Sessions |-> "none"]

SetCall(s, phase) == call' = [call EXCEPT ![s] = phase]

-----------------------------------------------------------------------------
(* The client *)

(* What a thread begins without entering the TEE. *)
Local(t) ==
  /\ \/ \E c \in Contexts :
          \/ CA!New(t, c) \/ CA!DropContext(t, c)
          \/ \E s \in Sessions : CA!OpenBegin(t, c, s)
     \/ \E u \in Threads, v \in CA!Values : CA!Move(t, u, v)
  /\ UNCHANGED <<vars, call>>

(* What a thread does on its own at the end of a method it has begun. *)
Finish(t) ==
  /\ CA!Release(t) \/ CA!DropCtx(t) \/ CA!Finalize(t)
  /\ UNCHANGED <<vars, call>>

(* A thread calls TEEC_OpenSession, TEEC_InvokeCommand, TEEC_CloseSession. *)
Request(t) ==
  /\ \/ CA!Lock(t) /\ SetCall(pc[t].sess, "requested")
     \/ \E s \in Sessions :
          (CA!InvokeBegin(t, s) \/ CA!CloseBegin(t, s)) /\ SetCall(s, "requested")
  /\ UNCHANGED vars

(* Mutant: the code TEEC_OpenSession returned is not looked at. *)
OpenResponseUnchecked(t) ==
  /\ pc[t].at = "open"
  /\ CA!OpenSucceeds(t)

(* TEEC_OpenSession has returned: teec_check_with_origin on its code. *)
OpenResponse(t) ==
  /\ pc[t].at = "open"
  /\ IF result[pc[t].sess].code = "ok" THEN CA!OpenSucceeds(t)
                                       ELSE CA!OpenFails(t)

(* The call returns to the thread. *)
Response(t) ==
  /\ pc[t].sess # None
  /\ call[pc[t].sess] = "answered"
  /\ OpenResponse(t) \/ CA!InvokeReturns(t) \/ CA!CloseReturns(t)
  /\ SetCall(pc[t].sess, "none")
  /\ UNCHANGED vars

-----------------------------------------------------------------------------
(* The TEE *)

(* The core takes the request to the TA's instance, or answers it itself. *)
Dispatch(s) ==
  /\ call[s] = "requested"
  /\ \E t \in Threads :
       /\ pc[t].sess = s
       /\ \/ pc[t].at = "open" /\ OpenStart(s)
          \/ pc[t].at = "invoke" /\ InvokeStart(s)
          \/ pc[t].at = "close" /\ CloseStart(s)
  /\ SetCall(s, IF \E i \in Instances : run'[i].sess = s THEN "running"
                                                         ELSE "answered")
  /\ UNCHANGED <<clientVars, flags>>

(* An entry point takes a step; when it returns, the call is answered. *)
Execute(i) ==
  /\ EntryPoint(i)
  /\ IF run'[i] = Idle THEN SetCall(run[i].sess, "answered")
                          ELSE UNCHANGED call
  /\ UNCHANGED <<clientVars, flags>>

-----------------------------------------------------------------------------
SystemNext ==
  \/ \E t \in Threads : Local(t) \/ Finish(t) \/ Request(t) \/ Response(t)
  \/ \E s \in Sessions : Dispatch(s)
  \/ \E i \in Instances : Execute(i)

(* A thread goes on after a call, and entry points end.  A call that waits *)
(* for a busy instance is not passed over for ever by calls of other       *)
(* sessions, which needs strong fairness: it is what is assumed of the     *)
(* queue the OP-TEE core keeps for an instance.                            *)
SystemSpec ==
  /\ SystemInit /\ [][SystemNext]_systemVars
  /\ \A t \in Threads : WF_systemVars(Finish(t)) /\ WF_systemVars(Response(t))
  /\ \A s \in Sessions : SF_systemVars(Dispatch(s))
  /\ \A i \in Instances : WF_systemVars(Execute(i))

-----------------------------------------------------------------------------
(* A Session value is a session of the TEE, open or killed by a panic but  *)
(* not yet closed, and a session open in the TEE is one a Session value or *)
(* a call in progress stands for: the two worlds never disagree about what *)
(* is open once the call on it is over.                                    *)
WorldsAgree ==
  \A s \in Sessions : call[s] = "none" => (raw[s] = "open" <=> session[s] = "open")

(* When TEEC_FinalizeContext has run, no session of the context is left in *)
(* the TEE.                                                                *)
FinalizedClean ==
  \A s \in Sessions :
    session[s] = "open" /\ ctx_of[s] # None => teec[ctx_of[s]] # "finalized"

(* Once every Session value is dropped and no call is in progress, the TA  *)
(* holds no session context any more, and only an instance kept alive is   *)
(* still there: dropping the values in one world frees the other.          *)
NothingLeft ==
  (\A s \in Sessions : owner[s] = None /\ call[s] = "none") =>
    \A i \in Instances : instance[i] = "live" => KeepAlive /\ heap[i] = {}

(* The TEEC_Context is valid whenever libteec is handed it or a session    *)
(* opened in it, although Session::new gives the lock up before the        *)
(* Session exists and commands run without it.                             *)
ContextOutlivesSessions == CA!ContextOutlivesSessions

(* Once the Context and all its Sessions are dropped, TEEC_FinalizeContext *)
(* runs, even when the TA must first finish the calls of other sessions or *)
(* has panicked under the one being closed.                                *)
EventuallyFinalized == CA!EventuallyFinalized
=============================================================================
