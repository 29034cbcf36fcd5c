--------------------------- MODULE TeeSystemProofs --------------------------
(***************************************************************************)
(* Proofs about TaSessions and TeeSystem.  First the TA alone; then the    *)
(* two worlds: what holds of the TA alone and of the client alone (CP, the *)
(* proofs about TeecClient) holds of the two together, and they agree      *)
(* about the sessions.  For any number of threads, contexts, sessions,     *)
(* instances and heap addresses and whatever the ta_flags.                 *)
(***************************************************************************)
EXTENDS TeeSystem, TLAPS

-----------------------------------------------------------------------------
(* TaSessions: the sessions of a TA and the contexts it boxes for them. *)

(* An entry point runs in a live instance, for a session of it, and the    *)
(* Box it has borrowed is the one the core keeps for the session.          *)
Running ==
  \A i \in Instances : run[i] # Idle =>
    LET s == run[i].sess
    IN /\ instance[i] = "live" /\ s \in Sessions /\ of[s] = i
       /\ session[s] = IF run[i].op = "open" THEN "opening" ELSE "open"
       /\ run[i].box # Null => run[i].op = "invoke" /\ run[i].box = sess_ctx[s]

(* A session the core knows has an instance, live or panicked; one that is *)
(* being opened is what the instance is executing.                         *)
Placed ==
  \A s \in Sessions :
    /\ session[s] \in {"opening", "open"} =>
         of[s] \in Instances /\ instance[of[s]] \in {"live", "panicked"}
    /\ session[s] = "opening" => run[of[s]].op = "open" /\ run[of[s]].sess = s

(* An instance that has not started has no memory. *)
Unused == \A i \in Instances : instance[i] = "none" => heap[i] = {}

(* A session that was told its target is dead is closed, or its instance   *)
(* has panicked.                                                           *)
DeadKnown ==
  \A s \in Sessions : result[s] = Refused("target_dead") =>
    \/ session[s] = "closed"
    \/ session[s] = "open" /\ instance[of[s]] = "panicked"

IInv == /\ TypeOK /\ Running /\ Placed /\ Unused /\ DeadKnown
        /\ ContextOwned /\ NoContextLeak /\ ContextKept

-----------------------------------------------------------------------------
(* The records that stand for entry points. *)
LEMMA CallFacts ==
  /\ Idle.op = "idle" /\ Idle.sess = None /\ Idle.box = Null
  /\ \A o, s, b : Call(o, s, b).op = o /\ Call(o, s, b).sess = s /\ Call(o, s, b).box = b
  /\ \A o \in {"open", "invoke", "close"}, s \in Sessions, b \in Addresses \cup {Null} :
       Call(o, s, b) \in Calls
  /\ \A c \in Calls : /\ c # Idle
                      /\ c.op \in {"open", "invoke", "close"}
                      /\ c.sess \in Sessions /\ c.box \in Addresses \cup {Null}
BY DEF Idle, Call, Calls

(* The answers a client can get, and that only the core says target_dead   *)
(* with the TEE as origin.                                                 *)
LEMMA ResultFacts ==
  /\ Pending \in Results /\ Ok \in Results /\ TaErrors \subseteq Results
  /\ Refused("busy") \in Results /\ Refused("target_dead") \in Results
  /\ [code |-> "security", origin |-> "ta"] \in Results
  /\ [code |-> "error", origin |-> "ta"] \in Results
  /\ Refused("target_dead") # Pending /\ Refused("target_dead") # Ok
  /\ Refused("target_dead") # Refused("busy")
  /\ Refused("target_dead") \notin TaErrors
  /\ Refused("target_dead") # [code |-> "security", origin |-> "ta"]
  /\ Refused("target_dead") # [code |-> "error", origin |-> "ta"]
<1>1. /\ Pending \in Results /\ Ok \in Results /\ TaErrors \subseteq Results
      /\ Refused("busy") \in Results /\ Refused("target_dead") \in Results
      /\ [code |-> "security", origin |-> "ta"] \in Results
  BY DEF Results
<1>2. [code |-> "error", origin |-> "ta"] \in TaErrors
  BY DEF TaErrors
<1>3. /\ Refused("target_dead").code = "target_dead"
      /\ Refused("target_dead").origin = "tee"
      /\ Refused("busy").code = "busy" /\ Pending.code = "pending" /\ Ok.code = "ok"
  BY DEF Refused, Pending, Ok
<1>4. \A r \in TaErrors : r.origin = "ta"
  BY DEF TaErrors
<1> QED
  BY <1>1, <1>2, <1>3, <1>4

(* Nothing is open in the beginning. *)
LEMMA InitIInv == Init => IInv
<1> SUFFICES ASSUME Init PROVE IInv
  OBVIOUS
<1>1. TypeOK
  BY DataAssumption, ResultFacts DEF Init, TypeOK
<1>2. Usable = {} /\ \A i \in Instances : heap[i] = {} /\ run[i] = Idle
  BY DEF Init, Usable
<1>3. Running /\ Unused /\ NoContextLeak
  BY <1>2 DEF Running, Unused, NoContextLeak
<1>4. ContextOwned /\ ContextKept
  BY <1>2 DEF ContextOwned, ContextKept
<1>5. Placed /\ DeadKnown
  BY ResultFacts DEF Init, Placed, DeadKnown
<1> QED
  BY <1>1, <1>3, <1>4, <1>5 DEF IInv

-----------------------------------------------------------------------------
(* Every step keeps the invariant. *)
LEMMA InductiveStep == IInv /\ [Next]_vars => IInv'
<1> SUFFICES ASSUME IInv, [Next]_vars PROVE IInv'
  OBVIOUS
<1> USE CallFacts, ResultFacts, NullAssumption, NoneAssumption
<1>0. /\ TypeOK /\ Running /\ Placed /\ Unused /\ DeadKnown
      /\ ContextOwned /\ NoContextLeak /\ ContextKept
  BY DEF IInv
<1>1. ASSUME NEW s \in Sessions, OpenStart(s), UNCHANGED flags PROVE IInv'
  <2>1. PICK i \in Instances :
          /\ Eligible(i) /\ run[i] = Idle
          /\ \/ /\ session' = [session EXCEPT ![s] = "closed"]
                /\ Answer(s, Refused("busy"))
                /\ UNCHANGED <<instance, run, of>>
             \/ /\ instance' = [instance EXCEPT ![i] = "live"]
                /\ session' = [session EXCEPT ![s] = "opening"]
                /\ of' = [of EXCEPT ![s] = i]
                /\ run' = [run EXCEPT ![i] = Call("open", s, Null)]
                /\ Answer(s, Pending)
    BY <1>1 DEF OpenStart
  <2>2. /\ session[s] = "new" /\ UNCHANGED <<heap, content, sess_ctx, expected>>
        /\ instance[i] \in {"none", "live"}
    BY <1>1, <2>1 DEF OpenStart, Eligible, memory
  <2>4. CASE /\ session' = [session EXCEPT ![s] = "closed"]
             /\ Answer(s, Refused("busy"))
             /\ UNCHANGED <<instance, run, of>>
    <3>1. TypeOK'
      BY <1>0, <1>1, <2>2, <2>4 DEF Answer, TypeOK
    <3>2. Running' /\ Placed' /\ Unused' /\ DeadKnown'
      BY <1>0, <2>2, <2>4 DEF Answer, Running, Placed, Unused, DeadKnown
    <3>3. Usable' = Usable
      BY <2>2, <2>4 DEF Usable
    <3>4. ContextOwned' /\ NoContextLeak' /\ ContextKept'
      BY <1>0, <2>2, <2>4, <3>3 DEF ContextOwned, NoContextLeak, ContextKept
    <3> QED
      BY <3>1, <3>2, <3>4 DEF IInv
  <2>5. CASE /\ instance' = [instance EXCEPT ![i] = "live"]
             /\ session' = [session EXCEPT ![s] = "opening"]
             /\ of' = [of EXCEPT ![s] = i]
             /\ run' = [run EXCEPT ![i] = Call("open", s, Null)]
             /\ Answer(s, Pending)
    <3>1. TypeOK'
      <4>1. result' \in [Sessions -> Results]
        BY <1>0, <2>5 DEF Answer, TypeOK
      <4> QED
        BY <1>0, <1>1, <2>2, <2>5, <4>1, Zenon DEF TypeOK
    <3>2. Running'
      BY <1>0, <2>1, <2>2 DEF Running, TypeOK
    <3>3. Placed'
      <4>1. \A t \in Sessions : session[t] = "opening" => of[t] # i
        BY <1>0, <2>1 DEF Placed
      <4> QED
        BY <1>0, <2>5, <4>1 DEF Placed, TypeOK
    <3>4. Unused'
      BY <1>0, <2>2, <2>5 DEF Unused
    <3>5. DeadKnown'
      BY <1>0, <2>2, <2>5 DEF Answer, DeadKnown
    <3>6. Usable' = Usable
      <4>1. ASSUME NEW t \in Sessions, t # s, session[t] = "open"
            PROVE  instance'[of'[t]] = "live" <=> instance[of[t]] = "live"
        BY <1>0, <2>2, <2>5, <4>1 DEF Placed
      <4> QED
        BY <2>2, <2>5, <4>1 DEF Usable
    <3>7. \A t \in Usable : of'[t] = of[t] /\ t # s
      BY <2>2, <2>5 DEF Usable
    <3>8. ContextOwned' /\ ContextKept'
      BY <1>0, <2>2, <3>6, <3>7 DEF ContextOwned, ContextKept
    <3>9. NoContextLeak'
      <4>1. ASSUME NEW j \in Instances, instance'[j] = "live"
            PROVE  instance[j] = "live" \/ heap[j] = {}
        BY <1>0, <2>2, <2>5, <4>1 DEF Unused
      <4>2. heap' = heap /\ sess_ctx' = sess_ctx
        BY <2>2, Zenon
      <4> QED
        BY <1>0, <3>6, <3>7, <4>1, <4>2 DEF NoContextLeak
    <3> QED
      BY <3>1, <3>2, <3>3, <3>4, <3>5, <3>8, <3>9 DEF IInv
  <2> QED
    BY <2>1, <2>4, <2>5
<1>2. ASSUME NEW i \in Instances, OpenFails(i), UNCHANGED flags PROVE IInv'
  <2>1. /\ run[i] # Idle /\ run[i] \in Calls /\ instance[i] = "live"
        /\ run[i].sess \in Sessions /\ of[run[i].sess] = i
        /\ session[run[i].sess] =
             IF run[i].op = "open" THEN "opening" ELSE "open"
        /\ run[i].box # Null => run[i].box = sess_ctx[run[i].sess]
    BY <1>0, <1>2 DEF OpenFails, TypeOK, Running
  <2>c1. TypeOK'
    BY <1>0, <1>2 DEF OpenFails, Answer, Leave, memory, TypeOK
  <2>c2. Running'
    BY <1>0, <1>2 DEF OpenFails, Leave, Running, TypeOK
  <2>c3. Placed'
    BY <1>0, <1>2 DEF OpenFails, Leave, SessionsOf, Placed, TypeOK
  <2>c4. Unused'
    BY <1>0, <1>2 DEF OpenFails, Leave, memory, Unused
  <2>c5. DeadKnown'
    BY <1>0, <1>2, <2>1 DEF OpenFails, Answer, Leave, DeadKnown
  <2>c6. ContextOwned'
    BY <1>0, <1>2 DEF OpenFails, Leave, memory, ContextOwned, Usable
  <2>c7. NoContextLeak'
    BY <1>0, <1>2, <2>1 DEF OpenFails, Leave, memory, NoContextLeak, Usable
  <2>c8. ContextKept'
    BY <1>0, <1>2 DEF OpenFails, Leave, memory, ContextKept, Usable
  <2> QED
    BY <2>c1, <2>c2, <2>c3, <2>c4, <2>c5, <2>c6, <2>c7, <2>c8 DEF IInv
<1>3. ASSUME NEW i \in Instances, OpenSucceeds(i), UNCHANGED flags PROVE IInv'
  <2>1. /\ run[i] # Idle /\ run[i] \in Calls /\ instance[i] = "live"
        /\ run[i].sess \in Sessions /\ of[run[i].sess] = i
        /\ session[run[i].sess] =
             IF run[i].op = "open" THEN "opening" ELSE "open"
        /\ run[i].box # Null => run[i].box = sess_ctx[run[i].sess]
    BY <1>0, <1>3 DEF OpenSucceeds, TypeOK, Running
  <2>c1. TypeOK'
    BY <1>0, <1>3 DEF OpenSucceeds, Answer, Leave, TypeOK
  <2>c2. Running'
    BY <1>0, <1>3 DEF OpenSucceeds, Leave, Running, TypeOK
  <2>c3. Placed'
    BY <1>0, <1>3, <2>1 DEF OpenSucceeds, Leave, Placed, TypeOK
  <2>c4. Unused'
    BY <1>0, <1>3, <2>1 DEF OpenSucceeds, Leave, Unused
  <2>c5. DeadKnown'
    BY <1>0, <1>3, <2>1 DEF OpenSucceeds, Answer, Leave, DeadKnown
  <2>c6. ContextOwned'
    BY <1>0, <1>3, <2>1 DEF OpenSucceeds, Leave, ContextOwned, Usable, TypeOK
  <2>c7. NoContextLeak'
    <3>1. PICK a \in Addresses \ heap[i] :
            /\ heap' = [heap EXCEPT ![i] = @ \cup {a}]
            /\ sess_ctx' = [sess_ctx EXCEPT ![run[i].sess] = a]
      BY <1>3, Zenon DEF OpenSucceeds
    <3>2. /\ run[i].sess \in Usable' /\ of' = of /\ instance' = instance
          /\ \A t \in Usable : t \in Usable' /\ t # run[i].sess
      BY <1>0, <1>3, <2>1 DEF OpenSucceeds, Leave, Usable, TypeOK
    <3>3. \A t \in Usable : sess_ctx'[t] = sess_ctx[t]
      BY <3>1, <3>2
    <3>4. sess_ctx'[run[i].sess] = a
      BY <1>0, <2>1, <3>1 DEF TypeOK
    <3>5. \A j \in Instances :
            heap'[j] = IF j = i THEN heap[i] \cup {a} ELSE heap[j]
      BY <1>0, <3>1 DEF TypeOK
    <3> QED
      BY <1>0, <2>1, <3>2, <3>3, <3>4, <3>5 DEF NoContextLeak
  <2>c8. ContextKept'
    BY <1>0, <1>3, <2>1
       DEF OpenSucceeds, Leave, ContextKept, ContextOwned, Usable, TypeOK
  <2> QED
    BY <2>c1, <2>c2, <2>c3, <2>c4, <2>c5, <2>c6, <2>c7, <2>c8 DEF IInv
<1>4. ASSUME NEW s \in Sessions, InvokeStart(s), UNCHANGED flags PROVE IInv'
  <2>1. of[s] \in Instances /\ session[s] = "open"
    BY <1>0, <1>4, Zenon DEF InvokeStart, Placed
  <2>c1. TypeOK'
    <3>1. \E r \in Results : result' = [result EXCEPT ![s] = r]
      BY <1>4, Zenon DEF InvokeStart, Answer
    <3>2. result' \in [Sessions -> Results]
      BY <1>0, <3>1 DEF TypeOK
    <3>3. run' = run \/ \E c \in Calls : run' = [run EXCEPT ![of[s]] = c]
      BY <1>4, Zenon DEF InvokeStart
    <3>4. run' \in [Instances -> Calls \cup {Idle}]
      BY <1>0, <2>1, <3>3 DEF TypeOK
    <3> QED
      BY <1>0, <1>4, <3>2, <3>4, Zenon DEF InvokeStart, memory, TypeOK
  <2>c2. Running'
    BY <1>0, <1>4 DEF InvokeStart, Running, TypeOK
  <2>c3. Placed'
    <3>1. \A t \in Sessions :
            session[t] = "opening" => run[of[t]].op = "open" /\ of[t] \in Instances
      BY <1>0, Zenon DEF Placed
    <3>2. CASE instance[of[s]] = "panicked"
      BY <1>0, <1>4, <3>2 DEF InvokeStart, Placed
    <3>3. CASE instance[of[s]] = "live"
      <4>1. \A t \in Sessions : session[t] = "opening" => of[t] # of[s]
        BY <1>4, <3>1, <3>3 DEF InvokeStart
      <4> QED
        BY <1>0, <1>4, <4>1 DEF InvokeStart, Placed, TypeOK
    <3> QED
      BY <1>4, <3>2, <3>3, Zenon DEF InvokeStart
  <2>c4. Unused'
    BY <1>0, <1>4, Zenon DEF InvokeStart, memory, Unused
  <2>c5. DeadKnown'
    BY <1>0, <1>4 DEF InvokeStart, Answer, DeadKnown, TypeOK
  <2>c6. ContextOwned'
    BY <1>0, <1>4 DEF InvokeStart, memory, ContextOwned, Usable
  <2>c7. NoContextLeak'
    BY <1>0, <1>4 DEF InvokeStart, memory, NoContextLeak, Usable
  <2>c8. ContextKept'
    BY <1>0, <1>4, Zenon DEF InvokeStart, memory, ContextKept, Usable
  <2> QED
    BY <2>c1, <2>c2, <2>c3, <2>c4, <2>c5, <2>c6, <2>c7, <2>c8 DEF IInv
<1>5. ASSUME NEW i \in Instances, InvokeRefused(i), UNCHANGED flags PROVE IInv'
  <2>1. /\ run[i] # Idle /\ run[i] \in Calls /\ instance[i] = "live"
        /\ run[i].sess \in Sessions /\ of[run[i].sess] = i
        /\ session[run[i].sess] =
             IF run[i].op = "open" THEN "opening" ELSE "open"
        /\ run[i].box # Null => run[i].box = sess_ctx[run[i].sess]
    BY <1>0, <1>5 DEF InvokeRefused, TypeOK, Running
  <2>c1. TypeOK'
    <3>1. \E r \in Results : result' = [result EXCEPT ![run[i].sess] = r]
      BY <1>5, Zenon DEF InvokeRefused, Answer
    <3>2. result' \in [Sessions -> Results]
      BY <1>0, <2>1, <3>1 DEF TypeOK
    <3>3. instance' = instance /\ run' \in [Instances -> Calls \cup {Idle}]
      BY <1>0, <1>5 DEF InvokeRefused, Leave, TypeOK
    <3> QED
      BY <1>0, <1>5, <3>2, <3>3, Zenon DEF InvokeRefused, memory, TypeOK
  <2>c2. Running'
    BY <1>0, <1>5 DEF InvokeRefused, Leave, Running
  <2>c3. Placed'
    BY <1>0, <1>5 DEF InvokeRefused, Leave, Placed
  <2>c4. Unused'
    BY <1>0, <1>5 DEF InvokeRefused, Leave, memory, Unused
  <2>c5. DeadKnown'
    BY <1>0, <1>5 DEF InvokeRefused, Answer, Leave, DeadKnown, TypeOK
  <2>c6. ContextOwned'
    BY <1>0, <1>5 DEF InvokeRefused, Leave, memory, ContextOwned, Usable
  <2>c7. NoContextLeak'
    <3>1. Usable' = Usable /\ instance' = instance
      BY <1>0, <1>5 DEF InvokeRefused, Leave, Usable, TypeOK
    <3> QED
      BY <1>0, <1>5, <3>1 DEF InvokeRefused, memory, NoContextLeak
  <2>c8. ContextKept'
    BY <1>0, <1>5 DEF InvokeRefused, Leave, memory, ContextKept, Usable
  <2> QED
    BY <2>c1, <2>c2, <2>c3, <2>c4, <2>c5, <2>c6, <2>c7, <2>c8 DEF IInv
<1>6. ASSUME NEW i \in Instances, InvokeBorrow(i), UNCHANGED flags PROVE IInv'
  <2>1. /\ run[i] # Idle /\ run[i] \in Calls /\ instance[i] = "live"
        /\ run[i].sess \in Sessions /\ of[run[i].sess] = i
        /\ session[run[i].sess] =
             IF run[i].op = "open" THEN "opening" ELSE "open"
        /\ run[i].box # Null => run[i].box = sess_ctx[run[i].sess]
    BY <1>0, <1>6 DEF InvokeBorrow, TypeOK, Running
  <2>c1. TypeOK'
    <3>1. [run[i] EXCEPT !.box = sess_ctx[run[i].sess]] \in Calls
      BY <1>0, <2>1 DEF Calls, TypeOK
    <3>2. run' = [run EXCEPT ![i] = [run[i] EXCEPT !.box = sess_ctx[run[i].sess]]]
      BY <1>6 DEF InvokeBorrow
    <3>3. run' \in [Instances -> Calls \cup {Idle}]
      BY <1>0, <3>1, <3>2 DEF TypeOK
    <3> QED
      BY <1>0, <1>6, <3>3 DEF InvokeBorrow, memory, TypeOK
  <2>c2. Running'
    BY <1>0, <1>6 DEF InvokeBorrow, Running
  <2>c3. Placed'
    BY <1>0, <1>6 DEF InvokeBorrow, Placed
  <2>c4. Unused'
    BY <1>0, <1>6 DEF InvokeBorrow, memory, Unused
  <2>c5. DeadKnown'
    BY <1>0, <1>6 DEF InvokeBorrow, DeadKnown
  <2>c6. ContextOwned'
    BY <1>0, <1>6 DEF InvokeBorrow, memory, ContextOwned, Usable
  <2>c7. NoContextLeak'
    BY <1>0, <1>6 DEF InvokeBorrow, memory, NoContextLeak, Usable
  <2>c8. ContextKept'
    BY <1>0, <1>6 DEF InvokeBorrow, memory, ContextKept, Usable
  <2> QED
    BY <2>c1, <2>c2, <2>c3, <2>c4, <2>c5, <2>c6, <2>c7, <2>c8 DEF IInv
<1>7. ASSUME NEW i \in Instances, InvokeReturns(i), UNCHANGED flags PROVE IInv'
  <2>1. /\ run[i] # Idle /\ run[i] \in Calls /\ instance[i] = "live"
        /\ run[i].sess \in Sessions /\ of[run[i].sess] = i
        /\ session[run[i].sess] =
             IF run[i].op = "open" THEN "opening" ELSE "open"
        /\ run[i].box # Null => run[i].box = sess_ctx[run[i].sess]
    BY <1>0, <1>7 DEF InvokeReturns, TypeOK, Running
  <2>c1. TypeOK'
    BY <1>0, <1>7 DEF InvokeReturns, Answer, Leave, TypeOK
  <2>c2. Running'
    BY <1>0, <1>7 DEF InvokeReturns, Leave, Running
  <2>c3. Placed'
    BY <1>0, <1>7 DEF InvokeReturns, Leave, Placed
  <2>c4. Unused'
    BY <1>0, <1>7 DEF InvokeReturns, Leave, Unused
  <2>c5. DeadKnown'
    BY <1>0, <1>7 DEF InvokeReturns, Answer, Leave, DeadKnown
  <2>c6. ContextOwned'
    BY <1>0, <1>7 DEF InvokeReturns, Leave, ContextOwned, Usable
  <2>c7. NoContextLeak'
    BY <1>0, <1>7 DEF InvokeReturns, Leave, NoContextLeak, Usable
  <2>c8. ContextKept'
    BY <1>0, <1>7, <2>1
       DEF InvokeReturns, Leave, ContextKept, ContextOwned, Usable, TypeOK
  <2> QED
    BY <2>c1, <2>c2, <2>c3, <2>c4, <2>c5, <2>c6, <2>c7, <2>c8 DEF IInv
<1>8. ASSUME NEW s \in Sessions, CloseStart(s), UNCHANGED flags PROVE IInv'
  <2>1. of[s] \in Instances /\ session[s] = "open"
    BY <1>0, <1>8, Zenon DEF CloseStart, Placed
  <2>c1. TypeOK'
    <3>1. session' = session \/ session' = [session EXCEPT ![s] = "closed"]
      BY <1>8, Zenon DEF CloseStart
    <3>0. session \in [Sessions -> {"new", "opening", "open", "closed"}]
      BY <1>0, Zenon DEF TypeOK
    <3>2. session' \in [Sessions -> {"new", "opening", "open", "closed"}]
      BY <3>0, <3>1
    <3>3. run' = run \/ \E c \in Calls : run' = [run EXCEPT ![of[s]] = c]
      BY <1>8, Zenon DEF CloseStart
    <3>4. run' \in [Instances -> Calls \cup {Idle}]
      BY <1>0, <2>1, <3>3 DEF TypeOK
    <3> QED
      BY <1>0, <1>8, <3>2, <3>4, Zenon DEF CloseStart, memory, TypeOK
  <2>c2. Running'
    BY <1>0, <1>8 DEF CloseStart, Running, TypeOK
  <2>c3. Placed'
    <3>1. \A t \in Sessions :
            session[t] = "opening" => run[of[t]].op = "open" /\ of[t] \in Instances
      BY <1>0, Zenon DEF Placed
    <3>2. CASE instance[of[s]] = "panicked"
      BY <1>0, <1>8, <3>2 DEF CloseStart, Placed, TypeOK
    <3>3. CASE instance[of[s]] = "live"
      <4>1. \A t \in Sessions : session[t] = "opening" => of[t] # of[s]
        BY <1>8, <3>1, <3>3 DEF CloseStart
      <4> QED
        BY <1>0, <1>8, <4>1 DEF CloseStart, Placed, TypeOK
    <3> QED
      BY <1>8, <3>2, <3>3, Zenon DEF CloseStart
  <2>c4. Unused'
    BY <1>0, <1>8, Zenon DEF CloseStart, memory, Unused
  <2>c5. DeadKnown'
    BY <1>0, <1>8 DEF CloseStart, DeadKnown, TypeOK
  <2>c6. ContextOwned'
    BY <1>0, <1>8 DEF CloseStart, memory, ContextOwned, Usable, Running, TypeOK
  <2>c7. NoContextLeak'
    BY <1>0, <1>8 DEF CloseStart, memory, NoContextLeak, Usable, TypeOK
  <2>c8. ContextKept'
    BY <1>0, <1>8 DEF CloseStart, memory, ContextKept, Usable, TypeOK
  <2> QED
    BY <2>c1, <2>c2, <2>c3, <2>c4, <2>c5, <2>c6, <2>c7, <2>c8 DEF IInv
<1>9. ASSUME NEW i \in Instances, CloseReturns(i), UNCHANGED flags PROVE IInv'
  <2>1. /\ run[i] # Idle /\ run[i] \in Calls /\ instance[i] = "live"
        /\ run[i].sess \in Sessions /\ of[run[i].sess] = i
        /\ session[run[i].sess] =
             IF run[i].op = "open" THEN "opening" ELSE "open"
        /\ run[i].box # Null => run[i].box = sess_ctx[run[i].sess]
    BY <1>0, <1>9 DEF CloseReturns, TypeOK, Running
  <2>c1. TypeOK'
    BY <1>0, <1>9 DEF CloseReturns, Leave, TypeOK
  <2>c2. Running'
    BY <1>0, <1>9 DEF CloseReturns, Leave, Running, TypeOK
  <2>c3. Placed'
    BY <1>0, <1>9 DEF CloseReturns, Leave, SessionsOf, Placed, TypeOK
  <2>c4. Unused'
    BY <1>0, <1>9 DEF CloseReturns, Leave, Unused
  <2>c5. DeadKnown'
    BY <1>0, <1>9, <2>1 DEF CloseReturns, Leave, DeadKnown
  <2>2. /\ heap'[i] = heap[i] \ {sess_ctx[run[i].sess]}
        /\ \A j \in Instances : j # i => heap'[j] = heap[j]
        /\ of' = of /\ sess_ctx' = sess_ctx
        /\ content' = content /\ expected' = expected
    BY <1>0, <1>9 DEF CloseReturns, TypeOK
  <2>3. \A j \in Instances : instance'[j] = "live" => instance[j] = "live"
    BY <1>0, <1>9 DEF CloseReturns, Leave, TypeOK
  <2>4. /\ session'[run[i].sess] = "closed"
        /\ \A t \in Sessions : t # run[i].sess => session'[t] = session[t]
    BY <1>0, <1>9, <2>1 DEF CloseReturns, TypeOK
  <2>5. \A t \in Usable : of[t] \in Instances
    BY <1>0, Zenon DEF Usable, Placed
  <2>6. \A t \in Usable' : t \in Usable /\ t # run[i].sess
    <3>1. \A t \in Sessions : session[t] = "open" => of[t] \in Instances
      BY <1>0, Zenon DEF Placed
    <3> QED
      BY <2>2, <2>3, <2>4, <3>1 DEF Usable
  <2>c6. ContextOwned'
    <3>1. run[i].sess \in Usable
      BY <1>9, <2>1, Zenon DEF CloseReturns, Usable
    <3>2. ASSUME NEW t \in Usable' PROVE sess_ctx'[t] \in heap'[of'[t]]
      <4>1. /\ t \in Usable /\ t # run[i].sess /\ of[t] \in Instances
            /\ sess_ctx[t] \in heap[of[t]]
        BY <1>0, <2>5, <2>6, Zenon DEF ContextOwned
      <4>2. CASE of[t] = i
        BY <1>0, <2>1, <2>2, <3>1, <4>1, <4>2 DEF ContextOwned
      <4>3. CASE of[t] # i
        BY <2>2, <4>1, <4>3, Zenon
      <4> QED
        BY <4>2, <4>3, Zenon
    <3> QED
      BY <1>0, <2>2, <2>6, <3>2 DEF ContextOwned
  <2>c7. NoContextLeak'
    <3>1. ASSUME NEW j \in Instances, instance'[j] = "live", NEW a \in heap'[j]
          PROVE  \E t \in Usable' : of[t] = j /\ sess_ctx[t] = a
      <4>1. instance[j] = "live" /\ a \in heap[j]
        BY <2>2, <2>3, <3>1, Zenon
      <4>2. PICK t \in Usable : of[t] = j /\ sess_ctx[t] = a
        BY <1>0, <4>1 DEF NoContextLeak
      <4>3. t # run[i].sess
        BY <2>1, <2>2, <3>1, <4>2
      <4>4. t \in Usable'
        BY <2>2, <2>4, <3>1, <4>2, <4>3, Zenon DEF Usable
      <4> QED
        BY <4>2, <4>4, Zenon
    <3> QED
      BY <2>2, <3>1 DEF NoContextLeak
  <2>c8. ContextKept'
    BY <1>0, <2>2, <2>6, Zenon DEF ContextKept
  <2> QED
    BY <2>c1, <2>c2, <2>c3, <2>c4, <2>c5, <2>c6, <2>c7, <2>c8 DEF IInv
<1>10. ASSUME NEW i \in Instances, Panic(i), UNCHANGED flags PROVE IInv'
  <2>1. /\ run[i] # Idle /\ run[i] \in Calls /\ instance[i] = "live"
        /\ run[i].sess \in Sessions /\ of[run[i].sess] = i
        /\ session[run[i].sess] =
             IF run[i].op = "open" THEN "opening" ELSE "open"
        /\ run[i].box # Null => run[i].box = sess_ctx[run[i].sess]
    BY <1>0, <1>10 DEF Panic, TypeOK, Running
  <2>c1. TypeOK'
    BY <1>0, <1>10 DEF Panic, Answer, TypeOK
  <2>c2. Running'
    BY <1>0, <1>10 DEF Panic, Running, TypeOK
  <2>c3. Placed'
    BY <1>0, <1>10 DEF Panic, Placed, TypeOK
  <2>c4. Unused'
    BY <1>0, <1>10 DEF Panic, Unused
  <2>c5. DeadKnown'
    BY <1>0, <1>10, <2>1 DEF Panic, Answer, DeadKnown, TypeOK
  <2>c6. ContextOwned'
    BY <1>0, <1>10 DEF Panic, ContextOwned, Usable, TypeOK
  <2>c7. NoContextLeak'
    <3>1. \A j \in Instances : instance'[j] = "live" =>
            j # i /\ instance[j] = "live" /\ heap'[j] = heap[j]
      BY <1>0, <1>10 DEF Panic, TypeOK
    <3>2. \A t \in Usable : of[t] # i => t \in Usable'
      BY <1>10, <2>1 DEF Panic, Usable
    <3> QED
      BY <1>0, <1>10, <3>1, <3>2 DEF Panic, NoContextLeak
  <2>c8. ContextKept'
    BY <1>0, <1>10 DEF Panic, ContextKept, Usable
  <2> QED
    BY <2>c1, <2>c2, <2>c3, <2>c4, <2>c5, <2>c6, <2>c7, <2>c8 DEF IInv
<1>11. CASE UNCHANGED vars
  <2>1. TypeOK' /\ Placed' /\ Unused' /\ DeadKnown'
    BY <1>0, <1>11 DEF vars, TypeOK, Placed, Unused, DeadKnown
  <2>2. Running'
    BY <1>0, <1>11, Zenon DEF vars, Running
  <2>3. ContextOwned' /\ NoContextLeak' /\ ContextKept'
    <3>1. Usable' = Usable
      BY <1>11, Zenon DEF vars, Usable
    <3>2. ContextOwned' /\ ContextKept'
      BY <1>0, <1>11, <3>1 DEF vars, ContextOwned, ContextKept
    <3>3. NoContextLeak'
      BY <1>0, <1>11, <3>1 DEF vars, NoContextLeak
    <3> QED
      BY <3>2, <3>3, Zenon
  <2> QED
    BY <2>1, <2>2, <2>3, Zenon DEF IInv
<1> QED
  BY <1>1, <1>2, <1>3, <1>4, <1>5, <1>6, <1>7, <1>8, <1>9, <1>10, <1>11
     DEF Next, EntryPoint

-----------------------------------------------------------------------------
(* The invariant of the TA holds in every reachable state. *)
LEMMA Inductive == Spec => []IInv
BY InitIInv, InductiveStep, PTL DEF Spec

(* TypeOK holds in every reachable state: the tables of the core and the   *)
(* heap of the TA keep their shape through every entry point.              *)
THEOREM TypeCorrect == Spec => []TypeOK
<1>1. IInv => TypeOK
  BY DEF IInv
<1> QED
  BY Inductive, <1>1, PTL

(* However the commands of any number of sessions are interleaved, fail or *)
(* panic: the pointer that ta_invoke_command and ta_close_session turn     *)
(* back into a Box points to a live Box of that session alone, no Box      *)
(* stays behind, and the session finds in it what its own calls left.      *)
THEOREM ContextSafe == Spec => [](ContextOwned /\ NoContextLeak /\ ContextKept)
<1>1. IInv => ContextOwned /\ NoContextLeak /\ ContextKept
  BY DEF IInv
<1> QED
  BY Inductive, <1>1, PTL

(* In particular, no Box that ta_open_session made is left behind when its *)
(* session is gone ...                                                     *)
THEOREM NothingLeaked == Spec => []NoContextLeak
BY ContextSafe, PTL

(* ... and ta_invoke_command finds in it what that session left there.     *)
THEOREM ContextsKept == Spec => []ContextKept
BY ContextSafe, PTL

(* The answer of a session that was told its target is dead is final.      *)
LEMMA DeadStep ==
  IInv /\ [Next]_vars =>
    [\A s \in Sessions : result[s] = Refused("target_dead")
                            => result'[s] = result[s]]_vars
<1> SUFFICES ASSUME IInv, Next,
                    NEW s \in Sessions, result[s] = Refused("target_dead")
             PROVE  result'[s] = result[s]
  OBVIOUS
<1>1. /\ TypeOK /\ Running
      /\ \/ session[s] = "closed"
         \/ session[s] = "open" /\ instance[of[s]] = "panicked"
  BY DEF IInv, DeadKnown
<1>2. \A i \in Instances : run[i] = Idle \/ run[i].sess # s
  BY <1>1 DEF Running
<1>3. ASSUME NEW t \in Sessions, OpenStart(t) \/ InvokeStart(t) \/ CloseStart(t)
      PROVE  result'[s] = result[s]
  BY <1>1, <1>3 DEF OpenStart, InvokeStart, CloseStart, Answer, TypeOK
<1>4. ASSUME NEW i \in Instances, EntryPoint(i)
      PROVE  result'[s] = result[s]
  <2>1. run[i].sess # s
    BY <1>2, <1>4, CallFacts, Zenon
       DEF EntryPoint, OpenFails, OpenSucceeds, InvokeRefused, InvokeBorrow,
         InvokeReturns, CloseReturns, Panic
  <2>2. result' = result \/ \E r : result' = [result EXCEPT ![run[i].sess] = r]
    BY <1>4, Zenon DEF EntryPoint, OpenFails, OpenSucceeds, InvokeRefused, InvokeBorrow,
      InvokeReturns, CloseReturns, Panic, Answer
  <2>3. result \in [Sessions -> Results]
    BY <1>1 DEF TypeOK
  <2> QED
    BY <2>1, <2>2, <2>3
<1> QED
  BY <1>3, <1>4, Zenon DEF Next

(* A session whose call ended with TARGET_DEAD from the TEE never gets     *)
(* another answer, whatever new instances of the TA are started: the       *)
(* connection of the client_pool example that has seen it stays useless.   *)
THEOREM DeadStaysDead == Spec => DeadForGood
BY Inductive, DeadStep, PTL DEF Spec, DeadForGood

-----------------------------------------------------------------------------
(* TeeSystem: a client and a TA, and the calls between them. *)

CP == INSTANCE TeecClientProofs WITH of <- ctx_of, Free <- None

(* Where a thread waits for a call into the TEE. *)
Calling == {"open", "invoke", "close"}

(* A call is in progress exactly while a thread waits for it, and running  *)
(* exactly while an instance executes it.                                  *)
Matched(s) ==
  /\ call[s] # "none" => \E t \in Threads : pc[t].sess = s /\ pc[t].at \in Calling
  /\ call[s] = "none" => \A t \in Threads : pc[t].sess = s => pc[t].at \notin Calling
  /\ call[s] = "running" <=> \E i \in Instances : run[i].sess = s

CallsMatch == \A s \in Sessions : Matched(s)

(* Between the calls on it a session is in neither world half open. *)
Settled ==
  \A s \in Sessions : call[s] = "none" =>
    session[s] # "opening" /\ (raw[s] = "open" <=> session[s] = "open")

(* What a thread that waits for a call can expect of the session. *)
Expects(t) ==
  LET s == pc[t].sess
  IN /\ pc[t].at = "open" =>
          /\ call[s] = "requested" => session[s] \in {"new", "closed"}
          /\ call[s] = "answered" =>
               /\ session[s] \in {"open", "closed"}
               /\ session[s] = "open" <=> result[s].code = "ok"
     /\ pc[t].at \in {"invoke", "close"} /\ call[s] = "requested" => session[s] = "open"
     /\ pc[t].at = "invoke" /\ call[s] = "answered" => session[s] = "open"
     /\ pc[t].at = "close" /\ call[s] = "answered" => session[s] = "closed"
     /\ pc[t].at \in Calling =>
          \A i \in Instances : run[i].sess = s => run[i].op = pc[t].at

(* A live instance that is not kept alive has a session. *)
Occupied ==
  \A i \in Instances : instance[i] = "live" => KeepAlive \/ SessionsOf(i) # {}

(* A session that was never opened has no context yet. *)
Unopened == \A s \in Sessions : raw[s] = "none" => ctx_of[s] = None

SysInv ==
  /\ call \in [Sessions -> {"none", "requested", "running", "answered"}]
  /\ CallsMatch /\ Settled /\ Unopened /\ \A t \in Threads : Expects(t)

SystemIInv == IInv /\ CP!IInv /\ Occupied /\ SysInv

-----------------------------------------------------------------------------
(* Every step of the system is one of the TA, of the client, or of both. *)
LEMMA TaInit == SystemInit => Init
BY DEF SystemInit

(* ... seen from the TA, *)
LEMMA TaStep == ASSUME [SystemNext]_systemVars PROVE [Next]_vars
<1>1. ASSUME NEW t \in Threads, Local(t) \/ Finish(t) \/ Request(t) \/ Response(t)
      PROVE  UNCHANGED vars
  BY <1>1, Zenon DEF Local, Finish, Request, Response
<1>2. ASSUME NEW s \in Sessions, Dispatch(s)
      PROVE  Next
  BY <1>2, Zenon DEF Dispatch, Next
<1>3. ASSUME NEW i \in Instances, Execute(i)
      PROVE  Next
  BY <1>3, Zenon DEF Execute, Next
<1>4. CASE UNCHANGED systemVars
  BY <1>4 DEF systemVars
<1> QED  BY <1>1, <1>2, <1>3, <1>4 DEF SystemNext

(* The same for the client: *)
LEMMA ClientInit == SystemInit => CP!Init
BY Zenon DEF SystemInit, CA!Init, CP!Init, CA!Values, CP!Values, CA!Idle, CP!Idle

(* its constants are as it assumes them, *)
LEMMA ClientConstants == CP!ConstantsAssumption
BY ClientAssumption DEF CA!ConstantsAssumption, CP!ConstantsAssumption

(* and the steps of a thread by itself, *)
LEMMA LocalStep ==
  ASSUME NEW t \in Threads, Local(t)
  PROVE  CP!Next
<1> USE DEF CA!Idle, CP!Idle, CA!Goto, CP!Goto, CA!At, CP!At
<1>1. ASSUME NEW c \in Contexts, CA!New(t, c)
      PROVE  CP!New(t, c)
  BY <1>1, Zenon DEF CA!New, CP!New
<1>2. ASSUME NEW c \in Contexts, CA!DropContext(t, c)
      PROVE  CP!DropContext(t, c)
  BY <1>2, Zenon DEF CA!DropContext, CP!DropContext, CA!DropArc, CP!DropArc, CA!Return, CP!Return
<1>3. ASSUME NEW c \in Contexts, NEW s \in Sessions, CA!OpenBegin(t, c, s)
      PROVE  CP!OpenBegin(t, c, s)
  BY <1>3, Zenon DEF CA!OpenBegin, CP!OpenBegin
<1>4. ASSUME NEW u \in Threads, NEW v \in CA!Values, CA!Move(t, u, v)
      PROVE  v \in CP!Values /\ CP!Move(t, u, v)
  BY <1>4, Zenon DEF CA!Move, CP!Move, CA!Values, CP!Values
<1> QED  BY <1>1, <1>2, <1>3, <1>4, Zenon DEF Local, CP!Next

(* at the end of a function of the library, *)
LEMMA FinishStep ==
  ASSUME NEW t \in Threads, Finish(t)
  PROVE  CP!Next
<1> USE DEF CA!Idle, CP!Idle, CA!Goto, CP!Goto, CA!At, CP!At, CA!Return, CP!Return
<1>1. CA!Release(t) => CP!Release(t)
  BY Zenon DEF CA!Release, CP!Release, CA!DropArc, CP!DropArc
<1>2. CA!DropCtx(t) => CP!DropCtx(t)
  BY Zenon DEF CA!DropCtx, CP!DropCtx, CA!DropArc, CP!DropArc
<1>3. CA!Finalize(t) => CP!Finalize(t)
  BY Zenon DEF CA!Finalize, CP!Finalize
<1> QED  BY <1>1, <1>2, <1>3, Zenon DEF Finish, CP!Next, CP!Step

(* into the TEE *)
LEMMA RequestStep ==
  ASSUME NEW t \in Threads, Request(t)
  PROVE  CP!Next
<1> USE DEF CA!Idle, CP!Idle, CA!Goto, CP!Goto, CA!At, CP!At
<1>1. CA!Lock(t) => CP!Lock(t)
  BY Zenon DEF CA!Lock, CP!Lock
<1>2. ASSUME NEW s \in Sessions
      PROVE  /\ CA!InvokeBegin(t, s) => CP!InvokeBegin(t, s)
             /\ CA!CloseBegin(t, s) => CP!CloseBegin(t, s)
  BY Zenon DEF CA!InvokeBegin, CP!InvokeBegin, CA!CloseBegin, CP!CloseBegin
<1> QED  BY <1>1, <1>2, Zenon DEF Request, CP!Next, CP!Step

(* and back are its own. *)
LEMMA ResponseStep ==
  ASSUME NEW t \in Threads, Response(t)
  PROVE  CP!Next
<1> USE DEF CA!Idle, CP!Idle, CA!Goto, CP!Goto, CA!At, CP!At, CA!Return, CP!Return
<1>1. CA!OpenSucceeds(t) => CP!OpenSucceeds(t)
  BY Zenon DEF CA!OpenSucceeds, CP!OpenSucceeds
<1>2. CA!OpenFails(t) => CP!OpenFails(t)
  BY Zenon DEF CA!OpenFails, CP!OpenFails
<1>3. CA!InvokeReturns(t) => CP!InvokeReturns(t)
  BY Zenon DEF CA!InvokeReturns, CP!InvokeReturns
<1>4. CA!CloseReturns(t) => CP!CloseReturns(t)
  BY Zenon DEF CA!CloseReturns, CP!CloseReturns
<1> QED  BY <1>1, <1>2, <1>3, <1>4, Zenon DEF Response, OpenResponse, CP!Next, CP!Step

(* So every step is one of the client, or none. *)
LEMMA ClientStep == ASSUME [SystemNext]_systemVars PROVE [CP!Next]_(CP!vars)
<1>1. ASSUME NEW s \in Sessions, Dispatch(s)
      PROVE  UNCHANGED CP!vars
  BY <1>1, Zenon DEF Dispatch, clientVars, CP!vars
<1>2. ASSUME NEW i \in Instances, Execute(i)
      PROVE  UNCHANGED CP!vars
  BY <1>2, Zenon DEF Execute, clientVars, CP!vars
<1>3. CASE UNCHANGED systemVars
  BY <1>3 DEF systemVars, clientVars, CP!vars
<1> QED  BY <1>1, <1>2, <1>3, LocalStep, FinishStep, RequestStep, ResponseStep, Zenon DEF SystemNext

(* Both invariants are preserved. *)
LEMMA BothKept ==
  ASSUME IInv, CP!IInv, [SystemNext]_systemVars
  PROVE  IInv' /\ CP!IInv'
<1>1. IInv'
  BY TaStep, InductiveStep
<1>2. CP!IInv'
  BY ClientStep, ClientConstants, CP!InductiveStep
<1> QED  BY <1>1, <1>2

-----------------------------------------------------------------------------
(* What the client's invariant says of the threads that wait for a call. *)
ClientSays ==
  /\ pc = [t \in Threads |-> pc[t]]
  /\ raw = [s \in Sessions |-> raw[s]] /\ ctx_of = [s \in Sessions |-> ctx_of[s]]
  /\ \A t \in Threads : pc[t].at \in Calling =>
       pc[t].sess \in Sessions /\ pc[t].ctx \in Contexts
  /\ \A t \in Threads : pc[t].at = "open" => raw[pc[t].sess] = "none"
  /\ \A t \in Threads : pc[t].at \in {"invoke", "close"} => raw[pc[t].sess] = "open"
  /\ \A t, u \in Threads : t # u /\ pc[t].sess # None => pc[t].sess # pc[u].sess
  /\ \A s \in Sessions : owner[s] # None => raw[s] = "open"
  /\ \A s \in Sessions : raw[s] = "open" =>
       owner[s] # None \/ \E t \in Threads : pc[t].at = "close" /\ pc[t].sess = s

(* It does, *)
LEMMA ClientFacts == CP!IInv => ClientSays
<1> SUFFICES ASSUME CP!IInv PROVE ClientSays
  OBVIOUS
<1>1. /\ CP!TypeOK /\ CP!Owned /\ CP!Using /\ CP!Apart /\ CP!NoSessionLost
  BY DEF CP!IInv
<1>2. /\ pc = [t \in Threads |-> pc[t]]
      /\ raw = [s \in Sessions |-> raw[s]] /\ ctx_of = [s \in Sessions |-> ctx_of[s]]
  BY <1>1 DEF CP!TypeOK
<1>3. ASSUME NEW t \in Threads, pc[t].at \in Calling
      PROVE  /\ pc[t].sess \in Sessions /\ pc[t].ctx \in Contexts
             /\ pc[t].at = "open" => raw[pc[t].sess] = "none"
             /\ pc[t].at \in {"invoke", "close"} => raw[pc[t].sess] = "open"
  <2>1. pc[t] \in CP!Places /\ CP!Knows(t)
    BY <1>1, Zenon DEF CP!TypeOK, CP!Using
  <2>2. pc[t] # CP!Idle
    BY <1>3 DEF Calling, CP!Idle
  <2>3. pc[t].ctx \in Contexts
    BY <2>1, <2>2, Zenon DEF CP!Places
  <2>4. None \notin Threads
    BY ClientConstants DEF CP!ConstantsAssumption
  <2> QED  BY <1>1, <1>3, <2>1, <2>3, <2>4, Zenon DEF CP!Knows, CP!Owned, Calling
<1> QED  BY <1>1, <1>2, <1>3, Zenon DEF ClientSays, CP!Owned, CP!Apart, CP!NoSessionLost, Calling

(* also after a step. *)
LEMMA ClientFactsNext == CP!IInv' => ClientSays'
BY ClientFacts, PTL

(* Steps of a thread that leave the calls alone. *)
LEMMA QuietFacts ==
  ASSUME CP!IInv, NEW t \in Threads, Local(t) \/ Finish(t)
  PROVE  /\ UNCHANGED <<raw, ctx_of, call>> /\ UNCHANGED vars
         /\ \A u \in Threads : u # t => pc'[u] = pc[u]
         /\ pc[t].at \notin Calling /\ pc'[t].at \notin Calling
<1>1. pc = [u \in Threads |-> pc[u]]
  BY ClientFacts, Zenon DEF ClientSays
<1>2. UNCHANGED <<raw, ctx_of, call>> /\ UNCHANGED vars
  BY Zenon DEF Local, Finish, CA!New, CA!DropContext, CA!OpenBegin, CA!Move, CA!Release,
         CA!DropCtx, CA!Finalize
<1>3. CASE Local(t)
  <2>1. pc[t] = CA!Idle
    BY <1>3, Zenon DEF Local, CA!New, CA!DropContext, CA!OpenBegin, CA!Move
  <2>2. \/ pc' = pc
        \/ pc' = [pc EXCEPT ![t] = CA!Idle]
        \/ \E c \in Contexts : pc' = [pc EXCEPT ![t] = CA!At("finalize", c, None)]
        \/ \E c \in Contexts, s \in Sessions : pc' = [pc EXCEPT ![t] = CA!At("lock", c, s)]
    BY <1>3, Zenon DEF Local, CA!New, CA!DropContext, CA!OpenBegin, CA!Move, CA!DropArc, CA!Return,
                CA!Goto
  <2> USE DEF CA!Idle, CA!At
  <2> QED  BY <1>1, <1>2, <2>1, <2>2 DEF Calling
<1>4. CASE Finish(t)
  <2>1. pc[t].at \in {"release", "drop_ctx", "finalize"}
    BY <1>4, Zenon DEF Finish, CA!Release, CA!DropCtx, CA!Finalize
  <2>2. \/ pc' = [pc EXCEPT ![t] = CA!Idle]
        \/ pc' = [pc EXCEPT ![t] = CA!At("finalize", pc[t].ctx, None)]
    BY <1>4, Zenon DEF Finish, CA!Release, CA!DropCtx, CA!Finalize, CA!DropArc, CA!Return, CA!Goto
  <2> USE DEF CA!Idle, CA!At
  <2> QED  BY <1>1, <1>2, <2>1, <2>2 DEF Calling
<1> QED  BY <1>3, <1>4, Zenon

(* A call begins: the thread waits for it, on a session nobody else uses. *)
LEMMA RequestFacts ==
  ASSUME CP!IInv, CP!IInv', CallsMatch, NEW t \in Threads, Request(t)
  PROVE  \E s \in Sessions :
           /\ UNCHANGED <<raw, ctx_of>> /\ UNCHANGED vars
           /\ call' = [call EXCEPT ![s] = "requested"]
           /\ \A u \in Threads : u # t => pc'[u] = pc[u]
           /\ pc[t].at \notin Calling /\ pc'[t].at \in Calling /\ pc'[t].sess = s
           /\ call[s] = "none"
<1> USE DEF CA!Goto, CA!Return, CA!At, CA!Idle
<1>1. pc = [u \in Threads |-> pc[u]]
  BY ClientFacts, Zenon DEF ClientSays
<1>2. UNCHANGED <<raw, ctx_of>> /\ UNCHANGED vars
  BY Zenon DEF Request, CA!Lock, CA!InvokeBegin, CA!CloseBegin
<1>3. PICK s, x : /\ call' = [call EXCEPT ![s] = "requested"]
                  /\ pc' = [pc EXCEPT ![t] = x] /\ x.at \in Calling /\ x.sess = s
  BY Zenon DEF Request, SetCall, CA!Lock, CA!InvokeBegin, CA!CloseBegin, Calling
<1>4. pc[t].at \notin Calling
  BY DEF Request, CA!Lock, CA!InvokeBegin, CA!CloseBegin, Calling
<1>5. /\ \A u \in Threads : u # t => pc'[u] = pc[u]
      /\ pc'[t].at \in Calling /\ pc'[t].sess = s
  BY <1>1, <1>3
<1>6. s \in Sessions /\ s # None
  <2>1. \A u \in Threads : (pc'[u].at \in Calling => pc'[u].sess \in Sessions)
    BY ClientFactsNext, Zenon DEF ClientSays
  <2> QED  BY <1>5, <2>1, NoneAssumption, Zenon
<1>7. call[s] = "none"
  <2> SUFFICES ASSUME call[s] # "none" PROVE FALSE
    OBVIOUS
  <2>1. PICK u \in Threads : pc[u].sess = s /\ pc[u].at \in Calling
    BY <1>6, Zenon DEF CallsMatch, Matched
  <2>2. u # t /\ pc'[u].sess = s
    BY <1>4, <1>5, <2>1, Zenon
  <2>3. \A v, w \in Threads : v # w /\ pc'[v].sess # None => pc'[v].sess # pc'[w].sess
    BY ClientFactsNext, Zenon DEF ClientSays
  <2> QED  BY <1>5, <1>6, <2>2, <2>3, Zenon
<1> QED  BY <1>2, <1>3, <1>4, <1>5, <1>6, <1>7, Zenon

(* A call returns to its thread, which learns what became of the session. *)
LEMMA ResponseFacts ==
  ASSUME CP!IInv, NEW t \in Threads, Response(t)
  PROVE  LET s == pc[t].sess
         IN /\ s \in Sessions /\ call[s] = "answered" /\ UNCHANGED vars
            /\ call' = [call EXCEPT ![s] = "none"]
            /\ pc[t].at \in Calling /\ pc'[t].at \notin Calling
            /\ \A u \in Threads : u # t => pc'[u] = pc[u]
            /\ \A u \in Sessions : u # s => raw'[u] = raw[u] /\ ctx_of'[u] = ctx_of[u]
            /\ pc[t].at = "open" => IF result[s].code = "ok" THEN raw'[s] = "open"
                                    ELSE raw'[s] = raw[s] /\ ctx_of'[s] = ctx_of[s]
            /\ pc[t].at = "invoke" => raw'[s] = raw[s] /\ ctx_of'[s] = ctx_of[s]
            /\ pc[t].at = "close" => raw'[s] = "closed"
<1> DEFINE s == pc[t].sess
<1>1. /\ pc = [u \in Threads |-> pc[u]]
      /\ raw = [u \in Sessions |-> raw[u]] /\ ctx_of = [u \in Sessions |-> ctx_of[u]]
      /\ pc[t].at \in Calling => s \in Sessions
  BY ClientFacts, Zenon DEF ClientSays
<1>2. /\ call[s] = "answered" /\ UNCHANGED vars /\ call' = [call EXCEPT ![s] = "none"]
      /\ OpenResponse(t) \/ CA!InvokeReturns(t) \/ CA!CloseReturns(t)
  BY DEF Response, SetCall
<1>3. CASE OpenResponse(t)
  <2>1. pc[t].at = "open"
    BY <1>3, Zenon DEF OpenResponse
  <2>2. CASE result[s].code = "ok"
    <3>1. /\ raw' = [raw EXCEPT ![s] = "open"] /\ ctx_of' = [ctx_of EXCEPT ![s] = pc[t].ctx]
          /\ pc' = [pc EXCEPT ![t] = CA!At("release", pc[t].ctx, s)]
      BY <1>3, <2>2, Zenon DEF OpenResponse, CA!OpenSucceeds, CA!Goto
    <3> QED  BY <1>1, <1>2, <2>1, <2>2, <3>1, Zenon DEF CA!At, Calling
  <2>3. CASE result[s].code # "ok"
    <3>1. /\ UNCHANGED <<raw, ctx_of>>
          /\ pc' = [pc EXCEPT ![t] = CA!At("release", pc[t].ctx, None)]
      BY <1>3, <2>3, Zenon DEF OpenResponse, CA!OpenFails, CA!Goto
    <3> QED  BY <1>1, <1>2, <2>1, <2>3, <3>1, Zenon DEF CA!At, Calling
  <2> QED  BY <2>2, <2>3, Zenon
<1>4. CASE CA!InvokeReturns(t)
  <2>1. /\ pc[t].at = "invoke" /\ UNCHANGED <<raw, ctx_of>>
        /\ pc' = [pc EXCEPT ![t] = CA!Idle]
    BY <1>4 DEF CA!InvokeReturns, CA!Return
  <2> QED  BY <1>1, <1>2, <2>1, Zenon DEF CA!Idle, Calling
<1>5. CASE CA!CloseReturns(t)
  <2>1. /\ pc[t].at = "close" /\ raw' = [raw EXCEPT ![s] = "closed"] /\ UNCHANGED ctx_of
        /\ pc' = [pc EXCEPT ![t] = CA!At("drop_ctx", ctx_of[s], s)]
    BY <1>5, Zenon DEF CA!CloseReturns, CA!Goto
  <2> QED  BY <1>1, <1>2, <2>1, Zenon DEF CA!At, Calling
<1> QED  BY <1>2, <1>3, <1>4, <1>5, Zenon

(* An entry point takes a step: only its session is concerned. *)
LEMMA EntryPointFacts ==
  ASSUME IInv, NEW i \in Instances, EntryPoint(i)
  PROVE  LET s == run[i].sess
         IN /\ s \in Sessions /\ run[i].op \in Calling
            /\ \A u \in Sessions : u # s => session'[u] = session[u] /\ result'[u] = result[u]
            /\ \A j \in Instances : j # i => run'[j] = run[j]
            /\ \/ /\ run'[i] # Idle /\ run'[i].sess = s /\ run'[i].op = run[i].op
                  /\ session' = session
               \/ /\ run'[i] = Idle
                  /\ run[i].op = "open" =>
                       /\ session'[s] \in {"open", "closed"}
                       /\ session'[s] = "open" <=> result'[s].code = "ok"
                  /\ run[i].op = "invoke" => session'[s] = session[s]
                  /\ run[i].op = "close" => session'[s] = "closed"
<1> DEFINE s == run[i].sess
<1>1. /\ run \in [Instances -> Calls \cup {Idle}] /\ result = [u \in Sessions |-> result[u]]
      /\ session = [u \in Sessions |-> session[u]]
  BY Zenon DEF IInv, TypeOK
<1>2. run[i] # Idle
  <2>1. Idle.op = "idle"
    BY Zenon DEF Idle
  <2> QED  BY <2>1, Zenon DEF EntryPoint, OpenFails, OpenSucceeds, InvokeRefused, InvokeBorrow,
                       InvokeReturns, CloseReturns, Panic
<1>3. s \in Sessions /\ run[i].op \in Calling
  BY <1>1, <1>2, Zenon DEF Calls, Calling
<1>4. Ok.code = "ok" /\ Refused("target_dead").code # "ok" /\ \A r \in TaErrors : r.code # "ok"
  BY Zenon DEF Ok, Refused, TaErrors
<1> HIDE DEF s
<1>5. CASE OpenFails(i)
  <2>1. /\ run[i].op = "open" /\ session' = [session EXCEPT ![s] = "closed"]
        /\ \E r \in TaErrors : result' = [result EXCEPT ![s] = r]
        /\ run' = [run EXCEPT ![i] = Idle]
    BY <1>5, Zenon DEF OpenFails, Answer, Leave, s
  <2> QED  BY <1>1, <1>3, <1>4, <2>1, Zenon DEF s
<1>6. CASE OpenSucceeds(i)
  <2>1. /\ run[i].op = "open" /\ session' = [session EXCEPT ![s] = "open"]
        /\ result' = [result EXCEPT ![s] = Ok] /\ run' = [run EXCEPT ![i] = Idle]
    BY <1>6, Zenon DEF OpenSucceeds, Answer, Leave, s
  <2> QED  BY <1>1, <1>3, <1>4, <2>1, Zenon DEF s
<1>7. CASE InvokeRefused(i) \/ InvokeReturns(i)
  <2>1. /\ run[i].op = "invoke" /\ session' = session
        /\ \E r : result' = [result EXCEPT ![s] = r]
        /\ run' = [run EXCEPT ![i] = Idle]
    BY <1>7, Zenon DEF InvokeRefused, InvokeReturns, Answer, Leave, s
  <2> QED  BY <1>1, <1>3, <2>1, Zenon DEF s
<1>8. CASE InvokeBorrow(i)
  <2>1. /\ run' = [run EXCEPT ![i].box = sess_ctx[s]] /\ UNCHANGED <<session, result>>
    BY <1>8 DEF InvokeBorrow, s
  <2>2. run[i] \in Calls
    BY <1>1, <1>2
  <2>3. run'[i].sess = s /\ run'[i].op = run[i].op
    BY <1>1, <2>1, <2>2 DEF Calls, s
  <2>4. run'[i] # Idle
    BY <1>3, <2>3 DEF Idle, Calling
  <2> QED  BY <1>1, <1>3, <2>1, <2>3, <2>4 DEF s
<1>9. CASE CloseReturns(i)
  <2>1. /\ run[i].op = "close" /\ session' = [session EXCEPT ![s] = "closed"]
        /\ UNCHANGED result /\ run' = [run EXCEPT ![i] = Idle]
    BY <1>9, Zenon DEF CloseReturns, Leave, s
  <2> QED  BY <1>1, <1>3, <2>1, Zenon DEF s
<1>10. CASE Panic(i)
  <2>1. /\ session' = [session EXCEPT ![s] = IF run[i].op = "invoke" THEN session[s] ELSE "closed"]
        /\ result' = [result EXCEPT ![s] = Refused("target_dead")]
        /\ run' = [run EXCEPT ![i] = Idle]
    BY <1>10, Zenon DEF Panic, Answer, s
  <2> QED  BY <1>1, <1>3, <1>4, <2>1, Zenon DEF s
<1> QED  BY <1>5, <1>6, <1>7, <1>8, <1>9, <1>10, Zenon DEF EntryPoint

(* The core takes a request to an idle instance or answers it itself. *)
LEMMA DispatchFacts ==
  ASSUME IInv, SysInv, NEW s \in Sessions, Dispatch(s)
  PROVE  \E t \in Threads :
           /\ pc[t].sess = s /\ pc[t].at \in Calling /\ call[s] = "requested"
           /\ \A u \in Sessions : u # s => session'[u] = session[u] /\ result'[u] = result[u]
           /\ \/ /\ call' = [call EXCEPT ![s] = "running"]
                 /\ \E i \in Instances : run[i] = Idle
                                         /\ run' = [run EXCEPT ![i] = Call(pc[t].at, s, Null)]
              \/ /\ call' = [call EXCEPT ![s] = "answered"] /\ run' = run
                 /\ pc[t].at = "open" => session'[s] = "closed" /\ result'[s].code # "ok"
                 /\ pc[t].at = "invoke" => session'[s] = "open"
                 /\ pc[t].at = "close" => session'[s] = "closed"
<1>1. PICK t \in Threads :
        /\ pc[t].sess = s
        /\ \/ pc[t].at = "open" /\ OpenStart(s)
           \/ pc[t].at = "invoke" /\ InvokeStart(s)
           \/ pc[t].at = "close" /\ CloseStart(s)
  BY Zenon DEF Dispatch
<1>2. /\ call[s] = "requested" /\ pc[t].at \in Calling
      /\ call' = [call EXCEPT ![s] = IF \E i \in Instances : run'[i].sess = s
                                     THEN "running" ELSE "answered"]
  BY <1>1, Zenon DEF Dispatch, SetCall, Calling
<1>3. /\ run \in [Instances -> Calls \cup {Idle}] /\ result = [u \in Sessions |-> result[u]]
      /\ session = [u \in Sessions |-> session[u]]
      /\ session[s] = "open" => of[s] \in Instances
  BY DEF IInv, TypeOK, Placed
<1>4. \A i \in Instances : run[i].sess # s
  BY <1>2, Zenon DEF SysInv, CallsMatch, Matched
<1>5. Refused("busy").code # "ok"
  BY Zenon DEF Refused
<1>6. ASSUME NEW i \in Instances, run' = [run EXCEPT ![i] = Call(pc[t].at, s, Null)]
      PROVE  call' = [call EXCEPT ![s] = "running"]
  <2>1. run'[i].sess = s
    BY <1>3, <1>6, CallFacts
  <2> QED  BY <1>2, <2>1, Zenon
<1>7. run' = run => call' = [call EXCEPT ![s] = "answered"]
  BY <1>2, <1>4, Zenon
<1>8. CASE pc[t].at = "open" /\ OpenStart(s)
  <2>1. \/ /\ session' = [session EXCEPT ![s] = "closed"] /\ run' = run
           /\ result' = [result EXCEPT ![s] = Refused("busy")]
        \/ /\ session' = [session EXCEPT ![s] = "opening"]
           /\ result' = [result EXCEPT ![s] = Pending]
           /\ \E i \in Instances : run[i] = Idle
                                   /\ run' = [run EXCEPT ![i] = Call("open", s, Null)]
    BY <1>8, Zenon DEF OpenStart, Answer
  <2>2. \A u \in Sessions : u # s => session'[u] = session[u] /\ result'[u] = result[u]
    BY <1>3, <2>1, Zenon
  <2>3. CASE /\ session' = [session EXCEPT ![s] = "closed"] /\ run' = run
             /\ result' = [result EXCEPT ![s] = Refused("busy")]
    BY <1>1, <1>2, <1>3, <1>5, <1>7, <1>8, <2>2, <2>3, Zenon
  <2>4. CASE \E i \in Instances : run[i] = Idle
                                   /\ run' = [run EXCEPT ![i] = Call("open", s, Null)]
    <3>1. PICK i \in Instances : run[i] = Idle
                                 /\ run' = [run EXCEPT ![i] = Call(pc[t].at, s, Null)]
      BY <1>8, <2>4, Zenon
    <3>2. call' = [call EXCEPT ![s] = "running"]
      BY <1>6, <3>1, Zenon
    <3> QED  BY <1>1, <1>2, <2>2, <3>1, <3>2, Zenon
  <2> QED  BY <2>1, <2>3, <2>4, Zenon
<1>9. CASE pc[t].at = "invoke" /\ InvokeStart(s)
  <2>1. /\ session[s] = "open" /\ session' = session
        /\ \E r : result' = [result EXCEPT ![s] = r]
        /\ run' = run \/ /\ run[of[s]] = Idle
                         /\ run' = [run EXCEPT ![of[s]] = Call("invoke", s, Null)]
    BY <1>9, Zenon DEF InvokeStart, Answer
  <2>2. \A u \in Sessions : u # s => session'[u] = session[u] /\ result'[u] = result[u]
    BY <1>3, <2>1, Zenon
  <2>3. CASE run' = run
    BY <1>1, <1>2, <1>7, <1>9, <2>1, <2>2, <2>3, Zenon
  <2>4. CASE run[of[s]] = Idle /\ run' = [run EXCEPT ![of[s]] = Call("invoke", s, Null)]
    BY <1>1, <1>2, <1>3, <1>6, <1>9, <2>1, <2>2, <2>4, Zenon
  <2> QED  BY <2>1, <2>3, <2>4, Zenon
<1>10. CASE pc[t].at = "close" /\ CloseStart(s)
  <2>1. /\ session[s] = "open" /\ result' = result
        /\ \/ run' = run /\ session' = [session EXCEPT ![s] = "closed"]
           \/ /\ run[of[s]] = Idle /\ session' = session
              /\ run' = [run EXCEPT ![of[s]] = Call("close", s, Null)]
    BY <1>10, Zenon DEF CloseStart
  <2>2. \A u \in Sessions : u # s => session'[u] = session[u] /\ result'[u] = result[u]
    BY <1>3, <2>1, Zenon
  <2>3. CASE run' = run /\ session' = [session EXCEPT ![s] = "closed"]
    BY <1>1, <1>2, <1>3, <1>7, <1>10, <2>2, <2>3, Zenon
  <2>4. CASE run[of[s]] = Idle /\ run' = [run EXCEPT ![of[s]] = Call("close", s, Null)]
    BY <1>1, <1>2, <1>3, <1>6, <1>10, <2>1, <2>2, <2>4, Zenon
  <2> QED  BY <2>1, <2>3, <2>4, Zenon
<1> QED  BY <1>1, <1>8, <1>9, <1>10, Zenon

-----------------------------------------------------------------------------
(* How the steps keep the worlds together.  A thread expects no less of    *)
(* its session when neither it nor the session changes.                    *)
LEMMA ExpectsKept ==
  ASSUME NEW t \in Threads, Expects(t), pc'[t] = pc[t],
         pc[t].at \in Calling =>
           LET s == pc[t].sess
           IN /\ call'[s] = call[s] /\ session'[s] = session[s] /\ result'[s] = result[s]
              /\ \A i \in Instances : run'[i].sess = s =>
                   run[i].sess = s /\ run'[i].op = run[i].op
  PROVE  Expects(t)'
<1>1. CASE pc[t].at \notin Calling
  BY <1>1, Zenon DEF Expects, Calling
<1>2. CASE pc[t].at \in Calling
  <2>1. \A i \in Instances : run'[i].sess = pc[t].sess => run'[i].op = pc[t].at
    <3>1. \A i \in Instances : run[i].sess = pc[t].sess => run[i].op = pc[t].at
      BY <1>2, Zenon DEF Expects
    <3> QED  BY <1>2, <3>1, Zenon
  <2> QED  BY <1>2, <2>1 DEF Expects
<1> QED  BY <1>1, <1>2, Zenon

(* A call stays matched when its thread and its instance stay. *)
LEMMA MatchedKept ==
  ASSUME NEW s, Matched(s), call'[s] = call[s],
         \A t \in Threads : pc'[t].sess = s /\ pc'[t].at \in Calling
                            <=> pc[t].sess = s /\ pc[t].at \in Calling,
         \A i \in Instances : run'[i].sess = s <=> run[i].sess = s
  PROVE  Matched(s)'
BY Zenon DEF Matched

(* The TEE works on the call of thread t: what it answers is what t        *)
(* expects, and it leaves the other sessions alone.                        *)
LEMMA CallMoves ==
  ASSUME SysInv, CP!IInv, UNCHANGED <<pc, raw, ctx_of>>,
         NEW s \in Sessions, NEW t \in Threads, pc[t].sess = s, pc[t].at \in Calling,
         call' \in [Sessions -> {"none", "requested", "running", "answered"}],
         call'[s] \in {"running", "answered"},
         call'[s] = "running" <=> \E i \in Instances : run'[i].sess = s,
         call'[s] = "answered" =>
           /\ pc[t].at = "open" =>
                /\ session'[s] \in {"open", "closed"}
                /\ session'[s] = "open" <=> result'[s].code = "ok"
           /\ pc[t].at = "invoke" => session'[s] = "open"
           /\ pc[t].at = "close" => session'[s] = "closed",
         \A i \in Instances : run'[i].sess = s => run'[i].op = pc[t].at,
         \A u \in Sessions : u # s =>
           call'[u] = call[u] /\ session'[u] = session[u] /\ result'[u] = result[u],
         \A i \in Instances, u \in Sessions : u # s =>
           /\ run'[i].sess = u <=> run[i].sess = u
           /\ run[i].sess = u => run'[i].op = run[i].op
  PROVE  SysInv'
<1>1. ASSUME NEW u \in Sessions
      PROVE  Matched(u)'
  <2>1. CASE u = s
    BY <2>1, Zenon DEF Matched
  <2>2. CASE u # s
    BY <2>2, MatchedKept, Zenon DEF SysInv, CallsMatch
  <2> QED  BY <2>1, <2>2, Zenon
<1>2. ASSUME NEW u \in Threads
      PROVE  Expects(u)'
  <2>1. CASE u = t
    BY <2>1, Zenon DEF Expects, Calling
  <2>2. CASE u # t
    <3>1. pc[u].at \in Calling => pc[u].sess \in Sessions /\ pc[u].sess # s
      BY <2>2, NoneAssumption, ClientFacts DEF ClientSays
    <3>2. Expects(u)
      BY Zenon DEF SysInv
    <3> QED  BY <3>1, <3>2, ExpectsKept, Zenon
  <2> QED  BY <2>1, <2>2, Zenon
<1>3. Settled' /\ Unopened'
  BY DEF SysInv, Settled, Unopened
<1> QED  BY <1>1, <1>2, <1>3, Zenon DEF SysInv, CallsMatch, Matched

(* Steps outside calls keep the worlds together, *)
LEMMA QuietKeeps ==
  ASSUME SysInv, CP!IInv, NEW t \in Threads, Local(t) \/ Finish(t)
  PROVE  SysInv'
<1>1. /\ UNCHANGED <<raw, ctx_of, call, run, session, result>>
      /\ \A u \in Threads : u # t => pc'[u] = pc[u]
      /\ pc[t].at \notin Calling /\ pc'[t].at \notin Calling
  BY QuietFacts, Zenon DEF vars
<1>2. CallsMatch'
  <2>1. \A u \in Threads : pc'[u].at \in Calling \/ pc[u].at \in Calling => pc'[u] = pc[u]
    BY <1>1, Zenon
  <2> QED  BY <1>1, <2>1, MatchedKept, Zenon DEF SysInv, CallsMatch
<1>3. ASSUME NEW u \in Threads
      PROVE  Expects(u)'
  <2>1. CASE u = t
    BY <1>1, <2>1, Zenon DEF Expects, Calling
  <2>2. CASE u # t
    BY <1>1, <2>2, ExpectsKept, Zenon DEF SysInv
  <2> QED  BY <2>1, <2>2, Zenon
<1> QED  BY <1>1, <1>2, <1>3, Zenon DEF SysInv, Settled, Unopened

(* and so do a request, *)
LEMMA RequestKeeps ==
  ASSUME SysInv, IInv, CP!IInv, CP!IInv', NEW t \in Threads, Request(t)
  PROVE  SysInv'
<1>1. PICK s \in Sessions :
        /\ UNCHANGED <<raw, ctx_of, run, session, result>>
        /\ call' = [call EXCEPT ![s] = "requested"]
        /\ \A u \in Threads : u # t => pc'[u] = pc[u]
        /\ pc[t].at \notin Calling /\ pc'[t].at \in Calling /\ pc'[t].sess = s
        /\ call[s] = "none"
  BY RequestFacts, Zenon DEF SysInv, vars
<1>2. /\ call' \in [Sessions -> {"none", "requested", "running", "answered"}]
      /\ call'[s] = "requested" /\ \A u \in Sessions : u # s => call'[u] = call[u]
  BY <1>1, Zenon DEF SysInv
<1>3. /\ pc'[t].at = "open" => raw[s] = "none"
      /\ pc'[t].at \in {"invoke", "close"} => raw[s] = "open"
      /\ \A u \in Threads : u # t => pc'[u].sess # s
  <2>1. s # None
    BY NoneAssumption
  <2> QED  BY <1>1, <2>1, ClientFactsNext DEF ClientSays
<1>4. ASSUME NEW u \in Sessions
      PROVE  Matched(u)'
  <2>1. CASE u = s
    BY <1>1, <1>2, <2>1, Zenon DEF SysInv, CallsMatch, Matched
  <2>2. CASE u # s
    <3>1. call'[u] = call[u]
      BY <1>2, <2>2
    <3>2. \A v \in Threads : pc'[v].sess = u /\ pc'[v].at \in Calling
                             <=> pc[v].sess = u /\ pc[v].at \in Calling
      BY <1>1, <2>2, Zenon
    <3> QED  BY <1>1, <3>1, <3>2, MatchedKept, Zenon DEF SysInv, CallsMatch
  <2> QED  BY <2>1, <2>2, Zenon
<1>5. ASSUME NEW u \in Threads
      PROVE  Expects(u)'
  <2>1. CASE u = t
    <3>1. session[s] \in {"new", "opening", "open", "closed"}
      BY Zenon DEF IInv, TypeOK
    <3>2. session[s] # "opening" /\ (raw[s] = "open" <=> session[s] = "open")
      BY <1>1, Zenon DEF SysInv, Settled
    <3>3. \A i \in Instances : run[i].sess # s
      BY <1>1, Zenon DEF SysInv, CallsMatch, Matched
    <3> QED  BY <1>1, <1>2, <1>3, <2>1, <3>1, <3>2, <3>3, Zenon DEF Expects
  <2>2. CASE u # t
    <3>1. pc'[u] = pc[u] /\ pc[u].sess # s
      BY <1>1, <1>3, <2>2, Zenon
    <3>2. pc[u].at \in Calling => call'[pc[u].sess] = call[pc[u].sess]
      BY <1>2, <3>1, ClientFacts, Zenon DEF ClientSays
    <3> QED  BY <1>1, <3>1, <3>2, ExpectsKept, Zenon DEF SysInv
  <2> QED  BY <2>1, <2>2
<1>6. Settled' /\ Unopened'
  BY <1>1, <1>2, Zenon DEF SysInv, Settled, Unopened
<1> QED  BY <1>2, <1>4, <1>5, <1>6, Zenon DEF SysInv, CallsMatch, Matched

(* its response, *)
LEMMA ResponseKeeps ==
  ASSUME SysInv, CP!IInv, NEW t \in Threads, Response(t)
  PROVE  SysInv'
<1> DEFINE s == pc[t].sess
<1>1. /\ s \in Sessions /\ call[s] = "answered" /\ UNCHANGED <<run, session, result>>
      /\ call' = [call EXCEPT ![s] = "none"]
      /\ pc[t].at \in Calling /\ pc'[t].at \notin Calling
      /\ \A u \in Threads : u # t => pc'[u] = pc[u]
      /\ \A u \in Sessions : u # s => raw'[u] = raw[u] /\ ctx_of'[u] = ctx_of[u]
      /\ pc[t].at = "open" => IF result[s].code = "ok" THEN raw'[s] = "open"
                              ELSE raw'[s] = raw[s] /\ ctx_of'[s] = ctx_of[s]
      /\ pc[t].at = "invoke" => raw'[s] = raw[s] /\ ctx_of'[s] = ctx_of[s]
      /\ pc[t].at = "close" => raw'[s] = "closed"
  BY ResponseFacts, Zenon DEF vars
<1>2. /\ call' \in [Sessions -> {"none", "requested", "running", "answered"}]
      /\ call'[s] = "none" /\ \A u \in Sessions : u # s => call'[u] = call[u]
  BY <1>1, Zenon DEF SysInv
<1>3. \A u \in Threads : u # t => pc[u].sess # s
  BY <1>1, NoneAssumption, ClientFacts DEF ClientSays
<1>4. Expects(t)
  BY DEF SysInv
<1>5. /\ pc[t].at = "open" => raw[s] = "none"
      /\ pc[t].at \in {"invoke", "close"} => raw[s] = "open"
  BY ClientFacts, Zenon DEF ClientSays
<1>6. session[s] # "opening" /\ (raw'[s] = "open" <=> session[s] = "open")
  BY <1>1, <1>4, <1>5, Zenon DEF Expects, Calling
<1>7. raw'[s] = "none" => ctx_of'[s] = None
  BY <1>1, <1>5, Zenon DEF SysInv, Unopened, Calling
<1> HIDE DEF s
<1>8. ASSUME NEW u \in Sessions
      PROVE  Matched(u)'
  <2>1. CASE u = s
    <3>0. Matched(s) /\ call[s] = "answered"
      BY <1>1, Zenon DEF SysInv, CallsMatch
    <3>a. call[s] # "running"
      BY <3>0
    <3>1. \A i \in Instances : run[i].sess # s
      BY <3>0, <3>a, Zenon DEF Matched
    <3>2. \A v \in Threads : pc'[v].sess = s => pc'[v].at \notin Calling
      BY <1>1, <1>3
    <3> QED  BY <1>1, <1>2, <2>1, <3>1, <3>2, Zenon DEF Matched
  <2>2. CASE u # s
    <3>1. call'[u] = call[u]
      BY <1>2, <2>2, Zenon
    <3>2. \A v \in Threads : pc'[v].sess = u /\ pc'[v].at \in Calling
                             <=> pc[v].sess = u /\ pc[v].at \in Calling
      BY <1>1, <2>2, Zenon DEF s
    <3> QED  BY <1>1, <3>1, <3>2, MatchedKept, Zenon DEF SysInv, CallsMatch
  <2> QED  BY <2>1, <2>2
<1>9. ASSUME NEW u \in Threads
      PROVE  Expects(u)'
  <2>1. CASE u = t
    BY <1>1, <2>1, Zenon DEF Expects, Calling
  <2>2. CASE u # t
    <3>1. pc'[u] = pc[u] /\ pc[u].sess # s
      BY <1>1, <1>3, <2>2, Zenon
    <3>2. pc[u].at \in Calling => call'[pc[u].sess] = call[pc[u].sess]
      BY <1>2, <3>1, ClientFacts, Zenon DEF ClientSays
    <3> QED  BY <1>1, <3>1, <3>2, ExpectsKept, Zenon DEF SysInv
  <2> QED  BY <2>1, <2>2
<1>10. Settled' /\ Unopened'
  <2>1. /\ session' = session
        /\ \A u \in Sessions : u # s => raw'[u] = raw[u] /\ ctx_of'[u] = ctx_of[u] /\ call'[u] = call[u]
    BY <1>1, <1>2, Zenon
  <2>2. Settled /\ Unopened
    BY Zenon DEF SysInv
  <2>3. ASSUME NEW u \in Sessions, call'[u] = "none"
        PROVE  session'[u] # "opening" /\ (raw'[u] = "open" <=> session'[u] = "open")
    <3>1. CASE u = s
      BY <1>6, <2>1, <3>1, Zenon
    <3>2. CASE u # s
      BY <2>1, <2>2, <2>3, <3>2, Zenon DEF Settled
    <3> QED  BY <3>1, <3>2, Zenon
  <2>4. ASSUME NEW u \in Sessions, raw'[u] = "none"
        PROVE  ctx_of'[u] = None
    BY <1>7, <2>1, <2>2, <2>4, Zenon DEF Unopened
  <2> QED  BY <2>3, <2>4, Zenon DEF Settled, Unopened
<1> QED  BY <1>2, <1>8, <1>9, <1>10, Zenon DEF SysInv, CallsMatch, Matched

(* the dispatch of a call *)
LEMMA DispatchKeeps ==
  ASSUME SysInv, IInv, CP!IInv, NEW s \in Sessions, Dispatch(s)
  PROVE  SysInv'
<1>1. PICK t \in Threads :
        /\ pc[t].sess = s /\ pc[t].at \in Calling /\ call[s] = "requested"
        /\ \A u \in Sessions : u # s => session'[u] = session[u] /\ result'[u] = result[u]
        /\ \/ /\ call' = [call EXCEPT ![s] = "running"]
              /\ \E i \in Instances : run[i] = Idle
                                      /\ run' = [run EXCEPT ![i] = Call(pc[t].at, s, Null)]
           \/ /\ call' = [call EXCEPT ![s] = "answered"] /\ run' = run
              /\ pc[t].at = "open" => session'[s] = "closed" /\ result'[s].code # "ok"
              /\ pc[t].at = "invoke" => session'[s] = "open"
              /\ pc[t].at = "close" => session'[s] = "closed"
  BY DispatchFacts, Zenon
<1>2. UNCHANGED <<pc, raw, ctx_of>>
  BY Zenon DEF Dispatch, clientVars
<1>3. /\ call' \in [Sessions -> {"none", "requested", "running", "answered"}]
      /\ call'[s] \in {"running", "answered"}
      /\ \A u \in Sessions : u # s => call'[u] = call[u]
  BY <1>1, Zenon DEF SysInv
<1>4. \A i \in Instances : run[i].sess # s
  BY <1>1, Zenon DEF SysInv, CallsMatch, Matched
<1> DEFINE Moved ==
             /\ call'[s] = "running" <=> \E i \in Instances : run'[i].sess = s
             /\ \A i \in Instances : run'[i].sess = s => run'[i].op = pc[t].at
             /\ \A i \in Instances, u \in Sessions : u # s =>
                  /\ run'[i].sess = u <=> run[i].sess = u
                  /\ run[i].sess = u => run'[i].op = run[i].op
<1>5. Moved
  <2>1. run = [i \in Instances |-> run[i]] /\ call = [u \in Sessions |-> call[u]]
    BY Zenon DEF IInv, TypeOK, SysInv
  <2>2. CASE call' = [call EXCEPT ![s] = "answered"] /\ run' = run
    BY <1>4, <2>1, <2>2, Zenon
  <2>3. ASSUME call' = [call EXCEPT ![s] = "running"],
               NEW i \in Instances, run[i] = Idle,
               run' = [run EXCEPT ![i] = Call(pc[t].at, s, Null)]
        PROVE  Moved
    <3>1. /\ run[i].sess = None /\ run'[i].sess = s /\ run'[i].op = pc[t].at
          /\ \A j \in Instances : j # i => run'[j] = run[j]
      BY <2>1, <2>3, CallFacts
    <3> QED  BY <1>4, <2>1, <2>3, <3>1, NoneAssumption
  <2> QED  BY <1>1, <2>2, <2>3, Zenon
<1>6. call'[s] = "answered" =>
        /\ pc[t].at = "open" => session'[s] = "closed" /\ result'[s].code # "ok"
        /\ pc[t].at = "invoke" => session'[s] = "open"
        /\ pc[t].at = "close" => session'[s] = "closed"
  BY <1>1, Zenon DEF SysInv
<1>7. \A u \in Sessions : u # s =>
        call'[u] = call[u] /\ session'[u] = session[u] /\ result'[u] = result[u]
  BY <1>1, <1>3, Zenon
<1>8. pc[t].sess = s /\ pc[t].at \in Calling
  BY <1>1, Zenon
<1> QED  BY <1>2, <1>3, <1>5, <1>6, <1>7, <1>8, CallMoves, Zenon

(* and the entry point. *)
LEMMA ExecuteKeeps ==
  ASSUME SysInv, IInv, CP!IInv, NEW i \in Instances, Execute(i)
  PROVE  SysInv'
<1> DEFINE s == run[i].sess
<1>1. /\ s \in Sessions /\ run[i].op \in Calling
      /\ \A u \in Sessions : u # s => session'[u] = session[u] /\ result'[u] = result[u]
      /\ \A j \in Instances : j # i => run'[j] = run[j]
  BY EntryPointFacts, Zenon DEF Execute
<1>2. \/ /\ run'[i] # Idle /\ run'[i].sess = s /\ run'[i].op = run[i].op
         /\ session' = session /\ call' = call
      \/ /\ run'[i] = Idle /\ call' = [call EXCEPT ![s] = "answered"]
         /\ run[i].op = "open" =>
              /\ session'[s] \in {"open", "closed"}
              /\ session'[s] = "open" <=> result'[s].code = "ok"
         /\ run[i].op = "invoke" => session'[s] = session[s]
         /\ run[i].op = "close" => session'[s] = "closed"
  BY EntryPointFacts, Zenon DEF Execute, SetCall
<1>3. UNCHANGED <<pc, raw, ctx_of>>
  BY Zenon DEF Execute, clientVars
<1>4. call[s] = "running" /\ call = [u \in Sessions |-> call[u]]
  <2>1. Matched(s) /\ call = [u \in Sessions |-> call[u]]
    BY <1>1, Zenon DEF SysInv, CallsMatch
  <2> QED  BY <1>1, <2>1, Zenon DEF Matched
<1>5. PICK t \in Threads : pc[t].sess = s /\ pc[t].at \in Calling
  <2>1. Matched(s) /\ call[s] # "none"
    BY <1>1, <1>4, Zenon DEF SysInv, CallsMatch
  <2> QED  BY <2>1, Zenon DEF Matched
<1>6. run[i].op = pc[t].at
  BY <1>5, Zenon DEF SysInv, Expects
<1>7. /\ \A j \in Instances : j # i => run[j].sess # s
      /\ run[i].op = "invoke" => session[s] = "open"
  <2>1. run[i] # Idle /\ \A j \in Instances : run[j].sess = s => run[j] # Idle
    BY <1>1, CallFacts, NoneAssumption, Zenon
  <2>2. \A j \in Instances : run[j] # Idle => of[run[j].sess] = j
    BY Zenon DEF IInv, Running
  <2>3. run[i].op = "invoke" => session[s] = "open"
    BY <2>1, Zenon DEF IInv, Running
  <2> QED  BY <2>1, <2>2, <2>3, Zenon
<1> HIDE DEF s
<1>8. /\ call' \in [Sessions -> {"none", "requested", "running", "answered"}]
      /\ call'[s] \in {"running", "answered"}
      /\ \A u \in Sessions : u # s => call'[u] = call[u]
  BY <1>1, <1>2, <1>4, Zenon DEF SysInv
<1> DEFINE Moved ==
             /\ call'[s] = "running" <=> \E j \in Instances : run'[j].sess = s
             /\ \A j \in Instances : run'[j].sess = s => run'[j].op = pc[t].at
             /\ \A j \in Instances, u \in Sessions : u # s =>
                  /\ run'[j].sess = u <=> run[j].sess = u
                  /\ run[j].sess = u => run'[j].op = run[j].op
<1>9. Moved
  <2>1. CASE /\ run'[i] # Idle /\ run'[i].sess = s /\ run'[i].op = run[i].op
             /\ session' = session /\ call' = call
    BY <1>1, <1>4, <1>6, <1>7, <2>1, Zenon DEF s
  <2>2. CASE run'[i] = Idle /\ call' = [call EXCEPT ![s] = "answered"]
    <3>1. run'[i].sess = None
      BY <2>2, CallFacts, Zenon
    <3> QED  BY <1>1, <1>4, <1>7, <2>2, <3>1, NoneAssumption DEF s
  <2> QED  BY <1>2, <2>1, <2>2, Zenon
<1>10. call'[s] = "answered" =>
         /\ pc[t].at = "open" =>
              /\ session'[s] \in {"open", "closed"}
              /\ session'[s] = "open" <=> result'[s].code = "ok"
         /\ pc[t].at = "invoke" => session'[s] = "open"
         /\ pc[t].at = "close" => session'[s] = "closed"
  BY <1>2, <1>4, <1>6, <1>7, Zenon
<1>11. \A u \in Sessions : u # s =>
         call'[u] = call[u] /\ session'[u] = session[u] /\ result'[u] = result[u]
  BY <1>1, <1>8, Zenon
<1>12. s \in Sessions
  BY <1>1, Zenon
<1> QED  BY <1>3, <1>5, <1>8, <1>9, <1>10, <1>11, <1>12, CallMoves

-----------------------------------------------------------------------------
(* An instance that loses its last session goes with it, unless it is kept *)
(* alive; a panicked one is no longer live.                                *)
LEMMA LeaveOccupied ==
  ASSUME IInv, Occupied, UNCHANGED <<flags, of>>, NEW i \in Instances, run[i] # Idle,
         session' = [session EXCEPT ![run[i].sess] = "closed"],
         \/ Leave(i, run[i].sess, TRUE)
         \/ instance' = [instance EXCEPT ![i] = "panicked"]
  PROVE  Occupied'
<1> DEFINE s == run[i].sess
<1>1. /\ instance \in [Instances -> {"none", "live", "panicked", "gone"}]
      /\ session = [u \in Sessions |-> session[u]]
  BY Zenon DEF IInv, TypeOK
<1>2. s \in Sessions /\ of[s] = i /\ session[s] \in {"opening", "open"}
  BY Zenon DEF IInv, Running
<1> SUFFICES ASSUME NEW j \in Instances, instance'[j] = "live", ~KeepAlive'
             PROVE  SessionsOf(j)' # {}
  BY Zenon DEF Occupied
<1>3. ~KeepAlive
  BY Zenon DEF KeepAlive
<1>4. CASE j # i
  <2>1. instance[j] = "live"
    BY <1>1, <1>4, Zenon DEF Leave
  <2>2. PICK u \in Sessions : of[u] = j /\ session[u] \in {"opening", "open"}
    BY <1>3, <2>1, Zenon DEF Occupied, SessionsOf
  <2>3. session'[u] = session[u]
    BY <1>1, <1>2, <1>4, <2>2, Zenon
  <2> QED  BY <2>2, <2>3, Zenon DEF SessionsOf
<1>5. CASE j = i
  <2>1. Leave(i, s, TRUE) /\ SessionsOf(i) # {s}
    BY <1>1, <1>3, <1>5, Zenon DEF Leave
  <2>2. s \in SessionsOf(i)
    BY <1>2, Zenon DEF SessionsOf
  <2>3. PICK u \in SessionsOf(i) : u # s
    BY <2>1, <2>2, Zenon
  <2>4. session'[u] = session[u] /\ u \in Sessions
    BY <1>1, <2>3, Zenon DEF SessionsOf
  <2> QED  BY <1>5, <2>3, <2>4, Zenon DEF SessionsOf
<1> QED  BY <1>4, <1>5, Zenon

(* A step that takes no session from a live instance. *)
LEMMA StayOccupied ==
  ASSUME Occupied, UNCHANGED flags,
         \A i \in Instances : instance'[i] = "live" =>
           \/ /\ instance[i] = "live"
              /\ \A u \in Sessions : of[u] = i /\ session[u] \in {"opening", "open"} =>
                   of'[u] = i /\ session'[u] \in {"opening", "open"}
           \/ \E u \in Sessions : of'[u] = i /\ session'[u] = "opening"
  PROVE  Occupied'
<1>1. KeepAlive' <=> KeepAlive
  BY Zenon DEF KeepAlive
<1> QED  BY <1>1 DEF Occupied, SessionsOf

(* An instance is left without a session only when it is kept alive or goes. *)
LEMMA OccupiedStep ==
  ASSUME IInv, Occupied, [Next]_vars
  PROVE  Occupied'
<1>1. /\ instance \in [Instances -> {"none", "live", "panicked", "gone"}]
      /\ session = [u \in Sessions |-> session[u]] /\ of = [u \in Sessions |-> of[u]]
  BY Zenon DEF IInv, TypeOK
<1>2. UNCHANGED flags
  BY Zenon DEF Next, vars
<1>3. ASSUME NEW s \in Sessions, OpenStart(s)
      PROVE  Occupied'
  <2>1. PICK i \in Instances :
          /\ session[s] = "new"
          /\ \/ /\ session' = [session EXCEPT ![s] = "closed"] /\ UNCHANGED <<instance, of>>
             \/ /\ instance' = [instance EXCEPT ![i] = "live"]
                /\ session' = [session EXCEPT ![s] = "opening"] /\ of' = [of EXCEPT ![s] = i]
    BY <1>3, Zenon DEF OpenStart
  <2> QED  BY <1>1, <1>2, <2>1, StayOccupied
<1>4. ASSUME NEW s \in Sessions, InvokeStart(s)
      PROVE  Occupied'
  BY <1>2, <1>4, StayOccupied, Zenon DEF InvokeStart
<1>5. ASSUME NEW s \in Sessions, CloseStart(s)
      PROVE  Occupied'
  <2>1. /\ UNCHANGED <<instance, of>>
        /\ \/ UNCHANGED session
           \/ /\ instance[of[s]] = "panicked"
              /\ session' = [session EXCEPT ![s] = "closed"]
    BY <1>5, Zenon DEF CloseStart
  <2> QED  BY <1>1, <1>2, <2>1, StayOccupied, Zenon
<1>6. ASSUME NEW i \in Instances, EntryPoint(i)
      PROVE  Occupied'
  <2>1. run[i] # Idle
    BY <1>6, CallFacts, Zenon DEF EntryPoint, OpenFails, OpenSucceeds, InvokeRefused, InvokeBorrow,
                           InvokeReturns, CloseReturns, Panic
  <2>2. CASE OpenFails(i) \/ CloseReturns(i)
    BY <1>2, <2>1, <2>2, LeaveOccupied, Zenon DEF OpenFails, CloseReturns
  <2>3. CASE OpenSucceeds(i)
    <3>1. UNCHANGED <<instance, of>> /\ session' = [session EXCEPT ![run[i].sess] = "open"]
      BY <1>1, <2>3, Zenon DEF OpenSucceeds, Leave
    <3> QED  BY <1>1, <1>2, <3>1, StayOccupied, Zenon
  <2>4. CASE InvokeRefused(i) \/ InvokeBorrow(i) \/ InvokeReturns(i)
    <3>1. UNCHANGED <<instance, of, session>>
      BY <1>1, <2>4 DEF InvokeRefused, InvokeBorrow, InvokeReturns, Leave
    <3> QED  BY <1>2, <3>1, StayOccupied, Zenon
  <2>5. CASE Panic(i) /\ run[i].op # "invoke"
    BY <1>2, <2>1, <2>5, LeaveOccupied, Zenon DEF Panic
  <2>6. CASE Panic(i) /\ run[i].op = "invoke"
    <3>1. /\ UNCHANGED of /\ session' = [session EXCEPT ![run[i].sess] = session[run[i].sess]]
          /\ instance' = [instance EXCEPT ![i] = "panicked"]
      BY <2>6, Zenon DEF Panic
    <3> QED  BY <1>1, <1>2, <3>1, StayOccupied, Zenon
  <2> QED  BY <1>6, <2>2, <2>3, <2>4, <2>5, <2>6, Zenon DEF EntryPoint
<1>7. CASE UNCHANGED vars
  BY <1>7, StayOccupied, Zenon DEF vars
<1> QED  BY <1>3, <1>4, <1>5, <1>6, <1>7, Zenon DEF Next

-----------------------------------------------------------------------------
(* The invariant of the system holds initially. *)
LEMMA SystemInitIInv == SystemInit => SystemIInv
<1> SUFFICES ASSUME SystemInit PROVE SystemIInv
  OBVIOUS
<1>1. IInv
  BY TaInit, InitIInv
<1>2. CP!IInv
  BY ClientInit, ClientConstants, CP!InitIInv
<1>3. /\ \A i \in Instances : run[i].sess = None /\ instance[i] = "none"
      /\ \A s \in Sessions : session[s] = "new"
      /\ call = [s \in Sessions |-> "none"]
  BY CallFacts, Zenon DEF SystemInit, Init
<1>4. /\ \A t \in Threads : pc[t].at = "idle"
      /\ \A s \in Sessions : raw[s] = "none" /\ ctx_of[s] = None
  BY Zenon DEF SystemInit, CA!Init, CA!Idle
<1>5. CallsMatch
  BY <1>3, <1>4, NoneAssumption, Zenon DEF CallsMatch, Matched, Calling
<1>6. \A t \in Threads : Expects(t)
  BY <1>4, Zenon DEF Expects, Calling
<1> QED
  BY <1>1, <1>2, <1>3, <1>4, <1>5, <1>6, Zenon DEF SystemIInv, SysInv, Occupied, Settled, Unopened

(* Every step preserves it. *)
LEMMA SystemStep == SystemIInv /\ [SystemNext]_systemVars => SystemIInv'
<1> SUFFICES ASSUME SystemIInv, [SystemNext]_systemVars PROVE SystemIInv'
  OBVIOUS
<1> USE DEF SystemIInv
<1>1. IInv' /\ CP!IInv'
  BY BothKept
<1>2. Occupied'
  BY TaStep, OccupiedStep
<1>3. CASE UNCHANGED systemVars
  <2>1. UNCHANGED <<raw, ctx_of, pc, run, session, result, call>>
    BY <1>3, Zenon DEF systemVars, clientVars, vars
  <2>2. \A t \in Threads : Expects(t)'
    BY <2>1, ExpectsKept, Zenon DEF SysInv
  <2>3. CallsMatch'
    BY <2>1, MatchedKept, Zenon DEF SysInv, CallsMatch
  <2> QED  BY <1>1, <1>2, <2>1, <2>2, <2>3, Zenon DEF SysInv, Settled, Unopened
<1>4. CASE SystemNext
  BY <1>1, <1>2, <1>4, QuietKeeps, RequestKeeps, ResponseKeeps, DispatchKeeps, ExecuteKeeps, Zenon
     DEF SystemNext
<1> QED  BY <1>3, <1>4, Zenon

(* The safety part of the specification, without its fairness. *)
LEMMA SystemSafety == SystemSpec => SystemInit /\ [][SystemNext]_systemVars
BY PTL DEF SystemSpec

(* What is known of the two worlds in every state, whatever the threads do *)
(* with their values and wherever the TA fails or panics.                  *)
THEOREM SystemIInvHolds == SystemSpec => []SystemIInv
BY SystemInitIInv, SystemStep, SystemSafety, PTL

(* With client threads on the other side too, the pointer kept for an open *)
(* session is a live Box of that session alone, no Box is left behind, and *)
(* it holds what the session's own commands left in it.                    *)
THEOREM SystemContextSafe ==
  SystemSpec => [](ContextOwned /\ NoContextLeak /\ ContextKept)
BY SystemIInvHolds, PTL DEF SystemIInv, IInv

(* libteec is handed no finalized TEEC_Context, nor a session of one, also *)
(* when the calls wait for a busy TA or find it dead.                      *)
THEOREM SystemContextValid == SystemSpec => []ContextOutlivesSessions
<1>1. CP!IInv => CP!ContextOutlivesSessions
  BY ClientConstants, CP!HeldValid
<1>2. CP!ContextOutlivesSessions => ContextOutlivesSessions
  BY Zenon DEF CP!ContextOutlivesSessions, ContextOutlivesSessions, CA!ContextOutlivesSessions
<1> QED  BY <1>1, <1>2, SystemIInvHolds, PTL DEF SystemIInv

(* Once no call is in progress on a session, a Session value stands for it *)
(* exactly when it is open in the TEE.                                     *)
THEOREM AlwaysAgree == SystemSpec => []WorldsAgree
<1>1. SystemIInv => WorldsAgree
  BY Zenon DEF SystemIInv, SysInv, Settled, WorldsAgree
<1> QED  BY <1>1, SystemIInvHolds, PTL

(* A session open in the TEE is one of a context that is not finalized:    *)
(* if the client no longer has it open, no call is left that could have    *)
(* closed it, so the TEE has closed it before.                             *)
THEOREM AlwaysFinalizedClean == SystemSpec => []FinalizedClean
<1>1. ASSUME SystemIInv, NEW s \in Sessions, session[s] = "open", ctx_of[s] # None
      PROVE  teec[ctx_of[s]] # "finalized"
  <2>1. raw[s] \in {"open", "closed"}
    <3>1. raw[s] \in {"none", "open", "closed"}
      BY <1>1, Zenon DEF SystemIInv, CP!IInv, CP!TypeOK
    <3> QED  BY <1>1, <3>1, Zenon DEF SystemIInv, SysInv, Unopened
  <2>2. raw[s] # "closed"
    <3> SUFFICES ASSUME raw[s] = "closed" PROVE FALSE
      OBVIOUS
    <3>1. call[s] # "none"
      BY <1>1, Zenon DEF SystemIInv, SysInv, Settled
    <3>2. PICK t \in Threads : pc[t].sess = s /\ pc[t].at \in Calling
      BY <1>1, <3>1, Zenon DEF SystemIInv, SysInv, CallsMatch, Matched
    <3> QED  BY <1>1, <3>2, ClientFacts, Zenon DEF SystemIInv, ClientSays, Calling
  <2>3. CP!ContextOutlivesSessions
    BY <1>1, ClientConstants, CP!HeldValid, Zenon DEF SystemIInv
  <2> QED  BY <2>1, <2>2, <2>3, Zenon DEF CP!ContextOutlivesSessions
<1>2. SystemIInv => FinalizedClean
  BY <1>1, Zenon DEF FinalizedClean
<1> QED  BY <1>2, SystemIInvHolds, PTL

(* When every Session value is dropped and no call is in progress, the TA  *)
(* is gone, or kept alive with an empty heap.                              *)
THEOREM AlwaysNothingLeft == SystemSpec => []NothingLeft
<1>1. ASSUME SystemIInv, \A s \in Sessions : owner[s] = None /\ call[s] = "none",
             NEW i \in Instances, instance[i] = "live"
      PROVE  KeepAlive /\ heap[i] = {}
  <2>1. \A s \in Sessions : raw[s] # "open"
    BY <1>1, ClientFacts DEF SystemIInv, ClientSays, SysInv, CallsMatch, Matched, Calling
  <2>2. \A s \in Sessions : session[s] \notin {"opening", "open"}
    BY <1>1, <2>1, Zenon DEF SystemIInv, SysInv, Settled
  <2>3. SessionsOf(i) = {} /\ Usable = {}
    BY <2>2, Zenon DEF SessionsOf, Usable
  <2> QED  BY <1>1, <2>3, Zenon DEF SystemIInv, Occupied, IInv, NoContextLeak
<1>2. SystemIInv => NothingLeft
  BY <1>1, Zenon DEF NothingLeft
<1> QED  BY <1>2, SystemIInvHolds, PTL

(* A session the TEE called dead gets no other answer, whoever asks.       *)
THEOREM SystemDeadStaysDead == SystemSpec => DeadForGood
<1>1. IInv /\ [SystemNext]_systemVars =>
        [\A s \in Sessions : result[s] = Refused("target_dead") => result'[s] = result[s]]_vars
  BY TaStep, DeadStep, Zenon
<1> QED  BY <1>1, SystemIInvHolds, SystemSafety, PTL DEF SystemIInv, DeadForGood
=============================================================================
