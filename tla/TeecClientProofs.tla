-------------------------- MODULE TeecClientProofs --------------------------
(***************************************************************************)
(* Proofs about TeecClient, for any sets of threads, contexts and          *)
(* sessions.  The inductive invariant says who holds the Arc of a context  *)
(* (Holders) and what a thread inside the API knows about its session      *)
(* (Using); the rest follows from "held implies live" (HeldLive).          *)
(***************************************************************************)
EXTENDS TeecClient, TLAPS

(* A Session value exists exactly from the success of Session::new to the  *)
(* start of its drop, and what is open was opened in a context.            *)
Owned ==
  \A s \in Sessions :
    /\ owner[s] # Free => raw[s] = "open"
    /\ raw[s] = "open" => of[s] \in Contexts

(* What a thread inside the API knows about the session it works on. *)
Knows(t) ==
  LET s == pc[t].sess
  IN /\ pc[t].at \in {"lock", "open"} =>
          s \in Sessions /\ raw[s] = "none" /\ owner[s] = Free
     /\ pc[t].at = "release" /\ s # Free => owner[s] = t
     /\ pc[t].at = "invoke" => s \in Sessions /\ owner[s] = t
     /\ pc[t].at = "close" =>
          s \in Sessions /\ owner[s] = Free /\ raw[s] = "open"
     /\ pc[t].at = "drop_ctx" =>
          /\ s \in Sessions /\ owner[s] = Free /\ raw[s] = "closed"
          /\ of[s] \in Contexts /\ s \in strong[of[s]]
     /\ pc[t].at \in {"invoke", "close", "drop_ctx"} => pc[t].ctx = of[s]
     /\ pc[t].at = "finalize" => s = Free

Using == \A t \in Threads : Knows(t)

(* No two threads work on one session. *)
Apart ==
  \A t, u \in Threads : t # u /\ pc[t].sess # Free => pc[t].sess # pc[u].sess

(* Who holds the Arc of a context. *)
Holders ==
  /\ \A c \in Contexts : owner[c] # Free => c \in strong[c]
  /\ \A s \in Sessions : raw[s] = "open" => s \in strong[of[s]]
  /\ \A t \in Threads :
       pc[t].at \in {"lock", "open", "release"} => t \in strong[pc[t].ctx]

(* A context with a holder is live; one being finalized has none left. *)
HeldLive ==
  /\ \A c \in Contexts : strong[c] # {} => teec[c] = "live"
  /\ \A t \in Threads : pc[t].at = "finalize" =>
       strong[pc[t].ctx] = {} /\ teec[pc[t].ctx] = "live"

IInv == TypeOK /\ Owned /\ Using /\ Apart /\ Holders /\ HeldLive /\ FinalizedOnce
        /\ NoSessionLost

-----------------------------------------------------------------------------
(* A context, a session and a thread are different holders, and none is    *)
(* Free.                                                                   *)
Distinct ==
  /\ \A c \in Contexts, s \in Sessions : c # s
  /\ \A c \in Contexts, t \in Threads : c # t
  /\ \A s \in Sessions, t \in Threads : s # t
  /\ Free \notin Contexts /\ Free \notin Sessions /\ Free \notin Threads

(* What the assumption on the constants is used for. *)
LEMMA Different == ASSUME ConstantsAssumption PROVE Distinct
BY DEF ConstantsAssumption, Distinct

(* The two ways a thread's place changes are well typed. *)
LEMMA PlaceType ==
  /\ Idle \in Places
  /\ \A a \in InCall, c \in Contexts, s \in Sessions \cup {Free} : At(a, c, s) \in Places
  /\ \A p \in Places : p = Idle \/ (p.at \in InCall /\ p.ctx \in Contexts
                                     /\ p.sess \in Sessions \cup {Free})
BY DEF Places, At

(* A step leaves the session of thread u alone, and the Arc u is about to  *)
(* drop.                                                                   *)
Undisturbed(u) ==
  /\ pc'[u] = pc[u]
  /\ pc[u].sess # Free => /\ raw'[pc[u].sess] = raw[pc[u].sess]
                          /\ owner'[pc[u].sess] = owner[pc[u].sess]
                          /\ of'[pc[u].sess] = of[pc[u].sess]
  /\ pc[u].at = "drop_ctx" => pc[u].sess \in strong'[of[pc[u].sess]]

(* What the threads that did not move know stays true. *)
LEMMA OthersKnow ==
  ASSUME ConstantsAssumption, Using, NEW t \in Threads, Knows(t)',
         \A u \in Threads : u # t => Undisturbed(u)
  PROVE  Using'
<1> SUFFICES ASSUME NEW u \in Threads, u # t PROVE Knows(u)'
  BY DEF Using
<1>1. Knows(u) /\ Undisturbed(u)
  BY DEF Using
<1> QED
  BY <1>1, Different DEF Distinct, Knows, Undisturbed

(* Nothing is held or open in the beginning. *)
LEMMA InitIInv == Init => IInv
<1> SUFFICES ASSUME Init PROVE IInv
  OBVIOUS
<1>1. TypeOK
  BY PlaceType DEF Init, TypeOK
<1>2. \A t \in Threads : pc[t].at = "idle" /\ pc[t].sess = Free
  BY Zenon DEF Init, Idle
<1>3. Owned
  BY DEF Init, Owned, Values
<1>4. Using /\ Apart
  BY <1>2 DEF Using, Knows, Apart
<1>5. Holders /\ HeldLive /\ FinalizedOnce /\ NoSessionLost
  BY <1>2 DEF Init, Holders, HeldLive, FinalizedOnce, NoSessionLost, Values
<1> QED
  BY <1>1, <1>3, <1>4, <1>5 DEF IInv

(* Dropping an Arc keeps the types, whichever way it ends. *)
LEMMA DropArcType ==
  ASSUME TypeOK, NEW t \in Threads, NEW c \in Contexts, NEW h, DropArc(t, c, h)
  PROVE  /\ strong' \in [Contexts -> SUBSET (Values \cup Threads)]
         /\ pc' \in [Threads -> Places]
         /\ \A u \in Threads : u # t => pc'[u] = pc[u]
         /\ pc'[t] = IF strong[c] = {h} THEN At("finalize", c, Free) ELSE Idle
         /\ strong'[c] = strong[c] \ {h}
         /\ \A d \in Contexts : d # c => strong'[d] = strong[d]
<1>1. strong' = [strong EXCEPT ![c] = @ \ {h}]
  BY DEF DropArc
<1>2. pc' = [pc EXCEPT ![t] = IF strong[c] = {h} THEN At("finalize", c, Free) ELSE Idle]
  BY DEF DropArc, Goto, Return
<1>3. (IF strong[c] = {h} THEN At("finalize", c, Free) ELSE Idle) \in Places
  BY PlaceType DEF InCall
<1> QED
  BY <1>1, <1>2, <1>3 DEF TypeOK

(* The part of the invariant that a drop of the Arc can disturb: the       *)
(* holder that leaves was in, so no other thread was finalizing, and the   *)
(* one that empties the set is the only one to finalize.                   *)
LEMMA DropArcLive ==
  ASSUME TypeOK, HeldLive, FinalizedOnce,
         NEW t \in Threads, NEW c \in Contexts, NEW h \in strong[c],
         DropArc(t, c, h), teec' = teec
  PROVE  HeldLive' /\ FinalizedOnce'
<1>1. teec[c] = "live"
  BY DEF HeldLive
<1>2. \A u \in Threads : pc[u].at = "finalize" => pc[u].ctx # c
  BY DEF HeldLive
<1>3. /\ At("finalize", c, Free).at = "finalize"
      /\ At("finalize", c, Free).ctx = c
      /\ Idle.at # "finalize"
  BY DEF At, Idle
<1>4. /\ \A u \in Threads : u # t => pc'[u] = pc[u]
      /\ pc'[t] = IF strong[c] = {h} THEN At("finalize", c, Free) ELSE Idle
      /\ strong'[c] = strong[c] \ {h}
      /\ \A d \in Contexts : d # c => strong'[d] = strong[d]
  BY DropArcType
<1>5. pc'[t].at = "finalize" => pc'[t].ctx = c /\ strong'[c] = {}
  BY <1>3, <1>4
<1>6. \A u \in Threads : pc[u].at = "finalize" => pc[u].ctx \in Contexts
  BY PlaceType DEF TypeOK, Idle
<1>7. HeldLive'
  BY <1>4, <1>5, <1>6 DEF HeldLive
<1>8. FinalizedOnce'
  BY <1>1, <1>2, <1>4, <1>5 DEF FinalizedOnce
<1> QED
  BY <1>7, <1>8

-----------------------------------------------------------------------------
(* Every step keeps the invariant. *)
LEMMA InductiveStep ==
  ASSUME ConstantsAssumption
  PROVE  IInv /\ [Next]_vars => IInv'
<1> SUFFICES ASSUME IInv, [Next]_vars PROVE IInv'
  OBVIOUS
<1>z. Distinct
  BY Different
<1> USE <1>z, PlaceType DEF Distinct
<1>0. TypeOK /\ Owned /\ Using /\ Apart /\ Holders /\ HeldLive /\ FinalizedOnce
     /\ NoSessionLost
  BY DEF IInv
<1>p. \A t \in Threads : pc[t] \in Places
  BY <1>0 DEF TypeOK
<1>i. Idle.at = "idle" /\ Idle.sess = Free
  BY DEF Idle
<1>c. \A t \in Threads : pc[t].at # "idle" => pc[t].ctx \in Contexts
  BY <1>p, <1>i
<1>a. \A a, c, s :
        At(a, c, s).at = a /\ At(a, c, s).ctx = c /\ At(a, c, s).sess = s
  BY DEF At
<1>f. \A t \in Threads : pc[t].sess # Free => pc[t].sess \in Sessions
  BY <1>p, <1>i
<1>d. \A t \in Threads : pc[t].at = "drop_ctx" =>
        /\ pc[t].sess \in Sessions /\ of[pc[t].sess] \in Contexts
        /\ pc[t].sess \in strong[of[pc[t].sess]]
  BY <1>0 DEF Using, Knows
<1>1. ASSUME NEW t \in Threads, NEW c \in Contexts, New(t, c) PROVE IInv'
  <2>1. pc' = pc
    BY <1>1 DEF New
  <2>2. /\ pc[t].at = "idle" /\ pc[t].sess = Free
        /\ strong[c] = {} /\ teec[c] = "fresh"
        /\ \A d \in Contexts : d # c => strong'[d] = strong[d]
        /\ \A s \in Sessions : owner'[s] = owner[s]
        /\ raw' = raw /\ of' = of
    BY <1>0, <1>i, <1>1 DEF New, HeldLive
  <2>c1. TypeOK'
    BY <1>0, <1>1 DEF New, TypeOK, Values
  <2>c2. Owned'
    BY <1>0, <2>2 DEF Owned
  <2>c3. Using'
    BY <1>0, <1>p, <1>i, <2>1, <2>2 DEF Using, Knows, Apart
  <2>c4. Apart'
    BY <1>0, <2>1 DEF Apart
  <2>c5. Holders'
    BY <1>0, <1>1, <2>2 DEF New, Holders, TypeOK
  <2>c6. HeldLive'
    BY <1>0, <1>1 DEF New, HeldLive, TypeOK
  <2>c7. FinalizedOnce'
    BY <1>0, <1>1 DEF New, FinalizedOnce
  <2>c8. NoSessionLost'
    BY <1>0, <2>1, <2>2 DEF NoSessionLost
  <2> QED
    BY <2>c1, <2>c2, <2>c3, <2>c4, <2>c5, <2>c6, <2>c7, <2>c8 DEF IInv
<1>2. ASSUME NEW t \in Threads, NEW w \in Threads, NEW v \in Values,
             Move(t, w, v)
      PROVE  IInv'
  <2>1. pc' = pc
    BY <1>2 DEF Move
  <2>c1. TypeOK'
    BY <1>0, <1>2 DEF Move, TypeOK
  <2>c2. Owned'
    BY <1>0, <1>2 DEF Move, Owned
  <2>c3. Using'
    BY <1>0, <1>i, <1>2 DEF Move, Using, Knows
  <2>c4. Apart'
    BY <1>0, <2>1 DEF Apart
  <2>c5. Holders'
    BY <1>0, <1>2 DEF Move, Holders
  <2>c6. HeldLive'
    BY <1>0, <1>2 DEF Move, HeldLive
  <2>c7. FinalizedOnce'
    BY <1>0, <1>2 DEF Move, FinalizedOnce
  <2>c8. NoSessionLost'
    BY <1>0, <1>2 DEF Move, NoSessionLost
  <2> QED
    BY <2>c1, <2>c2, <2>c3, <2>c4, <2>c5, <2>c6, <2>c7, <2>c8 DEF IInv
<1>3. ASSUME NEW t \in Threads, NEW c \in Contexts, NEW s \in Sessions,
             OpenBegin(t, c, s)
      PROVE  IInv'
  <2>1. pc' = [pc EXCEPT ![t] = At("lock", c, s)]
    BY <1>3 DEF OpenBegin, Goto
  <2>3. pc'[t] = At("lock", c, s)
        /\ (\A u \in Threads : u # t => pc'[u] = pc[u])
    BY <1>0, <2>1 DEF TypeOK
  <2>c1. TypeOK'
    BY <1>0, <1>3, <2>1 DEF OpenBegin, TypeOK, InCall
  <2>c2. Owned'
    BY <1>0, <1>3 DEF OpenBegin, Owned
  <2>c3. Using'
    BY <1>0, <1>c, <1>a, <1>3, <2>3 DEF OpenBegin, Using, Knows, TypeOK, Owned
  <2>c4. Apart'
    BY <1>0, <1>a, <1>3, <2>1 DEF OpenBegin, Apart
  <2>c5. Holders'
    BY <1>0, <1>a, <1>3, <2>1 DEF OpenBegin, Holders, TypeOK
  <2>c6. HeldLive'
    BY <1>0, <1>a, <1>3, <2>1 DEF OpenBegin, HeldLive, Holders
  <2>c7. FinalizedOnce'
    BY <1>0, <1>a, <1>3, <2>1 DEF OpenBegin, FinalizedOnce
  <2>c8. NoSessionLost'
    BY <1>0, <1>i, <1>3, <2>1 DEF OpenBegin, NoSessionLost
  <2> QED
    BY <2>c1, <2>c2, <2>c3, <2>c4, <2>c5, <2>c6, <2>c7, <2>c8 DEF IInv
<1>4. ASSUME NEW t \in Threads, Lock(t) PROVE IInv'
  <2>1. pc' = [pc EXCEPT ![t] = At("open", pc[t].ctx, pc[t].sess)]
    BY <1>4 DEF Lock, Goto
  <2>3. pc'[t] = At("open", pc[t].ctx, pc[t].sess) /\ (\A u \in Threads : u # t => pc'[u] = pc[u])
    BY <1>0, <2>1 DEF TypeOK
  <2>c1. TypeOK'
    BY <1>0, <1>i, <1>4, <2>1 DEF Lock, TypeOK, InCall
  <2>c2. Owned'
    BY <1>0, <1>4 DEF Lock, Owned
  <2>c3. Using'
    <3>1. Knows(t)'
      BY <1>0, <1>a, <1>4, <2>3 DEF Lock, Using, Knows
    <3>2. \A u \in Threads : u # t => Undisturbed(u)
      BY <1>4, <1>d, <2>3, Zenon DEF Lock, Undisturbed
    <3> QED
      BY <1>0, <3>1, <3>2, OthersKnow
  <2>c4. Apart'
    BY <1>0, <1>a, <2>1 DEF Apart
  <2>c5. Holders'
    BY <1>0, <1>a, <1>4, <2>1 DEF Lock, Holders
  <2>c6. HeldLive'
    BY <1>0, <1>c, <1>a, <1>4, <2>1 DEF Lock, HeldLive, TypeOK
  <2>c7. FinalizedOnce'
    BY <1>0, <1>a, <1>4, <2>1 DEF Lock, FinalizedOnce
  <2>c8. NoSessionLost'
    BY <1>0, <1>4, <2>1 DEF Lock, NoSessionLost
  <2> QED
    BY <2>c1, <2>c2, <2>c3, <2>c4, <2>c5, <2>c6, <2>c7, <2>c8 DEF IInv
<1>5. ASSUME NEW t \in Threads, OpenSucceeds(t) PROVE IInv'
  <2>1. pc' = [pc EXCEPT ![t] = At("release", pc[t].ctx, pc[t].sess)]
    BY <1>5 DEF OpenSucceeds, Goto
  <2>2. /\ pc[t].ctx \in Contexts /\ pc[t].sess \in Sessions
        /\ \A u \in Threads : u # t => pc[u].sess # pc[t].sess
    BY <1>0, <1>p, <1>i, <1>5 DEF OpenSucceeds, Using, Knows, Apart
  <2>3. pc'[t] = At("release", pc[t].ctx, pc[t].sess)
        /\ (\A u \in Threads : u # t => pc'[u] = pc[u])
    BY <1>0, <2>1 DEF TypeOK
  <2>c1. TypeOK'
    BY <1>0, <1>5, <2>1, <2>2 DEF OpenSucceeds, TypeOK, Values, InCall
  <2>c2. Owned'
    BY <1>0, <1>c, <1>5 DEF OpenSucceeds, Owned, TypeOK
  <2>c3. Using'
    <3>0. /\ pc'[t].at = "release" /\ pc'[t].sess = pc[t].sess
          /\ owner'[pc[t].sess] = t
      BY <1>0, <1>a, <1>5, <2>2, <2>3 DEF OpenSucceeds, TypeOK, Values
    <3>1. Knows(t)'
      BY <3>0 DEF Knows
    <3>2. \A u \in Threads : u # t => Undisturbed(u)
      BY <1>0, <1>5, <1>f, <1>d, <2>2, <2>3, Zenon DEF OpenSucceeds, TypeOK, Values, Undisturbed
    <3> QED
      BY <1>0, <3>1, <3>2, OthersKnow
  <2>c4. Apart'
    BY <1>0, <1>a, <2>1 DEF Apart
  <2>c5. Holders'
    BY <1>0, <1>i, <1>a, <1>5, <2>1
       DEF OpenSucceeds, Holders, TypeOK, Owned, HeldLive, FinalizedOnce
  <2>c6. HeldLive'
    <3>1. /\ teec' = teec /\ pc[t].at = "open" /\ t \in strong[pc[t].ctx]
          /\ \A c \in Contexts : c # pc[t].ctx => strong'[c] = strong[c]
      BY <1>0, <1>5 DEF OpenSucceeds, Holders, TypeOK
    <3>2. teec[pc[t].ctx] = "live"
      BY <1>0, <2>2, <3>1, Zenon DEF HeldLive
    <3>3. \A c \in Contexts : strong'[c] # {} => teec'[c] = "live"
      BY <1>0, <3>1, <3>2, Zenon DEF HeldLive
    <3>4. ASSUME NEW u \in Threads, pc'[u].at = "finalize"
          PROVE  strong'[pc'[u].ctx] = {} /\ teec'[pc'[u].ctx] = "live"
      <4>1. u # t /\ pc'[u] = pc[u] /\ pc[u].at = "finalize"
        BY <1>a, <2>3, <3>4
      <4>2. strong[pc[u].ctx] = {} /\ teec[pc[u].ctx] = "live" /\ pc[u].ctx # pc[t].ctx
        BY <1>0, <3>1, <4>1, Zenon DEF HeldLive
      <4>3. pc[u].ctx \in Contexts
        BY <1>c, <4>1
      <4> QED  BY <3>1, <4>1, <4>2, <4>3, Zenon
    <3> QED  BY <3>3, <3>4, Zenon DEF HeldLive
  <2>c7. FinalizedOnce'
    BY <1>0, <1>a, <1>5, <2>1 DEF OpenSucceeds, FinalizedOnce
  <2>c8. NoSessionLost'
    BY <1>0, <1>5, <2>1 DEF OpenSucceeds, NoSessionLost, TypeOK, Values
  <2> QED
    BY <2>c1, <2>c2, <2>c3, <2>c4, <2>c5, <2>c6, <2>c7, <2>c8 DEF IInv
<1>6. ASSUME NEW t \in Threads, OpenFails(t) PROVE IInv'
  <2>1. pc' = [pc EXCEPT ![t] = At("release", pc[t].ctx, Free)]
    BY <1>6, Zenon DEF OpenFails, Goto
  <2>3. pc'[t] = At("release", pc[t].ctx, Free)
        /\ (\A u \in Threads : u # t => pc'[u] = pc[u])
    BY <1>0, <2>1 DEF TypeOK
  <2>c1. TypeOK'
    BY <1>0, <1>c, <1>6, <2>1, Zenon DEF OpenFails, TypeOK, InCall
  <2>c2. Owned'
    BY <1>0, <1>6, Zenon DEF OpenFails, Owned
  <2>c3. Using'
    <3>1. Knows(t)'
      BY <1>a, <2>3 DEF Knows
    <3>2. \A u \in Threads : u # t => Undisturbed(u)
      BY <1>6, <1>d, <2>3, Zenon DEF OpenFails, Undisturbed
    <3> QED
      BY <1>0, <3>1, <3>2, OthersKnow
  <2>c4. Apart'
    BY <1>0, <1>a, <2>1 DEF Apart, Owned
  <2>c5. Holders'
    BY <1>0, <1>a, <1>6, <2>1 DEF OpenFails, Holders
  <2>c6. HeldLive'
    BY <1>0, <1>c, <1>a, <1>6, <2>1 DEF OpenFails, HeldLive, TypeOK
  <2>c7. FinalizedOnce'
    BY <1>0, <1>a, <1>6, <2>1 DEF OpenFails, FinalizedOnce
  <2>c8. NoSessionLost'
    BY <1>0, <1>6, <2>1 DEF OpenFails, NoSessionLost
  <2> QED
    BY <2>c1, <2>c2, <2>c3, <2>c4, <2>c5, <2>c6, <2>c7, <2>c8 DEF IInv
<1>7. ASSUME NEW t \in Threads, NEW s \in Sessions, InvokeBegin(t, s)
      PROVE  IInv'
  <2>1. pc' = [pc EXCEPT ![t] = At("invoke", of[s], s)]
    BY <1>7 DEF InvokeBegin, Goto
  <2>2. /\ pc[t].at = "idle" /\ pc[t].sess = Free
        /\ raw[s] = "open" /\ of[s] \in Contexts
        /\ \A u \in Threads : pc[u].sess # s
    <3>1. pc[t].at = "idle" /\ pc[t].sess = Free /\ owner[s] = t
      BY <1>i, <1>7 DEF InvokeBegin
    <3>2. raw[s] = "open" /\ of[s] \in Contexts
      BY <1>0, <3>1 DEF Owned
    <3>3. ASSUME NEW u \in Threads, pc[u].sess = s PROVE FALSE
      <4>1. u # t /\ pc[u].at \in InCall
        BY <1>p, <1>i, <3>1, <3>3
      <4> QED
        BY <1>0, <3>1, <3>3, <4>1 DEF Using, Knows, InCall
    <3> QED
      BY <3>1, <3>2, <3>3
  <2>3. pc'[t] = At("invoke", of[s], s)
        /\ (\A u \in Threads : u # t => pc'[u] = pc[u])
    BY <1>0, <2>1 DEF TypeOK
  <2>c1. TypeOK'
    BY <1>0, <1>7, <2>1, <2>2, Zenon DEF InvokeBegin, TypeOK, InCall
  <2>c2. Owned'
    BY <1>0, <1>7, Zenon DEF InvokeBegin, Owned
  <2>c3. Using'
    <3>0. /\ pc'[t].at = "invoke" /\ pc'[t].ctx = of'[s] /\ pc'[t].sess = s
          /\ owner'[s] = t
      BY <1>a, <1>7, <2>3 DEF InvokeBegin
    <3>1. Knows(t)'
      BY <3>0, Zenon DEF Knows
    <3>2. \A u \in Threads : u # t => Undisturbed(u)
      BY <1>7, <1>d, <2>3, Zenon DEF InvokeBegin, Undisturbed
    <3> QED
      BY <1>0, <3>1, <3>2, OthersKnow, Zenon
  <2>c4. Apart'
    BY <1>0, <1>a, <2>1, <2>2 DEF Apart
  <2>c5. Holders'
    BY <1>0, <1>a, <1>7, <2>1 DEF InvokeBegin, Holders
  <2>c6. HeldLive'
    BY <1>0, <1>p, <1>c, <1>a, <1>7, <2>1, <2>2, <2>3 DEF InvokeBegin, HeldLive
  <2>c7. FinalizedOnce'
    BY <1>0, <1>a, <1>7, <2>1 DEF InvokeBegin, FinalizedOnce
  <2>c8. NoSessionLost'
    BY <1>0, <1>i, <1>7, <2>1 DEF InvokeBegin, NoSessionLost
  <2> QED
    BY <2>c1, <2>c2, <2>c3, <2>c4, <2>c5, <2>c6, <2>c7, <2>c8 DEF IInv
<1>8. ASSUME NEW t \in Threads, InvokeReturns(t) PROVE IInv'
  <2>1. pc' = [pc EXCEPT ![t] = Idle]
    BY <1>8 DEF InvokeReturns, Return
  <2>3. pc'[t] = Idle /\ (\A u \in Threads : u # t => pc'[u] = pc[u])
    BY <1>0, <2>1 DEF TypeOK
  <2>c1. TypeOK'
    BY <1>0, <1>8, <2>1, Zenon DEF InvokeReturns, TypeOK
  <2>c2. Owned'
    BY <1>0, <1>8, Zenon DEF InvokeReturns, Owned
  <2>c3. Using'
    <3>1. Knows(t)'
      BY <1>i, <2>3, Zenon DEF Knows
    <3>2. \A u \in Threads : u # t => Undisturbed(u)
      BY <1>8, <1>d, <2>3, Zenon DEF InvokeReturns, Undisturbed
    <3> QED
      BY <1>0, <3>1, <3>2, OthersKnow
  <2>c4. Apart'
    BY <1>0, <1>i, <2>1 DEF Apart
  <2>c5. Holders'
    BY <1>0, <1>i, <1>8, <2>1 DEF InvokeReturns, Holders
  <2>c6. HeldLive'
    BY <1>0, <1>i, <1>8, <2>1, Zenon DEF InvokeReturns, HeldLive, TypeOK
  <2>c7. FinalizedOnce'
    BY <1>0, <1>i, <1>8, <2>1 DEF InvokeReturns, FinalizedOnce
  <2>c8. NoSessionLost'
    BY <1>0, <1>8, <2>1 DEF InvokeReturns, NoSessionLost
  <2> QED
    BY <2>c1, <2>c2, <2>c3, <2>c4, <2>c5, <2>c6, <2>c7, <2>c8 DEF IInv
<1>9. ASSUME NEW t \in Threads, NEW s \in Sessions, CloseBegin(t, s)
      PROVE  IInv'
  <2>1. pc' = [pc EXCEPT ![t] = At("close", of[s], s)]
    BY <1>9 DEF CloseBegin, Goto
  <2>2. /\ pc[t].at = "idle" /\ pc[t].sess = Free
        /\ raw[s] = "open" /\ of[s] \in Contexts
        /\ \A u \in Threads : pc[u].sess # s
    <3>1. pc[t].at = "idle" /\ pc[t].sess = Free /\ owner[s] = t
      BY <1>i, <1>9, Zenon DEF CloseBegin
    <3>2. raw[s] = "open" /\ of[s] \in Contexts
      BY <1>0, <3>1 DEF Owned
    <3>3. ASSUME NEW u \in Threads, pc[u].sess = s PROVE FALSE
      <4>1. u # t /\ pc[u].at \in InCall
        BY <1>p, <1>i, <3>1, <3>3
      <4> QED
        BY <1>0, <3>1, <3>3, <4>1 DEF Using, Knows, InCall
    <3> QED
      BY <3>1, <3>2, <3>3
  <2>3. pc'[t] = At("close", of[s], s)
        /\ (\A u \in Threads : u # t => pc'[u] = pc[u])
    BY <1>0, <2>1 DEF TypeOK
  <2>c1. TypeOK'
    BY <1>0, <1>9, <2>1, <2>2, Zenon DEF CloseBegin, TypeOK, InCall
  <2>c2. Owned'
    BY <1>0, <1>9 DEF CloseBegin, Owned
  <2>c3. Using'
    <3>1. Knows(t)'
      BY <1>0, <1>a, <1>9, <2>2, <2>3 DEF CloseBegin, TypeOK, Values, Knows
    <3>2. \A u \in Threads : u # t => Undisturbed(u)
      BY <1>0, <1>9, <1>f, <1>d, <2>2, <2>3, Zenon DEF CloseBegin, TypeOK, Values, Undisturbed
    <3> QED
      BY <1>0, <3>1, <3>2, OthersKnow, Zenon
  <2>c4. Apart'
    BY <1>0, <1>a, <2>1, <2>2 DEF Apart
  <2>c5. Holders'
    BY <1>0, <1>a, <1>9, <2>1 DEF CloseBegin, Holders
  <2>c6. HeldLive'
    BY <1>0, <1>c, <1>i, <1>a, <1>9, <2>1, <2>2, <2>3 DEF CloseBegin, HeldLive
  <2>c7. FinalizedOnce'
    BY <1>0, <1>a, <1>9, <2>1 DEF CloseBegin, FinalizedOnce
  <2>c8. NoSessionLost'
    BY <1>0, <1>i, <1>a, <1>9, <2>3 DEF CloseBegin, NoSessionLost, Using, Knows
  <2> QED
    BY <2>c1, <2>c2, <2>c3, <2>c4, <2>c5, <2>c6, <2>c7, <2>c8 DEF IInv
<1>10. ASSUME NEW t \in Threads, CloseReturns(t) PROVE IInv'
  <2>1. pc' = [pc EXCEPT ![t] = At("drop_ctx", of[pc[t].sess], pc[t].sess)]
    BY <1>10 DEF CloseReturns, Goto
  <2>0. pc[t].sess \in Sessions /\ raw[pc[t].sess] = "open" /\ owner[pc[t].sess] = Free
    BY <1>0, <1>10, Zenon DEF CloseReturns, Using, Knows
  <2>2. /\ of[pc[t].sess] \in Contexts /\ pc[t].sess \in strong[of[pc[t].sess]]
        /\ pc[t].sess \in Sessions /\ owner[pc[t].sess] = Free
        /\ \A u \in Threads : u # t => pc[u].sess # pc[t].sess
    BY <1>0, <2>0, Zenon DEF Owned, Holders, Apart
  <2>3. pc'[t] = At("drop_ctx", of[pc[t].sess], pc[t].sess)
        /\ (\A u \in Threads : u # t => pc'[u] = pc[u])
    BY <1>0, <2>1 DEF TypeOK
  <2>4. ASSUME NEW u \in Threads, u # t PROVE
          /\ pc'[u] = pc[u] /\ of' = of /\ owner' = owner /\ strong' = strong
          /\ pc[u].sess \in Sessions => raw'[pc[u].sess] = raw[pc[u].sess]
    BY <1>10, <2>2, <2>3, <2>4 DEF CloseReturns
  <2>5. raw'[pc[t].sess] = "closed" /\ of' = of /\ owner' = owner /\ strong' = strong
    BY <1>0, <1>10, <2>2, Zenon DEF CloseReturns, TypeOK
  <2>c3. Using'
    <3>0. /\ pc'[t].at = "drop_ctx" /\ pc'[t].sess = pc[t].sess
          /\ pc'[t].ctx = of[pc[t].sess]
      BY <1>a, <2>3
    <3>1. Knows(t)'
      BY <2>2, <2>5, <3>0, Zenon DEF Knows
    <3>2. \A u \in Threads : u # t => Undisturbed(u)
      BY <1>0, <1>10, <1>f, <1>d, <2>2, <2>3 DEF CloseReturns, TypeOK, Undisturbed
    <3> QED
      BY <1>0, <3>1, <3>2, OthersKnow
  <2>c1. TypeOK'
    BY <1>0, <1>10, <2>1, <2>2, Zenon DEF CloseReturns, TypeOK, InCall
  <2>c2. Owned'
    BY <1>0, <1>10 DEF CloseReturns, Owned, Using, Knows
  <2>c4. Apart'
    BY <1>0, <1>a, <2>1 DEF Apart
  <2>c5. Holders'
    BY <1>0, <1>a, <1>10, <2>3 DEF CloseReturns, Holders
  <2>c6. HeldLive'
    BY <1>0, <1>c, <1>a, <1>10, <2>1 DEF CloseReturns, HeldLive, TypeOK, Values
  <2>c7. FinalizedOnce'
    BY <1>0, <1>a, <1>10, <2>1 DEF CloseReturns, FinalizedOnce
  <2>c8. NoSessionLost'
    BY <1>0, <1>10, <2>1 DEF CloseReturns, NoSessionLost, TypeOK
  <2> QED
    BY <2>c1, <2>c2, <2>c3, <2>c4, <2>c5, <2>c6, <2>c7, <2>c8, Zenon DEF IInv
<1>11. ASSUME NEW t \in Threads, Finalize(t) PROVE IInv'
  <2>1. pc' = [pc EXCEPT ![t] = Idle]
    BY <1>11, Zenon DEF Finalize, Return
  <2>3. pc'[t] = Idle /\ (\A u \in Threads : u # t => pc'[u] = pc[u])
    BY <1>0, <2>1 DEF TypeOK
  <2>c1. TypeOK'
    BY <1>0, <1>11, <2>1, Zenon DEF Finalize, TypeOK
  <2>c2. Owned'
    BY <1>0, <1>11, Zenon DEF Finalize, Owned
  <2>c3. Using'
    <3>1. Knows(t)'
      BY <1>i, <2>3, Zenon DEF Knows
    <3>2. \A u \in Threads : u # t => Undisturbed(u)
      BY <1>11, <1>d, <2>3, Zenon DEF Finalize, Undisturbed
    <3> QED
      BY <1>0, <3>1, <3>2, OthersKnow
  <2>c4. Apart'
    BY <1>0, <1>i, <2>1 DEF Apart
  <2>c5. Holders'
    BY <1>0, <1>i, <1>11, <2>1 DEF Finalize, Holders
  <2>c6. HeldLive'
    BY <1>0, <1>i, <1>11, <2>1 DEF Finalize, HeldLive, TypeOK, FinalizedOnce
  <2>c7. FinalizedOnce'
    <3>1. \A u \in Threads : pc'[u].at = "finalize" =>
            /\ pc'[u] = pc[u] /\ pc[u].ctx # pc[t].ctx
            /\ teec'[pc[u].ctx] = teec[pc[u].ctx]
      BY <1>0, <1>c, <1>i, <1>11, <2>3 DEF Finalize, FinalizedOnce, TypeOK
    <3> QED
      BY <1>0, <3>1 DEF FinalizedOnce
  <2>c8. NoSessionLost'
    BY <1>0, <1>11, <2>1 DEF Finalize, NoSessionLost
  <2> QED
    BY <2>c1, <2>c2, <2>c3, <2>c4, <2>c5, <2>c6, <2>c7, <2>c8 DEF IInv
<1>12. ASSUME NEW t \in Threads, NEW c \in Contexts, DropContext(t, c)
       PROVE  IInv'
  <2>2. pc[t].at = "idle" /\ pc[t].sess = Free /\ c \in strong[c]
    BY <1>0, <1>i, <1>12, Zenon DEF DropContext, Holders
  <2>3. DropArc(t, c, c) /\ teec' = teec
    BY <1>12, Zenon DEF DropContext
  <2>4. /\ \A u \in Threads : u # t => pc'[u] = pc[u]
        /\ pc'[t] = At("finalize", c, Free) \/ pc'[t] = Idle
        /\ strong'[c] = strong[c] \ {c}
        /\ \A d \in Contexts : d # c => strong'[d] = strong[d]
        /\ strong' \in [Contexts -> SUBSET (Values \cup Threads)]
        /\ pc' \in [Threads -> Places]
    BY <1>0, <2>3, DropArcType
  <2>5. pc'[t].sess = Free /\ pc'[t].at \in {"idle", "finalize"}
    BY <1>i, <1>a, <2>4
  <2>7. raw' = raw /\ of' = of /\ (\A s \in Sessions : owner'[s] = owner[s])
    BY <1>12 DEF DropContext
  <2>8. ASSUME NEW d \in Contexts, NEW k \in strong[d], k # c
        PROVE  k \in strong'[d]
    BY <2>4, <2>8
  <2>c1. TypeOK'
    BY <1>0, <1>12, <2>4, Zenon DEF DropContext, TypeOK
  <2>c3. Using'
    <3>1. Knows(t)'
      BY <2>5, Zenon DEF Knows
    <3>2. ASSUME NEW u \in Threads, u # t, pc[u].at = "drop_ctx"
          PROVE  pc[u].sess \in strong'[of[pc[u].sess]]
      BY <1>d, <2>8, <3>2, Zenon
    <3>3. \A u \in Threads : u # t => Undisturbed(u)
      BY <1>f, <2>4, <2>7, <3>2, Zenon DEF Undisturbed
    <3> QED
      BY <1>0, <3>1, <3>3, OthersKnow, Zenon
  <2>c5. Holders'
    <3>1. \A d \in Contexts : owner'[d] # Free => d \in strong'[d]
      BY <1>0, <1>12, <2>8 DEF DropContext, Holders, TypeOK
    <3>2. \A s \in Sessions : raw'[s] = "open" => s \in strong'[of'[s]]
      BY <1>0, <2>7, <2>8 DEF Holders, Owned
    <3>3. \A u \in Threads :
            pc'[u].at \in {"lock", "open", "release"} =>
              u \in strong'[pc'[u].ctx]
      BY <1>0, <1>c, <2>4, <2>5 DEF Holders
    <3> QED
      BY <3>1, <3>2, <3>3, Zenon DEF Holders
  <2>c2. Owned'
    BY <1>0, <1>12 DEF DropContext, Owned
  <2>c4. Apart'
    BY <1>0, <2>4, <2>5 DEF Apart
  <2>c6. NoSessionLost'
    BY <1>0, <1>i, <1>12, <2>4 DEF DropContext, NoSessionLost
  <2>6. HeldLive' /\ FinalizedOnce'
    BY <1>0, <2>2, <2>3, DropArcLive, Zenon
  <2> QED
    BY <2>c1, <2>c2, <2>c3, <2>c4, <2>c5, <2>c6, <2>6 DEF IInv
<1>13. ASSUME NEW t \in Threads, Release(t) PROVE IInv'
  <2>2. pc[t].ctx \in Contexts /\ t \in strong[pc[t].ctx] /\ pc[t].at = "release"
    BY <1>0, <1>p, <1>i, <1>13, Zenon DEF Release, Holders
  <2>3. DropArc(t, pc[t].ctx, t) /\ teec' = teec
    BY <1>13, Zenon DEF Release
  <2>4. /\ \A u \in Threads : u # t => pc'[u] = pc[u]
        /\ pc'[t] = At("finalize", pc[t].ctx, Free) \/ pc'[t] = Idle
        /\ strong'[pc[t].ctx] = strong[pc[t].ctx] \ {t}
        /\ \A d \in Contexts : d # pc[t].ctx => strong'[d] = strong[d]
        /\ strong' \in [Contexts -> SUBSET (Values \cup Threads)]
        /\ pc' \in [Threads -> Places]
    BY <1>0, <2>2, <2>3, DropArcType
  <2>5. pc'[t].sess = Free /\ pc'[t].at \in {"idle", "finalize"}
    BY <1>i, <1>a, <2>4
  <2>7. raw' = raw /\ of' = of /\ (\A s \in Sessions : owner'[s] = owner[s])
    BY <1>13, Zenon DEF Release
  <2>8. ASSUME NEW d \in Contexts, NEW k \in strong[d], k # t
        PROVE  k \in strong'[d]
    BY <2>4, <2>8, Zenon
  <2>c1. TypeOK'
    BY <1>0, <1>13, <2>4, Zenon DEF Release, TypeOK
  <2>c3. Using'
    <3>1. Knows(t)'
      BY <2>5, Zenon DEF Knows
    <3>2. ASSUME NEW u \in Threads, u # t, pc[u].at = "drop_ctx"
          PROVE  pc[u].sess \in strong'[of[pc[u].sess]]
      BY <1>d, <2>8, <3>2, Zenon
    <3>3. \A u \in Threads : u # t => Undisturbed(u)
      BY <1>f, <2>4, <2>7, <3>2, Zenon DEF Undisturbed
    <3> QED
      BY <1>0, <3>1, <3>3, OthersKnow
  <2>c5. Holders'
    <3>1. \A d \in Contexts : owner'[d] # Free => d \in strong'[d]
      BY <1>0, <1>13, <2>8, Zenon DEF Release, Holders
    <3>2. \A s \in Sessions : raw'[s] = "open" => s \in strong'[of'[s]]
      BY <1>0, <2>7, <2>8 DEF Holders, Owned
    <3>3. \A u \in Threads :
            pc'[u].at \in {"lock", "open", "release"} =>
              u \in strong'[pc'[u].ctx]
      BY <1>0, <1>c, <2>4, <2>5 DEF Holders
    <3> QED
      BY <3>1, <3>2, <3>3, Zenon DEF Holders
  <2>c2. Owned'
    BY <1>0, <1>13, Zenon DEF Release, Owned
  <2>c4. Apart'
    BY <1>0, <2>4, <2>5 DEF Apart
  <2>c6. NoSessionLost'
    BY <1>0, <1>13, <2>4 DEF Release, NoSessionLost
  <2>6. HeldLive' /\ FinalizedOnce'
    BY <1>0, <2>2, <2>3, DropArcLive, Zenon
  <2> QED
    BY <2>c1, <2>c2, <2>c3, <2>c4, <2>c5, <2>c6, <2>6, Zenon DEF IInv
<1>14. ASSUME NEW t \in Threads, DropCtx(t) PROVE IInv'
  <2>2. /\ pc[t].ctx \in Contexts /\ pc[t].sess \in Sessions
        /\ pc[t].sess \in strong[pc[t].ctx] /\ pc[t].at = "drop_ctx"
    BY <1>0, <1>14, Zenon DEF DropCtx, Using, Knows
  <2>3. DropArc(t, pc[t].ctx, pc[t].sess) /\ teec' = teec
    BY <1>14, Zenon DEF DropCtx
  <2>4. /\ \A u \in Threads : u # t => pc'[u] = pc[u]
        /\ pc'[t] = At("finalize", pc[t].ctx, Free) \/ pc'[t] = Idle
        /\ strong'[pc[t].ctx] = strong[pc[t].ctx] \ {pc[t].sess}
        /\ \A d \in Contexts : d # pc[t].ctx => strong'[d] = strong[d]
        /\ strong' \in [Contexts -> SUBSET (Values \cup Threads)]
        /\ pc' \in [Threads -> Places]
    BY <1>0, <2>2, <2>3, DropArcType
  <2>5. pc'[t].sess = Free /\ pc'[t].at \in {"idle", "finalize"}
    BY <1>i, <1>a, <2>4
  <2>7. raw' = raw /\ of' = of /\ (\A s \in Sessions : owner'[s] = owner[s])
    BY <1>14, Zenon DEF DropCtx
  <2>8. ASSUME NEW d \in Contexts, NEW k \in strong[d], k # pc[t].sess
        PROVE  k \in strong'[d]
    BY <2>4, <2>8, Zenon
  <2>c1. TypeOK'
    BY <1>0, <1>14, <2>4, Zenon DEF DropCtx, TypeOK
  <2>c3. Using'
    <3>1. Knows(t)'
      BY <2>5, Zenon DEF Knows
    <3>2. ASSUME NEW u \in Threads, u # t, pc[u].at = "drop_ctx"
          PROVE  pc[u].sess \in strong'[of[pc[u].sess]]
      <4>1. pc[u].sess # pc[t].sess
        BY <1>0, <1>d, <3>2, Zenon DEF Apart
      <4> QED
        BY <1>d, <2>8, <3>2, <4>1, Zenon
    <3>3. \A u \in Threads : u # t => Undisturbed(u)
      BY <1>f, <2>4, <2>7, <3>2, Zenon DEF Undisturbed
    <3> QED
      BY <1>0, <3>1, <3>3, OthersKnow
  <2>c5. Holders'
    <3>1. \A d \in Contexts : owner'[d] # Free => d \in strong'[d]
      BY <1>0, <1>14, <2>2, <2>8, Zenon DEF DropCtx, Holders
    <3>2. \A s \in Sessions : raw'[s] = "open" => s \in strong'[of'[s]]
      BY <1>0, <2>2, <2>7, <2>8, Zenon DEF Holders, Owned, Using, Knows
    <3>3. \A u \in Threads :
            pc'[u].at \in {"lock", "open", "release"} =>
              u \in strong'[pc'[u].ctx]
      BY <1>0, <1>c, <2>2, <2>4, <2>5 DEF Holders
    <3> QED
      BY <3>1, <3>2, <3>3, Zenon DEF Holders
  <2>c2. Owned'
    BY <1>0, <1>14, Zenon DEF DropCtx, Owned
  <2>c4. Apart'
    BY <1>0, <2>4, <2>5 DEF Apart
  <2>c6. NoSessionLost'
    BY <1>0, <1>14, <2>4 DEF DropCtx, NoSessionLost
  <2>6. HeldLive' /\ FinalizedOnce'
    BY <1>0, <2>2, <2>3, DropArcLive, Zenon
  <2> QED
    BY <2>c1, <2>c2, <2>c3, <2>c4, <2>c5, <2>c6, <2>6, Zenon DEF IInv
<1>15. CASE UNCHANGED vars
  <2>1. TypeOK' /\ Owned' /\ Apart'
    BY <1>0, <1>15, Zenon DEF vars, TypeOK, Owned, Apart
  <2>2. Using'
    BY <1>0, <1>15 DEF vars, Using, Knows
  <2>3. Holders'
    BY <1>0, <1>15, Zenon DEF vars, Holders
  <2>4. HeldLive' /\ FinalizedOnce'
    BY <1>0, <1>15, Zenon DEF vars, HeldLive, FinalizedOnce
  <2>5. NoSessionLost'
    BY <1>0, <1>15, Zenon DEF vars, NoSessionLost
  <2> QED
    BY <2>1, <2>2, <2>3, <2>4, <2>5, Zenon DEF IInv
<1> QED
  BY <1>1, <1>2, <1>3, <1>4, <1>5, <1>6, <1>7, <1>8, <1>9, <1>10, <1>11, <1>12,
     <1>13, <1>14, <1>15
     DEF Next, Step

(* Whatever the threads do with contexts and sessions, the invariant of    *)
(* the reference count holds.                                              *)
LEMMA Inductive ==
  ASSUME ConstantsAssumption
  PROVE  Spec => []IInv
BY InitIInv, InductiveStep, PTL DEF Spec

(* Every variable keeps its type; in particular a thread inside the API    *)
(* always works for a context.                                             *)
THEOREM TypeCorrect ==
  ASSUME ConstantsAssumption
  PROVE  Spec => []TypeOK
BY Inductive, PTL DEF IInv

(* A thread that hands libteec a context, and an open session, hold its    *)
(* Arc, and a context that is held is live.                                *)
LEMMA HeldValid ==
  ASSUME ConstantsAssumption
  PROVE  IInv => ContextOutlivesSessions
<1> SUFFICES ASSUME IInv PROVE ContextOutlivesSessions
  OBVIOUS
<1>1. \A t \in Threads : pc[t] \in Places
  BY DEF IInv, TypeOK
<1>2. \A t \in Threads : pc[t].at # "idle" => pc[t].ctx \in Contexts
  BY <1>1, PlaceType DEF Idle
<1> QED
  BY <1>2, Different
     DEF Distinct, IInv, ContextOutlivesSessions, HeldLive, Holders, Owned, Using, Knows

(* libteec is never handed a finalized TEEC_Context, nor a session of one: *)
(* the Arc that Session keeps in _ctx makes the context outlive it.        *)
THEOREM ContextValid ==
  ASSUME ConstantsAssumption
  PROVE  Spec => []ContextOutlivesSessions
BY HeldValid, Inductive, PTL

(* TEEC_FinalizeContext runs once for a context, and no open TEEC_Session  *)
(* is ever left without a Session value or a thread that is closing it.    *)
THEOREM NothingLostOrTwice ==
  ASSUME ConstantsAssumption
  PROVE  Spec => [](FinalizedOnce /\ NoSessionLost)
BY Inductive, PTL DEF IInv

(* In particular, Session::drop closes every session that open_session     *)
(* got: none stays open without an owner.                                  *)
THEOREM NoneLost ==
  ASSUME ConstantsAssumption
  PROVE  Spec => []NoSessionLost
BY NothingLostOrTwice, PTL
=============================================================================
