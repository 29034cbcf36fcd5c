-------------------------- MODULE InterfaceProofs ---------------------------
(***************************************************************************)
(* Proofs about what crosses the borders of a TA, for every value of the   *)
(* constants: the parameters of a call (Parameters), errors over a chain of*)
(* TAs of any length (ErrorCodes), bytes over a socket (Sockets) and the   *)
(* answer of a plugin of the supplicant (SuppPlugin).                      *)
(***************************************************************************)
EXTENDS Parameters, ErrorCodes, Sockets, SuppPlugin, TLAPS

-----------------------------------------------------------------------------
(* Parameters: a TA reads and writes only what was offered. *)

Sizes == 0..MaxUsize
Param == [kind : Kinds, length : 0..MaxLen, size : Sizes, value : Vals]

(* The types.  The capacities of the deprecated wrappers are codes of      *)
(* kinds, which no property of theirs is about.                            *)
TypeOK ==
  /\ api \in {"ca", "ta"}
  /\ callee \in {"typed", "deprecated"}
  /\ declared \in Expected
  /\ slot \in [Slots -> Param]
  /\ raw \in [Slots -> [size : Sizes, value : Vals]]
  /\ DOMAIN cap = Slots
  /\ callee = "typed" => \A i \in Slots : cap[i] \in Sizes
  /\ phase \in {"idle", "entry", "handler", "ok", "err"}
  /\ op \in {"open", "invoke"}
  /\ held \in BOOLEAN
  /\ alive \in BOOLEAN
  /\ updated \in {"ok", "err"}
  /\ touched \in [Slots -> Sizes]
  /\ offered \in [Slots -> Sizes]

(* What a caller keeps between calls is within its buffers. *)
KeptInBounds ==
  callee = "typed" \/ api = "ta" =>
    \A i \in Slots : slot[i].size <= slot[i].length

(* What is in the array of the call is, with typed wrappers, as well. *)
RawInBounds ==
  callee = "typed" =>
    \A i \in Slots : raw[i].size <= slot[i].length /\ touched[i] <= slot[i].length

(* The sizes of the call are still the ones offered when it is entered. *)
EnteredAsOffered ==
  phase = "entry" => \A i \in Slots : raw[i].size = offered[i]

(* In the function the capacities are, and so are the sizes of inputs. *)
CapAsOffered ==
  phase = "handler" /\ callee = "typed" =>
    \A i \in Slots : /\ cap[i] = offered[i]
                     /\ slot[i].kind \notin Writable => raw[i].size = offered[i]

(* What was offered is a part of the buffer, and all of it in a TA. *)
OfferedInBounds ==
  phase # "idle" =>
    \A i \in Slots : /\ callee = "typed" => offered[i] <= slot[i].length
                     /\ api = "ta" => offered[i] = slot[i].length

(* Between calls there is no array. *)
NoCallIdle ==
  phase = "idle" => \A i \in Slots : raw[i].size = 0 /\ touched[i] = 0

IInv ==
  /\ TypeOK /\ NoCallIdle /\ KeptInBounds /\ RawInBounds /\ EnteredAsOffered /\ CapAsOffered
  /\ OfferedInBounds /\ UpdateNeverFails /\ SessionNotLost

-----------------------------------------------------------------------------
(* A new parameter has its type, and its size is within its buffer. *)
LEMMA NewParamFacts ==
  ASSUME NEW who, NEW k \in Kinds, NEW n \in 0..MaxLen, NEW v \in Vals
  PROVE  /\ NewParam(who, k, n, v) \in Param
         /\ NewParam(who, k, n, v).size <= NewParam(who, k, n, v).length
<1> DEFINE p == NewParam(who, k, n, v)
<1>1. /\ p.kind = k
      /\ p.length = IF k \in Memrefs THEN n ELSE 0
      /\ p.size = IF k \in Memrefs /\ who = "ca" THEN n ELSE 0
      /\ p.value = IF k \in Memrefs \cup {"None"} THEN 0 ELSE v
  BY DEF NewParam
<1>2. p.length \in 0..MaxLen /\ p.size \in Sizes /\ p.size <= p.length
  BY <1>1, BoundsAssumption DEF Sizes
<1>3. p.value \in Vals
  BY <1>1, ValsAssumption
<1> QED  BY <1>1, <1>2, <1>3 DEF NewParam, Param

(* So have the parameters of a new Operation or TeeParams. *)
LEMMA FreshFacts ==
  ASSUME NEW who, NEW s \in Fresh(who)
  PROVE  /\ s \in [Slots -> Param]
         /\ \A i \in Slots : s[i].size <= s[i].length
<1>1. PICK sig \in Signatures, len \in [Slots -> 0..MaxLen], v \in Vals :
        s = [i \in Slots |-> NewParam(who, sig[i], len[i], v)]
  BY DEF Fresh
<1>2. \A i \in Slots : sig[i] \in Kinds /\ len[i] \in 0..MaxLen
  BY SignaturesAssumption
<1> QED  BY <1>1, <1>2, NewParamFacts

(* The array of no call: sizes of 0. *)
LEMMA NoCallFacts ==
  /\ NoCall.raw \in [Slots -> [size : Sizes, value : Vals]]
  /\ NoCall.sizes \in [Slots -> Sizes]
  /\ \A i \in Slots : NoCall.raw[i].size = 0 /\ NoCall.sizes[i] = 0
BY BoundsAssumption, ValsAssumption DEF NoCall, Sizes

(* The invariant holds before the first call. *)
LEMMA InitIInv == Init => IInv
<1> SUFFICES ASSUME Init PROVE IInv
  OBVIOUS
<1>1. slot \in [Slots -> Param] /\ \A i \in Slots : slot[i].size <= slot[i].length
  BY FreshFacts DEF Init
<1>2. TypeOK
  BY <1>1, NoCallFacts, Zenon DEF Init, TypeOK, Param
<1>3. \A i \in Slots : slot[i].length \in Nat
  BY <1>1 DEF Param
<1>4. RawInBounds
  BY <1>3, NoCallFacts DEF Init, RawInBounds
<1>5. NoCallIdle
  BY NoCallFacts DEF Init, NoCallIdle
<1> QED
  BY <1>1, <1>2, <1>4, <1>5, Zenon DEF Init, IInv, KeptInBounds, EnteredAsOffered,
     CapAsOffered, OfferedInBounds, UpdateNeverFails, SessionNotLost

-----------------------------------------------------------------------------
(* The steps of the caller between calls and into one *)

(* The caller makes a call. *)
LEMMA CallKeeps ==
  ASSUME IInv, NEW o \in {"open", "invoke"}, Call(o)
  PROVE  IInv'
<1>1. /\ phase' = "entry"
      /\ slot' = slot /\ callee' = callee /\ api' = api
      /\ \A i \in Slots : raw'[i].size = offered'[i] /\ touched'[i] = 0
  BY DEF Call, caller
<1>2. \A i \in Slots : /\ offered'[i] \in Sizes
                       /\ callee = "typed" => offered'[i] <= slot[i].length
                       /\ api = "ta" => offered'[i] = slot[i].length
  BY BoundsAssumption DEF Call, IInv, TypeOK, KeptInBounds, Param, SizeSent, Sizes
<1>3. TypeOK'
  <2>1. raw' \in [Slots -> [size : Sizes, value : Vals]]
    BY <1>1, <1>2 DEF Call, IInv, TypeOK, Param
  <2>2. touched' \in [Slots -> Sizes] /\ offered' \in [Slots -> Sizes]
    BY <1>2, BoundsAssumption DEF Call, Sizes
  <2> QED  BY <2>1, <2>2 DEF Call, caller, IInv, TypeOK
<1>4. RawInBounds' /\ OfferedInBounds'
  <2>1. \A i \in Slots : 0 <= slot[i].length
    BY DEF IInv, TypeOK, Param
  <2>2. RawInBounds'
    BY <1>1, <1>2, <2>1 DEF RawInBounds
  <2>3. OfferedInBounds'
    BY <1>1, <1>2 DEF OfferedInBounds
  <2> QED  BY <2>2, <2>3
<1>5. EnteredAsOffered' /\ CapAsOffered' /\ NoCallIdle'
  BY <1>1 DEF EnteredAsOffered, CapAsOffered, NoCallIdle
<1>6. KeptInBounds' /\ UpdateNeverFails' /\ SessionNotLost'
  BY DEF Call, caller, IInv, KeptInBounds, UpdateNeverFails, SessionNotLost
<1> QED  BY <1>3, <1>4, <1>5, <1>6 DEF IInv

(* Other parameters, while no call is in progress. *)
LEMMA NewSlotsKeep ==
  ASSUME IInv, phase = "idle",
         slot' \in [Slots -> Param],
         \A i \in Slots : slot[i].size <= slot[i].length => slot'[i].size <= slot'[i].length,
         UNCHANGED <<caller, raw, cap, phase, op, held, alive, updated, history>>
  PROVE  IInv'
<1>1. TypeOK'
  BY DEF IInv, TypeOK, caller, history
<1>2. KeptInBounds'
  BY DEF IInv, KeptInBounds, caller
<1>3. RawInBounds'
  <2>1. \A i \in Slots : 0 <= slot'[i].length
    BY DEF Param
  <2> QED  BY <2>1 DEF IInv, NoCallIdle, RawInBounds, caller, history
<1> QED
  BY <1>1, <1>2, <1>3 DEF IInv, NoCallIdle, EnteredAsOffered, CapAsOffered, OfferedInBounds,
     UpdateNeverFails, SessionNotLost, caller, history

(* New parameters, *)
LEMMA NewOperationKeeps ==
  ASSUME IInv, NewOperation
  PROVE  IInv'
<1>1. slot' \in [Slots -> Param] /\ \A i \in Slots : slot'[i].size <= slot'[i].length
  BY FreshFacts DEF NewOperation
<1> QED  BY <1>1, NewSlotsKeep DEF NewOperation

(* or one of them replaced. *)
LEMMA SetParamKeeps ==
  ASSUME IInv, NEW i \in Slots, NEW n \in 0..MaxLen, NEW v \in Vals, SetParam(i, n, v)
  PROVE  IInv'
<1>1. PICK sig \in Signatures : slot' = [slot EXCEPT ![i] = NewParam(api, sig[i], n, v)]
  BY Zenon DEF SetParam
<1> DEFINE p == NewParam(api, sig[i], n, v)
<1>2. p \in Param /\ p.size <= p.length
  BY NewParamFacts, SignaturesAssumption
<1> HIDE DEF p
<1>3. slot' = [slot EXCEPT ![i] = p] /\ slot \in [Slots -> Param]
  BY <1>1 DEF p, IInv, TypeOK
<1>4. /\ slot' \in [Slots -> Param]
      /\ \A j \in Slots : slot[j].size <= slot[j].length => slot'[j].size <= slot'[j].length
  BY <1>2, <1>3
<1> QED  BY <1>4, NewSlotsKeep DEF SetParam

(* The session that is dropped was the caller's. *)
LEMMA DropKeeps ==
  ASSUME IInv, DropSession
  PROVE  IInv'
<1>1. TypeOK'
  BY Zenon DEF DropSession, caller, history, IInv, TypeOK
<1>2. KeptInBounds' /\ RawInBounds' /\ NoCallIdle' /\ SessionNotLost'
  BY Zenon DEF DropSession, caller, history, IInv, KeptInBounds, RawInBounds, NoCallIdle,
     SessionNotLost
<1> QED
  BY <1>1, <1>2 DEF DropSession, caller, history, IInv, EnteredAsOffered, CapAsOffered,
     OfferedInBounds, UpdateNeverFails

-----------------------------------------------------------------------------
(* The steps of the callee *)

(* The callee checks the types and makes its wrappers. *)
LEMMA EnterKeeps ==
  ASSUME IInv, Enter \/ EnterDeprecated
  PROVE  IInv'
<1>1. /\ phase = "entry" /\ phase' = "handler"
      /\ callee = "typed" => cap' = [i \in Slots |-> raw[i].size]
      /\ DOMAIN cap' = Slots
      /\ UNCHANGED <<caller, slot, raw, op, held, alive, updated, history>>
  BY DEF Enter, EnterDeprecated
<1>2. TypeOK'
  BY <1>1 DEF caller, history, IInv, TypeOK
<1>3. CapAsOffered'
  BY <1>1 DEF caller, history, IInv, EnteredAsOffered, CapAsOffered
<1>4. KeptInBounds' /\ RawInBounds' /\ NoCallIdle' /\ EnteredAsOffered'
  BY <1>1 DEF caller, history, IInv, KeptInBounds, RawInBounds, NoCallIdle,
     EnteredAsOffered
<1> QED
  BY <1>1, <1>2, <1>3, <1>4 DEF caller, history, IInv, OfferedInBounds,
     UpdateNeverFails, SessionNotLost

(* The call is answered, by the entry point or by the function. *)
LEMMA AnswerKeeps ==
  ASSUME IInv, Reject \/ HandlerReturns
  PROVE  IInv'
<1>1. /\ phase # "idle" /\ phase' \in {"ok", "err"}
      /\ UNCHANGED <<caller, slot, raw, cap, op, held, alive, updated, history>>
  BY DEF Reject, HandlerReturns
<1>2. TypeOK'
  BY <1>1 DEF caller, history, IInv, TypeOK
<1>3. KeptInBounds' /\ RawInBounds' /\ NoCallIdle' /\ EnteredAsOffered' /\ CapAsOffered'
  BY <1>1 DEF caller, history, IInv, KeptInBounds, RawInBounds, NoCallIdle,
     EnteredAsOffered, CapAsOffered
<1> QED
  BY <1>1, <1>2, <1>3 DEF caller, history, IInv, OfferedInBounds, UpdateNeverFails,
     SessionNotLost

(* What the function may do to the array of the call: keep the types,      *)
(* and, with typed wrappers, stay within what was offered and leave the    *)
(* sizes of what it cannot write.                                          *)
LEMMA HandlerKeeps ==
  ASSUME IInv, Handle,
         raw' \in [Slots -> [size : Sizes, value : Vals]],
         touched' \in [Slots -> Sizes],
         callee = "typed" =>
           \A i \in Slots : /\ raw'[i].size <= slot[i].length
                            /\ touched'[i] <= slot[i].length
                            /\ slot[i].kind \notin Writable => raw'[i].size = raw[i].size
  PROVE  IInv'
<1>1. /\ phase = "handler"
      /\ UNCHANGED <<caller, slot, cap, phase, op, held, alive, updated, offered>>
  BY DEF Handle
<1>2. TypeOK'
  BY <1>1 DEF caller, IInv, TypeOK
<1>3. RawInBounds' /\ KeptInBounds'
  BY <1>1 DEF caller, IInv, RawInBounds, KeptInBounds
<1>4. CapAsOffered'
  BY <1>1 DEF caller, IInv, CapAsOffered
<1>5. OfferedInBounds'
  BY <1>1 DEF caller, IInv, OfferedInBounds
<1> QED
  BY <1>1, <1>2, <1>3, <1>4, <1>5, Zenon DEF caller, IInv, NoCallIdle, EnteredAsOffered,
     UpdateNeverFails, SessionNotLost

(* The buffer that a typed wrapper offers is the one of the call. *)
LEMMA BufferLenFacts ==
  ASSUME IInv, phase = "handler", callee = "typed",
         NEW i \in Slots, slot[i].kind \in Memrefs
  PROVE  /\ BufferLen(i) = offered[i]
         /\ BufferLen(i) \in Sizes
         /\ BufferLen(i) <= slot[i].length
<1>1. slot[i].kind = "MemrefInput" => slot[i].kind \notin Writable
  BY DEF Writable
<1>2. BufferLen(i) = offered[i]
  BY <1>1 DEF IInv, CapAsOffered, BufferLen
<1> QED  BY <1>2 DEF IInv, TypeOK, OfferedInBounds

(* A buffer is used up to an end within it. *)
LEMMA ReachFacts ==
  ASSUME IInv, NEW i \in Slots, NEW end \in Sizes, Reach(i, end)
  PROVE  /\ touched' \in [Slots -> Sizes]
         /\ callee = "typed" /\ end <= slot[i].length =>
              \A j \in Slots : touched'[j] <= slot[j].length
<1>1. touched \in [Slots -> Sizes] /\ slot \in [Slots -> Param]
  BY DEF IInv, TypeOK
<1>2. touched' = [touched EXCEPT ![i] = IF end > touched[i] THEN end ELSE touched[i]]
  BY DEF Reach
<1>3. \A j \in Slots : touched'[j] = touched[j] \/ (j = i /\ touched'[j] = end)
  BY <1>1, <1>2
<1>4. touched' \in [Slots -> Sizes]
  BY <1>1, <1>2, <1>3
<1>5. callee = "typed" => \A j \in Slots : touched[j] <= slot[j].length
  BY DEF IInv, RawInBounds
<1> QED  BY <1>3, <1>4, <1>5

(* A size is reported. *)
LEMMA SetSizeFacts ==
  ASSUME IInv, NEW i \in Slots, NEW n \in Sizes, SetSize(i, n)
  PROVE  /\ raw' \in [Slots -> [size : Sizes, value : Vals]]
         /\ callee = "typed" /\ slot[i].kind \in Writable /\ n <= slot[i].length =>
              \A j \in Slots :
                /\ raw'[j].size <= slot[j].length
                /\ slot[j].kind \notin Writable => raw'[j].size = raw[j].size
<1>1. raw \in [Slots -> [size : Sizes, value : Vals]]
  BY DEF IInv, TypeOK
<1>2. raw' = [raw EXCEPT ![i] = [raw[i] EXCEPT !.size = n]]
  BY DEF SetSize
<1>3. raw' \in [Slots -> [size : Sizes, value : Vals]]
  BY <1>1, <1>2
<1>4. raw'[i].size = n /\ \A j \in Slots : j # i => raw'[j] = raw[j]
  BY <1>1, <1>2
<1>5. callee = "typed" => \A j \in Slots : raw[j].size <= slot[j].length
  BY DEF IInv, RawInBounds
<1> QED  BY <1>3, <1>4, <1>5

(* write_at and set_output. *)
LEMMA WriteAtKeeps ==
  ASSUME IInv, NEW i \in Slots, NEW offset \in Sizes, NEW n \in Sizes,
         WriteAt(i, offset, n)
  PROVE  IInv'
<1> DEFINE end == offset + n
           used == IF n # 0 THEN end ELSE 0
<1>1. /\ Handle /\ callee = "typed" /\ phase = "handler"
      /\ slot[i].kind \in Writable /\ slot[i].kind \in Memrefs
      /\ end <= BufferLen(i) /\ Reach(i, used) /\ SetSize(i, end)
  BY DEF WriteAt, WriteEnd, Handle, Memrefs
<1>2. BufferLen(i) \in Sizes /\ BufferLen(i) <= slot[i].length /\ slot[i].length \in Nat
  BY <1>1, BufferLenFacts DEF IInv, TypeOK, Param
<1>3. /\ end \in Sizes /\ end <= slot[i].length
      /\ used \in Sizes /\ used <= slot[i].length
  BY <1>1, <1>2, BoundsAssumption DEF Sizes
<1> HIDE DEF end, used
<1> QED  BY <1>1, <1>3, ReachFacts, SetSizeFacts, HandlerKeeps, Zenon

(* set_updated_size. *)
LEMMA SetUpdatedSizeKeeps ==
  ASSUME IInv, NEW i \in Slots, NEW n \in Sizes, SetUpdatedSize(i, n)
  PROVE  IInv'
<1>1. /\ Handle /\ callee = "typed" /\ phase = "handler"
      /\ slot[i].kind \in Writable /\ slot[i].kind \in Memrefs
      /\ n <= BufferLen(i) /\ SetSize(i, n) /\ touched' = touched
  BY DEF SetUpdatedSize, Handle, Memrefs
<1>2. BufferLen(i) \in Sizes /\ BufferLen(i) <= slot[i].length /\ slot[i].length \in Nat
  BY <1>1, BufferLenFacts DEF IInv, TypeOK, Param
<1>3. n <= slot[i].length
  BY <1>1, <1>2 DEF Sizes
<1>4. /\ touched' \in [Slots -> Sizes]
      /\ \A j \in Slots : touched'[j] <= slot[j].length
  BY <1>1 DEF IInv, TypeOK, RawInBounds
<1> QED  BY <1>1, <1>3, <1>4, SetSizeFacts, HandlerKeeps, Zenon

(* read_at. *)
LEMMA ReadAtKeeps ==
  ASSUME IInv, NEW i \in Slots, NEW offset \in Sizes, NEW n \in Sizes,
         ReadAt(i, offset, n)
  PROVE  IInv'
<1> DEFINE available == BufferLen(i) - offset
           to_read == IF n < available THEN n ELSE available
           used == IF to_read # 0 THEN offset + to_read ELSE 0
<1>1. /\ Handle /\ callee = "typed" /\ phase = "handler" /\ slot[i].kind \in Memrefs
      /\ offset <= BufferLen(i) /\ Reach(i, used) /\ raw' = raw
  BY DEF ReadAt, Handle, Memrefs
<1>2. BufferLen(i) \in Sizes /\ BufferLen(i) <= slot[i].length /\ slot[i].length \in Nat
  BY <1>1, BufferLenFacts DEF IInv, TypeOK, Param
<1>3. used \in Sizes /\ used <= slot[i].length
  BY <1>1, <1>2, BoundsAssumption DEF Sizes
<1>4. /\ raw' \in [Slots -> [size : Sizes, value : Vals]]
      /\ \A j \in Slots : raw'[j].size <= slot[j].length /\ raw'[j].size = raw[j].size
  BY <1>1 DEF IInv, TypeOK, RawInBounds
<1> HIDE DEF used
<1> QED  BY <1>1, <1>3, <1>4, ReachFacts, HandlerKeeps, Zenon

(* The deprecated wrappers keep the types; the invariant says no more of   *)
(* them during a call.                                                     *)
LEMMA DeprecatedKeeps ==
  ASSUME IInv, NEW i \in Slots, NEW n \in Sizes, NEW v \in Vals,
         DeprecatedBuffer(i) \/ DeprecatedSize(i, n) \/ DeprecatedValue(i, v)
  PROVE  IInv'
<1>1. Handle /\ callee # "typed"
  BY DEF DeprecatedBuffer, DeprecatedSize, DeprecatedValue, AsMemref
<1>2. /\ raw \in [Slots -> [size : Sizes, value : Vals]]
      /\ touched \in [Slots -> Sizes]
  BY DEF IInv, TypeOK
<1>3. CASE DeprecatedBuffer(i)
  <2>1. raw[i].size \in Sizes /\ Reach(i, raw[i].size) /\ raw' = raw
    BY <1>2, <1>3 DEF DeprecatedBuffer
  <2> QED  BY <1>1, <1>2, <2>1, ReachFacts, HandlerKeeps, Zenon
<1>4. CASE DeprecatedSize(i, n)
  <2>1. SetSize(i, n) /\ touched' = touched
    BY <1>4 DEF DeprecatedSize, SetSize
  <2> QED  BY <1>1, <1>2, <2>1, SetSizeFacts, HandlerKeeps, Zenon
<1>5. CASE DeprecatedValue(i, v)
  <2>1. raw' = [raw EXCEPT ![i] = [raw[i] EXCEPT !.value = v]] /\ touched' = touched
    BY <1>5 DEF DeprecatedValue
  <2>2. raw' \in [Slots -> [size : Sizes, value : Vals]]
    BY <1>2, <2>1
  <2> QED  BY <1>1, <1>2, <2>1, <2>2, HandlerKeeps
<1> QED  BY <1>3, <1>4, <1>5

(* The setters of values. *)
LEMMA SetValueKeeps ==
  ASSUME IInv, NEW i \in Slots, NEW v \in Vals, SetValue(i, v)
  PROVE  IInv'
<1>1. /\ Handle
      /\ raw' = [raw EXCEPT ![i] = [raw[i] EXCEPT !.value = v]] /\ touched' = touched
  BY DEF SetValue
<1>2. /\ raw \in [Slots -> [size : Sizes, value : Vals]]
      /\ touched \in [Slots -> Sizes]
      /\ callee = "typed" =>
           \A j \in Slots : raw[j].size <= slot[j].length /\ touched[j] <= slot[j].length
  BY DEF IInv, TypeOK, RawInBounds
<1>3. /\ raw' \in [Slots -> [size : Sizes, value : Vals]]
      /\ \A j \in Slots : raw'[j].size = raw[j].size
  BY <1>1, <1>2
<1> QED  BY <1>1, <1>2, <1>3, HandlerKeeps

-----------------------------------------------------------------------------
(* The steps back to the caller *)

(* What one slot becomes keeps its kind and its buffer, and its size is    *)
(* within the buffer when the reported one is.                             *)
LEMMA UpdatedFacts ==
  ASSUME IInv, NEW i \in Slots
  PROVE  /\ Updated(i) \in Param
         /\ Updated(i).length = slot[i].length
         /\ ~TooLong(i) /\ slot[i].size <= slot[i].length =>
              Updated(i).size <= slot[i].length
<1>1. slot[i] \in Param /\ raw[i] \in [size : Sizes, value : Vals]
  BY DEF IInv, TypeOK
<1>2. Updated(i) \in Param
  BY <1>1 DEF Updated, Param
<1>3. /\ Updated(i).length = slot[i].length
      /\ Updated(i).size = IF slot[i].kind \in Writable THEN raw[i].size ELSE slot[i].size
  BY Zenon DEF Updated
<1>4. slot[i].length \in Nat /\ raw[i].size \in Nat
  BY <1>1 DEF Param, Sizes
<1> QED  BY <1>2, <1>3, <1>4 DEF TooLong

(* A typed callee leaves no size that is too long. *)
LEMMA NoneTooLong ==
  ASSUME IInv, callee = "typed", NEW i \in Slots
  PROVE  ~TooLong(i)
<1>1. raw[i].size <= slot[i].length /\ slot[i].length \in Nat /\ raw[i].size \in Nat
  BY DEF IInv, TypeOK, Param, Sizes, RawInBounds
<1> QED  BY <1>1 DEF TooLong

(* The end of a call, once the parameters, the session and the outcome of  *)
(* the update are known.                                                   *)
LEMMA ReturnKeeps ==
  ASSUME IInv, Return, UNCHANGED caller, op' = op,
         slot' \in [Slots -> Param],
         callee = "typed" \/ api = "ta" =>
           \A i \in Slots : slot'[i].size <= slot'[i].length,
         updated' \in {"ok", "err"}, callee = "typed" => updated' = "ok",
         held' \in BOOLEAN, alive' = held'
  PROVE  IInv'
<1>1. /\ phase' = "idle" /\ raw' = NoCall.raw /\ cap' = NoCall.sizes
      /\ touched' = NoCall.sizes /\ offered' = NoCall.sizes
  BY DEF Return
<1>2. TypeOK'
  BY <1>1, NoCallFacts, Zenon DEF IInv, TypeOK, caller
<1>3. \A i \in Slots : 0 <= slot'[i].length
  BY DEF Param
<1>4. RawInBounds' /\ NoCallIdle'
  BY <1>1, <1>3, NoCallFacts, Zenon DEF RawInBounds, NoCallIdle
<1>5. KeptInBounds' /\ UpdateNeverFails' /\ SessionNotLost'
  BY DEF caller, KeptInBounds, UpdateNeverFails, SessionNotLost
<1> QED
  BY <1>1, <1>2, <1>4, <1>5, Zenon DEF IInv, EnteredAsOffered, CapAsOffered, OfferedInBounds

(* The call returns to a TA, which updates its parameters. *)
LEMMA TaReturnsKeeps ==
  ASSUME IInv, TaReturns
  PROVE  IInv'
<1> DEFINE Before(i) == \A j \in 0..i : ~TooLong(j)
<1>1. /\ api = "ta" /\ Return /\ UNCHANGED caller /\ op' = op
      /\ slot' = [i \in Slots |-> IF Before(i) THEN Updated(i) ELSE slot[i]]
      /\ updated' = IF Before(3) THEN "ok" ELSE "err"
      /\ held' = (op = "invoke" \/ updated' = "ok") /\ alive' = held'
  BY DEF TaReturns, UpdateFromRaw
<1>2. \A i \in Slots : Before(i) => ~TooLong(i)
  BY DEF Slots
<1>3. callee = "typed" => Before(3)
  BY NoneTooLong DEF Slots
<1>4. \A i \in Slots : slot[i] \in Param /\ slot[i].size <= slot[i].length
  BY <1>1 DEF IInv, TypeOK, KeptInBounds
<1> HIDE DEF Before
<1>5. slot' \in [Slots -> Param] /\ \A i \in Slots : slot'[i].size <= slot'[i].length
  <2>1. \A i \in Slots : (slot'[i] = Updated(i) /\ ~TooLong(i)) \/ slot'[i] = slot[i]
    BY <1>1, <1>2
  <2>2. \A i \in Slots : slot'[i] \in Param /\ slot'[i].size <= slot'[i].length
    BY <1>4, <2>1, UpdatedFacts, Zenon
  <2> QED  BY <1>1, <2>2
<1>6. updated' \in {"ok", "err"} /\ (callee = "typed" => updated' = "ok")
  BY <1>1, <1>3
<1>7. held' \in BOOLEAN
  BY <1>1
<1> QED  BY <1>1, <1>5, <1>6, <1>7, ReturnKeeps

(* The call of a TA fails. *)
LEMMA TaFailsKeeps ==
  ASSUME IInv, TaFails
  PROVE  IInv'
<1>1. Return /\ UNCHANGED <<caller, slot, op, held, alive, updated>>
  BY DEF TaFails
<1>2. /\ slot' \in [Slots -> Param]
      /\ callee = "typed" \/ api = "ta" =>
           \A i \in Slots : slot'[i].size <= slot'[i].length
  BY <1>1 DEF IInv, TypeOK, KeptInBounds
<1>3. /\ updated' \in {"ok", "err"} /\ (callee = "typed" => updated' = "ok")
      /\ held' \in BOOLEAN /\ alive' = held'
  BY <1>1 DEF IInv, TypeOK, UpdateNeverFails, SessionNotLost
<1> QED  BY <1>1, <1>2, <1>3, ReturnKeeps

(* The call returns to a CA. *)
LEMMA CaReturnsKeeps ==
  ASSUME IInv, CaReturns
  PROVE  IInv'
<1>1. /\ api = "ca" /\ Return /\ UNCHANGED caller /\ op' = op /\ updated' = updated
      /\ slot' = [i \in Slots |-> Updated(i)] \/ slot' = slot
      /\ held' = (held \/ phase = "ok") /\ alive' = held'
  BY DEF CaReturns
<1>2. slot \in [Slots -> Param]
  BY DEF IInv, TypeOK
<1>3. slot' \in [Slots -> Param]
  BY <1>1, <1>2, UpdatedFacts
<1>4. ASSUME callee = "typed"
      PROVE  \A i \in Slots : slot'[i].size <= slot'[i].length
  <2>1. \A i \in Slots : slot[i].size <= slot[i].length /\ ~TooLong(i)
    BY <1>4, NoneTooLong DEF IInv, KeptInBounds
  <2>2. \A i \in Slots : slot'[i] = Updated(i) \/ slot'[i] = slot[i]
    BY <1>1
  <2> QED  BY <2>1, <2>2, UpdatedFacts, Zenon
<1>5. /\ updated' \in {"ok", "err"} /\ (callee = "typed" => updated' = "ok")
      /\ held' \in BOOLEAN
  BY <1>1, Zenon DEF IInv, TypeOK, UpdateNeverFails
<1> QED  BY <1>1, <1>3, <1>4, <1>5, ReturnKeeps

-----------------------------------------------------------------------------
(* Every step preserves the invariant. *)
LEMMA Inductive == IInv /\ [Next]_vars => IInv'
<1> SUFFICES ASSUME IInv, [Next]_vars
             PROVE  IInv'
  OBVIOUS
<1>1. CASE \E o \in {"open", "invoke"} : Call(o)
  BY <1>1, CallKeeps
<1>2. CASE NewOperation \/ DropSession
  BY <1>2, NewOperationKeeps, DropKeeps
<1>3. CASE Enter \/ EnterDeprecated \/ Reject \/ HandlerReturns
  BY <1>3, EnterKeeps, AnswerKeeps
<1>4. CASE TaReturns \/ TaFails \/ CaReturns
  BY <1>4, TaReturnsKeeps, TaFailsKeeps, CaReturnsKeeps
<1>5. ASSUME NEW i \in Slots, NEW n \in 0..MaxLen, NEW v \in Vals, SetParam(i, n, v)
      PROVE  IInv'
  BY <1>5, SetParamKeeps
<1>6. ASSUME NEW i \in Slots, NEW offset \in Sizes, NEW n \in Sizes,
             WriteAt(i, offset, n) \/ ReadAt(i, offset, n)
      PROVE  IInv'
  BY <1>6, WriteAtKeeps, ReadAtKeeps
<1>7. ASSUME NEW i \in Slots, NEW n \in Sizes,
             SetUpdatedSize(i, n) \/ DeprecatedSize(i, n) \/ DeprecatedBuffer(i)
      PROVE  IInv'
  BY <1>7, SetUpdatedSizeKeeps, DeprecatedKeeps, ValsAssumption
<1>8. ASSUME NEW i \in Slots, NEW v \in Vals, SetValue(i, v) \/ DeprecatedValue(i, v)
      PROVE  IInv'
  <2>1. 0 \in Sizes
    BY BoundsAssumption DEF Sizes
  <2> QED  BY <1>8, <2>1, SetValueKeeps, DeprecatedKeeps
<1>9. CASE UNCHANGED vars
  <2>1. (TypeOK /\ NoCallIdle /\ KeptInBounds /\ RawInBounds)'
    BY <1>9, Zenon DEF vars, caller, history, IInv, TypeOK, NoCallIdle, KeptInBounds, RawInBounds
  <2>2. (EnteredAsOffered /\ CapAsOffered /\ OfferedInBounds /\ UpdateNeverFails /\ SessionNotLost)'
    BY <1>9, Zenon DEF vars, caller, history, IInv, EnteredAsOffered, CapAsOffered, OfferedInBounds,
       UpdateNeverFails, SessionNotLost
  <2> QED  BY <2>1, <2>2, Zenon DEF IInv
<1>10. 0 \in Sizes
  BY BoundsAssumption DEF Sizes
<1> QED
  BY <1>1, <1>2, <1>3, <1>4, <1>5, <1>6, <1>7, <1>8, <1>9, <1>10, Zenon DEF Next, Sizes

(* The offered sizes, the raw parameters and the capacities of the wrappers *)
(* fit together in every reachable state.                                  *)
THEOREM IInvHolds == Spec => []IInv
<1> QED  BY InitIInv, Inductive, PTL DEF Spec

(* The variables of a call and the caller's parameters keep their shape. *)
THEOREM TypeCorrect == Spec => []TypeOK
<1>1. IInv => TypeOK
  BY DEF IInv
<1> QED  BY <1>1, IInvHolds, PTL

(* Whatever sizes the callee has reported before, in this call or an       *)
(* earlier one, with any offset, no typed wrapper reads or writes beyond   *)
(* the caller's buffer; and the sizes that come back are within it.        *)
THEOREM AlwaysInBounds == Spec => []AccessInBounds
<1>1. IInv => AccessInBounds
  <2> SUFFICES ASSUME IInv PROVE AccessInBounds
    OBVIOUS
  <2>1. \A i \in Slots : 0 <= slot[i].length
    BY DEF IInv, TypeOK, Param
  <2> QED
    BY <2>1, Zenon DEF IInv, RawInBounds, KeptInBounds, AccessInBounds, WrittenSlice
<1> QED  BY <1>1, IInvHolds, PTL

(* A TA offers each buffer whole at every call, and a typed wrapper offers *)
(* it to the function until it returns.                                    *)
THEOREM AlwaysWholeBuffer == Spec => []WholeBufferOffered
<1>1. IInv => WholeBufferOffered
  BY BufferLenFacts, Zenon DEF IInv, OfferedInBounds, WholeBufferOffered
<1> QED  BY <1>1, IInvHolds, PTL

(* update_from_raw succeeds after every call of a TA with typed wrappers. *)
THEOREM UpdateAlwaysSucceeds == Spec => []UpdateNeverFails
<1>1. IInv => UpdateNeverFails
  BY DEF IInv
<1> QED  BY <1>1, IInvHolds, PTL

(* No session stays open in the TEE without the value that closes it. *)
THEOREM SessionNeverLost == Spec => []SessionNotLost
<1>1. IInv => SessionNotLost
  BY DEF IInv
<1> QED  BY <1>1, IInvHolds, PTL

-----------------------------------------------------------------------------
(* ErrorCodes, Sockets and SuppPlugin: what arrives is what was sent. *)

(* What a level should be answered when the levels in d have died.         *)
ExpectedCode(d) == IF d # {} THEN "TARGET_DEAD" ELSE source

(* The error stands for the code c, read with the kinds in K.              *)
StandsFor(c, K) ==
  IF c = "SUCCESS" THEN error = Ok
  ELSE /\ error = [kind |-> error.kind, held |-> c, origin |-> error.origin]
       /\ error.kind = IF c \in K THEN c ELSE "Unknown"

(* The code on its way and its origin are those of the level it left.      *)
Underway(l) == /\ code = ExpectedCode(died)
               /\ origin = IF l \in died THEN "TEE" ELSE "TRUSTED_APP"

(* The inductive invariant: at every level the error made there stands for *)
(* what the levels below should have answered.                             *)
CodeIInv ==
  /\ level \in 0 .. CA /\ stage \in {"runs", "returned"}
  /\ source \in Codes \union {"SUCCESS"}
  /\ level = 0 => stage = "runs" /\ died = {}
  /\ level \in 1 .. CA - 1 /\ stage = "runs" =>
       died \subseteq 1 .. level - 1 /\ StandsFor(ExpectedCode(died), UteeKinds)
  /\ level \in 1 .. CA - 1 /\ stage = "returned" => died \subseteq 1 .. level /\ Underway(level)
  /\ level = CA => /\ Underway(CA - 1)
                   /\ StandsFor(ExpectedCode(died), TeecKinds)
                   /\ code # "SUCCESS" => error.origin = origin

(* The names the proofs rely on: TARGET_DEAD has a kind in both crates,    *)
(* and neither success nor the marks of an error are codes of one.         *)
LEMMA Names ==
  /\ "TARGET_DEAD" \in TeecKinds /\ "TARGET_DEAD" \in UteeKinds /\ "TARGET_DEAD" \in Codes
  /\ "SUCCESS" \notin Codes /\ "Unknown" \notin Codes /\ "none" \notin Codes
  /\ TeecKinds \subseteq Codes /\ UteeKinds \subseteq Codes
BY Zenon DEF Codes, UteeKinds, TeecKinds, Common

(* The code of an error is the one it stands for: raw_code round-trips.    *)
LEMMA RoundTrip ==
  ASSUME NEW c \in Codes, NEW K, K \subseteq Codes, StandsFor(c, K)
  PROVE  RawCode(error) = c /\ error.kind # "none"
<1>1. c # "SUCCESS" /\ c # "Unknown" /\ c # "none"
  BY Names
<1>2. error.held = c /\ error.kind = IF c \in K THEN c ELSE "Unknown"
  BY <1>1 DEF StandsFor
<1> QED
  BY <1>1, <1>2 DEF RawCode

(* What a level is answered is success or one of the codes.                *)
LEMMA ExpectedIsCode ==
  ASSUME CodeIInv, NEW d
  PROVE  ExpectedCode(d) \in Codes \union {"SUCCESS"}
BY Names, Zenon DEF CodeIInv, ExpectedCode

(* It holds initially.                                                     *)
LEMMA CodeInitIInv == ASSUME CAAssumption PROVE CodeInit => CodeIInv
BY DEF CAAssumption, CodeInit, CodeIInv

(* Every step keeps it.                                                    *)
LEMMA CodeNextIInv == ASSUME CAAssumption PROVE CodeIInv /\ [CodeNext]_codeVars => CodeIInv'
<1> SUFFICES ASSUME CodeIInv, [CodeNext]_codeVars PROVE CodeIInv'
  OBVIOUS
<1> USE DEF CAAssumption
<1>1. ASSUME NEW c \in Codes \union {"SUCCESS"}, TeeCheck(c) PROVE CodeIInv'
  <2>1. died = {} /\ died' = {} /\ level' = 1 /\ stage' = "runs" /\ source' = c /\ stage' = stage
    BY <1>1, Zenon DEF TeeCheck, CodeIInv
  <2>2. ExpectedCode(died)' = c
    BY <2>1 DEF ExpectedCode
  <2>3. StandsFor(c, UteeKinds)'
    BY <1>1, Names, Zenon DEF TeeCheck, StandsFor, WithOrigin, UteeFromRaw, Ok
  <2> QED
    BY <2>1, <2>2, <2>3 DEF CodeIInv
<1>2. ASSUME NEW panics \in BOOLEAN, LevelReturns(panics) PROVE CodeIInv'
  <2>1. /\ level \in 1 .. CA - 1 /\ stage = "runs" /\ stage' = "returned"
        /\ UNCHANGED <<level, error, source>>
        /\ died' = IF panics THEN died \union {level} ELSE died
        /\ died \subseteq 1 .. level - 1 /\ StandsFor(ExpectedCode(died), UteeKinds)
    BY <1>2, Zenon DEF LevelReturns, CodeIInv
  <2>2. died' \subseteq 1 .. level /\ (level \in died' <=> panics)
    BY <2>1
  <2>3. code' = ExpectedCode(died)'
    <3>1. CASE panics
      BY <1>2, <2>1, <3>1, Zenon DEF LevelReturns, ExpectedCode
    <3>2. CASE ~panics /\ ExpectedCode(died) = "SUCCESS"
      BY <1>2, <2>1, <3>2 DEF LevelReturns, ExpectedCode, StandsFor, Ok
    <3>3. CASE ~panics /\ ExpectedCode(died) # "SUCCESS"
      <4>1. RawCode(error) = ExpectedCode(died) /\ error.kind # "none"
        BY <2>1, <3>3, ExpectedIsCode, RoundTrip, Names, Zenon
      <4>2. code' = RawCode(error)
        BY <1>2, <3>3, <4>1, Zenon DEF LevelReturns
      <4> QED
        BY <2>1, <3>3, <4>1, <4>2, Zenon DEF ExpectedCode
    <3> QED
      BY <3>1, <3>2, <3>3
  <2>4. origin' = IF level \in died' THEN "TEE" ELSE "TRUSTED_APP"
    BY <1>2, <2>2 DEF LevelReturns
  <2> QED
    BY <2>1, <2>2, <2>3, <2>4 DEF CodeIInv, Underway
<1>3. CASE TeeCheckWithOrigin
  <2>1. /\ level \in 1 .. CA - 2 /\ level' = level + 1 /\ stage' = "runs"
        /\ UNCHANGED <<source, died>>
        /\ died \subseteq 1 .. level /\ code = ExpectedCode(died)
    BY <1>3 DEF TeeCheckWithOrigin, CodeIInv, Underway
  <2>2. StandsFor(code, UteeKinds)'
    BY <1>3, Names, Zenon DEF TeeCheckWithOrigin, StandsFor, WithOrigin, UteeFromRaw, Ok
  <2>3. ExpectedCode(died)' = code /\ code' = code
    BY <1>3, <2>1, Zenon DEF ExpectedCode, TeeCheckWithOrigin
  <2> QED
    BY <2>1, <2>2, <2>3 DEF CodeIInv
<1>4. CASE TeecCheckWithOrigin
  <2>1. /\ level = CA - 1 /\ level' = CA /\ stage' = stage
        /\ UNCHANGED <<source, died, code, origin>>
        /\ Underway(CA - 1)
    BY <1>4 DEF TeecCheckWithOrigin, CodeIInv
  <2>2. StandsFor(code, TeecKinds)' /\ (code # "SUCCESS" => error'.origin = origin)
    BY <1>4, <2>1, Zenon DEF TeecCheckWithOrigin, StandsFor, WithOrigin, TeecFromRaw, Ok, Underway, OriginFrom
  <2>3. ExpectedCode(died)' = code' /\ Underway(CA - 1)'
    BY <2>1, Zenon DEF Underway, ExpectedCode
  <2> QED
    BY <2>1, <2>2, <2>3 DEF CodeIInv
<1>5. CASE UNCHANGED codeVars
  BY <1>5, Zenon DEF codeVars, CodeIInv, Underway, StandsFor, ExpectedCode
<1> QED
  BY <1>1, <1>2, <1>3, <1>4, <1>5 DEF CodeNext

(* So it always holds.                                                     *)
THEOREM CodeIInvHolds == ASSUME CAAssumption PROVE CodeSpec => []CodeIInv
BY CodeInitIInv, CodeNextIInv, PTL DEF CodeSpec

(* Of every chain of TAs: the code reaches the client unchanged.           *)
THEOREM CodeAlwaysCrosses == ASSUME CAAssumption PROVE CodeSpec => []CodeCrosses
<1>1. CodeIInv => CodeCrosses
  <2> SUFFICES ASSUME CodeIInv, level = CA
               PROVE  IF died # {} THEN RawCode(error) = "TARGET_DEAD"
                      ELSE IF source = "SUCCESS" THEN error = Ok
                      ELSE RawCode(error) = source
    BY DEF CodeCrosses
  <2>1. StandsFor(ExpectedCode(died), TeecKinds)
    BY Zenon DEF CodeIInv
  <2>2. ExpectedCode(died) # "SUCCESS" => RawCode(error) = ExpectedCode(died)
    BY <2>1, ExpectedIsCode, RoundTrip, Names
  <2> QED
    BY <2>1, <2>2, Zenon DEF ExpectedCode, StandsFor
<1> QED
  BY <1>1, CodeIInvHolds, PTL

(* The kind reaches the client, or the code stays in Unknown.              *)
THEOREM KindAlwaysCrosses == ASSUME CAAssumption PROVE CodeSpec => []KindCrosses
<1>1. CodeIInv => KindCrosses
  BY Names DEF CodeIInv, KindCrosses, StandsFor, ExpectedCode, UteeFromRaw, UteeKinds, TeecKinds
<1> QED
  BY <1>1, CodeIInvHolds, PTL

(* The client recognises the death of the TA it called, and no other.      *)
THEOREM DeadAlwaysMeansMine == ASSUME CAAssumption PROVE CodeSpec => []DeadMeansMine
<1>1. CodeIInv => DeadMeansMine
  <2> SUFFICES ASSUME CodeIInv, level = CA
               PROVE  error.kind = "TARGET_DEAD" /\ error.origin # "TRUSTED_APP" <=> CA - 1 \in died
    BY DEF DeadMeansMine
  <2>1. /\ StandsFor(code, TeecKinds) /\ code = ExpectedCode(died)
        /\ code # "SUCCESS" => error.origin = origin
        /\ origin = IF CA - 1 \in died THEN "TEE" ELSE "TRUSTED_APP"
    BY Zenon DEF CodeIInv, Underway
  <2>2. CASE CA - 1 \in died
    BY <2>1, <2>2, Names, Zenon DEF ExpectedCode, StandsFor
  <2>3. CASE CA - 1 \notin died
    BY <2>1, <2>3 DEF StandsFor, Ok
  <2> QED
    BY <2>2, <2>3
<1> QED
  BY <1>1, CodeIInvHolds, PTL

-----------------------------------------------------------------------------
(* Sockets. *)

(* The first n places of a buffer, in order. *)
Front(n) == [i \in 1..n |-> i]

(* A call that runs is within its buffer, and has moved what is before its *)
(* position.                                                               *)
CallRuns ==
  /\ call.op \in {"write", "read"} /\ call.len \in Nat /\ call.pos \in Nat
  /\ call.pos < call.len /\ moved = Front(call.pos)
  /\ result = NoResult /\ sock.h # "closed"

(* What a socket that is open has. *)
SockOpen == sock.h # "closed" => sock.h \in Handles /\ sock.proto \in Protos

(* The inductive invariant. *)
NetIInv ==
  /\ SockOpen /\ last \in [Protos -> Protocols]
  /\ \E n \in Nat : moved = Front(n)
  /\ call = Idle \/ CallRuns
  /\ OkMeansAll /\ HandlesOwned /\ WaitsAsAsked /\ ErrorIsOwn

(* Its length. *)
LEMMA FrontLen ==
  ASSUME NEW n \in Nat
  PROVE  Front(n) \in Seq(Nat) /\ Len(Front(n)) = n
BY DEF Front

(* Sequences that agree at every position are equal.                       *)
LEMMA SameSeq ==
  ASSUME NEW S, NEW p \in Seq(S), NEW q \in Seq(S), Len(p) = Len(q),
         \A i \in 1 .. Len(p) : p[i] = q[i]
  PROVE  p = q
<1>1. p = [i \in 1 .. Len(p) |-> p[i]] /\ q = [i \in 1 .. Len(p) |-> q[i]]
  OBVIOUS
<1> QED BY <1>1, Zenon

(* What the TEE moves follows what it has moved. *)
LEMMA FrontGrows ==
  ASSUME NEW n \in Nat, NEW m \in Nat
  PROVE  Front(n) \o [i \in 1..m |-> n + i] = Front(n + m)
<1> DEFINE more == [i \in 1..m |-> n + i]
<1>1. Front(n) \in Seq(Nat) /\ Len(Front(n)) = n
  BY FrontLen
<1>2. more \in Seq(Nat) /\ Len(more) = m
  OBVIOUS
<1>3. \A i \in 1..n : Front(n)[i] = i
  BY DEF Front
<1>4. \A i \in 1..m : more[i] = n + i
  OBVIOUS
<1> HIDE DEF more
<1>5. Front(n) \o more \in Seq(Nat) /\ Len(Front(n) \o more) = n + m
  BY <1>1, <1>2
<1>6. \A i \in 1..(n + m) : (Front(n) \o more)[i] = i
  BY <1>1, <1>2, <1>3, <1>4
<1>7. Front(n + m) \in Seq(Nat) /\ Len(Front(n + m)) = n + m
  BY FrontLen
<1>8. \A i \in 1..(n + m) : Front(n + m)[i] = i
  BY DEF Front
<1>9. Front(n) \o more = Front(n + m)
  <2>1. \A i \in 1..(n + m) : (Front(n) \o more)[i] = Front(n + m)[i]
    BY <1>6, <1>8, Zenon
  <2> QED BY <1>5, <1>7, <2>1, SameSeq, Zenon
<1> QED BY <1>9, Zenon DEF more

(* The invariant of the sockets holds initially.                           *)
LEMMA NetInitIInv == ASSUME SocketsAssumption PROVE NetInit => NetIInv
<1> SUFFICES ASSUME NetInit PROVE NetIInv
  OBVIOUS
<1>1. moved = Front(0)
  BY DEF NetInit, Front
<1> QED BY <1>1, Zenon DEF NetInit, NetIInv, SockOpen, Closed, OkMeansAll, HandlesOwned, WaitsAsAsked,
                    ErrorIsOwn, NoResult, Done, SocketsAssumption

(* No kind of a SocketError is one on which std calls again. *)
LEMMA NeverInterrupted == ASSUME NEW e PROVE IntoIoError(e) # "Interrupted"
BY DEF IntoIoError

(* connect keeps it, whether it fails or opens a handle.                   *)
LEMMA ConnectKeeps ==
  ASSUME SocketsAssumption, NetIInv,
         NEW proto \in Protos, NEW nul \in BOOLEAN, NetConnect(proto, nul)
  PROVE  NetIInv'
<1>0. call = Idle /\ sock.h = "closed" /\ handles = {}
  BY Zenon DEF NetConnect, NetIInv, CallRuns, HandlesOwned
<1>1. CASE sock' = sock /\ handles' = handles /\ last' \in [Protos -> Protocols]
           /\ result'.op = "connect"
  BY <1>0, <1>1, Zenon DEF NetConnect, NetIInv, SockOpen, OkMeansAll, HandlesOwned, WaitsAsAsked, ErrorIsOwn
<1>2. ASSUME NEW h \in Handles, handles' = handles \union {h},
             sock' = [h |-> h, proto |-> proto, send |-> Infinite, recv |-> Infinite],
             asked' = [send |-> NoLimit, recv |-> NoLimit], result' = NoResult, last' = last,
             call' = call, moved' = moved
      PROVE  NetIInv'
  <2>1. h # "closed" /\ sock'.h = h /\ sock'.proto = proto
    BY <1>2, Zenon DEF SocketsAssumption
  <2>2. SockOpen' /\ HandlesOwned' /\ WaitsAsAsked'
    BY <1>0, <1>2, <2>1, Zenon DEF SockOpen, HandlesOwned, WaitsAsAsked
  <2>3. OkMeansAll' /\ ErrorIsOwn'
    BY <1>2, Zenon DEF OkMeansAll, ErrorIsOwn, NoResult, Done
  <2> QED BY <1>0, <1>2, <2>2, <2>3, Zenon DEF NetIInv
<1>3. ASSUME NEW c, NEW p \in Protocols, last' = [last EXCEPT ![Adapter(proto).open] = p]
      PROVE  last' \in [Protos -> Protocols]
  BY <1>3, Zenon DEF NetIInv
<1>4. CASE result' = Done("connect", FALSE, 0, BadAddress) /\ UNCHANGED <<sock, handles, last>>
  BY <1>1, <1>4, Zenon DEF NetIInv, Done
<1>5. ASSUME NEW c \in NetCodes, NEW p \in Protocols,
             last' = [last EXCEPT ![Adapter(proto).open] = p],
             result' = Done("connect", FALSE, 0, FromRawError(c, p)),
             UNCHANGED <<sock, handles>>
      PROVE  NetIInv'
  <2>1. result'.op = "connect"
    BY <1>5, Zenon DEF Done
  <2> QED BY <1>1, <1>3, <1>5, <2>1, Zenon
<1> QED BY <1>2, <1>4, <1>5, Zenon DEF NetConnect

(* So do the setters of the timeouts: what is stored is what was asked.     *)
LEMMA SetTimeoutKeeps ==
  ASSUME SocketsAssumption, NetIInv, NEW dir,
         \/ \E dur \in Durations \union {NoLimit} : SetTimeout(dir, dur)
         \/ \E ms \in 0..U32Max : SetTimeoutInMilli(dir, ms)
  PROVE  NetIInv'
<1>0. ASSUME NEW send, NEW recv, SetTimeouts(send, recv)
      PROVE  sock'.h = sock.h /\ sock'.proto = sock.proto
  BY <1>0, Zenon DEF SetTimeouts
<1>1. /\ call = Idle /\ UNCHANGED <<handles, last, call, moved, result>>
      /\ sock'.h = sock.h /\ sock'.proto = sock.proto
  BY <1>0, Zenon DEF SetTimeout, SetTimeoutInMilli, Quiet
<1>2. ASSUME NEW dur \in Durations \union {NoLimit}, ToTimeout(dur) # NoLimit
      PROVE  ToTimeout(dur) = IF dur = NoLimit THEN Infinite ELSE dur
  BY <1>2, Zenon DEF ToTimeout
<1>3. \A ms \in 0..U32Max : ms # NoLimit
  BY DEF SocketsAssumption
<1>4. WaitsAsAsked'
  <2>1. ASSUME NEW time, NEW limit, time = IF limit = NoLimit THEN Infinite ELSE limit,
               \/ /\ SetTimeouts(time, sock.recv)
                  /\ asked' = [send |-> limit, recv |-> asked.recv]
               \/ /\ SetTimeouts(sock.send, time)
                  /\ asked' = [send |-> asked.send, recv |-> limit]
        PROVE  WaitsAsAsked'
    <3>1. WaitsAsAsked
      BY DEF NetIInv
    <3>2. /\ sock'.h = sock.h
          /\ \/ /\ sock'.send = time /\ sock'.recv = sock.recv
                /\ asked'.send = limit /\ asked'.recv = asked.recv
             \/ /\ sock'.send = sock.send /\ sock'.recv = time
                /\ asked'.send = asked.send /\ asked'.recv = limit
      BY <2>1 DEF SetTimeouts
    <3> QED BY <2>1, <3>1, <3>2, Zenon DEF WaitsAsAsked
  <2>2. ASSUME NEW dur \in Durations \union {NoLimit}, SetTimeout(dir, dur) PROVE WaitsAsAsked'
    BY <1>2, <2>1, <2>2, Zenon DEF SetTimeout
  <2>3. ASSUME NEW ms \in 0..U32Max, SetTimeoutInMilli(dir, ms) PROVE WaitsAsAsked'
    <3>1. ms = IF ms = NoLimit THEN Infinite ELSE ms
      BY <1>3, <2>3
    <3> QED BY <2>1, <2>3, <3>1, Zenon DEF SetTimeoutInMilli
  <2> QED BY <2>2, <2>3, Zenon
<1> QED BY <1>1, <1>4, Zenon DEF NetIInv, SockOpen, OkMeansAll, HandlesOwned, ErrorIsOwn

(* So does the start of write_all and read_exact.                          *)
LEMMA BeginKeeps ==
  ASSUME SocketsAssumption, NetIInv, NEW act \in {"write", "read"}, NEW len \in Lengths, NEW std,
         Begin(act, len, std)
  PROVE  NetIInv'
<1>1. moved' = Front(0) /\ Len(moved') = 0 /\ len \in Nat
  BY DEF Begin, Front, SocketsAssumption
<1>2. sock.h # "closed" /\ UNCHANGED <<sock, handles, last, asked>>
  BY Zenon DEF Begin, Quiet
<1>3. SockOpen' /\ HandlesOwned' /\ WaitsAsAsked' /\ last' \in [Protos -> Protocols]
  BY <1>2, Zenon DEF NetIInv, SockOpen, HandlesOwned, WaitsAsAsked
<1>4. CASE len = 0 /\ result' = Done(act, TRUE, 0, Generic) /\ UNCHANGED call
  <2>1. call' = Idle
    BY <1>4, Zenon DEF Begin, Quiet
  <2>2. OkMeansAll' /\ ErrorIsOwn'
    BY <1>1, <1>4, Zenon DEF OkMeansAll, ErrorIsOwn, Done, Generic, ProtocolCodes
  <2> QED BY <1>1, <1>3, <2>1, <2>2, Zenon DEF NetIInv
<1>5. CASE len > 0 /\ call' = [op |-> act, len |-> len, pos |-> 0, std |-> std] /\ result' = NoResult
  <2>1. CallRuns'
    BY <1>1, <1>2, <1>5, Zenon DEF CallRuns
  <2>2. OkMeansAll' /\ ErrorIsOwn'
    BY <1>5, Zenon DEF OkMeansAll, ErrorIsOwn, NoResult, Done
  <2> QED BY <1>1, <1>3, <2>1, <2>2 DEF NetIInv
<1> QED BY <1>4, <1>5, Zenon DEF Begin

(* So does a turn of their loops: the TEE is offered no more than is left, *)
(* also where the length is cut to a u32.                                  *)
LEMMA TransferKeeps ==
  ASSUME SocketsAssumption, NetIInv, call # Idle, NEW m \in 0..Offered, Transfer(m)
  PROVE  NetIInv'
<1>1. CallRuns
  BY DEF NetIInv
<1>2. call.len - call.pos \in Nat /\ call.len - call.pos > 0
  BY <1>1 DEF CallRuns
<1>3. m \in Nat /\ m <= call.len - call.pos
  <2>1. ASSUME NEW a \in Nat, NEW b \in Nat, b > 0 PROVE a % b \in Nat /\ a % b <= a
    BY <2>1
  <2>2. Offered \in Nat /\ Offered <= call.len - call.pos
    BY <1>2, <2>1 DEF Offered, SocketsAssumption
  <2> QED BY <1>2, <2>2
<1>4. moved' = Front(call.pos + m) /\ Len(moved') = call.pos + m /\ call.pos + m \in Nat
  <2>1. moved' = moved \o [i \in 1..m |-> call.pos + i]
    BY Zenon DEF Transfer, Progress, TransferFails, Moves
  <2>2. call.pos \in Nat /\ moved = Front(call.pos)
    BY <1>1 DEF CallRuns
  <2>3. moved' = Front(call.pos + m)
    BY <1>3, <2>1, <2>2, FrontGrows, Zenon
  <2> QED BY <1>3, <2>2, <2>3, FrontLen
<1>5. UNCHANGED <<sock, handles, asked>>
  BY DEF Transfer
<1>6. SockOpen' /\ HandlesOwned' /\ WaitsAsAsked'
  BY <1>5, Zenon DEF NetIInv, SockOpen, HandlesOwned, WaitsAsAsked
<1>7. CASE Progress(m)
  <2>0. last' = last
    BY <1>7, Zenon DEF Progress
  <2>1. CASE m = 0 /\ Returns(FALSE, Generic)
    <3>1. OkMeansAll' /\ ErrorIsOwn' /\ call' = Idle
      BY <2>1, Zenon DEF Returns, OkMeansAll, ErrorIsOwn, Done, Generic, ProtocolCodes
    <3> QED BY <1>4, <1>6, <2>0, <3>1, Zenon DEF NetIInv
  <2>2. CASE call.pos + m = call.len /\ Returns(TRUE, Generic)
    <3>1. OkMeansAll' /\ ErrorIsOwn' /\ call' = Idle
      BY <1>4, <2>2, Zenon DEF Returns, OkMeansAll, ErrorIsOwn, Done, Generic, ProtocolCodes
    <3> QED BY <1>4, <1>6, <2>0, <3>1 DEF NetIInv
  <2>3. CASE /\ call.pos + m # call.len /\ UNCHANGED result
             /\ call' = [op |-> call.op, len |-> call.len, pos |-> call.pos + m, std |-> call.std]
    <3>1. CallRuns'
      BY <1>1, <1>3, <1>4, <1>5, <2>3 DEF CallRuns
    <3>2. OkMeansAll' /\ ErrorIsOwn'
      BY <1>1, <2>3, Zenon DEF CallRuns, OkMeansAll, ErrorIsOwn, NoResult, Done
    <3> QED BY <1>4, <1>6, <2>0, <3>1, <3>2, Zenon DEF NetIInv
  <2> QED BY <1>7, <2>1, <2>2, <2>3, Zenon DEF Progress
<1>8. ASSUME NEW c \in NetCodes, NEW p \in Protocols, TransferFails(m, c, p)
      PROVE  NetIInv'
  <2> DEFINE l == [last EXCEPT ![Adapter(sock.proto).transfer] = p]
             e == OperationError(c, Adapter(sock.proto).error, l)
  <2>1. call' = Idle /\ result' = Done(call.op, FALSE, call.len, e) /\ last' = l
    BY <1>8, NeverInterrupted, Zenon DEF TransferFails, Returns
  <2>2. last' \in [Protos -> Protocols]
    BY <2>1, Zenon DEF NetIInv
  <2>3. sock.proto \in Protos
    BY <1>1, Zenon DEF NetIInv, SockOpen, CallRuns
  <2>4. /\ Adapter(sock.proto).error = Adapter(sock.proto).open
        /\ Adapter(sock.proto).transfer = Adapter(sock.proto).open
        /\ Adapter(sock.proto).open \in Protos
    BY <2>3, Zenon DEF Adapter, TcpAdapter, UdpAdapter, Protos
  <2>5. e.kind \in ProtocolCodes => e.held = l[Adapter(sock.proto).open]
    BY <2>4, Zenon DEF OperationError, FromRawError, SocketCodes, ProtocolCodes, TeeCodes
  <2>6. result'.ok = FALSE /\ result'.error = e
    BY <2>1, Zenon DEF Done
  <2> HIDE DEF l, e
  <2>7. OkMeansAll' /\ ErrorIsOwn'
    BY <1>5, <2>1, <2>5, <2>6, Zenon DEF OkMeansAll, ErrorIsOwn
  <2> QED BY <1>4, <1>6, <2>1, <2>2, <2>7, Zenon DEF NetIInv
<1> QED BY <1>7, <1>8 DEF Transfer

(* So does the drop of a socket.                                           *)
LEMMA DropSocketKeeps ==
  ASSUME SocketsAssumption, NetIInv, DropSocket
  PROVE  NetIInv'
<1>1. sock' = Closed /\ handles' = {} /\ UNCHANGED <<last, asked, call, moved, result>> /\ call = Idle
  BY DEF DropSocket, Quiet, NetIInv, HandlesOwned
<1> QED BY <1>1, Zenon DEF NetIInv, SockOpen, Closed, OkMeansAll, HandlesOwned, WaitsAsAsked, ErrorIsOwn

(* Every step keeps it.                                                    *)
LEMMA NetNextIInv == ASSUME SocketsAssumption PROVE NetIInv /\ [NetNext]_netVars => NetIInv'
<1> SUFFICES ASSUME NetIInv, [NetNext]_netVars PROVE NetIInv'
  OBVIOUS
<1>1. ASSUME NEW proto \in Protos, NEW nul \in BOOLEAN, NetConnect(proto, nul) PROVE NetIInv'
  BY <1>1, ConnectKeeps
<1>2. ASSUME NEW dir,
             \/ \E dur \in Durations \union {NoLimit} : SetTimeout(dir, dur)
             \/ \E ms \in 0..U32Max : SetTimeoutInMilli(dir, ms)
      PROVE  NetIInv'
  BY <1>2, SetTimeoutKeeps
<1>3. ASSUME NEW act \in {"write", "read"}, NEW len \in Lengths, NEW std \in BOOLEAN, Begin(act, len, std)
      PROVE  NetIInv'
  BY <1>3, BeginKeeps
<1>4. ASSUME call # Idle, NEW m \in 0..Offered, Transfer(m) PROVE NetIInv'
  BY <1>4, TransferKeeps
<1>5. CASE DropSocket
  BY <1>5, DropSocketKeeps
<1>6. CASE UNCHANGED netVars
  BY <1>6, Zenon DEF netVars, NetIInv, SockOpen, CallRuns, OkMeansAll, HandlesOwned, WaitsAsAsked, ErrorIsOwn
<1> QED BY <1>1, <1>2, <1>3, <1>4, <1>5, <1>6, Zenon DEF NetNext

(* So it always holds.                                                     *)
THEOREM NetInductive == ASSUME SocketsAssumption PROVE NetSpec => []NetIInv
BY NetInitIInv, NetNextIInv, PTL DEF NetSpec

(* For every length and every cut of the transfers, the bytes of write_all *)
(* and read_exact cross in the order of the buffer.                        *)
THEOREM AlwaysInOrder == ASSUME SocketsAssumption PROVE NetSpec => []InOrder
<1>1. NetIInv => InOrder
  BY FrontLen DEF NetIInv, InOrder, Front
<1> QED BY <1>1, NetInductive, PTL

(* And Ok means that all of them did.                                      *)
THEOREM OkAlwaysMeansAll == ASSUME SocketsAssumption PROVE NetSpec => []OkMeansAll
<1>1. NetIInv => OkMeansAll
  BY DEF NetIInv
<1> QED BY <1>1, NetInductive, PTL
(* A handle is open exactly as long as its socket, also after failures.    *)
THEOREM HandlesAlwaysOwned == ASSUME SocketsAssumption PROVE NetSpec => []HandlesOwned
<1>1. NetIInv => HandlesOwned
  BY DEF NetIInv
<1> QED BY <1>1, NetInductive, PTL

(* The timeouts of a socket are the ones asked for, at every width.        *)
THEOREM AlwaysWaitsAsAsked == ASSUME SocketsAssumption PROVE NetSpec => []WaitsAsAsked
<1>1. NetIInv => WaitsAsAsked
  BY DEF NetIInv
<1> QED BY <1>1, NetInductive, PTL

(* A protocol error is read from the instance that the handle belongs to.  *)
THEOREM ErrorAlwaysOwn == ASSUME SocketsAssumption PROVE NetSpec => []ErrorIsOwn
<1>1. NetIInv => ErrorIsOwn
  BY DEF NetIInv
<1> QED BY <1>1, NetInductive, PTL

-----------------------------------------------------------------------------
(* Plugins of the supplicant. *)

(* Who may have written a byte of the buffer. *)
Writers == {"request", "padding", "plugin"}

(* The vector of the TA holds its request. *)
CommandFits ==
  /\ command.cap \in Nat /\ command.body \in Nat /\ command.body <= command.cap
  /\ command.at \in {"none", "building", "calling"}
  /\ command.at # "none" => answer.how = "none"

(* An invocation has the TA's buffer, and reports the end of what it wrote. *)
PluginFits ==
  plugin.on =>
    /\ command.at = "calling" /\ plugin.size = command.cap
    /\ plugin.buf \in [1..plugin.size -> Writers]
    /\ wrote.first \in Nat /\ wrote.end \in Nat /\ wrote.end <= plugin.size
    /\ plugin.len = wrote.end
    /\ \A i \in (wrote.first + 1)..wrote.end : plugin.buf[i] = "plugin"

(* The inductive invariant. *)
PluginIInv == CommandFits /\ PluginFits /\ AnswerIsLastOutput /\ AnswerWhole

(* The invariant of the plugin holds initially.                            *)
LEMMA PluginInitIInv == PluginInit => PluginIInv
BY DEF PluginInit, PluginIInv, CommandFits, PluginFits, AnswerIsLastOutput, AnswerWhole,
       NoCommand, NoPlugin, NoAnswer

(* A call that fails keeps it.                                             *)
LEMMA FailsKeeps == CallFails => PluginIInv'
<1> SUFFICES ASSUME CallFails PROVE PluginIInv'
  OBVIOUS
<1>1. /\ command' = NoCommand /\ plugin' = NoPlugin
      /\ answer'.how = "error" /\ answer'.len = 0
  BY Zenon DEF CallFails, Answered
<1>2. CommandFits' /\ PluginFits'
  BY <1>1 DEF CommandFits, PluginFits, NoCommand, NoPlugin
<1>3. AnswerIsLastOutput' /\ AnswerWhole'
  BY <1>1 DEF AnswerIsLastOutput, AnswerWhole
<1> QED BY <1>2, <1>3 DEF PluginIInv

(* So does every end of one: an error, or a cut at a reported length.      *)
LEMMA AnsweredKeeps ==
  ASSUME PluginIInv, plugin.on, UNCHANGED wrote,
         \/ CallFails
         \/ \E len \in Nat, how \in {"ok", "foreign"} :
              CallReturns(how, len) /\ (how = "ok" => len = plugin.len)
  PROVE  PluginIInv'
<1>1. CASE CallFails
  BY <1>1, FailsKeeps
<1>2. ASSUME NEW len \in Nat, NEW how \in {"ok", "foreign"}, len <= plugin.size,
             Answered(how, len, [i \in 1..len |-> plugin.buf[i]]),
             how = "ok" => len = plugin.len
      PROVE  PluginIInv'
  <2>1. /\ command' = NoCommand /\ plugin' = NoPlugin
        /\ answer'.how = how /\ answer'.len = len
        /\ \A i \in 1..len : answer'.data[i] = plugin.buf[i]
    BY <1>2, Zenon DEF Answered
  <2>2. CommandFits' /\ PluginFits'
    BY <2>1 DEF CommandFits, PluginFits, NoCommand, NoPlugin
  <2>3. AnswerIsLastOutput'
    BY <1>2, <2>1 DEF AnswerIsLastOutput, PluginIInv, PluginFits
  <2>4. AnswerWhole'
    <3>1. \A i \in 1..len : plugin.buf[i] \in Writers
      <4>1. plugin.size \in Nat /\ plugin.buf \in [1..plugin.size -> Writers]
        BY Zenon DEF PluginIInv, PluginFits, CommandFits
      <4>2. \A i \in 1..len : i \in 1..plugin.size
        BY <1>2, <4>1
      <4> QED BY <4>1, <4>2, Zenon
    <3> QED BY <2>1, <3>1, Zenon DEF AnswerWhole, Writers
  <2> QED BY <2>2, <2>3, <2>4 DEF PluginIInv
<1>3. ASSUME NEW len \in Nat, NEW how \in {"ok", "foreign"}, CallReturns(how, len),
             how = "ok" => len = plugin.len
      PROVE  PluginIInv'
  <2>1. plugin.size \in Nat
    BY Zenon DEF PluginIInv, PluginFits, CommandFits
  <2> QED BY <1>1, <1>2, <1>3, <2>1 DEF CallReturns
<1> QED BY <1>1, <1>3

(* An output operation that succeeds keeps the buffer and moves its end.   *)
LEMMA WroteKeeps ==
  ASSUME PluginIInv, plugin.on, UNCHANGED <<command, answer>>,
         NEW first \in Nat, NEW end \in Nat, NEW len \in Nat, Wrote(first, end, len),
         \/ wrote' = [first |-> first, end |-> end] /\ len = end /\ end <= plugin.size
         \/ wrote' = wrote /\ len = plugin.len
  PROVE  PluginIInv'
<1>1. /\ command.at = "calling" /\ plugin.size = command.cap /\ plugin.size \in Nat
      /\ plugin.buf \in [1..plugin.size -> Writers]
  BY Zenon DEF PluginIInv, PluginFits, CommandFits
<1>2. /\ plugin'.size = plugin.size /\ plugin'.len = len
      /\ plugin'.buf \in [1..plugin.size -> Writers]
      /\ \A i \in 1..plugin.size :
           plugin'.buf[i] = IF i \in (first + 1)..end THEN "plugin" ELSE plugin.buf[i]
  BY <1>1, Zenon DEF Wrote, Writers
<1>3. CommandFits' /\ AnswerIsLastOutput' /\ AnswerWhole'
  BY <1>1, Zenon DEF PluginIInv, CommandFits, AnswerIsLastOutput, AnswerWhole
<1>4. CASE wrote' = [first |-> first, end |-> end] /\ len = end /\ end <= plugin.size
  <2>1. \A i \in (first + 1)..end : plugin'.buf[i] = "plugin"
    <3>1. \A i \in (first + 1)..end : i \in 1..plugin.size
      BY <1>1, <1>4
    <3> QED BY <1>2, <3>1, Zenon
  <2>2. PluginFits'
    BY <1>1, <1>2, <1>4, <2>1, Zenon DEF PluginFits
  <2> QED BY <1>3, <2>2, Zenon DEF PluginIInv
<1>5. CASE wrote' = wrote /\ len = plugin.len
  <2>1. /\ wrote.first \in Nat /\ wrote.end \in Nat /\ wrote.end <= plugin.size
        /\ plugin.len = wrote.end
        /\ \A i \in (wrote.first + 1)..wrote.end : plugin.buf[i] = "plugin"
    BY Zenon DEF PluginIInv, PluginFits
  <2>2. \A i \in (wrote.first + 1)..wrote.end : plugin'.buf[i] = "plugin"
    <3>1. \A i \in (wrote.first + 1)..wrote.end : i \in 1..plugin.size
      BY <1>1, <2>1
    <3> QED BY <1>2, <2>1, <3>1, Zenon
  <2>3. command'.at = "calling" /\ plugin'.size = command'.cap
    BY <1>1, <1>2, Zenon
  <2>4. plugin'.buf \in [1..plugin'.size -> Writers]
    BY <1>2, Zenon
  <2>5. /\ wrote'.first \in Nat /\ wrote'.end \in Nat /\ wrote'.end <= plugin'.size
        /\ plugin'.len = wrote'.end
    BY <1>2, <1>5, <2>1, Zenon
  <2>6. \A i \in (wrote'.first + 1)..wrote'.end : plugin'.buf[i] = "plugin"
    BY <1>5, <2>2, Zenon
  <2>7. PluginFits'
    BY <2>3, <2>4, <2>5, <2>6, Zenon DEF PluginFits
  <2> QED BY <1>3, <2>7 DEF PluginIInv
<1> QED BY <1>4, <1>5, Zenon

(* One that is refused, or that the plugin dies of, changes none of it.    *)
LEMMA RefusedKeeps ==
  ASSUME PluginIInv, UNCHANGED <<command, answer, plugin, wrote>>
  PROVE  PluginIInv'
BY Zenon DEF PluginIInv, CommandFits, PluginFits, AnswerIsLastOutput, AnswerWhole

(* write_output_at keeps it: a sum that overflows panics or is refused.    *)
LEMMA WriteOutputAtKeeps ==
  ASSUME UsizeAssumption, PluginIInv, plugin.on, UNCHANGED <<command, answer>>,
         NEW pos \in 0..UsizeMax, NEW n \in 0..UsizeMax, WriteOutputAt(pos, n)
  PROVE  PluginIInv'
<1> DEFINE end == (pos + n) % (UsizeMax + 1)
<1>1. end \in Nat /\ pos \in Nat
  BY DEF UsizeAssumption
<1>2. plugin.size \in Nat
  BY Zenon DEF PluginIInv, PluginFits, CommandFits
<1>3. \/ UNCHANGED <<plugin, wrote>>
      \/ /\ Wrote(pos, end, end) /\ wrote' = [first |-> pos, end |-> end] /\ ~ (plugin.size < end)
  BY Zenon DEF WriteOutputAt, Refused, Dies
<1> HIDE DEF end
<1> QED BY <1>1, <1>2, <1>3, RefusedKeeps, WroteKeeps

(* So does every other output operation.                                   *)
LEMMA PluginOutputKeeps ==
  ASSUME UsizeAssumption, PluginIInv, PluginOutput
  PROVE  PluginIInv'
<1>0. plugin.on /\ UNCHANGED <<command, answer>>
  BY DEF PluginOutput
<1>1. ASSUME NEW pos \in 0..UsizeMax, NEW n \in 0..UsizeMax, WriteOutputAt(pos, n) PROVE PluginIInv'
  BY <1>0, <1>1, WriteOutputAtKeeps
<1>2. ASSUME NEW n \in 0..UsizeMax, SetBufFromSlice(n) PROVE PluginIInv'
  BY <1>0, <1>2, WriteOutputAtKeeps DEF SetBufFromSlice, UsizeAssumption
<1>3. plugin.size \in Nat /\ plugin.len \in Nat
  BY <1>0, Zenon DEF PluginIInv, PluginFits, CommandFits
<1>4. ASSUME NEW n \in 0..UsizeMax, SetOutLen(n) PROVE PluginIInv'
  BY <1>0, <1>3, <1>4, RefusedKeeps, WroteKeeps DEF SetOutLen, Refused, UsizeAssumption
<1>5. ASSUME NEW i \in 1..plugin.size, WriteBufferMut(i) PROVE PluginIInv'
  BY <1>0, <1>3, <1>5, WroteKeeps DEF WriteBufferMut
<1> QED BY <1>1, <1>2, <1>4, <1>5, Zenon DEF PluginOutput

(* So does putting the request together.                                   *)
LEMMA BuildingKeeps ==
  ASSUME UsizeAssumption, PluginIInv,
         \/ \E room \in 0..UsizeMax : NewWithCapacity(room)
         \/ \E n, room \in 0..UsizeMax : WriteBody(n, room)
  PROVE  PluginIInv'
<1>1. ~plugin.on /\ UNCHANGED <<plugin, wrote>>
  BY Zenon DEF PluginIInv, PluginFits, NewWithCapacity, WriteBody
<1>2. ASSUME NEW room \in 0..UsizeMax, NewWithCapacity(room) PROVE PluginIInv'
  <2>1. PluginFits'
    BY <1>1, Zenon DEF PluginFits
  <2>2. answer'.how = "none"
    BY <1>2, Zenon DEF NewWithCapacity, NoAnswer
  <2>3. CommandFits'
    BY <1>2, <2>2 DEF NewWithCapacity, CommandFits, UsizeAssumption
  <2> QED BY <2>1, <2>2, <2>3, Zenon DEF PluginIInv, AnswerIsLastOutput, AnswerWhole
<1>3. ASSUME NEW n \in 0..UsizeMax, NEW room \in 0..UsizeMax, WriteBody(n, room) PROVE PluginIInv'
  <2>1. PluginFits'
    BY <1>1, Zenon DEF PluginFits
  <2>2. answer' = answer /\ answer.how = "none"
    BY <1>3, Zenon DEF WriteBody, PluginIInv, CommandFits
  <2>3. CommandFits'
    BY <1>3, <2>2 DEF WriteBody, PluginIInv, CommandFits, UsizeAssumption
  <2> QED BY <2>1, <2>2, <2>3, Zenon DEF PluginIInv, AnswerIsLastOutput, AnswerWhole
<1> QED BY <1>2, <1>3

(* So does the entry of the plugin.                                        *)
LEMMA PluginInvokeKeeps ==
  ASSUME PluginIInv, NEW null, NEW out, PluginInvoke(null, out)
  PROVE  PluginIInv'
<1>1. command.at = "building" /\ wrote' = Nothing /\ answer.how = "none"
  BY Zenon DEF PluginInvoke, PluginIInv, CommandFits
<1>2. CASE CallFails
  BY <1>2, FailsKeeps
<1>3. CASE /\ plugin' = [on |-> TRUE, buf |-> SharedBuffer, size |-> command.cap, out |-> out, len |-> 0]
           /\ command' = [at |-> "calling", cap |-> command.cap, body |-> command.body]
           /\ UNCHANGED answer
  <2>1. SharedBuffer \in [1..command.cap -> Writers]
    BY DEF SharedBuffer, Writers
  <2>2. CommandFits' /\ command.cap \in Nat
    BY <1>1, <1>3, Zenon DEF PluginIInv, CommandFits
  <2>3. PluginFits'
    BY <1>1, <1>3, <2>1, <2>2 DEF PluginFits, Nothing
  <2> QED BY <1>1, <1>3, <2>2, <2>3, Zenon DEF PluginIInv, AnswerIsLastOutput, AnswerWhole
<1> QED BY <1>2, <1>3, Zenon DEF PluginInvoke

(* Every step keeps it.                                                    *)
LEMMA PluginNextIInv ==
  ASSUME UsizeAssumption
  PROVE  PluginIInv /\ [PluginNext]_pluginVars => PluginIInv'
<1> SUFFICES ASSUME PluginIInv, [PluginNext]_pluginVars PROVE PluginIInv'
  OBVIOUS
<1>1. CASE \/ \E room \in 0..UsizeMax : NewWithCapacity(room)
           \/ \E n, room \in 0..UsizeMax : WriteBody(n, room)
  BY <1>1, BuildingKeeps, Zenon
<1>2. ASSUME NEW null \in BOOLEAN, NEW out \in BOOLEAN, PluginInvoke(null, out) PROVE PluginIInv'
  BY <1>2, PluginInvokeKeeps
<1>3. CASE PluginOutput
  BY <1>3, PluginOutputKeeps
<1>4. CASE PluginReturns
  <2>1. plugin.len \in Nat
    BY <1>4, Zenon DEF PluginReturns, PluginIInv, PluginFits
  <2> QED BY <1>4, <2>1, AnsweredKeeps, Zenon DEF PluginReturns
<1>5. CASE SupplicantDied
  BY <1>5, AnsweredKeeps, Zenon DEF SupplicantDied
<1>6. ASSUME NEW len \in 0..UsizeMax, ForeignReturns(len) PROVE PluginIInv'
  BY <1>6, AnsweredKeeps DEF ForeignReturns, UsizeAssumption
<1>7. CASE UNCHANGED pluginVars
  BY <1>7, RefusedKeeps, Zenon DEF pluginVars
<1> QED BY <1>1, <1>2, <1>3, <1>4, <1>5, <1>6, <1>7, Zenon DEF PluginNext

(* So it always holds.                                                     *)
THEOREM PluginInductive == ASSUME UsizeAssumption PROVE PluginSpec => []PluginIInv
BY PluginInitIInv, PluginNextIInv, PTL DEF PluginSpec

(* For every width of usize and both kinds of build, the length a plugin   *)
(* reports through PluginParameters is within the buffer.                  *)
THEOREM LengthAlwaysInBuffer == ASSUME UsizeAssumption PROVE PluginSpec => []LengthInBuffer
<1>1. PluginIInv => LengthInBuffer
  BY Zenon DEF PluginIInv, CommandFits, PluginFits, LengthInBuffer
<1> QED BY <1>1, PluginInductive, PTL

(* The TA is answered what the last successful output operation left.      *)
THEOREM AnswerAlwaysLastOutput == ASSUME UsizeAssumption PROVE PluginSpec => []AnswerIsLastOutput
<1>1. PluginIInv => AnswerIsLastOutput
  BY DEF PluginIInv
<1> QED BY <1>1, PluginInductive, PTL

(* The TA never reads beyond the buffer, whatever length was reported.     *)
THEOREM AnswerAlwaysWhole == ASSUME UsizeAssumption PROVE PluginSpec => []AnswerWhole
<1>1. PluginIInv => AnswerWhole
  BY DEF PluginIInv
<1> QED BY <1>1, PluginInductive, PTL
=============================================================================
