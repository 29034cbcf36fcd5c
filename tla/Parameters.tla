----------------------------- MODULE Parameters -----------------------------
(***************************************************************************)
(* The four parameters of a call into a TA, end to end.  The caller is a   *)
(* Client Application, with an optee_teec::Operation, or another TA, with  *)
(* an optee_utee::TeeParams and a TaSession; it may use the same           *)
(* parameters for several calls.  The callee reads and writes them through *)
(* the typed wrappers of optee_utee::parameter, or through the deprecated  *)
(* ones.  Of a buffer only its length and how far it is used matter.       *)
(***************************************************************************)
EXTENDS Naturals

CONSTANTS
  Signatures,  \* the 4-tuples of parameter kinds that callers use
  Expected,    \* the 4-tuples of kinds that TA functions declare
  MaxLen,      \* bound: the longest buffer
  MaxUsize,    \* usize::MAX
  Vals         \* the values of a value parameter

ASSUME BoundsAssumption == MaxLen \in Nat /\ MaxUsize \in Nat /\ MaxLen <= MaxUsize
ASSUME ValsAssumption == 0 \in Vals

Slots == 0..3
Readable == {"MemrefInput", "MemrefInout"}
Writable == {"MemrefOutput", "MemrefInout"}
Memrefs == Readable \cup Writable
ValueOut == {"ValueOutput", "ValueInout"}
Kinds == {"None", "ValueInput"} \cup ValueOut \cup Memrefs

(* The declared kind of ParameterAny, which takes any kind. *)
Any == "Any"

ASSUME SignaturesAssumption ==
  Signatures \subseteq [Slots -> Kinds] /\ Expected \subseteq [Slots -> Kinds \cup {Any}]

VARIABLES
  api,       \* the caller: "ca" or "ta"
  callee,    \* the callee's wrappers: "typed" or "deprecated"
  declared,  \* the kinds the callee declares
  slot,      \* the caller's parameters: kind, length of the buffer, size (the
             \* size field, or written, of a memref), value
  raw,       \* the TEE_Param array of the call: size and value
  cap,       \* the callee's wrappers: capacity, or the type of a deprecated one
  phase,     \* "idle", "entry", "handler", "ok" or "err" (what the callee said)
  op,        \* the call: "open" or "invoke"
  held,      \* the caller has a TaSession (Session)
  alive,     \* the session is open in the TEE
  updated,   \* the last update_from_raw: "ok" or "err"
  touched,   \* history: how far the callee read or wrote each buffer
  offered    \* history: the size each buffer had when the call was entered

caller == <<api, callee, declared>>
history == <<touched, offered>>
vars == <<caller, slot, raw, cap, phase, op, held, alive, updated, history>>

-----------------------------------------------------------------------------
(* Parameter types: 4 bits for each slot. *)

Code == [k \in Kinds |->
  CASE k = "None" -> 0 [] k = "ValueInput" -> 1 [] k = "ValueOutput" -> 2
    [] k = "ValueInout" -> 3 [] k = "MemrefInput" -> 5
    [] k = "MemrefOutput" -> 6 [] k = "MemrefInout" -> 7]

MemrefCodes == {Code[k] : k \in Memrefs}
ValueCodes == {Code[k] : k \in ValueOut \cup {"ValueInput"}}

Pack(kinds) ==
  Code[kinds[0]] + 16 * Code[kinds[1]] + 256 * Code[kinds[2]] + 4096 * Code[kinds[3]]

TypeGet(types, i) == (types \div 16^i) % 16

(* ParamTypes::into_flags of the deprecated wrappers: a mask, then a shift *)
(* to the code of the kind.                                                *)
IntoFlags(types, i) == ((types % 16^(i + 1)) - (types % 16^i)) \div 16^i

-----------------------------------------------------------------------------
(* The caller *)

(* A new parameter: ParamTmpRef::new_*, ParamValue::new and with_*, set_*  *)
(* of TeeParams, which has written nothing yet.                            *)
NewParam(who, k, n, v) ==
  [kind |-> k,
   length |-> IF k \in Memrefs THEN n ELSE 0,
   size |-> IF k \in Memrefs /\ who = "ca" THEN n ELSE 0,
   value |-> IF k \in Memrefs \cup {"None"} THEN 0 ELSE v]

Fresh(who) ==
  {[i \in Slots |-> NewParam(who, sig[i], len[i], v)] :
     sig \in Signatures, len \in [Slots -> 0..MaxLen], v \in Vals}

NoCall == [raw |-> [i \in Slots |-> [size |-> 0, value |-> 0]],
           sizes |-> [i \in Slots |-> 0]]

Init ==
  /\ api \in {"ca", "ta"}
  /\ callee \in {"typed", "deprecated"}
  /\ declared \in Expected
  /\ slot \in Fresh(api)
  /\ raw = NoCall.raw
  /\ cap = NoCall.sizes
  /\ phase = "idle" /\ op = "open"
  /\ held = FALSE /\ alive = FALSE /\ updated = "ok"
  /\ touched = NoCall.sizes
  /\ offered = NoCall.sizes

(* Operation::new: the caller uses another Operation from now on. *)
NewOperation ==
  /\ phase = "idle" /\ api = "ca"
  /\ slot' \in Fresh("ca")
  /\ UNCHANGED <<caller, raw, cap, phase, op, held, alive, updated, history>>

(* TeeParams::set_*: a parameter is set anew between calls. *)
SetParam(i, n, v) ==
  /\ phase = "idle" /\ api = "ta"
  /\ \E sig \in Signatures : slot' = [slot EXCEPT ![i] = NewParam(api, sig[i], n, v)]
  /\ UNCHANGED <<caller, raw, cap, phase, op, held, alive, updated, history>>

(* Mutant: TeeParams passes on what the last call left in written. *)
SizeSentWritten(p) == p.size

(* The size the call is made with: an Operation is its own TEEC_Parameter  *)
(* array, that of TeeParams is built from the slices.                      *)
SizeSent(p) == IF api = "ca" THEN p.size ELSE p.length

(* TEEC_InvokeCommand, TEE_InvokeTACommand, or the call that opens a       *)
(* session, with parameters.                                               *)
Call(o) ==
  /\ phase = "idle"
  /\ o = "open" <=> ~held
  /\ phase' = "entry" /\ op' = o
  /\ raw' = [i \in Slots |-> [size |-> SizeSent(slot[i]), value |-> slot[i].value]]
  /\ touched' = [i \in Slots |-> 0]
  /\ offered' = [i \in Slots |-> SizeSent(slot[i])]
  /\ UNCHANGED <<caller, slot, cap, held, alive, updated>>

-----------------------------------------------------------------------------
(* The callee *)

Types == Pack([i \in Slots |-> slot[i].kind])

(* check_type_is for each slot, in the generated entry point. *)
Matches(i) == declared[i] # Any => TypeGet(Types, i) = Code[declared[i]]

(* The TEE has given an empty buffer a null address; from_raw of the typed *)
(* memrefs refuses it.                                                     *)
NullBuffer(i) == slot[i].kind \in Memrefs /\ raw[i].size = 0

(* FromRawParameters::from_raw fails at some slot. *)
Reject ==
  /\ phase = "entry" /\ callee = "typed"
  /\ \E i \in Slots : ~Matches(i) \/ NullBuffer(i)
  /\ phase' = "err"
  /\ UNCHANGED <<caller, slot, raw, cap, op, held, alive, updated, history>>

(* Every slot has its wrapper, and the user's function runs.  An empty     *)
(* buffer may also have come with an address.                              *)
Enter ==
  /\ phase = "entry" /\ callee = "typed"
  /\ \A i \in Slots : Matches(i)
  /\ cap' = [i \in Slots |-> raw[i].size]
  /\ phase' = "handler"
  /\ UNCHANGED <<caller, slot, raw, op, held, alive, updated, history>>

(* Parameters::from_raw: pointers and types, no check. *)
EnterDeprecated ==
  /\ phase = "entry" /\ callee = "deprecated"
  /\ cap' = [i \in Slots |-> IntoFlags(Types, i)]
  /\ phase' = "handler"
  /\ UNCHANGED <<caller, slot, raw, op, held, alive, updated, history>>

(* ParameterMemref::buffer_len, kept from before any update of the size;   *)
(* an input has no capacity field and its size never changes.              *)
BufferLen(i) == IF slot[i].kind = "MemrefInput" THEN raw[i].size ELSE cap[i]

(* What the function does with its parameters. *)
Handle ==
  /\ phase = "handler"
  /\ UNCHANGED <<caller, slot, cap, phase, op, held, alive, updated, offered>>

(* How far a buffer was used, once it is used up to the end. *)
Reach(i, end) == touched' = [touched EXCEPT ![i] = IF end > @ THEN end ELSE @]

(* set_updated_size_unchecked *)
SetSize(i, n) == raw' = [raw EXCEPT ![i].size = n]

(* Mutant: the end of the write is computed with wrapping addition. *)
WriteEndWrapping(offset, n) == (offset + n) % (MaxUsize + 1)

(* offset.checked_add(len): beyond usize::MAX is longer than any buffer. *)
WriteEnd(offset, n) == offset + n

(* write_at and set_output: the bytes, then the size, or ShortBuffer. *)
WriteAt(i, offset, n) ==
  /\ Handle /\ callee = "typed"
  /\ slot[i].kind \in Writable
  /\ WriteEnd(offset, n) <= BufferLen(i)
  /\ Reach(i, IF n # 0 THEN offset + n ELSE 0)
  /\ SetSize(i, WriteEnd(offset, n))

(* Mutant: the size is not compared with the buffer. *)
SetUpdatedSizeUnchecked(i, n) ==
  /\ Handle /\ callee = "typed"
  /\ slot[i].kind \in Writable
  /\ SetSize(i, n)
  /\ UNCHANGED touched

SetUpdatedSize(i, n) ==
  /\ Handle /\ callee = "typed"
  /\ slot[i].kind \in Writable
  /\ n <= BufferLen(i)
  /\ SetSize(i, n)
  /\ UNCHANGED touched

(* read_at into n bytes, from an offset within the buffer or at its end: a *)
(* read is cut to what there is.                                           *)
ReadAt(i, offset, n) ==
  /\ Handle /\ callee = "typed"
  /\ slot[i].kind \in Readable
  /\ offset <= BufferLen(i)
  /\ LET available == BufferLen(i) - offset
         to_read == IF n < available THEN n ELSE available
     IN  Reach(i, IF to_read # 0 THEN offset + to_read ELSE 0)
  /\ UNCHANGED raw

(* The deprecated ParamMemref, of any direction: buffer() is as long as    *)
(* the size field, and set_updated_size checks nothing.                    *)
AsMemref(i) == Handle /\ callee = "deprecated" /\ cap[i] \in MemrefCodes

DeprecatedBuffer(i) ==
  /\ AsMemref(i)
  /\ Reach(i, raw[i].size)
  /\ UNCHANGED raw

DeprecatedSize(i, n) ==
  /\ AsMemref(i)
  /\ raw' = [raw EXCEPT ![i].size = n]
  /\ UNCHANGED touched

(* set_a, set_b of ParameterValueOutput and ParameterValueInout. *)
SetValue(i, v) ==
  /\ Handle /\ callee = "typed"
  /\ slot[i].kind \in ValueOut
  /\ raw' = [raw EXCEPT ![i].value = v]
  /\ UNCHANGED touched

(* Those of the deprecated ParamValue, of any direction. *)
DeprecatedValue(i, v) ==
  /\ Handle /\ callee = "deprecated"
  /\ cap[i] \in ValueCodes
  /\ raw' = [raw EXCEPT ![i].value = v]
  /\ UNCHANGED touched

HandlerReturns ==
  /\ phase = "handler"
  /\ phase' \in {"ok", "err"}
  /\ UNCHANGED <<caller, slot, raw, cap, op, held, alive, updated, history>>

-----------------------------------------------------------------------------
(* The caller gets the parameters back *)

(* written_slice of a caller: the part of the buffer that is said to be    *)
(* written.                                                                *)
WrittenSlice(p) == IF p.kind \in Writable THEN p.size ELSE 0

(* The arrays of the call are gone. *)
Return ==
  /\ phase' = "idle"
  /\ raw' = NoCall.raw
  /\ cap' = NoCall.sizes
  /\ touched' = NoCall.sizes
  /\ offered' = NoCall.sizes

TooLong(i) == slot[i].kind \in Writable /\ raw[i].size > slot[i].length

(* update_from_raw on one slot *)
Updated(i) ==
  [kind |-> slot[i].kind,
   length |-> slot[i].length,
   size |-> IF slot[i].kind \in Writable THEN raw[i].size ELSE slot[i].size,
   value |-> IF slot[i].kind \in ValueOut THEN raw[i].value ELSE slot[i].value]

(* update_from_raw stops at the first slot whose size the callee has set   *)
(* beyond the buffer.                                                      *)
UpdateFromRaw ==
  LET Before(i) == \A j \in 0..i : ~TooLong(j)
  IN /\ slot' = [i \in Slots |-> IF Before(i) THEN Updated(i) ELSE slot[i]]
     /\ updated' = IF Before(3) THEN "ok" ELSE "err"

(* Mutant: the TaSession is made after the parameters have been updated. *)
TaReturnsLate ==
  /\ api = "ta" /\ phase = "ok"
  /\ UpdateFromRaw
  /\ alive' = TRUE
  /\ held' = (op = "invoke" \/ updated' = "ok")
  /\ Return
  /\ UNCHANGED <<caller, op>>

(* TaSession::invoke_command and TaSessionBuilder::build: the parameters   *)
(* are updated after a success; the session that build has opened is       *)
(* dropped, and so closed, when that fails.                                *)
TaReturns ==
  /\ api = "ta" /\ phase = "ok"
  /\ UpdateFromRaw
  /\ held' = (op = "invoke" \/ updated' = "ok")
  /\ alive' = held'
  /\ Return
  /\ UNCHANGED <<caller, op>>

(* After an error nothing is updated. *)
TaFails ==
  /\ api = "ta" /\ phase = "err"
  /\ Return
  /\ UNCHANGED <<caller, slot, op, held, alive, updated>>

(* Session::invoke_command and Session::new: libteec has copied sizes and  *)
(* values of outputs into the Operation, also after an error if the call   *)
(* reached the TA.                                                         *)
CaReturns ==
  /\ api = "ca" /\ phase \in {"ok", "err"}
  /\ \/ slot' = [i \in Slots |-> Updated(i)]
     \/ phase = "err" /\ UNCHANGED slot
  /\ held' = (held \/ phase = "ok")
  /\ alive' = held'
  /\ Return
  /\ UNCHANGED <<caller, op, updated>>

(* impl Drop for TaSession, Session *)
DropSession ==
  /\ phase = "idle" /\ held
  /\ held' = FALSE /\ alive' = FALSE
  /\ UNCHANGED <<caller, slot, raw, cap, phase, op, updated, history>>

-----------------------------------------------------------------------------
Next ==
  \/ \E o \in {"open", "invoke"} : Call(o)
  \/ NewOperation \/ Reject \/ Enter \/ EnterDeprecated \/ HandlerReturns
  \/ \E i \in Slots :
       \/ \E n \in 0..MaxLen, v \in Vals : SetParam(i, n, v)
       \/ \E offset, n \in 0..MaxUsize : WriteAt(i, offset, n) \/ ReadAt(i, offset, n)
       \/ \E n \in 0..MaxUsize : SetUpdatedSize(i, n) \/ DeprecatedSize(i, n)
       \/ DeprecatedBuffer(i)
       \/ \E v \in Vals : SetValue(i, v) \/ DeprecatedValue(i, v)
  \/ TaReturns \/ TaFails \/ CaReturns \/ DropSession

Spec == Init /\ [][Next]_vars

-----------------------------------------------------------------------------
(* No read or write of a typed wrapper goes beyond the caller's buffer,    *)
(* whatever sizes were reported before it in this call or in earlier calls *)
(* with the same parameters, and whatever the offset.  The sizes that come *)
(* back stay within the buffer too, so a caller may slice it by them: in a *)
(* Client Application when the TA uses the typed wrappers, in a calling TA *)
(* whatever the callee does.                                               *)
AccessInBounds ==
  /\ callee = "typed" => \A i \in Slots : touched[i] <= slot[i].length
  /\ callee = "typed" \/ api = "ta" =>
       \A i \in Slots : WrittenSlice(slot[i]) <= slot[i].length

(* A TA that calls again with the same TeeParams offers each buffer whole, *)
(* whatever the last callee left of it; and during a call the typed        *)
(* wrapper goes on offering the buffer it was entered with, so a function  *)
(* that has reported a size can still write the rest.                      *)
WholeBufferOffered ==
  /\ api = "ta" /\ phase # "idle" => \A i \in Slots : offered[i] = slot[i].length
  /\ phase = "handler" /\ callee = "typed" =>
       \A i \in Slots : slot[i].kind \in Memrefs => BufferLen(i) = offered[i]

(* The check in update_from_raw is never needed against a TA that uses the *)
(* typed wrappers.                                                         *)
UpdateNeverFails == callee = "typed" => updated = "ok"

(* A session is open in the TEE exactly while its caller has the value     *)
(* that will close it, on the error paths of build as well.                *)
SessionNotLost == alive = held
=============================================================================
