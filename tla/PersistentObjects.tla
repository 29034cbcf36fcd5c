------------------------- MODULE PersistentObjects -------------------------
(***************************************************************************)
(* crates/optee-utee/src/object: PersistentObject and the ObjectHandle it  *)
(* owns.  Several TA instances share a storage; each holds one object and  *)
(* calls its methods, and the steps of different instances interleave.  A  *)
(* method is one call to the TEE, but read_remaining_to_vec is two: the    *)
(* size is asked for, then that much is read.  The TEE side follows the    *)
(* errors and panics that the methods document; a panic ends the instance  *)
(* and the TEE closes its handles.                                         *)
(***************************************************************************)
EXTENDS ObjectHandles, Integers, Sequences

CONSTANTS
  Tas,         \* instances, each with one object value
  Ids,         \* object identifiers
  Bytes,       \* byte values that are written
  MaxPos,      \* TEE_DATA_MAX_POSITION
  KeepsHandle  \* the TA is built with TA_FLAG_DONT_CLOSE_HANDLE_ON_CORRUPT_OBJECT

ASSUME MaxPosAssumption == MaxPos \in Nat \ {0}
ASSUME KeepsHandleAssumption == KeepsHandle \in BOOLEAN

VARIABLES
  store,    \* of every identifier: its data, or Absent
  handle,   \* of every handle: the identifier, flags and position, or Absent
  value,    \* of every instance: the handle its object value owns, or Null
  reading,  \* of every instance: inside read_remaining_to_vec, what it knows
  got,      \* the vector that read_remaining_to_vec returned last
  undeleted,\* handles that a failed deletion left open
  misuse,   \* what was done to a handle that must not be done
  ended     \* instances that panicked

vars == <<store, handle, value, reading, got, undeleted, misuse, ended>>
rest == <<misuse, ended>>

(* The access and sharing rights that are told apart. *)
Flags == {{"read", "write", "share"}, {"read", "share"}, {"read", "write", "meta"}}

(* What a position or a size may be: 0 .. MaxPos; anything above overflows. *)
Positions == 0 .. MaxPos

(* The data of an object, what the TEE keeps for an open handle, and what  *)
(* read_remaining_to_vec knows between its two calls.                      *)
Contents == UNION {[1 .. n -> Bytes \cup {0}] : n \in Positions}
OpenHandles == [id : Ids, flags : Flags, pos : Positions]
Remaining == [size : Positions, data : Contents]

ASSUME AbsentAssumption ==
  Absent \notin Contents /\ Absent \notin OpenHandles /\ Absent \notin Remaining

HandleState(i, f, p) == [id |-> i, flags |-> f, pos |-> p]

Init ==
  /\ store = [i \in Ids |-> Absent]
  /\ handle = [h \in Handles |-> Absent]
  /\ value = [t \in Tas |-> Null]
  /\ reading = [t \in Tas |-> Absent]
  /\ got = <<>>
  /\ undeleted = {}
  /\ misuse = {}
  /\ ended = {}

Idle(t) == t \notin ended /\ reading[t] = Absent
Opened(i) == {h \in Handles : handle[h] # Absent /\ handle[h].id = i}

(* Mutant: write-meta access does not exclude other handles. *)
CompatibleMeta(i, f) == \A h \in Opened(i) : TRUE

(* A handle with write-meta access is the only one; others share. *)
Compatible(i, f) ==
  \A h \in Opened(i) : "share" \in f \cap handle[h].flags /\ "meta" \notin f

(* ObjectHandle::drop: a null handle is left alone. *)
Close(h) ==
  /\ handle' = [g \in Handles |-> IF g = h THEN Absent ELSE handle[g]]
  /\ misuse' = misuse \cup
       (IF h = Null \/ handle[h] # Absent THEN {} ELSE {"closed twice"})

Drop(t) ==
  /\ Idle(t) /\ value[t] # Null
  /\ Close(value[t])
  /\ value' = [value EXCEPT ![t] = Null]
  /\ UNCHANGED <<store, reading, got, undeleted, ended>>

(* A new handle from the TEE becomes the value; it must not be null. *)
FromRaw(t, i, f) ==
  \E h \in {g \in Handles : handle[g] = Absent /\ \A u \in Tas : value[u] # g} :
    /\ handle' = [handle EXCEPT ![h] = HandleState(i, f, 0)]
    /\ value' = [value EXCEPT ![t] = h]

(* Fails when the object is missing or in use; nothing is owned then. *)
Open(t, i, f) ==
  /\ Idle(t) /\ value[t] = Null
  /\ store[i] # Absent /\ Compatible(i, f)
  /\ FromRaw(t, i, f)
  /\ UNCHANGED <<store, reading, got, undeleted, rest>>

(* create replaces an object unless it is open.  The handle of the         *)
(* attributes is consumed and closed on return; no other value holds it.   *)
Create(t, i, f, data) ==
  /\ Idle(t) /\ value[t] = Null
  /\ \/ UNCHANGED <<store, handle, value>>
     \/ /\ Opened(i) = {}
        /\ store' = [store EXCEPT ![i] = data]
        /\ FromRaw(t, i, f)
  /\ UNCHANGED <<reading, got, undeleted, misuse, ended>>

(* The TEE ends the instance and closes what it had open. *)
Panic(t) ==
  /\ ended' = ended \cup {t}
  /\ handle' = [h \in Handles |-> IF h = value[t] THEN Absent ELSE handle[h]]
  /\ value' = [value EXCEPT ![t] = Null]
  /\ reading' = [reading EXCEPT ![t] = Absent]
  /\ UNCHANGED <<store, got, undeleted, misuse>>

(* A method on the object: the TEE panics when the handle is not open with *)
(* the rights it takes.  A corrupt object is reported, and the TEE closes  *)
(* the handle unless the TA is built to keep it; other errors leave all    *)
(* as it was.                                                              *)
Method(t, rights, Effect(_)) ==
  /\ Idle(t) /\ value[t] # Null
  /\ LET h == value[t]
     IN IF handle[h] # Absent /\ rights \subseteq handle[h].flags
        THEN Effect(h) /\ UNCHANGED rest
        ELSE Panic(t)

Corrupt(t) ==
  Method(t, {}, LAMBDA h :
    /\ handle' = IF KeepsHandle THEN handle ELSE [handle EXCEPT ![h] = Absent]
    /\ UNCHANGED <<store, value, reading, got, undeleted>>)

(* Mutant: the handle is forgotten only when the deletion succeeded. *)
ForgottenOnSuccess(t, ok) == IF ok THEN Null ELSE value[t]

(* The handle is forgotten whatever the result. *)
Forgotten(t, ok) == Null

(* When storage is not available the TEE may have closed the handle or     *)
(* left it open.                                                           *)
CloseAndDelete(t) ==
  Method(t, {"meta"}, LAMBDA h :
    /\ \E ok \in BOOLEAN, closed \in BOOLEAN :
         /\ ok => closed
         /\ store' = IF ok THEN [store EXCEPT ![handle[h].id] = Absent] ELSE store
         /\ handle' = IF closed THEN [handle EXCEPT ![h] = Absent] ELSE handle
         /\ undeleted' = IF closed THEN undeleted ELSE undeleted \cup {h}
         /\ value' = [value EXCEPT ![t] = Forgotten(t, ok)]
    /\ UNCHANGED <<reading, got>>)

(* rename fails when the new identifier is taken. *)
Rename(t, i) ==
  Method(t, {"meta"}, LAMBDA h :
    /\ store[i] = Absent
    /\ store' = [store EXCEPT ![i] = store[handle[h].id], ![handle[h].id] = Absent]
    /\ handle' = [handle EXCEPT ![h] = HandleState(i, @.flags, @.pos)]
    /\ UNCHANGED <<value, reading, got, undeleted>>)

Data(h) == store[handle[h].id]

MoveTo(h, p) == handle' = [handle EXCEPT ![h] = HandleState(@.id, @.flags, p)]

Fitted(d, n) == [k \in 1 .. n |-> IF k <= Len(d) THEN d[k] ELSE 0]

Available(h, n) == LET left == Len(Data(h)) - handle[h].pos
                   IN IF left <= 0 THEN 0 ELSE IF n < left THEN n ELSE left

(* read fills at most n bytes of the buffer and returns how many. *)
Read(t, n) ==
  Method(t, {"read"}, LAMBDA h :
    /\ MoveTo(h, handle[h].pos + Available(h, n))
    /\ UNCHANGED <<store, value, reading, got, undeleted>>)

(* write pads a gap with zeros, and refuses to pass the last position. *)
Write(t, bytes) ==
  Method(t, {"write"}, LAMBDA h :
    LET pos == handle[h].pos
        end == pos + Len(bytes)
        size == IF end < Len(Data(h)) THEN Len(Data(h)) ELSE end
    IN /\ end <= MaxPos
       /\ store' = [store EXCEPT ![handle[h].id] =
            [k \in 1 .. size |-> IF k \in pos + 1 .. end THEN bytes[k - pos]
                                 ELSE Fitted(Data(h), size)[k]]]
       /\ MoveTo(h, end)
       /\ UNCHANGED <<value, reading, got, undeleted>>)

Truncate(t, n) ==
  Method(t, {"write"}, LAMBDA h :
    /\ store' = [store EXCEPT ![handle[h].id] = Fitted(Data(h), n)]
    /\ UNCHANGED <<handle, value, reading, got, undeleted>>)

(* seek counts from the start, the position or the end; below 0 is 0. *)
Seek(t, offset, whence) ==
  Method(t, {}, LAMBDA h :
    LET from == CASE whence = "set" -> 0 [] whence = "cur" -> handle[h].pos
                  [] whence = "end" -> Len(Data(h))
        to == IF from + offset < 0 THEN 0 ELSE from + offset
    IN /\ to <= MaxPos
       /\ MoveTo(h, to)
       /\ UNCHANGED <<store, value, reading, got, undeleted>>)

(* read_remaining_to_vec: the size that is left, 0 beyond the end.  When   *)
(* nothing is left there is no read.                                       *)
ReadRemainingInfo(t) ==
  Method(t, {}, LAMBDA h :
    LET size == Available(h, MaxPos)
    IN /\ IF size = 0
          THEN got' = <<>> /\ UNCHANGED reading
          ELSE /\ reading' = [reading EXCEPT ![t] = [size |-> size, data |-> Data(h)]]
               /\ UNCHANGED got
       /\ UNCHANGED <<store, handle, value, undeleted>>)

(* Mutant: the vector keeps its full size, the rest as resize filled it. *)
VectorUncut(data, size) ==
  [k \in 1 .. size |-> IF k <= Len(data) THEN data[k] ELSE "filler"]

(* The vector is cut to what was read. *)
Vector(data, size) == data

ReadRemainingRead(t) ==
  /\ t \notin ended /\ reading[t] # Absent
  /\ LET h == value[t]
     IN IF "read" \notin handle[h].flags THEN Panic(t)
        ELSE LET n == Available(h, reading[t].size)
             IN /\ got' = Vector(SubSeq(Data(h), handle[h].pos + 1, handle[h].pos + n),
                                reading[t].size)
                /\ MoveTo(h, handle[h].pos + n)
                /\ reading' = [reading EXCEPT ![t] = Absent]
                /\ UNCHANGED <<store, value, undeleted, rest>>

(* The attempt to read or the allocation of the vector failed. *)
ReadRemainingFails(t) ==
  /\ t \notin ended /\ reading[t] # Absent
  /\ reading' = [reading EXCEPT ![t] = Absent]
  /\ UNCHANGED <<store, handle, value, got, undeleted, rest>>

Next ==
  \E t \in Tas :
    \/ Drop(t) \/ Corrupt(t) \/ CloseAndDelete(t)
    \/ \E i \in Ids : Rename(t, i) \/ \E f \in Flags : Open(t, i, f)
    \/ \E i \in Ids, f \in Flags, d \in {<<>>} \cup {<<b>> : b \in Bytes} :
         Create(t, i, f, d)
    \/ \E b \in Bytes : Write(t, <<b>>)
    \/ \E n \in Positions : Read(t, n) \/ Truncate(t, n)
    \/ \E n \in {-1, 0, 1}, w \in {"set", "cur", "end"} : Seek(t, n, w)
    \/ ReadRemainingInfo(t) \/ ReadRemainingRead(t) \/ ReadRemainingFails(t)

Spec == Init /\ [][Next]_vars

-----------------------------------------------------------------------------
(* The instances whose value holds a handle. *)
Owners(h) == {t \in Tas : value[t] = h}

(* A handle the TEE has open belongs to exactly one value, except those a  *)
(* failed close_and_delete left open, which belong to none; a value never  *)
(* holds a handle the TEE has closed, and no handle is closed twice        *)
(* (ObjectHandle::drop, forget, PersistentObject::close_and_delete).       *)
HandleOwned ==
  /\ misuse = {}
  /\ \A t \in Tas : value[t] # Null => handle[value[t]] # Absent
  /\ \A h \in Handles : handle[h] # Absent =>
       IF h \in undeleted THEN Owners(h) = {} ELSE \E t \in Tas : Owners(h) = {t}

(* An open handle always has its object: no other instance can delete,     *)
(* rename or recreate it meanwhile.                                        *)
HandleHasObject ==
  \A h \in Handles : handle[h] # Absent => store[handle[h].id] # Absent

(* read_remaining_to_vec returns exactly the bytes it moved the position   *)
(* over, whatever other instances wrote or truncated between its two       *)
(* calls, and all that remained if the object did not change.              *)
ReadRemainingExact ==
  [][\A t \in Tas : reading[t] # Absent /\ reading'[t] = Absent /\ got' # got =>
       LET h == value[t]
           from == handle[h].pos
           to == handle'[h].pos
       IN /\ got' = SubSeq(Data(h), from + 1, to)
          /\ reading[t].data = Data(h) => to = Len(Data(h))]_vars
=============================================================================
