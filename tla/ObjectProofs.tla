---------------------------- MODULE ObjectProofs ----------------------------
(***************************************************************************)
(* Proofs about the objects of a TA, for any number of values, handles,    *)
(* keys and sizes (TransientObjects) and of instances, identifiers,        *)
(* handles and bytes (PersistentObjects).                                  *)
(***************************************************************************)
EXTENDS TransientObjects, PersistentObjects, TLAPS

(* TransientObjects *)

(* A handle is open exactly while a value owns it, and no two values do.   *)
OpenHeld == \A h \in Handles : object[h] # Absent => \E s \in Slots : slot[s] = h
HeldOpen == \A s \in Slots : slot[s] \in Handles => object[slot[s]] # Absent
HeldAlone == \A s, t \in Slots : s # t /\ slot[s] \in Handles => slot[s] # slot[t]

(* What a value was told about its object is still so. *)
LimitedHolds ==
  \A s \in limited : slot[s] \in Handles /\ "EXTRACTABLE" \notin object[slot[s]].usage

ObjIInv ==
  /\ slot \in [Slots -> Handles \cup {Null, Absent}]
  /\ object \in [Handles -> Objects \cup {Absent}]
  /\ limited \subseteq Slots /\ objMisuse = {}
  /\ enum \in {"none", "idle", "started"} /\ boxes = IF enum = "none" THEN 0 ELSE 1
  /\ OpenHeld /\ HeldOpen /\ HeldAlone /\ LimitedHolds

(* The kinds of steps.  A method fills, limits or resets the object of a   *)
(* value; *)
Fills(s) ==
  \E o \in Objects :
    /\ slot[s] \in Handles /\ object' = [object EXCEPT ![slot[s]] = o]
    /\ object[slot[s]].key # Absent => o.key \in {Absent, object[slot[s]].key}
    /\ limited' \subseteq limited \cup {s}
    /\ s \in limited' => "EXTRACTABLE" \notin o.usage
    /\ UNCHANGED <<slot, out, enum, boxes, objMisuse>>

(* or it reads from it, or panics; *)
Reads(s) ==
  /\ UNCHANGED <<slot, object, limited, enum, boxes, objMisuse>>
  /\ out' = out \/ (out'.slot = s /\ (s \in limited => out'.part # "secret"))

(* or the value is dropped or replaced; *)
Replaces(s) ==
  /\ \/ \E v \in {Null, Absent} :
          /\ slot' = [slot EXCEPT ![s] = v]
          /\ object' = [g \in Handles |-> IF g = slot[s] THEN Absent ELSE object[g]]
     \/ \E h \in Handles, o \in Objects :
          /\ object[h] = Absent /\ slot' = [slot EXCEPT ![s] = h]
          /\ object' = [g \in Handles |-> IF g = h THEN o
                                          ELSE IF g = slot[s] THEN Absent ELSE object[g]]
  /\ limited' = limited \ {s}
  /\ UNCHANGED <<out, enum, boxes, objMisuse>>

(* or the enumerator is used. *)
Enumerates ==
  /\ UNCHANGED <<slot, object, limited, out, objMisuse>>
  /\ enum' \in {"none", "idle", "started"} /\ boxes' = IF enum' = "none" THEN 0 ELSE 1

-----------------------------------------------------------------------------
(* The records of objects. *)
LEMMA ObjectFacts ==
  /\ \A o \in Objects : /\ o.type \in DOMAIN Parts /\ o.max \in Sizes
                        /\ o.key \in Keys \cup {Absent} /\ o.size \in 0 .. MaxSize
                        /\ o.usage \in SUBSET UsageFlag /\ o # Absent
  /\ \A ty \in DOMAIN Parts, n \in Sizes :
       Container(ty, n) \in Objects /\ Container(ty, n).key = Absent
  /\ \A o \in Objects, k \in Keys, n \in 0 .. MaxSize :
       /\ Filled(o, k, n) \in Objects /\ Filled(o, k, n).usage = o.usage
  /\ \A o \in Objects, f \in SUBSET UsageFlag :
       Limited(o, f) \in Objects /\ Limited(o, f).key = o.key /\ Limited(o, f).usage = f
<1>1. \A o \in Objects : /\ o.type \in DOMAIN Parts /\ o.max \in Sizes
                         /\ o.key \in Keys \cup {Absent} /\ o.size \in 0 .. MaxSize
                         /\ o.usage \in SUBSET UsageFlag /\ o # Absent
  BY ObjectAssumption DEF Objects
<1>2. \A ty \in DOMAIN Parts, n \in Sizes :
        Container(ty, n) \in Objects /\ Container(ty, n).key = Absent
  <2>1. 0 \in 0 .. MaxSize
    BY MaxSizeAssumption
  <2> QED  BY <2>1 DEF Container, Objects
<1>3. \A o \in Objects, k \in Keys, n \in 0 .. MaxSize :
        Filled(o, k, n) \in Objects /\ Filled(o, k, n).usage = o.usage
  BY DEF Filled, Objects
<1>4. \A o \in Objects, f \in SUBSET UsageFlag :
        Limited(o, f) \in Objects /\ Limited(o, f).key = o.key /\ Limited(o, f).usage = f
  BY DEF Limited, Objects
<1> QED  BY <1>1, <1>2, <1>3, <1>4

(* The invariant holds before the first call. *)
LEMMA ObjInitIInv == ObjInit => ObjIInv
BY HandlesAssumption DEF ObjInit, ObjIInv, OpenHeld, HeldOpen, HeldAlone, LimitedHolds

(* The kinds of steps preserve it: an object is filled, limited or reset. *)
LEMMA FillsKeeps ==
  ASSUME ObjIInv, NEW s \in Slots, Fills(s)
  PROVE  ObjIInv'
<1>1. PICK o \in Objects :
        /\ slot[s] \in Handles /\ object' = [object EXCEPT ![slot[s]] = o]
        /\ limited' \subseteq limited \cup {s}
        /\ s \in limited' => "EXTRACTABLE" \notin o.usage
        /\ UNCHANGED <<slot, enum, boxes, objMisuse>>
  BY Zenon DEF Fills
<1>2. o # Absent
  BY ObjectFacts
<1>3. /\ object' \in [Handles -> Objects \cup {Absent}] /\ object'[slot[s]] = o
      /\ \A h \in Handles : h # slot[s] => object'[h] = object[h]
  BY <1>1 DEF ObjIInv
<1>4. OpenHeld' /\ HeldOpen' /\ HeldAlone'
  BY <1>1, <1>2, <1>3 DEF ObjIInv, OpenHeld, HeldOpen, HeldAlone
<1>5. LimitedHolds'
  <2> SUFFICES ASSUME NEW t \in limited'
               PROVE  slot[t] \in Handles /\ "EXTRACTABLE" \notin object'[slot[t]].usage
    BY <1>1 DEF LimitedHolds
  <2>1. CASE t = s
    BY <1>1, <1>3, <2>1
  <2>2. CASE t # s
    <3>1. t \in limited /\ t \in Slots
      BY <1>1, <2>2 DEF ObjIInv
    <3>2. slot[t] \in Handles /\ "EXTRACTABLE" \notin object[slot[t]].usage
      BY <3>1 DEF ObjIInv, LimitedHolds
    <3>3. slot[t] # slot[s]
      BY <2>2, <3>1, <3>2 DEF ObjIInv, HeldAlone
    <3> QED  BY <1>3, <3>2, <3>3
  <2> QED  BY <2>1, <2>2
<1> QED  BY <1>1, <1>3, <1>4, <1>5 DEF ObjIInv

(* A value is dropped or replaced. *)
LEMMA ReplacesKeeps ==
  ASSUME ObjIInv, NEW s \in Slots, Replaces(s)
  PROVE  ObjIInv'
<1> USE HandlesAssumption, ObjectFacts
<1>1. /\ slot \in [Slots -> Handles \cup {Null, Absent}]
      /\ object \in [Handles -> Objects \cup {Absent}]
      /\ OpenHeld /\ HeldOpen /\ HeldAlone /\ LimitedHolds /\ limited \subseteq Slots
  BY DEF ObjIInv
<1>2. limited' = limited \ {s} /\ UNCHANGED <<enum, boxes, objMisuse>>
  BY DEF Replaces
<1>3. ASSUME NEW v \in {Null, Absent}, slot' = [slot EXCEPT ![s] = v],
             object' = [g \in Handles |-> IF g = slot[s] THEN Absent ELSE object[g]]
      PROVE  ObjIInv'
  <2>1. /\ slot' \in [Slots -> Handles \cup {Null, Absent}]
        /\ slot'[s] \notin Handles /\ \A t \in Slots : t # s => slot'[t] = slot[t]
        /\ object' \in [Handles -> Objects \cup {Absent}]
        /\ \A g \in Handles : object'[g] = IF g = slot[s] THEN Absent ELSE object[g]
    BY <1>1, <1>3
  <2>2. OpenHeld'
    BY <1>1, <2>1 DEF OpenHeld
  <2>3. HeldOpen' /\ HeldAlone'
    BY <1>1, <2>1 DEF HeldOpen, HeldAlone
  <2>4. LimitedHolds'
    <3> SUFFICES ASSUME NEW t \in limited, t # s
                 PROVE  slot'[t] \in Handles /\ "EXTRACTABLE" \notin object'[slot'[t]].usage
      BY <1>2 DEF LimitedHolds
    <3>1. slot'[t] = slot[t] /\ slot[t] \in Handles /\ slot[t] # slot[s]
      BY <1>1, <2>1 DEF LimitedHolds, HeldAlone
    <3> QED  BY <1>1, <2>1, <3>1 DEF LimitedHolds
  <2> QED  BY <1>2, <2>1, <2>2, <2>3, <2>4 DEF ObjIInv
<1>4. ASSUME NEW h \in Handles, NEW o \in Objects, object[h] = Absent,
             slot' = [slot EXCEPT ![s] = h],
             object' = [g \in Handles |-> IF g = h THEN o
                                          ELSE IF g = slot[s] THEN Absent ELSE object[g]]
      PROVE  ObjIInv'
  <2>1. /\ slot' \in [Slots -> Handles \cup {Null, Absent}]
        /\ slot'[s] = h /\ \A t \in Slots : t # s => slot'[t] = slot[t] /\ slot[t] # h
        /\ object' \in [Handles -> Objects \cup {Absent}] /\ o # Absent
        /\ \A g \in Handles : object'[g] = IF g = h THEN o
                                           ELSE IF g = slot[s] THEN Absent ELSE object[g]
    <3>1. \A t \in Slots : slot[t] # h
      BY <1>1, <1>4 DEF HeldOpen
    <3>2. o # Absent
      OBVIOUS
    <3>3. /\ slot' \in [Slots -> Handles \cup {Null, Absent}]
          /\ slot'[s] = h /\ \A t \in Slots : t # s => slot'[t] = slot[t]
      BY <1>1, <1>4
    <3>4. /\ object' \in [Handles -> Objects \cup {Absent}]
          /\ \A g \in Handles : object'[g] = IF g = h THEN o
                                             ELSE IF g = slot[s] THEN Absent ELSE object[g]
      BY <1>1, <1>4
    <3> QED  BY <3>1, <3>2, <3>3, <3>4
  <2>2. OpenHeld'
    BY <1>1, <2>1 DEF OpenHeld
  <2>3. HeldOpen'
    <3> SUFFICES ASSUME NEW t \in Slots, slot'[t] \in Handles
                 PROVE  object'[slot'[t]] # Absent
      BY DEF HeldOpen
    <3>1. CASE t = s
      BY <2>1, <3>1
    <3>2. CASE t # s
      BY <1>1, <2>1, <3>2 DEF HeldOpen, HeldAlone
    <3> QED  BY <3>1, <3>2
  <2>4. HeldAlone'
    BY <1>1, <2>1 DEF HeldAlone
  <2>5. LimitedHolds'
    <3> SUFFICES ASSUME NEW t \in limited, t # s
                 PROVE  slot'[t] \in Handles /\ "EXTRACTABLE" \notin object'[slot'[t]].usage
      BY <1>2 DEF LimitedHolds
    <3>1. slot'[t] = slot[t] /\ slot[t] \in Handles /\ slot[t] # slot[s] /\ slot[t] # h
      BY <1>1, <2>1 DEF LimitedHolds, HeldAlone
    <3> QED  BY <1>1, <2>1, <3>1 DEF LimitedHolds
  <2> QED  BY <1>2, <2>1, <2>2, <2>3, <2>4, <2>5 DEF ObjIInv
<1> QED  BY <1>3, <1>4 DEF Replaces

-----------------------------------------------------------------------------
(* Every step is of one of these kinds.  A method works on an open object, *)
(* or the TA panics.                                                       *)
LEMMA Handle ==
  ASSUME ObjIInv, NEW s \in Slots, slot[s] # Absent, slot[s] # Null
  PROVE  slot[s] \in Handles /\ object[slot[s]] \in Objects
<1>1. slot[s] \in Handles
  BY DEF ObjIInv
<1> QED  BY <1>1 DEF ObjIInv, HeldOpen

(* A panic changes no object. *)
LEMMA PanicReads == ASSUME ObjPanic, NEW s PROVE Reads(s)
BY DEF ObjPanic, Reads

(* The methods are of these kinds: reset, *)
LEMMA ResetKind ==
  ASSUME ObjIInv, NEW s \in Slots, Reset(s)
  PROVE  Fills(s) \/ Reads(s)
<1> DEFINE o == object[slot[s]]
<1>1. \/ ObjPanic
      \/ /\ slot[s] # Absent /\ slot[s] # Null /\ UNCHANGED <<slot, objRest, out>>
         /\ object' = [object EXCEPT ![slot[s]] = Container(o.type, o.max)]
         /\ limited' = limited \ {s}
  BY DEF Reset, OnObject
<1>2. CASE ObjPanic
  BY <1>2, PanicReads
<1>3. CASE ~ObjPanic
  <2>1. slot[s] \in Handles /\ o \in Objects
    BY <1>1, <1>3, Handle
  <2>2. Container(o.type, o.max) \in Objects /\ Container(o.type, o.max).key = Absent
    BY <2>1, ObjectFacts
  <2> QED  BY <1>1, <1>3, <2>1, <2>2 DEF Fills, objRest
<1> QED  BY <1>2, <1>3

(* What populate, generate_key and copy_attribute_from do. *)
LEMMA FilledKind ==
  ASSUME ObjIInv, NEW s \in Slots, slot[s] # Absent, slot[s] # Null,
         NEW k \in Keys, NEW n \in 0 .. MaxSize, object[slot[s]].key = Absent,
         object' = [object EXCEPT ![slot[s]] = Filled(object[slot[s]], k, n)],
         UNCHANGED <<limited, out>>, UNCHANGED <<slot, objRest>>
  PROVE  Fills(s)
<1> DEFINE o == object[slot[s]]
<1>1. slot[s] \in Handles /\ o \in Objects
  BY Handle
<1>2. Filled(o, k, n) \in Objects /\ Filled(o, k, n).usage = o.usage
  BY <1>1, ObjectFacts
<1>3. s \in limited => "EXTRACTABLE" \notin o.usage
  BY DEF ObjIInv, LimitedHolds
<1> QED  BY <1>1, <1>2, <1>3, Zenon DEF Fills, objRest

(* populate and generate_key, *)
LEMMA PopulateKind ==
  ASSUME ObjIInv, NEW s \in Slots, NEW k \in Keys, NEW n \in Sizes,
         Populate(s, k, n) \/ GenerateKey(s, k, n)
  PROVE  Fills(s) \/ Reads(s)
<1> DEFINE o == object[slot[s]]
<1>1. \/ ObjPanic
      \/ UNCHANGED <<object, limited, out, slot, objRest>>
      \/ /\ slot[s] # Absent /\ slot[s] # Null /\ UNCHANGED <<slot, objRest>>
         /\ o.key = Absent /\ UNCHANGED <<limited, out>>
         /\ object' = [object EXCEPT ![slot[s]] = Filled(o, k, n)]
  BY DEF Populate, GenerateKey, OnObject, Empty
<1>2. CASE ObjPanic
  BY <1>2, PanicReads
<1>3. CASE UNCHANGED <<object, limited, out, slot, objRest>>
  BY <1>3 DEF Reads, objRest
<1>4. CASE /\ slot[s] # Absent /\ slot[s] # Null /\ UNCHANGED <<slot, objRest>>
           /\ o.key = Absent /\ UNCHANGED <<limited, out>>
           /\ object' = [object EXCEPT ![slot[s]] = Filled(o, k, n)]
  <2>1. n \in 0 .. MaxSize
    BY MaxSizeAssumption DEF Sizes
  <2> QED  BY <1>4, <2>1, FilledKind, Zenon
<1> QED  BY <1>1, <1>2, <1>3, <1>4

(* copy_attribute_from, *)
LEMMA CopyKind ==
  ASSUME ObjIInv, NEW s \in Slots, NEW t \in Slots, CopyAttributeFrom(s, t)
  PROVE  Fills(s) \/ Reads(s)
<1> DEFINE o == object[slot[s]]
           src == object[slot[t]]
<1>1. \/ ObjPanic
      \/ /\ slot[s] # Absent /\ slot[s] # Null /\ UNCHANGED <<slot, objRest>>
         /\ slot[t] # Absent /\ slot[t] # Null /\ src.key # Absent
         /\ o.key = Absent /\ UNCHANGED <<limited, out>>
         /\ object' = [object EXCEPT ![slot[s]] = Filled(o, src.key, src.size)]
  BY DEF CopyAttributeFrom, OnObject
<1>2. CASE ObjPanic
  BY <1>2, PanicReads
<1>3. CASE ~ObjPanic
  <2>1. src \in Objects
    BY <1>1, <1>3, Handle
  <2>2. src.key \in Keys /\ src.size \in 0 .. MaxSize
    BY <1>1, <1>3, <2>1, ObjectFacts, Zenon
  <2> QED  BY <1>1, <1>3, <2>2, FilledKind, Zenon
<1> QED  BY <1>2, <1>3

(* restrict_usage, *)
LEMMA RestrictKind ==
  ASSUME ObjIInv, NEW s \in Slots, NEW f \in SUBSET UsageFlag, RestrictUsage(s, f)
  PROVE  Fills(s) \/ Reads(s)
<1> DEFINE o == object[slot[s]]
           new == Limited(o, o.usage \cap f)
<1>1. \/ ObjPanic
      \/ /\ slot[s] # Absent /\ slot[s] # Null /\ UNCHANGED <<slot, objRest, out>>
         /\ object' = [object EXCEPT ![slot[s]] = new]
         /\ limited' = IF "EXTRACTABLE" \in f THEN limited ELSE limited \cup {s}
  BY DEF RestrictUsage, OnObject
<1>2. CASE ObjPanic
  BY <1>2, PanicReads
<1>3. CASE ~ObjPanic
  <2>1. slot[s] \in Handles /\ o \in Objects
    BY <1>1, <1>3, Handle
  <2>2. new \in Objects /\ new.key = o.key /\ new.usage = o.usage \cap f
    BY <2>1, ObjectFacts
  <2>3. s \in limited => "EXTRACTABLE" \notin o.usage
    BY DEF ObjIInv, LimitedHolds
  <2>4. s \in limited' => "EXTRACTABLE" \notin new.usage
    BY <1>1, <1>3, <2>2, <2>3, Zenon
  <2> HIDE DEF new
  <2> QED  BY <1>1, <1>3, <2>1, <2>2, <2>4, Zenon DEF Fills, objRest
<1> QED  BY <1>2, <1>3

(* the methods that read attributes, *)
LEMMA ExtractKind ==
  ASSUME ObjIInv, NEW s \in Slots, NEW id \in DOMAIN AttributeId, NEW v, Extract(s, id, v)
  PROVE  Reads(s)
<1> DEFINE a == AttributeId[id]
<1>1. \/ ObjPanic
      \/ /\ UNCHANGED <<slot, objRest>> /\ UNCHANGED <<object, limited>>
         /\ a.part = "secret" => "EXTRACTABLE" \in object[slot[s]].usage
         /\ out' = out \/ out' = [slot |-> s, part |-> a.part]
  BY DEF Extract, OnObject
<1>2. CASE ObjPanic
  BY <1>2, PanicReads
<1>3. CASE ~ObjPanic
  <2>1. s \in limited => "EXTRACTABLE" \notin object[slot[s]].usage
    BY DEF ObjIInv, LimitedHolds
  <2>2. out' = out \/ (out'.slot = s /\ out'.part = a.part)
    BY <1>1, <1>3
  <2> QED  BY <1>1, <1>3, <2>1, <2>2 DEF Reads, objRest
<1> QED  BY <1>2, <1>3

(* allocate, null_object and drop, *)
LEMMA ReplaceKind ==
  ASSUME ObjIInv, NEW s \in Slots,
         \/ DropObject(s) \/ NullObject(s)
         \/ \E ty \in DOMAIN Parts, n \in Sizes : Allocate(s, ty, n)
  PROVE  Replaces(s)
<1>1. CASE DropObject(s) \/ NullObject(s)
  <2>1. /\ \E v \in {Null, Absent} : slot' = [slot EXCEPT ![s] = v]
        /\ object' = [g \in Handles |-> IF g = slot[s] THEN Absent ELSE object[g]]
        /\ limited' = limited \ {s} /\ UNCHANGED <<out, enum, boxes>>
        /\ objMisuse' = IF slot[s] \in {Null, Absent} \/ object[slot[s]] # Absent
                        THEN objMisuse ELSE objMisuse \cup {"closed twice"}
    BY <1>1, Zenon DEF DropObject, NullObject, Replace, CloseObject
  <2>2. slot[s] \in {Null, Absent} \/ object[slot[s]] # Absent
    BY DEF ObjIInv, HeldOpen
  <2> QED  BY <2>1, <2>2, Zenon DEF Replaces
<1>2. ASSUME NEW ty \in DOMAIN Parts, NEW n \in Sizes, Allocate(s, ty, n)
      PROVE  Replaces(s)
  <2>1. PICK h \in Handles :
          /\ object[h] = Absent /\ slot' = [slot EXCEPT ![s] = h]
          /\ object' = [g \in Handles |-> IF g = h THEN Container(ty, n)
                                          ELSE IF g = slot[s] THEN Absent ELSE object[g]]
    BY <1>2, Zenon DEF Allocate
  <2>2. limited' = limited \ {s} /\ UNCHANGED <<out, enum, boxes, objMisuse>>
    BY <1>2 DEF Allocate
  <2>3. Container(ty, n) \in Objects
    BY ObjectFacts, Zenon
  <2> QED  BY <2>1, <2>2, <2>3, Zenon DEF Replaces
<1> QED  BY <1>1, <1>2

(* and those of the enumerator. *)
LEMMA EnumKind ==
  ASSUME ObjIInv, EnumAllocate \/ EnumReset \/ EnumStart \/ EnumGetNext \/ EnumDrop
  PROVE  Enumerates
BY DEF ObjIInv, EnumAllocate, EnumReset, EnumStart, EnumGetNext, EnumDrop, SetEnum, Enumerates

(* So every step is. *)
LEMMA ObjKinds ==
  ASSUME ObjIInv, [ObjNext]_objVars
  PROVE  \/ \E s \in Slots : Fills(s) \/ Reads(s) \/ Replaces(s)
         \/ Enumerates \/ UNCHANGED objVars
<1>1. ASSUME NEW s \in Slots, Info(s)
      PROVE  Reads(s)
  <2>1. ObjPanic \/ UNCHANGED <<object, limited, out, slot, objRest>>
    BY <1>1 DEF Info, OnObject
  <2> QED  BY <2>1, PanicReads DEF Reads, objRest
<1>2. ASSUME NEW s \in Slots, NEW id \in DOMAIN AttributeId,
             RefAttribute(s, id) \/ ValueAttribute(s, id)
      PROVE  Reads(s)
  BY <1>2, ExtractKind, Zenon DEF RefAttribute, ValueAttribute
<1> QED
  BY <1>1, <1>2, ResetKind, PopulateKind, CopyKind, RestrictKind, ReplaceKind, EnumKind
     DEF ObjNext

(* Every step preserves the invariant. *)
LEMMA ObjStep == ObjIInv /\ [ObjNext]_objVars => ObjIInv'
<1> SUFFICES ASSUME ObjIInv, [ObjNext]_objVars PROVE ObjIInv'
  OBVIOUS
<1>1. ASSUME UNCHANGED <<slot, object, limited, objMisuse>>,
             enum' \in {"none", "idle", "started"}, boxes' = IF enum' = "none" THEN 0 ELSE 1
      PROVE  ObjIInv'
  BY <1>1 DEF ObjIInv, OpenHeld, HeldOpen, HeldAlone, LimitedHolds
<1>2. ASSUME NEW s \in Slots, Reads(s)
      PROVE  ObjIInv'
  BY <1>1, <1>2 DEF Reads, ObjIInv
<1>3. Enumerates => ObjIInv'
  BY <1>1 DEF Enumerates
<1>4. UNCHANGED objVars => ObjIInv'
  BY <1>1 DEF objVars, ObjIInv
<1> QED  BY <1>2, <1>3, <1>4, ObjKinds, FillsKeeps, ReplacesKeeps

(* Handles, values and limits stay consistent whatever a TA does with its  *)
(* objects.                                                                *)
THEOREM ObjIInvHolds == ObjSpec => []ObjIInv
BY ObjInitIInv, ObjStep, PTL DEF ObjSpec

(* Every open object belongs to exactly one value, nothing is closed twice *)
(* or through a null handle, and an enumerator has one Box.                *)
THEOREM AlwaysObjectOwned == ObjSpec => []ObjectOwned
<1>1. ASSUME ObjIInv, NEW h \in Handles
      PROVE  IF object[h] = Absent THEN Holders(h) = {} ELSE \E s \in Slots : Holders(h) = {s}
  <2>1. CASE object[h] = Absent
    BY <1>1, <2>1 DEF ObjIInv, HeldOpen, Holders
  <2>2. CASE object[h] # Absent
    <3>1. PICK s \in Slots : slot[s] = h
      BY <1>1, <2>2 DEF ObjIInv, OpenHeld
    <3>2. Holders(h) = {s}
      BY <1>1, <3>1 DEF ObjIInv, HeldAlone, Holders
    <3> QED  BY <2>2, <3>2
  <2> QED  BY <2>1, <2>2
<1>2. ObjIInv => ObjectOwned
  BY <1>1 DEF ObjectOwned, ObjIInv
<1> QED  BY <1>2, ObjIInvHolds, PTL

(* Key material is replaced only after reset.                              *)
THEOREM AlwaysFilledOnce == ObjSpec => FilledOnce
<1> DEFINE Kept == \A h \in Handles :
             object[h] # Absent /\ object[h].key # Absent /\ object'[h] # Absent =>
               object'[h].key \in {Absent, object[h].key}
<1>1. ASSUME ObjIInv, NEW s \in Slots, Fills(s)
      PROVE  Kept
  BY <1>1 DEF Fills, ObjIInv
<1>2. ASSUME ObjIInv, NEW s \in Slots, Replaces(s)
      PROVE  Kept
  BY <1>2 DEF Replaces, ObjIInv
<1>3. ASSUME object' = object
      PROVE  Kept
  BY <1>3
<1>4. ObjIInv /\ [ObjNext]_objVars => [Kept]_objVars
  BY <1>1, <1>2, <1>3, ObjKinds, Zenon DEF Reads, Enumerates
<1> QED  BY <1>4, ObjIInvHolds, PTL DEF ObjSpec, FilledOnce

(* After restrict_usage took EXTRACTABLE away, no protected attribute is   *)
(* read through the value until its object is reset or replaced.           *)
THEOREM NeverExtracted == ObjSpec => LimitedNotExtracted
<1> DEFINE Secret(s) == [slot |-> s, part |-> "secret"]
           Kept == \A s \in limited : out' # out => out' # Secret(s)
<1>1. ASSUME NEW s \in Slots, Reads(s)
      PROVE  Kept
  <2> SUFFICES ASSUME NEW t \in limited, out' # out, out' = Secret(t)
               PROVE  FALSE
    OBVIOUS
  <2>1. out'.slot = t /\ out'.part = "secret"
    OBVIOUS
  <2> HIDE DEF Secret
  <2> QED  BY <1>1, <2>1 DEF Reads
<1>2. ASSUME out' = out
      PROVE  Kept
  BY <1>2
<1>3. ObjIInv /\ [ObjNext]_objVars => [Kept]_objVars
  BY <1>1, <1>2, ObjKinds, Zenon DEF Fills, Replaces, Enumerates
<1> QED  BY <1>3, ObjIInvHolds, PTL DEF ObjSpec, LimitedNotExtracted

-----------------------------------------------------------------------------
(* PersistentObjects *)

(* The shape of the storage, the TEE's handles and the values. *)
StoreTypes ==
  /\ store \in [Ids -> Contents \cup {Absent}]
  /\ handle \in [Handles -> OpenHandles \cup {Absent}]
  /\ value \in [Tas -> Handles \cup {Null}]
  /\ reading \in [Tas -> Remaining \cup {Absent}]
  /\ undeleted \subseteq Handles

(* A handle is the value of one instance, an open one of some instance,    *)
(* unless a failed deletion left it open.                                  *)
ValueAlone == \A t, u \in Tas : t # u /\ value[t] # Null => value[t] # value[u]
OpenOwned ==
  \A h \in Handles : handle[h] # Absent /\ h \notin undeleted => \E t \in Tas : value[t] = h
LeftOpen == \A h \in undeleted : handle[h] # Absent /\ \A t \in Tas : value[t] # h

(* A handle with write-meta access is the only one of its object. *)
MetaAlone ==
  \A g, h \in Handles :
    g # h /\ handle[g] # Absent /\ handle[h] # Absent /\ handle[g].id = handle[h].id =>
      "meta" \notin handle[g].flags

(* Between the two calls of read_remaining_to_vec the handle stays open    *)
(* and its position where it was when the size was asked for.              *)
ReadingKnows ==
  \A t \in Tas : reading[t] # Absent =>
    /\ t \notin ended /\ value[t] \in Handles /\ handle[value[t]] # Absent
    /\ reading[t].size = Len(reading[t].data) - handle[value[t]].pos

(* When the TEE closes no handle on its own, a value's handle is open. *)
KeptOpen ==
  KeepsHandle => misuse = {} /\ \A t \in Tas : value[t] # Null => handle[value[t]] # Absent

StoreIInv ==
  /\ StoreTypes /\ ValueAlone /\ OpenOwned /\ LeftOpen /\ MetaAlone /\ ReadingKnows
  /\ KeptOpen /\ HandleHasObject

-----------------------------------------------------------------------------
(* The kinds of steps.  An instance ends its read, if it is in one: *)
EndsRead(t) ==
  reading' \in {reading, [reading EXCEPT ![t] = Absent]} /\ reading'[t] = Absent

(* it moves its position or changes the data of its object; *)
Works(t) ==
  LET h == value[t]
  IN /\ h \in Handles /\ handle[h] # Absent /\ EndsRead(t)
     /\ \/ handle' = handle
        \/ \E p \in Positions :
             handle' = [handle EXCEPT ![h] = HandleState(handle[h].id, handle[h].flags, p)]
     /\ store' = store \/ \E d \in Contents : store' = [store EXCEPT ![handle[h].id] = d]
     /\ UNCHANGED <<value, undeleted, misuse, ended>>

(* it learns what is left to read, or nothing happens; *)
Asks(t) ==
  LET h == value[t]
  IN /\ \/ reading' = reading
        \/ reading' = [reading EXCEPT ![t] = Absent]
        \/ \E r \in Remaining :
             /\ t \notin ended /\ h \in Handles /\ handle[h] # Absent
             /\ r.size = Len(r.data) - handle[h].pos
             /\ reading' = [reading EXCEPT ![t] = r]
     /\ UNCHANGED <<store, handle, value, undeleted, misuse, ended>>

(* it gets a new handle; *)
Opens(t) ==
  \E h \in Handles, i \in Ids, f \in Flags :
    /\ value[t] = Null /\ handle[h] = Absent /\ \A u \in Tas : value[u] # h
    /\ handle' = [handle EXCEPT ![h] = HandleState(i, f, 0)]
    /\ value' = [value EXCEPT ![t] = h]
    /\ \/ store' = store /\ store[i] # Absent /\ Compatible(i, f)
       \/ Opened(i) = {} /\ \E d \in Contents : store' = [store EXCEPT ![i] = d]
    /\ UNCHANGED <<reading, undeleted, misuse, ended>>

(* its handle is closed, its object deleted or not; *)
Closes(t) ==
  LET h == value[t]
  IN /\ h \in Handles /\ EndsRead(t) /\ ended' \subseteq ended \cup {t}
     /\ handle' = [g \in Handles |-> IF g = h THEN Absent ELSE handle[g]]
     /\ value' = [value EXCEPT ![t] = Null] \/ (value' = value /\ ~KeepsHandle)
     /\ \/ store' = store
        \/ /\ handle[h] # Absent /\ "meta" \in handle[h].flags
           /\ store' = [store EXCEPT ![handle[h].id] = Absent]
     /\ misuse' = misuse \/ handle[h] = Absent
     /\ UNCHANGED undeleted

(* it forgets a handle that stays open; *)
Forgets(t) ==
  /\ value[t] \in Handles /\ handle[value[t]] # Absent /\ EndsRead(t)
  /\ value' = [value EXCEPT ![t] = Null] /\ undeleted' = undeleted \cup {value[t]}
  /\ UNCHANGED <<store, handle, misuse, ended>>

(* or it renames its object. *)
Renames(t) ==
  LET h == value[t]
  IN /\ h \in Handles /\ handle[h] # Absent /\ "meta" \in handle[h].flags
     /\ \E i \in Ids :
          /\ store[i] = Absent
          /\ store' = [store EXCEPT ![i] = store[handle[h].id], ![handle[h].id] = Absent]
          /\ handle' = [handle EXCEPT ![h] = HandleState(i, handle[h].flags, handle[h].pos)]
     /\ UNCHANGED <<value, reading, undeleted, misuse, ended>>

-----------------------------------------------------------------------------
(* Open handles and contents. *)
LEMMA OpenFacts ==
  ASSUME NEW o \in OpenHandles
  PROVE  o.id \in Ids /\ o.flags \in Flags /\ o.pos \in Positions /\ o # Absent
BY AbsentAssumption DEF OpenHandles

(* What a handle is made of, *)
LEMMA HandleFacts ==
  ASSUME NEW i \in Ids, NEW f \in Flags, NEW p \in Positions
  PROVE  /\ HandleState(i, f, p) \in OpenHandles /\ HandleState(i, f, p).id = i
         /\ HandleState(i, f, p).flags = f /\ HandleState(i, f, p).pos = p
         /\ HandleState(i, f, p) # Absent
BY AbsentAssumption DEF OpenHandles, HandleState

(* and the data of an object. *)
LEMMA ContentFacts ==
  ASSUME NEW d \in Contents
  PROVE  Len(d) \in Positions /\ d \in [1 .. Len(d) -> Bytes \cup {0}] /\ d # Absent
<1>1. PICK n \in Positions : d \in [1 .. n -> Bytes \cup {0}]
  BY DEF Contents
<1>2. n \in Nat
  BY <1>1, MaxPosAssumption DEF Positions
<1>3. Len(d) = n
  BY <1>1, <1>2
<1> QED  BY <1>1, <1>3, AbsentAssumption

(* Data written into an object keeps within its bound. *)
LEMMA FittedFacts ==
  ASSUME NEW d \in Contents, NEW n \in Positions
  PROVE  Fitted(d, n) \in Contents
<1>1. Fitted(d, n) \in [1 .. n -> Bytes \cup {0}]
  <2>1. \A k \in 1 .. n : k <= Len(d) => d[k] \in Bytes \cup {0}
    BY ContentFacts, MaxPosAssumption DEF Positions
  <2> QED  BY <2>1 DEF Fitted
<1> QED  BY <1>1, Zenon DEF Contents

(* What is left to read from a position. *)
LEMMA AvailableFacts ==
  ASSUME StoreIInv, NEW h \in Handles, handle[h] # Absent, NEW n \in Positions
  PROVE  /\ handle[h] \in OpenHandles /\ Data(h) \in Contents
         /\ Available(h, n) \in Positions /\ handle[h].pos + Available(h, n) \in Positions
         /\ handle[h].pos < Len(Data(h)) /\ Len(Data(h)) - handle[h].pos <= n =>
              Available(h, n) = Len(Data(h)) - handle[h].pos
         /\ Available(h, n) # 0 => handle[h].pos < Len(Data(h))
<1>1. handle[h] \in OpenHandles
  BY DEF StoreIInv, StoreTypes
<1>2. handle[h].id \in Ids /\ handle[h].pos \in Positions
  BY <1>1, OpenFacts
<1>3. Data(h) \in Contents
  BY <1>2 DEF StoreIInv, StoreTypes, HandleHasObject, Data
<1>4. Len(Data(h)) \in Positions
  BY <1>3, ContentFacts
<1>5. PICK len \in Positions, p \in Positions : len = Len(Data(h)) /\ p = handle[h].pos
  BY <1>2, <1>4, Zenon
<1>6. PICK a : a = Available(h, n)
  OBVIOUS
<1>7. a = IF len - p <= 0 THEN 0 ELSE IF n < len - p THEN n ELSE len - p
  BY <1>5, <1>6, Zenon DEF Available
<1>8. /\ a \in Positions /\ p + a \in Positions /\ (a # 0 => p < len)
      /\ p < len /\ len - p <= n => a = len - p
  BY <1>7, MaxPosAssumption DEF Positions
<1> QED  BY <1>1, <1>3, <1>5, <1>6, <1>8, Zenon

-----------------------------------------------------------------------------
(* The invariant holds before the first call. *)
LEMMA StoreInit == Init => StoreIInv
BY HandlesAssumption
   DEF Init, StoreIInv, StoreTypes, ValueAlone, OpenOwned, LeftOpen, MetaAlone, ReadingKnows,
       KeptOpen, HandleHasObject

(* A read that has ended leaves the others in progress. *)
LEMMA EndsReadFacts ==
  ASSUME StoreIInv, NEW t \in Tas, EndsRead(t)
  PROVE  /\ reading' \in [Tas -> Remaining \cup {Absent}] /\ reading'[t] = Absent
         /\ \A u \in Tas : u # t => reading'[u] = reading[u]
BY DEF StoreIInv, StoreTypes, EndsRead

(* The reads of the others are not concerned by a step of t. *)
LEMMA OthersKnow ==
  ASSUME StoreIInv, NEW t \in Tas, EndsRead(t), ended' \subseteq ended \cup {t},
         \A u \in Tas : u # t => value'[u] = value[u],
         \A g \in Handles : g # value[t] => handle'[g] = handle[g]
  PROVE  ReadingKnows'
<1> SUFFICES ASSUME NEW u \in Tas, reading'[u] # Absent
             PROVE  /\ u \notin ended' /\ value'[u] \in Handles /\ handle'[value'[u]] # Absent
                    /\ reading'[u].size = Len(reading'[u].data) - handle'[value'[u]].pos
  BY DEF ReadingKnows
<1>1. u # t /\ reading'[u] = reading[u]
  BY EndsReadFacts, Zenon
<1>2. /\ u \notin ended /\ value[u] \in Handles /\ handle[value[u]] # Absent
      /\ reading[u].size = Len(reading[u].data) - handle[value[u]].pos
  BY <1>1 DEF StoreIInv, ReadingKnows
<1>3. value[u] # value[t]
  BY <1>1, <1>2, HandlesAssumption, Zenon DEF StoreIInv, ValueAlone
<1> QED  BY <1>1, <1>2, <1>3, Zenon

(* The kinds of steps preserve it: an instance works on its object, *)
LEMMA WorksKeeps ==
  ASSUME StoreIInv, NEW t \in Tas, Works(t)
  PROVE  StoreIInv'
<1> DEFINE h == value[t]
           i == handle[h].id
<1>1. /\ h \in Handles /\ handle[h] # Absent /\ EndsRead(t)
      /\ UNCHANGED <<value, undeleted, misuse, ended>>
  BY DEF Works
<1>2. handle[h] \in OpenHandles /\ i \in Ids /\ handle[h].flags \in Flags
  BY <1>1, OpenFacts DEF StoreIInv, StoreTypes
<1> DEFINE HandlesKept ==
             /\ handle' \in [Handles -> OpenHandles \cup {Absent}]
             /\ handle'[h] # Absent /\ handle'[h].id = i
             /\ handle'[h].flags = handle[h].flags
             /\ \A g \in Handles : g # h => handle'[g] = handle[g]
           StoreKept ==
             /\ store' \in [Ids -> Contents \cup {Absent}] /\ store'[i] # Absent
             /\ \A j \in Ids : j # i => store'[j] = store[j]
<1>3. HandlesKept
  <2>1. CASE handle' = handle
    BY <1>1, <2>1 DEF StoreIInv, StoreTypes
  <2>2. ASSUME NEW p \in Positions,
               handle' = [handle EXCEPT ![h] = HandleState(i, handle[h].flags, p)]
        PROVE  HandlesKept
    <3> DEFINE o == HandleState(i, handle[h].flags, p)
    <3>1. o \in OpenHandles /\ o.id = i /\ o.flags = handle[h].flags /\ o # Absent
      BY <1>2, HandleFacts
    <3>2. handle' = [handle EXCEPT ![h] = o]
      BY <2>2
    <3> HIDE DEF o
    <3> QED  BY <1>1, <3>1, <3>2 DEF StoreIInv, StoreTypes
  <2> QED  BY <2>1, <2>2, Zenon DEF Works
<1>4. StoreKept
  <2>1. CASE store' = store
    BY <1>1, <2>1, Zenon DEF StoreIInv, StoreTypes, HandleHasObject
  <2>2. ASSUME NEW d \in Contents, store' = [store EXCEPT ![i] = d]
        PROVE  StoreKept
    BY <1>2, <2>2, ContentFacts DEF StoreIInv, StoreTypes
  <2> QED  BY <2>1, <2>2, Zenon DEF Works
<1> HIDE DEF i
<1>5. StoreTypes'
  BY <1>1, <1>3, <1>4, EndsReadFacts, Zenon DEF StoreIInv, StoreTypes
<1>6. ReadingKnows'
  BY <1>1, <1>3, OthersKnow, Zenon
<1>7. ValueAlone' /\ OpenOwned' /\ LeftOpen' /\ KeptOpen'
  BY <1>1, <1>3 DEF StoreIInv, StoreTypes, ValueAlone, OpenOwned, LeftOpen, KeptOpen
<1>8. MetaAlone'
  <2>1. \A g \in Handles : handle'[g] # Absent =>
          /\ handle[g] # Absent /\ handle'[g].id = handle[g].id
          /\ handle'[g].flags = handle[g].flags
    BY <1>1, <1>3, Zenon DEF i
  <2>2. MetaAlone
    BY DEF StoreIInv
  <2> QED  BY <2>1, <2>2, Zenon DEF MetaAlone
<1>9. HandleHasObject'
  <2> SUFFICES ASSUME NEW g \in Handles, handle'[g] # Absent
               PROVE  store'[handle'[g].id] # Absent
    BY DEF HandleHasObject
  <2>1. CASE g = h
    BY <1>3, <1>4, <2>1, Zenon
  <2>2. CASE g # h
    <3>1. handle'[g] = handle[g] /\ handle[g] \in OpenHandles
      BY <1>3, <2>2 DEF StoreIInv, StoreTypes
    <3> QED  BY <1>4, <3>1, OpenFacts DEF StoreIInv, HandleHasObject
  <2> QED  BY <2>1, <2>2
<1> QED  BY <1>5, <1>6, <1>7, <1>8, <1>9 DEF StoreIInv

(* asks for what is left, *)
LEMMA AsksKeeps ==
  ASSUME StoreIInv, NEW t \in Tas, Asks(t)
  PROVE  StoreIInv'
<1> DEFINE h == value[t]
<1>1. UNCHANGED <<store, handle, value, undeleted, misuse, ended>>
  BY DEF Asks
<1>2. reading \in [Tas -> Remaining \cup {Absent}]
  BY DEF StoreIInv, StoreTypes
<1>3. reading' \in [Tas -> Remaining \cup {Absent}]
  BY <1>2, Zenon DEF Asks
<1>4. ReadingKnows'
  <2>1. CASE reading' = reading \/ reading' = [reading EXCEPT ![t] = Absent]
    BY <1>1, <1>2, <2>1, Zenon DEF StoreIInv, ReadingKnows
  <2>2. ASSUME NEW r \in Remaining, t \notin ended, h \in Handles, handle[h] # Absent,
               r.size = Len(r.data) - handle[h].pos, reading' = [reading EXCEPT ![t] = r]
        PROVE  ReadingKnows'
    <3>1. reading'[t] = r /\ \A u \in Tas : u # t => reading'[u] = reading[u]
      BY <1>2, <2>2, Zenon
    <3> QED  BY <1>1, <2>2, <3>1, Zenon DEF StoreIInv, ReadingKnows
  <2> QED  BY <2>1, <2>2, Zenon DEF Asks
<1> QED
  BY <1>1, <1>3, <1>4, Zenon
     DEF StoreIInv, StoreTypes, ValueAlone, OpenOwned, LeftOpen, MetaAlone, KeptOpen,
         HandleHasObject

(* gets a handle, *)
LEMMA OpensKeeps ==
  ASSUME StoreIInv, NEW t \in Tas, Opens(t)
  PROVE  StoreIInv'
<1>1. PICK h \in Handles, i \in Ids, f \in Flags :
        /\ value[t] = Null /\ handle[h] = Absent /\ \A u \in Tas : value[u] # h
        /\ handle' = [handle EXCEPT ![h] = HandleState(i, f, 0)]
        /\ value' = [value EXCEPT ![t] = h]
        /\ \/ store' = store /\ store[i] # Absent /\ Compatible(i, f)
           \/ Opened(i) = {} /\ \E d \in Contents : store' = [store EXCEPT ![i] = d]
        /\ UNCHANGED <<reading, undeleted, misuse, ended>>
  BY Zenon DEF Opens
<1> DEFINE o == HandleState(i, f, 0)
<1>2. o \in OpenHandles /\ o.id = i /\ o.flags = f /\ o # Absent
  BY HandleFacts, MaxPosAssumption DEF Positions
<1> HIDE DEF o
<1>3. /\ handle' \in [Handles -> OpenHandles \cup {Absent}] /\ handle'[h] = o
      /\ \A g \in Handles : g # h => handle'[g] = handle[g]
  BY <1>1, <1>2, Zenon DEF StoreIInv, StoreTypes, o
<1>4. /\ value' \in [Tas -> Handles \cup {Null}] /\ value'[t] = h
      /\ \A u \in Tas : u # t => value'[u] = value[u]
  BY <1>1, Zenon DEF StoreIInv, StoreTypes
<1>5. /\ store' \in [Ids -> Contents \cup {Absent}] /\ store'[i] # Absent
      /\ \A j \in Ids : j # i => store'[j] = store[j]
  BY <1>1, ContentFacts, Zenon DEF StoreIInv, StoreTypes
<1>6. \A g \in Handles : handle[g] # Absent /\ handle[g].id = i =>
        "meta" \notin handle[g].flags /\ "meta" \notin f
  <2>1. \A g \in Handles : handle[g] # Absent /\ handle[g].id = i =>
          "share" \in handle[g].flags /\ "meta" \notin f
    BY <1>1, Zenon DEF Compatible, Opened
  <2>2. \A g \in Handles : handle[g] # Absent => handle[g].flags \in Flags
    BY OpenFacts DEF StoreIInv, StoreTypes
  <2> QED  BY <2>1, <2>2 DEF Flags
<1>7. ValueAlone' /\ OpenOwned'
  <2>1. ValueAlone'
    BY <1>1, <1>4, Zenon DEF StoreIInv, ValueAlone
  <2>2. ASSUME NEW g \in Handles, handle'[g] # Absent, g \notin undeleted
        PROVE  \E u \in Tas : value'[u] = g
    <3>1. CASE g = h
      BY <1>4, <3>1
    <3>2. CASE g # h
      <4>1. PICK u \in Tas : value[u] = g
        BY <1>3, <2>2, <3>2, Zenon DEF StoreIInv, OpenOwned
      <4> QED  BY <1>1, <1>4, <4>1, HandlesAssumption, Zenon
    <3> QED  BY <3>1, <3>2
  <2> QED  BY <1>1, <2>1, <2>2 DEF OpenOwned
<1>8. LeftOpen' /\ KeptOpen'
  <2>1. h \notin undeleted
    BY <1>1 DEF StoreIInv, LeftOpen
  <2>2. \A u \in Tas : u # t /\ value[u] # Null => value[u] \in Handles /\ value[u] # h
    BY <1>1, Zenon DEF StoreIInv, StoreTypes
  <2>3. LeftOpen'
    BY <1>1, <1>3, <1>4, <2>1, Zenon DEF StoreIInv, StoreTypes, LeftOpen
  <2>4. KeptOpen'
    BY <1>1, <1>2, <1>3, <1>4, <2>2 DEF StoreIInv, KeptOpen
  <2> QED  BY <2>3, <2>4
<1>9. MetaAlone'
  <2> SUFFICES ASSUME NEW a \in Handles, NEW b \in Handles, a # b, handle'[a] # Absent,
                      handle'[b] # Absent, handle'[a].id = handle'[b].id
               PROVE  "meta" \notin handle'[a].flags
    BY Zenon DEF MetaAlone
  <2>1. CASE a = h
    BY <1>2, <1>3, <1>6, <2>1, Zenon
  <2>2. CASE b = h
    BY <1>2, <1>3, <1>6, <2>2, Zenon
  <2>3. CASE a # h /\ b # h
    BY <1>3, <2>3, Zenon DEF StoreIInv, MetaAlone
  <2> QED  BY <2>1, <2>2, <2>3, Zenon
<1>10. ReadingKnows'
  <2> SUFFICES ASSUME NEW u \in Tas, reading[u] # Absent
               PROVE  /\ u \notin ended' /\ value'[u] \in Handles
                      /\ handle'[value'[u]] # Absent
                      /\ reading[u].size = Len(reading[u].data) - handle'[value'[u]].pos
    BY <1>1, Zenon DEF ReadingKnows
  <2>1. value[u] \in Handles
    BY Zenon DEF StoreIInv, ReadingKnows
  <2>2. u # t /\ value[u] # h
    BY <1>1, <2>1, HandlesAssumption, Zenon
  <2> QED  BY <1>1, <1>3, <1>4, <2>2 DEF StoreIInv, ReadingKnows
<1>11. HandleHasObject'
  <2> SUFFICES ASSUME NEW g \in Handles, handle'[g] # Absent
               PROVE  store'[handle'[g].id] # Absent
    BY DEF HandleHasObject
  <2>1. CASE g = h
    BY <1>2, <1>3, <1>5, <2>1, Zenon
  <2>2. CASE g # h
    <3>1. handle'[g] = handle[g] /\ handle[g] \in OpenHandles
      BY <1>3, <2>2 DEF StoreIInv, StoreTypes
    <3> QED  BY <1>5, <3>1, OpenFacts, Zenon DEF StoreIInv, HandleHasObject
  <2> QED  BY <2>1, <2>2
<1>12. StoreTypes'
  BY <1>1, <1>3, <1>4, <1>5, Zenon DEF StoreIInv, StoreTypes
<1> QED  BY <1>7, <1>8, <1>9, <1>10, <1>11, <1>12 DEF StoreIInv

(* has it closed, *)
LEMMA ClosesKeeps ==
  ASSUME StoreIInv, NEW t \in Tas, Closes(t)
  PROVE  StoreIInv'
<1> DEFINE h == value[t]
<1>1. /\ h \in Handles /\ EndsRead(t) /\ ended' \subseteq ended \cup {t}
      /\ UNCHANGED undeleted
  BY Zenon DEF Closes
<1>2. /\ handle' \in [Handles -> OpenHandles \cup {Absent}] /\ handle'[h] = Absent
      /\ \A g \in Handles : g # h => handle'[g] = handle[g]
  BY Zenon DEF Closes, StoreIInv, StoreTypes
<1>3. /\ value' \in [Tas -> Handles \cup {Null}] /\ value'[t] \in {Null, h}
      /\ value'[t] = h => ~KeepsHandle
      /\ \A u \in Tas : u # t => value'[u] = value[u]
  BY HandlesAssumption, Zenon DEF Closes, StoreIInv, StoreTypes
<1>4. /\ store' \in [Ids -> Contents \cup {Absent}]
      /\ \A g \in Handles : g # h /\ handle[g] # Absent =>
           store'[handle[g].id] = store[handle[g].id]
  <2>1. CASE store' = store
    BY <2>1 DEF StoreIInv, StoreTypes
  <2>2. CASE /\ handle[h] # Absent /\ "meta" \in handle[h].flags
             /\ store' = [store EXCEPT ![handle[h].id] = Absent]
    <3>1. store' \in [Ids -> Contents \cup {Absent}]
      BY <2>2, Zenon DEF StoreIInv, StoreTypes
    <3>2. \A g \in Handles : g # h /\ handle[g] # Absent => handle[g].id # handle[h].id
      BY <1>1, <2>2, Zenon DEF StoreIInv, MetaAlone
    <3>3. \A g \in Handles : handle[g] # Absent => handle[g].id \in Ids
      BY OpenFacts DEF StoreIInv, StoreTypes
    <3> QED  BY <2>2, <3>1, <3>2, <3>3, Zenon DEF StoreIInv, StoreTypes
  <2> QED  BY <2>1, <2>2, Zenon DEF Closes
<1>5. \A u \in Tas : u # t => value[u] # h
  BY <1>1, HandlesAssumption DEF StoreIInv, ValueAlone
<1>6. KeepsHandle => misuse' = {}
  BY <1>1, HandlesAssumption, Zenon DEF Closes, StoreIInv, KeptOpen
<1> HIDE DEF h
<1>7. StoreTypes'
  BY <1>1, <1>2, <1>3, <1>4, EndsReadFacts, Zenon DEF StoreIInv, StoreTypes
<1>8. ValueAlone'
  BY <1>3, <1>5 DEF StoreIInv, ValueAlone
<1>9. OpenOwned'
  <2> SUFFICES ASSUME NEW g \in Handles, handle'[g] # Absent, g \notin undeleted
               PROVE  \E u \in Tas : value'[u] = g
    BY <1>1, Zenon DEF OpenOwned
  <2>1. g # h /\ handle[g] # Absent
    BY <1>2
  <2>2. PICK u \in Tas : value[u] = g
    BY <2>1 DEF StoreIInv, OpenOwned
  <2> QED  BY <1>3, <2>1, <2>2, Zenon DEF h
<1>10. LeftOpen'
  <2>1. h \notin undeleted
    BY DEF StoreIInv, LeftOpen, h
  <2>2. \A g \in undeleted : g \in Handles /\ g # Null
    BY HandlesAssumption DEF StoreIInv, StoreTypes
  <2> QED  BY <1>1, <1>2, <1>3, <2>1, <2>2 DEF StoreIInv, LeftOpen
<1>11. KeptOpen'
  <2> SUFFICES ASSUME KeepsHandle, NEW u \in Tas, value'[u] # Null
               PROVE  handle'[value'[u]] # Absent
    BY <1>6, Zenon DEF KeptOpen
  <2>1. u # t /\ value'[u] = value[u] /\ value[u] # h
    BY <1>3, <1>5, Zenon
  <2> QED  BY <1>2, <2>1, Zenon DEF StoreIInv, StoreTypes, KeptOpen
<1>12. MetaAlone'
  BY <1>2, Zenon DEF StoreIInv, MetaAlone
<1>13. ReadingKnows'
  BY <1>1, <1>2, <1>3, OthersKnow, Zenon DEF h
<1>14. HandleHasObject'
  BY <1>2, <1>4 DEF StoreIInv, HandleHasObject
<1> QED  BY <1>7, <1>8, <1>9, <1>10, <1>11, <1>12, <1>13, <1>14 DEF StoreIInv

(* forgets it, *)
LEMMA ForgetsKeeps ==
  ASSUME StoreIInv, NEW t \in Tas, Forgets(t)
  PROVE  StoreIInv'
<1> DEFINE h == value[t]
<1>1. /\ h \in Handles /\ handle[h] # Absent /\ EndsRead(t)
      /\ undeleted' = undeleted \cup {h} /\ UNCHANGED <<store, handle, misuse, ended>>
  BY DEF Forgets
<1>2. /\ value' \in [Tas -> Handles \cup {Null}] /\ value'[t] = Null
      /\ \A u \in Tas : u # t => value'[u] = value[u]
  BY Zenon DEF Forgets, StoreIInv, StoreTypes
<1>3. \A u \in Tas : u # t => value[u] # h
  BY <1>1, HandlesAssumption, Zenon DEF StoreIInv, ValueAlone
<1> HIDE DEF h
<1>4. StoreTypes'
  BY <1>1, <1>2, EndsReadFacts, Zenon DEF StoreIInv, StoreTypes
<1>5. ValueAlone'
  BY <1>2 DEF StoreIInv, ValueAlone
<1>6. OpenOwned'
  <2> SUFFICES ASSUME NEW g \in Handles, handle[g] # Absent, g \notin undeleted, g # h
               PROVE  \E u \in Tas : value'[u] = g
    BY <1>1, Zenon DEF OpenOwned
  <2>1. PICK u \in Tas : value[u] = g
    BY Zenon DEF StoreIInv, OpenOwned
  <2> QED  BY <1>2, <2>1, Zenon DEF h
<1>7. LeftOpen'
  <2>1. \A g \in undeleted : g # Null
    BY HandlesAssumption DEF StoreIInv, StoreTypes
  <2>2. h # Null
    BY <1>1, HandlesAssumption, Zenon
  <2> QED  BY <1>1, <1>2, <1>3, <2>1, <2>2, Zenon DEF StoreIInv, LeftOpen
<1>8. ReadingKnows'
  BY <1>1, <1>2, OthersKnow, Zenon DEF h
<1>9. MetaAlone' /\ KeptOpen' /\ HandleHasObject'
  BY <1>1, <1>2, Zenon DEF StoreIInv, MetaAlone, KeptOpen, HandleHasObject
<1> QED  BY <1>4, <1>5, <1>6, <1>7, <1>8, <1>9 DEF StoreIInv

(* or renames its object. *)
LEMMA RenamesKeeps ==
  ASSUME StoreIInv, NEW t \in Tas, Renames(t)
  PROVE  StoreIInv'
<1> DEFINE h == value[t]
           j == handle[h].id
<1>1. /\ h \in Handles /\ handle[h] # Absent /\ "meta" \in handle[h].flags
      /\ UNCHANGED <<value, reading, undeleted, misuse, ended>>
  BY Zenon DEF Renames
<1>2. PICK i \in Ids :
        /\ store[i] = Absent
        /\ store' = [store EXCEPT ![i] = store[j], ![j] = Absent]
        /\ handle' = [handle EXCEPT ![h] = HandleState(i, handle[h].flags, handle[h].pos)]
  BY Zenon DEF Renames
<1>3. /\ j \in Ids /\ store[j] # Absent
      /\ handle[h].flags \in Flags /\ handle[h].pos \in Positions
  <2>1. handle[h] \in OpenHandles /\ store[j] # Absent
    BY <1>1, Zenon DEF StoreIInv, StoreTypes, HandleHasObject
  <2> QED  BY <2>1, OpenFacts, Zenon
<1> DEFINE o == HandleState(i, handle[h].flags, handle[h].pos)
<1>4. /\ o \in OpenHandles /\ o.id = i /\ o.flags = handle[h].flags
      /\ o.pos = handle[h].pos /\ o # Absent
  <2>1. i \in Ids /\ handle[h].flags \in Flags /\ handle[h].pos \in Positions
    BY <1>3, Zenon
  <2> QED  BY <2>1, HandleFacts
<1> HIDE DEF o
<1>5. /\ handle' \in [Handles -> OpenHandles \cup {Absent}] /\ handle'[h] = o
      /\ \A g \in Handles : g # h => handle'[g] = handle[g]
  BY <1>1, <1>2, <1>4, Zenon DEF StoreIInv, StoreTypes, o
<1>6. /\ store' \in [Ids -> Contents \cup {Absent}] /\ store'[i] # Absent
      /\ \A k \in Ids : k # i /\ k # j => store'[k] = store[k]
  BY <1>2, <1>3, Zenon DEF StoreIInv, StoreTypes
<1>7. \A g \in Handles : g # h /\ handle[g] # Absent =>
        handle[g].id \in Ids /\ handle[g].id # j /\ handle[g].id # i
  <2>1. \A g \in Handles : handle[g] # Absent =>
          handle[g].id \in Ids /\ store[handle[g].id] # Absent
    BY OpenFacts, Zenon DEF StoreIInv, StoreTypes, HandleHasObject
  <2>2. \A g \in Handles : g # h /\ handle[g] # Absent => handle[g].id # j
    BY <1>1, Zenon DEF StoreIInv, MetaAlone
  <2> QED  BY <1>2, <2>1, <2>2, Zenon
<1> HIDE DEF j
<1>8. StoreTypes'
  BY <1>1, <1>5, <1>6, Zenon DEF StoreIInv, StoreTypes
<1>9. ValueAlone' /\ OpenOwned'
  BY <1>1, <1>5, Zenon DEF StoreIInv, ValueAlone, OpenOwned
<1>10. LeftOpen' /\ KeptOpen'
  BY <1>1, <1>4, <1>5 DEF StoreIInv, StoreTypes, LeftOpen, KeptOpen
<1>11. MetaAlone'
  <2> SUFFICES ASSUME NEW g \in Handles, NEW k \in Handles, g # k, handle'[g] # Absent,
                      handle'[k] # Absent, handle'[g].id = handle'[k].id
               PROVE  "meta" \notin handle'[g].flags
    BY Zenon DEF MetaAlone
  <2>1. g # h /\ k # h
    BY <1>4, <1>5, <1>7, Zenon
  <2> QED  BY <1>5, <2>1, Zenon DEF StoreIInv, MetaAlone
<1>12. ReadingKnows'
  BY <1>1, <1>4, <1>5 DEF StoreIInv, ReadingKnows
<1>13. HandleHasObject'
  <2> SUFFICES ASSUME NEW g \in Handles, handle'[g] # Absent
               PROVE  store'[handle'[g].id] # Absent
    BY Zenon DEF HandleHasObject
  <2>1. CASE g = h
    BY <1>4, <1>5, <1>6, <2>1, Zenon
  <2>2. CASE g # h
    BY <1>5, <1>6, <1>7, <2>2, Zenon DEF StoreIInv, HandleHasObject
  <2> QED  BY <2>1, <2>2, Zenon
<1> QED  BY <1>8, <1>9, <1>10, <1>11, <1>12, <1>13 DEF StoreIInv

-----------------------------------------------------------------------------
(* Every step is of one of these kinds. *)
LEMMA PanicKind ==
  ASSUME StoreIInv, NEW t \in Tas, value[t] # Null, Panic(t)
  PROVE  Closes(t)
<1>1. value[t] \in Handles /\ reading \in [Tas -> Remaining \cup {Absent}]
  BY DEF StoreIInv, StoreTypes
<1>2. EndsRead(t)
  BY <1>1, Zenon DEF EndsRead, Panic
<1> QED  BY <1>1, <1>2, Zenon DEF Closes, Panic

(* A method that does not panic has its handle open. *)
LEMMA MethodFacts ==
  ASSUME StoreIInv, NEW t \in Tas, Idle(t), value[t] # Null
  PROVE  /\ value[t] \in Handles /\ reading[t] = Absent /\ t \notin ended
         /\ UNCHANGED reading => EndsRead(t)
BY DEF StoreIInv, StoreTypes, Idle, EndsRead

(* The methods are of these kinds: drop, *)
LEMMA DropKind ==
  ASSUME StoreIInv, NEW t \in Tas, Drop(t)
  PROVE  Closes(t)
<1>1. /\ Idle(t) /\ value[t] # Null
      /\ handle' = [g \in Handles |-> IF g = value[t] THEN Absent ELSE handle[g]]
      /\ misuse' = misuse \cup (IF value[t] = Null \/ handle[value[t]] # Absent
                                THEN {} ELSE {"closed twice"})
      /\ value' = [value EXCEPT ![t] = Null]
      /\ UNCHANGED <<store, reading, undeleted, ended>>
  BY Zenon DEF Drop, Close
<1>2. value[t] \in Handles /\ EndsRead(t)
  BY <1>1, MethodFacts, Zenon
<1>3. misuse' = misuse \/ handle[value[t]] = Absent
  BY <1>1, Zenon
<1> QED  BY <1>1, <1>2, <1>3, Zenon DEF Closes

(* any method that finds its object corrupt, *)
LEMMA CorruptKind ==
  ASSUME StoreIInv, NEW t \in Tas, Corrupt(t)
  PROVE  Closes(t) \/ Asks(t)
<1> DEFINE h == value[t]
<1>1. /\ Idle(t) /\ h # Null
      /\ \/ Panic(t)
         \/ /\ handle' = IF KeepsHandle THEN handle ELSE [handle EXCEPT ![h] = Absent]
            /\ UNCHANGED <<store, value, reading, undeleted, misuse, ended>>
  BY Zenon DEF Corrupt, Method, rest
<1>2. (h \in Handles /\ EndsRead(t)) \/ Panic(t)
  BY <1>1, MethodFacts, Zenon
<1>3. CASE Panic(t)
  BY <1>1, <1>3, PanicKind
<1>4. CASE ~Panic(t) /\ KeepsHandle
  BY <1>1, <1>4 DEF Asks
<1>5. CASE ~Panic(t) /\ ~KeepsHandle
  <2>1. handle' = [handle EXCEPT ![h] = Absent] /\ h \in Handles
    BY <1>1, <1>2, <1>5
  <2>2. handle' = [g \in Handles |-> IF g = h THEN Absent ELSE handle[g]]
    BY <2>1, Zenon DEF StoreIInv, StoreTypes
  <2> QED  BY <1>1, <1>2, <1>5, <2>1, <2>2, Zenon DEF Closes
<1> QED  BY <1>3, <1>4, <1>5

(* close_and_delete, *)
LEMMA DeleteKind ==
  ASSUME StoreIInv, NEW t \in Tas, CloseAndDelete(t)
  PROVE  Closes(t) \/ Forgets(t)
<1> DEFINE h == value[t]
<1>1. /\ Idle(t) /\ h # Null
      /\ \/ Panic(t)
         \/ /\ handle[h] # Absent /\ "meta" \in handle[h].flags
            /\ value' = [value EXCEPT ![t] = Null] /\ UNCHANGED <<reading, misuse, ended>>
            /\ \/ /\ store' = [store EXCEPT ![handle[h].id] = Absent] \/ store' = store
                  /\ handle' = [handle EXCEPT ![h] = Absent] /\ UNCHANGED undeleted
               \/ UNCHANGED <<store, handle>> /\ undeleted' = undeleted \cup {h}
  BY Zenon DEF CloseAndDelete, Method, rest, Forgotten
<1>2. h \in Handles /\ (UNCHANGED reading => EndsRead(t))
  BY <1>1, MethodFacts, Zenon
<1>3. CASE Panic(t)
  BY <1>1, <1>3, PanicKind, Zenon
<1>4. CASE ~Panic(t) /\ handle' = [handle EXCEPT ![h] = Absent] /\ UNCHANGED undeleted
  <2>1. handle' = [g \in Handles |-> IF g = h THEN Absent ELSE handle[g]]
    BY <1>2, <1>4, Zenon DEF StoreIInv, StoreTypes
  <2>2. store' = [store EXCEPT ![handle[h].id] = Absent] \/ store' = store
    BY <1>1, <1>4, Zenon
  <2> QED  BY <1>1, <1>2, <1>4, <2>1, <2>2, Zenon DEF Closes
<1>5. CASE ~Panic(t) /\ UNCHANGED <<store, handle>> /\ undeleted' = undeleted \cup {h}
  BY <1>1, <1>2, <1>5, Zenon DEF Forgets
<1> QED  BY <1>1, <1>3, <1>4, <1>5, Zenon

(* rename, *)
LEMMA RenameKind ==
  ASSUME StoreIInv, NEW t \in Tas, NEW i \in Ids, Rename(t, i)
  PROVE  Closes(t) \/ Renames(t)
<1> DEFINE h == value[t]
<1>1. /\ Idle(t) /\ h # Null
      /\ \/ Panic(t)
         \/ /\ handle[h] # Absent /\ "meta" \in handle[h].flags /\ store[i] = Absent
            /\ store' = [store EXCEPT ![i] = store[handle[h].id], ![handle[h].id] = Absent]
            /\ handle' = [handle EXCEPT ![h] =
                            HandleState(i, handle[h].flags, handle[h].pos)]
            /\ UNCHANGED <<value, reading, undeleted, misuse, ended>>
  BY Zenon DEF Rename, Method, rest
<1>2. h \in Handles
  BY <1>1, MethodFacts, Zenon
<1>3. CASE Panic(t)
  BY <1>1, <1>3, PanicKind, Zenon
<1>4. CASE ~Panic(t)
  BY <1>1, <1>2, <1>4, Zenon DEF Renames
<1> QED  BY <1>3, <1>4

(* open and create, *)
LEMMA OpenKind ==
  ASSUME StoreIInv, NEW t \in Tas, NEW i \in Ids, NEW f \in Flags,
         Open(t, i, f) \/ \E d \in {<<>>} \cup {<<b>> : b \in Bytes} : Create(t, i, f, d)
  PROVE  Opens(t) \/ Asks(t)
<1>1. CASE Open(t, i, f)
  BY <1>1, Zenon DEF Open, FromRaw, Opens, rest
<1>2. ASSUME NEW d \in {<<>>} \cup {<<b>> : b \in Bytes}, Create(t, i, f, d)
      PROVE  Opens(t) \/ Asks(t)
  <2>1. d \in Contents
    <3>1. 0 \in Positions /\ 1 \in Positions
      BY MaxPosAssumption DEF Positions
    <3>2. CASE d = <<>>
      <4>1. d \in [1 .. 0 -> Bytes \cup {0}]
        BY <3>2
      <4> QED  BY <3>1, <4>1, Zenon DEF Contents
    <3>3. ASSUME NEW b \in Bytes, d = <<b>>
          PROVE  d \in Contents
      <4>1. d \in [1 .. 1 -> Bytes \cup {0}]
        BY <3>3
      <4> QED  BY <3>1, <4>1, Zenon DEF Contents
    <3> QED  BY <1>2, <3>2, <3>3, Zenon
  <2>2. CASE UNCHANGED <<store, handle, value>>
    BY <1>2, <2>2, Zenon DEF Create, Asks
  <2>3. CASE Opened(i) = {} /\ store' = [store EXCEPT ![i] = d] /\ FromRaw(t, i, f)
    BY <1>2, <2>1, <2>3, Zenon DEF Create, FromRaw, Opens
  <2> QED  BY <1>2, <2>2, <2>3, Zenon DEF Create
<1> QED  BY <1>1, <1>2, Zenon

(* The data after one byte was written at a position. *)
Longer(d, end) == IF end < Len(d) THEN Len(d) ELSE end
Written(d, pos, b) ==
  [k \in 1 .. Longer(d, pos + 1) |->
     IF k \in pos + 1 .. pos + 1 THEN (<<b>>)[k - pos]
     ELSE Fitted(d, Longer(d, pos + 1))[k]]

(* What a write makes of the data, *)
LEMMA WrittenFacts ==
  ASSUME NEW d \in Contents, NEW pos \in Positions, pos + 1 \in Positions, NEW b \in Bytes
  PROVE  Written(d, pos, b) \in Contents
<1> DEFINE size == Longer(d, pos + 1)
<1>1. pos \in Nat /\ Len(d) \in Positions
  BY ContentFacts, MaxPosAssumption DEF Positions
<1>2. size \in Positions
  BY <1>1, MaxPosAssumption DEF Positions, Longer
<1> HIDE DEF size
<1>3. Fitted(d, size) \in [1 .. size -> Bytes \cup {0}]
  <2>1. Fitted(d, size) \in Contents
    BY <1>2, FittedFacts
  <2>2. size \in Nat
    BY <1>2, MaxPosAssumption DEF Positions
  <2>3. Len(Fitted(d, size)) = size
    BY <2>2 DEF Fitted
  <2> QED  BY <2>1, <2>3, ContentFacts
<1>4. \A k \in pos + 1 .. pos + 1 : (<<b>>)[k - pos] \in Bytes \cup {0}
  <2>1. \A k \in pos + 1 .. pos + 1 : k - pos = 1
    BY <1>1
  <2>2. (<<b>>)[1] = b
    OBVIOUS
  <2> QED  BY <2>1, <2>2
<1>5. Written(d, pos, b) \in [1 .. size -> Bytes \cup {0}]
  BY <1>3, <1>4, Zenon DEF Written, size
<1> QED  BY <1>2, <1>5, Zenon DEF Contents

(* A method that moves the position or writes the data. *)
LEMMA WorkKind ==
  ASSUME StoreIInv, NEW t \in Tas,
         \/ \E b \in Bytes : Write(t, <<b>>)
         \/ \E n \in Positions : Read(t, n) \/ Truncate(t, n)
         \/ \E n \in {-1, 0, 1}, w \in {"set", "cur", "end"} : Seek(t, n, w)
  PROVE  Closes(t) \/ Works(t)
<1> DEFINE h == value[t]
<1>1. Idle(t) /\ h # Null
  BY Zenon DEF Write, Read, Truncate, Seek, Method
<1>2. h \in Handles /\ (UNCHANGED reading => EndsRead(t))
  BY <1>1, MethodFacts, Zenon
<1>3. CASE Panic(t)
  BY <1>1, <1>3, PanicKind, Zenon
<1> SUFFICES ASSUME ~Panic(t) PROVE Works(t)
  BY <1>3
<1>4. handle[h] # Absent
  BY Zenon DEF Write, Read, Truncate, Seek, Method
<1>5. handle[h] \in OpenHandles /\ Data(h) \in Contents
  BY <1>2, <1>4, Zenon DEF StoreIInv, StoreTypes, HandleHasObject, Data, OpenHandles
<1>6. handle[h].pos \in Positions /\ Len(Data(h)) \in Positions
  BY <1>5, OpenFacts, ContentFacts, Zenon
<1>7. ASSUME NEW b \in Bytes, Write(t, <<b>>) PROVE Works(t)
  <2> DEFINE end == handle[h].pos + 1
             d == Written(Data(h), handle[h].pos, b)
  <2>1. /\ end <= MaxPos /\ store' = [store EXCEPT ![handle[h].id] = d]
        /\ MoveTo(h, end) /\ UNCHANGED <<value, reading, undeleted, misuse, ended>>
    <3>1. Len(<<b>>) = 1
      OBVIOUS
    <3> QED  BY <1>7, <3>1, Zenon DEF Write, Method, rest, Written, Longer
  <2>2. end \in Positions
    <3>1. end <= MaxPos
      BY <2>1, Zenon
    <3> QED  BY <1>6, <3>1, MaxPosAssumption DEF Positions
  <2>3. d \in Contents
    BY <1>5, <1>6, <2>2, WrittenFacts, Zenon
  <2> QED  BY <1>2, <1>4, <2>1, <2>2, <2>3, Zenon DEF Works, MoveTo
<1>8. ASSUME NEW n \in Positions, Read(t, n) PROVE Works(t)
  <2>1. /\ MoveTo(h, handle[h].pos + Available(h, n))
        /\ UNCHANGED <<store, value, reading, undeleted, misuse, ended>>
    BY <1>8, Zenon DEF Read, Method, rest
  <2>2. handle[h].pos + Available(h, n) \in Positions
    BY <1>2, <1>4, AvailableFacts, Zenon
  <2> QED  BY <1>2, <1>4, <2>1, <2>2, Zenon DEF Works, MoveTo
<1>9. ASSUME NEW n \in Positions, Truncate(t, n) PROVE Works(t)
  <2>1. /\ store' = [store EXCEPT ![handle[h].id] = Fitted(Data(h), n)]
        /\ UNCHANGED <<handle, value, reading, undeleted, misuse, ended>>
    BY <1>9, Zenon DEF Truncate, Method, rest
  <2>2. Fitted(Data(h), n) \in Contents
    BY <1>5, FittedFacts, Zenon
  <2> QED  BY <1>2, <1>4, <2>1, <2>2, Zenon DEF Works
<1>10. ASSUME NEW n \in {-1, 0, 1}, NEW w \in {"set", "cur", "end"}, Seek(t, n, w)
       PROVE  Works(t)
  <2> DEFINE from == CASE w = "set" -> 0 [] w = "cur" -> handle[h].pos
                       [] w = "end" -> Len(Data(h))
             to == IF from + n < 0 THEN 0 ELSE from + n
  <2>1. /\ to <= MaxPos /\ MoveTo(h, to)
        /\ UNCHANGED <<store, value, reading, undeleted, misuse, ended>>
    BY <1>10, Zenon DEF Seek, Method, rest
  <2>2. from \in Int
    BY <1>6, MaxPosAssumption DEF Positions
  <2>3. to \in Positions
    BY <2>1, <2>2, MaxPosAssumption DEF Positions
  <2> QED  BY <1>2, <1>4, <2>1, <2>3, Zenon DEF Works, MoveTo
<1> QED  BY <1>7, <1>8, <1>9, <1>10, Zenon

(* The two calls of read_remaining_to_vec. *)
LEMMA InfoKind ==
  ASSUME StoreIInv, NEW t \in Tas, ReadRemainingInfo(t)
  PROVE  Closes(t) \/ Asks(t)
<1> DEFINE h == value[t]
           size == Available(h, MaxPos)
           r == [size |-> size, data |-> Data(h)]
<1>1. Idle(t) /\ h # Null
  BY Zenon DEF ReadRemainingInfo, Method
<1>2. h \in Handles /\ t \notin ended
  BY <1>1, MethodFacts, Zenon
<1>3. CASE Panic(t)
  BY <1>1, <1>3, PanicKind
<1> SUFFICES ASSUME ~Panic(t) PROVE Asks(t)
  BY <1>3
<1>4. /\ handle[h] # Absent
      /\ reading' = reading \/ (size # 0 /\ reading' = [reading EXCEPT ![t] = r])
      /\ UNCHANGED <<store, handle, value, undeleted, misuse, ended>>
  BY Zenon DEF ReadRemainingInfo, Method, rest
<1>5. MaxPos \in Positions
  BY MaxPosAssumption DEF Positions
<1>6. /\ Data(h) \in Contents /\ size \in Positions
      /\ handle[h].pos \in Positions /\ Len(Data(h)) \in Positions
  BY <1>2, <1>4, <1>5, AvailableFacts, OpenFacts, ContentFacts, Zenon
<1>7. size # 0 => size = Len(Data(h)) - handle[h].pos
  <2>1. Len(Data(h)) - handle[h].pos <= MaxPos
    BY <1>6, MaxPosAssumption DEF Positions
  <2> QED  BY <1>2, <1>4, <1>5, <2>1, AvailableFacts, Zenon
<1>8. r \in Remaining /\ r.size = size /\ r.data = Data(h)
  BY <1>6, Zenon DEF Remaining
<1> QED  BY <1>2, <1>4, <1>7, <1>8, Zenon DEF Asks

(* the second call of read_remaining_to_vec, *)
LEMMA ReadKind ==
  ASSUME StoreIInv, NEW t \in Tas, ReadRemainingRead(t)
  PROVE  Closes(t) \/ Works(t)
<1> DEFINE h == value[t]
           n == Available(h, reading[t].size)
<1>1. h \in Handles /\ handle[h] # Absent /\ reading[t] \in Remaining
  BY Zenon DEF StoreIInv, StoreTypes, ReadingKnows, ReadRemainingRead
<1>2. CASE Panic(t)
  BY <1>1, <1>2, PanicKind, HandlesAssumption, Zenon
<1> SUFFICES ASSUME ~Panic(t) PROVE Works(t)
  BY <1>2
<1>3. /\ MoveTo(h, handle[h].pos + n) /\ reading' = [reading EXCEPT ![t] = Absent]
      /\ UNCHANGED <<store, value, undeleted, misuse, ended>>
  BY Zenon DEF ReadRemainingRead, rest
<1>4. handle[h].pos + n \in Positions
  <2>1. reading[t].size \in Positions
    BY <1>1, Zenon DEF Remaining
  <2> QED  BY <1>1, <2>1, AvailableFacts, Zenon
<1>5. EndsRead(t)
  BY <1>3, Zenon DEF EndsRead, StoreIInv, StoreTypes
<1> QED  BY <1>1, <1>3, <1>4, <1>5, Zenon DEF Works, MoveTo

(* and its failure. *)
LEMMA FailsKind ==
  ASSUME NEW t \in Tas, ReadRemainingFails(t)
  PROVE  Asks(t)
BY Zenon DEF ReadRemainingFails, Asks, rest

-----------------------------------------------------------------------------
(* Every step preserves the invariant. *)
LEMMA StoreStep == StoreIInv /\ [Next]_vars => StoreIInv'
<1> SUFFICES ASSUME StoreIInv, [Next]_vars PROVE StoreIInv'
  OBVIOUS
<1>1. CASE Next
  <2>1. PICK t \in Tas :
          \/ Drop(t) \/ Corrupt(t) \/ CloseAndDelete(t)
          \/ \E i \in Ids : Rename(t, i) \/ \E f \in Flags : Open(t, i, f)
          \/ \E i \in Ids, f \in Flags, d \in {<<>>} \cup {<<b>> : b \in Bytes} :
               Create(t, i, f, d)
          \/ \E b \in Bytes : Write(t, <<b>>)
          \/ \E n \in Positions : Read(t, n) \/ Truncate(t, n)
          \/ \E n \in {-1, 0, 1}, w \in {"set", "cur", "end"} : Seek(t, n, w)
          \/ ReadRemainingInfo(t) \/ ReadRemainingRead(t) \/ ReadRemainingFails(t)
    BY <1>1, Zenon DEF Next
  <2>2. \/ Works(t) \/ Asks(t) \/ Opens(t) \/ Closes(t) \/ Forgets(t) \/ Renames(t)
    BY <2>1, DropKind, CorruptKind, DeleteKind, RenameKind, OpenKind, WorkKind, InfoKind,
       ReadKind, FailsKind, Zenon
  <2> QED
    BY <2>2, WorksKeeps, AsksKeeps, OpensKeeps, ClosesKeeps, ForgetsKeeps, RenamesKeeps, Zenon
<1>2. CASE UNCHANGED vars
  BY <1>2, Zenon
     DEF vars, StoreIInv, StoreTypes, ValueAlone, OpenOwned, LeftOpen, MetaAlone,
         ReadingKnows, KeptOpen, HandleHasObject
<1> QED  BY <1>1, <1>2

(* In every reachable state, with any number of instances, handles and     *)
(* identifiers, data of any size and either setting of the TA flag, the    *)
(* values, the TEE's handles and the storage fit together as StoreIInv     *)
(* says.                                                                   *)
THEOREM StoreIInvHolds == Spec => []StoreIInv
<1>1. Init => StoreIInv
  BY StoreInit
<1>2. StoreIInv /\ [Next]_vars => StoreIInv'
  BY StoreStep
<1> QED  BY <1>1, <1>2, PTL DEF Spec

(* What it says of ownership. *)
LEMMA StoreSafe == StoreIInv => HandleHasObject /\ (KeepsHandle => HandleOwned)
<1> SUFFICES ASSUME StoreIInv, KeepsHandle PROVE HandleOwned
  BY DEF StoreIInv
<1>1. misuse = {} /\ \A t \in Tas : value[t] # Null => handle[value[t]] # Absent
  BY Zenon DEF StoreIInv, KeptOpen
<1>2. ASSUME NEW h \in Handles, handle[h] # Absent
      PROVE  IF h \in undeleted THEN Owners(h) = {} ELSE \E t \in Tas : Owners(h) = {t}
  <2>1. CASE h \in undeleted
    BY <2>1, Zenon DEF StoreIInv, LeftOpen, Owners
  <2>2. CASE h \notin undeleted
    <3>1. PICK u \in Tas : value[u] = h
      BY <1>2, <2>2, Zenon DEF StoreIInv, OpenOwned
    <3>2. Owners(h) = {u}
      BY <1>2, <3>1, HandlesAssumption, Zenon DEF StoreIInv, ValueAlone, Owners
    <3> QED  BY <2>2, <3>2
  <2> QED  BY <2>1, <2>2
<1> QED  BY <1>1, <1>2, Zenon DEF HandleOwned

(* When the TA is built so that the TEE closes no handle on its own, an    *)
(* open handle belongs to exactly one value or was left by a failed        *)
(* close_and_delete, a value's handle is open, and none is closed twice    *)
(* (ObjectHandle::drop, forget, PersistentObject::close_and_delete).       *)
THEOREM AlwaysHandleOwned ==
  ASSUME KeepsHandle
  PROVE  Spec => []HandleOwned
<1>1. StoreIInv => HandleOwned
  BY StoreSafe
<1> QED  BY <1>1, StoreIInvHolds, PTL

(* An open handle has its object in either build: no instance can delete,  *)
(* rename or recreate an object that another has open.                     *)
THEOREM AlwaysHandleHasObject == Spec => []HandleHasObject
BY StoreIInvHolds, StoreSafe, PTL

(* Only the second call of read_remaining_to_vec ends a read and returns a *)
(* vector.                                                                 *)
LEMMA EndsByRead ==
  ASSUME StoreIInv, Next, NEW t \in Tas,
         reading[t] # Absent, reading'[t] = Absent, got' # got
  PROVE  ReadRemainingRead(t) /\ ~Panic(t)
<1>1. PICK u \in Tas : ReadRemainingInfo(u) \/ ReadRemainingRead(u)
  <2>1. ASSUME NEW u \in Tas PROVE ~Drop(u) /\ ~ReadRemainingFails(u)
    BY Zenon DEF Drop, ReadRemainingFails
  <2>2. ASSUME NEW u \in Tas PROVE ~Corrupt(u) /\ ~CloseAndDelete(u)
    BY Zenon DEF Corrupt, CloseAndDelete, Method, Panic
  <2>3. ASSUME NEW u \in Tas, NEW i \in Ids
        PROVE  ~Rename(u, i) /\ \A f \in Flags : ~Open(u, i, f)
    BY Zenon DEF Rename, Open, Method, Panic
  <2>4. ASSUME NEW u \in Tas, NEW i \in Ids, NEW f \in Flags, NEW d PROVE ~Create(u, i, f, d)
    BY Zenon DEF Create
  <2>5. ASSUME NEW u \in Tas, NEW b \in Bytes PROVE ~Write(u, <<b>>)
    BY Zenon DEF Write, Method, Panic
  <2>6. ASSUME NEW u \in Tas, NEW n \in Positions PROVE ~Read(u, n) /\ ~Truncate(u, n)
    BY Zenon DEF Read, Truncate, Method, Panic
  <2>7. ASSUME NEW u \in Tas, NEW n, NEW w PROVE ~Seek(u, n, w)
    BY DEF Seek, Method, Panic
  <2> QED  BY <2>1, <2>2, <2>3, <2>4, <2>5, <2>6, <2>7, Zenon DEF Next
<1>2. ~ReadRemainingInfo(u)
  BY Zenon DEF ReadRemainingInfo, Method, Panic
<1>3. ReadRemainingRead(u) /\ ~Panic(u)
  BY <1>1, <1>2, Zenon DEF Panic
<1>4. reading' = [reading EXCEPT ![u] = Absent]
  BY <1>3, Zenon DEF ReadRemainingRead
<1>5. u = t
  BY <1>4 DEF StoreIInv, StoreTypes
<1> QED  BY <1>3, <1>5, Zenon

(* The vector of a read in terms of the position before and after it. *)
LEMMA ReadExact ==
  ASSUME StoreIInv, NEW t \in Tas, ReadRemainingRead(t), ~Panic(t)
  PROVE  LET h == value[t]
             from == handle[h].pos
             to == handle'[h].pos
         IN /\ got' = SubSeq(Data(h), from + 1, to)
            /\ reading[t].data = Data(h) => to = Len(Data(h))
<1> DEFINE h == value[t]
           from == handle[h].pos
           size == reading[t].size
           n == Available(h, size)
<1>1. /\ h \in Handles /\ handle[h] # Absent /\ reading[t] \in Remaining
      /\ size = Len(reading[t].data) - from
  BY Zenon DEF StoreIInv, StoreTypes, ReadingKnows, ReadRemainingRead
<1>2. size \in Positions
  BY <1>1, Zenon DEF Remaining
<1>3. /\ handle[h] \in OpenHandles /\ Data(h) \in Contents /\ from + n \in Positions
      /\ from < Len(Data(h)) /\ Len(Data(h)) - from <= size => n = Len(Data(h)) - from
      /\ n \in Positions /\ (n # 0 => from < Len(Data(h)))
  BY <1>1, <1>2, AvailableFacts, Zenon
<1>4. handle[h].id \in Ids /\ handle[h].flags \in Flags /\ from \in Positions
  BY <1>3, OpenFacts, Zenon
<1>5. handle' = [handle EXCEPT ![h] = HandleState(handle[h].id, handle[h].flags, from + n)]
  BY <1>1, Zenon DEF ReadRemainingRead, MoveTo
<1>6. handle'[h].pos = from + n
  <2>1. handle'[h] = HandleState(handle[h].id, handle[h].flags, from + n)
    BY <1>1, <1>5, Zenon DEF StoreIInv, StoreTypes
  <2>2. from + n \in Positions
    BY <1>3, Zenon
  <2> HIDE DEF n, from
  <2> QED  BY <1>4, <2>1, <2>2, HandleFacts
<1>7. got' = SubSeq(Data(h), from + 1, from + n)
  BY Zenon DEF ReadRemainingRead, Vector
<1>8. ASSUME reading[t].data = Data(h) PROVE from + n = Len(Data(h))
  <2>1. Len(Data(h)) \in Positions /\ size = Len(Data(h)) - from
    BY <1>1, <1>3, <1>8, ContentFacts, Zenon
  <2>2. n \in Positions
    BY <1>3, Zenon
  <2> HIDE DEF n, size, from
  <2>3. from \in Nat /\ n \in Nat /\ size \in Nat /\ Len(Data(h)) \in Nat
    BY <1>2, <1>4, <2>1, <2>2, MaxPosAssumption DEF Positions
  <2>4. /\ from < Len(Data(h)) /\ Len(Data(h)) - from <= size => n = Len(Data(h)) - from
        /\ n # 0 => from < Len(Data(h))
    BY <1>3, Zenon
  <2> QED  BY <2>1, <2>3, <2>4
<1> QED  BY <1>6, <1>7, <1>8, Zenon

(* read_remaining_to_vec returns exactly the bytes that it moved the       *)
(* position over, whatever the other instances do between its two calls,   *)
(* and all that remained when the data is as it was.                       *)
THEOREM AlwaysReadExact == Spec => ReadRemainingExact
<1> DEFINE Exact ==
      \A t \in Tas : reading[t] # Absent /\ reading'[t] = Absent /\ got' # got =>
        LET h == value[t]
            from == handle[h].pos
            to == handle'[h].pos
        IN /\ got' = SubSeq(Data(h), from + 1, to)
           /\ reading[t].data = Data(h) => to = Len(Data(h))
<1>1. StoreIInv /\ [Next]_vars => [Exact]_vars
  <2> SUFFICES ASSUME StoreIInv, Next PROVE Exact
    BY Zenon DEF vars
  <2> QED  BY EndsByRead, ReadExact, Zenon
<1>2. [][Exact]_vars => ReadRemainingExact
  BY PTL DEF ReadRemainingExact
<1> QED  BY <1>1, <1>2, StoreIInvHolds, PTL DEF Spec
=============================================================================
