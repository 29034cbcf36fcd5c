-------------------------- MODULE TransientObjects -------------------------
(***************************************************************************)
(* crates/optee-utee/src/object: the transient objects of a TA, which hold *)
(* keys, the attributes that fill them and are read from them, and the     *)
(* enumerators of persistent objects.  An object value owns a handle, or   *)
(* the null handle when it was made by null_object; the TEE panics the TA  *)
(* when a method comes in the wrong state, as documented on the methods.   *)
(* Key material is a model value with a size.                              *)
(***************************************************************************)
EXTENDS ObjectHandles, Naturals, TLC

CONSTANTS
  Slots,      \* places of the TA that hold an object value
  Keys,       \* key material
  MaxSize     \* the largest object size

ASSUME MaxSizeAssumption == MaxSize \in Nat \ {0}

VARIABLES
  slot,     \* of every place: a handle, Null or Absent
  object,   \* of every handle: the TEE's object, or Absent
  limited,  \* places told that their object is no longer extractable
  out,      \* the attribute that was extracted last and its place
  enum,     \* the enumerator of the TA: "none", "idle" or "started"
  boxes,    \* the number of boxed enumerator handles
  objMisuse,\* what was done to a handle that must not be done
  dead      \* the TA panicked

objVars == <<slot, object, limited, out, enum, boxes, objMisuse, dead>>
objRest == <<enum, boxes, objMisuse, dead>>

(* Types of object and the parts of a key they hold. *)
Parts == [Aes |-> {"secret"}, RsaPublicKey |-> {"public"},
          RsaKeypair |-> {"secret", "public"}]

(* Attributes: the part they name (bit 28), and whether it is a value (bit 29). *)
AttributeId == [SecretValue |-> [part |-> "secret", value |-> FALSE],
                RsaModulus |-> [part |-> "public", value |-> FALSE],
                RsaPrivateExponent |-> [part |-> "secret", value |-> FALSE],
                EccCurve |-> [part |-> "public", value |-> TRUE]]

UsageFlag == {"EXTRACTABLE", "ENCRYPT"}
Sizes == 1 .. MaxSize

(* What the TEE keeps for a handle. *)
Objects == [type : DOMAIN Parts, max : Sizes, key : Keys \cup {Absent},
            size : 0 .. MaxSize, usage : SUBSET UsageFlag]

ASSUME ObjectAssumption == Absent \notin Keys \cup Objects

(* An object without material, all usages of it allowed. *)
Container(type, max) ==
  [type |-> type, max |-> max, key |-> Absent, size |-> 0, usage |-> UsageFlag]

ObjInit ==
  /\ slot = [s \in Slots |-> Absent]
  /\ object = [h \in Handles |-> Absent]
  /\ limited = {}
  /\ out = [slot |-> Absent, part |-> "public"]
  /\ enum = "none"
  /\ boxes = 0
  /\ objMisuse = {}
  /\ dead = FALSE

ObjPanic ==
  /\ dead' = TRUE
  /\ UNCHANGED <<slot, object, limited, out, enum, boxes, objMisuse>>

(* Mutant: the null check of drop is lost. *)
CloseObjectUnchecked(h) ==
  /\ object' = [g \in Handles |-> IF g = h THEN Absent ELSE object[g]]
  /\ objMisuse' = IF h = Null THEN objMisuse \cup {"closed null"} ELSE objMisuse

(* ObjectHandle::drop: closes the handle unless it is null. *)
CloseObject(h) ==
  /\ object' = [g \in Handles |-> IF g = h THEN Absent ELSE object[g]]
  /\ objMisuse' = IF h \in {Null, Absent} \/ object[h] # Absent
                  THEN objMisuse ELSE objMisuse \cup {"closed twice"}

(* A value is dropped, or replaced by another. *)
Replace(s, v) ==
  /\ ~dead
  /\ CloseObject(slot[s])
  /\ slot' = [slot EXCEPT ![s] = v]
  /\ limited' = limited \ {s}
  /\ UNCHANGED <<out, enum, boxes, dead>>

DropObject(s) == slot[s] # Absent /\ Replace(s, Absent)

NullObject(s) == slot[s] = Absent /\ Replace(s, Null)

(* allocate: an uninitialized container of a type and size; the TEE may    *)
(* have no handle left or not support the size.                            *)
Allocate(s, type, max) ==
  /\ ~dead
  /\ \E h \in {g \in Handles : object[g] = Absent} :
       /\ object' = [g \in Handles |->
            IF g = h THEN Container(type, max)
            ELSE IF g = slot[s] THEN Absent ELSE object[g]]
       /\ slot' = [slot EXCEPT ![s] = h]
  /\ limited' = limited \ {s}
  /\ UNCHANGED <<out, enum, boxes, objMisuse, dead>>

(* A method needs an open handle in a state the TEE accepts. *)
OnObject(s, Ready(_), Effect(_)) ==
  /\ ~dead /\ slot[s] # Absent
  /\ IF slot[s] # Null /\ Ready(object[slot[s]])
     THEN Effect(slot[s]) /\ UNCHANGED <<slot, objRest>>
     ELSE ObjPanic

(* reset clears the material and gives back all usages. *)
Reset(s) ==
  OnObject(s, LAMBDA o : TRUE, LAMBDA h :
    /\ object' = [object EXCEPT ![h] = Container(@.type, @.max)]
    /\ limited' = limited \ {s}
    /\ UNCHANGED out)

(* What populate and generate_key require of the object. *)
Empty(o, n) == o.key = Absent /\ n <= o.max

Filled(o, k, n) ==
  [type |-> o.type, max |-> o.max, key |-> k, size |-> n, usage |-> o.usage]

(* Mutant: the object is filled although it holds material already. *)
PopulateOver(s, k, n) ==
  OnObject(s, LAMBDA o : n <= o.max, LAMBDA h :
    /\ object' = [object EXCEPT ![h] = Filled(@, k, n)]
    /\ UNCHANGED <<limited, out>>)

(* populate: inconsistent attributes leave the object uninitialized. *)
Populate(s, k, n) ==
  OnObject(s, LAMBDA o : Empty(o, n), LAMBDA h :
    /\ object' \in {object, [object EXCEPT ![h] = Filled(@, k, n)]}
    /\ UNCHANGED <<limited, out>>)

GenerateKey(s, k, n) ==
  OnObject(s, LAMBDA o : Empty(o, n), LAMBDA h :
    /\ object' \in {object, [object EXCEPT ![h] = Filled(@, k, n)]}
    /\ UNCHANGED <<limited, out>>)

(* copy_attribute_from: the parts of the source that the type holds, all   *)
(* of those it needs.                                                      *)
CopyAttributeFrom(s, t) ==
  /\ s # t /\ slot[t] # Absent
  /\ OnObject(s, LAMBDA o : LET src == object[slot[t]]
                            IN /\ slot[t] # Null /\ src.key # Absent
                               /\ o.key = Absent /\ src.size <= o.max
                               /\ Parts[o.type] \subseteq Parts[src.type],
       LAMBDA h :
         /\ object' = [object EXCEPT ![h] =
                         Filled(@, object[slot[t]].key, object[slot[t]].size)]
         /\ UNCHANGED <<limited, out>>)

Info(s) ==
  OnObject(s, LAMBDA o : TRUE, LAMBDA h : UNCHANGED <<object, limited, out>>)

Limited(o, flags) ==
  [type |-> o.type, max |-> o.max, key |-> o.key, size |-> o.size, usage |-> flags]

(* Mutant: the flags are added instead of limited. *)
RestrictUsageAdds(s, flags) ==
  OnObject(s, LAMBDA o : TRUE, LAMBDA h :
    /\ object' = [object EXCEPT ![h] = Limited(@, @.usage \cup flags)]
    /\ limited' = IF "EXTRACTABLE" \in flags THEN limited ELSE limited \cup {s}
    /\ UNCHANGED out)

(* restrict_usage keeps at most the flags given. *)
RestrictUsage(s, flags) ==
  OnObject(s, LAMBDA o : TRUE, LAMBDA h :
    /\ object' = [object EXCEPT ![h] = Limited(@, @.usage \cap flags)]
    /\ limited' = IF "EXTRACTABLE" \in flags THEN limited ELSE limited \cup {s}
    /\ UNCHANGED out)

(* An attribute is read: it must have the form asked for, and a protected  *)
(* one needs EXTRACTABLE; a part the object lacks is ItemNotFound.         *)
Extract(s, id, value) ==
  LET a == AttributeId[id]
  IN OnObject(s, LAMBDA o : /\ o.key # Absent /\ a.value = value
                            /\ a.part = "secret" => "EXTRACTABLE" \in o.usage,
       LAMBDA h :
         /\ out' = IF a.part \in Parts[object[h].type]
                   THEN [slot |-> s, part |-> a.part] ELSE out
         /\ UNCHANGED <<object, limited>>)

RefAttribute(s, id) == Extract(s, id, FALSE)

ValueAttribute(s, id) == Extract(s, id, TRUE)

-----------------------------------------------------------------------------
(* Enumerators of persistent objects *)

SetEnum(e, b) ==
  /\ ~dead
  /\ enum' = e
  /\ boxes' = b
  /\ UNCHANGED <<slot, object, limited, out, objMisuse, dead>>

(* The Box is freed again when the TEE gives no enumerator. *)
EnumAllocate ==
  enum = "none" /\ (SetEnum("idle", boxes + 1) \/ SetEnum("none", boxes))

EnumReset == enum # "none" /\ SetEnum("idle", boxes)

(* start fails on a storage that is empty or unknown. *)
EnumStart == enum # "none" /\ \E e \in {enum, "started"} : SetEnum(e, boxes)

(* One more object, or none is left; an enumerator that was not started    *)
(* has none.                                                               *)
EnumGetNext == enum # "none" /\ SetEnum(enum, boxes)

EnumDrop == enum # "none" /\ SetEnum("none", boxes - 1)

ObjNext ==
  \/ \E s \in Slots :
       \/ DropObject(s) \/ NullObject(s) \/ Reset(s) \/ Info(s)
       \/ \E ty \in DOMAIN Parts, n \in Sizes : Allocate(s, ty, n)
       \/ \E k \in Keys, n \in Sizes : Populate(s, k, n) \/ GenerateKey(s, k, n)
       \/ \E t \in Slots : CopyAttributeFrom(s, t)
       \/ \E f \in SUBSET UsageFlag : RestrictUsage(s, f)
       \/ \E id \in DOMAIN AttributeId : RefAttribute(s, id) \/ ValueAttribute(s, id)
  \/ EnumAllocate \/ EnumReset \/ EnumStart \/ EnumGetNext \/ EnumDrop

ObjSpec == ObjInit /\ [][ObjNext]_objVars

-----------------------------------------------------------------------------
(* The values that hold a handle. *)
Holders(h) == {s \in Slots : slot[s] = h}

(* Every open object belongs to exactly one value, and every value has an  *)
(* open object or the null handle: nothing is left open, closed twice, or  *)
(* closed through a null handle (ObjectHandle::drop).  An enumerator has   *)
(* its Box, and a failed ObjectEnumHandle::allocate frees it.              *)
ObjectOwned ==
  /\ objMisuse = {}
  /\ \A h \in Handles :
       IF object[h] = Absent THEN Holders(h) = {} ELSE \E s \in Slots : Holders(h) = {s}
  /\ boxes = IF enum = "none" THEN 0 ELSE 1

(* Key material is only ever replaced after reset: an initialized object   *)
(* is not filled again by populate, generate_key or copy_attribute_from.   *)
FilledOnce ==
  [][\A h \in Handles :
       object[h] # Absent /\ object[h].key # Absent /\ object'[h] # Absent =>
         object'[h].key \in {Absent, object[h].key}]_objVars

(* After restrict_usage took EXTRACTABLE away, no protected attribute is   *)
(* read from the object until it is reset or replaced.                     *)
LimitedNotExtracted ==
  [][\A s \in limited : out' # out => out' # [slot |-> s, part |-> "secret"]]_objVars

Symmetry == Permutations(Slots) \cup Permutations(Handles) \cup Permutations(Keys)
=============================================================================
