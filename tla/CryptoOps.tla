----------------------------- MODULE CryptoOps -----------------------------
(***************************************************************************)
(* crates/optee-utee/src/crypto_op.rs: the operation values of a TA.  A    *)
(* value (Digest, Cipher, Mac, AE, Asymmetric or DeriveKey) owns a Box     *)
(* with the handle of a TEE operation, or a null pointer when it was made  *)
(* by null().  The TEE keeps the key, the state and the data of the        *)
(* operation and panics the TA when a method comes in the wrong state; the *)
(* conditions are those that the documentation of the methods lists.  A TA *)
(* calls the methods in any order; data is a sequence of chunks.           *)
(***************************************************************************)
EXTENDS Naturals, Sequences, FiniteSets

CONSTANTS
  Slots,       \* the places of the TA that hold an operation value
  Cells,       \* heap cells for the boxed handles (bounds the allocations)
  Algorithms,  \* the algorithms in use, members of DOMAIN Class
  KeyMaterial, \* key material
  Chunks,      \* pieces of data
  MaxFed,      \* bound: chunks given to an operation before it is finalized
  Null         \* the null pointer

VARIABLES
  slot,    \* of every place: the kind of its value and the pointer it owns
  cell,    \* of every cell: "free" or "live" (a Box is allocated there)
  op,      \* of every cell: the operation whose handle it holds
  object,  \* the key object of the TA: "null", "empty" or its key
  told,    \* of every place: the key and data the TA was told are accepted
  ret,     \* the code of the last method
  failed,  \* the number of allocations that failed
  misuse,  \* what was done to a pointer that must not be done
  dead     \* "no", or how the TA ended: "panic" or "fault"

cryptoVars == <<slot, cell, op, object, told, ret, failed, misuse, dead>>

(* The class of an algorithm, the top digit of its identifier. *)
Class == [Sha256 |-> "Digest", AesCtr |-> "Cipher", AesXts |-> "Cipher",
          HmacSha1 |-> "Mac", AesGcm |-> "AE", RsaesPkcs1V15 |-> "AsymCipher",
          RsassaPkcs1V15Sha256 |-> "AsymSign", DhDeriveSharedSecret |-> "Derive"]

ASSUME CellAssumption == Null \notin Cells
ASSUME AlgorithmAssumption == Algorithms \subseteq DOMAIN Class

Modes(a) ==
  CASE Class[a] \in {"Digest", "Mac", "Derive"} -> {Class[a]}
    [] Class[a] = "AsymSign" -> {"Sign", "Verify"}
    [] OTHER -> {"Encrypt", "Decrypt"}

Empty == [kind |-> "none", raw |-> Null]
NoOp == [algo |-> "none", mode |-> "none", key |-> <<>>, active |-> FALSE,
         init |-> FALSE, fed |-> <<>>]
Nothing == [key |-> <<>>, fed |-> <<>>]

CryptoInit ==
  /\ slot = [s \in Slots |-> Empty]
  /\ cell = [c \in Cells |-> "free"]
  /\ op = [c \in Cells |-> NoOp]
  /\ object = "null"
  /\ told = [s \in Slots |-> Nothing]
  /\ ret = "ok"
  /\ failed = 0
  /\ misuse = {}
  /\ dead = "no"

-----------------------------------------------------------------------------
(* Owning an operation *)

(* drop: the TEE operation is freed when there is one; the Box is taken    *)
(* back in any case.  Freeing a null Box is undefined: with the allocator  *)
(* of the TA it does nothing or faults.                                    *)
Dropped(v) ==
  /\ misuse' = misuse \cup
       (IF v.kind = "none" THEN {}
        ELSE IF v.raw = Null THEN {"free null"}
        ELSE IF cell[v.raw] = "live" THEN {} ELSE {"free twice"})
  /\ dead' \in IF v.kind # "none" /\ v.raw = Null THEN {"no", "fault"} ELSE {"no"}

FreeOperation(raw) == [c \in Cells |-> IF c = raw THEN NoOp ELSE op[c]]

(* Mutant: the Box is not taken back. *)
FreeBoxSkipped(raw) == cell

FreeBox(raw) == [c \in Cells |-> IF c = raw THEN "free" ELSE cell[c]]

DropOperation(s) ==
  /\ dead = "no" /\ slot[s].kind # "none"
  /\ Dropped(slot[s])
  /\ cell' = FreeBox(slot[s].raw)
  /\ op' = FreeOperation(slot[s].raw)
  /\ slot' = [slot EXCEPT ![s] = Empty]
  /\ told' = [told EXCEPT ![s] = Nothing]
  /\ UNCHANGED <<object, ret, failed>>

(* null(): a value that owns no Box. *)
NewNull(s, k) ==
  /\ dead = "no" /\ slot[s].kind = "none"
  /\ slot' = [slot EXCEPT ![s] = [kind |-> k, raw |-> Null]]
  /\ UNCHANGED <<cell, op, object, told, ret, failed, misuse, dead>>

(* The Box is made before the call and a failed call returns without it.   *)
AllocateFails(c) ==
  /\ cell' = [cell EXCEPT ![c] = "live"]
  /\ failed' = failed + 1
  /\ ret' = "error"
  /\ UNCHANGED <<slot, op, object, told, misuse, dead>>

(* A new value replaces the one in its place, which is then dropped.  The  *)
(* TEE refuses a mode that the class of the algorithm does not have.       *)
Allocate(s, k, a, m) ==
  /\ dead = "no"
  /\ \E c \in {d \in Cells : cell[d] = "free"} :
       \/ AllocateFails(c)
       \/ /\ m \in Modes(a)
          /\ Dropped(slot[s])
          /\ cell' = [FreeBox(slot[s].raw) EXCEPT ![c] = "live"]
          /\ op' = [FreeOperation(slot[s].raw)
                      EXCEPT ![c] = [algo |-> a, mode |-> m, key |-> <<>>,
                                     active |-> FALSE, init |-> FALSE, fed |-> <<>>]]
          /\ slot' = [slot EXCEPT ![s] = [kind |-> k, raw |-> c]]
          /\ told' = [told EXCEPT ![s] = Nothing]
          /\ ret' = "ok"
          /\ UNCHANGED <<object, failed>>

-----------------------------------------------------------------------------
(* Calling a method.  handle() reads through the pointer of the value;     *)
(* Ready is what the TEE requires of the operation, Outcomes the pairs     *)
(* (operation afterwards, code), Tell what the TA then knows was accepted. *)
Call(s, k, Ready(_), Outcomes(_), Tell(_, _)) ==
  /\ dead = "no" /\ slot[s].kind = k
  /\ \/ /\ slot[s].raw = Null
        /\ misuse' = misuse \cup {"deref null"}
        /\ dead' = "fault"
        /\ UNCHANGED <<op, told, ret>>
     \/ /\ slot[s].raw # Null /\ ~Ready(op[slot[s].raw])
        /\ dead' = "panic"
        /\ UNCHANGED <<op, told, ret, misuse>>
     \/ /\ slot[s].raw # Null /\ Ready(op[slot[s].raw])
        /\ \E o \in Outcomes(op[slot[s].raw]) :
             /\ op' = [op EXCEPT ![slot[s].raw] = o[1]]
             /\ told' = [told EXCEPT ![s] = Tell(@, o[2])]
             /\ ret' = o[2]
        /\ UNCHANGED <<misuse, dead>>
  /\ UNCHANGED <<slot, cell, failed>>

ClassOf(o) == Class[o.algo]
Room(o) == Len(o.fed) < MaxFed
State(o, active, init, fed) ==
  [algo |-> o.algo, mode |-> o.mode, key |-> o.key, active |-> active, init |-> init,
   fed |-> fed]
Start(o) == State(o, TRUE, TRUE, <<>>)
Feed(o, x) == State(o, TRUE, o.init, Append(o.fed, x))
Restart(o) == State(o, FALSE, FALSE, <<>>)
WithKey(o, key) == [o EXCEPT !.key = key]
Short(o) == <<o, "short">>

TellStart(t, code) == IF code = "ok" THEN [t EXCEPT !.fed = <<>>] ELSE t
TellFed(t, code, x) == IF code = "ok" THEN [t EXCEPT !.fed = Append(@, x)] ELSE t
TellKey(t, code, key) == IF code = "ok" THEN [t EXCEPT !.key = key] ELSE t
(* A comparison that fails has consumed the data as well. *)
TellFinal(t, code) == IF code = "short" THEN t ELSE [t EXCEPT !.fed = <<>>]
Same(t, code) == t

ObjectSame == UNCHANGED object

(* Digest *)
DigestUpdate(s, x) ==
  /\ slot[s].raw # Null => Room(op[slot[s].raw])
  /\ Call(s, "Digest", LAMBDA o : ClassOf(o) = "Digest",
          LAMBDA o : {<<Feed(o, x), "ok">>}, LAMBDA t, c : TellFed(t, c, x))
  /\ ObjectSame

(* Mutant: the code of the TEE is not checked, a short buffer passes for success. *)
DigestDoFinalUnchecked(s) ==
  /\ Call(s, "Digest", LAMBDA o : ClassOf(o) = "Digest",
          LAMBDA o : {<<Restart(o), "ok">>, <<o, "ok">>}, TellFinal)
  /\ ObjectSame

(* A short buffer leaves the operation as it was. *)
DigestDoFinal(s) ==
  /\ Call(s, "Digest", LAMBDA o : ClassOf(o) = "Digest",
          LAMBDA o : {<<Restart(o), "ok">>, Short(o)}, TellFinal)
  /\ ObjectSame

(* Cipher: init starts over, whatever the state. *)
CipherInit(s) ==
  /\ Call(s, "Cipher", LAMBDA o : ClassOf(o) = "Cipher" /\ o.key # <<>>,
          LAMBDA o : {<<Start(o), "ok">>}, TellStart)
  /\ ObjectSame

CipherUpdate(s, x) ==
  /\ slot[s].raw # Null => Room(op[slot[s].raw])
  /\ Call(s, "Cipher", LAMBDA o : ClassOf(o) = "Cipher" /\ o.init,
          LAMBDA o : {<<Feed(o, x), "ok">>, Short(o)}, LAMBDA t, c : TellFed(t, c, x))
  /\ ObjectSame

CipherDoFinal(s) ==
  /\ Call(s, "Cipher", LAMBDA o : ClassOf(o) = "Cipher" /\ o.init,
          LAMBDA o : {<<Restart(o), "ok">>, Short(o)}, TellFinal)
  /\ ObjectSame

(* Mac *)
MacInit(s) ==
  /\ Call(s, "Mac", LAMBDA o : ClassOf(o) = "Mac" /\ o.key # <<>>,
          LAMBDA o : {<<Start(o), "ok">>}, TellStart)
  /\ ObjectSame

MacUpdate(s, x) ==
  /\ slot[s].raw # Null => Room(op[slot[s].raw])
  /\ Call(s, "Mac", LAMBDA o : ClassOf(o) = "Mac" /\ o.init,
          LAMBDA o : {<<Feed(o, x), "ok">>}, LAMBDA t, c : TellFed(t, c, x))
  /\ ObjectSame

MacComputeFinal(s) ==
  /\ Call(s, "Mac", LAMBDA o : ClassOf(o) = "Mac" /\ o.init,
          LAMBDA o : {<<Restart(o), "ok">>, Short(o)}, TellFinal)
  /\ ObjectSame

MacCompareFinal(s) ==
  /\ Call(s, "Mac", LAMBDA o : ClassOf(o) = "Mac" /\ o.active,
          LAMBDA o : {<<Restart(o), "ok">>, <<Restart(o), "invalid">>}, TellFinal)
  /\ ObjectSame

(* AE: init and the additional data leave the operation in its initial state. *)
AEInit(s) ==
  /\ Call(s, "AE", LAMBDA o : ClassOf(o) = "AE" /\ o.key # <<>> /\ ~o.active,
          LAMBDA o : {<<State(o, FALSE, TRUE, <<>>), "ok">>, <<o, "error">>},
          TellStart)
  /\ ObjectSame

AEUpdateAad(s, x) ==
  /\ slot[s].raw # Null => Room(op[slot[s].raw])
  /\ Call(s, "AE", LAMBDA o : ClassOf(o) = "AE" /\ o.init /\ ~o.active,
          LAMBDA o : {<<State(o, o.active, o.init, Append(o.fed, x)), "ok">>},
          LAMBDA t, c : TellFed(t, c, x))
  /\ ObjectSame

AEUpdate(s, x) ==
  /\ slot[s].raw # Null => Room(op[slot[s].raw])
  /\ Call(s, "AE", LAMBDA o : ClassOf(o) = "AE" /\ o.init,
          LAMBDA o : {<<Feed(o, x), "ok">>, Short(o)}, LAMBDA t, c : TellFed(t, c, x))
  /\ ObjectSame

AEEncryptFinal(s) ==
  /\ Call(s, "AE", LAMBDA o : ClassOf(o) = "AE" /\ o.init /\ o.mode = "Encrypt",
          LAMBDA o : {<<Restart(o), "ok">>, Short(o)}, TellFinal)
  /\ ObjectSame

AEDecryptFinal(s) ==
  /\ Call(s, "AE", LAMBDA o : ClassOf(o) = "AE" /\ o.init /\ o.mode = "Decrypt",
          LAMBDA o : {<<Restart(o), "ok">>, <<Restart(o), "invalid">>, Short(o)}, TellFinal)
  /\ ObjectSame

(* Asymmetric: one call each; encrypt and decrypt make the output buffer   *)
(* themselves, with as many bytes as the key has bits.                     *)
OneShot(s, m, codes) ==
  /\ Call(s, "Asymmetric",
          LAMBDA o : /\ ClassOf(o) \in {"AsymCipher", "AsymSign"}
                     /\ o.mode = m /\ o.key # <<>>,
          LAMBDA o : {<<o, c>> : c \in codes}, Same)
  /\ ObjectSame

AsymEncrypt(s) == OneShot(s, "Encrypt", {"ok", "error"})
AsymDecrypt(s) == OneShot(s, "Decrypt", {"ok", "error"})
AsymSignDigest(s) == OneShot(s, "Sign", {"ok", "short"})
AsymVerifyDigest(s) == OneShot(s, "Verify", {"ok", "invalid"})

(* DeriveKey: fills an object that must not be initialized. *)
Derive(s, k) ==
  /\ Call(s, "DeriveKey",
          LAMBDA o : ClassOf(o) = "Derive" /\ o.key # <<>> /\ object = "empty",
          LAMBDA o : {<<o, "ok">>}, Same)
  /\ object' = IF dead' = "no" THEN k ELSE object

-----------------------------------------------------------------------------
(* Methods the kinds share *)

KeyOf(ob) == IF ob = "null" THEN <<>> ELSE <<ob>>

(* set_key copies the key out of the object; a null object clears it. *)
SetKey(s) ==
  /\ Call(s, slot[s].kind,
          LAMBDA o : object # "empty" /\ ~o.active /\ o.algo # "AesXts",
          LAMBDA o : {<<WithKey(o, KeyOf(object)), "ok">>, <<o, "error">>},
          LAMBDA t, c : TellKey(t, c, KeyOf(object)))
  /\ ObjectSame

(* set_key_2, with a second object that holds k: two different keys. *)
SetKey2(s, k) ==
  /\ Call(s, slot[s].kind,
          LAMBDA o : object \in KeyMaterial \ {k} /\ ~o.active /\ o.algo = "AesXts",
          LAMBDA o : {<<WithKey(o, <<object, k>>), "ok">>, <<o, "error">>},
          LAMBDA t, c : TellKey(t, c, <<object, k>>))
  /\ ObjectSame

Reset(s) ==
  /\ Call(s, slot[s].kind, LAMBDA o : ClassOf(o) = "Digest" \/ o.key # <<>>,
          LAMBDA o : {<<Restart(o), "ok">>}, TellStart)
  /\ ObjectSame

(* Mutant: copy takes over the pointer of the source. *)
CopyPointer(s, t) ==
  /\ dead = "no" /\ slot[s].kind # "none" /\ slot[t].raw # Null
  /\ slot' = [slot EXCEPT ![s].raw = slot[t].raw]
  /\ told' = [told EXCEPT ![s] = told[t]]
  /\ UNCHANGED <<cell, op, object, ret, failed, misuse, dead>>

(* copy reads both handles; the TEE wants the same algorithm and mode. *)
Copy(s, t) ==
  /\ s # t /\ slot[t].kind # "none"
  /\ \/ /\ slot[s].raw # Null /\ slot[t].raw = Null
        /\ dead = "no" /\ dead' = "fault"
        /\ misuse' = misuse \cup {"deref null"}
        /\ UNCHANGED <<slot, cell, op, told, ret, failed>>
     \/ /\ slot[s].raw = Null \/ slot[t].raw # Null
        /\ Call(s, slot[s].kind,
                LAMBDA o : /\ o.algo = op[slot[t].raw].algo
                           /\ o.mode = op[slot[t].raw].mode,
                LAMBDA o : {<<op[slot[t].raw], "ok">>},
                LAMBDA old, c : told[t])
  /\ ObjectSame

(* info only reads. *)
Info(s) ==
  /\ Call(s, slot[s].kind, LAMBDA o : TRUE, LAMBDA o : {<<o, "ok">>}, Same)
  /\ ObjectSame

(* info_multiple: the size handed to the TEE is 0 whatever the buffer, so  *)
(* that every buffer is too short.                                         *)
InfoMultiple(s) ==
  /\ Call(s, slot[s].kind, LAMBDA o : TRUE, LAMBDA o : {Short(o)}, Same)
  /\ ObjectSame

(* What every kind has. *)
Common(s) ==
  \/ Info(s)
  \/ InfoMultiple(s)
  \/ \E t \in Slots : Copy(s, t)

DigestCommon(s) ==
  \/ NewNull(s, "Digest") \/ \E a \in Algorithms : Allocate(s, "Digest", a, "Digest")
  \/ slot[s].kind = "Digest" /\ (Common(s) \/ Reset(s))

CipherCommon(s) ==
  \/ NewNull(s, "Cipher")
  \/ \E a \in Algorithms, m \in {"Encrypt", "Decrypt"} : Allocate(s, "Cipher", a, m)
  \/ slot[s].kind = "Cipher" /\ (Common(s) \/ SetKey(s) \/ \E k \in KeyMaterial : SetKey2(s, k))

MacCommon(s) ==
  \/ NewNull(s, "Mac") \/ \E a \in Algorithms : Allocate(s, "Mac", a, "Mac")
  \/ slot[s].kind = "Mac" /\ (Common(s) \/ Reset(s) \/ SetKey(s))

AECommon(s) ==
  \/ NewNull(s, "AE")
  \/ \E a \in Algorithms, m \in {"Encrypt", "Decrypt"} : Allocate(s, "AE", a, m)
  \/ slot[s].kind = "AE" /\ (Common(s) \/ Reset(s) \/ SetKey(s))

AsymCommon(s) ==
  \/ NewNull(s, "Asymmetric")
  \/ \E a \in Algorithms, m \in {"Encrypt", "Decrypt", "Sign", "Verify"} :
       Allocate(s, "Asymmetric", a, m)
  \/ slot[s].kind = "Asymmetric" /\ (Common(s) \/ SetKey(s))

DeriveCommon(s) ==
  \/ NewNull(s, "DeriveKey") \/ \E a \in Algorithms : Allocate(s, "DeriveKey", a, "Derive")
  \/ slot[s].kind = "DeriveKey" /\ (Common(s) \/ SetKey(s) \/ \E k \in KeyMaterial : SetKey2(s, k))

(* The key object of the TA: allocate, populate, reset (or close). *)
SetObject(v) ==
  /\ dead = "no"
  /\ object' = v
  /\ UNCHANGED <<slot, cell, op, told, ret, failed, misuse, dead>>
AllocateObject == object = "null" /\ SetObject("empty")
Populate(k) == object = "empty" /\ SetObject(k)
ResetObject == object \in KeyMaterial /\ SetObject("empty")

CryptoNext ==
  \/ \E s \in Slots :
       \/ DropOperation(s)
       \/ DigestCommon(s) \/ CipherCommon(s) \/ MacCommon(s)
       \/ AECommon(s) \/ AsymCommon(s) \/ DeriveCommon(s)
       \/ \E x \in Chunks :
            \/ DigestUpdate(s, x) \/ CipherUpdate(s, x) \/ MacUpdate(s, x)
            \/ AEUpdateAad(s, x) \/ AEUpdate(s, x)
       \/ DigestDoFinal(s)
       \/ CipherInit(s) \/ CipherDoFinal(s)
       \/ MacInit(s) \/ MacComputeFinal(s) \/ MacCompareFinal(s)
       \/ AEInit(s) \/ AEEncryptFinal(s) \/ AEDecryptFinal(s)
       \/ AsymEncrypt(s) \/ AsymDecrypt(s) \/ AsymSignDigest(s) \/ AsymVerifyDigest(s)
       \/ \E k \in KeyMaterial : Derive(s, k)
  \/ AllocateObject \/ ResetObject \/ \E k \in KeyMaterial : Populate(k)

CryptoSpec == CryptoInit /\ [][CryptoNext]_cryptoVars

-----------------------------------------------------------------------------
Owners(c) == {s \in Slots : slot[s].kind # "none" /\ slot[s].raw = c}

(* Every operation the TEE holds open belongs to exactly one value of the  *)
(* TA, through a live Box: none is left open when a value is dropped or    *)
(* replaced, none is shared, and no Box is freed twice                     *)
(* (OperationHandle::drop, allocate, copy).                                *)
OneOwner ==
  /\ "free twice" \notin misuse
  /\ \A c \in Cells : op[c] # NoOp => cell[c] = "live" /\ Cardinality(Owners(c)) = 1

(* The Boxes without an owner are exactly those of failed allocations:     *)
(* OperationHandle::allocate leaks its Box on every error, and nothing     *)
(* else leaks one.                                                         *)
LeaksAreFailures ==
  Cardinality({c \in Cells : cell[c] = "live" /\ Owners(c) = {}}) = failed

(* While the TA runs, an operation holds exactly the key and the data that *)
(* the TA was told were accepted: a short buffer takes nothing, a failed   *)
(* comparison consumes, a copy is independent of its source, and a change  *)
(* of the key object does not reach the operation.                         *)
HoldsWhatWasTold ==
  dead = "no" =>
    \A s \in Slots : slot[s].raw # Null =>
      /\ op[slot[s].raw].key = told[s].key
      /\ op[slot[s].raw].fed = told[s].fed
=============================================================================
