----------------------------- MODULE AesSession -----------------------------
(***************************************************************************)
(* A session of the aes-rs example: the context AesCipher, the commands of *)
(* the TA, each of which may stop at any call that fails, and a client     *)
(* that follows the example's main or sends the commands in any order.     *)
(* The calls of the TEE are external: what they refuse and what they panic *)
(* on.  What AES-CTR does to a text is the key, the vector and the         *)
(* position of its key stream.                                             *)
(***************************************************************************)
EXTENDS Naturals, FiniteSets, Sequences

CONSTANTS Names,     \* names of keys a client may set, of any length
          Vectors,   \* initial vectors
          Handles,   \* TEE handles
          MaxPos     \* how far the key stream is followed

(* What the theorems assume of the constants. *)
HandlesAssumption == "null" \notin Handles

VARIABLES ctx,     \* AesCipher: key_size, cipher and key_object
          live,    \* the handles the TEE has given out and not got back
          ta,      \* "alive" or "dead"
          told,    \* what the client was told: key and vector in force, and bytes since
          ca,      \* the client: in main's order or in any, its next step
          out      \* how the last command ended, and with which key stream
aesVars == <<ctx, live, ta, told, ca, out>>

NoKey == [id |-> "none", len |-> 0]
ZeroKey(n) == [id |-> "zero", len |-> n]
Null == "null"
NullCipher == [h |-> Null, key |-> NoKey, state |-> "initial", iv |-> "none", pos |-> 0]
NullObject == [h |-> Null, max |-> 0, key |-> NoKey]

Ended(result) == [end |-> result, stream |-> <<>>]

AesInit ==
  /\ ctx = [key_size |-> 0, cipher |-> NullCipher, key_object |-> NullObject]
  /\ live = {} /\ ta = "alive" /\ out = Ended("none")
  /\ told = [key |-> NoKey, iv |-> "none", pos |-> 0]
  /\ \E o \in {"main", "any"}, n \in Names, v \in Vectors :
       ca = [order |-> o, at |-> 1, key |-> [id |-> n, len |-> 16], iv |-> v]

(* main's order of calls: it goes on after a success and ends on an error. *)
Main == <<"prepare", "key", "iv", "cipher", "prepare", "key", "iv", "cipher">>

(* main has one key and one vector, and asks for keys of 16 bytes. *)
Sends(x, own) == ca.order = "any" \/ x = own

Turn(cmd) == ta = "alive" /\ (ca.order = "any" \/ (ca.at \in DOMAIN Main /\ Main[ca.at] = cmd))
GoesOn == IF ca.order = "any" THEN ca.at ELSE ca.at + 1
GivesUp == IF ca.order = "any" THEN ca.at ELSE 0

(* A call that the TEE answers with a panic: the instance is gone. *)
Panics == /\ ta' = "dead" /\ live' = {} /\ ctx' = [ctx EXCEPT !.cipher = NullCipher, !.key_object = NullObject]
          /\ ca' = [ca EXCEPT !.at = GivesUp] /\ out' = Ended("dead") /\ UNCHANGED told

Fails(c, l) == /\ ctx' = c /\ live' = l /\ out' = Ended("error") /\ ca' = [ca EXCEPT !.at = GivesUp]
               /\ UNCHANGED <<ta, told>>

-----------------------------------------------------------------------------
(* ta2tee_key_size *)
KeySizes == {16, 32}

(* Cipher::allocate into aes.cipher *)
NewCipher(h) == [NullCipher EXCEPT !.h = h]

(* TransientObject::allocate into aes.key_object. *)
NewObject(h, size) == [h |-> h, max |-> size, key |-> NoKey]

(* The assignment drops, and so frees, what was there. *)
Replaced(l, old, new) == (l \ {old}) \union {new}

(* alloc_resources stops at the key size, or with it at the algorithm or   *)
(* the mode, ...                                                           *)
PrepareFails(size) ==
  IF size \in KeySizes THEN Fails([ctx EXCEPT !.key_size = size], live) ELSE Fails(ctx, live)

(* ... at the key object, with the new cipher in place, ...                *)
PrepareHalf(size, h) ==
  Fails([key_size |-> size, cipher |-> NewCipher(h), key_object |-> ctx.key_object],
        Replaced(live, ctx.cipher.h, h))

(* The context with the cipher h and the key object k, and keys in them. *)
Both(size, h, k, key, zero) ==
  [key_size |-> size, cipher |-> [NewCipher(h) EXCEPT !.key = key],
   key_object |-> [NewObject(k, size) EXCEPT !.key = zero]]

(* ... or with both in place, at one of the two calls for the zero key.    *)
PrepareBoth(size, h, k) ==
  LET l == Replaced(Replaced(live, ctx.cipher.h, h), ctx.key_object.h, k)
  IN  \/ \E zero \in {NoKey, ZeroKey(size)} : Fails(Both(size, h, k, NoKey, zero), l)
      \/ /\ ctx' = Both(size, h, k, ZeroKey(size), ZeroKey(size)) /\ live' = l
         /\ told' = [key |-> ZeroKey(size), iv |-> "none", pos |-> 0]
         /\ ca' = [ca EXCEPT !.at = GoesOn] /\ out' = Ended("ok") /\ ta' = ta

Prepare(size) ==
  /\ Turn("prepare") /\ Sends(size, ca.key.len)
  /\ \/ PrepareFails(size)
     \/ /\ size \in KeySizes
        /\ \E h \in Handles \ live :
             \/ PrepareHalf(size, h)
             \/ \E k \in Handles \ Replaced(live, ctx.cipher.h, h) : PrepareBoth(size, h, k)

(* TEE_PopulateTransientObject takes what fits the object. *)
Populates(o, key) == key.len <= o.max

(* set_aes_key: a key of another length is refused before anything is      *)
(* changed.  Then the object is reset and filled, and the cipher gets the  *)
(* key, for which it has to be in its initial state.                       *)
SetKey(key) ==
  /\ Turn("key") /\ Sends(key, ca.key)
  /\ IF key.len # ctx.key_size THEN Fails(ctx, live)
     ELSE IF ctx.key_object.h = Null THEN Panics
     ELSE \/ Fails([ctx EXCEPT !.key_object.key = NoKey], live)
          \/ /\ Populates(ctx.key_object, key)
             /\ LET c == [ctx EXCEPT !.key_object.key = key]
                IN  IF ctx.cipher.h = Null \/ ctx.cipher.state # "initial" THEN Panics
                    ELSE \/ Fails(c, live)
                         \/ /\ ctx' = [c EXCEPT !.cipher.key = key]
                            /\ told' = [key |-> key, iv |-> "none", pos |-> 0]
                            /\ ca' = [ca EXCEPT !.at = GoesOn] /\ out' = Ended("ok")
                            /\ UNCHANGED <<live, ta>>

(* Cipher::init: TEE_CipherInit starts the key stream. *)
Inited(c, iv) == [c EXCEPT !.state = "active", !.iv = iv, !.pos = 0]

(* reset_aes_iv, which has no error: without a cipher and a key, a panic.  *)
SetIV(iv) ==
  /\ Turn("iv") /\ Sends(iv, ca.iv)
  /\ IF ctx.cipher.h = Null \/ ctx.cipher.key = NoKey THEN Panics
     ELSE /\ ctx' = [ctx EXCEPT !.cipher = Inited(@, iv)]
          /\ told' = [told EXCEPT !.iv = iv, !.pos = 0]
          /\ ca' = [ca EXCEPT !.at = GoesOn] /\ out' = Ended("ok") /\ UNCHANGED <<live, ta>>

(* What Cipher::update does to a text: the key stream it combines it with. *)
Stream(c) == <<c.key, c.iv, c.pos>>

(* cipher_buffer: the output has to hold the input.                        *)
CipherBuffer(room) ==
  /\ Turn("cipher") /\ Sends(room, "enough")
  /\ IF room # "enough" THEN Fails(ctx, live)
     ELSE IF ctx.cipher.h = Null \/ ctx.cipher.state # "active" THEN Panics
     ELSE /\ ctx.cipher.pos < MaxPos
          /\ \/ Fails(ctx, live)
             \/ /\ ctx' = [ctx EXCEPT !.cipher.pos = @ + 1]
                /\ told' = [told EXCEPT !.pos = @ + 1]
                /\ out' = [end |-> "ok", stream |-> Stream(ctx.cipher)]
                /\ ca' = [ca EXCEPT !.at = GoesOn]
                /\ UNCHANGED <<live, ta>>

(* close_session, or the drop of a session that was opened in vain: the    *)
(* context goes, and its cipher and object with it.                        *)
CloseSession ==
  /\ ta = "alive" /\ (ca.order = "any" \/ ca.at \in {0, 9})
  /\ live' = live \ {ctx.cipher.h, ctx.key_object.h}
  /\ ctx' = [ctx EXCEPT !.cipher = NullCipher, !.key_object = NullObject]
  /\ ta' = "closed" /\ out' = Ended("closed") /\ UNCHANGED <<told, ca>>

AesNext ==
  \/ \E n \in {0, 16, 32} : Prepare(n)
  \/ \E k \in [id : Names, len : {0, 16, 32}] : SetKey(k)
  \/ \E v \in Vectors : SetIV(v)
  \/ \E r \in {"enough", "less"} : CipherBuffer(r)
  \/ CloseSession

AesSpec == AesInit /\ [][AesNext]_aesVars

-----------------------------------------------------------------------------
(* Every text that Cipher answers was combined with the key stream the     *)
(* client was last told of: the key of the last SetKey or Prepare that     *)
(* succeeded, the vector of the last SetIV, and the bytes since, whatever  *)
(* failed half-way in between.                                             *)
StreamAsTold ==
  out.end = "ok" /\ out.stream # <<>> =>
    /\ out.stream[1] = told.key /\ out.stream[2] = told.iv /\ out.stream[3] = told.pos - 1

(* The TEE holds no operation and no object but those of the context,      *)
(* however often the session is prepared, and none once it is closed.      *)
NoHandleLost ==
  live = {ctx.cipher.h, ctx.key_object.h} \ {Null} /\ (ta = "closed" => live = {})

(* main's order is one the TEE does not panic on, although a key can only  *)
(* be set on a cipher without a vector and main sets each twice.           *)
MainNeverPanics == ca.order = "main" => ta # "dead"
=============================================================================
