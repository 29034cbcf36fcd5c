------------------------- MODULE ApplicationProofs --------------------------
(***************************************************************************)
(* Proofs about the example applications, for every value of their         *)
(* constants: the sessions of aes-rs and authentication-rs (AesSession,    *)
(* AeSession), the pools of client_pool-rs (ClientPool), the wallets of    *)
(* eth_wallet-rs (EthWallet) and the objects of secure_storage-rs          *)
(* (SecureStorage).                                                        *)
(***************************************************************************)
EXTENDS AesSession, AeSession, ClientPool, EthWallet, SecureStorage, TLAPS

-----------------------------------------------------------------------------
(* AesSession and AeSession: a session keeps to what it told its client. *)

KeyType == [id : Names \union {"none", "zero"}, len : {0, 16, 32}]
CipherType == [h : Handles \union {Null}, key : KeyType, state : {"initial", "active"},
               iv : Vectors \union {"none"}, pos : Nat]
ObjectType == [h : Handles \union {Null}, max : {0, 16, 32}, key : KeyType]

AesTyped ==
  /\ ctx \in [key_size : {0, 16, 32}, cipher : CipherType, key_object : ObjectType]
  /\ live \subseteq Handles
  /\ ta \in {"alive", "dead", "closed"}
  /\ told \in [key : KeyType, iv : Vectors \union {"none"}, pos : Nat]
  /\ ca \in [order : {"main", "any"}, at : 0..9, key : KeyType, iv : Vectors]

(* What the cipher holds is what the client was told.                      *)
Told ==
  /\ ctx.cipher.key # NoKey => ctx.cipher.key = told.key
  /\ ctx.cipher.state = "active" =>
       ctx.cipher.key # NoKey /\ ctx.cipher.iv = told.iv /\ ctx.cipher.pos = told.pos

(* The two handles of the context are different.                           *)
Apart == ctx.cipher.h = ctx.key_object.h => ctx.cipher.h = Null

(* Where main is, its calls have left a session that takes the next one.   *)
OnTrack ==
  ca.order = "main" =>
    /\ ca.key.len = 16
    /\ ca.at \in {2, 3, 6, 7} => /\ ctx.key_size = 16 /\ ctx.key_object.h # Null /\ ctx.key_object.max = 16
                                 /\ ctx.cipher.h # Null /\ ctx.cipher.state = "initial"
                                 /\ ctx.cipher.key # NoKey
    /\ ca.at \in {4, 8} => ctx.cipher.h # Null /\ ctx.cipher.state = "active"

(* The inductive invariant.                                                *)
AesIInv ==
  /\ AesTyped /\ Told /\ Apart /\ (ta # "dead" => OnTrack)
  /\ StreamAsTold /\ NoHandleLost /\ MainNeverPanics

(* It holds initially.                                                     *)
LEMMA AesInitIInv == AesInit => AesIInv
<1> SUFFICES ASSUME AesInit PROVE AesIInv
  OBVIOUS
<1>1. NullCipher \in CipherType /\ NullObject \in ObjectType /\ NoKey \in KeyType
  BY DEF NullCipher, NullObject, NoKey, CipherType, ObjectType, KeyType
<1>2. PICK o \in {"main", "any"}, n \in Names, v \in Vectors :
        ca = [order |-> o, at |-> 1, key |-> [id |-> n, len |-> 16], iv |-> v]
  BY DEF AesInit
<1>3. AesTyped
  BY <1>1, <1>2 DEF AesInit, AesTyped, KeyType
<1>4. OnTrack
  BY <1>2 DEF OnTrack
<1> QED
  BY <1>3, <1>4 DEF AesInit, AesIInv, Told, Apart, StreamAsTold, NoHandleLost, MainNeverPanics,
     NullCipher, NullObject, Ended

(* main goes on by one step, or ends; another client is not followed.      *)
LEMMA WentType ==
  ASSUME AesTyped, NEW cmd, Turn(cmd)
  PROVE  /\ GoesOn \in 0..9 /\ GivesUp \in 0..9
         /\ ca.order = "main" => /\ GoesOn = ca.at + 1 /\ GivesUp = 0
                                /\ ca.at \in 1..8 /\ Main[ca.at] = cmd
BY DEF AesTyped, Turn, GoesOn, GivesUp, Main

(* A command that fails and leaves the cipher, the handles and what was    *)
(* told in order keeps the invariant.                                      *)
LEMMA FailsKeeps ==
  ASSUME AesIInv, NEW cmd, Turn(cmd), NEW c, NEW l, Fails(c, l),
         c \in [key_size : {0, 16, 32}, cipher : CipherType, key_object : ObjectType],
         l = {c.cipher.h, c.key_object.h} \ {Null}, l \subseteq Handles,
         c.cipher.h = c.key_object.h => c.cipher.h = Null,
         c.cipher = ctx.cipher \/ (c.cipher.key = NoKey /\ c.cipher.state = "initial")
  PROVE  AesIInv'
<1>1. /\ ctx' = c /\ live' = l /\ out' = Ended("error") /\ ta' = ta /\ told' = told
      /\ ca' = [ca EXCEPT !.at = GivesUp]
  BY DEF Fails
<1>2. GivesUp \in 0..9 /\ (ca.order = "main" => GivesUp = 0)
  BY WentType DEF AesIInv
<1>3. AesTyped'
  BY <1>1, <1>2 DEF AesIInv, AesTyped
<1>4. Told'
  BY <1>1 DEF AesIInv, Told
<1>5. OnTrack'
  <2>1. OnTrack /\ ca'.order = ca.order /\ ca'.key = ca.key /\ ca'.at = GivesUp
    BY <1>1 DEF AesIInv, AesTyped, Turn
  <2> QED
    BY <1>2, <2>1 DEF OnTrack
<1> QED
  BY <1>1, <1>2, <1>3, <1>4, <1>5
     DEF AesIInv, AesTyped, Apart, StreamAsTold, NoHandleLost, MainNeverPanics, Ended, Turn

(* A panic ends everything, and does not happen to main.                   *)
LEMMA PanicsKeeps ==
  ASSUME AesIInv, NEW cmd, Turn(cmd), Panics, ca.order = "any"
  PROVE  AesIInv'
<1>1. GivesUp \in 0..9
  BY WentType DEF AesIInv
<1>2. NullCipher \in CipherType /\ NullObject \in ObjectType
  BY DEF NullCipher, NullObject, NoKey, CipherType, ObjectType, KeyType
<1>3. AesTyped'
  BY <1>1, <1>2, Zenon DEF AesIInv, AesTyped, Panics
<1>4. ctx'.cipher = NullCipher /\ ctx'.key_object = NullObject /\ ca'.order = "any"
  BY DEF AesIInv, AesTyped, Panics
<1> QED
  BY <1>3, <1>4 DEF AesIInv, Panics, Told, Apart, StreamAsTold, NoHandleLost, MainNeverPanics,
     NullCipher, NullObject, NoKey, Ended

(* What Both makes.                                                        *)
LEMMA BothType ==
  ASSUME NEW n \in {0, 16, 32}, NEW h \in Handles, NEW k \in Handles, NEW key \in KeyType, NEW zero \in KeyType
  PROVE  LET b == Both(n, h, k, key, zero)
         IN  /\ b \in [key_size : {0, 16, 32}, cipher : CipherType, key_object : ObjectType]
             /\ b.key_size = n
             /\ b.cipher = [h |-> h, key |-> key, state |-> "initial", iv |-> "none", pos |-> 0]
             /\ b.key_object = [h |-> k, max |-> n, key |-> zero]
BY Zenon DEF Both, NewCipher, NullCipher, NewObject, CipherType, ObjectType

(* Every step keeps it.                                                    *)
LEMMA AesNextIInv == ASSUME HandlesAssumption PROVE AesIInv /\ [AesNext]_aesVars => AesIInv'
<1> SUFFICES ASSUME AesIInv, [AesNext]_aesVars PROVE AesIInv'
  OBVIOUS
<1> USE DEF HandlesAssumption
<1>0. /\ ctx.cipher \in CipherType /\ ctx.key_object \in ObjectType /\ ctx.key_size \in {0, 16, 32}
      /\ live = {ctx.cipher.h, ctx.key_object.h} \ {Null} /\ live \subseteq Handles
      /\ (ctx.cipher.h = ctx.key_object.h => ctx.cipher.h = Null)
  BY DEF AesIInv, AesTyped, NoHandleLost, Apart
<1>1. ASSUME NEW n \in {0, 16, 32}, Prepare(n) PROVE AesIInv'
  <2>1. Turn("prepare") /\ (ca.order = "main" => n = 16)
    BY <1>1 DEF Prepare, Sends, AesIInv, OnTrack, Turn
  <2>2. CASE PrepareFails(n)
    <3> DEFINE c == [ctx EXCEPT !.key_size = n]
    <3>1. /\ c \in [key_size : {0, 16, 32}, cipher : CipherType, key_object : ObjectType]
          /\ c.cipher = ctx.cipher /\ c.key_object = ctx.key_object
      BY DEF AesIInv, AesTyped
    <3>2. Fails(c, live) \/ Fails(ctx, live)
      BY <2>2 DEF PrepareFails
    <3> HIDE DEF c
    <3>3. CASE Fails(c, live)
      BY <1>0, <2>1, <3>1, <3>3, FailsKeeps
    <3>4. CASE Fails(ctx, live)
      BY <1>0, <2>1, <3>4, FailsKeeps DEF AesIInv, AesTyped
    <3> QED
      BY <3>2, <3>3, <3>4
  <2>3. ASSUME NEW h \in Handles \ live, PrepareHalf(n, h) PROVE AesIInv'
    <3> DEFINE c == [key_size |-> n, cipher |-> NewCipher(h), key_object |-> ctx.key_object]
               l == Replaced(live, ctx.cipher.h, h)
    <3>1. /\ NewCipher(h) \in CipherType /\ NewCipher(h).h = h
          /\ NewCipher(h).key = NoKey /\ NewCipher(h).state = "initial"
      BY DEF NewCipher, NullCipher, NoKey, CipherType, KeyType
    <3>2. /\ c \in [key_size : {0, 16, 32}, cipher : CipherType, key_object : ObjectType]
          /\ c.cipher = NewCipher(h) /\ c.key_object = ctx.key_object
      BY <1>0, <3>1
    <3>3. l = {h, ctx.key_object.h} \ {Null} /\ l \subseteq Handles /\ h # ctx.key_object.h
      BY <1>0 DEF Replaced, ObjectType, CipherType, Null
    <3>4. Fails(c, l)
      BY <2>3 DEF PrepareHalf
    <3> HIDE DEF c, l
    <3> QED
      BY <2>1, <3>1, <3>2, <3>3, <3>4, FailsKeeps
  <2>4. ASSUME n \in KeySizes, NEW h \in Handles \ live,
               NEW k \in Handles \ Replaced(live, ctx.cipher.h, h), PrepareBoth(n, h, k)
        PROVE  AesIInv'
    <3> DEFINE l == Replaced(Replaced(live, ctx.cipher.h, h), ctx.key_object.h, k)
    <3>1. l = {h, k} /\ h # k /\ l \subseteq Handles /\ h # Null /\ k # Null
      BY <1>0 DEF Replaced, ObjectType, CipherType, Null
    <3>3. NoKey \in KeyType /\ ZeroKey(n) \in KeyType /\ ZeroKey(n) # NoKey
      BY DEF NoKey, ZeroKey, KeyType
    <3>5. \/ \E zero \in {NoKey, ZeroKey(n)} : Fails(Both(n, h, k, NoKey, zero), l)
          \/ /\ ctx' = Both(n, h, k, ZeroKey(n), ZeroKey(n)) /\ live' = l
             /\ told' = [key |-> ZeroKey(n), iv |-> "none", pos |-> 0]
             /\ ca' = [ca EXCEPT !.at = GoesOn] /\ out' = Ended("ok") /\ ta' = ta
      BY <2>4 DEF PrepareBoth
    <3> HIDE DEF l
    <3>6. ASSUME NEW zero \in {NoKey, ZeroKey(n)}, Fails(Both(n, h, k, NoKey, zero), l) PROVE AesIInv'
      <4>1. zero \in KeyType
        BY <3>3
      <4> DEFINE c == Both(n, h, k, NoKey, zero)
      <4>2. /\ c \in [key_size : {0, 16, 32}, cipher : CipherType, key_object : ObjectType]
            /\ c.cipher = [h |-> h, key |-> NoKey, state |-> "initial", iv |-> "none", pos |-> 0]
            /\ c.key_object = [h |-> k, max |-> n, key |-> zero]
        BY <3>3, <4>1, BothType
      <4>3. Fails(c, l)
        BY <3>6
      <4> HIDE DEF c
      <4> QED
        BY <2>1, <3>1, <4>2, <4>3, FailsKeeps
    <3>7. ASSUME ctx' = Both(n, h, k, ZeroKey(n), ZeroKey(n)), live' = l,
                 told' = [key |-> ZeroKey(n), iv |-> "none", pos |-> 0],
                 ca' = [ca EXCEPT !.at = GoesOn], out' = Ended("ok"), ta' = ta
          PROVE  AesIInv'
      <4>1. /\ ctx' \in [key_size : {0, 16, 32}, cipher : CipherType, key_object : ObjectType]
            /\ ctx'.key_size = n
            /\ ctx'.cipher = [h |-> h, key |-> ZeroKey(n), state |-> "initial", iv |-> "none", pos |-> 0]
            /\ ctx'.key_object = [h |-> k, max |-> n, key |-> ZeroKey(n)]
        BY <3>3, <3>7, BothType
      <4>2. GoesOn \in 0..9 /\ (ca.order = "main" => ca.at \in {1, 5} /\ GoesOn \in {2, 6})
        BY <2>1, WentType DEF AesIInv, Main
      <4>3. AesTyped'
        BY <3>1, <3>3, <3>7, <4>1, <4>2 DEF AesIInv, AesTyped
      <4>4. Told' /\ Apart' /\ StreamAsTold' /\ NoHandleLost' /\ MainNeverPanics'
        BY <2>1, <3>1, <3>7, <4>1 DEF AesIInv, Told, Apart, StreamAsTold, NoHandleLost, MainNeverPanics, Ended, Turn
      <4>5. OnTrack'
        <5>1. /\ ca'.order = ca.order /\ ca'.key = ca.key /\ ca'.at = GoesOn
              /\ OnTrack
          BY <2>1, <3>7 DEF AesIInv, AesTyped, Turn
        <5> QED
          BY <2>1, <3>1, <3>3, <4>1, <4>2, <5>1 DEF OnTrack
      <4> QED
        BY <4>3, <4>4, <4>5 DEF AesIInv
    <3> QED
      BY <3>5, <3>6, <3>7
  <2> QED
    BY <1>1, <2>2, <2>3, <2>4 DEF Prepare
<1>2. ASSUME NEW key \in [id : Names, len : {0, 16, 32}], SetKey(key) PROVE AesIInv'
  <2> DEFINE c == [ctx EXCEPT !.key_object.key = key]
             r == [ctx EXCEPT !.key_object.key = NoKey]
             s == [c EXCEPT !.cipher.key = key]
  <2>1. /\ Turn("key") /\ ta = "alive" /\ OnTrack
        /\ ca.order = "main" => key.len = 16 /\ ca.at \in {2, 6} /\ GoesOn \in {3, 7}
        /\ GoesOn \in 0..9
    BY <1>2, WentType DEF SetKey, Sends, AesIInv, OnTrack, Turn, Main
  <2>2. key \in KeyType /\ NoKey \in KeyType
    BY DEF KeyType, NoKey
  <2>3. ASSUME NEW k \in KeyType
        PROVE  LET o == [ctx EXCEPT !.key_object.key = k]
               IN  /\ o \in [key_size : {0, 16, 32}, cipher : CipherType, key_object : ObjectType]
                   /\ o.cipher = ctx.cipher /\ o.key_object.h = ctx.key_object.h
                   /\ o.key_object.max = ctx.key_object.max /\ o.key_size = ctx.key_size
    BY DEF AesIInv, AesTyped, ObjectType
  <2>4. CASE Fails(ctx, live)
    BY <1>0, <2>1, <2>4, FailsKeeps, Zenon DEF AesIInv, AesTyped
  <2>5. CASE Fails(r, live)
    <3> HIDE DEF r
    <3> QED
      BY <1>0, <2>1, <2>2, <2>3, <2>5, FailsKeeps, Zenon DEF r
  <2>6. CASE Fails(c, live)
    <3> HIDE DEF c
    <3> QED
      BY <1>0, <2>1, <2>2, <2>3, <2>6, FailsKeeps, Zenon DEF c
  <2>7. ASSUME Panics, key.len = ctx.key_size,
               ctx.key_object.h = Null \/ ctx.cipher.h = Null \/ ctx.cipher.state # "initial"
        PROVE  AesIInv'
    <3>1. ca.order = "any"
      BY <2>1, <2>7 DEF AesIInv, AesTyped, OnTrack
    <3> QED
      BY <2>1, <2>7, <3>1, PanicsKeeps, Zenon
  <2>8. ASSUME key.len = ctx.key_size, ctx.key_object.h # Null, ctx.cipher.h # Null, ctx.cipher.state = "initial",
               Populates(ctx.key_object, key), ctx' = s,
               told' = [key |-> key, iv |-> "none", pos |-> 0], ca' = [ca EXCEPT !.at = GoesOn],
               out' = Ended("ok"), live' = live, ta' = ta
        PROVE  AesIInv'
    <3>1. /\ ctx' \in [key_size : {0, 16, 32}, cipher : CipherType, key_object : ObjectType]
          /\ ctx'.key_size = ctx.key_size /\ ctx'.cipher.key = key
          /\ ctx'.cipher.h = ctx.cipher.h /\ ctx'.cipher.state = ctx.cipher.state
          /\ ctx'.key_object.h = ctx.key_object.h /\ ctx'.key_object.max = ctx.key_object.max
      BY <2>2, <2>8, Zenon DEF AesIInv, AesTyped, CipherType, ObjectType
    <3>2. AesTyped'
      BY <2>1, <2>2, <2>8, <3>1 DEF AesIInv, AesTyped
    <3>3. Told' /\ Apart' /\ StreamAsTold' /\ NoHandleLost' /\ MainNeverPanics'
      BY <1>0, <2>1, <2>8, <3>1 DEF AesIInv, Told, Apart, StreamAsTold, NoHandleLost, MainNeverPanics, Ended
    <3>4. ca'.order = ca.order /\ ca'.key = ca.key /\ ca'.at = GoesOn
      BY <2>8 DEF AesIInv, AesTyped
    <3>5. ca.order = "main" => key # NoKey
      BY <2>1 DEF NoKey
    <3>6. OnTrack'
      BY <2>1, <2>8, <3>1, <3>4, <3>5 DEF OnTrack
    <3> QED
      BY <3>2, <3>3, <3>6 DEF AesIInv
  <2> HIDE DEF c, r, s
  <2> QED
    BY <1>2, <2>4, <2>5, <2>6, <2>7, <2>8 DEF SetKey, c, r, s
<1>3. ASSUME NEW iv \in Vectors, SetIV(iv) PROVE AesIInv'
  <2>1. /\ Turn("iv") /\ ta = "alive" /\ OnTrack /\ GoesOn \in 0..9
        /\ ca.order = "main" => ca.at \in {3, 7} /\ GoesOn \in {4, 8}
    BY <1>3, WentType DEF SetIV, AesIInv, Turn, Main
  <2>2. CASE ctx.cipher.h = Null \/ ctx.cipher.key = NoKey
    <3>1. ca.order = "any"
      BY <2>1, <2>2 DEF AesIInv, AesTyped, OnTrack
    <3> QED
      BY <1>3, <2>1, <2>2, <3>1, PanicsKeeps DEF SetIV
  <2>3. CASE ~(ctx.cipher.h = Null \/ ctx.cipher.key = NoKey)
    <3>1. /\ ctx' = [ctx EXCEPT !.cipher = Inited(@, iv)] /\ told' = [told EXCEPT !.iv = iv, !.pos = 0]
          /\ ca' = [ca EXCEPT !.at = GoesOn] /\ out' = Ended("ok") /\ live' = live /\ ta' = ta
      BY <1>3, <2>3 DEF SetIV
    <3>2. /\ ctx' \in [key_size : {0, 16, 32}, cipher : CipherType, key_object : ObjectType]
          /\ ctx'.cipher.key = ctx.cipher.key /\ ctx'.cipher.h = ctx.cipher.h /\ ctx'.cipher.state = "active"
          /\ ctx'.cipher.iv = iv /\ ctx'.cipher.pos = 0 /\ ctx'.key_object = ctx.key_object
      BY <3>1, Zenon DEF AesIInv, AesTyped, CipherType, Inited
    <3>3. told'.key = told.key /\ told'.iv = iv /\ told'.pos = 0
      BY <3>1 DEF AesIInv, AesTyped
    <3>4. AesTyped'
      BY <2>1, <3>1, <3>2, Zenon DEF AesIInv, AesTyped
    <3>5. Told' /\ Apart' /\ StreamAsTold' /\ NoHandleLost' /\ MainNeverPanics'
      BY <1>0, <2>1, <2>3, <3>1, <3>2, <3>3 DEF AesIInv, Told, Apart, StreamAsTold, NoHandleLost, MainNeverPanics, Ended
    <3>6. ca'.order = ca.order /\ ca'.key = ca.key /\ ca'.at = GoesOn
      BY <3>1 DEF AesIInv, AesTyped
    <3>7. OnTrack'
      BY <2>1, <2>3, <3>2, <3>6 DEF OnTrack
    <3> QED
      BY <3>4, <3>5, <3>7 DEF AesIInv
  <2> QED
    BY <2>2, <2>3
<1>4. ASSUME NEW room \in {"enough", "less"}, CipherBuffer(room) PROVE AesIInv'
  <2>1. /\ Turn("cipher") /\ ta = "alive" /\ OnTrack /\ GoesOn \in 0..9
        /\ ca.order = "main" => ca.at \in {4, 8} /\ GoesOn \in {5, 9}
    BY <1>4, WentType DEF CipherBuffer, AesIInv, Turn, Main
  <2>2. CASE Fails(ctx, live)
    BY <1>0, <2>1, <2>2, FailsKeeps, Zenon DEF AesIInv, AesTyped
  <2>3. ASSUME Panics, ctx.cipher.h = Null \/ ctx.cipher.state # "active" PROVE AesIInv'
    <3>1. ca.order = "any"
      BY <2>1, <2>3 DEF AesIInv, AesTyped, OnTrack
    <3> QED
      BY <2>1, <2>3, <3>1, PanicsKeeps
  <2>4. ASSUME ctx.cipher.h # Null, ctx.cipher.state = "active",
               ctx' = [ctx EXCEPT !.cipher.pos = @ + 1], told' = [told EXCEPT !.pos = @ + 1],
               out' = [end |-> "ok", stream |-> Stream(ctx.cipher)], ca' = [ca EXCEPT !.at = GoesOn],
               live' = live, ta' = ta
        PROVE  AesIInv'
    <3>1. /\ ctx' \in [key_size : {0, 16, 32}, cipher : CipherType, key_object : ObjectType]
          /\ ctx'.cipher.key = ctx.cipher.key /\ ctx'.cipher.h = ctx.cipher.h
          /\ ctx'.cipher.state = "active" /\ ctx'.cipher.iv = ctx.cipher.iv
          /\ ctx'.cipher.pos = ctx.cipher.pos + 1 /\ ctx'.key_object = ctx.key_object
      BY <2>4 DEF AesIInv, AesTyped, CipherType
    <3>2. told'.key = told.key /\ told'.iv = told.iv /\ told'.pos = told.pos + 1 /\ told.pos \in Nat
      BY <2>4 DEF AesIInv, AesTyped
    <3>3. AesTyped'
      BY <2>1, <2>4, <3>1 DEF AesIInv, AesTyped
    <3>4. Told' /\ Apart' /\ NoHandleLost' /\ MainNeverPanics'
      BY <1>0, <2>1, <2>4, <3>1, <3>2 DEF AesIInv, Told, Apart, NoHandleLost, MainNeverPanics
    <3>5. StreamAsTold'
      BY <2>4, <3>2 DEF AesIInv, Told, StreamAsTold, Stream
    <3>6. ca'.order = ca.order /\ ca'.key = ca.key /\ ca'.at = GoesOn
      BY <2>4 DEF AesIInv, AesTyped
    <3>7. OnTrack'
      BY <2>1, <3>6 DEF OnTrack
    <3> QED
      BY <3>3, <3>4, <3>5, <3>7 DEF AesIInv
  <2> QED
    BY <1>4, <2>2, <2>3, <2>4 DEF CipherBuffer
<1>5. CASE CloseSession
  <2>1. /\ ta = "alive" /\ OnTrack /\ ta' = "closed" /\ told' = told /\ ca' = ca /\ out' = Ended("closed")
        /\ live' = live \ {ctx.cipher.h, ctx.key_object.h} /\ (ca.order = "main" => ca.at \in {0, 9})
        /\ ctx' = [ctx EXCEPT !.cipher = NullCipher, !.key_object = NullObject]
    BY <1>5 DEF CloseSession, AesIInv, AesTyped
  <2>2. NullCipher \in CipherType /\ NullObject \in ObjectType
    BY DEF NullCipher, NullObject, NoKey, CipherType, ObjectType, KeyType
  <2>3. AesTyped' /\ ctx'.cipher = NullCipher /\ ctx'.key_object = NullObject
    BY <2>1, <2>2, Zenon DEF AesIInv, AesTyped
  <2>4. Told' /\ Apart' /\ StreamAsTold' /\ NoHandleLost' /\ MainNeverPanics'
    BY <1>0, <2>1, <2>3 DEF Told, Apart, StreamAsTold, NoHandleLost, MainNeverPanics,
       NullCipher, NullObject, Ended
  <2>5. OnTrack'
    BY <2>1 DEF OnTrack
  <2> QED
    BY <2>3, <2>4, <2>5 DEF AesIInv
<1>6. CASE UNCHANGED aesVars
  BY <1>6 DEF aesVars, AesIInv, AesTyped, Told, Apart, OnTrack, StreamAsTold, NoHandleLost, MainNeverPanics
<1> QED
  BY <1>1, <1>2, <1>3, <1>4, <1>5, <1>6 DEF AesNext

(* So it always holds.                                                     *)
THEOREM AesIInvHolds == ASSUME HandlesAssumption PROVE AesSpec => []AesIInv
BY AesInitIInv, AesNextIInv, PTL DEF AesSpec

(* cipher_buffer combines every text with the key stream that the client   *)
(* was last told of, whichever calls failed half-way before.               *)
THEOREM AlwaysStreamAsTold == ASSUME HandlesAssumption PROVE AesSpec => []StreamAsTold
BY AesIInvHolds, PTL DEF AesIInv

(* Prepare frees what it replaces, and nothing outlives the session.       *)
THEOREM HandlesKept == ASSUME HandlesAssumption PROVE AesSpec => []NoHandleLost
BY AesIInvHolds, PTL DEF AesIInv

(* The commands in the order of main never make the TEE panic.             *)
THEOREM MainIsSafe == ASSUME HandlesAssumption PROVE AesSpec => []MainNeverPanics
BY AesIInvHolds, PTL DEF AesIInv

-----------------------------------------------------------------------------
(* What main's buffers and the operation hold on the way: the rest of the  *)
(* first chunk with the second, and both parts encrypted.                  *)
Mixed == [i \in 1..16 |-> IF i <= 3 THEN Plain("a") ELSE Plain("b")]
Sealed1(p) == [i \in 1..16 |-> Sealed(Plain("a"), p, i)]
Sealed2(p) == [i \in 1..16 |-> Sealed(Mixed[i], p, 16 + i)]
Fed(mode, p, pending) ==
  AeOp("ready", mode, p, pending, Clear("a", 16))

(* The fields of the records. *)
AeShape ==
  /\ op = AeOp(op.state, op.mode, op.par, op.pending, op.text)
  /\ peer = [order |-> peer.order, at |-> peer.at, own |-> peer.own,
             par |-> peer.par, buf |-> peer.buf]
  /\ peer.buf = [i \in Outputs |-> peer.buf[i]]
  /\ peer.order \in {"main", "any"}

(* A session that is ready works with what the client prepared last. *)
AsPrepared == op.state = "ready" => op.par = peer.par

(* Where main is, and what it holds there: the buffers it passes as the    *)
(* output of a later call are still zero.                                  *)
Zeros(from) == \A i \in Outputs : i >= from => peer.buf[i] = Clear("0", 16)
HasSealed ==
  /\ peer.buf[2] = Sealed1(peer.own) /\ peer.buf[3] = Sealed2(peer.own)
  /\ made = {[par |-> peer.own, text |-> Clear("a", 16) \o Mixed]}

At1 == peer.at = 1 /\ made = {}
At2 == peer.at = 2 /\ made = {} /\ op = AePrepared("Encrypt", peer.own)
At3 ==
  /\ peer.at = 3 /\ made = {} /\ op = Fed("Encrypt", peer.own, Clear("a", 3))
  /\ peer.buf[2] = Sealed1(peer.own)
At4 == peer.at = 4 /\ HasSealed
At5 == peer.at = 5 /\ HasSealed /\ op = AePrepared("Decrypt", peer.own)
At6 ==
  /\ peer.at = 6 /\ HasSealed /\ op = Fed("Decrypt", peer.own, <<>>)
  /\ peer.buf[5] = Clear("a", 16)
At7 == peer.at = 7 /\ peer.buf[5] = Clear("a", 16) /\ peer.buf[6] = Mixed

MainAt ==
  peer.order = "main" =>
    \/ peer.at = 0
    \/ /\ peer.at \in 1..7 /\ Zeros(peer.at)
       /\ peer.at > 1 => peer.par = peer.own
       /\ At1 \/ At2 \/ At3 \/ At4 \/ At5 \/ At6 \/ At7

(* The inductive invariant of the session of authentication-rs. *)
AeIInv == AeShape /\ AsPrepared /\ MainAt /\ AuthenticTexts /\ MainNeverRefused

-----------------------------------------------------------------------------
(* What main holds is told by where it is. *)
LEMMA MainPlace ==
  ASSUME AeIInv, peer.order = "main"
  PROVE  /\ peer.at = 1 => At1
         /\ peer.at = 2 => At2 /\ peer.par = peer.own
         /\ peer.at = 3 => At3 /\ peer.par = peer.own
         /\ peer.at = 4 => At4 /\ peer.par = peer.own
         /\ peer.at = 5 => At5 /\ peer.par = peer.own
         /\ peer.at = 6 => At6 /\ peer.par = peer.own
         /\ peer.at = 7 => At7 /\ peer.par = peer.own /\ Zeros(7)
<1>1. /\ (At1 => peer.at = 1) /\ (At2 => peer.at = 2) /\ (At3 => peer.at = 3)
      /\ (At4 => peer.at = 4) /\ (At5 => peer.at = 5) /\ (At6 => peer.at = 6)
      /\ (At7 => peer.at = 7)
  BY Zenon DEF At1, At2, At3, At4, At5, At6, At7
<1>2. \/ peer.at = 0
      \/ /\ At1 \/ At2 \/ At3 \/ At4 \/ At5 \/ At6 \/ At7
         /\ Zeros(peer.at) /\ (peer.at > 1 => peer.par = peer.own)
  BY Zenon DEF AeIInv, MainAt
<1> QED BY <1>1, <1>2

-----------------------------------------------------------------------------
(* A text of n equal bytes is a sequence of length n. *)
LEMMA ClearIsSeq ==
  ASSUME NEW b, NEW n \in Nat
  PROVE  Clear(b, n) \in Seq({Plain(b)}) /\ Len(Clear(b, n)) = n
BY DEF Clear

(* The first chunk of main is a block and three bytes more. *)
LEMMA FirstChunk ==
  /\ <<>> \o Clear1 = Clear1
  /\ Len(Clear1) = 19
  /\ SubSeq(Clear1, 1, 16) = Clear("a", 16)
  /\ SubSeq(Clear1, 17, 19) = Clear("a", 3)
<1>1. Clear1 = Clear("a", 19)
  BY DEF Clear1, BufferSize
<1>2. Clear("a", 19) \in Seq({Plain("a")}) /\ Len(Clear("a", 19)) = 19
  BY ClearIsSeq, Zenon
<1>3. SubSeq(Clear("a", 19), 1, 16) = Clear("a", 16)
  BY DEF Clear
<1>4. SubSeq(Clear("a", 19), 17, 19) = Clear("a", 3)
  BY DEF Clear
<1> QED BY <1>1, <1>2, <1>3, <1>4

(* The second chunk makes the rest of the first one a block. *)
LEMMA SecondChunk ==
  /\ Clear("a", 3) \o Clear2 = Mixed
  /\ Len(Clear2) = 13 /\ Len(Clear("a", 3)) = 3 /\ Len(Clear("a", 16)) = 16 /\ Len(Mixed) = 16
<1>1. Clear2 = Clear("b", 13)
  BY DEF Clear2, BufferSize
<1>2. Len(Clear("b", 13)) = 13 /\ Len(Clear("a", 3)) = 3 /\ Len(Clear("a", 16)) = 16
  BY ClearIsSeq, Zenon
<1>3. Len(Mixed) = 16
  BY DEF Mixed
<1>4. Clear("a", 3) \o Clear("b", 13) = Mixed
  BY ClearIsSeq DEF Clear, Mixed
<1> QED BY <1>1, <1>2, <1>3, <1>4, Zenon

(* Both blocks together are the clear text. *)
LEMMA BothChunks == Clear("a", 16) \o Mixed = Clear1 \o Clear2
<1>1. Clear1 = Clear("a", 19) /\ Clear2 = Clear("b", 13)
  BY DEF Clear1, Clear2, BufferSize
<1>2. Clear("a", 16) \o Mixed = Clear("a", 19) \o Clear("b", 13)
  BY ClearIsSeq DEF Clear, Mixed
<1> QED BY <1>1, <1>2, Zenon

(* A block is a sequence, alone and before nothing. *)
LEMMA Blocks ==
  ASSUME NEW p
  PROVE  \A s \in {Clear("a", 16), Mixed, Sealed1(p), Sealed2(p)} :
           /\ Len(s) = 16 /\ <<>> \o s = s /\ s \o <<>> = s
           /\ SubSeq(s, 1, 16) = s /\ SubSeq(s, 17, 16) = <<>>
<1> DEFINE S == {Plain("a"), Plain("b")} \union {Sealed1(p)[i] : i \in 1..16}
                \union {Sealed2(p)[i] : i \in 1..16}
<1>1. Clear("a", 16) \in Seq(S) /\ Len(Clear("a", 16)) = 16
  BY DEF Clear
<1>2. Mixed \in Seq(S) /\ Len(Mixed) = 16
  BY DEF Mixed
<1>3. Sealed1(p) \in Seq(S) /\ Len(Sealed1(p)) = 16
  BY DEF Sealed1
<1>4. Sealed2(p) \in Seq(S) /\ Len(Sealed2(p)) = 16
  BY DEF Sealed2
<1> HIDE DEF S
<1>5. ASSUME NEW s \in Seq(S), Len(s) = 16
      PROVE  /\ <<>> \o s = s /\ s \o <<>> = s
             /\ SubSeq(s, 1, 16) = s /\ SubSeq(s, 17, 16) = <<>>
  BY <1>5
<1> QED BY <1>1, <1>2, <1>3, <1>4, <1>5

(* An output of a block covers the whole buffer. *)
LEMMA CoversAll ==
  ASSUME NEW p, NEW s \in {Clear("a", 16), Mixed, Sealed1(p), Sealed2(p)}
  PROVE  Covered(Clear("0", 16), s) = s
<1>1. Len(s) = 16 /\ s \o <<>> = s
  BY Blocks
<1>2. Clear("0", 16) \in Seq({Plain("0")}) /\ Len(Clear("0", 16)) = 16
  BY ClearIsSeq, Zenon
<1>3. SubSeq(Clear("0", 16), 17, 16) = <<>>
  BY <1>2
<1>4. Len(s) + 1 = 17
  BY <1>1
<1> QED BY <1>1, <1>2, <1>3, <1>4, Zenon DEF Covered

(* What the operation makes of main's blocks. *)
LEMMA Encrypts ==
  ASSUME op.mode = "Encrypt"
  PROVE  /\ op.text = <<>> => Processed(Clear("a", 16)) = Sealed1(op.par)
         /\ op.text = Clear("a", 16) => Processed(Mixed) = Sealed2(op.par)
<1>1. Len(Clear("a", 16)) = 16 /\ Len(Mixed) = 16
  BY SecondChunk
<1>2. ASSUME op.text = <<>> PROVE Processed(Clear("a", 16)) = Sealed1(op.par)
  BY <1>1, <1>2 DEF Processed, Sealed1, Clear
<1>3. ASSUME op.text = Clear("a", 16) PROVE Processed(Mixed) = Sealed2(op.par)
  BY <1>1, <1>3, Zenon DEF Processed, Sealed2
<1> QED BY <1>2, <1>3

(* And of the blocks it made. *)
LEMMA Decrypts ==
  ASSUME op.mode = "Decrypt"
  PROVE  /\ op.text = <<>> => Processed(Sealed1(op.par)) = Clear("a", 16)
         /\ op.text = Clear("a", 16) => Processed(Sealed2(op.par)) = Mixed
<1>1. Len(Clear("a", 16)) = 16 /\ Len(Sealed1(op.par)) = 16 /\ Len(Sealed2(op.par)) = 16
  BY Blocks
<1>2. ASSUME NEW b, NEW i \in 1..32
      PROVE  Opened(Sealed(Plain(b), op.par, i), op.par, i) = Plain(b)
  BY DEF Opened, Sealed, Plain
<1>3. ASSUME op.text = <<>> PROVE Processed(Sealed1(op.par)) = Clear("a", 16)
  <2>1. \A i \in 1..16 : Sealed1(op.par)[i] = Sealed(Plain("a"), op.par, i)
    BY DEF Sealed1
  <2> QED BY <1>1, <1>2, <1>3, <2>1 DEF Processed, Clear
<1>4. ASSUME op.text = Clear("a", 16) PROVE Processed(Sealed2(op.par)) = Mixed
  <2>1. \A i \in 1..16 : Sealed2(op.par)[i] = Sealed(Mixed[i], op.par, 16 + i)
    BY DEF Sealed2
  <2>2. \A i \in 1..16 : Mixed[i] \in {Plain("a"), Plain("b")}
    BY DEF Mixed
  <2>3. \A i \in 1..16 : Opened(Sealed2(op.par)[i], op.par, 16 + i) = Mixed[i]
    BY <1>2, <2>1, <2>2
  <2>4. Mixed = [i \in 1..16 |-> Mixed[i]]
    BY DEF Mixed
  <2>5. Processed(Sealed2(op.par)) = [i \in 1..16 |-> Opened(Sealed2(op.par)[i], op.par, 16 + i)]
    BY <1>1, <1>4, Zenon DEF Processed
  <2> QED BY <2>3, <2>4, <2>5
<1> QED BY <1>3, <1>4

-----------------------------------------------------------------------------
(* The invariant holds in a new session. *)
LEMMA AeInitIInv == AeInit => AeIInv
<1> SUFFICES ASSUME AeInit PROVE AeIInv
  OBVIOUS
<1>1. PICK o \in {"main", "any"}, p \in Params :
        peer = [order |-> o, at |-> 1, own |-> p, par |-> NoParams,
                buf |-> [i \in Outputs |-> Clear("0", BufferSize)]]
  BY DEF AeInit
<1>2. AeShape
  BY <1>1, Zenon DEF AeInit, AeShape, NoOp, AeOp
<1>3. AsPrepared
  BY DEF AeInit, AsPrepared, NoOp, AeOp
<1>4. MainAt
  BY <1>1 DEF AeInit, MainAt, At1, Zeros, BufferSize
<1> QED BY <1>2, <1>3, <1>4 DEF AeInit, AeIInv, AuthenticTexts, MainNeverRefused

(* An error of a call of the TEE ends main and leaves an operation that is  *)
(* the old one, or not ready.                                              *)
LEMMA AeFailsKeeps ==
  ASSUME AeIInv, NEW o, NEW why, AeFails(o, why),
         app = "alive",
         o = AeOp(o.state, o.mode, o.par, o.pending, o.text),
         o.state = "ready" => o.par = peer.par,
         peer.order = "main" => why = "error"
  PROVE  AeIInv'
<1>1. /\ peer'.order = peer.order /\ peer'.par = peer.par /\ peer'.buf = peer.buf
      /\ peer'.own = peer.own
      /\ peer.order = "main" => peer'.at = 0
      /\ peer' = [order |-> peer'.order, at |-> peer'.at, own |-> peer'.own,
                  par |-> peer'.par, buf |-> peer'.buf]
  BY Zenon DEF AeIInv, AeShape, AeFails, Stopped, Client
<1>2. AeShape'
  BY <1>1, Zenon DEF AeIInv, AeShape, AeFails
<1>3. AsPrepared'
  BY <1>1 DEF AeFails, AsPrepared
<1>4. MainAt'
  BY <1>1, Zenon DEF AeFails, MainAt
<1>5. AuthenticTexts' /\ MainNeverRefused'
  BY <1>1 DEF AeIInv, AeFails, AuthenticTexts, MainNeverRefused
<1> QED BY <1>2, <1>3, <1>4, <1>5, Zenon DEF AeIInv

(* A panic is one of a client that is not main.                            *)
LEMMA AePanicsKeeps ==
  ASSUME AeIInv, AePanics, peer.order = "any"
  PROVE  AeIInv'
<1>1. peer' = peer /\ op' = NoOp
  BY DEF AePanics, Stopped
<1>2. AeShape' /\ AsPrepared' /\ MainAt'
  BY <1>1, Zenon DEF AeIInv, AeShape, AsPrepared, MainAt, NoOp, AeOp
<1> QED BY <1>1, <1>2 DEF AeIInv, AePanics, AuthenticTexts, MainNeverRefused

(* What a client that is not main gets changes nothing of it.              *)
LEMMA AnyGoesOn ==
  ASSUME AeIInv, peer.order = "any", peer' = peer,
         op' = AeOp(op'.state, op'.mode, op'.par, op'.pending, op'.text),
         op'.state = "ready" => op'.par = peer.par,
         accepted' \subseteq made'
  PROVE  AeIInv'
BY Zenon DEF AeIInv, AeShape, AsPrepared, MainAt, AuthenticTexts, MainNeverRefused

(* The steps of main at which it calls. *)
LEMMA MainTurn ==
  ASSUME AeIInv, peer.order = "main", NEW cmd, AeTurn(cmd)
  PROVE  /\ peer.at \in 1..6
         /\ cmd = "Encrypt" => peer.at = 1
         /\ cmd = "Decrypt" => peer.at = 4
         /\ cmd = "Update" => peer.at \in {2, 5}
         /\ cmd = "EncFinal" => peer.at = 3
         /\ cmd = "DecFinal" => peer.at = 6
<1>1. peer.at \in DOMAIN MainCalls /\ MainCalls[peer.at] = cmd
  BY DEF AeTurn
<1>2. DOMAIN MainCalls = 1..6
  BY DEF MainCalls
<1>3. /\ MainCalls[1] = "Encrypt" /\ MainCalls[2] = "Update" /\ MainCalls[3] = "EncFinal"
      /\ MainCalls[4] = "Decrypt" /\ MainCalls[5] = "Update" /\ MainCalls[6] = "DecFinal"
  BY DEF MainCalls
<1>4. peer.at \in {1, 2, 3, 4, 5, 6}
  BY <1>1, <1>2
<1> QED BY <1>1, <1>3, <1>4

(* A new operation has the parameters the client prepared it with. *)
LEMMA AePrepareKeeps ==
  ASSUME AeIInv, NEW mode \in {"Encrypt", "Decrypt"}, NEW p \in Params, AePrepare(mode, p)
  PROVE  AeIInv'
<1>1. CASE AeFails(op, "error")
  BY <1>1, AeFailsKeeps, Zenon DEF AeIInv, AeShape, AsPrepared, AePrepare, AeTurn
<1>2. CASE AeFails(AeAllocated(mode), "error")
  <2>1. app = "alive"
    BY DEF AePrepare, AeTurn
  <2> QED BY <1>2, <2>1, AeFailsKeeps DEF AeAllocated, AeOp
<1>3. CASE /\ op' = AePrepared(mode, p)
           /\ peer' = Client(IF peer.order = "main" THEN peer.at + 1 ELSE peer.at, p, peer.buf)
           /\ answer' = "ok"
           /\ UNCHANGED <<app, made, accepted>>
  <2>1. /\ peer'.order = peer.order /\ peer'.par = p /\ peer'.buf = peer.buf
        /\ peer'.own = peer.own
        /\ peer.order = "main" => peer'.at = peer.at + 1
        /\ peer' = [order |-> peer'.order, at |-> peer'.at, own |-> peer'.own,
                    par |-> peer'.par, buf |-> peer'.buf]
    BY <1>3, Zenon DEF AeIInv, AeShape, Client
  <2>2. AeShape'
    BY <1>3, <2>1, Zenon DEF AeIInv, AeShape, AePrepared, AeOp
  <2>3. AsPrepared'
    BY <1>3, <2>1, Zenon DEF AsPrepared, AePrepared, AeOp
  <2>4. MainAt'
    <3> SUFFICES ASSUME peer.order = "main" PROVE MainAt'
      BY <2>1, Zenon DEF MainAt
    <3>1. p = peer.own /\ ((peer.at = 1 /\ mode = "Encrypt") \/ (peer.at = 4 /\ mode = "Decrypt"))
      BY MainTurn DEF AePrepare
    <3>2. peer.at \in 1..7 /\ Zeros(peer.at)
      BY <3>1 DEF AeIInv, MainAt
    <3>3. Zeros(peer.at)'
      BY <2>1, <3>2 DEF Zeros, Outputs
    <3>4. CASE peer.at = 1
      <4>1. At1
        BY <3>4, MainPlace
      <4>2. At2'
        BY <1>3, <2>1, <3>1, <3>4, <4>1 DEF At1, At2
      <4> QED BY <1>3, <2>1, <3>1, <3>2, <3>3, <3>4, <4>2 DEF MainAt
    <3>5. CASE peer.at = 4
      <4>1. At4
        BY <3>5, MainPlace
      <4>2. HasSealed'
        BY <1>3, <2>1, <4>1, Zenon DEF At4, HasSealed
      <4>3. At5'
        BY <1>3, <2>1, <3>1, <3>5, <4>2 DEF At5
      <4> QED BY <1>3, <2>1, <3>1, <3>2, <3>3, <3>5, <4>3 DEF MainAt
    <3> QED BY <3>1, <3>4, <3>5
  <2> QED BY <1>3, <2>1, <2>2, <2>3, <2>4, Zenon DEF AeIInv, AuthenticTexts, MainNeverRefused
<1> QED BY <1>1, <1>2, <1>3 DEF AePrepare

(* main gets a block in the buffer of its step, and goes on. *)
LEMMA MainReceives ==
  ASSUME AeIInv, peer.order = "main", peer.at \in Outputs,
         NEW text \in {Clear("a", 16), Mixed, Sealed1(peer.own), Sealed2(peer.own)},
         peer' = Received(text)
  PROVE  /\ peer'.order = "main" /\ peer'.at = peer.at + 1
         /\ peer'.own = peer.own /\ peer'.par = peer.par /\ peer.par = peer.own
         /\ peer'.buf = [peer.buf EXCEPT ![peer.at] = text]
         /\ peer'.buf[peer.at] = text
         /\ \A i \in Outputs : i # peer.at => peer'.buf[i] = peer.buf[i]
         /\ peer' = [order |-> peer'.order, at |-> peer'.at, own |-> peer'.own,
                     par |-> peer'.par, buf |-> peer'.buf]
         /\ peer'.buf = [i \in Outputs |-> peer'.buf[i]]
         /\ Zeros(peer.at)'
<1>1. peer.at \in {2, 3, 5, 6}
  BY DEF Outputs
<1>2. Zeros(peer.at) /\ peer.par = peer.own
  BY <1>1 DEF AeIInv, MainAt
<1>3. Covered(peer.buf[peer.at], text) = text
  <2>1. peer.buf[peer.at] = Clear("0", 16)
    BY <1>1, <1>2 DEF Zeros
  <2> QED BY <2>1, CoversAll, Zenon
<1>4. peer' = Client(peer.at + 1, peer.par, [peer.buf EXCEPT ![peer.at] = text])
  BY <1>3, Zenon DEF Received
<1>5. /\ peer'.order = "main" /\ peer'.at = peer.at + 1
      /\ peer'.own = peer.own /\ peer'.par = peer.par
      /\ peer'.buf = [peer.buf EXCEPT ![peer.at] = text]
      /\ peer' = [order |-> peer'.order, at |-> peer'.at, own |-> peer'.own,
                  par |-> peer'.par, buf |-> peer'.buf]
  BY <1>4 DEF Client
<1>6. peer.buf = [i \in Outputs |-> peer.buf[i]]
  BY Zenon DEF AeIInv, AeShape
<1>7. /\ peer'.buf[peer.at] = text
      /\ \A i \in Outputs : i # peer.at => peer'.buf[i] = peer.buf[i]
      /\ peer'.buf = [i \in Outputs |-> peer'.buf[i]]
  BY <1>5, <1>6, Zenon
<1>8. Zeros(peer.at)'
  BY <1>1, <1>2, <1>5, <1>7 DEF Zeros, Outputs
<1> QED BY <1>2, <1>5, <1>7, <1>8, Zenon

(* What follows a step of main that succeeds. *)
LEMMA MainGoesOn ==
  ASSUME AeIInv, peer.order = "main", peer.at \in Outputs, app = "alive", app' = app,
         NEW text \in {Clear("a", 16), Mixed, Sealed1(peer.own), Sealed2(peer.own)},
         peer' = Received(text), answer' = "ok",
         op' = AeOp(op'.state, op'.mode, op'.par, op'.pending, op'.text),
         op'.state = "ready" => op'.par = peer.own,
         accepted' \subseteq made',
         At3' \/ At4' \/ At6' \/ At7'
  PROVE  AeIInv'
<1>1. peer.at \in {2, 3, 5, 6}
  BY Zenon DEF Outputs
<1>2. AeShape'
  BY MainReceives, Zenon DEF AeShape
<1>3. AsPrepared'
  BY MainReceives, Zenon DEF AsPrepared
<1>4. MainAt'
  BY <1>1, MainReceives DEF MainAt
<1> QED BY <1>2, <1>3, <1>4, Zenon DEF AeIInv, AuthenticTexts, MainNeverRefused

(* main updates with its first chunk, of which a block goes out, and with  *)
(* the block it got for that.                                              *)
LEMMA MainUpdateKeeps ==
  ASSUME AeIInv, NEW src, NEW room, AeUpdate(src, room), peer.order = "main"
  PROVE  AeIInv'
<1>1. peer.at \in {2, 5} /\ app = "alive" /\ src = MainText /\ room = 16
  BY MainTurn, Zenon DEF AeUpdate, AeSends, BufferSize, AeTurn
<1>2. AeFails(op, "error") => AeIInv'
  BY <1>1, AeFailsKeeps, Zenon DEF AeIInv, AeShape, AsPrepared
<1>3. CASE peer.at = 2
  <2>1. At2
    BY <1>3, MainPlace, Zenon
  <2>2. /\ op.state = "ready" /\ op.mode = "Encrypt" /\ op.par = peer.own
        /\ op.pending = <<>> /\ op.text = <<>>
    BY <2>1 DEF At2, AePrepared, AeOp
  <2>3. src = Clear1 /\ op.pending \o src = Clear1
    BY <1>1, <1>3, <2>2, FirstChunk DEF MainText
  <2>4. /\ Len(src) = 19 /\ Len(op.pending) = 0 /\ Len(op.text) = 0
    BY <2>2, <2>3, FirstChunk, Zenon
  <2>5. /\ Total(src) = 19
        /\ Len(op.pending \o src) - (Len(op.pending \o src) % AesBlock) = 16
    BY <2>3, <2>4 DEF Total, AesBlock
  <2>6. SubSeq(op.pending \o src, 1, 16) = Clear("a", 16)
    BY <2>3, FirstChunk
  <2>7. Processed(Clear("a", 16)) = Sealed1(peer.own)
    BY <2>2, Encrypts, Zenon
  <2>8. op.text \o ClearOf(Clear("a", 16)) = Clear("a", 16)
    BY <2>2, Blocks, Zenon DEF ClearOf
  <2>9. SubSeq(op.pending \o src, 16 + 1, Len(op.pending \o src)) = Clear("a", 3)
    BY <2>3, FirstChunk
  <2>10. CASE /\ op' = Fed("Encrypt", peer.own, Clear("a", 3))
              /\ peer' = Received(Sealed1(peer.own)) /\ answer' = "ok"
              /\ UNCHANGED <<app, made, accepted>>
    <3>1. At3'
      BY <1>3, <2>1, <2>10, MainReceives DEF At2, At3, Outputs
    <3> QED BY <1>1, <1>3, <2>10, <3>1, MainGoesOn, Zenon DEF AeIInv, AuthenticTexts, Outputs, Fed, AeOp
  <2>11. \/ AeFails(op, "error")
         \/ /\ op' = Fed("Encrypt", peer.own, Clear("a", 3))
            /\ peer' = Received(Sealed1(peer.own)) /\ answer' = "ok"
            /\ UNCHANGED <<app, made, accepted>>
    <3>1. ~ (op.state # "ready" \/ Total(src) > Payload)
      BY <2>2, <2>5 DEF Payload, BufferSize, PayloadNumber
    <3>2. ~ (16 > room)
      BY <1>1
    <3> QED BY <2>2, <2>5, <2>6, <2>7, <2>8, <2>9, <3>1, <3>2, Zenon DEF AeUpdate, Fed
  <2> QED BY <1>2, <2>10, <2>11
<1>4. CASE peer.at = 5
  <2>1. At5
    BY <1>4, MainPlace, Zenon
  <2>2. /\ op.state = "ready" /\ op.mode = "Decrypt" /\ op.par = peer.own
        /\ op.pending = <<>> /\ op.text = <<>> /\ peer.buf[2] = Sealed1(peer.own)
    BY <2>1, Zenon DEF At5, HasSealed, AePrepared, AeOp
  <2>3. src = Sealed1(peer.own) /\ op.pending \o src = Sealed1(peer.own)
    BY <1>1, <1>4, <2>2, Blocks DEF MainText
  <2>4. /\ Len(src) = 16 /\ Len(op.pending) = 0 /\ Len(op.text) = 0
    BY <2>2, <2>3, Blocks, Zenon
  <2>5. /\ Total(src) = 16
        /\ Len(op.pending \o src) - (Len(op.pending \o src) % AesBlock) = 16
    BY <2>3, <2>4 DEF Total, AesBlock
  <2>6. SubSeq(op.pending \o src, 1, 16) = Sealed1(peer.own)
    BY <2>3, Blocks
  <2>7. Processed(Sealed1(peer.own)) = Clear("a", 16)
    BY <2>2, Decrypts, Zenon
  <2>8. op.text \o ClearOf(Sealed1(peer.own)) = Clear("a", 16)
    BY <2>2, <2>7, Blocks, Zenon DEF ClearOf
  <2>9. SubSeq(op.pending \o src, 16 + 1, Len(op.pending \o src)) = <<>>
    <3>1. Len(Sealed1(peer.own)) = 16 /\ SubSeq(Sealed1(peer.own), 17, 16) = <<>>
      BY Blocks
    <3>2. 16 + 1 = 17
      OBVIOUS
    <3> QED BY <2>3, <3>1, <3>2
  <2>10. CASE /\ op' = Fed("Decrypt", peer.own, <<>>)
              /\ peer' = Received(Clear("a", 16)) /\ answer' = "ok"
              /\ UNCHANGED <<app, made, accepted>>
    <3>1. peer.at \in Outputs /\ peer.at # 2 /\ peer.at # 3 /\ 2 \in Outputs /\ 3 \in Outputs
      BY <1>4 DEF Outputs
    <3>2. /\ peer'.at = peer.at + 1 /\ peer'.own = peer.own /\ peer'.buf[peer.at] = Clear("a", 16)
          /\ peer'.buf[2] = peer.buf[2] /\ peer'.buf[3] = peer.buf[3]
      BY <1>1, <2>10, <3>1, MainReceives, Zenon
    <3>3. HasSealed'
      BY <2>1, <2>10, <3>2, Zenon DEF At5, HasSealed
    <3>4. At6'
      BY <1>4, <2>10, <3>2, <3>3 DEF At6
    <3> QED BY <1>1, <1>4, <2>10, <3>4, MainGoesOn, Zenon DEF AeIInv, AuthenticTexts, Outputs, Fed, AeOp
  <2>11. \/ AeFails(op, "error")
         \/ /\ op' = Fed("Decrypt", peer.own, <<>>)
            /\ peer' = Received(Clear("a", 16)) /\ answer' = "ok"
            /\ UNCHANGED <<app, made, accepted>>
    <3>1. ~ (op.state # "ready" \/ Total(src) > Payload)
      BY <2>2, <2>5 DEF Payload, BufferSize, PayloadNumber
    <3>2. ~ (16 > room)
      BY <1>1
    <3> QED BY <2>2, <2>5, <2>6, <2>7, <2>8, <2>9, <3>1, <3>2, Zenon DEF AeUpdate, Fed
  <2> QED BY <1>2, <2>10, <2>11, Zenon
<1> QED BY <1>1, <1>3, <1>4

(* update leaves the parameters of the operation alone. *)
LEMMA AeUpdateKeeps ==
  ASSUME AeIInv, NEW src, NEW room, AeUpdate(src, room)
  PROVE  AeIInv'
<1>1. CASE peer.order = "main"
  BY <1>1, MainUpdateKeeps
<1>2. CASE peer.order = "any"
  <2>1. app = "alive"
    BY Zenon DEF AeUpdate, AeTurn
  <2>2. CASE AePanics
    BY <1>2, <2>2, AePanicsKeeps
  <2>3. CASE \E why \in {"short", "error"} : AeFails(op, why)
    BY <1>2, <2>1, <2>3, AeFailsKeeps, Zenon DEF AeIInv, AeShape, AsPrepared
  <2>4. CASE /\ op.state = "ready"
             /\ \E pending, text : op' = AeOp("ready", op.mode, op.par, pending, text)
             /\ \E text : peer' = Received(text)
             /\ UNCHANGED <<made, accepted>>
    <3>1. peer' = peer
      BY <1>2, <2>4, Zenon DEF Received
    <3>2. op' = AeOp(op'.state, op'.mode, op'.par, op'.pending, op'.text) /\ op'.par = op.par
      BY <2>4 DEF AeOp
    <3> QED BY <1>2, <2>4, <3>1, <3>2, AnyGoesOn, Zenon DEF AeIInv, AsPrepared, AuthenticTexts
  <2> QED BY <2>2, <2>3, <2>4, Zenon DEF AeUpdate
<1> QED BY <1>1, <1>2, Zenon DEF AeIInv, AeShape

(* main encrypts the rest of its first chunk with the second one. *)
LEMMA MainEncryptFinalKeeps ==
  ASSUME AeIInv, NEW src, NEW room, EncryptFinal(src, room), peer.order = "main"
  PROVE  AeIInv'
<1>1. peer.at = 3 /\ app = "alive" /\ src = MainText /\ room = 16
  BY MainTurn DEF EncryptFinal, AeSends, BufferSize, AeTurn
<1>2. At3 /\ peer.par = peer.own
  BY <1>1, MainPlace, Zenon
<1>3. /\ op = Fed("Encrypt", peer.own, Clear("a", 3))
      /\ op.state = "ready" /\ op.mode = "Encrypt" /\ op.par = peer.own
      /\ op.pending = Clear("a", 3) /\ op.text = Clear("a", 16)
  BY <1>2, Zenon DEF At3, Fed, AeOp
<1>4. src = Clear2 /\ op.pending \o src = Mixed
  <2>1. src = Clear2
    BY <1>1 DEF MainText
  <2> QED BY <1>3, <2>1, SecondChunk, Zenon
<1>5. Total(src) = Payload /\ Len(op.pending \o src) = 16
  <2>1. Len(src) = 13 /\ Len(op.pending) = 3 /\ Len(op.text) = 16
    BY <1>3, <1>4, SecondChunk, Zenon
  <2>2. Len(op.pending \o src) = 16
    BY <1>4, SecondChunk, Zenon
  <2> QED BY <2>1, <2>2 DEF Total, Payload, BufferSize, PayloadNumber
<1>6. Processed(Mixed) = Sealed2(peer.own)
  BY <1>3, Encrypts, Zenon
<1>7. \/ AeFails(op, "error")
      \/ /\ op' = [op EXCEPT !.state = "done"]
         /\ peer' = Received(Sealed2(peer.own)) /\ answer' = "ok"
         /\ made' = made \union {[par |-> peer.own, text |-> Clear("a", 16) \o Mixed]}
         /\ UNCHANGED <<app, accepted>>
  <2>1. ~ (op.state # "ready" \/ op.mode # "Encrypt" \/ Total(src) # Payload)
    BY <1>3, <1>5, Zenon
  <2>2. ~ (Len(op.pending \o src) > room)
    BY <1>1, <1>5
  <2>3. op.text \o (op.pending \o src) = Clear("a", 16) \o Mixed
    BY <1>3, <1>4, Zenon
  <2> QED BY <1>2, <1>4, <1>6, <2>1, <2>2, <2>3, Zenon DEF EncryptFinal
<1>8. CASE AeFails(op, "error")
  BY <1>1, <1>8, AeFailsKeeps, Zenon DEF AeIInv, AeShape, AsPrepared
<1>9. CASE /\ op' = [op EXCEPT !.state = "done"]
           /\ peer' = Received(Sealed2(peer.own)) /\ answer' = "ok"
           /\ made' = made \union {[par |-> peer.own, text |-> Clear("a", 16) \o Mixed]}
           /\ UNCHANGED <<app, accepted>>
  <2>1. At4'
    <3>1. /\ peer'.at = 4 /\ peer'.own = peer.own /\ peer'.buf[3] = Sealed2(peer.own)
          /\ \A i \in Outputs : i # 3 => peer'.buf[i] = peer.buf[i]
      BY <1>1, <1>9, MainReceives DEF Outputs
    <3>2. peer'.buf[2] = Sealed1(peer.own) /\ made = {}
      BY <1>2, <3>1 DEF At3, Outputs
    <3> QED BY <1>9, <3>1, <3>2 DEF At4, HasSealed
  <2>2. op' = AeOp(op'.state, op'.mode, op'.par, op'.pending, op'.text) /\ op'.state = "done"
    BY <1>3, <1>9 DEF Fed, AeOp
  <2>3. accepted' \subseteq made'
    BY <1>9 DEF AeIInv, AuthenticTexts
  <2> QED BY <1>1, <1>9, <2>1, <2>2, <2>3, MainGoesOn DEF Outputs
<1> QED BY <1>7, <1>8, <1>9

(* What was accepted before stays among what was made. *)
LEMMA EncryptFinalKeeps ==
  ASSUME AeIInv, NEW src, NEW room, EncryptFinal(src, room)
  PROVE  AeIInv'
<1>1. CASE peer.order = "main"
  BY <1>1, MainEncryptFinalKeeps
<1>2. CASE peer.order = "any"
  <2>1. app = "alive"
    BY DEF EncryptFinal, AeTurn
  <2>2. CASE AePanics
    BY <1>2, <2>2, AePanicsKeeps
  <2>3. CASE \E why \in {"short", "error"} : AeFails(op, why)
    BY <1>2, <2>1, <2>3, AeFailsKeeps, Zenon DEF AeIInv, AeShape, AsPrepared
  <2>4. CASE /\ op' = [op EXCEPT !.state = "done"]
             /\ \E text : peer' = Received(text)
             /\ made \subseteq made' /\ UNCHANGED accepted
    <3>1. peer' = peer
      BY <1>2, <2>4 DEF Received
    <3>2. op' = AeOp(op'.state, op'.mode, op'.par, op'.pending, op'.text) /\ op'.state = "done"
      BY <2>4 DEF AeIInv, AeShape, AeOp
    <3> QED BY <1>2, <2>4, <3>1, <3>2, AnyGoesOn DEF AeIInv, AuthenticTexts
  <2> QED BY <2>2, <2>3, <2>4, Zenon DEF EncryptFinal
<1> QED BY <1>1, <1>2, Zenon DEF AeIInv, AeShape

(* main decrypts its second block; the tag is the one it was given.        *)
LEMMA MainDecryptFinalKeeps ==
  ASSUME AeIInv, NEW src, NEW room, NEW tag \in made, DecryptFinal(src, room, tag),
         peer.order = "main"
  PROVE  AeIInv'
<1>1. peer.at = 6 /\ app = "alive" /\ src = MainText /\ room = 16
  BY MainTurn DEF DecryptFinal, AeSends, BufferSize, AeTurn
<1>2. At6 /\ peer.par = peer.own
  BY <1>1, MainPlace, Zenon
<1>3. /\ op = Fed("Decrypt", peer.own, <<>>)
      /\ op.state = "ready" /\ op.mode = "Decrypt" /\ op.par = peer.own
      /\ op.pending = <<>> /\ op.text = Clear("a", 16)
  BY <1>2, Zenon DEF At6, Fed, AeOp
<1>4. src = Sealed2(peer.own) /\ op.pending \o src = Sealed2(peer.own)
  <2>1. src = Sealed2(peer.own)
    BY <1>1, <1>2 DEF MainText, At6, HasSealed
  <2>2. <<>> \o Sealed2(peer.own) = Sealed2(peer.own)
    BY Blocks
  <2> QED BY <1>3, <2>1, <2>2, Zenon
<1>5. Total(src) = Payload /\ Len(op.pending \o src) = 16
  <2>1. Len(Sealed2(peer.own)) = 16 /\ Len(Clear("a", 16)) = 16
    BY Blocks
  <2>2. Len(src) = 16 /\ Len(op.pending \o src) = 16 /\ Len(op.text) = 16
    BY <1>3, <1>4, <2>1, Zenon
  <2>3. Len(op.pending) = 0
    BY <1>3, Zenon
  <2> QED BY <2>2, <2>3 DEF Total, Payload, BufferSize, PayloadNumber
<1>6. Processed(op.pending \o src) = Mixed
  <2>1. Processed(Sealed2(peer.own)) = Mixed
    BY <1>3, Decrypts, Zenon
  <2> QED BY <1>4, <2>1, Zenon
<1>7. tag = Tag(op.text \o Processed(op.pending \o src))
  <2>1. tag = [par |-> peer.own, text |-> Clear("a", 16) \o Mixed]
    BY <1>2, Zenon DEF At6, HasSealed
  <2> QED BY <1>3, <1>6, <2>1, Zenon DEF Tag
<1>8. \/ AeFails(op, "error")
      \/ /\ op' = [op EXCEPT !.state = "done"]
         /\ peer' = Received(Mixed) /\ answer' = "ok"
         /\ accepted' = accepted \union {tag}
         /\ UNCHANGED <<app, made>>
  <2>1. ~ (op.state # "ready" \/ op.mode # "Decrypt" \/ Total(src) # Payload)
    BY <1>3, <1>5, Zenon
  <2>2. ~ (Len(op.pending \o src) > room)
    BY <1>1, <1>5
  <2>3. tag = [par |-> peer.par, text |-> op.text \o Processed(op.pending \o src)]
    BY <1>2, <1>3, <1>7, Zenon DEF Tag
  <2> QED BY <1>6, <1>7, <2>1, <2>2, <2>3, Zenon DEF DecryptFinal
<1>9. CASE AeFails(op, "error")
  BY <1>1, <1>9, AeFailsKeeps, Zenon DEF AeIInv, AeShape, AsPrepared
<1>10. CASE /\ op' = [op EXCEPT !.state = "done"]
            /\ peer' = Received(Mixed) /\ answer' = "ok"
            /\ accepted' = accepted \union {tag}
            /\ UNCHANGED <<app, made>>
  <2>1. At7'
    <3>1. /\ peer'.at = 7 /\ peer'.own = peer.own /\ peer'.buf[6] = Mixed
          /\ \A i \in Outputs : i # 6 => peer'.buf[i] = peer.buf[i]
      BY <1>1, <1>10, MainReceives DEF Outputs
    <3> QED BY <1>2, <3>1 DEF At6, At7, Outputs
  <2>2. op' = AeOp(op'.state, op'.mode, op'.par, op'.pending, op'.text) /\ op'.state = "done"
    BY <1>3, <1>10 DEF Fed, AeOp
  <2>3. accepted' \subseteq made'
    BY <1>10 DEF AeIInv, AuthenticTexts
  <2> QED BY <1>1, <1>10, <2>1, <2>2, <2>3, MainGoesOn DEF Outputs
<1> QED BY <1>8, <1>9, <1>10

(* A tag is the one of the text only if the text was made with it, and the *)
(* parameters of the operation are those that the client prepared.         *)
LEMMA DecryptFinalKeeps ==
  ASSUME AeIInv, NEW src, NEW room, NEW tag \in made, DecryptFinal(src, room, tag)
  PROVE  AeIInv'
<1>1. CASE peer.order = "main"
  BY <1>1, MainDecryptFinalKeeps
<1>2. CASE peer.order = "any"
  <2>1. app = "alive"
    BY DEF DecryptFinal, AeTurn
  <2>2. CASE AePanics
    BY <1>2, <2>2, AePanicsKeeps
  <2>3. CASE \E why \in {"short", "error"} : AeFails(op, why)
    BY <1>2, <2>1, <2>3, AeFailsKeeps, Zenon DEF AeIInv, AeShape, AsPrepared
  <2>4. CASE op.state = "ready" /\ \E s \in {"ready", "done"} : AeFails([op EXCEPT !.state = s], "tag")
    <3>1. PICK s \in {"ready", "done"} : AeFails([op EXCEPT !.state = s], "tag")
      BY <2>4
    <3> DEFINE o == [op EXCEPT !.state = s]
    <3>2. o = AeOp(o.state, o.mode, o.par, o.pending, o.text) /\ o.par = op.par
      BY DEF AeIInv, AeShape, AeOp
    <3>3. op.par = peer.par
      BY <2>4 DEF AeIInv, AsPrepared
    <3>4. AeFails(o, "tag")
      BY <3>1
    <3> HIDE DEF o
    <3> QED BY <1>2, <2>1, <3>2, <3>3, <3>4, AeFailsKeeps, Zenon
  <2>5. CASE /\ op' = [op EXCEPT !.state = "done"]
             /\ \E text : peer' = Received(text)
             /\ accepted' = accepted \union {tag} /\ UNCHANGED made
    <3>1. peer' = peer
      BY <1>2, <2>5 DEF Received
    <3>2. op' = AeOp(op'.state, op'.mode, op'.par, op'.pending, op'.text) /\ op'.state = "done"
      BY <2>5 DEF AeIInv, AeShape, AeOp
    <3> QED BY <1>2, <2>5, <3>1, <3>2, AnyGoesOn DEF AeIInv, AuthenticTexts
  <2>6. ASSUME op.state = "ready", NEW text, tag = Tag(text)
        PROVE  [par |-> peer.par, text |-> text] = tag
    BY <2>6, Zenon DEF Tag, AeIInv, AsPrepared
  <2>7. \/ AePanics
        \/ \E why \in {"short", "error"} : AeFails(op, why)
        \/ op.state = "ready" /\ \E s \in {"ready", "done"} : AeFails([op EXCEPT !.state = s], "tag")
        \/ /\ op' = [op EXCEPT !.state = "done"]
           /\ \E text : peer' = Received(text)
           /\ accepted' = accepted \union {tag} /\ UNCHANGED made
    BY <2>6, Zenon DEF DecryptFinal
  <2> QED BY <2>2, <2>3, <2>4, <2>5, <2>7
<1> QED BY <1>1, <1>2, Zenon DEF AeIInv, AeShape

(* main holds what it decoded when its session is closed. *)
LEMMA AeCloseKeeps ==
  ASSUME AeIInv, AeClose
  PROVE  AeIInv'
<1>1. op' = NoOp /\ peer' = peer /\ made' = made /\ accepted' = accepted /\ answer' = answer
  BY DEF AeClose
<1>2. AeShape' /\ AsPrepared'
  BY <1>1, Zenon DEF AeIInv, AeShape, AsPrepared, NoOp, AeOp
<1>3. MainAt'
  <2> SUFFICES ASSUME peer.order = "main", peer.at = 7 PROVE MainAt'
    BY <1>1, Zenon DEF MainAt, AeClose
  <2>1. At7 /\ Zeros(7) /\ peer.par = peer.own
    BY MainPlace, Zenon
  <2> QED BY <1>1, <2>1 DEF MainAt, At7, Zeros
<1> QED BY <1>1, <1>2, <1>3 DEF AeIInv, AuthenticTexts, MainNeverRefused

(* Every step keeps the invariant. *)
LEMMA AeNextIInv == AeIInv /\ [AeNext]_aeVars => AeIInv'
<1> SUFFICES ASSUME AeIInv, [AeNext]_aeVars PROVE AeIInv'
  OBVIOUS
<1>1. ASSUME NEW mode \in {"Encrypt", "Decrypt"}, NEW p \in Params, AePrepare(mode, p)
      PROVE  AeIInv'
  BY <1>1, AePrepareKeeps
<1>2. ASSUME NEW src, NEW room, AeUpdate(src, room) PROVE AeIInv'
  BY <1>2, AeUpdateKeeps
<1>3. ASSUME NEW src, NEW room, EncryptFinal(src, room) PROVE AeIInv'
  BY <1>3, EncryptFinalKeeps
<1>4. ASSUME NEW src, NEW room, NEW tag \in made, DecryptFinal(src, room, tag) PROVE AeIInv'
  BY <1>4, DecryptFinalKeeps
<1>5. CASE AeClose
  BY <1>5, AeCloseKeeps
<1>6. CASE UNCHANGED aeVars
  BY <1>6, Zenon DEF aeVars, AeIInv, AeShape, AsPrepared, MainAt, At1, At2, At3, At4, At5, At6, At7,
              Zeros, HasSealed, AuthenticTexts, MainNeverRefused
<1> QED BY <1>1, <1>2, <1>3, <1>4, <1>5, <1>6 DEF AeNext

(* The invariant of the session of authentication-rs holds throughout. *)
THEOREM AeInductive == AeSpec => []AeIInv
BY AeInitIInv, AeNextIInv, PTL DEF AeSpec

(* What decrypt_final accepts was encrypted with the parameters and the    *)
(* text it reports, for every set of parameters and texts.                 *)
THEOREM AlwaysAuthentic == AeSpec => []AuthenticTexts
<1>1. AeIInv => AuthenticTexts
  BY DEF AeIInv
<1> QED BY <1>1, AeInductive, PTL

(* main is stopped by an error of a call of the TEE and by nothing else.   *)
THEOREM MainAlwaysServed == AeSpec => []MainNeverRefused
<1>1. AeIInv => MainNeverRefused
  BY DEF AeIInv
<1> QED BY <1>1, AeInductive, PTL

(* main ends with the clear text in its two buffers.                       *)
THEOREM MainAlwaysDecodes == AeSpec => []MainDecodes
<1>1. AeIInv => MainDecodes
  <2> SUFFICES ASSUME AeIInv, peer.order = "main", peer.at = 7
               PROVE  peer.buf[5] \o peer.buf[6] = Clear1 \o Clear2
    BY Zenon DEF MainDecodes
  <2>1. At7
    BY MainPlace
  <2> QED BY <2>1, BothChunks, Zenon DEF At7
<1> QED BY <1>1, AeInductive, PTL

-----------------------------------------------------------------------------
(* ClientPool: the last error tells all about a connection. *)

Errors == [kind : {"none", "BadParameters", "TargetDead"}, origin : {"none", "TA", "TEE"}]

PoolTyped ==
  /\ conn \in [Conns -> [at : {"closed", "idle", "used"}, ta : {"alive", "dead"}, last_err : Errors]]
  /\ task \in [Tasks -> [pc : {"get", "invoke", "done", "failed"}, conn : Conns \union {"none"}]]

(* Connection::valid tells the dead from the living.                       *)
ErrTells == \A c \in Conns : conn[c].ta = "alive" <=> Valid(conn[c])

(* A task that has a connection has it alone.                              *)
Alone ==
  /\ \A t \in Tasks : task[t].conn # "none" => conn[task[t].conn].at = "used"
  /\ \A t, u \in Tasks : t # u /\ task[t].conn = task[u].conn => task[t].conn = "none"
  /\ \A t \in Tasks : /\ task[t].pc = "get" => task[t].conn = "none"
                      /\ task[t].pc = "invoke" => task[t].conn # "none"

(* The inductive invariant.                                                *)
PoolIInv == PoolTyped /\ ErrTells /\ Alone /\ HandedOutAlive /\ NoneWasted

(* It holds initially.                                                     *)
LEMMA PoolInitIInv == PoolInit => PoolIInv
<1> SUFFICES ASSUME PoolInit PROVE PoolIInv
  OBVIOUS
<1>1. PoolTyped
  BY Zenon DEF PoolInit, PoolTyped, Closed, NoErr, Errors
<1>2. ErrTells
  BY Zenon DEF PoolInit, ErrTells, Closed, NoErr, Valid
<1> QED
  BY <1>1, <1>2, Zenon DEF PoolInit, PoolIInv, Alone, HandedOutAlive, NoneWasted

(* A closed or newly opened connection is alive and has no error.          *)
LEMMA FreshValid ==
  ASSUME NEW k, k \in {Closed, [Closed EXCEPT !.at = "idle"]}
  PROVE  /\ k \in [at : {"closed", "idle", "used"}, ta : {"alive", "dead"}, last_err : Errors]
         /\ k.ta = "alive" /\ Valid(k)
BY DEF Closed, NoErr, Errors, Valid

(* Every step keeps it.                                                    *)
LEMMA PoolNextIInv == ASSUME NoneAssumption PROVE PoolIInv /\ [PoolNext]_poolVars => PoolIInv'
<1> SUFFICES ASSUME PoolIInv, [PoolNext]_poolVars PROVE PoolIInv'
  OBVIOUS
<1>1. ASSUME NEW c \in Conns, Connect(c) PROVE PoolIInv'
  <2> DEFINE k == [Closed EXCEPT !.at = "idle"]
  <2>1. conn' = [conn EXCEPT ![c] = k] /\ conn[c].at = "closed" /\ UNCHANGED <<task, wasted>>
    BY <1>1 DEF Connect
  <2>2. k \in [at : {"closed", "idle", "used"}, ta : {"alive", "dead"}, last_err : Errors]
        /\ k.ta = "alive" /\ Valid(k)
    BY FreshValid
  <2> HIDE DEF k
  <2> QED
    BY <2>1, <2>2 DEF PoolIInv, PoolTyped, ErrTells, Alone, HandedOutAlive, NoneWasted
<1>2. ASSUME NEW t \in Tasks, NEW c \in Conns, Get(t, c) PROVE PoolIInv'
  <2>1. task[t].pc = "get" /\ conn[c].at = "idle" /\ task[t].conn = "none"
        /\ \A u \in Tasks : task[u].conn # c
    BY <1>2 DEF Get, PoolIInv, PoolTyped, Alone, NoneAssumption
  <2>2. CASE Valid(conn[c])
    <3>1. /\ conn' = [conn EXCEPT ![c].at = "used"] /\ wasted' = wasted
          /\ task' = [task EXCEPT ![t] = [pc |-> "invoke", conn |-> c]]
      BY <1>2, <2>2 DEF Get
    <3>2. conn'[c].at = "used" /\ conn'[c].ta = conn[c].ta /\ conn'[c].last_err = conn[c].last_err
      BY <3>1 DEF PoolIInv, PoolTyped
    <3>3. PoolTyped'
      BY <3>1 DEF PoolIInv, PoolTyped
    <3>4. ErrTells'
      BY <3>1, <3>2 DEF PoolIInv, PoolTyped, ErrTells, Valid
    <3>5. Alone'
      BY <2>1, <3>1, <3>2 DEF PoolIInv, PoolTyped, Alone
    <3>6. HandedOutAlive'
      BY <2>1, <2>2, <3>1, <3>2 DEF PoolIInv, PoolTyped, ErrTells, HandedOutAlive, Alone
    <3> QED
      BY <3>1, <3>3, <3>4, <3>5, <3>6 DEF PoolIInv, NoneWasted
  <2>3. CASE ~Valid(conn[c])
    <3>1. conn' = [conn EXCEPT ![c] = Closed] /\ task' = task /\ wasted' = wasted
      BY <1>2, <2>3 DEF Get, Close, PoolIInv, PoolTyped, ErrTells
    <3> QED
      BY <2>1, <3>1, FreshValid DEF PoolIInv, PoolTyped, ErrTells, Alone, HandedOutAlive, NoneWasted
  <2> QED
    BY <2>2, <2>3
<1>3. ASSUME NEW t \in Tasks, GetTimesOut(t) PROVE PoolIInv'
  <2>1. task' = [task EXCEPT ![t].pc = "failed"] /\ UNCHANGED <<conn, wasted>>
    BY <1>3 DEF GetTimesOut
  <2> QED
    BY <2>1 DEF PoolIInv, PoolTyped, ErrTells, Alone, HandedOutAlive, NoneWasted
<1>4. ASSUME NEW t \in Tasks, Invoke(t) PROVE PoolIInv'
  <2> DEFINE c == task[t].conn
  <2>1. task[t].pc = "invoke" /\ c \in Conns /\ conn[c].at = "used"
        /\ \A u \in Tasks : u # t => task[u].conn # c
    BY <1>4 DEF Invoke, PoolIInv, PoolTyped, Alone
  <2>2. PICK err \in Answers(c) :
          /\ conn' = [conn EXCEPT ![c].last_err = err,
                ![c].ta = IF err.kind = "TargetDead" /\ err.origin = "TEE" THEN "dead" ELSE @]
          /\ task' = [task EXCEPT ![t].pc = IF err = NoErr THEN "done" ELSE "failed"]
    BY <1>4, Zenon DEF Invoke
  <2>3. err \in Errors /\ (err.kind = "TargetDead" => err.origin \in {"TA", "TEE"})
    BY <2>2 DEF Answers, NoErr, Errors
  <2>4. wasted' = wasted /\ conn[c].ta = "alive"
    BY <1>4, <2>1, Zenon DEF Invoke, PoolIInv, HandedOutAlive
  <2> HIDE DEF c
  <2>5. /\ conn'[c].at = "used" /\ conn'[c].last_err = err
        /\ conn'[c].ta = IF err.kind = "TargetDead" /\ err.origin = "TEE" THEN "dead" ELSE "alive"
        /\ \A d \in Conns : d # c => conn'[d] = conn[d]
    BY <2>1, <2>2, <2>4 DEF PoolIInv, PoolTyped
  <2>6. PoolTyped'
    <3> DEFINE left == IF err.kind = "TargetDead" /\ err.origin = "TEE" THEN "dead" ELSE conn[c].ta
               k == [conn[c] EXCEPT !.last_err = err, !.ta = left]
               r == [task[t] EXCEPT !.pc = IF err = NoErr THEN "done" ELSE "failed"]
    <3>0. conn[c] \in [at : {"closed", "idle", "used"}, ta : {"alive", "dead"}, last_err : Errors]
      BY <2>1, Zenon DEF PoolIInv, PoolTyped
    <3>a. left \in {"alive", "dead"}
      BY <2>4
    <3>1. k \in [at : {"closed", "idle", "used"}, ta : {"alive", "dead"}, last_err : Errors]
      <4> HIDE DEF left
      <4> QED BY <2>3, <3>0, <3>a, Zenon
    <3>2. r \in [pc : {"get", "invoke", "done", "failed"}, conn : Conns \union {"none"}]
      BY DEF PoolIInv, PoolTyped
    <3>3. conn' = [conn EXCEPT ![c] = k] /\ task' = [task EXCEPT ![t] = r]
      BY <2>1, <2>2, Zenon DEF PoolIInv, PoolTyped
    <3> HIDE DEF k, r
    <3> QED
      BY <2>1, <3>1, <3>2, <3>3, Zenon DEF PoolIInv, PoolTyped
  <2>7. ErrTells'
    BY <2>3, <2>5 DEF PoolIInv, ErrTells, Valid
  <2>8. /\ task'[t].pc \in {"done", "failed"} /\ task'[t].conn = c
        /\ \A u \in Tasks : u # t => task'[u] = task[u]
    BY <2>2 DEF PoolIInv, PoolTyped, c
  <2>9. Alone'
    <3>1. \A d \in Conns : conn'[d].at = conn[d].at
      BY <2>1, <2>5, Zenon
    <3>2. \A u \in Tasks : /\ task'[u].conn = task[u].conn
                           /\ task'[u].pc \in {task[u].pc, "done", "failed"}
      BY <2>8, Zenon DEF c
    <3> QED
      BY <3>1, <3>2 DEF PoolIInv, PoolTyped, Alone
  <2>10. HandedOutAlive'
    <3> SUFFICES ASSUME NEW u \in Tasks, task'[u].pc = "invoke" PROVE conn'[task'[u].conn].ta = "alive"
      BY Zenon DEF HandedOutAlive
    <3>1. u # t
      BY <2>8
    <3>2. task'[u] = task[u] /\ task[u].pc = "invoke" /\ task[u].conn # c
      BY <2>1, <2>8, <3>1, Zenon
    <3>3. task[u].conn # "none" /\ conn[task[u].conn].ta = "alive"
      BY <3>2, Zenon DEF PoolIInv, Alone, HandedOutAlive
    <3>4. task[u].conn \in Conns
      BY <3>3 DEF PoolIInv, PoolTyped
    <3> QED BY <2>5, <3>2, <3>3, <3>4, Zenon
  <2> QED
    BY <2>4, <2>6, <2>7, <2>9, <2>10, Zenon DEF PoolIInv, NoneWasted
<1>5. ASSUME NEW t \in Tasks, PutBack(t) PROVE PoolIInv'
  <2> DEFINE c == task[t].conn
  <2>1. /\ task[t].pc \in {"done", "failed"} /\ c \in Conns
        /\ task' = [task EXCEPT ![t].conn = "none"]
        /\ \A u \in Tasks : u # t => task[u].conn # c
    BY <1>5 DEF PutBack, PoolIInv, PoolTyped, Alone
  <2>2. /\ \/ conn' = [conn EXCEPT ![c].at = "idle"]
           \/ conn' = [conn EXCEPT ![c] = Closed]
        /\ wasted' = wasted
    BY <1>5, <2>1 DEF PutBack, Close, PoolIInv, ErrTells, PoolTyped
  <2> HIDE DEF c
  <2>3. \A d \in Conns : d # c => conn'[d] = conn[d]
    BY <2>2 DEF PoolIInv, PoolTyped
  <2>4. PoolTyped' /\ ErrTells'
    <3>1. CASE conn' = [conn EXCEPT ![c].at = "idle"]
      BY <2>1, <3>1 DEF PoolIInv, PoolTyped, ErrTells, Valid
    <3>2. CASE conn' = [conn EXCEPT ![c] = Closed]
      BY <2>1, <3>2, FreshValid DEF PoolIInv, PoolTyped, ErrTells
    <3> QED
      BY <2>2, <3>1, <3>2
  <2>5. /\ task'[t].pc = task[t].pc /\ task'[t].conn = "none"
        /\ \A u \in Tasks : u # t => task'[u] = task[u]
    BY <2>1 DEF PoolIInv, PoolTyped
  <2>6. Alone'
    BY <2>1, <2>3, <2>5 DEF PoolIInv, PoolTyped, Alone
  <2>7. HandedOutAlive'
    BY <2>1, <2>3, <2>5 DEF PoolIInv, PoolTyped, Alone, HandedOutAlive
  <2> QED
    BY <2>2, <2>4, <2>6, <2>7 DEF PoolIInv, NoneWasted
<1>6. CASE UNCHANGED poolVars
  BY <1>6 DEF poolVars, PoolIInv, PoolTyped, ErrTells, Alone, HandedOutAlive, NoneWasted
<1> QED
  BY <1>1, <1>2, <1>3, <1>4, <1>5, <1>6, Zenon DEF PoolNext

(* So it always holds.                                                     *)
THEOREM PoolIInvHolds == ASSUME NoneAssumption PROVE PoolSpec => []PoolIInv
BY PoolInitIInv, PoolNextIInv, PTL DEF PoolSpec

(* No task is handed a connection whose TA has died.                       *)
THEOREM AlwaysHandedOutAlive == ASSUME NoneAssumption PROVE PoolSpec => []HandedOutAlive
BY PoolIInvHolds, PTL DEF PoolIInv

(* No connection whose TA is alive is given up as broken.                  *)
THEOREM NeverWasted == ASSUME NoneAssumption PROVE PoolSpec => []NoneWasted
BY PoolIInvHolds, PTL DEF PoolIInv

-----------------------------------------------------------------------------
(* EthWallet: wallets stay apart and removed ones stay gone. *)

Active(h) == host[h].pc # "idle"

HostRecord == [pc : {"idle", "open", "work", "list", "reply"}, cmd : Commands \union {"none"}, id : Nat,
               entropy : Nat, keys : SUBSET WalletIds, gone : SUBSET WalletIds]

WalletTyped ==
  /\ \A h \in Hosts : host[h] \in HostRecord
  /\ list \subseteq WalletIds
  /\ objects = [id \in WalletIds |-> objects[id]]
  /\ host = [h \in Hosts |-> host[h]]
  /\ used \in Nat
  /\ known \subseteq WalletIds /\ known \subseteq 1 .. used /\ removed \subseteq known
  /\ \A h \in Hosts : Active(h) =>
       /\ host[h].pc \in {"open", "work", "list", "reply"}
       /\ host[h].cmd \in Commands /\ host[h].id \in WalletIds /\ host[h].id \in 1 .. used

(* A wallet that is being created is known to nobody and to no other host; *)
(* every other command is about a known one.                               *)
Fresh ==
  \A h \in Hosts : Active(h) =>
    IF host[h].cmd = "create"
    THEN /\ host[h].id \notin known /\ host[h].entropy = Entropy(host[h].id)
         /\ \A g \in Hosts : g # h /\ Active(g) => host[g].id # host[h].id
    ELSE host[h].id \in known

(* What is stored is the entropy of the wallet, and nothing once it has    *)
(* been removed or its removal has come past the object.                   *)
Stored ==
  /\ \A id \in WalletIds : objects[id] \in {0, Entropy(id)}
  /\ \A id \in removed \intersect WalletIds : objects[id] = 0
  /\ \A h \in Hosts : Active(h) /\ host[h].cmd = "remove" /\ host[h].pc \in {"list", "reply"}
       => objects[host[h].id] = 0

(* What a command has loaded.                                              *)
Loaded ==
  \A h \in Hosts : Active(h) =>
    /\ host[h].gone \subseteq removed
    /\ host[h].cmd = "sign" /\ host[h].pc = "reply" =>
         host[h].entropy = Entropy(host[h].id) /\ host[h].id \notin host[h].gone
    /\ host[h].cmd = "sign" => host[h].pc # "list"

(* The inductive invariant.                                                *)
WalletIInv ==
  /\ WalletTyped /\ Fresh /\ Stored /\ Loaded
  /\ SignedByOwn /\ \A s \in signed : s.id \notin s.gone

(* It holds initially.                                                     *)
LEMMA WalletInitIInv == ASSUME WalletsAssumption PROVE WalletInit => WalletIInv
<1> SUFFICES ASSUME WalletsAssumption, WalletInit PROVE WalletIInv OBVIOUS
<1>1. \A h \in Hosts : host[h] = IdleHost /\ ~Active(h)
  BY Zenon DEF WalletInit, Active, IdleHost
<1>2. WalletTyped
  BY <1>1, Zenon DEF WalletsAssumption, WalletInit, WalletTyped, HostRecord, IdleHost, WalletIds
<1>3. Stored
  BY <1>1, Zenon DEF WalletInit, Stored
<1>4. Fresh /\ Loaded
  BY <1>1, Zenon DEF Fresh, Loaded
<1>5. SignedByOwn /\ \A s \in signed : s.id \notin s.gone
  BY Zenon DEF WalletInit, SignedByOwn
<1> QED BY <1>2, <1>3, <1>4, <1>5 DEF WalletIInv

(* A step that only moves one host on, and leaves the rest alone.          *)
LEMMA OthersKept ==
  ASSUME WalletIInv, NEW h \in Hosts, NEW r, HostGoes(h, r)
  PROVE  \A g \in Hosts : host'[g] = IF g = h THEN r ELSE host[g]
BY Zenon DEF HostGoes, WalletIInv, WalletTyped

(* r is the record of host h at another step of the same command.          *)
Moved(h, r, p) ==
  /\ r \in HostRecord /\ r.pc = p
  /\ r.cmd = host[h].cmd /\ r.id = host[h].id /\ r.gone = host[h].gone

(* Of a host that goes on with its command, everything but what it stores, *)
(* loads or answers is kept.                                               *)
LEMMA HostGoesOn ==
  ASSUME WalletIInv, NEW h \in Hosts, Active(h), NEW r, NEW p \in {"work", "list", "reply"},
         Moved(h, r, p), HostGoes(h, r), list' \subseteq WalletIds, objects' = [id \in WalletIds |-> objects'[id]],
         UNCHANGED <<used, known, removed, signed>>,
         host[h].cmd = "create" => r.entropy = host[h].entropy
  PROVE  WalletTyped' /\ Fresh'
<1>1. \A g \in Hosts : host'[g] = IF g = h THEN r ELSE host[g]
  BY OthersKept, Zenon
<1>2. WalletTyped'
  BY <1>1, Zenon DEF WalletIInv, WalletTyped, Moved, Active, HostGoes
<1>3. Fresh'
  BY <1>1 DEF WalletIInv, Fresh, Moved, Active
<1> QED
  BY <1>2, <1>3, Zenon

(* Every step keeps it.                                                    *)
LEMMA WalletNextIInv == ASSUME WalletsAssumption PROVE WalletIInv /\ [WalletNext]_walletVars => WalletIInv'
<1> SUFFICES ASSUME WalletIInv, [WalletNext]_walletVars PROVE WalletIInv'
  OBVIOUS
<1> USE DEF WalletsAssumption
<1>1. ASSUME NEW h \in Hosts, NEW cmd \in Commands, NEW id \in WalletIds, Start(h, cmd, id) PROVE WalletIInv'
  <2> DEFINE r == [pc |-> "open", cmd |-> cmd, id |-> id, keys |-> {}, gone |-> removed,
                   entropy |-> IF cmd = "create" THEN Entropy(id) ELSE 0]
  <2>0. /\ r.pc = "open" /\ r.cmd = cmd /\ r.id = id /\ r.gone = removed
        /\ r.entropy = IF cmd = "create" THEN Entropy(id) ELSE 0
    BY Zenon
  <2>1. HostGoes(h, r) /\ UNCHANGED <<objects, known, removed, signed>> /\ ~Active(h)
    BY <1>1, Zenon DEF Start, Active
  <2>2. \A g \in Hosts : host'[g] = IF g = h THEN r ELSE host[g]
    BY <2>1, OthersKept
  <2>3. IF cmd = "create" THEN id = used + 1 /\ used' = id ELSE id \in known /\ used' = used
    BY <1>1, Zenon DEF Start
  <2> HIDE DEF r
  <2>4. id \in 1 .. used' /\ used' \in Nat /\ \A x \in 1 .. used : x \in 1 .. used'
    BY <2>3 DEF WalletIInv, WalletTyped
  <2>5. WalletTyped'
    <3>1. removed \subseteq WalletIds /\ id \in Nat /\ Entropy(id) \in Nat /\ list' = list
      BY <1>1 DEF Start, WalletIInv, WalletTyped, WalletIds, Entropy
    <3>2. r \in HostRecord
      BY <3>1, Zenon DEF r, HostRecord
    <3> QED
      BY <2>0, <2>1, <2>2, <2>4, <3>1, <3>2, Zenon DEF WalletIInv, WalletTyped, Active, HostGoes
  <2>6. Fresh'
    BY <2>0, <2>1, <2>2, <2>3 DEF WalletIInv, WalletTyped, Fresh, Active
  <2>7. Stored'
    BY <2>0, <2>1, <2>2, Zenon DEF WalletIInv, Stored, Active
  <2>8. Loaded'
    BY <2>0, <2>1, <2>2 DEF WalletIInv, Loaded, Active
  <2> QED
    BY <2>1, <2>5, <2>6, <2>7, <2>8, Zenon DEF WalletIInv, SignedByOwn
<1>2. ASSUME NEW h \in Hosts, Fail(h) PROVE WalletIInv'
  <2>1. \A g \in Hosts : host'[g] = IF g = h THEN IdleHost ELSE host[g]
    BY <1>2, OthersKept, Zenon DEF Fail
  <2>2. IdleHost.pc = "idle" /\ UNCHANGED <<objects, used, known, removed, signed>>
    BY <1>2, Zenon DEF IdleHost, Fail
  <2>3. WalletTyped'
    <3>1. IdleHost \in HostRecord
      BY Zenon DEF IdleHost, HostRecord
    <3> QED
      BY <1>2, <2>1, <2>2, <3>1, Zenon DEF WalletIInv, WalletTyped, Active, Fail, HostGoes
  <2>4. Fresh'
    BY <2>1, <2>2 DEF WalletIInv, Fresh, Active
  <2>5. Stored'
    BY <2>1, <2>2, Zenon DEF WalletIInv, Stored, Active
  <2>6. Loaded'
    BY <2>1, <2>2, Zenon DEF WalletIInv, Loaded, Active
  <2> QED
    BY <2>2, <2>3, <2>4, <2>5, <2>6, Zenon DEF WalletIInv, SignedByOwn
<1>3. ASSUME NEW h \in Hosts, Open(h) PROVE WalletIInv'
  <2> DEFINE r == [host[h] EXCEPT !.pc = "work", !.keys = list]
  <2>1. Active(h) /\ HostGoes(h, r) /\ UNCHANGED <<objects, list, used, known, removed, signed>>
    BY <1>3 DEF Open, Active
  <2>2. Moved(h, r, "work") /\ r.entropy = host[h].entropy
    BY Zenon DEF Moved, WalletIInv, WalletTyped, HostRecord
  <2> HIDE DEF r
  <2>3. \A g \in Hosts : host'[g] = IF g = h THEN r ELSE host[g]
    BY <2>1, OthersKept, Zenon
  <2>4. WalletTyped' /\ Fresh'
    BY <2>1, <2>2, HostGoesOn, Zenon DEF WalletIInv, WalletTyped
  <2>5. Stored' /\ Loaded'
    BY <2>1, <2>2, <2>3 DEF WalletIInv, Stored, Loaded, Moved, Active
  <2> QED
    BY <2>1, <2>4, <2>5, Zenon DEF WalletIInv, SignedByOwn
<1>4. ASSUME NEW h \in Hosts, PutWallet(h) PROVE WalletIInv'
  <2> DEFINE r == [host[h] EXCEPT !.pc = "list", !.keys = @ \union {host[h].id}]
  <2>1. /\ Active(h) /\ HostGoes(h, r) /\ UNCHANGED <<list, used, known, removed, signed>>
        /\ host[h].cmd = "create" /\ objects' = [objects EXCEPT ![host[h].id] = host[h].entropy]
    BY <1>4 DEF PutWallet, Active
  <2>0. host[h] \in HostRecord /\ host[h].id \in WalletIds
    BY <2>1, Zenon DEF WalletIInv, WalletTyped
  <2>2. Moved(h, r, "list") /\ r.entropy = host[h].entropy
    BY <2>0, Zenon DEF Moved, HostRecord
  <2> HIDE DEF r
  <2>3. \A g \in Hosts : host'[g] = IF g = h THEN r ELSE host[g]
    BY <2>1, OthersKept, Zenon
  <2>4. WalletTyped' /\ Fresh'
    BY <2>1, <2>2, HostGoesOn, Zenon DEF WalletIInv, WalletTyped
  <2>5. host[h].id \notin removed /\ host[h].entropy = Entropy(host[h].id)
    BY <2>1, Zenon DEF WalletIInv, WalletTyped, Fresh
  <2>6. \A g \in Hosts : g # h /\ Active(g) => host[g].id # host[h].id
    BY <2>1, Zenon DEF WalletIInv, Fresh
  <2>7. Stored'
    BY <2>1, <2>2, <2>3, <2>5, <2>6 DEF WalletIInv, WalletTyped, Stored, Moved, Active
  <2>8. Loaded'
    <3>1. Loaded /\ removed' = removed /\ r.cmd # "sign" /\ r.gone = host[h].gone
      BY <2>1, <2>2, Zenon DEF WalletIInv, Moved
    <3> QED BY <2>1, <2>3, <3>1, Zenon DEF Loaded, Active
  <2> QED
    BY <2>1, <2>4, <2>7, <2>8, Zenon DEF WalletIInv, SignedByOwn
<1>5. ASSUME NEW h \in Hosts, DeleteWallet(h) PROVE WalletIInv'
  <2> DEFINE r == [host[h] EXCEPT !.pc = "list", !.keys = @ \ {host[h].id}]
  <2>1. /\ Active(h) /\ HostGoes(h, r) /\ UNCHANGED <<list, used, known, removed, signed>>
        /\ host[h].cmd = "remove" /\ objects' = [objects EXCEPT ![host[h].id] = 0]
    BY <1>5 DEF DeleteWallet, Active
  <2>0. host[h] \in HostRecord
    BY Zenon DEF WalletIInv, WalletTyped
  <2>2. Moved(h, r, "list")
    BY <2>0, Zenon DEF Moved, HostRecord
  <2> HIDE DEF r
  <2>3. \A g \in Hosts : host'[g] = IF g = h THEN r ELSE host[g]
    BY <2>1, OthersKept, Zenon
  <2>4. WalletTyped' /\ Fresh'
    BY <2>1, <2>2, HostGoesOn, Zenon DEF WalletIInv, WalletTyped
  <2>5. \A id \in WalletIds : objects'[id] = IF id = host[h].id THEN 0 ELSE objects[id]
    BY <2>1, Zenon DEF WalletIInv, WalletTyped
  <2>6. Stored'
    BY <2>1, <2>2, <2>3, <2>5 DEF WalletIInv, WalletTyped, Stored, Moved, Active
  <2>7. Loaded'
    BY <2>1, <2>2, <2>3, Zenon DEF WalletIInv, Loaded, Moved, Active
  <2> QED
    BY <2>1, <2>4, <2>6, <2>7, Zenon DEF WalletIInv, SignedByOwn
<1>6. ASSUME NEW h \in Hosts, StoreKeyList(h) PROVE WalletIInv'
  <2> DEFINE r == [host[h] EXCEPT !.pc = "reply"]
  <2>1. /\ Active(h) /\ HostGoes(h, r) /\ UNCHANGED <<objects, used, known, removed, signed>>
        /\ host[h].pc = "list" /\ list' = host[h].keys
    BY <1>6 DEF StoreKeyList, Active
  <2>2. Moved(h, r, "reply") /\ r.entropy = host[h].entropy /\ list' \subseteq WalletIds
    BY <2>1 DEF Moved, WalletIInv, WalletTyped, HostRecord
  <2> HIDE DEF r
  <2>3. \A g \in Hosts : host'[g] = IF g = h THEN r ELSE host[g]
    BY <2>1, OthersKept, Zenon
  <2>4. WalletTyped' /\ Fresh'
    BY <2>1, <2>2, HostGoesOn, Zenon DEF WalletIInv, WalletTyped
  <2>5. Stored'
    <3>1. Stored /\ r.cmd = host[h].cmd /\ r.id = host[h].id
      BY <2>2, Zenon DEF WalletIInv, Moved
    <3>2. \A g \in Hosts : Active(g)' /\ host'[g].cmd = "remove" /\ host'[g].pc \in {"list", "reply"}
            => objects[host'[g].id] = 0
      BY <2>1, <2>3, <3>1, Zenon DEF Stored, Active
    <3> QED
      BY <2>1, <3>1, <3>2, Zenon DEF Stored
  <2>6. Loaded'
    <3>1. Loaded /\ r.cmd = host[h].cmd /\ r.gone = host[h].gone
      BY <2>2, Zenon DEF WalletIInv, Moved
    <3>2. r.cmd # "sign"
      BY <2>1, <3>1, Zenon DEF Loaded
    <3> QED
      BY <2>1, <2>3, <3>1, <3>2, Zenon DEF Loaded, Active
  <2> QED
    BY <2>1, <2>4, <2>5, <2>6, Zenon DEF WalletIInv, SignedByOwn
<1>7. ASSUME NEW h \in Hosts, UseWallet(h) PROVE WalletIInv'
  <2> DEFINE r == [host[h] EXCEPT !.pc = "reply", !.entropy = MadeFrom(objects[host[h].id])]
  <2>1. /\ Active(h) /\ HostGoes(h, r) /\ UNCHANGED <<objects, list, used, known, removed, signed>>
        /\ host[h].cmd = "sign" /\ objects[host[h].id] # 0
    BY <1>7 DEF UseWallet, Active
  <2>2. host[h].id \in WalletIds /\ objects[host[h].id] = Entropy(host[h].id) /\ host[h].id \notin host[h].gone
    BY <2>1 DEF WalletIInv, WalletTyped, Stored, Loaded
  <2>3. Moved(h, r, "reply") /\ r.entropy = Entropy(host[h].id)
    <3>1. Entropy(host[h].id) \in Nat /\ MadeFrom(objects[host[h].id]) = Entropy(host[h].id)
      BY <2>2 DEF MadeFrom, Entropy, WalletIds
    <3>2. host[h] \in HostRecord
      BY Zenon DEF WalletIInv, WalletTyped
    <3> QED
      BY <3>1, <3>2, Zenon DEF Moved, HostRecord
  <2> HIDE DEF r
  <2>4. \A g \in Hosts : host'[g] = IF g = h THEN r ELSE host[g]
    BY <2>1, OthersKept
  <2>5. WalletTyped' /\ Fresh'
    BY <2>1, <2>3, HostGoesOn, Zenon DEF WalletIInv, WalletTyped
  <2>6. Stored'
    BY <2>1, <2>3, <2>4, Zenon DEF WalletIInv, Stored, Moved, Active
  <2>7. Loaded'
    <3>1. /\ Loaded /\ r.id = host[h].id /\ r.gone = host[h].gone
          /\ r.pc = "reply" /\ r.entropy = Entropy(r.id) /\ r.id \notin r.gone
      BY <2>2, <2>3, Zenon DEF WalletIInv, Moved
    <3>2. r.gone \subseteq removed /\ r.pc # "list"
      BY <2>1, <3>1, Zenon DEF Loaded
    <3> QED
      BY <2>1, <2>4, <3>1, <3>2, Zenon DEF Loaded, Active
  <2> QED
    BY <2>1, <2>5, <2>6, <2>7, Zenon DEF WalletIInv, SignedByOwn
<1>8. ASSUME NEW h \in Hosts, Reply(h) PROVE WalletIInv'
  <2>1. /\ Active(h) /\ host[h].pc = "reply" /\ HostGoes(h, IdleHost) /\ UNCHANGED <<objects, list, used>>
        /\ known' = IF host[h].cmd = "create" THEN known \union {host[h].id} ELSE known
        /\ removed' = IF host[h].cmd = "remove" THEN removed \union {host[h].id} ELSE removed
    BY <1>8, Zenon DEF Reply, Active
  <2>2. \A g \in Hosts : host'[g] = IF g = h THEN IdleHost ELSE host[g]
    BY <2>1, OthersKept, Zenon
  <2>3. IdleHost.pc = "idle" /\ IdleHost \in HostRecord
    BY Zenon DEF IdleHost, HostRecord
  <2>4. WalletTyped'
    <3>1. host[h].id \in 1 .. used /\ (host[h].cmd # "create" => host[h].id \in known)
      BY <2>1, Zenon DEF WalletIInv, WalletTyped, Fresh
    <3>2. known' \subseteq WalletIds /\ known' \subseteq 1 .. used' /\ removed' \subseteq known'
      BY <2>1, <3>1, Zenon DEF WalletIInv, WalletTyped
    <3> QED
      BY <2>1, <2>2, <2>3, <3>2, Zenon DEF WalletIInv, WalletTyped, Active, HostGoes
  <2>5. Fresh'
    BY <2>1, <2>2, <2>3 DEF WalletIInv, Fresh, Active
  <2>6. Stored'
    BY <2>1, <2>2, <2>3, Zenon DEF WalletIInv, Stored, Active
  <2>7. Loaded'
    BY <2>1, <2>2, <2>3, Zenon DEF WalletIInv, Loaded, Active
  <2>8. \A s \in signed' : s.by = Entropy(s.id) /\ s.id \notin s.gone
    <3> DEFINE s0 == [id |-> host[h].id, by |-> host[h].entropy, gone |-> host[h].gone]
    <3>1. s0.id = host[h].id /\ s0.by = host[h].entropy /\ s0.gone = host[h].gone
      BY Zenon
    <3>2. signed' = IF host[h].cmd = "sign" THEN signed \union {s0} ELSE signed
      BY <1>8, Zenon DEF Reply
    <3>3. host[h].cmd = "sign" =>
            host[h].entropy = Entropy(host[h].id) /\ host[h].id \notin host[h].gone
      BY <2>1, Zenon DEF WalletIInv, Loaded
    <3>4. \A s \in signed : s.by = Entropy(s.id) /\ s.id \notin s.gone
      BY Zenon DEF WalletIInv, SignedByOwn
    <3> HIDE DEF s0
    <3> QED
      BY <3>1, <3>2, <3>3, <3>4, Zenon
  <2> QED
    BY <2>4, <2>5, <2>6, <2>7, <2>8, Zenon DEF WalletIInv, SignedByOwn
<1>9. CASE UNCHANGED walletVars
  BY <1>9, Zenon DEF walletVars, WalletIInv, WalletTyped, Fresh, Stored, Loaded, Active, SignedByOwn
<1> QED
  BY <1>1, <1>2, <1>3, <1>4, <1>5, <1>6, <1>7, <1>8, <1>9, Zenon DEF WalletNext

(* So it always holds.                                                     *)
THEOREM WalletIInvHolds == ASSUME WalletsAssumption PROVE WalletSpec => []WalletIInv
BY WalletInitIInv, WalletNextIInv, PTL DEF WalletSpec

(* Signatures come from the wallet that was asked for.                     *)
THEOREM AlwaysSignedByOwn == ASSUME WalletsAssumption PROVE WalletSpec => []SignedByOwn
BY WalletIInvHolds, PTL DEF WalletIInv

(* A removed wallet is erased and never used again, however many instances *)
(* work on the storage at a time.                                          *)
THEOREM RemovedStaysGone == ASSUME WalletsAssumption PROVE WalletSpec => []RemovedIsGone
<1>1. WalletIInv => RemovedIsGone
  BY Zenon DEF WalletIInv, WalletTyped, RemovedIsGone, Stored
<1> QED
  BY <1>1, WalletIInvHolds, PTL

-----------------------------------------------------------------------------
(* SecureStorage: the access flags keep instances apart. *)

Writing == {"write", "undo"}
Reading == {"size", "read"}

StorageTyped ==
  /\ store \in [Ids -> None .. MaxSize]
  /\ inst = [i \in Instances |-> inst[i]]
  /\ acked \in [Ids -> {None} \union Sizes]
  /\ torn \subseteq Ids
  /\ \A i \in Instances :
       inst[i].pc = "idle" \/ (inst[i].pc \in Writing \union Reading /\ inst[i].id \in Ids)

(* While one instance writes an object nobody else has it open.            *)
Exclusive ==
  \A i, j \in Instances :
    i # j /\ inst[i].pc \in Writing /\ inst[i].id = inst[j].id => inst[j].pc = "idle"

(* What an instance knows about the object it has open.                    *)
Local ==
  \A i \in Instances :
    /\ inst[i].pc \in Writing => store[inst[i].id] = 0
    /\ inst[i].pc = "write" => inst[i].size \in Sizes
    /\ inst[i].pc = "read" => inst[i].size = store[inst[i].id]

NobodyWrites(id) == \A i \in Instances : inst[i].pc \in Writing => inst[i].id # id

(* An object nobody writes holds what the last successful command left, or *)
(* is empty and torn.                                                      *)
Settled ==
  \A id \in Ids : NobodyWrites(id) =>
    store[id] = acked[id] \/ (id \in torn /\ store[id] = 0)

(* The inductive invariant.                                                *)
StorageIInv == StorageTyped /\ Exclusive /\ Local /\ Settled /\ ReadIsLastWrite /\ SizeStable

(* It holds initially.                                                     *)
LEMMA StorageInitIInv == ASSUME SizeAssumption PROVE StorageInit => StorageIInv
<1> SUFFICES ASSUME StorageInit PROVE StorageIInv
  OBVIOUS
<1> USE DEF SizeAssumption
<1>1. StorageTyped
  BY DEF StorageInit, StorageTyped, IdleInstance, None, Sizes
<1>2. Exclusive /\ Local
  BY Zenon DEF StorageInit, Exclusive, Local, IdleInstance, Writing
<1>3. Settled
  BY Zenon DEF StorageInit, Settled
<1> QED
  BY <1>1, <1>2, <1>3, Zenon DEF StorageInit, StorageIInv, ReadIsLastWrite, SizeStable, NoRead

(* A reader finds an object that nobody writes.                            *)
LEMMA ReaderAlone ==
  ASSUME StorageIInv, NEW i \in Instances, inst[i].pc \in Reading
  PROVE  NobodyWrites(inst[i].id)
BY Zenon DEF StorageIInv, StorageTyped, Exclusive, NobodyWrites, Writing, Reading

(* An instance that gives its object up disturbs no other.                 *)
LEMMA GivenUp ==
  ASSUME StorageIInv, NEW i \in Instances, inst' = [inst EXCEPT ![i] = IdleInstance]
  PROVE  /\ inst' = [j \in Instances |-> inst'[j]]
         /\ \A j \in Instances :
              inst'[j].pc = "idle" \/ (inst'[j].pc \in Writing \union Reading /\ inst'[j].id \in Ids)
         /\ Exclusive'
<1>1. \A j \in Instances : inst'[j] = IF j = i THEN IdleInstance ELSE inst[j]
  BY Zenon DEF StorageIInv, StorageTyped
<1>2. IdleInstance.pc = "idle" /\ "idle" \notin Writing
  BY Zenon DEF IdleInstance, Writing
<1>3. Exclusive'
  BY <1>1, <1>2 DEF StorageIInv, Exclusive
<1> QED
  BY <1>1, <1>2, <1>3, Zenon DEF StorageIInv, StorageTyped

(* When a writer gives its object up, the other objects are as before.     *)
LEMMA OthersSettled ==
  ASSUME StorageIInv, NEW i \in Instances, inst' = [inst EXCEPT ![i] = IdleInstance],
         NEW id \in Ids, id # inst[i].id, NobodyWrites(id)'
  PROVE  store[id] = acked[id] \/ (id \in torn /\ store[id] = 0)
<1>1. \A j \in Instances : j # i => inst'[j] = inst[j]
  BY Zenon DEF StorageIInv, StorageTyped
<1>2. NobodyWrites(id)
  BY <1>1, Zenon DEF NobodyWrites
<1> QED
  BY <1>2, Zenon DEF StorageIInv, Settled

(* Every step keeps it.                                                    *)
LEMMA StorageNextIInv == ASSUME SizeAssumption PROVE StorageIInv /\ [StorageNext]_storageVars => StorageIInv'
<1> SUFFICES ASSUME StorageIInv, [StorageNext]_storageVars PROVE StorageIInv'
  OBVIOUS
<1> USE DEF SizeAssumption
<1>1. ASSUME NEW i \in Instances, NEW id \in Ids, NEW n \in Sizes, CreateRawObject(i, id, n)
      PROVE  StorageIInv'
  <2>1. /\ inst' = [inst EXCEPT ![i] = [pc |-> "write", id |-> id, size |-> n]]
        /\ store' = [store EXCEPT ![id] = 0]
        /\ UNCHANGED <<acked, torn, last>> /\ inst[i].pc = "idle"
        /\ \A j \in Instances : inst[j].id = id => inst[j].pc = "idle"
    BY <1>1, Zenon DEF CreateRawObject, Go, MayWrite, Holders, StorageIInv, StorageTyped, Writing, Reading
  <2>2. StorageTyped' /\ Exclusive'
    BY <2>1 DEF StorageIInv, StorageTyped, Exclusive, Writing, Reading, None, Sizes
  <2>3. Local'
    BY <2>1, Zenon DEF StorageIInv, StorageTyped, Local, Writing, Reading, None, Sizes
  <2>4. Settled'
    BY <2>1, Zenon DEF StorageIInv, StorageTyped, Settled, NobodyWrites, Writing
  <2> QED
    BY <2>1, <2>2, <2>3, <2>4, Zenon DEF StorageIInv, ReadIsLastWrite, SizeStable
<1>2. ASSUME NEW i \in Instances, WriteObject(i) PROVE StorageIInv'
  <2>1. inst[i].pc = "write" /\ inst[i].id \in Ids /\ inst[i].size \in Sizes /\ UNCHANGED last
    BY <1>2 DEF WriteObject, StorageIInv, StorageTyped, Local, Writing, Reading
  <2>2. CASE /\ store' = [store EXCEPT ![inst[i].id] = inst[i].size]
             /\ acked' = [acked EXCEPT ![inst[i].id] = inst[i].size]
             /\ torn' = torn \ {inst[i].id}
             /\ inst' = [inst EXCEPT ![i] = IdleInstance]
    <3>1. StorageTyped' /\ Exclusive'
      <4>1. store' \in [Ids -> None .. MaxSize] /\ acked' \in [Ids -> {None} \union Sizes]
        BY <2>1, <2>2 DEF StorageIInv, StorageTyped, None, Sizes
      <4>2. torn' \subseteq Ids
        BY <2>2, Zenon DEF StorageIInv, StorageTyped
      <4> QED
        BY <2>2, <4>1, <4>2, GivenUp, Zenon DEF StorageTyped
    <3>2. Local'
      BY <2>1, <2>2, Zenon DEF StorageIInv, StorageTyped, Local, Exclusive, IdleInstance, Writing, Reading
    <3>3. Settled'
      <4> SUFFICES ASSUME NEW id \in Ids, NobodyWrites(id)'
                   PROVE  store'[id] = acked'[id] \/ (id \in torn' /\ store'[id] = 0)
        BY Zenon DEF Settled
      <4> QED
        BY <2>1, <2>2, OthersSettled, Zenon DEF StorageIInv, StorageTyped
    <3> QED
      BY <2>1, <3>1, <3>2, <3>3, Zenon DEF StorageIInv, ReadIsLastWrite, SizeStable
  <2>3. CASE inst' = [inst EXCEPT ![i] = [inst[i] EXCEPT !.pc = "undo"]] /\ UNCHANGED <<store, acked, torn>>
    <3>1. StorageTyped' /\ Exclusive'
      BY <2>1, <2>3 DEF StorageIInv, StorageTyped, Exclusive, Writing, Reading
    <3>2. Local'
      BY <2>1, <2>3 DEF StorageIInv, StorageTyped, Local, Writing
    <3>3. Settled'
      BY <2>1, <2>3 DEF StorageIInv, StorageTyped, Settled, NobodyWrites, Writing
    <3> QED
      BY <2>1, <3>1, <3>2, <3>3, Zenon DEF StorageIInv, ReadIsLastWrite, SizeStable
  <2> QED
    BY <1>2, <2>2, <2>3, Zenon DEF WriteObject, Go
<1>3. ASSUME NEW i \in Instances, UndoWrite(i) PROVE StorageIInv'
  <2>1. /\ inst[i].pc = "undo" /\ inst[i].id \in Ids /\ UNCHANGED last
        /\ inst' = [inst EXCEPT ![i] = IdleInstance]
    BY <1>3, Zenon DEF UndoWrite, Go, StorageIInv, StorageTyped, Writing, Reading
  <2>2. \/ /\ store' = [store EXCEPT ![inst[i].id] = None]
           /\ acked' = [acked EXCEPT ![inst[i].id] = None]
           /\ torn' = torn \ {inst[i].id}
        \/ torn' = torn \union {inst[i].id} /\ UNCHANGED <<store, acked>>
    BY <1>3, Zenon DEF UndoWrite
  <2>3. StorageTyped' /\ Exclusive'
    <3>1. store' \in [Ids -> None .. MaxSize] /\ acked' \in [Ids -> {None} \union Sizes]
      BY <2>2 DEF StorageIInv, StorageTyped, None, Sizes
    <3>2. torn' \subseteq Ids
      BY <2>1, <2>2, Zenon DEF StorageIInv, StorageTyped
    <3> QED
      BY <2>1, <3>1, <3>2, GivenUp, Zenon DEF StorageTyped
  <2>4. Local'
    BY <2>1, <2>2 DEF StorageIInv, StorageTyped, Local, Exclusive, IdleInstance, Writing, Reading
  <2>5. Settled'
    <3> SUFFICES ASSUME NEW id \in Ids, NobodyWrites(id)'
                 PROVE  store'[id] = acked'[id] \/ (id \in torn' /\ store'[id] = 0)
      BY Zenon DEF Settled
    <3>1. store[inst[i].id] = 0
      BY <2>1, Zenon DEF StorageIInv, Local, Writing
    <3> QED
      BY <2>1, <2>2, <3>1, OthersSettled DEF StorageIInv, StorageTyped
  <2> QED
    BY <2>1, <2>3, <2>4, <2>5, Zenon DEF StorageIInv, ReadIsLastWrite, SizeStable
<1>4. ASSUME NEW i \in Instances, NEW id \in Ids, DeleteObject(i, id) PROVE StorageIInv'
  <2>1. /\ store' = [store EXCEPT ![id] = None] /\ acked' = [acked EXCEPT ![id] = None]
        /\ torn' = torn \ {id} /\ UNCHANGED <<inst, last>>
        /\ \A j \in Instances : inst[j].id = id => inst[j].pc = "idle"
    BY <1>4, Zenon DEF DeleteObject, MayWrite, Holders, StorageIInv, StorageTyped, Writing, Reading
  <2>2. StorageTyped' /\ Exclusive'
    BY <2>1 DEF StorageIInv, StorageTyped, Exclusive, None, Sizes
  <2>3. Local'
    BY <2>1, Zenon DEF StorageIInv, StorageTyped, Local, Writing, Reading
  <2>4. Settled'
    BY <2>1, Zenon DEF StorageIInv, StorageTyped, Settled, NobodyWrites
  <2> QED
    BY <2>1, <2>2, <2>3, <2>4, Zenon DEF StorageIInv, ReadIsLastWrite, SizeStable
<1>5. ASSUME NEW i \in Instances, NEW id \in Ids, NEW n \in Sizes, OpenRawObject(i, id, n) PROVE StorageIInv'
  <2>1. /\ inst' = [inst EXCEPT ![i] = [pc |-> "size", id |-> id, size |-> n]]
        /\ UNCHANGED <<store, acked, torn, last>> /\ inst[i].pc = "idle"
        /\ NobodyWrites(id)
    BY <1>5, Zenon DEF OpenRawObject, Go, MayRead, Holders, NobodyWrites, Writing
  <2>2. StorageTyped'
    BY <2>1, Zenon DEF StorageIInv, StorageTyped, Reading
  <2>3. Exclusive'
    BY <2>1, Zenon DEF StorageIInv, StorageTyped, Exclusive, NobodyWrites, Writing, Reading
  <2>4. Local' /\ Settled'
    BY <2>1, Zenon DEF StorageIInv, StorageTyped, Local, Settled, NobodyWrites, Writing, Reading
  <2> QED
    BY <2>1, <2>2, <2>3, <2>4, Zenon DEF StorageIInv, ReadIsLastWrite, SizeStable
<1>6. ASSUME NEW i \in Instances, ReadSize(i) PROVE StorageIInv'
  <2>1. inst[i].pc = "size" /\ inst[i].id \in Ids /\ UNCHANGED <<store, acked, torn>>
    BY <1>6, Zenon DEF ReadSize, StorageIInv, StorageTyped
  <2>2. CASE inst[i].size < store[inst[i].id]
    <3>1. inst' = [inst EXCEPT ![i] = IdleInstance] /\ last'.ok = FALSE /\ last'.code = "ShortBuffer"
      BY <1>6, <2>2 DEF ReadSize, Answer, Go
    <3> QED
      BY <2>1, <3>1, Zenon DEF StorageIInv, StorageTyped, Exclusive, Local, Settled, NobodyWrites, IdleInstance, Writing,
        Reading, ReadIsLastWrite, SizeStable
  <2>3. CASE ~(inst[i].size < store[inst[i].id])
    <3>1. /\ inst' = [inst EXCEPT ![i] = [pc |-> "read", id |-> inst[i].id, size |-> store[inst[i].id]]]
          /\ last' = last
      BY <1>6, <2>3, Zenon DEF ReadSize, Go
    <3>2. StorageTyped' /\ Exclusive'
      BY <2>1, <3>1 DEF StorageIInv, StorageTyped, Exclusive, Writing, Reading
    <3>3. Local' /\ Settled'
      BY <2>1, <3>1, Zenon DEF StorageIInv, StorageTyped, Local, Settled, NobodyWrites, Writing, Reading
    <3> QED
      BY <3>1, <3>2, <3>3, Zenon DEF StorageIInv, ReadIsLastWrite, SizeStable
  <2> QED
    BY <2>2, <2>3, Zenon
<1>7. ASSUME NEW i \in Instances, ReadData(i) PROVE StorageIInv'
  <2>1. /\ inst[i].pc = "read" /\ inst[i].id \in Ids /\ UNCHANGED <<store, acked, torn>>
        /\ inst' = [inst EXCEPT ![i] = IdleInstance] /\ store[inst[i].id] = inst[i].size
    BY <1>7, Zenon DEF ReadData, Go, StorageIInv, StorageTyped, Local
  <2>2. StorageTyped' /\ Exclusive' /\ Local' /\ Settled'
    BY <2>1, Zenon DEF StorageIInv, StorageTyped, Exclusive, Local, Settled, NobodyWrites, IdleInstance, Writing, Reading
  <2>3. /\ last'.data = store[inst[i].id] /\ last'.want = acked[inst[i].id]
        /\ last'.torn = (inst[i].id \in torn) /\ last'.code = "none"
    BY <1>7, <2>1, Zenon DEF ReadData, Answer
  <2>4. store[inst[i].id] = acked[inst[i].id] \/ (inst[i].id \in torn /\ store[inst[i].id] = 0)
    BY <2>1, ReaderAlone, Zenon DEF StorageIInv, Settled, Reading
  <2> QED
    BY <2>2, <2>3, <2>4, Zenon DEF StorageIInv, ReadIsLastWrite, SizeStable
<1>8. ASSUME NEW i \in Instances, Crash(i) PROVE StorageIInv'
  <2>1. /\ inst[i].pc # "idle" /\ inst[i].id \in Ids /\ UNCHANGED <<store, acked, last>>
        /\ inst' = [inst EXCEPT ![i] = IdleInstance]
        /\ torn' = IF inst[i].pc \in Writing THEN torn \union {inst[i].id} ELSE torn
    BY <1>8, Zenon DEF Crash, Go, StorageIInv, StorageTyped, Writing
  <2>2. StorageTyped' /\ Exclusive' /\ Local'
    BY <2>1, Zenon DEF StorageIInv, StorageTyped, Exclusive, Local, IdleInstance, Writing, Reading
  <2>3. Settled'
    BY <2>1, Zenon DEF StorageIInv, StorageTyped, Local, Settled, NobodyWrites, IdleInstance, Writing
  <2> QED
    BY <2>1, <2>2, <2>3, Zenon DEF StorageIInv, ReadIsLastWrite, SizeStable
<1>9. CASE UNCHANGED storageVars
  BY <1>9, Zenon DEF storageVars, StorageIInv, StorageTyped, Exclusive, Local, Settled, NobodyWrites, ReadIsLastWrite, SizeStable
<1> QED
  BY <1>1, <1>2, <1>3, <1>4, <1>5, <1>6, <1>7, <1>8, <1>9, Zenon DEF StorageNext

(* So it always holds.                                                     *)
THEOREM StorageIInvHolds == ASSUME SizeAssumption PROVE StorageSpec => []StorageIInv
BY StorageInitIInv, StorageNextIInv, PTL DEF StorageSpec

(* A read returns the last successful write, for any number of instances.  *)
THEOREM ReadsLastWrite == ASSUME SizeAssumption PROVE StorageSpec => []ReadIsLastWrite
BY StorageIInvHolds, PTL DEF StorageIInv

(* The size that was checked is the size that is read.                     *)
THEOREM SizeAlwaysStable == ASSUME SizeAssumption PROVE StorageSpec => []SizeStable
BY StorageIInvHolds, PTL DEF StorageIInv

(* An empty object that nobody works on was left by an unsuccessful write. *)
THEOREM EmptyAlwaysTorn == ASSUME SizeAssumption PROVE StorageSpec => []EmptyIsTorn
<1>1. StorageIInv => EmptyIsTorn
  BY DEF SizeAssumption, StorageIInv, StorageTyped, Settled, EmptyIsTorn, NobodyWrites, MayWrite, Holders,
    Writing, None, Sizes
<1> QED
  BY <1>1, StorageIInvHolds, PTL

=============================================================================
