----------------------------- MODULE AeSession -----------------------------
(***************************************************************************)
(* A session of the authentication-rs example: the AE operation in its     *)
(* context, the commands of the TA, each of which may stop at a call that  *)
(* fails, and a client that follows the example's main or sends the        *)
(* commands in any order.  AES-CCM is external: a byte is encrypted under  *)
(* key and nonce at its position, whole blocks go out before the final     *)
(* call, and the tag stands for the parameters and the whole text.         *)
(***************************************************************************)
EXTENDS Integers, Sequences

CONSTANTS Params,  \* what a client may prepare with: records of key, nonce and aad
          Texts    \* the texts a client in any order may send

VARIABLES op,        \* the AE operation of the context
          app,       \* "alive", "dead" or "closed"
          peer,      \* the client: its order, its next step, what it prepared, its buffers
          made,      \* what was encrypted: parameters, as the client knows them, and text
          accepted,  \* what was decrypted
          answer     \* how the last command ended
aeVars == <<op, app, peer, made, accepted, answer>>

BufferSize == 16
AesBlock == 16
PayloadNumber == 2
Payload == BufferSize * PayloadNumber

NoParams == [key |-> "none", nonce |-> "none", aad |-> "none"]
AeOp(state, mode, par, pending, text) ==
  [state |-> state, mode |-> mode, par |-> par, pending |-> pending, text |-> text]
NoOp == AeOp("null", "none", NoParams, <<>>, <<>>)

(* A byte, encrypted at a position under a key and a nonce, and back. *)
Plain(b) == [b |-> b, under |-> <<>>, pos |-> 0]
Under(p) == <<p.key, p.nonce>>
Sealed(c, p, pos) == [b |-> c.b, under |-> Under(p), pos |-> pos]
Opened(c, p, pos) ==
  IF c.under = Under(p) /\ c.pos = pos THEN Plain(c.b) ELSE Plain("garbage")

Clear(b, n) == [i \in 1..n |-> Plain(b)]

(* clear1 and clear2 *)
Clear1 == Clear("a", BufferSize + 3)
Clear2 == Clear("b", BufferSize - 3)

(* The calls of main, and the buffers it passes as the output of each. *)
MainCalls == <<"Encrypt", "Update", "EncFinal", "Decrypt", "Update", "DecFinal">>
Outputs == {2, 3, 5, 6}

AeInit ==
  /\ op = NoOp /\ app = "alive" /\ made = {} /\ accepted = {} /\ answer = "none"
  /\ \E o \in {"main", "any"}, p \in Params :
       peer = [order |-> o, at |-> 1, own |-> p, par |-> NoParams,
               buf |-> [i \in Outputs |-> Clear("0", BufferSize)]]

AeTurn(cmd) ==
  /\ app = "alive"
  /\ peer.order = "main" => peer.at \in DOMAIN MainCalls /\ MainCalls[peer.at] = cmd

(* What main sends: the clear text, then the whole of the buffers it got. *)
MainText ==
  CASE peer.at = 2 -> Clear1 [] peer.at = 3 -> Clear2
    [] peer.at = 5 -> peer.buf[2] [] peer.at = 6 -> peer.buf[3]
    [] OTHER -> <<>>

AeSends(src, room) == peer.order = "main" => src = MainText /\ room = BufferSize

(* The client after a call. *)
Client(at, par, buf) ==
  [order |-> peer.order, at |-> at, own |-> peer.own, par |-> par, buf |-> buf]

(* main ends on an error.  An output covers the front of its buffer. *)
Stopped == IF peer.order = "main" THEN Client(0, peer.par, peer.buf) ELSE peer
Covered(old, data) == data \o SubSeq(old, Len(data) + 1, Len(old))
Received(data) ==
  IF peer.order = "main"
  THEN Client(peer.at + 1, peer.par,
              [peer.buf EXCEPT ![peer.at] = Covered(peer.buf[peer.at], data)])
  ELSE peer

(* An error leaves the operation as the command has made it, o. *)
AeFails(o, why) ==
  /\ op' = o /\ answer' = why /\ peer' = Stopped
  /\ UNCHANGED <<app, made, accepted>>

(* A call that the TEE answers with a panic: the instance is gone. *)
AePanics ==
  /\ op' = NoOp /\ app' = "dead" /\ answer' = "dead" /\ peer' = Stopped
  /\ UNCHANGED <<made, accepted>>

-----------------------------------------------------------------------------
(* prepare, when all its calls succeed: a new operation with its key,      *)
(* nonce and additional data.                                              *)
AePrepared(mode, p) == AeOp("ready", mode, p, <<>>, <<>>)

(* An operation without a key. *)
AeAllocated(mode) == AeOp("allocated", mode, NoParams, <<>>, <<>>)

(* It stops before the old operation is replaced, or after.                *)
AePrepare(mode, p) ==
  /\ AeTurn(mode)
  /\ peer.order = "main" => p = peer.own
  /\ \/ AeFails(op, "error")
     \/ AeFails(AeAllocated(mode), "error")
     \/ /\ op' = AePrepared(mode, p)
        /\ peer' = Client(IF peer.order = "main" THEN peer.at + 1 ELSE peer.at, p, peer.buf)
        /\ answer' = "ok"
        /\ UNCHANGED <<app, made, accepted>>

(* What the operation makes of input that follows its text so far.         *)
Processed(in) ==
  [i \in 1..Len(in) |->
     IF op.mode = "Encrypt" THEN Sealed(in[i], op.par, Len(op.text) + i)
     ELSE Opened(in[i], op.par, Len(op.text) + i)]

ClearOf(in) == IF op.mode = "Encrypt" THEN in ELSE Processed(in)

Total(src) == Len(op.text) + Len(op.pending) + Len(src)

(* update: whole blocks go out, if the client's buffer has the room.       *)
AeUpdate(src, room) ==
  LET in == op.pending \o src
      n == Len(in) - (Len(in) % AesBlock)
      whole == SubSeq(in, 1, n)
  IN  /\ AeTurn("Update") /\ AeSends(src, room)
      /\ IF op.state # "ready" \/ Total(src) > Payload THEN AePanics
         ELSE IF n > room THEN AeFails(op, "short")
         ELSE \/ AeFails(op, "error")
              \/ /\ op' = AeOp("ready", op.mode, op.par, SubSeq(in, n + 1, Len(in)),
                              op.text \o ClearOf(whole))
                 /\ peer' = Received(Processed(whole))
                 /\ answer' = "ok"
                 /\ UNCHANGED <<app, made, accepted>>

(* A tag, as the TEE makes it for the operation. *)
Tag(text) == [par |-> op.par, text |-> text]

(* encrypt_final; the final call ends the operation.                       *)
EncryptFinal(src, room) ==
  LET in == op.pending \o src
  IN  /\ AeTurn("EncFinal") /\ AeSends(src, room)
      /\ IF op.state # "ready" \/ op.mode # "Encrypt" \/ Total(src) # Payload THEN AePanics
         ELSE IF Len(in) > room THEN AeFails(op, "short")
         ELSE \/ AeFails(op, "error")
              \/ /\ op' = [op EXCEPT !.state = "done"]
                 /\ peer' = Received(Processed(in))
                 /\ made' = made \union {[par |-> peer.par, text |-> op.text \o in]}
                 /\ answer' = "ok"
                 /\ UNCHANGED <<app, accepted>>

(* decrypt_final refuses a tag that is not the one of the text.  The       *)
(* client has only the tags that it was given: the ones of what was made.  *)
DecryptFinal(src, room, tag) ==
  LET in == op.pending \o src
      text == op.text \o Processed(in)
  IN  /\ AeTurn("DecFinal") /\ AeSends(src, room)
      /\ IF op.state # "ready" \/ op.mode # "Decrypt" \/ Total(src) # Payload THEN AePanics
         ELSE IF Len(in) > room THEN AeFails(op, "short")
         ELSE IF tag # Tag(text)
              THEN \E s \in {"ready", "done"} : AeFails([op EXCEPT !.state = s], "tag")
         ELSE \/ AeFails(op, "error")
              \/ /\ op' = [op EXCEPT !.state = "done"]
                 /\ peer' = Received(Processed(in))
                 /\ accepted' = accepted \union {[par |-> peer.par, text |-> text]}
                 /\ answer' = "ok"
                 /\ UNCHANGED <<app, made>>

(* The session is closed, main's at its end, and its context dropped.      *)
AeClose ==
  /\ app = "alive" /\ (peer.order = "main" => peer.at \in {0, 7})
  /\ app' = "closed" /\ op' = NoOp
  /\ UNCHANGED <<peer, made, accepted, answer>>

(* An unknown command is refused and changes nothing. *)
AeNext ==
  \/ \E mode \in {"Encrypt", "Decrypt"}, p \in Params : AePrepare(mode, p)
  \/ \E src \in Texts \union {MainText}, room \in 0..Payload :
       \/ AeUpdate(src, room)
       \/ EncryptFinal(src, room)
       \/ \E tag \in made : DecryptFinal(src, room, tag)
  \/ AeClose

AeSpec == AeInit /\ [][AeNext]_aeVars

-----------------------------------------------------------------------------
(* What decrypt_final accepts was encrypted in this session, the whole of  *)
(* it, with the key, the nonce and the additional data that the client     *)
(* prepared last, whatever commands came before, in whichever order, and   *)
(* failed half-way.                                                        *)
AuthenticTexts == accepted \subseteq made

(* main gets an error only from a call of the TEE that failed, never for a *)
(* short buffer or a wrong tag, and does not make the TEE panic, although  *)
(* update holds back a part of its first chunk and main hands on whole     *)
(* buffers whatever was written to them.                                   *)
MainNeverRefused == peer.order = "main" => answer \in {"none", "ok", "error"}

(* main, at its end, has the clear text decoded. *)
MainDecodes ==
  peer.order = "main" /\ peer.at = 7 => peer.buf[5] \o peer.buf[6] = Clear1 \o Clear2
=============================================================================
