------------------------------ MODULE Sockets ------------------------------
(***************************************************************************)
(* A socket of a TA (optee_utee::net): a handle of the TEE, two timeouts,  *)
(* and the loops write_all and read_exact, those of the crate and those of *)
(* std::io.  One turn of a loop is one call of the TEE, which may move any *)
(* part of what it is offered, and may fail after it has moved some.       *)
(* Sockets share nothing, so there is one, opened and dropped repeatedly.  *)
(***************************************************************************)
EXTENDS Integers, Sequences

CONSTANTS Handles,    \* handles the TEE may give out
          U32Max,     \* u32::MAX, which is also TEE_TIMEOUT_INFINITE
          Durations,  \* milliseconds a TA may ask for, of any width
          NoLimit,    \* the None of an Option of a duration
          Lengths,    \* lengths of its buffers
          Protocols   \* protocol errors an instance of TEE_iSocket may report

(* What the theorems assume of the constants. *)
SocketsAssumption ==
  /\ U32Max \in Nat /\ Durations \subseteq Nat /\ Lengths \subseteq Nat
  /\ "closed" \notin Handles /\ NoLimit \notin Nat

VARIABLES sock,    \* the Socket: its handle, its protocol and its timeouts
          handles, \* the handles the TEE holds open
          last,    \* the protocol error each instance would report for its handle
          asked,   \* the wait asked for in each direction
          call,    \* the running write_all or read_exact
          moved,   \* the place in the buffer of each byte that crossed in this call, in order
          result   \* how the last call ended

netVars == <<sock, handles, last, asked, call, moved, result>>

Infinite == U32Max
Protos == {"tcp", "udp"}

(* The codes that SocketError has a kind for, and those it takes over.     *)
ProtocolCodes == {"ISOCKET_ERROR_PROTOCOL", "ISOCKET_WARNING_PROTOCOL"}
SocketCodes == ProtocolCodes \union
  {"ISOCKET_ERROR_REMOTE_CLOSED", "ISOCKET_ERROR_TIMEOUT", "ISOCKET_ERROR_OUT_OF_RESOURCES",
   "ISOCKET_ERROR_LARGE_BUFFER", "ISOCKET_ERROR_HOSTNAME"}
TeeCodes == {"CANCEL", "COMMUNICATION", "OUT_OF_MEMORY", "BAD_PARAMETERS"}
NetCodes == SocketCodes \union TeeCodes \union {"other"}

(* SocketError::from_raw_error. *)
FromRawError(c, protocol) ==
  IF c \in SocketCodes
  THEN [kind |-> c, held |-> IF c \in ProtocolCodes THEN protocol ELSE "none"]
  ELSE IF c \in TeeCodes THEN [kind |-> "Tee", held |-> c]
  ELSE [kind |-> "Unknown", held |-> c]

Generic == [kind |-> "Tee", held |-> "GENERIC"]
BadAddress == [kind |-> "Tee", held |-> "BAD_PARAMETERS"]

(* Into<std::io::Error>: the kind of the std error. *)
IntoIoError(e) ==
  CASE e.kind = "ISOCKET_ERROR_REMOTE_CLOSED" -> "ConnectionAborted"
    [] e.kind = "ISOCKET_ERROR_TIMEOUT" -> "TimedOut"
    [] e.kind = "Tee" /\ e.held = "OUT_OF_MEMORY" -> "OutOfMemory"
    [] OTHER -> "Other"

(* handle_socket_operation_error, which asks the instance it is given; l   *)
(* is what the instances would report.                                     *)
OperationError(c, instance, l) == FromRawError(c, l[instance])

(* The instances of TEE_iSocket that the methods of an adapter go through: *)
(* open, send and recv, and the one whose error is asked for.              *)
TcpAdapter == [open |-> "tcp", transfer |-> "tcp", error |-> "tcp"]
UdpAdapter == [open |-> "udp", transfer |-> "udp", error |-> "udp"]
Adapter(proto) == IF proto = "tcp" THEN TcpAdapter ELSE UdpAdapter

Idle == [op |-> "none", len |-> 0, pos |-> 0, std |-> FALSE]
Closed == [h |-> "closed", proto |-> "tcp", send |-> 0, recv |-> 0]
Done(op, ok, len, e) == [op |-> op, ok |-> ok, len |-> len, error |-> e]
NoResult == Done("none", FALSE, 0, Generic)

NetInit ==
  /\ sock = Closed /\ handles = {} /\ last \in [Protos -> Protocols]
  /\ asked = [send |-> NoLimit, recv |-> NoLimit]
  /\ call = Idle /\ moved = <<>> /\ result = NoResult

Quiet == call = Idle /\ sock.h # "closed"

-----------------------------------------------------------------------------
(* connect, connect_v4 and connect_v6: an address with an inner NUL gives  *)
(* no Setup, and a failed open no socket; the error of open comes with the *)
(* call itself.                                                            *)
NetConnect(proto, nul) ==
  /\ sock.h = "closed"
  /\ \/ /\ nul
        /\ result' = Done("connect", FALSE, 0, BadAddress)
        /\ UNCHANGED <<sock, handles, last, asked>>
     \/ /\ ~nul
        /\ \E c \in NetCodes, p \in Protocols :
             /\ last' = [last EXCEPT ![Adapter(proto).open] = p]
             /\ result' = Done("connect", FALSE, 0, FromRawError(c, p))
        /\ UNCHANGED <<sock, handles, asked>>
     \/ /\ ~nul
        /\ \E h \in Handles \ handles :
             /\ handles' = handles \union {h}
             /\ sock' = [h |-> h, proto |-> proto, send |-> Infinite, recv |-> Infinite]
        /\ asked' = [send |-> NoLimit, recv |-> NoLimit]
        /\ result' = NoResult
        /\ UNCHANGED last
  /\ UNCHANGED <<call, moved>>

(* convert_duration_option_to_timeout, NoLimit for a refused duration.     *)
ToTimeout(dur) ==
  IF dur = NoLimit THEN Infinite ELSE IF dur > U32Max THEN NoLimit ELSE dur

SetTimeouts(send, recv) ==
  sock' = [h |-> sock.h, proto |-> sock.proto, send |-> send, recv |-> recv]

(* set_send_timeout and set_recv_timeout: a refused duration changes       *)
(* nothing.                                                                *)
SetTimeout(dir, dur) ==
  /\ Quiet /\ ToTimeout(dur) # NoLimit
  /\ \/ /\ dir = "send" /\ SetTimeouts(ToTimeout(dur), sock.recv)
        /\ asked' = [send |-> dur, recv |-> asked.recv]
     \/ /\ dir = "recv" /\ SetTimeouts(sock.send, ToTimeout(dur))
        /\ asked' = [send |-> asked.send, recv |-> dur]
  /\ UNCHANGED <<handles, last, call, moved, result>>

(* set_send_timeout_in_milli and set_recv_timeout_in_milli. *)
SetTimeoutInMilli(dir, ms) ==
  /\ Quiet
  /\ \/ dir = "send" /\ SetTimeouts(ms, sock.recv) /\ asked' = [send |-> ms, recv |-> asked.recv]
     \/ dir = "recv" /\ SetTimeouts(sock.send, ms) /\ asked' = [send |-> asked.send, recv |-> ms]
  /\ UNCHANGED <<handles, last, call, moved, result>>

(* write_all or read_exact begins; an empty buffer is done at once.        *)
Begin(op, len, std) ==
  /\ Quiet /\ moved' = <<>>
  /\ \/ len = 0 /\ result' = Done(op, TRUE, 0, Generic) /\ UNCHANGED call
     \/ len > 0 /\ call' = [op |-> op, len |-> len, pos |-> 0, std |-> std] /\ result' = NoResult
  /\ UNCHANGED <<sock, handles, last, asked>>

(* What is left of the buffer, as the u32 that is handed to the TEE.       *)
Offered == (call.len - call.pos) % (U32Max + 1)

(* The TEE moves the next m bytes of the slice it is given.                *)
Moves(m) == moved' = moved \o [i \in 1..m |-> call.pos + i]

Returns(ok, e) == call' = Idle /\ result' = Done(call.op, ok, call.len, e)

(* A call of the TEE succeeds: nothing moved ends the loop with an error.  *)
Progress(m) ==
  /\ Moves(m)
  /\ IF m = 0 THEN Returns(FALSE, Generic)
     ELSE IF call.pos + m = call.len THEN Returns(TRUE, Generic)
     ELSE /\ call' = [op |-> call.op, len |-> call.len, pos |-> call.pos + m, std |-> call.std]
          /\ UNCHANGED result
  /\ UNCHANGED last

(* A call fails: the loop ends, but for one of std on an interrupted call. *)
TransferFails(m, c, p) ==
  LET l == [last EXCEPT ![Adapter(sock.proto).transfer] = p]
      e == OperationError(c, Adapter(sock.proto).error, l)
  IN
  /\ Moves(m) /\ last' = l
  /\ IF call.std /\ IntoIoError(e) = "Interrupted" THEN UNCHANGED <<call, result>>
     ELSE Returns(FALSE, e)

(* A turn of the loop: Socket::send or Socket::recv on the rest.           *)
Transfer(m) ==
  /\ call # Idle
  /\ \/ Progress(m)
     \/ \E c \in NetCodes, p \in Protocols : TransferFails(m, c, p)
  /\ UNCHANGED <<sock, handles, asked>>

(* Drop of the adapter closes its handle, whatever close returns.          *)
DropSocket ==
  /\ Quiet
  /\ handles' = handles \ {sock.h} /\ sock' = Closed
  /\ UNCHANGED <<last, asked, call, moved, result>>

NetNext ==
  \/ \E proto \in Protos, nul \in BOOLEAN : NetConnect(proto, nul)
  \/ \E dir \in {"send", "recv"} :
       \/ \E dur \in Durations \union {NoLimit} : SetTimeout(dir, dur)
       \/ \E ms \in 0..U32Max : SetTimeoutInMilli(dir, ms)
  \/ \E op \in {"write", "read"}, len \in Lengths, std \in BOOLEAN : Begin(op, len, std)
  \/ call # Idle /\ \E m \in 0..Offered : Transfer(m)
  \/ DropSocket

NetSpec == NetInit /\ [][NetNext]_netVars

-----------------------------------------------------------------------------
(* Bytes cross in the order of the buffer, none twice and none left out,   *)
(* however the TEE cuts the transfers, wherever one fails after it moved a *)
(* part, and also when the buffer is longer than a u32 can say.            *)
InOrder == moved = [i \in 1..Len(moved) |-> i]

(* write_all and read_exact return Ok only when the whole buffer crossed.  *)
OkMeansAll == result.op \in {"write", "read"} /\ result.ok => Len(moved) = result.len

(* The TEE holds exactly the handle of the socket: none is left open by a  *)
(* connect that failed or after a drop.                                    *)
HandlesOwned == handles = IF sock.h = "closed" THEN {} ELSE {sock.h}

(* A socket waits as long as was asked for each direction: a duration that *)
(* does not fit is not cut to a shorter one.                               *)
WaitsAsAsked ==
  sock.h # "closed" =>
    /\ sock.send = IF asked.send = NoLimit THEN Infinite ELSE asked.send
    /\ sock.recv = IF asked.recv = NoLimit THEN Infinite ELSE asked.recv

(* The protocol error in the error of a transfer is the one of the         *)
(* instance that the handle belongs to.                                    *)
ErrorIsOwn ==
  sock.h # "closed" /\ result.op \in {"write", "read"} /\ result.error.kind \in ProtocolCodes
    => result.error.held = last[Adapter(sock.proto).open]
=============================================================================
