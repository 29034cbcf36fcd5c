----------------------------- MODULE SuppPlugin -----------------------------
(***************************************************************************)
(* A TA calls a plugin of the supplicant (optee_utee::LoadablePlugin).     *)
(* Request and answer share one buffer: the TA pads the request to the     *)
(* capacity of its vector, the plugin writes over it through               *)
(* optee_teec::PluginParameters, and the TA cuts the buffer to the length  *)
(* the plugin reported.  A plugin that is not written with                 *)
(* PluginParameters may report any length.  A byte is modelled by who      *)
(* wrote it, and the shared buffer by a function on its places.            *)
(***************************************************************************)
EXTENDS Integers

CONSTANTS UsizeMax,  \* usize::MAX
          Checked    \* the build panics where a sum overflows

(* What the theorems assume of the constants. *)
UsizeAssumption == UsizeMax \in Nat

VARIABLES command,  \* the LoadablePluginCommand: its state, capacity and length of the body
          plugin,   \* the invocation in the supplicant
          wrote,    \* where the last output operation that succeeded began and ended
          answer,   \* what call returned: how, and the bytes
          crashed   \* the supplicant died of a panic in the plugin

pluginVars == <<command, plugin, wrote, answer, crashed>>

NoCommand == [at |-> "none", cap |-> 0, body |-> 0]
NoPlugin == [on |-> FALSE, buf |-> [i \in {} |-> 0], size |-> 0, out |-> FALSE, len |-> 0]
NoAnswer == [how |-> "none", len |-> 0, data |-> [i \in {} |-> 0]]
Nothing == [first |-> 0, end |-> 0]

PluginInit ==
  /\ command = NoCommand /\ plugin = NoPlugin /\ wrote = Nothing
  /\ answer = NoAnswer /\ crashed = FALSE

(* invoke_with_capacity: a vector of at least the capacity asked for.      *)
NewWithCapacity(cap) ==
  /\ command.at = "none"
  /\ command' = [at |-> "building", cap |-> cap, body |-> 0]
  /\ answer' = NoAnswer
  /\ UNCHANGED <<plugin, wrote, crashed>>

(* write_body and chain_write_body: the vector grows when it must.         *)
WriteBody(n, cap) ==
  /\ command.at = "building" /\ command.body + n <= cap
  /\ cap = command.cap \/ (command.body + n > command.cap)
  /\ command' = [at |-> "building", cap |-> cap, body |-> command.body + n]
  /\ UNCHANGED <<plugin, wrote, answer, crashed>>

(* call, up to the plugin: the request, padded to the capacity.            *)
SharedBuffer == [i \in 1..command.cap |-> IF i <= command.body THEN "request" ELSE "padding"]

(* The call of the TA ends. *)
Answered(how, len, data) ==
  /\ answer' = [how |-> how, len |-> len, data |-> data]
  /\ command' = NoCommand /\ plugin' = NoPlugin

CallFails == Answered("error", 0, NoAnswer.data)

(* plugin_invoke: PluginParameters::from_raw refuses a buffer that is null *)
(* although it has a length or is to take an output.  Without a supplicant *)
(* the TEE refuses.                                                        *)
PluginInvoke(null, out) ==
  /\ command.at = "building"
  /\ null => command.cap = 0
  /\ wrote' = Nothing
  /\ IF crashed \/ ((command.cap # 0 \/ out) /\ null) THEN CallFails
     ELSE /\ plugin' = [on |-> TRUE, buf |-> SharedBuffer, size |-> command.cap, out |-> out, len |-> 0]
          /\ command' = [at |-> "calling", cap |-> command.cap, body |-> command.body]
          /\ UNCHANGED answer
  /\ UNCHANGED crashed

(* The plugin has written places first + 1 to end, and reports len.        *)
Wrote(first, end, len) ==
  plugin' = [on |-> TRUE, size |-> plugin.size, out |-> plugin.out, len |-> len,
             buf |-> [i \in 1..plugin.size |->
                        IF i \in (first + 1)..end THEN "plugin" ELSE plugin.buf[i]]]

Refused == UNCHANGED <<plugin, wrote, crashed>>
Dies == crashed' = TRUE /\ UNCHANGED <<plugin, wrote>>

(* write_output_at: the sum of place and length is not checked.  Where it  *)
(* overflows, the build panics there, or the slice that ends before it     *)
(* starts does.                                                            *)
WriteOutputAt(pos, n) ==
  LET end == (pos + n) % (UsizeMax + 1) IN
  IF ~plugin.out THEN Refused
  ELSE IF Checked /\ pos + n > UsizeMax THEN Dies
  ELSE IF plugin.size < end THEN Refused
  ELSE IF end < pos THEN Dies
  ELSE Wrote(pos, end, end) /\ wrote' = [first |-> pos, end |-> end] /\ UNCHANGED crashed

SetBufFromSlice(n) == WriteOutputAt(0, n)

(* set_out_len: not beyond the buffer, and not without a place for it.     *)
SetOutLen(n) ==
  IF n > plugin.size \/ ~plugin.out THEN Refused
  ELSE Wrote(n, n, n) /\ wrote' = [first |-> n, end |-> n] /\ UNCHANGED crashed

(* get_buffer_mut: a byte written without a word on the length.            *)
WriteBufferMut(i) == Wrote(i - 1, i, plugin.len) /\ UNCHANGED <<wrote, crashed>>

PluginOutput ==
  /\ plugin.on /\ ~crashed
  /\ \/ \E pos, n \in 0..UsizeMax : WriteOutputAt(pos, n)
     \/ \E n \in 0..UsizeMax : SetBufFromSlice(n) \/ SetOutLen(n)
     \/ \E i \in 1..plugin.size : WriteBufferMut(i)
  /\ UNCHANGED <<command, answer>>

(* call, from the plugin: a length beyond the buffer is an error, and the  *)
(* buffer is cut to any other.                                             *)
CallReturns(how, len) ==
  IF len > plugin.size THEN CallFails
  ELSE Answered(how, len, [i \in 1..len |-> plugin.buf[i]])

(* The handler returns, with an error, which is all the TA gets, or        *)
(* without one; it may have dropped the error of an output operation.      *)
PluginReturns ==
  /\ plugin.on /\ ~crashed
  /\ CallFails \/ CallReturns("ok", plugin.len)
  /\ UNCHANGED <<wrote, crashed>>

(* A plugin of another make has written what it likes, and reports that.   *)
ForeignReturns(len) ==
  /\ plugin.on /\ ~crashed
  /\ CallReturns("foreign", len)
  /\ UNCHANGED <<wrote, crashed>>

(* The TEE ends the call of a TA whose supplicant died. *)
SupplicantDied ==
  /\ plugin.on /\ crashed /\ CallFails
  /\ UNCHANGED <<wrote, crashed>>

PluginNext ==
  \/ \E cap \in 0..UsizeMax : NewWithCapacity(cap)
  \/ \E n, cap \in 0..UsizeMax : WriteBody(n, cap)
  \/ \E null, out \in BOOLEAN : PluginInvoke(null, out)
  \/ PluginOutput \/ PluginReturns \/ SupplicantDied
  \/ \E len \in 0..UsizeMax : ForeignReturns(len)

PluginSpec == PluginInit /\ [][PluginNext]_pluginVars

-----------------------------------------------------------------------------
(* The plugin sees the whole request, and the length that PluginParameters *)
(* reports is within the buffer after any sequence of output operations,   *)
(* whichever of them failed.                                               *)
LengthInBuffer == plugin.on => command.body <= plugin.size /\ plugin.len <= plugin.size

(* The answer of a plugin written with PluginParameters ends where its     *)
(* last output operation that succeeded ended, and holds what that wrote;  *)
(* without one it is empty: no part of the request and no padding comes    *)
(* back for want of a length.                                              *)
AnswerIsLastOutput ==
  answer.how = "ok" =>
    /\ answer.len = wrote.end
    /\ \A i \in (wrote.first + 1)..wrote.end : answer.data[i] = "plugin"

(* An answer has the bytes it says, whatever length the normal world       *)
(* reported.                                                               *)
AnswerWhole ==
  answer.how # "none" => \A i \in 1..answer.len : answer.data[i] \in {"request", "padding", "plugin"}
=============================================================================
