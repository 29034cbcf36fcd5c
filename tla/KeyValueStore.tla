--------------------------- MODULE KeyValueStore ---------------------------
(***************************************************************************)
(* What a user of secure_db may rely on, without its key list, its objects *)
(* or its failures.  dict is what a client opened now would find.          *)
(* permitted[k] is the set of answers a read of k may give: a call that    *)
(* returned Ok leaves exactly one, a call that failed or was cut short by  *)
(* a crash leaves its effect possible, now or later.                       *)
(***************************************************************************)
CONSTANTS Keys, Values, Absent

VARIABLES dict, permitted

vars == <<dict, permitted>>

Answers == Values \cup {Absent}

Init ==
  /\ dict = [k \in Keys |-> Absent]
  /\ permitted = [k \in Keys |-> {Absent}]

(* Whatever becomes visible had been asked for, by this call or by an      *)
(* earlier one that failed, and a key outside S that can be read keeps its *)
(* value: only a call on a key changes or removes it.                      *)
Settled(S) ==
  /\ dict' \in [Keys -> Answers]
  /\ \A k \in Keys : dict'[k] \in permitted'[k]
  /\ \A k \in Keys \ S : dict[k] # Absent => dict'[k] = dict[k]

(* A put of x, or a delete (x = Absent), starts to have an effect on k. *)
Attempt(k, x) ==
  /\ permitted' = [permitted EXCEPT ![k] = @ \cup {x}]
  /\ Settled({k})

(* The call returned Ok: from here on only x can be read. *)
Acknowledge(k, x) ==
  /\ x \in permitted[k]
  /\ permitted' = [permitted EXCEPT ![k] = {x}]
  /\ Settled({k})

(* clear() returned Ok. *)
AcknowledgeClear ==
  /\ permitted' = [k \in Keys |-> {Absent}]
  /\ Settled({})

Next ==
  \/ \E k \in Keys, x \in Answers : Attempt(k, x) \/ Acknowledge(k, x)
  \/ AcknowledgeClear

Spec == Init /\ [][Next]_vars
=============================================================================
