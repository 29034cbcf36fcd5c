--------------------------- MODULE ObjectHandles ---------------------------
(* The handles the TEE gives out for objects: TEE_ObjectHandle. *)
CONSTANTS
  Handles,  \* handles of the TEE (bounds how many are open)
  Null,     \* the null handle
  Absent    \* no object, no value, no key

ASSUME HandlesAssumption ==
  Null \notin Handles /\ Absent \notin Handles /\ Null # Absent
=============================================================================
