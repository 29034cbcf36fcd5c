---------------------------- MODULE MCParameters ----------------------------
(***************************************************************************)
(* Instances of Parameters: signatures as tuples.                          *)
(***************************************************************************)
EXTENDS Parameters

Sig(a, b, c, d) == [i \in Slots |-> <<a, b, c, d>>[i + 1]]

MCSignatures ==
  {Sig("MemrefOutput", "None", "None", "MemrefInout"),
   Sig("MemrefInput", "ValueInout", "None", "None")}

MCExpected ==
  {Sig("MemrefOutput", "None", "None", "MemrefInout"),
   Sig(Any, "ValueInout", "None", Any)}
=============================================================================
