----------------------------- MODULE MCSecureDb -----------------------------
(***************************************************************************)
(* Instances of SecureDb: two tables, neither name a prefix of the other   *)
(* one, so that list_entries of a table matches that table alone.          *)
(***************************************************************************)
EXTENDS SecureDb

CONSTANTS t1, t2

MCSameName == {<<t1, t1>>, <<t2, t2>>}
=============================================================================
