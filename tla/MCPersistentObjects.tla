------------------------ MODULE MCPersistentObjects ------------------------
(* PersistentObjects for TLC: instances, handles and object ids are interchangeable. *)
EXTENDS PersistentObjects, TLC

Symmetry == Permutations(Tas) \cup Permutations(Handles) \cup Permutations(Ids)
=============================================================================
