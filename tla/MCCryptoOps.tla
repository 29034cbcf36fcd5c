---------------------------- MODULE MCCryptoOps ----------------------------
(* CryptoOps for TLC: places, cells, keys and chunks are interchangeable. *)
EXTENDS CryptoOps, TLC

Symmetry == Permutations(Slots) \cup Permutations(Cells)
              \cup Permutations(KeyMaterial) \cup Permutations(Chunks)
=============================================================================
