--------------------------- MODULE MCPagedKVCache ----------------------------
(***************************************************************************)
(* PagedKVCache for TLC.  The ids are interchangeable: the caller and the  *)
(* manager only compare them, so the instances use symmetry.               *)
(***************************************************************************)
EXTENDS PagedKVCache, TLC

Symmetry == Permutations(Seqs)
=============================================================================
