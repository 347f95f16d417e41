------------------------- MODULE MCNonPagedKVCache ---------------------------
(***************************************************************************)
(* NonPagedKVCache for TLC.  The ids are interchangeable: the caller and   *)
(* the manager only compare them, so the instances use symmetry.           *)
(***************************************************************************)
EXTENDS NonPagedKVCache, TLC

Symmetry == Permutations(Seqs)
=============================================================================
