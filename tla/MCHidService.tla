---------------------------- MODULE MCHidService ----------------------------
(* HidService for TLC. *)
EXTENDS HidService, TLC

Symmetry == Permutations(Threads)
=============================================================================
