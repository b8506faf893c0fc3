---------------------------- MODULE MCSoftTimer ----------------------------
(* Instance of SoftTimer for TLC. *)
EXTENDS SoftTimer, TLC

Symmetry == Permutations(Timer) \cup Permutations(Setup)
=============================================================================
