----------------------------- MODULE MCMpThread -----------------------------
(* Instances of MpThread for TLC. *)
EXTENDS MpThread, TLC

Symmetry == Permutations(Workers)

\* All but the history variables, which no guard reads.
NoHistory == <<pc, node, exception, pending, ide, gil, mtx, gc, hand, at>>

\* Liveness is followed up to the first GIL given up by a thread that does not have it.
OwnGil == ~stolen

=============================================================================
