---------------------------- MODULE MCIdeTxRing -----------------------------
(* TLC instance of the text ring: few bytes, every size and alignment.     *)
EXTENDS IdeTxRing
=============================================================================
