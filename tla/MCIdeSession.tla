---------------------------- MODULE MCIdeSession ----------------------------
(* TLC instance of the sessions; the bounds are in the configurations.     *)
EXTENDS IdeSession
=============================================================================
