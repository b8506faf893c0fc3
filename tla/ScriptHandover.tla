--------------------------- MODULE ScriptHandover ---------------------------
(***************************************************************************)
(* What the hand-over of a script from the IDE promises, without flags,    *)
(* semaphore or threads: there is one script at a time, it is received to  *)
(* its end before it is accepted, an accepted one is run at most once, and *)
(* no other is begun until it is freed.  A request that comes at the wrong *)
(* moment upsets the hand-over, and then nothing is promised any more.     *)
(***************************************************************************)
VARIABLE phase

Init == phase = "none"

Goes(here, there) == phase = here /\ phase' = there

Begin  == Goes("none", "receiving")
Accept == Goes("receiving", "accepted")
Start  == Goes("accepted", "running")
End    == Goes("running", "over")
Free   == Goes("over", "none")

\* The IDE has gone before its script could start.
Drop == Goes("accepted", "over") \/ Goes("accepted", "none")

Upset == phase' = "upset"

Next == Begin \/ Accept \/ Start \/ End \/ Free \/ Drop \/ Upset

Spec == Init /\ [][Next]_phase
=============================================================================
