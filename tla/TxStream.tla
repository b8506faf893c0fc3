------------------------------ MODULE TxStream ------------------------------
(***************************************************************************)
(* What the text channel from a script to the IDE promises, without ring,  *)
(* pointers or locks: bytes leave in the order they were written, no byte  *)
(* twice and none invented.  It is not lossless: a write that brings Cap   *)
(* or more bytes together drops the Cap oldest ones.                       *)
(***************************************************************************)
EXTENDS Naturals, Sequences

CONSTANT Cap     \* the size of the buffer

VARIABLES
  sent,          \* bytes written so far; byte k is the k-th one
  queue,         \* bytes written and neither read nor dropped
  got            \* bytes read, in order

Init == sent = 0 /\ queue = <<>> /\ got = <<>>

Fresh(n) == [i \in 1..n |-> sent + i]

Write(n) ==
  LET q == queue \o Fresh(n)
  IN /\ sent' = sent + n
     /\ queue' = IF Len(q) < Cap THEN q ELSE SubSeq(q, Cap + 1, Len(q))
     /\ UNCHANGED got

Read(n) ==
  /\ got' = got \o SubSeq(queue, 1, n)
  /\ queue' = SubSeq(queue, n + 1, Len(queue))
  /\ UNCHANGED sent

Next == \/ \E n \in 1..Cap : Write(n)
        \/ \E n \in 1..Len(queue) : Read(n)

Spec == Init /\ [][Next]_<<sent, queue, got>>
=============================================================================
