---------------------------- MODULE FileTransfer ----------------------------
(***************************************************************************)
(* What copying a file from the IDE to the card promises, without frames,  *)
(* packets, handlers or buffers: each step of the IDE is carried out once, *)
(* and leaves the file either as long as what was sent or closed after a   *)
(* failure; the IDE is told the truth about that before it goes on, and a  *)
(* file is approved only if the digest of what can be read of the card is, *)
(* up to a zero byte, that of the file sent.  What a close leaves on the   *)
(* card is never certain.  A payload that is left unread, of a script that *)
(* is refused or of a chunk without a buffer, upsets the transfer, and     *)
(* then nothing is promised any more.                                      *)
(***************************************************************************)
EXTENDS Naturals, Sequences

CONSTANTS
  Contents,    \* the files that may be sent
  ChunkSize,   \* bytes sent in one step
  Digest(_),   \* a file's digest up to its first zero byte
  None         \* no file is open

VARIABLES
  stage,       \* the transfer as the IDE sees it, or "upset"
  sending,     \* its file
  sent,        \* how much of it has been sent
  due,         \* the last step of the IDE is still to be carried out
  file,        \* what has been written to the open file
  card,        \* the file on the card
  approved     \* the answer that the file is whole is under way

board == <<file, card>>
vars == <<stage, sending, sent, due, board, approved>>

Init == stage = "no" /\ sent = 0 /\ ~due /\ file = None /\ card = <<>> /\ ~approved

Content == Contents[sending]
Begun == stage \in {"created", "written"}

\* What the card may have when the file is closed.
Closed == IF file = None THEN {card} ELSE {file, <<>>}

Fail == file' = None /\ card' \in Closed

-----------------------------------------------------------------------------
(* The IDE.                                                                *)

Begin ==
  /\ stage = "no" /\ ~due
  /\ stage' = "created" /\ sending' \in DOMAIN Contents /\ sent' = 0 /\ due'
  /\ UNCHANGED <<board, approved>>

Chunk ==
  /\ stage = "open" /\ ~due
  /\ stage' = "written" /\ sent' \in sent + 1..Len(Content) /\ sent' <= sent + ChunkSize /\ due'
  /\ UNCHANGED <<sending, board, approved>>

\* The IDE learns that its step was carried out, or that it has failed.
Good ==
  /\ Begun /\ ~due /\ file = SubSeq(Content, 1, sent)
  /\ stage' = "open"
  /\ UNCHANGED <<sending, sent, due, board, approved>>

Bad ==
  /\ Begun /\ ~due /\ file = None
  /\ stage' = "no" /\ sent' = 0
  /\ UNCHANGED <<sending, due, board, approved>>

Check ==
  /\ stage = "open" /\ ~due /\ sent = Len(Content)
  /\ stage' = "verify" /\ due'
  /\ UNCHANGED <<sending, sent, board, approved>>

Finish ==
  /\ stage = "verify" /\ ~due
  /\ stage' = "no" /\ sent' = 0 /\ ~approved'
  /\ UNCHANGED <<sending, due, board>>

Abandon ==
  /\ stage = "open" /\ ~due
  /\ stage' = "no" /\ sent' = 0
  /\ UNCHANGED <<sending, due, board, approved>>

-----------------------------------------------------------------------------
(* The board.                                                              *)

Carry(s) == stage = s /\ due /\ ~due' /\ UNCHANGED <<stage, sending, sent>>

Create ==
  /\ Carry("created")
  /\ (file' = <<>> /\ card' = <<>>) \/ Fail
  /\ UNCHANGED approved

Write ==
  /\ Carry("written")
  /\ (file' = SubSeq(Content, 1, sent) /\ UNCHANGED card) \/ Fail
  /\ UNCHANGED approved

Verify ==
  /\ Carry("verify")
  /\ file # None /\ Fail
  /\ approved' \in BOOLEAN
  /\ approved' => \E n \in 0..Len(card') : Digest(SubSeq(card', 1, n)) = Digest(Content)

Upset == stage' = "upset"

Next == \/ Begin \/ Chunk \/ Good \/ Bad \/ Check \/ Finish \/ Abandon
        \/ Create \/ Write \/ Verify \/ Upset

Spec == Init /\ [][Next]_vars
=============================================================================
