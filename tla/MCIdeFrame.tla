----------------------------- MODULE MCIdeFrame -----------------------------
(* TLC instance of the commands of the IDE: a file of one chunk and one of *)
(* two, and a script whose text looks like the start of a frame.           *)
EXTENDS IdeFrame

MCContents == <<<<HEAD>>, <<1, HEAD>>>>
\* The file of two bytes and its first byte have digests that differ only behind
\* a zero byte.
MCDigest(s) == CASE s = <<HEAD>> -> 1
                 [] s \in {<<1>>, <<1, HEAD>>} -> 2
                 [] OTHER -> 0
MCScripts == {<<HEAD, 1, 1>>}

NoPicture ==
  /\ {fb_from, fb_from_current} = {"none"} /\ enable_pic /\ ~wbc_enabled
  /\ {fb_data, wbc_jpeg, announced} = {None}
NoFile == transfer = "no" /\ info = <<0, 0>>

\* Bounds: a session has a file or pictures (neither reads a variable of the
\* other); what the parser makes of a refused script is followed where there is none
\* of the two, and of a chunk without a buffer until the IDE has asked for its status;
\* the frames of the display do not differ, and are not switched off by the IDE.
Bounds ==
  /\ NoPicture \/ NoFile
  /\ refused => NoPicture /\ (NoFile \/ (transfer = "written" /\ ~chunk_buffer))
  /\ ~enable_pic => ~wbc_enabled /\ wbc_jpeg = None
  /\ wbc_jpeg # None => wbc_jpeg = CHOOSE p \in Pic : TRUE
=============================================================================
