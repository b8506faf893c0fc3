------------------------------ MODULE IdeFrame ------------------------------
(***************************************************************************)
(* The commands of the IDE: ide_dbg_update of omv/ide_dbg.c, a parser that *)
(* is fed what each read of the serial line returns, and its handlers of   *)
(* file transfer, script hand-over and pictures (IdePicture).  A frame is  *)
(* 0x30, a command and four bytes of length; a payload follows outside the *)
(* parser, in a packet of its own, and the handler fetches it with         *)
(* read_until.  A handler that refuses leaves its payload to the parser.   *)
(*                                                                         *)
(* External: the IDE, which sends a header in one piece, a payload in one  *)
(* or two, and waits for an answer before it goes on; it asks for the      *)
(* status of the file after each step and goes on only if that is good.    *)
(* The card may fail any operation, and malloc that of the chunks' buffer. *)
(***************************************************************************)
EXTENDS IdePicture, SequencesExt

CONSTANTS
  Contents,    \* the files the IDE may send
  Scripts,     \* the scripts the IDE may send
  ChunkSize,   \* bytes of a file in one WRITEFILE
  Digest(_),   \* SHA-256 of a file up to its first zero byte, all that strncmp compares
  MaxLink      \* bound: packets under way to the board

Byte == 0..255

\* A length that the IDE sends fits in a byte here, so that the other three of its
\* field are zero; and a byte is enough to tell the digests apart.
ASSUME FrameAssumption ==
  /\ Contents \in Seq(Seq(Byte) \ {<<>>}) /\ Len(Contents) \in Byte
  /\ Scripts \subseteq Seq(Byte) /\ \A s \in Scripts : Len(s) \in Byte
  /\ ChunkSize \in Byte \ {0} /\ MaxLink \in Nat
  /\ \A k \in DOMAIN Contents : Digest(Contents[k]) \in Byte
  /\ None \notin Byte \cup Seq(Byte)

HEAD == 48
SCRIPT_EXEC == 5
FB_ENABLE == 13
CREATEFILE == 32
WRITEFILE == 33
SCRIPT_RUNNING == 135
FRAME_SIZE == 129
FRAME_DUMP == 130
QUERY_FILE_STAT == 160
VERIFYFILE == 161

VARIABLES
  link,          \* packets under way
  data,          \* what the parser has not looked at of the last read
  state, cmd, data_length, recv_lack,   \* ide_dbg_state_t
  got,           \* payload that read_until has fetched
  errcode, file, chunk_buffer, info,    \* ide_dbg_sv_file; file is what was written
  card,          \* the file on the card
  asked,         \* the IDE: the command it waits for
  transfer, sending, sent,              \* the IDE: its file, and how much it has sent
  announced,     \* the IDE: the picture it has been told of
  expected,      \* history: the frames sent and not yet dispatched
  refused        \* history: a payload was left to the parser, of a script that came
                 \* while another would not stop or of a chunk without a buffer

parser == <<state, cmd, data_length, recv_lack>>
sv_file == <<errcode, file, chunk_buffer, info, card>>
host == <<asked, transfer, sending, sent, announced>>
vars == <<picture, session, ipc, reply, link, data, parser, got, sv_file, host, expected, refused>>

Init ==
  /\ PictureInit
  /\ ipc = "parse" /\ reply = None
  /\ link = <<>> /\ data = <<>> /\ got = <<>>
  /\ state = "HEAD" /\ cmd = 0 /\ data_length = <<0, 0, 0, 0>> /\ recv_lack = 0
  /\ errcode = "none" /\ file = None /\ chunk_buffer = FALSE /\ info = <<0, 0>>
  /\ card = <<>>
  /\ asked = None /\ transfer = "no" /\ sending = 1 /\ sent = 0 /\ announced = None
  /\ expected = <<>> /\ refused = FALSE

Number(b) == b[1] + 256 * (b[2] + 256 * (b[3] + 256 * b[4]))
Drop(s, n) == SubSeq(s, n + 1, Len(s))

-----------------------------------------------------------------------------
(* The IDE.                                                                *)

Packets(s) == {p \in {<<s>>} \cup {<<SubSeq(s, 1, n), Drop(s, n)>> : n \in 1..Len(s) - 1} :
                 <<>> \notin ToSet(p)}

Frame(c, n) == <<HEAD, c, n, 0, 0, 0>>

\* Frames that have been sent, as far as the parser is still in step.
Send(c, n, packets) ==
  /\ asked = None
  /\ link' = link \o packets
  /\ Len(link') <= MaxLink
  /\ expected' = IF refused THEN expected ELSE Append(expected, <<c, n>>)
  /\ UNCHANGED <<picture, session, ipc, reply, data, parser, got, sv_file, refused>>

SendPayload(c, payload) ==
  \E ps \in Packets(payload) : Send(c, Len(payload), <<Frame(c, Len(payload))>> \o ps)

\* A command with an answer.
Ask(c) ==
  /\ Send(c, 0, <<Frame(c, 0)>>)
  /\ asked' = c
  /\ UNCHANGED <<transfer, sending, sent, announced>>

AskRunning == Ask(SCRIPT_RUNNING)
AskSize == Ask(FRAME_SIZE)
AskPicture == announced # None /\ Ask(FRAME_DUMP)
AskStat == transfer \in {"created", "written"} /\ Ask(QUERY_FILE_STAT)

AskVerify ==
  /\ transfer = "open" /\ sent = Len(Contents[sending])
  /\ transfer' = "verify"
  /\ Send(VERIFYFILE, 0, <<Frame(VERIFYFILE, 0)>>)
  /\ asked' = VERIFYFILE
  /\ UNCHANGED <<sending, sent, announced>>

SendScript ==
  /\ \E s \in Scripts : SendPayload(SCRIPT_EXEC, s)
  /\ UNCHANGED host

SendEnable ==
  /\ \E b \in {0, 1} : Send(FB_ENABLE, 1, <<Frame(FB_ENABLE, 1) \o <<b>>>>)
  /\ UNCHANGED host

\* What the IDE announces of a file.
Info(k) == <<ChunkSize, Digest(Contents[k])>>

SendCreate ==
  /\ transfer = "no"
  /\ transfer' = "created"
  /\ sending' \in DOMAIN Contents
  /\ sent' = 0
  /\ SendPayload(CREATEFILE, Info(sending'))
  /\ UNCHANGED <<asked, announced>>

SendChunk ==
  /\ transfer = "open" /\ sent < Len(Contents[sending])
  /\ transfer' = "written"
  /\ sent' = IF sent + ChunkSize < Len(Contents[sending]) THEN sent + ChunkSize
                                                          ELSE Len(Contents[sending])
  /\ SendPayload(WRITEFILE, SubSeq(Contents[sending], sent + 1, sent'))
  /\ UNCHANGED <<asked, sending, announced>>

\* The transfer is cancelled.
Abandon ==
  /\ asked = None /\ transfer = "open"
  /\ transfer' = "no" /\ sent' = 0
  /\ UNCHANGED <<picture, session, ipc, reply, link, data, parser, got, sv_file,
                 asked, sending, announced, expected, refused>>

Answer ==
  /\ asked # None /\ reply # None
  /\ asked' = None /\ reply' = None
  /\ transfer' = CASE asked = QUERY_FILE_STAT -> IF reply[2] = "none" THEN "open" ELSE "no"
                   [] asked = VERIFYFILE -> "no"
                   [] OTHER -> transfer
  /\ sent' = IF transfer' = "no" THEN 0 ELSE sent
  /\ announced' = CASE asked = FRAME_SIZE -> reply[2]
                    [] asked = FRAME_DUMP -> None
                    [] OTHER -> announced
  /\ UNCHANGED <<picture, session, ipc, link, data, parser, got, sv_file,
                 sending, expected, refused>>

Ide == \/ AskRunning \/ AskSize \/ AskPicture \/ AskStat \/ AskVerify
       \/ SendScript \/ SendEnable \/ SendCreate \/ SendChunk \/ Abandon

-----------------------------------------------------------------------------
(* The parser.                                                             *)

others == <<picture, session, sv_file, host, refused>>

Read ==
  /\ ipc = "parse" /\ data = <<>> /\ link # <<>>
  /\ data' = Head(link)
  /\ link' = Tail(link)
  /\ UNCHANGED <<others, ipc, reply, parser, got, expected>>

Parse(s) == ipc = "parse" /\ data # <<>> /\ state = s

FrameHead ==
  /\ Parse("HEAD")
  /\ state' = IF data[1] = HEAD THEN "CMD" ELSE "HEAD"
  /\ data' = Tail(data)
  /\ UNCHANGED <<others, ipc, reply, cmd, data_length, recv_lack, got, link, expected>>

FrameCmd ==
  /\ Parse("CMD")
  /\ cmd' = data[1]
  /\ state' = "DATA_LENGTH"
  /\ data' = Tail(data)
  /\ UNCHANGED <<others, ipc, reply, data_length, recv_lack, got, link, expected>>

\* mutated: one byte too many
FrameDataLengthFive ==
  /\ Parse("DATA_LENGTH")
  /\ recv_lack' = 5
  /\ state' = "RECV"
  /\ UNCHANGED <<others, ipc, reply, cmd, data_length, got, link, data, expected>>

FrameDataLength ==
  /\ Parse("DATA_LENGTH")
  /\ recv_lack' = 4
  /\ state' = "RECV"
  /\ UNCHANGED <<others, ipc, reply, cmd, data_length, got, link, data, expected>>

\* memcpy to the start of data_length.
Overwrite(n) == [j \in 1..4 |-> IF j <= n THEN data[j] ELSE data_length[j]]

\* mutated: the dispatch that consumes a byte itself is forgotten
FrameRecvAll ==
  /\ Parse("RECV")
  /\ Len(data) >= recv_lack
  /\ data_length' = Overwrite(recv_lack)
  /\ recv_lack' = 0
  /\ state' = "DISPATCH"
  /\ data' = Drop(data, recv_lack)
  /\ UNCHANGED <<others, ipc, reply, cmd, got, link, expected>>

\* A length that comes in two reads loses a byte, and its second part
\* overwrites the first.
FrameRecv ==
  /\ Parse("RECV")
  /\ IF Len(data) >= recv_lack
     THEN /\ data_length' = Overwrite(recv_lack)
          /\ recv_lack' = 0
          /\ state' = "DISPATCH"
          /\ data' = Drop(data, recv_lack - 1)
     ELSE /\ data_length' = Overwrite(Len(data) - 1)
          /\ recv_lack' = recv_lack - (Len(data) - 1)
          /\ data' = <<>>
          /\ UNCHANGED state
  /\ UNCHANGED <<others, ipc, reply, cmd, got, link, expected>>

-----------------------------------------------------------------------------
(* The commands.                                                           *)

Dispatch(c) == Parse("DISPATCH") /\ cmd = c

\* The end of a command: the parser takes the next byte for a head.  The value
\* of cmd is of no use any more; it is cleared to keep the states few.
Done ==
  /\ ipc' = "parse"
  /\ state' = "HEAD"
  /\ data' = Tail(data)
  /\ got' = <<>>
  /\ cmd' = 0
  /\ expected' = IF refused \/ expected = <<>> THEN <<>> ELSE Tail(expected)
  /\ UNCHANGED <<data_length, recv_lack>>

\* The handler goes on at "there" when what it has called returns.
Block(there) ==
  /\ ipc' = there
  /\ UNCHANGED <<parser, data, got, expected>>

\* read_until.
ReadUntil ==
  /\ ipc = "recv" /\ Len(got) < Number(data_length) /\ link # <<>>
  /\ LET n == IF Len(Head(link)) <= Number(data_length) - Len(got)
              THEN Len(Head(link)) ELSE Number(data_length) - Len(got)
     IN /\ got' = got \o SubSeq(Head(link), 1, n)
        /\ link' = IF n = Len(Head(link)) THEN Tail(link)
                   ELSE <<Drop(Head(link), n)>> \o Tail(link)
  /\ UNCHANGED <<others, ipc, reply, parser, data, expected>>

Received(c) == ipc = "recv" /\ cmd = c /\ Len(got) = Number(data_length)

ScriptRunning ==
  /\ Dispatch(SCRIPT_RUNNING)
  /\ reply' = <<SCRIPT_RUNNING, running>>
  /\ Done
  /\ UNCHANGED <<others, link>>

\* A running script is interrupted (IdeSession) and has 100 ms to end.
ScriptExec ==
  /\ Dispatch(SCRIPT_EXEC)
  /\ Block("pause")
  /\ UNCHANGED <<others, link, reply>>

ScriptExecTest ==
  /\ ipc = "pause"
  /\ IF running THEN refused' = TRUE /\ Done
                ELSE UNCHANGED refused /\ Block("recv")
  /\ UNCHANGED <<picture, session, sv_file, host, link, reply>>

ScriptReceived ==
  /\ Received(SCRIPT_EXEC)
  /\ running' = TRUE
  /\ Done
  /\ UNCHANGED <<picture, script, sv_file, host, refused, link, reply>>

QueryFileStat ==
  /\ Dispatch(QUERY_FILE_STAT)
  /\ reply' = <<QUERY_FILE_STAT, errcode>>
  /\ Done
  /\ UNCHANGED <<others, link>>

\* fclose writes what is buffered, which the card may refuse without notice.
Flushed == IF file = None THEN {card} ELSE {file, <<>>}

CreateFile ==
  /\ Dispatch(CREATEFILE)
  /\ info' = <<0, 0>>
  /\ IF Number(data_length) = Len(info)
     THEN Block("recv") /\ UNCHANGED errcode
     ELSE Done /\ errcode' = "path"
  /\ UNCHANGED <<file, chunk_buffer, card, picture, session, host, refused, link, reply>>

\* A file that is still open is closed first.  Without memory for a chunk the
\* status is good all the same.
CreateReceived ==
  /\ Received(CREATEFILE)
  /\ info' = got
  /\ \/ /\ file' = <<>> /\ card' = <<>>
        /\ chunk_buffer' \in BOOLEAN
        /\ errcode' = "none"
     \/ /\ file' = None /\ card' \in Flushed
        /\ chunk_buffer' = FALSE
        /\ errcode' = "open"
  /\ Done
  /\ UNCHANGED <<picture, session, host, refused, link, reply>>

WriteFile ==
  /\ Dispatch(WRITEFILE)
  /\ IF file = None \/ ~chunk_buffer \/ info[1] < Number(data_length)
     THEN /\ errcode' = "write"
          /\ refused' = (refused \/ (file # None /\ ~chunk_buffer))
          /\ Done
     ELSE Block("recv") /\ UNCHANGED <<errcode, refused>>
  /\ UNCHANGED <<file, chunk_buffer, info, card, picture, session, host, link, reply>>

\* mutated: an error of fwrite is overlooked
WriteReceivedBlind ==
  /\ Received(WRITEFILE)
  /\ file' \in {file, file \o got}
  /\ errcode' = "none"
  /\ Done
  /\ UNCHANGED <<card, chunk_buffer, info, picture, session, host, refused, link, reply>>

WriteReceived ==
  /\ Received(WRITEFILE)
  /\ \/ /\ file' = file \o got
        /\ errcode' = "none"
        /\ UNCHANGED card
     \/ /\ file' = None /\ card' \in Flushed
        /\ errcode' = "write"
  /\ Done
  /\ UNCHANGED <<chunk_buffer, info, picture, session, host, refused, link, reply>>

\* mutated: the digests are not compared
VerifyFileBlind ==
  /\ Dispatch(VERIFYFILE)
  /\ file # None
  /\ file' = None
  /\ card' \in Flushed
  /\ reply' = <<VERIFYFILE, "ok">>
  /\ Done
  /\ UNCHANGED <<errcode, chunk_buffer, info, picture, session, host, refused, link>>

\* What fread gets of the file: it may fail early, which is taken for the end.
Readable(content) == {SubSeq(content, 1, n) : n \in 0..Len(content)}

\* The file is closed, read again and compared with the digest of CREATEFILE.
\* Without a file fclose(NULL): what happens then is not defined.
VerifyFile ==
  /\ Dispatch(VERIFYFILE)
  /\ file' = None
  /\ IF file = None
     THEN Block("crash") /\ UNCHANGED <<card, reply>>
     ELSE /\ card' \in Flushed
          /\ \/ reply' = <<VERIFYFILE, "not open">>
             \/ \E c \in Readable(card') :
                  reply' = <<VERIFYFILE, IF Digest(c) = info[2] THEN "ok" ELSE "sha2">>
          /\ Done
  /\ UNCHANGED <<errcode, chunk_buffer, info, picture, session, host, refused, link>>

\* mutated: without a picture nothing is answered
FrameSizeSilent ==
  /\ Dispatch(FRAME_SIZE)
  /\ Announce
  /\ IF NeedsFrame
     THEN Block("frame") /\ UNCHANGED reply
     ELSE Done /\ reply' = IF Skip THEN reply ELSE <<FRAME_SIZE, Size>>
  /\ UNCHANGED <<session, sv_file, host, refused, link>>

FrameSize ==
  /\ Dispatch(FRAME_SIZE)
  /\ Announce
  /\ IF NeedsFrame
     THEN Block("frame") /\ UNCHANGED reply
     ELSE Done /\ reply' = <<FRAME_SIZE, Size>>
  /\ UNCHANGED <<session, sv_file, host, refused, link>>

\* kd_mpi_wbc_dump_frame has returned.
FrameSizeEncode ==
  /\ ipc = "frame"
  /\ \E p \in Pic \cup {None} : Encode(p) /\ reply' = <<FRAME_SIZE, p>>
  /\ Done
  /\ UNCHANGED <<session, sv_file, host, refused, link>>

FrameDump ==
  /\ Dispatch(FRAME_DUMP)
  /\ reply' = <<FRAME_DUMP, Dump>>
  /\ Sent
  /\ Done
  /\ UNCHANGED <<session, sv_file, host, refused, link>>

\* The payload of FB_ENABLE is taken only if it came with the header; the
\* parser then looks at it again.
FbEnable ==
  /\ Dispatch(FB_ENABLE)
  /\ enable_pic' = IF Len(data) > 1 THEN data[2] # 0 ELSE enable_pic
  /\ Done
  /\ UNCHANGED <<fb_from, fb_from_current, fb_data, wbc_enabled, wbc_jpeg,
                 session, sv_file, host, refused, link, reply>>

Commands == {SCRIPT_EXEC, FB_ENABLE, CREATEFILE, WRITEFILE, SCRIPT_RUNNING, FRAME_SIZE,
             FRAME_DUMP, QUERY_FILE_STAT, VERIFYFILE}

\* Unknown commands, and those of the other modules.
OtherCommand ==
  /\ Parse("DISPATCH") /\ cmd \notin Commands
  /\ Done
  /\ UNCHANGED <<others, link, reply>>

IdeTask ==
  \/ Read \/ FrameHead \/ FrameCmd \/ FrameDataLength \/ FrameRecv \/ ReadUntil
  \/ ScriptRunning \/ ScriptExec \/ ScriptExecTest \/ ScriptReceived
  \/ QueryFileStat \/ CreateFile \/ CreateReceived \/ WriteFile \/ WriteReceived
  \/ VerifyFile
  \/ FrameSize \/ FrameSizeEncode \/ FrameDump \/ FbEnable \/ OtherCommand

\* The main thread gets the processor while the IDE task is blocked in select,
\* in a read, in the pause of SCRIPT_EXEC or in the display's driver.
Main ==
  /\ data = <<>> \/ ipc \in {"pause", "recv", "frame"}
  /\ MainThread
  /\ UNCHANGED <<link, data, parser, got, sv_file, host, expected, refused>>

Next == IdeTask \/ Main \/ Ide \/ Answer

Spec == Init /\ [][Next]_vars

\* The IDE task goes on, whatever the script does, and the IDE reads.
FairSpec == Spec /\ WF_vars(IdeTask) /\ WF_vars(Answer)

-----------------------------------------------------------------------------
\* What usb_tx sends.
Replies == ({SCRIPT_RUNNING} \X BOOLEAN)
           \cup ({QUERY_FILE_STAT} \X {"none", "path", "open", "write"})
           \cup ({VERIFYFILE} \X {"ok", "sha2", "not open"})
           \cup ({FRAME_SIZE, FRAME_DUMP} \X (Pic \cup {None}))

ASSUME ReplyAssumption == None \notin Replies

\* The type of every variable; an answer to a payload taken for a command can be
\* taken for that to a question.
TypeOK ==
  /\ PictureTypeOK
  /\ ipc \in {"parse", "pause", "recv", "frame", "crash"}
  /\ reply \in Replies \cup {None}
  /\ link \in Seq(Seq(Byte)) /\ Len(link) <= MaxLink
  /\ data \in Seq(Byte) /\ got \in Seq(Byte)
  /\ state \in {"HEAD", "CMD", "DATA_LENGTH", "RECV", "DISPATCH"}
  /\ cmd \in Byte /\ data_length \in [1..4 -> Byte] /\ recv_lack \in 0..4
  /\ errcode \in {"none", "path", "open", "write"}
  /\ file = None \/ file \in Seq(Byte)
  /\ card \in Seq(Byte) /\ info \in Byte \X Byte
  /\ chunk_buffer \in BOOLEAN /\ refused \in BOOLEAN
  /\ transfer \in {"no", "created", "open", "written", "verify"}
  /\ asked \in Byte \cup {None} /\ sending \in Nat /\ sent \in Nat
  /\ refused \/ announced \in Pic \cup {None}
  /\ expected \in Seq(Byte \X Byte)

\* The parser stays in step with the IDE: what it dispatches is the oldest
\* frame under way, and no payload is taken for a frame, except one that was left
\* to it: the text of a script while another would not stop, or a chunk for which
\* there was no memory.
InStep ==
  state = "DISPATCH" /\ ~refused
    => expected # <<>> /\ Head(expected) = <<cmd, Number(data_length)>>

\* The file that the IDE believes is being written is: with a good status the
\* file is open and holds exactly what the IDE has sent, so that the next chunk
\* has its file (if not its buffer) and VERIFYFILE never closes one that is not open.
FileKept ==
  ~refused => /\ ipc # "crash"
              /\ transfer = "open" => file = SubSeq(Contents[sending], 1, sent)

\* VERIFYFILE approves only if what it could read of the card has a digest that
\* agrees, up to a zero byte, with that of the file the IDE has sent.
Verifiable == \E c \in Readable(card) : Digest(c) = Digest(Contents[sending])
Verified == reply = <<VERIFYFILE, "ok">> /\ ~refused => Verifiable

\* The commands of a transfer, and those of them under way.
FileCmds == {CREATEFILE, WRITEFILE, VERIFYFILE}
FileFrames(es) == {f \in ToSet(es) : f[1] \in FileCmds}

Stage == IF refused THEN "upset" ELSE transfer
Due == FileFrames(expected) # {}
Approved == reply = <<VERIFYFILE, "ok">>

\* Frames, payloads in pieces, a parser and handlers that wait copy a file step by
\* step until a payload is left to the parser: no chunk is written twice, dropped
\* without notice or refused for want of a file, and each status and verdict the IDE
\* is told is that of the step before it.
Transfer == INSTANCE FileTransfer WITH stage <- Stage, due <- Due, approved <- Approved
TransferSpec == Transfer!Spec

\* The bytes the IDE gets are those of the picture whose size it was told,
\* although scripts show others, change the source or end in between, unless a
\* payload that was left to the parser has asked for one.
PictureWhole ==
  reply # None /\ asked = FRAME_DUMP /\ ~refused => reply[2] = announced

\* Whatever the IDE asks it is told, as long as no payload is left to the parser,
\* which may swallow the next question with it.
Answered == asked # None ~> asked = None \/ refused
=============================================================================
