---------------------------- MODULE IdeFrameTypes ---------------------------
(***************************************************************************)
(* Facts about the bytes on the line to the IDE, and the types of the      *)
(* commands of the IDE, for any files, scripts and bounds.  The types hold *)
(* whatever comes over the line, payloads taken for commands included.     *)
(***************************************************************************)
EXTENDS IdeFrame, SequenceTheorems, TLAPS

-----------------------------------------------------------------------------
(* Sequences                                                               *)

\* What Drop leaves.
LEMMA DropLeaves ==
  ASSUME NEW S, NEW s \in Seq(S), NEW n \in 0..Len(s)
  PROVE  /\ Drop(s, n) \in Seq(S) /\ Len(Drop(s, n)) = Len(s) - n
         /\ \A i \in 1..Len(s) - n : Drop(s, n)[i] = s[i + n]
<1>1. Len(s) \in Nat /\ n \in Int /\ \A i \in n + 1..Len(s) : s[i] \in S
  BY LenProperties
<1>2. /\ SubSeq(s, n + 1, Len(s)) \in Seq(S)
      /\ Len(SubSeq(s, n + 1, Len(s))) = IF n + 1 <= Len(s) THEN Len(s) - (n + 1) + 1 ELSE 0
      /\ \A i \in 1..Len(s) - (n + 1) + 1 : SubSeq(s, n + 1, Len(s))[i] = s[n + 1 + i - 1]
  BY <1>1, SubSeqProperties
<1>3. QED
  BY <1>1, <1>2 DEF Drop

\* The first n bytes and the rest make up the whole.
LEMMA CutWhole ==
  ASSUME NEW S, NEW s \in Seq(S), NEW n \in 1..Len(s) - 1
  PROVE  /\ SubSeq(s, 1, n) \in Seq(S) /\ Len(SubSeq(s, 1, n)) = n
         /\ SubSeq(s, 1, n) \o Drop(s, n) = s
<1>1. Len(s) \in Nat /\ \A i \in 1..n : s[i] \in S
  BY LenProperties
<1>2. SubSeq(s, 1, n) \in Seq(S) /\ Len(SubSeq(s, 1, n)) = n
  BY <1>1, SubSeqProperties
<1>3. SubSeq(s, 1, n) \o SubSeq(s, n + 1, Len(s)) = SubSeq(s, 1, Len(s))
  <2>1. 1 \in 1..Len(s) + 1 /\ n \in 1 - 1..Len(s) /\ Len(s) \in n..Len(s)
    BY <1>1
  <2>2. QED
    BY <2>1, ConcatAdjacentSubSeq
<1>4. QED
  BY <1>2, <1>3, SubSeqFull DEF Drop

\* The IDE sends a payload in one packet or in two, none of them empty.
LEMMA PacketsAre ==
  ASSUME NEW s \in Seq(Byte), NEW p \in Packets(s)
  PROVE  /\ p \in Seq(Seq(Byte)) /\ Len(p) \in 1..2
         /\ \A i \in 1..Len(p) : p[i] # <<>>
         /\ Len(p) = 1 => p[1] = s
         /\ Len(p) = 2 => p[1] \o p[2] = s
<1>1. <<>> \notin ToSet(p)
  BY DEF Packets
<1>2. CASE p = <<s>>
  <2>1. p \in Seq(Seq(Byte)) /\ Len(p) = 1 /\ p[1] = s
    BY <1>2
  <2>2. QED
    BY <1>1, <2>1 DEF ToSet
<1>3. CASE p # <<s>>
  <2>1. PICK n \in 1..Len(s) - 1 : p = <<SubSeq(s, 1, n), Drop(s, n)>>
    BY <1>3 DEF Packets
  <2>2. SubSeq(s, 1, n) \in Seq(Byte) /\ SubSeq(s, 1, n) \o Drop(s, n) = s
    BY CutWhole
  <2>3. Drop(s, n) \in Seq(Byte)
    <3>1. n \in 0..Len(s)
      BY LenProperties
    <3>2. QED
      BY <3>1, DropLeaves
  <2>4. p \in Seq(Seq(Byte)) /\ Len(p) = 2 /\ p[1] = SubSeq(s, 1, n) /\ p[2] = Drop(s, n)
    BY <2>1, <2>2, <2>3
  <2>5. QED
    BY <1>1, <2>2, <2>4 DEF ToSet
<1>4. QED
  BY <1>2, <1>3

\* A header as the IDE sends it.
LEMMA FrameIs ==
  ASSUME NEW c \in Byte, NEW n \in Byte
  PROVE  /\ Frame(c, n) \in Seq(Byte) /\ Len(Frame(c, n)) = 6
         /\ Frame(c, n)[1] = HEAD /\ Frame(c, n)[2] = c /\ Frame(c, n)[3] = n
         /\ Frame(c, n)[4] = 0 /\ Frame(c, n)[5] = 0 /\ Frame(c, n)[6] = 0
BY DEF Frame, Byte, HEAD

\* The number in a length field; with three bytes of zero it is the first.
LEMMA NumberIs ==
  ASSUME NEW b \in [1..4 -> Byte]
  PROVE  /\ Number(b) \in Nat
         /\ b[2] = 0 /\ b[3] = 0 /\ b[4] = 0 => Number(b) = b[1]
<1>1. b[1] \in Byte /\ b[2] \in Byte /\ b[3] \in Byte /\ b[4] \in Byte
  OBVIOUS
<1>2. b[1] \in Nat /\ b[2] \in Nat /\ b[3] \in Nat /\ b[4] \in Nat
  BY <1>1 DEF Byte
<1>3. QED
  BY <1>2 DEF Number

\* Packets that are sent arrive behind those under way.
LEMMA LinkGrows ==
  ASSUME NEW p \in Seq(Seq(Byte)), NEW q \in Seq(Seq(Byte))
  PROVE  /\ p \o q \in Seq(Seq(Byte)) /\ Len(p \o q) = Len(p) + Len(q)
         /\ \A i \in 1..Len(p) : (p \o q)[i] = p[i]
         /\ \A i \in 1..Len(q) : (p \o q)[Len(p) + i] = q[i]
<1>1. Len(p) \in Nat /\ Len(q) \in Nat
  BY LenProperties
<1>2. QED
  BY <1>1, ConcatProperties

-----------------------------------------------------------------------------
(* The invariant                                                           *)

Payloads == {SCRIPT_EXEC, CREATEFILE, WRITEFILE}

\* What the place of a handler says of the rest: a length is received at most
\* once, a handler that waits has its last byte before it, and one that writes
\* has its file.
ParserOK ==
  /\ state = "RECV" => recv_lack \in 1..4
  /\ ipc \in {"pause", "recv", "frame"} => state = "DISPATCH" /\ data # <<>>
  /\ ipc # "recv" => got = <<>>
  /\ ipc = "pause" => cmd = SCRIPT_EXEC
  /\ ipc = "frame" => cmd = FRAME_SIZE /\ fb_from_current = "wbc"
  /\ ipc = "recv" => cmd \in Payloads
  /\ ipc = "recv" /\ cmd = CREATEFILE => Number(data_length) = 2
  /\ ipc = "recv" /\ cmd = WRITEFILE => file # None

\* A transfer is about a file of Contents, and what the IDE asks goes with it.
HostOK ==
  /\ transfer # "no" => sending \in DOMAIN Contents /\ sent <= Len(Contents[sending])
  /\ transfer = "created" => sent = 0
  /\ asked = QUERY_FILE_STAT => transfer \in {"created", "written"}
  /\ asked = VERIFYFILE <=> transfer = "verify"

\* The types of the parser and the line, and of the rest.
LineTypes ==
  /\ ipc \in {"parse", "pause", "recv", "frame", "crash"}
  /\ data \in Seq(Byte) /\ got \in Seq(Byte)
  /\ state \in {"HEAD", "CMD", "DATA_LENGTH", "RECV", "DISPATCH"}
  /\ cmd \in Byte /\ data_length \in [1..4 -> Byte] /\ recv_lack \in 0..4
  /\ expected \in Seq(Byte \X Byte)

LinkTypes == link \in Seq(Seq(Byte)) /\ Len(link) <= MaxLink

FileTypes ==
  /\ errcode \in {"none", "path", "open", "write"}
  /\ file = None \/ file \in Seq(Byte)
  /\ card \in Seq(Byte) /\ info \in Byte \X Byte
  /\ chunk_buffer \in BOOLEAN

HostTypes ==
  /\ transfer \in {"no", "created", "open", "written", "verify"}
  /\ asked \in Byte \cup {None} /\ sending \in Nat /\ sent \in Nat
  /\ refused \/ announced \in Pic \cup {None}

\* TypeOK is made of these parts.
LEMMA Types ==
  TypeOK <=> /\ PictureTypeOK /\ LineTypes /\ LinkTypes /\ FileTypes /\ HostTypes
             /\ reply \in Replies \cup {None} /\ refused \in BOOLEAN
BY DEF TypeOK, LineTypes, LinkTypes, FileTypes, HostTypes

\* And so it is after a step.
LEMMA TypesNext ==
  TypeOK' <=> /\ PictureTypeOK' /\ LineTypes' /\ LinkTypes' /\ FileTypes' /\ HostTypes'
              /\ reply' \in Replies \cup {None} /\ refused' \in BOOLEAN
BY DEF TypeOK, LineTypes, LinkTypes, FileTypes, HostTypes

-----------------------------------------------------------------------------
(* Ends of commands                                                        *)

\* The end of a command leaves the parser between two frames.
LEMMA DoneTypes ==
  ASSUME TypeOK, data # <<>>, Done
  PROVE  LineTypes' /\ ParserOK'
<1>1. Tail(data) \in Seq(Byte) /\ <<>> \in Seq(Byte) /\ 0 \in Byte
  BY HeadTailProperties, EmptySeq DEF TypeOK, Byte
<1>2. expected' \in Seq(Byte \X Byte)
  <2>1. CASE refused \/ expected = <<>>
    BY <2>1 DEF Done
  <2>2. CASE ~refused /\ expected # <<>>
    BY <2>2, HeadTailProperties DEF Done, TypeOK
  <2>3. QED
    BY <2>1, <2>2
<1>3. LineTypes'
  BY <1>1, <1>2 DEF Done, TypeOK, LineTypes
<1>4. QED
  BY <1>3 DEF Done, ParserOK

\* A handler that waits keeps what the parser has.
LEMMA BlockTypes ==
  ASSUME TypeOK, NEW there \in {"pause", "recv", "frame", "crash"}, Block(there)
  PROVE  LineTypes'
BY DEF TypeOK, LineTypes, Block, parser

-----------------------------------------------------------------------------
(* Steps of the IDE                                                        *)

\* What the places of handlers are about stays as it is.
LEMMA ParserStays ==
  ASSUME ParserOK, UNCHANGED <<fb_from_current, ipc, data, parser, got, file>>
  PROVE  ParserOK'
BY DEF ParserOK, parser, Number

\* A command that is sent changes only the line and the frames expected.
LEMMA SendTypes ==
  ASSUME TypeOK, ParserOK, NEW c \in Byte, NEW n \in Byte, NEW ps \in Seq(Seq(Byte)),
         Send(c, n, ps)
  PROVE  /\ PictureTypeOK' /\ LineTypes' /\ LinkTypes' /\ FileTypes'
         /\ reply' \in Replies \cup {None} /\ refused' = refused /\ ParserOK'
<1>1. LinkTypes'
  BY LinkGrows DEF Send, TypeOK, LinkTypes
<1>2. LineTypes'
  <2>1. expected' \in Seq(Byte \X Byte)
    <3>1. <<c, n>> \in Byte \X Byte
      OBVIOUS
    <3>2. QED
      BY <3>1, AppendProperties DEF Send, TypeOK
  <2>2. QED
    BY <2>1 DEF Send, TypeOK, LineTypes, parser
<1>3. PictureTypeOK' /\ FileTypes' /\ reply' \in Replies \cup {None} /\ refused' = refused
  BY DEF Send, TypeOK, FileTypes, PictureTypeOK, picture, session, sv_file
<1>4. ParserOK'
  <2>1. UNCHANGED <<fb_from_current, ipc, data, parser, got, file>>
    BY DEF Send, picture, sv_file
  <2>2. QED
    BY <2>1, ParserStays
<1>5. QED
  BY <1>1, <1>2, <1>3, <1>4

\* A command and its payload go as one frame and one or two packets more.
LEMMA PayloadSent ==
  ASSUME NEW c \in Byte, NEW s \in Seq(Byte), Len(s) \in Byte, SendPayload(c, s)
  PROVE  \E ps \in Packets(s) : /\ <<Frame(c, Len(s))>> \o ps \in Seq(Seq(Byte))
                                /\ Send(c, Len(s), <<Frame(c, Len(s))>> \o ps)
<1>1. PICK ps \in Packets(s) : Send(c, Len(s), <<Frame(c, Len(s))>> \o ps)
  BY DEF SendPayload
<1>2. ps \in Seq(Seq(Byte)) /\ <<Frame(c, Len(s))>> \in Seq(Seq(Byte))
  <2>1. Frame(c, Len(s)) \in Seq(Byte)
    BY FrameIs
  <2>2. ps \in Seq(Seq(Byte))
    BY <1>1, PacketsAre
  <2>3. QED
    BY <2>1, <2>2
<1>3. QED
  BY <1>1, <1>2, LinkGrows

\* The payloads that are sent: bytes, and no more than a length can say.
LEMMA TextTypes ==
  /\ \A s \in Scripts : s \in Seq(Byte) /\ Len(s) \in Byte
  /\ \A k \in DOMAIN Contents : /\ k \in Byte /\ k # 0 /\ Contents[k] \in Seq(Byte)
                                /\ Info(k) \in Seq(Byte)
                                /\ Len(Info(k)) = 2 /\ 2 \in Byte
<1>1. /\ Contents \in Seq(Seq(Byte)) /\ Len(Contents) \in Byte
      /\ \A s \in Scripts : s \in Seq(Byte) /\ Len(s) \in Byte
      /\ ChunkSize \in Byte
  <2>1. Contents \in Seq(Seq(Byte) \ {<<>>})
    BY FrameAssumption
  <2>2. Contents \in Seq(Seq(Byte))
    BY <2>1, SeqMonotonic
  <2>3. QED
    BY <2>2, FrameAssumption
<1>2. ASSUME NEW k \in DOMAIN Contents
      PROVE  k \in Byte /\ k # 0 /\ Contents[k] \in Seq(Byte)
  <2>1. k \in 1..Len(Contents) /\ Len(Contents) \in 0..255
    BY <1>1, LenProperties DEF Byte
  <2>2. Contents[k] \in Seq(Byte)
    BY <1>1, <2>1, ElementOfSeq
  <2>3. k \in 0..255 /\ k # 0
    <3>1. \A m \in 0..255 : \A i \in 1..m : i \in 0..255 /\ i # 0
      OBVIOUS
    <3>2. QED
      BY <2>1, <3>1, Zenon
  <2>4. QED
    BY <2>2, <2>3 DEF Byte
<1>3. ASSUME NEW k \in DOMAIN Contents
      PROVE  Info(k) \in Seq(Byte) /\ Len(Info(k)) = 2
  <2>1. Digest(Contents[k]) \in Byte
    BY FrameAssumption
  <2>2. QED
    BY <1>1, <2>1 DEF Info
<1>4. QED
  BY <1>1, <1>2, <1>3 DEF Byte

\* A chunk is a part of the file, at most ChunkSize long and not empty.
LEMMA ChunkIs ==
  ASSUME NEW k \in DOMAIN Contents, NEW a \in Nat, NEW b, a < Len(Contents[k]),
         b = IF a + ChunkSize < Len(Contents[k]) THEN a + ChunkSize ELSE Len(Contents[k])
  PROVE  /\ b \in Nat /\ a < b /\ b - a <= ChunkSize /\ b - a \in Byte
         /\ b <= Len(Contents[k])
         /\ SubSeq(Contents[k], a + 1, b) \in Seq(Byte)
         /\ Len(SubSeq(Contents[k], a + 1, b)) = b - a
<1>1. Contents[k] \in Seq(Byte) /\ ChunkSize \in Byte \ {0}
  BY TextTypes, FrameAssumption
<1>2. Len(Contents[k]) \in Nat /\ \A i \in 1..Len(Contents[k]) : Contents[k][i] \in Byte
  BY <1>1, LenProperties
<1>3. b \in Nat /\ a < b /\ b - a <= ChunkSize /\ b <= Len(Contents[k]) /\ b - a \in Byte
  <2>1. ChunkSize \in 1..255 /\ Len(Contents[k]) \in Nat
    BY <1>1, <1>2 DEF Byte
  <2>2. CASE a + ChunkSize < Len(Contents[k])
    BY <2>1, <2>2 DEF Byte
  <2>3. CASE ~(a + ChunkSize < Len(Contents[k]))
    BY <2>1, <2>3 DEF Byte
  <2>4. QED
    BY <2>2, <2>3
<1>4. \A i \in a + 1..b : Contents[k][i] \in Byte
  BY <1>2, <1>3
<1>5. /\ SubSeq(Contents[k], a + 1, b) \in Seq(Byte)
      /\ Len(SubSeq(Contents[k], a + 1, b)) = IF a + 1 <= b THEN b - (a + 1) + 1 ELSE 0
  BY <1>3, <1>4, SubSeqProperties
<1>6. QED
  BY <1>3, <1>5

\* Steps that leave the IDE's own variables alone.
LEMMA HostStays ==
  ASSUME TypeOK, HostOK, UNCHANGED host, refused => refused'
  PROVE  HostTypes' /\ HostOK'
BY DEF TypeOK, HostTypes, HostOK, host

\* Asking changes only what is asked.
LEMMA AskTypes ==
  ASSUME TypeOK, ParserOK, HostOK, NEW c \in Byte, Ask(c),
         c = QUERY_FILE_STAT => transfer \in {"created", "written"}, c # VERIFYFILE
  PROVE  TypeOK' /\ ParserOK' /\ HostOK'
<1>1. Send(c, 0, <<Frame(c, 0)>>) /\ asked' = c /\ asked = None
      /\ UNCHANGED <<transfer, sending, sent, announced>>
  BY DEF Ask, Send
<1>2. 0 \in Byte /\ <<Frame(c, 0)>> \in Seq(Seq(Byte))
  <2>1. 0 \in Byte
    BY DEF Byte
  <2>2. Frame(c, 0) \in Seq(Byte)
    BY <2>1, FrameIs
  <2>3. QED
    BY <2>1, <2>2
<1>3. /\ PictureTypeOK' /\ LineTypes' /\ LinkTypes' /\ FileTypes'
      /\ reply' \in Replies \cup {None} /\ refused' = refused /\ ParserOK'
  BY <1>1, <1>2, SendTypes
<1>4. transfer # "verify"
  <2>1. asked # VERIFYFILE
    BY <1>1, FrameAssumption DEF VERIFYFILE, Byte
  <2>2. QED
    BY <2>1 DEF HostOK
<1>5. HostTypes' /\ HostOK'
  BY <1>1, <1>3, <1>4 DEF TypeOK, HostTypes, HostOK
<1>6. refused' \in BOOLEAN
  BY <1>3 DEF TypeOK
<1>7. QED
  BY <1>3, <1>5, <1>6, TypesNext

\* Every step of the IDE keeps the types.
LEMMA IdeTypes ==
  ASSUME TypeOK, ParserOK, HostOK, Ide
  PROVE  TypeOK' /\ ParserOK' /\ HostOK'
<1> DEFINE Fine == TypeOK' /\ ParserOK' /\ HostOK'
<1>0. refused \in BOOLEAN
  BY DEF TypeOK
<1>1. ASSUME AskRunning PROVE Fine
  BY <1>1, AskTypes DEF AskRunning, SCRIPT_RUNNING, QUERY_FILE_STAT, VERIFYFILE, Byte
<1>2. ASSUME AskSize PROVE Fine
  BY <1>2, AskTypes DEF AskSize, FRAME_SIZE, QUERY_FILE_STAT, VERIFYFILE, Byte
<1>3. ASSUME AskPicture PROVE Fine
  BY <1>3, AskTypes DEF AskPicture, FRAME_DUMP, QUERY_FILE_STAT, VERIFYFILE, Byte
<1>4. ASSUME AskStat PROVE Fine
  BY <1>4, AskTypes DEF AskStat, QUERY_FILE_STAT, VERIFYFILE, Byte
<1>5. ASSUME AskVerify PROVE Fine
  <2>1. VERIFYFILE \in Byte /\ 0 \in Byte /\ <<Frame(VERIFYFILE, 0)>> \in Seq(Seq(Byte))
    <3>1. VERIFYFILE \in Byte /\ 0 \in Byte
      BY DEF Byte, VERIFYFILE
    <3>2. Frame(VERIFYFILE, 0) \in Seq(Byte)
      BY <3>1, FrameIs
    <3>3. QED
      BY <3>1, <3>2
  <2>2. Send(VERIFYFILE, 0, <<Frame(VERIFYFILE, 0)>>)
    BY <1>5 DEF AskVerify
  <2>3. /\ PictureTypeOK' /\ LineTypes' /\ LinkTypes' /\ FileTypes'
        /\ reply' \in Replies \cup {None} /\ refused' = refused /\ ParserOK'
    BY <2>1, <2>2, SendTypes
  <2>4. HostTypes' /\ HostOK'
    BY <1>5, <2>1, <2>3 DEF AskVerify, TypeOK, HostTypes, HostOK, VERIFYFILE, QUERY_FILE_STAT
  <2>5. QED
    BY <1>0, <2>3, <2>4, TypesNext
<1>6. ASSUME SendScript PROVE Fine
  <2>1. PICK t \in Scripts : SendPayload(SCRIPT_EXEC, t)
    BY <1>6 DEF SendScript
  <2>2. t \in Seq(Byte) /\ Len(t) \in Byte /\ SCRIPT_EXEC \in Byte
    BY TextTypes DEF SCRIPT_EXEC, Byte
  <2>3. PICK ps : /\ <<Frame(SCRIPT_EXEC, Len(t))>> \o ps \in Seq(Seq(Byte))
                  /\ Send(SCRIPT_EXEC, Len(t), <<Frame(SCRIPT_EXEC, Len(t))>> \o ps)
    BY <2>1, <2>2, PayloadSent
  <2>4. /\ PictureTypeOK' /\ LineTypes' /\ LinkTypes' /\ FileTypes'
        /\ reply' \in Replies \cup {None} /\ refused' = refused /\ ParserOK'
    BY <2>2, <2>3, SendTypes
  <2>5. HostTypes' /\ HostOK'
    BY <1>6, <2>4, HostStays DEF SendScript
  <2>6. QED
    BY <1>0, <2>4, <2>5, TypesNext
<1>7. ASSUME SendEnable PROVE Fine
  <2>1. PICK b \in {0, 1} : Send(FB_ENABLE, 1, <<Frame(FB_ENABLE, 1) \o <<b>>>>)
    BY <1>7 DEF SendEnable
  <2>2. FB_ENABLE \in Byte /\ 1 \in Byte /\ b \in Byte
    BY DEF FB_ENABLE, Byte
  <2>3. <<Frame(FB_ENABLE, 1) \o <<b>>>> \in Seq(Seq(Byte))
    <3>1. Frame(FB_ENABLE, 1) \in Seq(Byte) /\ <<b>> \in Seq(Byte)
      BY <2>2, FrameIs
    <3>2. Frame(FB_ENABLE, 1) \o <<b>> \in Seq(Byte)
      BY <3>1, ConcatProperties
    <3>3. QED
      BY <3>2
  <2>4. /\ PictureTypeOK' /\ LineTypes' /\ LinkTypes' /\ FileTypes'
        /\ reply' \in Replies \cup {None} /\ refused' = refused /\ ParserOK'
    BY <2>1, <2>2, <2>3, SendTypes
  <2>5. HostTypes' /\ HostOK'
    BY <1>7, <2>4, HostStays DEF SendEnable
  <2>6. QED
    BY <1>0, <2>4, <2>5, TypesNext
<1>8. ASSUME SendCreate PROVE Fine
  <2>1. sending' \in DOMAIN Contents /\ SendPayload(CREATEFILE, Info(sending'))
    BY <1>8 DEF SendCreate
  <2>2. /\ Info(sending') \in Seq(Byte) /\ Len(Info(sending')) \in Byte
        /\ CREATEFILE \in Byte /\ sending' \in Nat /\ Contents[sending'] \in Seq(Byte)
    <3>1. CREATEFILE \in Byte
      BY DEF CREATEFILE, Byte
    <3>2. /\ Info(sending') \in Seq(Byte) /\ Len(Info(sending')) \in Byte
          /\ sending' \in Byte /\ Contents[sending'] \in Seq(Byte)
      BY <2>1, TextTypes
    <3>3. QED
      BY <3>1, <3>2 DEF Byte
  <2>3. PICK n \in Byte, ps \in Seq(Seq(Byte)) : Send(CREATEFILE, n, ps)
    BY <2>1, <2>2, PayloadSent
  <2>4. /\ PictureTypeOK' /\ LineTypes' /\ LinkTypes' /\ FileTypes'
        /\ reply' \in Replies \cup {None} /\ refused' = refused /\ ParserOK'
    BY <2>2, <2>3, SendTypes
  <2>5. Len(Contents[sending']) \in Nat
    BY <2>2, LenProperties
  <2>6. /\ transfer = "no" /\ transfer' = "created" /\ sent' = 0
        /\ UNCHANGED <<asked, announced>> /\ asked = None
    BY <1>8, <2>3 DEF SendCreate, Send
  <2>7. asked # VERIFYFILE /\ asked # QUERY_FILE_STAT
    BY <2>6, FrameAssumption DEF VERIFYFILE, QUERY_FILE_STAT, Byte
  <2>8. HostTypes' /\ HostOK'
    BY <2>1, <2>2, <2>4, <2>5, <2>6, <2>7 DEF TypeOK, HostTypes, HostOK
  <2>9. QED
    BY <1>0, <2>4, <2>8, TypesNext
<1>9. ASSUME SendChunk PROVE Fine
  <2>1. /\ transfer = "open" /\ sent < Len(Contents[sending]) /\ transfer' = "written"
        /\ sent' = IF sent + ChunkSize < Len(Contents[sending]) THEN sent + ChunkSize
                                                                ELSE Len(Contents[sending])
        /\ SendPayload(WRITEFILE, SubSeq(Contents[sending], sent + 1, sent'))
        /\ UNCHANGED <<asked, sending, announced>>
    BY <1>9 DEF SendChunk
  <2>2. sending \in DOMAIN Contents /\ sent \in Nat
    BY <2>1 DEF HostOK, TypeOK
  <2>3. /\ sent' \in Nat /\ sent' <= Len(Contents[sending]) /\ sent' - sent \in Byte
        /\ SubSeq(Contents[sending], sent + 1, sent') \in Seq(Byte)
        /\ Len(SubSeq(Contents[sending], sent + 1, sent')) = sent' - sent
    BY <2>1, <2>2, ChunkIs
  <2>4. WRITEFILE \in Byte
    BY DEF WRITEFILE, Byte
  <2>5. PICK n \in Byte, ps \in Seq(Seq(Byte)) : Send(WRITEFILE, n, ps)
    BY <2>1, <2>3, <2>4, PayloadSent
  <2>6. /\ PictureTypeOK' /\ LineTypes' /\ LinkTypes' /\ FileTypes'
        /\ reply' \in Replies \cup {None} /\ refused' = refused /\ ParserOK'
    BY <2>4, <2>5, SendTypes
  <2>7. HostTypes' /\ HostOK'
    BY <2>1, <2>2, <2>3, <2>6 DEF TypeOK, HostTypes, HostOK
  <2>8. QED
    BY <1>0, <2>6, <2>7, TypesNext
<1>10. ASSUME Abandon PROVE Fine
  <2>1. /\ UNCHANGED <<picture, session, ipc, reply, link, data, parser, got, sv_file,
                       asked, sending, announced, expected, refused>>
        /\ transfer = "open" /\ transfer' = "no" /\ sent' = 0
    BY <1>10 DEF Abandon
  <2>2. /\ PictureTypeOK' /\ LineTypes' /\ LinkTypes' /\ FileTypes'
        /\ reply' \in Replies \cup {None} /\ refused' \in BOOLEAN
    BY <2>1 DEF TypeOK, PictureTypeOK, LineTypes, LinkTypes, FileTypes, picture, session, parser, sv_file
  <2>3. ParserOK'
    BY <2>1, ParserStays DEF picture, sv_file
  <2>4. HostTypes' /\ HostOK'
    BY <2>1 DEF TypeOK, HostTypes, HostOK
  <2>5. QED
    BY <2>2, <2>3, <2>4, TypesNext
<1>11. QED
  BY <1>1, <1>2, <1>3, <1>4, <1>5, <1>6, <1>7, <1>8, <1>9, <1>10 DEF Ide

\* An answer is to what was asked.
AnswerOK == ~refused /\ reply # None => reply[1] = asked

\* So does the IDE's reading of an answer.
LEMMA AnswerTypes ==
  ASSUME TypeOK, ParserOK, HostOK, AnswerOK, Answer
  PROVE  TypeOK' /\ ParserOK' /\ HostOK'
<1>1. /\ UNCHANGED <<picture, session, ipc, link, data, parser, got, sv_file,
                     sending, expected, refused>>
      /\ asked' = None /\ reply' = None
  BY DEF Answer
<1>2. /\ PictureTypeOK' /\ LineTypes' /\ LinkTypes' /\ FileTypes'
      /\ reply' \in Replies \cup {None} /\ refused' \in BOOLEAN
  BY <1>1 DEF TypeOK, PictureTypeOK, LineTypes, LinkTypes, FileTypes, picture, session, parser, sv_file
<1>3. ParserOK'
  BY <1>1, ParserStays DEF picture, sv_file
<1>4. asked' # VERIFYFILE /\ asked' # QUERY_FILE_STAT
  BY <1>1, FrameAssumption DEF VERIFYFILE, QUERY_FILE_STAT, Byte
<1>5. HostTypes'
  <2>1. transfer' \in {"no", "open", transfer}
    BY DEF Answer
  <2>2. sent' \in {0, sent}
    BY DEF Answer
  <2>3. refused' \/ announced' \in Pic \cup {None}
    <3>1. CASE refused
      BY <1>1, <3>1
    <3>2. CASE ~refused /\ asked = FRAME_SIZE
      <4>1. reply \in Replies /\ reply[1] = FRAME_SIZE /\ announced' = reply[2]
        BY <3>2 DEF Answer, TypeOK, AnswerOK, FRAME_SIZE, FRAME_DUMP
      <4>2. \/ reply \in {SCRIPT_RUNNING} \X BOOLEAN
            \/ reply \in {QUERY_FILE_STAT} \X {"none", "path", "open", "write"}
            \/ reply \in {VERIFYFILE} \X {"ok", "sha2", "not open"}
            \/ reply \in {FRAME_SIZE, FRAME_DUMP} \X (Pic \cup {None})
        BY <4>1, Zenon DEF Replies
      <4>3. /\ reply \notin {SCRIPT_RUNNING} \X BOOLEAN
            /\ reply \notin {QUERY_FILE_STAT} \X {"none", "path", "open", "write"}
            /\ reply \notin {VERIFYFILE} \X {"ok", "sha2", "not open"}
        <5>1. reply[1] \notin {SCRIPT_RUNNING, QUERY_FILE_STAT, VERIFYFILE}
          BY <4>1 DEF SCRIPT_RUNNING, QUERY_FILE_STAT, VERIFYFILE, FRAME_SIZE
        <5>2. QED
          BY <5>1
      <4>4. QED
        BY <4>1, <4>2, <4>3
    <3>3. CASE ~refused /\ asked # FRAME_SIZE
      <4>1. announced' \in {None, announced}
        BY <3>3 DEF Answer
      <4>2. QED
        BY <3>3, <4>1 DEF TypeOK
    <3>4. QED
      BY <3>1, <3>2, <3>3
  <2>4. QED
    BY <1>1, <2>1, <2>2, <2>3 DEF TypeOK, HostTypes
<1>6. HostOK'
  <2>1. CASE asked = QUERY_FILE_STAT
    <3>1. transfer' \in {"open", "no"} /\ (transfer' # "no" => sent' = sent)
      BY <2>1 DEF Answer
    <3>2. QED
      BY <1>1, <1>4, <2>1, <3>1 DEF HostOK
  <2>2. CASE asked = VERIFYFILE
    <3>1. transfer' = "no"
      BY <2>2 DEF Answer, VERIFYFILE, QUERY_FILE_STAT
    <3>2. QED
      BY <1>1, <1>4, <3>1 DEF HostOK
  <2>3. CASE asked \notin {QUERY_FILE_STAT, VERIFYFILE}
    <3>1. transfer' = transfer /\ (transfer' # "no" => sent' = sent) /\ transfer # "verify"
      BY <2>3 DEF Answer, HostOK
    <3>2. QED
      BY <1>1, <1>4, <3>1 DEF HostOK
  <2>4. QED
    BY <2>1, <2>2, <2>3
<1>7. QED
  BY <1>2, <1>3, <1>5, <1>6, TypesNext

-----------------------------------------------------------------------------
(* Steps of the main thread                                                *)

\* Scripts touch the pictures and their own flags, not the source announced.
LEMMA MainTypes ==
  ASSUME TypeOK, ParserOK, HostOK, Main
  PROVE  TypeOK' /\ ParserOK' /\ HostOK'
<1>1. MainThread /\ UNCHANGED <<link, data, parser, got, sv_file, host, expected, refused>>
  BY DEF Main
<1>2. PictureTypeOK' /\ UNCHANGED <<fb_from_current, ipc, reply>>
  BY <1>1 DEF MainThread, ScriptStart, SetVoWbc, VoWbcInit, VoWbcDeinit, ScriptEnding, ScriptEnd,
       SetFb, TypeOK, PictureTypeOK, picture, session
<1>3. /\ LineTypes' /\ LinkTypes' /\ FileTypes'
      /\ reply' \in Replies \cup {None} /\ refused' \in BOOLEAN
  BY <1>1, <1>2 DEF TypeOK, LineTypes, LinkTypes, FileTypes, parser, sv_file
<1>4. ParserOK'
  BY <1>1, <1>2, ParserStays DEF sv_file
<1>5. HostTypes' /\ HostOK'
  BY <1>1, HostStays
<1>6. QED
  BY <1>2, <1>3, <1>4, <1>5, TypesNext

-----------------------------------------------------------------------------
(* Steps of the parser                                                     *)

\* What steps of the IDE task leave alone unless they say otherwise.
LEMMA OthersTypes ==
  ASSUME TypeOK, HostOK, UNCHANGED others, reply' = reply
  PROVE  /\ PictureTypeOK' /\ FileTypes' /\ HostTypes' /\ HostOK'
         /\ reply' \in Replies \cup {None} /\ refused' \in BOOLEAN
<1>1. UNCHANGED <<picture, session, sv_file, host, refused>>
  BY DEF others
<1>2. HostTypes' /\ HostOK'
  BY <1>1, HostStays
<1>3. QED
  BY <1>1, <1>2 DEF TypeOK, PictureTypeOK, FileTypes, picture, session, sv_file

\* A read takes a packet, a parser step some of its bytes.
LEMMA ParserTypes ==
  ASSUME TypeOK, ParserOK, HostOK,
         Read \/ FrameHead \/ FrameCmd \/ FrameDataLength \/ FrameRecv
  PROVE  TypeOK' /\ ParserOK' /\ HostOK'
<1> DEFINE Fine == LineTypes' /\ LinkTypes' /\ ParserOK'
<1>1. UNCHANGED <<others, ipc, reply, got, expected>> /\ ipc = "parse"
  BY DEF Read, FrameHead, FrameCmd, FrameDataLength, FrameRecv, Parse
<1>2. ASSUME data # <<>> PROVE Head(data) \in Byte /\ data[1] \in Byte /\ Tail(data) \in Seq(Byte)
  BY <1>2, HeadTailProperties DEF TypeOK
<1>3. ASSUME Read PROVE Fine
  <2>1. link \in Seq(Seq(Byte)) /\ link # <<>> /\ data' = Head(link) /\ link' = Tail(link)
        /\ UNCHANGED parser
    BY <1>3 DEF Read, TypeOK
  <2>2. data' \in Seq(Byte) /\ link' \in Seq(Seq(Byte)) /\ Len(link') = Len(link) - 1
    BY <2>1, HeadTailProperties
  <2>3. LineTypes' /\ LinkTypes'
    BY <1>1, <2>1, <2>2, LenProperties, FrameAssumption DEF TypeOK, LineTypes, LinkTypes, parser
  <2>4. ParserOK'
    BY <1>1, <2>1 DEF ParserOK, parser
  <2>5. QED
    BY <2>3, <2>4
<1>4. ASSUME FrameHead PROVE Fine
  BY <1>1, <1>2, <1>4 DEF FrameHead, Parse, TypeOK, LineTypes, LinkTypes, ParserOK
<1>5. ASSUME FrameCmd PROVE Fine
  BY <1>1, <1>2, <1>5 DEF FrameCmd, Parse, TypeOK, LineTypes, LinkTypes, ParserOK
<1>6. ASSUME FrameDataLength PROVE Fine
  BY <1>1, <1>6 DEF FrameDataLength, Parse, TypeOK, LineTypes, LinkTypes, ParserOK
<1>7. ASSUME FrameRecv PROVE Fine
  <2>1. /\ data \in Seq(Byte) /\ Len(data) \in Nat \ {0} /\ recv_lack \in 1..4
        /\ data_length \in [1..4 -> Byte] /\ state = "RECV" /\ UNCHANGED <<cmd, link>>
    BY <1>7, EmptySeq DEF FrameRecv, Parse, TypeOK, ParserOK
  <2>2. ASSUME NEW n \in 0..4, n <= Len(data) PROVE Overwrite(n) \in [1..4 -> Byte]
    <3>1. \A j \in 1..4 : j <= n => data[j] \in Byte
      BY <2>1, <2>2, LenProperties
    <3>2. QED
      BY <2>1, <3>1 DEF Overwrite
  <2>3. CASE Len(data) >= recv_lack
    <3>1. /\ data_length' = Overwrite(recv_lack) /\ recv_lack' = 0 /\ state' = "DISPATCH"
          /\ data' = Drop(data, recv_lack - 1)
      BY <1>7, <2>3 DEF FrameRecv
    <3>2. data' \in Seq(Byte) /\ data_length' \in [1..4 -> Byte]
      <4>1. recv_lack - 1 \in 0..Len(data)
        BY <2>1, <2>3
      <4>2. QED
        BY <2>1, <2>2, <2>3, <3>1, <4>1, DropLeaves
    <3>3. QED
      BY <1>1, <2>1, <3>1, <3>2 DEF TypeOK, LineTypes, LinkTypes, ParserOK
  <2>4. CASE ~(Len(data) >= recv_lack)
    <3>1. /\ data_length' = Overwrite(Len(data) - 1) /\ recv_lack' = recv_lack - (Len(data) - 1)
          /\ data' = <<>> /\ state' = state
      BY <1>7, <2>4 DEF FrameRecv
    <3>2. data_length' \in [1..4 -> Byte] /\ recv_lack' \in 1..4 /\ data' \in Seq(Byte)
      BY <2>1, <2>2, <2>4, <3>1
    <3>3. QED
      BY <1>1, <2>1, <3>1, <3>2 DEF TypeOK, LineTypes, LinkTypes, ParserOK
  <2>5. QED
    BY <2>3, <2>4
<1>8. Fine
  BY <1>3, <1>4, <1>5, <1>6, <1>7
<1>9. QED
  BY <1>1, <1>8, OthersTypes, TypesNext
-----------------------------------------------------------------------------
(* Steps of the handlers                                                   *)

\* The end of a command whose handler changed no type.
LEMMA DoneKeeps ==
  ASSUME TypeOK, ParserOK, HostOK, data # <<>>, Done, UNCHANGED host,
         refused' \in BOOLEAN, refused => refused', PictureTypeOK', FileTypes', LinkTypes',
         reply' \in Replies \cup {None}
  PROVE  TypeOK' /\ ParserOK' /\ HostOK'
<1>1. LineTypes' /\ ParserOK'
  BY DoneTypes
<1>2. HostTypes' /\ HostOK'
  BY HostStays
<1>3. QED
  BY <1>1, <1>2, TypesNext

\* A dispatched command and a handler that waits have a byte before them.
LEMMA HasByte ==
  ASSUME ParserOK,
         Parse("DISPATCH") \/ ipc \in {"pause", "recv", "frame"}
  PROVE  data # <<>> /\ state = "DISPATCH"
BY DEF ParserOK, Parse

\* An answer of each kind is one of Replies.
LEMMA RepliesAre ==
  /\ \A b \in BOOLEAN : <<SCRIPT_RUNNING, b>> \in Replies
  /\ \A e \in {"none", "path", "open", "write"} : <<QUERY_FILE_STAT, e>> \in Replies
  /\ \A e \in {"ok", "sha2", "not open"} : <<VERIFYFILE, e>> \in Replies
  /\ \A p \in Pic \cup {None} : <<FRAME_SIZE, p>> \in Replies /\ <<FRAME_DUMP, p>> \in Replies
BY DEF Replies

\* read_until takes a packet or the part of it that is lacking.
LEMMA ReadUntilTypes ==
  ASSUME TypeOK, ParserOK, HostOK, ReadUntil
  PROVE  TypeOK' /\ ParserOK' /\ HostOK'
<1> DEFINE n == IF Len(Head(link)) <= Number(data_length) - Len(got)
                THEN Len(Head(link)) ELSE Number(data_length) - Len(got)
<1>1. /\ ipc = "recv" /\ Len(got) < Number(data_length) /\ link # <<>>
      /\ got' = got \o SubSeq(Head(link), 1, n)
      /\ link' = IF n = Len(Head(link)) THEN Tail(link)
                 ELSE <<Drop(Head(link), n)>> \o Tail(link)
      /\ UNCHANGED <<others, ipc, reply, parser, data, expected>>
  BY DEF ReadUntil
<1>2. /\ link \in Seq(Seq(Byte)) /\ Head(link) \in Seq(Byte) /\ Tail(link) \in Seq(Seq(Byte))
      /\ Len(Tail(link)) = Len(link) - 1 /\ Len(link) \in Nat /\ Len(Head(link)) \in Nat
      /\ Number(data_length) \in Nat /\ Len(got) \in Nat /\ Len(link) <= MaxLink
  <2>1. link \in Seq(Seq(Byte)) /\ got \in Seq(Byte) /\ data_length \in [1..4 -> Byte]
        /\ Len(link) <= MaxLink
    BY DEF TypeOK
  <2>2. Number(data_length) \in Nat
    BY <2>1, NumberIs
  <2>3. QED
    BY <1>1, <2>1, <2>2, HeadTailProperties, LenProperties
<1>3. n \in 0..Len(Head(link))
  BY <1>1, <1>2
<1> HIDE DEF n
<1>4. SubSeq(Head(link), 1, n) \in Seq(Byte)
  <2>1. \A i \in 1..n : Head(link)[i] \in Byte
    BY <1>2, <1>3, LenProperties
  <2>2. QED
    BY <1>3, <2>1, SubSeqProperties
<1>5. got' \in Seq(Byte)
  BY <1>1, <1>4, ConcatProperties DEF TypeOK
<1>6. LinkTypes'
  <2>1. Drop(Head(link), n) \in Seq(Byte)
    BY <1>2, <1>3, DropLeaves
  <2>2. <<Drop(Head(link), n)>> \in Seq(Seq(Byte)) /\ Len(<<Drop(Head(link), n)>>) = 1
    BY <2>1
  <2>3. /\ <<Drop(Head(link), n)>> \o Tail(link) \in Seq(Seq(Byte))
        /\ Len(<<Drop(Head(link), n)>> \o Tail(link)) = Len(link)
    BY <1>2, <2>2, LinkGrows
  <2>4. MaxLink \in Nat
    BY FrameAssumption
  <2>5. QED
    BY <1>1, <1>2, <2>3, <2>4 DEF LinkTypes
<1>7. LineTypes'
  BY <1>1, <1>5 DEF TypeOK, LineTypes, parser
<1>8. ParserOK'
  <2>1. UNCHANGED <<state, recv_lack, cmd, data_length, data, ipc, file>>
    BY <1>1 DEF parser, others, sv_file
  <2>2. QED
    BY <1>1, <2>1 DEF ParserOK, Number
<1>9. QED
  BY <1>1, <1>6, <1>7, <1>8, OthersTypes, TypesNext

\* What fclose leaves on the card is bytes.
LEMMA FlushedTypes ==
  ASSUME TypeOK, NEW c \in Flushed
  PROVE  c \in Seq(Byte)
BY EmptySeq DEF TypeOK, Flushed

\* The handlers of scripts, and of what the model has no handler for.
LEMMA ScriptTypes ==
  ASSUME TypeOK, ParserOK, HostOK,
         \/ ScriptRunning \/ ScriptExec \/ ScriptExecTest \/ ScriptReceived
         \/ QueryFileStat \/ OtherCommand
  PROVE  TypeOK' /\ ParserOK' /\ HostOK'
<1> DEFINE Fine == TypeOK' /\ ParserOK' /\ HostOK'
<1>0. refused \in BOOLEAN /\ running \in BOOLEAN /\ errcode \in {"none", "path", "open", "write"}
      /\ PictureTypeOK
  BY DEF TypeOK, PictureTypeOK
<1>1. ASSUME UNCHANGED <<picture, session, sv_file, refused, link, host>>
      PROVE  /\ PictureTypeOK' /\ FileTypes' /\ LinkTypes' /\ HostTypes' /\ HostOK'
             /\ refused' \in BOOLEAN
  <2>1. PictureTypeOK' /\ FileTypes' /\ LinkTypes' /\ refused' \in BOOLEAN
    BY <1>1 DEF TypeOK, PictureTypeOK, FileTypes, LinkTypes, picture, session, sv_file
  <2>2. QED
    BY <1>1, <2>1, HostStays
<1>2. ASSUME ScriptRunning PROVE Fine
  <2>1. /\ data # <<>> /\ Done /\ reply' = <<SCRIPT_RUNNING, running>>
        /\ UNCHANGED <<picture, session, sv_file, host, refused, link>>
    BY <1>2, HasByte DEF ScriptRunning, Dispatch, others
  <2>2. reply' \in Replies
    BY <1>0, <2>1, RepliesAre
  <2>3. QED
    BY <1>1, <2>1, <2>2, DoneKeeps
<1>3. ASSUME ScriptExec PROVE Fine
  <2>1. /\ data # <<>> /\ state = "DISPATCH" /\ ipc = "parse" /\ cmd = SCRIPT_EXEC
        /\ Block("pause") /\ reply' = reply
        /\ UNCHANGED <<picture, session, sv_file, host, refused, link>>
    BY <1>3, HasByte DEF ScriptExec, Dispatch, Parse, others
  <2>2. LineTypes'
    BY <2>1, BlockTypes
  <2>3. ParserOK'
    BY <2>1 DEF ParserOK, Block, parser
  <2>4. QED
    BY <1>1, <2>1, <2>2, <2>3, TypesNext DEF TypeOK
<1>4. ASSUME ScriptExecTest PROVE Fine
  <2>1. /\ data # <<>> /\ state = "DISPATCH" /\ ipc = "pause" /\ cmd = SCRIPT_EXEC
        /\ reply' = reply /\ UNCHANGED <<picture, session, sv_file, host, link>>
    BY <1>4, HasByte DEF ScriptExecTest, ParserOK
  <2>2. PictureTypeOK' /\ FileTypes' /\ LinkTypes' /\ reply' \in Replies \cup {None}
    BY <2>1 DEF TypeOK, PictureTypeOK, FileTypes, LinkTypes, picture, session, sv_file
  <2>3. CASE running
    BY <1>4, <2>1, <2>2, <2>3, DoneKeeps DEF ScriptExecTest
  <2>4. CASE ~running
    <3>1. refused' = refused /\ Block("recv")
      BY <1>4, <2>4 DEF ScriptExecTest
    <3>2. LineTypes'
      BY <3>1, BlockTypes
    <3>3. ParserOK'
      <4>1. /\ UNCHANGED <<state, recv_lack, cmd, data, got>> /\ ipc' = "recv" /\ got = <<>>
        BY <2>1, <3>1 DEF Block, parser, ParserOK
      <4>2. SCRIPT_EXEC \in Payloads /\ SCRIPT_EXEC # CREATEFILE /\ SCRIPT_EXEC # WRITEFILE
        BY DEF Payloads, SCRIPT_EXEC, CREATEFILE, WRITEFILE
      <4>3. QED
        BY <2>1, <4>1, <4>2 DEF ParserOK
    <3>4. QED
      BY <1>1, <2>1, <2>2, <3>1, <3>2, <3>3, TypesNext
  <2>5. QED
    BY <1>0, <2>3, <2>4
<1>5. ASSUME ScriptReceived PROVE Fine
  <2>1. /\ data # <<>> /\ Done /\ running' = TRUE
        /\ UNCHANGED <<picture, script, sv_file, host, refused, link, reply>>
    BY <1>5, HasByte DEF ScriptReceived, Received
  <2>2. PictureTypeOK' /\ FileTypes' /\ LinkTypes' /\ reply' \in Replies \cup {None}
    BY <2>1 DEF TypeOK, PictureTypeOK, FileTypes, LinkTypes, picture, sv_file
  <2>3. QED
    BY <1>0, <2>1, <2>2, DoneKeeps
<1>6. ASSUME QueryFileStat PROVE Fine
  <2>1. /\ data # <<>> /\ Done /\ reply' = <<QUERY_FILE_STAT, errcode>>
        /\ UNCHANGED <<picture, session, sv_file, host, refused, link>>
    BY <1>6, HasByte DEF QueryFileStat, Dispatch, others
  <2>2. reply' \in Replies
    BY <1>0, <2>1, RepliesAre
  <2>3. QED
    BY <1>1, <2>1, <2>2, DoneKeeps
<1>7. ASSUME OtherCommand PROVE Fine
  <2>1. /\ data # <<>> /\ Done /\ reply' = reply
        /\ UNCHANGED <<picture, session, sv_file, host, refused, link>>
    BY <1>7, HasByte DEF OtherCommand, others
  <2>2. reply' \in Replies \cup {None}
    BY <2>1 DEF TypeOK
  <2>3. QED
    BY <1>1, <2>1, <2>2, DoneKeeps
<1>8. QED
  BY <1>2, <1>3, <1>4, <1>5, <1>6, <1>7
\* The handlers of the file transfer; what fails leaves a good type too.
LEMMA TransferTypes ==
  ASSUME TypeOK, ParserOK, HostOK,
         CreateFile \/ CreateReceived \/ WriteFile \/ WriteReceived \/ VerifyFile
  PROVE  TypeOK' /\ ParserOK' /\ HostOK'
<1> DEFINE Fine == TypeOK' /\ ParserOK' /\ HostOK'
<1>1. /\ UNCHANGED <<picture, session, host, link>>
      /\ data # <<>> /\ state = "DISPATCH"
      /\ refused' \in BOOLEAN /\ (refused => refused')
  <2>1. Parse("DISPATCH") \/ ipc \in {"pause", "recv", "frame"}
    BY DEF CreateFile, CreateReceived, WriteFile, WriteReceived, VerifyFile, Dispatch, Received
  <2>2. UNCHANGED <<picture, session, host, link>>
    BY DEF CreateFile, CreateReceived, WriteFile, WriteReceived, VerifyFile
  <2>3. refused' \in BOOLEAN /\ (refused => refused')
    <3>1. \/ UNCHANGED refused
          \/ refused' = (refused \/ (file # None /\ ~chunk_buffer))
      BY DEF CreateFile, CreateReceived, WriteFile, WriteReceived, VerifyFile
    <3>2. refused \in BOOLEAN
      BY DEF TypeOK
    <3>3. (refused \/ (file # None /\ ~chunk_buffer)) \in BOOLEAN
      OBVIOUS
    <3>4. CASE UNCHANGED refused
      BY <3>2, <3>4
    <3>5. CASE refused' = (refused \/ (file # None /\ ~chunk_buffer))
      BY <3>3, <3>5, Zenon
    <3>6. QED
      BY <3>1, <3>4, <3>5
  <2>4. QED
    BY <2>1, <2>2, <2>3, HasByte
<1>2. /\ PictureTypeOK' /\ LinkTypes' /\ HostTypes' /\ HostOK' /\ refused' \in BOOLEAN
  <2>1. PictureTypeOK' /\ LinkTypes' /\ refused' \in BOOLEAN
    BY <1>1 DEF TypeOK, PictureTypeOK, LinkTypes, picture, session
  <2>2. QED
    BY <1>1, <2>1, HostStays
<1>3. ASSUME Done, FileTypes', reply' \in Replies \cup {None} PROVE Fine
  BY <1>1, <1>2, <1>3, DoneKeeps
<1>4. ASSUME NEW there \in {"recv", "crash"}, Block(there), FileTypes', reply' = reply,
             ipc = "parse",
             there = "recv" => /\ cmd \in Payloads
                               /\ cmd = CREATEFILE => Number(data_length) = 2
                               /\ cmd = WRITEFILE => file' # None
      PROVE  Fine
  <2>1. LineTypes'
    BY <1>4, BlockTypes
  <2>2. ParserOK'
    <3>1. /\ UNCHANGED <<state, recv_lack, cmd, data_length, data, got>> /\ ipc' = there
          /\ got = <<>>
      BY <1>4 DEF Block, parser, ParserOK
    <3>2. QED
      BY <1>1, <1>4, <3>1 DEF ParserOK, Number
  <2>3. reply' \in Replies \cup {None}
    BY <1>4 DEF TypeOK
  <2>4. QED
    BY <1>2, <1>4, <2>1, <2>2, <2>3, TypesNext
<1>5. /\ errcode \in {"none", "path", "open", "write"} /\ chunk_buffer \in BOOLEAN
      /\ file = None \/ file \in Seq(Byte)
      /\ card \in Seq(Byte) /\ info \in Byte \X Byte /\ got \in Seq(Byte)
      /\ reply \in Replies \cup {None}
  BY DEF TypeOK
<1>6. ASSUME CreateFile PROVE Fine
  <2>1. /\ ipc = "parse" /\ cmd = CREATEFILE /\ info' = <<0, 0>>
        /\ UNCHANGED <<file, chunk_buffer, card, reply>>
    BY <1>6 DEF CreateFile, Dispatch, Parse
  <2>2. \/ Number(data_length) = 2 /\ Block("recv") /\ errcode' = errcode
        \/ Done /\ errcode' = "path"
    <3>1. Len(info) = 2
      BY <1>5
    <3>2. QED
      BY <1>6, <3>1 DEF CreateFile
  <2>3. FileTypes'
    <3>1. <<0, 0>> \in Byte \X Byte
      BY DEF Byte
    <3>2. QED
      BY <1>5, <2>1, <2>2, <3>1 DEF FileTypes
  <2>4. CREATEFILE \in Payloads /\ CREATEFILE # WRITEFILE
    BY DEF Payloads, CREATEFILE, WRITEFILE
  <2>5. QED
    BY <1>3, <1>4, <1>5, <2>1, <2>2, <2>3, <2>4
<1>7. ASSUME CreateReceived PROVE Fine
  <2>1. ipc = "recv" /\ cmd = CREATEFILE /\ Len(got) = 2 /\ info' = got /\ Done /\ reply' = reply
    BY <1>7 DEF CreateReceived, Received, ParserOK
  <2>2. info' \in Byte \X Byte
    <3>1. got[1] \in Byte /\ got[2] \in Byte
      <4>1. got \in Seq(Byte) /\ 1 \in 1..Len(got) /\ 2 \in 1..Len(got)
        BY <1>5, <2>1
      <4>2. QED
        BY <4>1, ElementOfSeq
    <3>2. got = <<got[1], got[2]>>
      BY <1>5, <2>1
    <3>3. QED
      BY <2>1, <3>1, <3>2
  <2>3. /\ file' = None \/ file' \in Seq(Byte)
        /\ card' \in Seq(Byte) /\ chunk_buffer' \in BOOLEAN
        /\ errcode' \in {"none", "path", "open", "write"}
    BY <1>7, EmptySeq, FlushedTypes DEF CreateReceived
  <2>4. QED
    BY <1>3, <1>5, <2>1, <2>2, <2>3 DEF FileTypes
<1>8. ASSUME WriteFile PROVE Fine
  <2>1. /\ ipc = "parse" /\ cmd = WRITEFILE
        /\ UNCHANGED <<file, chunk_buffer, info, card, reply>>
    BY <1>8 DEF WriteFile, Dispatch, Parse
  <2>2. \/ file # None /\ Block("recv") /\ errcode' = errcode
        \/ Done /\ errcode' = "write"
    BY <1>8 DEF WriteFile
  <2>3. FileTypes'
    BY <1>5, <2>1, <2>2 DEF FileTypes
  <2>4. WRITEFILE \in Payloads /\ CREATEFILE # WRITEFILE
    BY DEF Payloads, CREATEFILE, WRITEFILE
  <2>5. QED
    BY <1>3, <1>4, <1>5, <2>1, <2>2, <2>3, <2>4
<1>9. ASSUME WriteReceived PROVE Fine
  <2>1. /\ ipc = "recv" /\ cmd = WRITEFILE /\ Done /\ UNCHANGED <<chunk_buffer, info, reply>>
        /\ file \in Seq(Byte)
    BY <1>5, <1>9 DEF WriteReceived, Received, ParserOK
  <2>2. /\ file' = None \/ file' \in Seq(Byte)
        /\ card' \in Seq(Byte) /\ errcode' \in {"none", "path", "open", "write"}
    <3>1. file \o got \in Seq(Byte)
      BY <1>5, <2>1, ConcatProperties
    <3>2. QED
      BY <1>5, <1>9, <3>1, FlushedTypes DEF WriteReceived
  <2>3. QED
    BY <1>3, <1>5, <2>1, <2>2 DEF FileTypes
<1>10. ASSUME VerifyFile PROVE Fine
  <2>1. /\ ipc = "parse" /\ cmd = VERIFYFILE /\ file' = None
        /\ UNCHANGED <<errcode, chunk_buffer, info>>
    BY <1>10 DEF VerifyFile, Dispatch, Parse
  <2>2. CASE file = None
    <3>1. Block("crash") /\ UNCHANGED <<card, reply>>
      BY <1>10, <2>2 DEF VerifyFile
    <3>2. QED
      BY <1>4, <1>5, <2>1, <3>1 DEF FileTypes
  <2>3. CASE file # None
    <3>1. card' \in Flushed /\ Done
      BY <1>10, <2>3 DEF VerifyFile
    <3>2. \E e \in {"ok", "sha2", "not open"} : reply' = <<VERIFYFILE, e>>
      BY <1>10, <2>3 DEF VerifyFile
    <3>3. FileTypes'
      BY <1>5, <2>1, <3>1, FlushedTypes DEF FileTypes
    <3>4. QED
      BY <1>3, <3>1, <3>2, <3>3, RepliesAre
  <2>4. QED
    BY <2>2, <2>3
<1>11. QED
  BY <1>6, <1>7, <1>8, <1>9, <1>10

\* The handlers of pictures; fb_from_current is the display's while its frame
\* is awaited.
LEMMA PictureTypes ==
  ASSUME TypeOK, ParserOK, HostOK, FrameSize \/ FrameSizeEncode \/ FrameDump \/ FbEnable
  PROVE  TypeOK' /\ ParserOK' /\ HostOK'
<1> DEFINE Fine == TypeOK' /\ ParserOK' /\ HostOK'
<1>1. /\ UNCHANGED <<session, sv_file, host, refused, link>>
      /\ data # <<>> /\ state = "DISPATCH"
  <2>1. Parse("DISPATCH") \/ ipc \in {"pause", "recv", "frame"}
    BY DEF FrameSize, FrameSizeEncode, FrameDump, FbEnable, Dispatch
  <2>2. UNCHANGED <<session, sv_file, host, refused, link>>
    BY DEF FrameSize, FrameSizeEncode, FrameDump, FbEnable
  <2>3. QED
    BY <2>1, <2>2, HasByte
<1>2. /\ FileTypes' /\ LinkTypes' /\ HostTypes' /\ HostOK' /\ refused' \in BOOLEAN
  <2>1. FileTypes' /\ LinkTypes' /\ refused' \in BOOLEAN
    BY <1>1 DEF TypeOK, FileTypes, LinkTypes, sv_file
  <2>2. QED
    BY <1>1, <2>1, HostStays
<1>3. PictureTypeOK /\ reply \in Replies \cup {None}
  BY DEF TypeOK
<1>4. ASSUME Done, PictureTypeOK', reply' \in Replies \cup {None} PROVE Fine
  BY <1>1, <1>2, <1>4, DoneKeeps
<1>5. Size \in Pic \cup {None} /\ Dump \in Pic \cup {None}
  BY <1>3 DEF PictureTypeOK, Size, Dump
<1>6. ASSUME FrameSize PROVE Fine
  <2>1. Announce /\ ipc = "parse" /\ cmd = FRAME_SIZE
    BY <1>6 DEF FrameSize, Dispatch, Parse
  <2>2. PictureTypeOK'
    BY <1>1, <1>3, <2>1 DEF PictureTypeOK, Announce, session
  <2>3. CASE NeedsFrame
    <3>1. Block("frame") /\ reply' = reply /\ fb_from_current' = "wbc"
      BY <1>6, <2>1, <2>3 DEF FrameSize, Announce, NeedsFrame
    <3>2. LineTypes'
      BY <3>1, BlockTypes
    <3>3. ParserOK'
      <4>1. /\ UNCHANGED <<state, recv_lack, cmd, data, got>> /\ ipc' = "frame" /\ got = <<>>
        BY <2>1, <3>1 DEF Block, parser, ParserOK
      <4>2. QED
        BY <1>1, <2>1, <3>1, <4>1 DEF ParserOK
    <3>4. QED
      BY <1>2, <1>3, <2>2, <3>1, <3>2, <3>3, TypesNext
  <2>4. CASE ~NeedsFrame
    BY <1>4, <1>5, <1>6, <2>2, <2>4, RepliesAre DEF FrameSize
  <2>5. QED
    BY <2>3, <2>4
<1>7. ASSUME FrameSizeEncode PROVE Fine
  <2>1. PICK p \in Pic \cup {None} : Encode(p) /\ reply' = <<FRAME_SIZE, p>>
    BY <1>7 DEF FrameSizeEncode
  <2>2. PictureTypeOK'
    BY <1>1, <1>3, <2>1 DEF PictureTypeOK, Encode, session
  <2>3. QED
    BY <1>4, <1>7, <2>1, <2>2, RepliesAre DEF FrameSizeEncode
<1>8. ASSUME FrameDump PROVE Fine
  <2>1. PictureTypeOK'
    BY <1>1, <1>3, <1>8 DEF FrameDump, PictureTypeOK, Sent, session
  <2>2. QED
    BY <1>4, <1>5, <1>8, <2>1, RepliesAre DEF FrameDump
<1>9. ASSUME FbEnable PROVE Fine
  <2>1. PictureTypeOK'
    BY <1>1, <1>3, <1>9 DEF FbEnable, PictureTypeOK, session
  <2>2. QED
    BY <1>3, <1>4, <1>9, <2>1 DEF FbEnable
<1>10. QED
  BY <1>6, <1>7, <1>8, <1>9

-----------------------------------------------------------------------------
\* Whatever comes over the line, a step keeps the types and what a handler
\* relies on.
LEMMA TypesKept ==
  ASSUME TypeOK, ParserOK, HostOK, AnswerOK, [Next]_vars
  PROVE  TypeOK' /\ ParserOK' /\ HostOK'
<1>1. CASE UNCHANGED vars
  <2>1. UNCHANGED <<picture, session, sv_file, host, refused, reply, link, ipc, data, parser, got, expected>>
    BY <1>1 DEF vars
  <2>2. ParserOK'
    BY <2>1, ParserStays DEF picture, sv_file
  <2>3. LineTypes' /\ LinkTypes'
    BY <2>1 DEF TypeOK, LineTypes, LinkTypes, parser
  <2>4. UNCHANGED others
    BY <2>1 DEF others
  <2>5. QED
    BY <2>1, <2>2, <2>3, <2>4, OthersTypes, TypesNext
<1>2. CASE IdeTask
  BY <1>2, ParserTypes, ReadUntilTypes, ScriptTypes, TransferTypes, PictureTypes DEF IdeTask
<1>3. QED
  BY <1>1, <1>2, MainTypes, IdeTypes, AnswerTypes DEF Next
=============================================================================
