--------------------------- MODULE IdeFrameProofs ---------------------------
(***************************************************************************)
(* Proofs about the commands of the IDE, for any files, scripts, chunk     *)
(* sizes and bounds: as long as no payload is left unread the parser is in *)
(* step with the IDE, the file under way is what the IDE has sent, and a   *)
(* picture is the one whose size was told.                                 *)
(*                                                                         *)
(* The invariant has four parts: Line says which frames and payloads the   *)
(* packets under way are, Order in which order the IDE sends them, FileOK  *)
(* what the file holds at each point of a transfer, and PictureOK which    *)
(* picture FRAME_DUMP would send.                                          *)
(***************************************************************************)
EXTENDS IdeFrameTypes

-----------------------------------------------------------------------------
(* The line: what is under way, frame by frame.  A frame is <<c, n>>, its  *)
(* command and length; tx is the file under way and how much of it is sent.*)

HeaderLen(f) == IF f[1] = FB_ENABLE THEN 7 ELSE 6

\* Byte i of the packet that brings the header of frame f.
IsByte(f, i, v) ==
  /\ i = 1 => v = HEAD
  /\ i = 2 => v = f[1]
  /\ i = 3 => v = f[2]
  /\ i \in 4..6 => v = 0
  /\ i = 7 => v \in {0, 1}

\* q is that packet without its first o bytes.
Ahead(q, f, o) == Len(q) = HeaderLen(f) - o /\ \A i \in 1..Len(q) : IsByte(f, i + o, q[i])

\* s is the payload of f.
Text(s, f, tx) ==
  /\ Len(s) = IF f[1] \in Payloads THEN f[2] ELSE 0
  /\ f[1] = CREATEFILE => s = Info(tx[1])
  /\ f[1] = WRITEFILE => s = SubSeq(Contents[tx[1]], tx[2] - f[2] + 1, tx[2])

\* The packets from a to b of p bring what s lacks of the payload of f.
Carries(s, p, a, b, f, tx) ==
  /\ \A i \in a..b : p[i] # <<>>
  /\ \/ b = a - 1 /\ Text(s, f, tx)
     \/ b = a     /\ Text(s \o p[a], f, tx)
     \/ b = a + 1 /\ Text(s \o p[a] \o p[a + 1], f, tx)

\* The packets of p from a on and before b are frame f.
Brings(p, a, b, f, tx) ==
  a < b /\ Ahead(p[a], f, 0) /\ Carries(<<>>, p, a + 1, b - 1, f, tx)

\* Behind the first k packets of p come the frames es, one after the other:
\* frame j begins with packet pos[j].
Framed(p, k, es, tx) ==
  \E pos \in [1..Len(es) + 1 -> 1..Len(p) + 1] :
    /\ pos[1] = k + 1 /\ pos[Len(es) + 1] = Len(p) + 1
    /\ \A j \in 1..Len(es) : Brings(p, pos[j], pos[j + 1], es[j], tx)

\* p brings what s lacks of the payload of the first of es, and the others.
Rest(s, p, es, tx) ==
  \E k \in 0..2 : Carries(s, p, 1, k, Head(es), tx) /\ Framed(p, k, Tail(es), tx)

-----------------------------------------------------------------------------
\* The payload that is carried is the same wherever the packets are.
LEMMA CarriesMoves ==
  ASSUME NEW s, NEW p, NEW q, NEW a \in Int, NEW b \in Int, NEW d \in Int, NEW f, NEW tx,
         Carries(s, p, a, b, f, tx), \A i \in a..b : q[i + d] = p[i]
  PROVE  Carries(s, q, a + d, b + d, f, tx)
<1>1. \A i \in a + d..b + d : q[i] # <<>>
  <2>1. ASSUME NEW i \in a + d..b + d PROVE q[i] # <<>>
    <3>1. i - d \in a..b /\ (i - d) + d = i
      OBVIOUS
    <3>2. QED
      BY <3>1 DEF Carries
  <2>2. QED
    BY <2>1
<1>2. \/ b = a - 1 /\ Text(s, f, tx)
      \/ b = a     /\ Text(s \o p[a], f, tx)
      \/ b = a + 1 /\ Text(s \o p[a] \o p[a + 1], f, tx)
  BY DEF Carries
<1>3. CASE b = a - 1 /\ Text(s, f, tx)
  <2>1. b + d = (a + d) - 1
    BY <1>3
  <2>2. QED
    BY <1>1, <1>3, <2>1 DEF Carries
<1>4. CASE b = a /\ Text(s \o p[a], f, tx)
  <2>1. b + d = a + d /\ q[a + d] = p[a]
    BY <1>4
  <2>2. QED
    BY <1>1, <1>4, <2>1 DEF Carries
<1>5. CASE b = a + 1 /\ Text(s \o p[a] \o p[a + 1], f, tx)
  <2>1. b + d = (a + d) + 1 /\ a \in a..b /\ a + 1 \in a..b /\ (a + 1) + d = (a + d) + 1
    BY <1>5
  <2>2. q[a + d] = p[a] /\ q[(a + d) + 1] = p[a + 1]
    BY <2>1
  <2>3. QED
    BY <1>1, <1>5, <2>1, <2>2 DEF Carries
<1>6. QED
  BY <1>2, <1>3, <1>4, <1>5

\* Only CREATEFILE and WRITEFILE have a payload that depends on the transfer.
LEMMA CarriesTx ==
  ASSUME NEW s, NEW p, NEW a, NEW b, NEW f, NEW tx, NEW ty,
         Carries(s, p, a, b, f, tx), f[1] \notin {CREATEFILE, WRITEFILE}
  PROVE  Carries(s, p, a, b, f, ty)
BY DEF Carries, Text

\* So is a frame.
LEMMA BringsMoves ==
  ASSUME NEW p, NEW q, NEW a \in Int, NEW b \in Int, NEW d \in Int, NEW f, NEW tx,
         Brings(p, a, b, f, tx), \A i \in a..b - 1 : q[i + d] = p[i]
  PROVE  Brings(q, a + d, b + d, f, tx)
<1>1. a < b /\ Ahead(p[a], f, 0) /\ Carries(<<>>, p, a + 1, b - 1, f, tx)
  BY DEF Brings
<1>2. a + d < b + d /\ q[a + d] = p[a]
  BY <1>1
<1>3. Carries(<<>>, q, (a + 1) + d, (b - 1) + d, f, tx)
  <2>1. (\A i \in a + 1..b - 1 : q[i + d] = p[i]) /\ a + 1 \in Int /\ b - 1 \in Int
    OBVIOUS
  <2>2. QED
    BY <1>1, <2>1, CarriesMoves
<1>4. (a + 1) + d = (a + d) + 1 /\ (b - 1) + d = (b + d) - 1
  OBVIOUS
<1>5. QED
  BY <1>1, <1>2, <1>3, <1>4 DEF Brings

\* Frames without data of the file are the same for any transfer.
LEMMA FramedTx ==
  ASSUME NEW p, NEW k, NEW es, NEW tx, NEW ty, Framed(p, k, es, tx),
         \A j \in 1..Len(es) : es[j][1] \notin {CREATEFILE, WRITEFILE}
  PROVE  Framed(p, k, es, ty)
<1>1. \A a, b : \A j \in 1..Len(es) : Brings(p, a, b, es[j], tx) => Brings(p, a, b, es[j], ty)
  BY CarriesTx DEF Brings
<1>2. QED
  BY <1>1 DEF Framed

\* Without a frame nothing is under way.
LEMMA FramedNone ==
  ASSUME NEW p \in Seq(Seq(Byte)), NEW es, NEW tx, Framed(p, 0, es, tx)
  PROVE  p # <<>> => es # <<>>
<1>1. ASSUME es = <<>> PROVE p = <<>>
  <2>1. Len(es) = 0
    BY <1>1
  <2>2. 0 + 1 = Len(p) + 1
    BY <2>1 DEF Framed
  <2>3. QED
    BY <2>2, LenProperties, EmptySeq
<1>2. QED
  BY <1>1

\* Reading a packet of a payload.
LEMMA FramedDrop ==
  ASSUME NEW p \in Seq(Seq(Byte)), NEW k \in 1..2, NEW es \in Seq(Byte \X Byte), NEW tx,
         Framed(p, k, es, tx)
  PROVE  p # <<>> /\ Framed(Tail(p), k - 1, es, tx)
<1>1. PICK pos \in [1..Len(es) + 1 -> 1..Len(p) + 1] :
        /\ pos[1] = k + 1 /\ pos[Len(es) + 1] = Len(p) + 1
        /\ \A j \in 1..Len(es) : Brings(p, pos[j], pos[j + 1], es[j], tx)
  BY DEF Framed
<1>2. Len(es) \in Nat /\ Len(p) \in Nat
  BY LenProperties
<1>3. p # <<>>
  <2>1. pos[1] \in 1..Len(p) + 1
    BY <1>1, <1>2
  <2>2. Len(p) # 0
    BY <1>1, <1>2, <2>1
  <2>3. QED
    BY <2>2
<1>4. /\ Tail(p) \in Seq(Seq(Byte)) /\ Len(Tail(p)) = Len(p) - 1
      /\ \A i \in 2..Len(p) : Tail(p)[i - 1] = p[i]
  BY <1>2, <1>3, HeadTailProperties
<1> DEFINE at == [j \in 1..Len(es) + 1 |-> pos[j] - 1]
<1>5. \A j \in 1..Len(es) + 1 : pos[j] \in 2..Len(p) + 1
  <2>1. ASSUME NEW j \in 1..Len(es) + 1 PROVE pos[j] \in 2..Len(p) + 1
    <3>1. CASE j = 1
      BY <1>1, <1>2, <3>1
    <3>2. CASE j # 1
      <4>1. j - 1 \in 1..Len(es) /\ (j - 1) + 1 = j /\ j - 1 \in 1..Len(es) + 1
        BY <1>2, <3>2
      <4>2. pos[j - 1] < pos[j]
        BY <1>1, <4>1 DEF Brings
      <4>3. pos[j - 1] \in 1..Len(p) + 1 /\ pos[j] \in 1..Len(p) + 1
        BY <1>1, <4>1
      <4>4. QED
        BY <1>2, <4>2, <4>3
    <3>3. QED
      BY <3>1, <3>2
  <2>2. QED
    BY <2>1
<1>6. at \in [1..Len(es) + 1 -> 1..Len(Tail(p)) + 1]
  BY <1>2, <1>4, <1>5
<1>7. at[1] = (k - 1) + 1 /\ at[Len(es) + 1] = Len(Tail(p)) + 1
  BY <1>1, <1>2, <1>4
<1>8. \A j \in 1..Len(es) : Brings(Tail(p), at[j], at[j + 1], es[j], tx)
  <2>1. ASSUME NEW j \in 1..Len(es) PROVE Brings(Tail(p), at[j], at[j + 1], es[j], tx)
    <3>1. /\ j \in 1..Len(es) + 1 /\ j + 1 \in 1..Len(es) + 1
          /\ pos[j] \in 2..Len(p) + 1 /\ pos[j + 1] \in 2..Len(p) + 1
      BY <1>2, <1>5
    <3>2. \A i \in pos[j]..pos[j + 1] - 1 : Tail(p)[i + (-1)] = p[i]
      <4>1. \A i \in pos[j]..pos[j + 1] - 1 : i \in 2..Len(p) /\ i - 1 = i + (-1)
        BY <1>2, <3>1
      <4>2. QED
        BY <1>4, <4>1
    <3>3. Brings(Tail(p), pos[j] + (-1), pos[j + 1] + (-1), es[j], tx)
      <4>1. pos[j] \in Int /\ pos[j + 1] \in Int /\ -1 \in Int
        BY <3>1
      <4>2. Brings(p, pos[j], pos[j + 1], es[j], tx)
        BY <1>1
      <4>3. QED
        BY <3>2, <4>1, <4>2, BringsMoves
    <3>4. at[j] = pos[j] + (-1) /\ at[j + 1] = pos[j + 1] + (-1)
      BY <3>1
    <3>5. QED
      BY <3>3, <3>4
  <2>2. QED
    BY <2>1
<1>9. QED
  <2> HIDE DEF at
  <2>1. QED
    BY <1>3, <1>6, <1>7, <1>8 DEF Framed

\* Reading the header of the first frame.
LEMMA FramedRead ==
  ASSUME NEW p \in Seq(Seq(Byte)), NEW es \in Seq(Byte \X Byte), NEW tx,
         p # <<>>, Framed(p, 0, es, tx)
  PROVE  es # <<>> /\ Ahead(Head(p), Head(es), 0) /\ Rest(<<>>, Tail(p), es, tx)
<1>1. es # <<>>
  BY FramedNone
<1>2. PICK pos \in [1..Len(es) + 1 -> 1..Len(p) + 1] :
        /\ pos[1] = 0 + 1 /\ pos[Len(es) + 1] = Len(p) + 1
        /\ \A j \in 1..Len(es) : Brings(p, pos[j], pos[j + 1], es[j], tx)
  BY DEF Framed
<1>3. Len(es) \in Nat \ {0} /\ Len(p) \in Nat \ {0}
  BY <1>1, LenProperties
<1>4. /\ Tail(p) \in Seq(Seq(Byte)) /\ Len(Tail(p)) = Len(p) - 1 /\ Head(p) = p[1]
      /\ \A i \in 2..Len(p) : Tail(p)[i - 1] = p[i]
  BY <1>3, HeadTailProperties
<1>5. /\ Tail(es) \in Seq(Byte \X Byte) /\ Len(Tail(es)) = Len(es) - 1 /\ Head(es) = es[1]
      /\ \A i \in 1..Len(es) - 1 : Tail(es)[i] = es[i + 1]
  BY <1>1, <1>3, HeadTailProperties
<1>6. 1 \in 1..Len(es) /\ pos[2] \in 1..Len(p) + 1 /\ Brings(p, 1, pos[2], es[1], tx)
  <2>1. 1 \in 1..Len(es) /\ 2 \in 1..Len(es) + 1 /\ 1 + 1 = 2 /\ 0 + 1 = 1
    BY <1>3
  <2>2. pos[1] = 1 /\ Brings(p, pos[1], pos[2], es[1], tx)
    BY <1>2, <2>1
  <2>3. QED
    BY <1>2, <2>1, <2>2
<1>7. Ahead(Head(p), Head(es), 0)
  BY <1>4, <1>5, <1>6 DEF Brings
<1> DEFINE k == pos[2] - 2
<1>8. k \in 0..2 /\ Carries(<<>>, Tail(p), 1, k, Head(es), tx)
  <2>1. 1 < pos[2] /\ Carries(<<>>, p, 2, pos[2] - 1, es[1], tx)
    BY <1>6 DEF Brings
  <2>2. k \in 0..2
    BY <1>3, <1>6, <2>1 DEF Carries
  <2>3. \A i \in 2..pos[2] - 1 : Tail(p)[i + (-1)] = p[i]
    BY <1>3, <1>4, <1>6
  <2>4. Carries(<<>>, Tail(p), 2 + (-1), (pos[2] - 1) + (-1), es[1], tx)
    <3>1. 2 \in Int /\ pos[2] - 1 \in Int /\ -1 \in Int
      BY <1>6
    <3>2. QED
      BY <2>1, <2>3, <3>1, CarriesMoves
  <2>5. 2 + (-1) = 1 /\ (pos[2] - 1) + (-1) = k
    BY <1>6
  <2>6. QED
    BY <1>5, <2>2, <2>4, <2>5
<1>9. Framed(Tail(p), k, Tail(es), tx)
  <2> DEFINE at == [j \in 1..Len(Tail(es)) + 1 |-> pos[j + 1] - 1]
  <2>1. \A j \in 2..Len(es) + 1 : pos[j] \in 2..Len(p) + 1
    <3>1. ASSUME NEW j \in 2..Len(es) + 1 PROVE pos[j] \in 2..Len(p) + 1
      <4>1. /\ j - 1 \in 1..Len(es) /\ (j - 1) + 1 = j /\ j - 1 \in 1..Len(es) + 1
            /\ j \in 1..Len(es) + 1
        BY <1>3
      <4>2. pos[j - 1] < pos[j]
        BY <1>2, <4>1 DEF Brings
      <4>3. pos[j - 1] \in 1..Len(p) + 1 /\ pos[j] \in 1..Len(p) + 1
        BY <1>2, <4>1
      <4>4. QED
        BY <1>3, <4>2, <4>3
    <3>2. QED
      BY <3>1
  <2>2. at \in [1..Len(Tail(es)) + 1 -> 1..Len(Tail(p)) + 1]
    BY <1>3, <1>4, <1>5, <2>1
  <2>3. at[1] = k + 1 /\ at[Len(Tail(es)) + 1] = Len(Tail(p)) + 1
    BY <1>2, <1>3, <1>4, <1>5, <1>6
  <2>4. \A j \in 1..Len(Tail(es)) : Brings(Tail(p), at[j], at[j + 1], Tail(es)[j], tx)
    <3>1. ASSUME NEW j \in 1..Len(Tail(es))
          PROVE  Brings(Tail(p), at[j], at[j + 1], Tail(es)[j], tx)
      <4>1. /\ j + 1 \in 1..Len(es) /\ j + 1 \in 2..Len(es) + 1 /\ (j + 1) + 1 \in 2..Len(es) + 1
            /\ j \in 1..Len(Tail(es)) + 1 /\ j + 1 \in 1..Len(Tail(es)) + 1
            /\ Tail(es)[j] = es[j + 1]
        BY <1>3, <1>5
      <4>2. /\ pos[j + 1] \in 2..Len(p) + 1 /\ pos[(j + 1) + 1] \in 2..Len(p) + 1
            /\ Brings(p, pos[j + 1], pos[(j + 1) + 1], es[j + 1], tx)
        BY <1>2, <2>1, <4>1
      <4>3. \A i \in pos[j + 1]..pos[(j + 1) + 1] - 1 : Tail(p)[i + (-1)] = p[i]
        <5>1. \A i \in pos[j + 1]..pos[(j + 1) + 1] - 1 : i \in 2..Len(p) /\ i - 1 = i + (-1)
          BY <1>3, <4>2
        <5>2. QED
          BY <1>4, <5>1
      <4>4. Brings(Tail(p), pos[j + 1] + (-1), pos[(j + 1) + 1] + (-1), es[j + 1], tx)
        <5>1. pos[j + 1] \in Int /\ pos[(j + 1) + 1] \in Int /\ -1 \in Int
          BY <4>2
        <5>2. QED
          BY <4>2, <4>3, <5>1, BringsMoves
      <4>5. at[j] = pos[j + 1] + (-1) /\ at[j + 1] = pos[(j + 1) + 1] + (-1)
        BY <4>1
      <4>6. QED
        BY <4>1, <4>4, <4>5
    <3>2. QED
      BY <3>1
  <2>5. QED
    <3> HIDE DEF at
    <3>1. QED
      BY <2>2, <2>3, <2>4 DEF Framed
<1>10. QED
  <2> HIDE DEF k
  <2>1. QED
    BY <1>1, <1>7, <1>8, <1>9 DEF Rest

\* Sending the packets g of a frame f.
LEMMA FramedAppend ==
  ASSUME NEW p \in Seq(Seq(Byte)), NEW g \in Seq(Seq(Byte)), NEW k \in Nat, NEW tx,
         NEW es \in Seq(Byte \X Byte), NEW f \in Byte \X Byte,
         Framed(p, k, es, tx), Brings(g, 1, Len(g) + 1, f, tx)
  PROVE  Framed(p \o g, k, Append(es, f), tx)
<1>1. PICK pos \in [1..Len(es) + 1 -> 1..Len(p) + 1] :
        /\ pos[1] = k + 1 /\ pos[Len(es) + 1] = Len(p) + 1
        /\ \A j \in 1..Len(es) : Brings(p, pos[j], pos[j + 1], es[j], tx)
  BY DEF Framed
<1>2. /\ Len(es) \in Nat /\ Len(p) \in Nat /\ Len(g) \in Nat
      /\ Len(p \o g) = Len(p) + Len(g)
      /\ \A i \in 1..Len(p) : (p \o g)[i] = p[i]
      /\ \A i \in 1..Len(g) : (p \o g)[Len(p) + i] = g[i]
  BY LenProperties, LinkGrows
<1>3. /\ Len(Append(es, f)) = Len(es) + 1
      /\ \A j \in 1..Len(es) : Append(es, f)[j] = es[j]
      /\ Append(es, f)[Len(es) + 1] = f
  BY AppendProperties
<1> DEFINE q == p \o g
           fs == Append(es, f)
           at == [j \in 1..Len(fs) + 1 |->
                    IF j = Len(es) + 2 THEN Len(p) + Len(g) + 1 ELSE pos[j]]
<1>4. at \in [1..Len(fs) + 1 -> 1..Len(q) + 1]
  <2>1. ASSUME NEW j \in 1..Len(fs) + 1 PROVE at[j] \in 1..Len(q) + 1
    <3>1. CASE j = Len(es) + 2
      BY <1>2, <3>1
    <3>2. CASE j # Len(es) + 2
      <4>1. j \in 1..Len(es) + 1
        BY <1>2, <1>3, <3>2
      <4>2. pos[j] \in 1..Len(p) + 1
        BY <1>1, <4>1
      <4>3. QED
        BY <1>2, <3>2, <4>2
    <3>3. QED
      BY <3>1, <3>2
  <2>2. QED
    BY <2>1
<1>5. at[1] = k + 1 /\ at[Len(fs) + 1] = Len(q) + 1
  BY <1>1, <1>2, <1>3
<1>6. \A j \in 1..Len(fs) : Brings(q, at[j], at[j + 1], fs[j], tx)
  <2>1. ASSUME NEW j \in 1..Len(fs) PROVE Brings(q, at[j], at[j + 1], fs[j], tx)
    <3>1. CASE j = Len(es) + 1
      <4>1. at[j] = 1 + Len(p) /\ at[j + 1] = (Len(g) + 1) + Len(p) /\ fs[j] = f
        BY <1>1, <1>2, <1>3, <3>1
      <4>2. \A i \in 1..(Len(g) + 1) - 1 : q[i + Len(p)] = g[i]
        BY <1>2
      <4>3. Len(p) \in Int /\ Len(g) + 1 \in Int /\ 1 \in Int
        BY <1>2
      <4>4. Brings(q, 1 + Len(p), (Len(g) + 1) + Len(p), f, tx)
        <5> HIDE DEF q
        <5>1. QED
          BY <4>2, <4>3, BringsMoves
      <4>5. QED
        BY <4>1, <4>4
    <3>2. CASE j # Len(es) + 1
      <4>1. /\ j \in 1..Len(es) /\ j \in 1..Len(es) + 1 /\ j + 1 \in 1..Len(es) + 1
            /\ j # Len(es) + 2 /\ j + 1 # Len(es) + 2
            /\ j \in 1..Len(fs) + 1 /\ j + 1 \in 1..Len(fs) + 1
        <5>1. j \in 1..Len(es) + 1 /\ Len(fs) + 1 = Len(es) + 2
          BY <1>2, <1>3
        <5>2. j \in 1..Len(es)
          BY <1>2, <3>2, <5>1
        <5>3. QED
          BY <1>2, <5>1, <5>2
      <4>2. pos[j] \in 1..Len(p) + 1 /\ pos[j + 1] \in 1..Len(p) + 1
        BY <1>1, <4>1
      <4>3. \A i \in pos[j]..pos[j + 1] - 1 : q[i + 0] = p[i]
        BY <1>2, <4>2
      <4>4. pos[j] \in Int /\ pos[j + 1] \in Int /\ 0 \in Int
        BY <4>2
      <4>5. Brings(p, pos[j], pos[j + 1], es[j], tx)
        BY <1>1, <4>1
      <4>6. Brings(q, pos[j] + 0, pos[j + 1] + 0, es[j], tx)
        <5> HIDE DEF q
        <5>1. QED
          BY <4>3, <4>4, <4>5, BringsMoves
      <4>7. at[j] = pos[j] + 0 /\ at[j + 1] = pos[j + 1] + 0 /\ fs[j] = es[j]
        BY <1>3, <4>1, <4>4
      <4>8. QED
        BY <4>6, <4>7
    <3>3. QED
      BY <3>1, <3>2
  <2>2. QED
    BY <2>1
<1>7. QED
  <2> HIDE DEF at
  <2>1. QED
    BY <1>4, <1>5, <1>6 DEF Framed

\* A byte is a number.
LEMMA ByteIsNat == \A v \in Byte : v \in Nat
BY DEF Byte

\* The lengths of what one and two packets bring.
LEMMA LenOfTwo ==
  ASSUME NEW s \in Seq(Byte), NEW a \in Seq(Byte)
  PROVE  s \o a \in Seq(Byte) /\ Len(s \o a) = Len(s) + Len(a) /\ Len(s) \in Nat /\ Len(a) \in Nat
         /\ (a # <<>> => Len(a) > 0)
BY ConcatProperties, LenProperties

\* The first k of p with a payload that is not complete: one of its packets
\* comes next, and it brings no more than is lacking.
LEMMA CarriesMore ==
  ASSUME NEW s \in Seq(Byte), NEW p \in Seq(Seq(Byte)), NEW k \in 1..2, k <= Len(p),
         NEW f \in Byte \X Byte, NEW tx, Carries(s, p, 1, k, f, tx)
  PROVE  /\ p # <<>> /\ Head(p) \in Seq(Byte) /\ Head(p) # <<>>
         /\ f[1] \in Payloads /\ Len(s) + Len(Head(p)) <= f[2]
         /\ Carries(s \o Head(p), Tail(p), 1, k - 1, f, tx)
<1>1. Len(p) \in Nat /\ Len(p) # 0 /\ p # <<>>
  BY LenProperties, EmptySeq
<1>2. /\ Head(p) = p[1] /\ Head(p) \in Seq(Byte) /\ Tail(p) \in Seq(Seq(Byte))
      /\ Len(Tail(p)) = Len(p) - 1 /\ \A i \in 2..Len(p) : Tail(p)[i - 1] = p[i]
  BY <1>1, HeadTailProperties
<1>3. f[1] \in Byte /\ f[2] \in Nat
  <2>1. f[1] \in Byte /\ f[2] \in Byte
    OBVIOUS
  <2>2. QED
    BY <2>1, ByteIsNat
<1>4. p[1] # <<>>
  BY DEF Carries
<1>5. CASE k = 1
  <2>1. Text(s \o p[1], f, tx)
    BY <1>5 DEF Carries
  <2>2. Len(s \o p[1]) = Len(s) + Len(p[1]) /\ Len(s) \in Nat /\ Len(p[1]) \in Nat /\ Len(p[1]) > 0
    BY <1>2, <1>4, LenOfTwo
  <2>3. f[1] \in Payloads /\ Len(s) + Len(p[1]) <= f[2]
    BY <1>3, <2>1, <2>2 DEF Text
  <2>4. Carries(s \o Head(p), Tail(p), 1, 0, f, tx)
    BY <1>2, <2>1 DEF Carries
  <2>5. QED
    BY <1>1, <1>2, <1>4, <1>5, <2>3, <2>4
<1>6. CASE k = 2
  <2>1. Text(s \o p[1] \o p[2], f, tx) /\ p[2] # <<>>
    BY <1>6 DEF Carries
  <2>2. p[2] \in Seq(Byte) /\ Tail(p)[1] = p[2]
    <3>1. 2 \in 1..Len(p) /\ 2 \in 2..Len(p) /\ 2 - 1 = 1
      BY <1>1, <1>6
    <3>2. QED
      BY <1>2, <3>1, ElementOfSeq
  <2>3. /\ Len(s \o p[1]) = Len(s) + Len(p[1]) /\ Len(s) \in Nat /\ Len(p[1]) \in Nat
        /\ s \o p[1] \in Seq(Byte)
    BY <1>2, LenOfTwo
  <2>4. Len(s \o p[1] \o p[2]) = Len(s) + Len(p[1]) + Len(p[2]) /\ Len(p[2]) \in Nat /\ Len(p[2]) > 0
    BY <2>1, <2>2, <2>3, LenOfTwo
  <2>5. f[1] \in Payloads /\ Len(s) + Len(p[1]) <= f[2]
    <3>1. Len(s \o p[1] \o p[2]) = IF f[1] \in Payloads THEN f[2] ELSE 0
      BY <2>1 DEF Text
    <3>2. Len(s) + Len(p[1]) < Len(s \o p[1] \o p[2]) /\ Len(s \o p[1] \o p[2]) > 0
      <4>1. \A l, m, n \in Nat : n > 0 => l + m < l + m + n /\ l + m + n > 0
        OBVIOUS
      <4>2. QED
        BY <2>3, <2>4, <4>1, Zenon
    <3>3. f[1] \in Payloads
      BY <3>1, <3>2
    <3>4. QED
      BY <1>3, <2>3, <3>1, <3>2, <3>3
  <2>6. Carries(s \o Head(p), Tail(p), 1, 1, f, tx)
    <3>1. \A i \in 1..1 : i = 1
      OBVIOUS
    <3>2. Text((s \o Head(p)) \o Tail(p)[1], f, tx)
      BY <1>2, <2>1, <2>2
    <3>3. QED
      BY <2>1, <2>2, <3>1, <3>2 DEF Carries
  <2>7. QED
    BY <1>1, <1>2, <1>4, <1>6, <2>5, <2>6
<1>7. QED
  BY <1>5, <1>6

\* Where a frame is known to be framed, its packets are there.
LEMMA FramedIn ==
  ASSUME NEW p \in Seq(Seq(Byte)), NEW k \in Nat, NEW es \in Seq(Byte \X Byte), NEW tx,
         Framed(p, k, es, tx)
  PROVE  k <= Len(p)
<1>1. Len(es) \in Nat /\ Len(p) \in Nat /\ 1 \in 1..Len(es) + 1
  BY LenProperties
<1>2. k + 1 \in 1..Len(p) + 1
  BY <1>1 DEF Framed
<1>3. QED
  BY <1>1, <1>2

\* read_until gets the next packet of the payload, and all of it.
LEMMA RestMore ==
  ASSUME NEW s \in Seq(Byte), NEW p \in Seq(Seq(Byte)), NEW es \in Seq(Byte \X Byte), NEW tx,
         es # <<>>, Rest(s, p, es, tx), Head(es)[1] \in Payloads, Len(s) < Head(es)[2]
  PROVE  /\ p # <<>> /\ Head(p) \in Seq(Byte) /\ Len(s) + Len(Head(p)) <= Head(es)[2]
         /\ Rest(s \o Head(p), Tail(p), es, tx)
<1>1. Head(es) \in Byte \X Byte /\ Tail(es) \in Seq(Byte \X Byte)
  BY HeadTailProperties
<1>2. PICK k \in 0..2 : Carries(s, p, 1, k, Head(es), tx) /\ Framed(p, k, Tail(es), tx)
  BY DEF Rest
<1>3. k # 0
  <2>1. ASSUME k = 0 PROVE FALSE
    <3>1. Text(s, Head(es), tx)
      BY <1>2, <2>1 DEF Carries
    <3>2. QED
      BY <1>1, <3>1, LenProperties DEF Text, Byte
  <2>2. QED
    BY <2>1
<1>4. k \in 1..2 /\ k <= Len(p) /\ k - 1 \in 0..2
  <2>1. k \in Nat /\ k \in 1..2 /\ k - 1 \in 0..2
    BY <1>3
  <2>2. QED
    BY <1>1, <1>2, <2>1, FramedIn
<1>5. /\ p # <<>> /\ Head(p) \in Seq(Byte) /\ Len(s) + Len(Head(p)) <= Head(es)[2]
      /\ Carries(s \o Head(p), Tail(p), 1, k - 1, Head(es), tx)
  BY <1>1, <1>2, <1>4, CarriesMore
<1>6. Framed(Tail(p), k - 1, Tail(es), tx)
  BY <1>1, <1>2, <1>4, FramedDrop
<1>7. QED
  BY <1>4, <1>5, <1>6 DEF Rest

\* A command without a payload, and one that has its payload, is followed by
\* the next frame.
LEMMA RestDone ==
  ASSUME NEW s \in Seq(Byte), NEW p \in Seq(Seq(Byte)), NEW es \in Seq(Byte \X Byte), NEW tx,
         es # <<>>, Rest(s, p, es, tx), Head(es)[1] \notin Payloads \/ Len(s) = Head(es)[2]
  PROVE  Text(s, Head(es), tx) /\ Framed(p, 0, Tail(es), tx)
<1>1. Head(es) \in Byte \X Byte /\ Tail(es) \in Seq(Byte \X Byte)
  BY HeadTailProperties
<1>2. PICK k \in 0..2 : Carries(s, p, 1, k, Head(es), tx) /\ Framed(p, k, Tail(es), tx)
  BY DEF Rest
<1>3. k = 0
  <2>1. ASSUME k # 0 PROVE FALSE
    <3>1. k \in 1..2 /\ k <= Len(p)
      <4>1. k \in Nat /\ k \in 1..2
        BY <2>1
      <4>2. QED
        BY <1>1, <1>2, <4>1, FramedIn
    <3>2. /\ Head(p) \in Seq(Byte) /\ Head(p) # <<>> /\ Head(es)[1] \in Payloads
          /\ Len(s) + Len(Head(p)) <= Head(es)[2]
      BY <1>1, <1>2, <3>1, CarriesMore
    <3>3. Len(Head(p)) \in Nat /\ Len(Head(p)) > 0 /\ Len(s) \in Nat
      BY <3>2, LenOfTwo
    <3>4. QED
      BY <3>2, <3>3
  <2>2. QED
    BY <2>1
<1>4. QED
  BY <1>2, <1>3 DEF Carries

\* A frame that is sent comes after those under way.
LEMMA RestSent ==
  ASSUME NEW s, NEW p \in Seq(Seq(Byte)), NEW g \in Seq(Seq(Byte)), NEW tx,
         NEW es \in Seq(Byte \X Byte), NEW f \in Byte \X Byte, es # <<>>,
         Rest(s, p, es, tx), Brings(g, 1, Len(g) + 1, f, tx)
  PROVE  Rest(s, p \o g, Append(es, f), tx)
<1>1. Head(es) \in Byte \X Byte /\ Tail(es) \in Seq(Byte \X Byte)
  BY HeadTailProperties
<1>2. PICK k \in 0..2 : Carries(s, p, 1, k, Head(es), tx) /\ Framed(p, k, Tail(es), tx)
  BY DEF Rest
<1>3. Head(Append(es, f)) = Head(es) /\ Tail(Append(es, f)) = Append(Tail(es), f)
  BY HeadTailAppend
<1>4. k \in Nat /\ k \in Int /\ 1 \in Int /\ 0 \in Int
  OBVIOUS
<1>5. Carries(s, p \o g, 1, k, Head(es), tx)
  <2>1. k <= Len(p) /\ Len(p) \in Nat /\ \A i \in 1..Len(p) : (p \o g)[i] = p[i]
    BY <1>1, <1>2, <1>4, FramedIn, LinkGrows, LenProperties
  <2>2. \A i \in 1..k : (p \o g)[i + 0] = p[i]
    BY <2>1
  <2>3. Carries(s, p \o g, 1 + 0, k + 0, Head(es), tx)
    BY <1>2, <1>4, <2>2, CarriesMoves
  <2>4. QED
    BY <2>3
<1>6. Framed(p \o g, k, Append(Tail(es), f), tx)
  BY <1>1, <1>2, <1>4, FramedAppend
<1>7. QED
  BY <1>3, <1>5, <1>6 DEF Rest

\* As FramedTx.
LEMMA RestTx ==
  ASSUME NEW s, NEW p, NEW es \in Seq(Byte \X Byte), NEW tx, NEW ty, es # <<>>, Rest(s, p, es, tx),
         \A j \in 1..Len(es) : es[j][1] \notin {CREATEFILE, WRITEFILE}
  PROVE  Rest(s, p, es, ty)
<1>1. Head(es)[1] \notin {CREATEFILE, WRITEFILE}
  BY LenProperties, HeadTailProperties
<1>2. \A j \in 1..Len(Tail(es)) : Tail(es)[j][1] \notin {CREATEFILE, WRITEFILE}
  <2>1. /\ Len(es) \in Nat /\ Len(Tail(es)) = Len(es) - 1
        /\ \A j \in 1..Len(es) - 1 : Tail(es)[j] = es[j + 1]
    BY LenProperties, HeadTailProperties
  <2>2. QED
    BY <2>1
<1>3. PICK k \in 0..2 : Carries(s, p, 1, k, Head(es), tx) /\ Framed(p, k, Tail(es), tx)
  BY DEF Rest
<1>4. QED
  BY <1>1, <1>2, <1>3, CarriesTx, FramedTx DEF Rest

-----------------------------------------------------------------------------
(* What the IDE sends.                                                     *)

\* A header alone.
LEMMA HeaderAhead ==
  ASSUME NEW c \in Byte \ {FB_ENABLE}, NEW n \in Byte
  PROVE  Ahead(Frame(c, n), <<c, n>>, 0)
<1>1. /\ Len(Frame(c, n)) = 6
      /\ Frame(c, n)[1] = HEAD /\ Frame(c, n)[2] = c /\ Frame(c, n)[3] = n
      /\ Frame(c, n)[4] = 0 /\ Frame(c, n)[5] = 0 /\ Frame(c, n)[6] = 0
  BY FrameIs
<1>2. HeaderLen(<<c, n>>) = 6
  BY DEF HeaderLen
<1>3. ASSUME NEW i \in 1..6 PROVE IsByte(<<c, n>>, i + 0, Frame(c, n)[i])
  BY <1>1 DEF IsByte
<1>4. QED
  BY <1>1, <1>2, <1>3 DEF Ahead

\* A command without a payload is one packet.
LEMMA SentHeader ==
  ASSUME NEW c \in Byte \ (Payloads \cup {FB_ENABLE}), NEW tx
  PROVE  LET g == <<Frame(c, 0)>>
         IN g \in Seq(Seq(Byte)) /\ Brings(g, 1, Len(g) + 1, <<c, 0>>, tx)
<1> DEFINE g == <<Frame(c, 0)>>
<1>1. 0 \in Byte
  BY DEF Byte
<1>2. Frame(c, 0) \in Seq(Byte) /\ Ahead(Frame(c, 0), <<c, 0>>, 0)
  BY <1>1, FrameIs, HeaderAhead
<1>3. g \in Seq(Seq(Byte)) /\ Len(g) = 1 /\ g[1] = Frame(c, 0)
  BY <1>2
<1>4. Text(<<>>, <<c, 0>>, tx)
  BY DEF Text, Payloads
<1>5. Carries(<<>>, g, 2, 1, <<c, 0>>, tx)
  <2>1. 1 = 2 - 1 /\ \A i \in 2..1 : FALSE
    OBVIOUS
  <2>2. QED
    BY <1>4, <2>1 DEF Carries
<1>6. 1 < Len(g) + 1 /\ 1 + 1 = 2 /\ (Len(g) + 1) - 1 = 1
  BY <1>3
<1>7. QED
  <2> HIDE DEF g
  <2>1. Brings(g, 1, Len(g) + 1, <<c, 0>>, tx)
    BY <1>2, <1>3, <1>5, <1>6 DEF Brings
  <2>2. QED
    BY <1>3, <2>1 DEF g

\* FB_ENABLE has its payload in the packet of the header.
LEMMA SentEnable ==
  ASSUME NEW b \in {0, 1}, NEW tx
  PROVE  LET g == <<Frame(FB_ENABLE, 1) \o <<b>>>>
         IN g \in Seq(Seq(Byte)) /\ Brings(g, 1, Len(g) + 1, <<FB_ENABLE, 1>>, tx)
<1> DEFINE q == Frame(FB_ENABLE, 1) \o <<b>>
           g == <<q>>
           f == <<FB_ENABLE, 1>>
<1>1. FB_ENABLE \in Byte /\ 1 \in Byte /\ b \in Byte /\ FB_ENABLE \notin Payloads
      /\ FB_ENABLE # CREATEFILE /\ FB_ENABLE # WRITEFILE
  BY DEF Byte, FB_ENABLE, Payloads, SCRIPT_EXEC, CREATEFILE, WRITEFILE
<1>2. q \in Seq(Byte) /\ Len(q) = 7
      /\ q[1] = HEAD /\ q[2] = FB_ENABLE /\ q[3] = 1 /\ q[4] = 0 /\ q[5] = 0 /\ q[6] = 0 /\ q[7] = b
  <2>1. /\ Frame(FB_ENABLE, 1) \in Seq(Byte) /\ <<b>> \in Seq(Byte)
        /\ Len(Frame(FB_ENABLE, 1)) = 6 /\ Len(<<b>>) = 1 /\ <<b>>[1] = b
        /\ Frame(FB_ENABLE, 1)[1] = HEAD /\ Frame(FB_ENABLE, 1)[2] = FB_ENABLE
        /\ Frame(FB_ENABLE, 1)[3] = 1 /\ Frame(FB_ENABLE, 1)[4] = 0
        /\ Frame(FB_ENABLE, 1)[5] = 0 /\ Frame(FB_ENABLE, 1)[6] = 0
    BY <1>1, FrameIs
  <2>2. /\ q \in Seq(Byte) /\ Len(q) = 7
        /\ \A i \in 1..7 : q[i] = IF i <= 6 THEN Frame(FB_ENABLE, 1)[i] ELSE <<b>>[i - 6]
    BY <2>1, ConcatProperties
  <2>3. QED
    BY <2>1, <2>2
<1>3. g \in Seq(Seq(Byte)) /\ Len(g) = 1 /\ g[1] = q
  BY <1>2
<1>4. Ahead(q, f, 0)
  <2>1. HeaderLen(f) = 7
    BY DEF HeaderLen
  <2>2. ASSUME NEW i \in 1..7 PROVE IsByte(f, i + 0, q[i])
    BY <1>2 DEF IsByte
  <2>3. Len(q) = HeaderLen(f) - 0 /\ \A i \in 1..Len(q) : i \in 1..7
    BY <1>2, <2>1
  <2>4. QED
    BY <2>2, <2>3 DEF Ahead
<1>5. Text(<<>>, f, tx)
  BY <1>1 DEF Text
<1>6. Carries(<<>>, g, 2, 1, f, tx)
  <2>1. 1 = 2 - 1 /\ \A i \in 2..1 : FALSE
    OBVIOUS
  <2>2. QED
    BY <1>5, <2>1 DEF Carries
<1>7. 1 < Len(g) + 1 /\ 1 + 1 = 2 /\ (Len(g) + 1) - 1 = 1
  BY <1>3
<1>8. QED
  <2> HIDE DEF g
  <2>1. Brings(g, 1, Len(g) + 1, f, tx)
    BY <1>3, <1>4, <1>6, <1>7 DEF Brings
  <2>2. QED
    BY <1>3, <2>1 DEF g

\* FB_ENABLE has its byte in the packet of the header, unlike the payloads.
LEMMA PayloadsAre == Payloads \subseteq Byte \ {FB_ENABLE}
BY DEF Byte, Payloads, FB_ENABLE, SCRIPT_EXEC, CREATEFILE, WRITEFILE

\* A command with a payload is the packet of the header and those of the payload.
LEMMA SentPayload ==
  ASSUME NEW c \in Payloads, NEW s \in Seq(Byte), Len(s) \in Byte, NEW tx,
         NEW ps \in Packets(s), Text(s, <<c, Len(s)>>, tx)
  PROVE  LET g == <<Frame(c, Len(s))>> \o ps
         IN g \in Seq(Seq(Byte)) /\ Brings(g, 1, Len(g) + 1, <<c, Len(s)>>, tx)
<1> DEFINE h == Frame(c, Len(s))
           g == <<h>> \o ps
           f == <<c, Len(s)>>
<1>1. c \in Byte \ {FB_ENABLE}
  BY PayloadsAre, Zenon
<1>2. h \in Seq(Byte) /\ Ahead(h, f, 0)
  BY <1>1, FrameIs, HeaderAhead
<1>3. /\ ps \in Seq(Seq(Byte)) /\ Len(ps) \in 1..2 /\ \A i \in 1..Len(ps) : ps[i] # <<>>
      /\ Len(ps) = 1 => ps[1] = s
      /\ Len(ps) = 2 => ps[1] \o ps[2] = s
  BY PacketsAre
<1>4. <<h>> \in Seq(Seq(Byte)) /\ Len(<<h>>) = 1 /\ <<h>>[1] = h
  BY <1>2
<1> HIDE DEF h
<1>5. /\ g \in Seq(Seq(Byte)) /\ Len(g) = 1 + Len(ps) /\ g[1] = h
      /\ \A i \in 1..Len(ps) : g[1 + i] = ps[i]
  <2>1. /\ g \in Seq(Seq(Byte)) /\ Len(g) = Len(<<h>>) + Len(ps)
        /\ \A i \in 1..Len(<<h>>) : g[i] = <<h>>[i]
        /\ \A i \in 1..Len(ps) : g[Len(<<h>>) + i] = ps[i]
    BY <1>3, <1>4, LinkGrows
  <2> HIDE DEF g
  <2>2. QED
    BY <1>4, <2>1
<1> HIDE DEF g
<1>6. Carries(<<>>, g, 2, Len(g), f, tx)
  <2>1. CASE Len(ps) = 1
    <3>1. Len(g) = 2 /\ g[2] = s
      BY <1>3, <1>5, <2>1
    <3>2. <<>> \o g[2] = s /\ s # <<>>
      BY <1>3, <2>1, <3>1, ConcatEmptySeq
    <3>3. \A i \in 2..2 : i = 2
      OBVIOUS
    <3>4. QED
      BY <3>1, <3>2, <3>3 DEF Carries
  <2>2. CASE Len(ps) = 2
    <3>1. Len(g) = 3 /\ g[2] = ps[1] /\ g[3] = ps[2] /\ ps[1] # <<>> /\ ps[2] # <<>>
      BY <1>3, <1>5, <2>2
    <3>2. ps[1] \in Seq(Byte)
      <4>1. 1 \in 1..Len(ps)
        BY <2>2
      <4>2. QED
        BY <1>3, <4>1, ElementOfSeq
    <3>3. <<>> \o g[2] \o g[3] = s
      BY <1>3, <2>2, <3>1, <3>2, ConcatEmptySeq
    <3>4. \A i \in 2..3 : i = 2 \/ i = 3
      OBVIOUS
    <3>5. 3 = 2 + 1
      OBVIOUS
    <3>6. QED
      BY <3>1, <3>3, <3>4, <3>5 DEF Carries
  <2>3. QED
    BY <1>3, <2>1, <2>2
<1>7. 1 < Len(g) + 1 /\ 1 + 1 = 2 /\ (Len(g) + 1) - 1 = Len(g)
  BY <1>3, <1>5
<1>8. QED
  <2>1. Brings(g, 1, Len(g) + 1, f, tx)
    BY <1>2, <1>5, <1>6, <1>7 DEF Brings
  <2>2. QED
    BY <1>5, <2>1 DEF g, h

\* What is left of a header when the parser has taken n bytes more.
LEMMA AheadMoves ==
  ASSUME NEW q \in Seq(Byte), NEW r \in Seq(Byte), NEW n \in Nat, NEW o \in Nat, NEW f,
         Len(r) = Len(q) - n, \A i \in 1..Len(r) : r[i] = q[i + n], Ahead(q, f, o)
  PROVE  Ahead(r, f, o + n)
<1>1. Len(q) \in Nat /\ Len(r) \in Nat /\ HeaderLen(f) \in Nat
  BY LenProperties DEF HeaderLen
<1>2. Len(r) = HeaderLen(f) - (o + n)
  BY <1>1 DEF Ahead
<1>3. ASSUME NEW i \in 1..Len(r) PROVE IsByte(f, i + (o + n), r[i])
  <2>1. i + n \in 1..Len(q) /\ (i + n) + o = i + (o + n) /\ r[i] = q[i + n]
    BY <1>1
  <2>2. IsByte(f, (i + n) + o, q[i + n])
    BY <2>1 DEF Ahead
  <2>3. QED
    BY <2>1, <2>2
<1>4. QED
  BY <1>2, <1>3 DEF Ahead

-----------------------------------------------------------------------------
(* The frames under way that are about the file.                           *)

\* The questions; at most one frame is about the file, and a question is the last one.
Asks == {SCRIPT_RUNNING, FRAME_SIZE, FRAME_DUMP, QUERY_FILE_STAT, VERIFYFILE}
OneFile(es) == \A i, j \in DOMAIN es : es[i][1] \in FileCmds /\ es[j][1] \in FileCmds => i = j
AskLast(es) == \A j \in DOMAIN es : es[j][1] \in Asks => j = Len(es)

\* A frame that is sent.
LEMMA FramesSent ==
  ASSUME NEW es \in Seq(Byte \X Byte), NEW f \in Byte \X Byte,
         \A j \in DOMAIN es : es[j][1] \notin Asks, OneFile(es),
         f[1] \in FileCmds => FileFrames(es) = {}
  PROVE  /\ OneFile(Append(es, f)) /\ AskLast(Append(es, f))
         /\ FileFrames(Append(es, f)) = IF f[1] \in FileCmds THEN {f} ELSE FileFrames(es)
<1>1. /\ Len(es) \in Nat /\ DOMAIN es = 1..Len(es)
      /\ DOMAIN Append(es, f) = 1..Len(es) + 1 /\ Len(Append(es, f)) = Len(es) + 1
      /\ \A i \in 1..Len(es) : Append(es, f)[i] = es[i]
      /\ Append(es, f)[Len(es) + 1] = f
  BY AppendProperties, LenProperties
<1>2. \A i \in 1..Len(es) + 1 : i \in 1..Len(es) \/ i = Len(es) + 1
  BY <1>1
<1>3. ToSet(Append(es, f)) = ToSet(es) \cup {f}
  <2>1. ToSet(Append(es, f)) = {Append(es, f)[i] : i \in 1..Len(es) + 1}
    BY <1>1 DEF ToSet
  <2>2. ToSet(es) = {es[i] : i \in 1..Len(es)}
    BY <1>1 DEF ToSet
  <2>3. \A i \in 1..Len(es) : i \in 1..Len(es) + 1
    BY <1>1
  <2>4. Len(es) + 1 \in 1..Len(es) + 1
    BY <1>1
  <2>5. ToSet(Append(es, f)) \subseteq ToSet(es) \cup {f}
    <3>1. ASSUME NEW i \in 1..Len(es) + 1 PROVE Append(es, f)[i] \in ToSet(es) \cup {f}
      <4>1. CASE i \in 1..Len(es)
        BY <1>1, <2>2, <4>1
      <4>2. CASE i = Len(es) + 1
        BY <1>1, <4>2
      <4>3. QED
        BY <1>2, <4>1, <4>2
    <3>2. QED
      BY <2>1, <3>1
  <2>6. ToSet(es) \cup {f} \subseteq ToSet(Append(es, f))
    <3>1. f \in ToSet(Append(es, f))
      BY <1>1, <2>1, <2>4
    <3>2. ASSUME NEW i \in 1..Len(es) PROVE es[i] \in ToSet(Append(es, f))
      <4>1. Append(es, f)[i] = es[i] /\ i \in 1..Len(es) + 1
        BY <1>1, <2>3
      <4>2. QED
        BY <2>1, <4>1
    <3>3. QED
      BY <2>2, <3>1, <3>2
  <2>7. QED
    BY <2>5, <2>6
<1>4. \A i \in 1..Len(es) : f[1] \in FileCmds => es[i][1] \notin FileCmds
  BY <1>1 DEF FileFrames, ToSet
<1>5. OneFile(Append(es, f))
  BY <1>1, <1>2, <1>4 DEF OneFile
<1>6. AskLast(Append(es, f))
  BY <1>1, <1>2 DEF AskLast
<1>7. QED
  BY <1>3, <1>5, <1>6 DEF FileFrames

\* A frame that is dispatched; one about the file was the only one.
LEMMA FramesDone ==
  ASSUME NEW es \in Seq(Byte \X Byte), es # <<>>, OneFile(es), AskLast(es)
  PROVE  /\ OneFile(Tail(es)) /\ AskLast(Tail(es))
         /\ Head(es)[1] \in Asks => Tail(es) = <<>> /\ Len(es) = 1
         /\ \A j \in DOMAIN Tail(es) : j + 1 \in DOMAIN es /\ Tail(es)[j] = es[j + 1]
         /\ FileFrames(Tail(es)) = IF Head(es)[1] \in FileCmds THEN {} ELSE FileFrames(es)
<1>1. /\ Len(es) \in Nat \ {0} /\ DOMAIN es = 1..Len(es) /\ Head(es) = es[1]
      /\ Tail(es) \in Seq(Byte \X Byte) /\ Len(Tail(es)) = Len(es) - 1
      /\ DOMAIN Tail(es) = 1..Len(es) - 1
      /\ \A j \in 1..Len(es) - 1 : Tail(es)[j] = es[j + 1]
  BY HeadTailProperties, LenProperties, EmptySeq
<1>2. \A j \in 1..Len(es) - 1 : j + 1 \in 1..Len(es) /\ j + 1 # 1
  BY <1>1
<1>3. \A i \in 1..Len(es) : i = 1 \/ (i - 1 \in 1..Len(es) - 1 /\ (i - 1) + 1 = i)
  BY <1>1
<1>4. OneFile(Tail(es))
  <2>1. ASSUME NEW i \in 1..Len(es) - 1, NEW j \in 1..Len(es) - 1,
               Tail(es)[i][1] \in FileCmds, Tail(es)[j][1] \in FileCmds
        PROVE  i = j
    <3>1. i + 1 = j + 1
      BY <1>1, <1>2, <2>1 DEF OneFile
    <3>2. QED
      BY <3>1
  <2>2. QED
    BY <1>1, <2>1 DEF OneFile
<1>5. AskLast(Tail(es))
  <2>1. ASSUME NEW j \in 1..Len(es) - 1, Tail(es)[j][1] \in Asks PROVE j = Len(es) - 1
    <3>1. j + 1 = Len(es)
      BY <1>1, <1>2, <2>1 DEF AskLast
    <3>2. j \in Int /\ Len(es) \in Int
      BY <1>1
    <3>3. QED
      BY <3>1, <3>2
  <2>2. QED
    BY <1>1, <2>1 DEF AskLast
<1>6. Head(es)[1] \in Asks => Tail(es) = <<>> /\ Len(es) = 1
  <2>1. 1 \in 1..Len(es)
    BY <1>1
  <2>2. Head(es)[1] \in Asks => Len(es) = 1
    BY <1>1, <2>1 DEF AskLast
  <2>3. Len(es) = 1 => Len(Tail(es)) = 0
    BY <1>1
  <2>4. QED
    BY <1>1, <2>2, <2>3, EmptySeq
<1>7. ToSet(es) = ToSet(Tail(es)) \cup {Head(es)}
  <2>1. ToSet(es) = {es[i] : i \in 1..Len(es)}
    BY <1>1 DEF ToSet
  <2>2. ToSet(Tail(es)) = {es[i + 1] : i \in 1..Len(es) - 1}
    BY <1>1 DEF ToSet
  <2>3. 1 \in 1..Len(es)
    BY <1>1
  <2>4. ToSet(es) \subseteq ToSet(Tail(es)) \cup {Head(es)}
    <3>1. ASSUME NEW i \in 1..Len(es) PROVE es[i] \in ToSet(Tail(es)) \cup {Head(es)}
      <4>1. CASE i = 1
        BY <1>1, <4>1
      <4>2. CASE i # 1
        BY <1>3, <2>2, <4>2
      <4>3. QED
        BY <4>1, <4>2
    <3>2. QED
      BY <2>1, <3>1
  <2>5. ToSet(Tail(es)) \cup {Head(es)} \subseteq ToSet(es)
    BY <1>1, <1>2, <2>1, <2>2, <2>3, Zenon
  <2>6. QED
    BY <2>4, <2>5
<1>8. Head(es)[1] \in FileCmds => FileFrames(Tail(es)) = {}
  <2>1. ASSUME Head(es)[1] \in FileCmds, NEW j \in 1..Len(es) - 1, Tail(es)[j][1] \in FileCmds
        PROVE  FALSE
    <3>1. 1 \in 1..Len(es)
      BY <1>1
    <3>2. QED
      BY <1>1, <1>2, <2>1, <3>1 DEF OneFile
  <2>2. QED
    BY <1>1, <2>1 DEF FileFrames, ToSet
<1>9. Head(es)[1] \notin FileCmds => FileFrames(Tail(es)) = FileFrames(es)
  BY <1>7 DEF FileFrames
<1>10. QED
  BY <1>1, <1>2, <1>4, <1>5, <1>6, <1>8, <1>9

\* Which frames are about the file.
LEMMA FileFramesAre ==
  ASSUME NEW es \in Seq(Byte \X Byte)
  PROVE  /\ \A j \in DOMAIN es : es[j][1] \in FileCmds => es[j] \in FileFrames(es)
         /\ es = <<>> => FileFrames(es) = {} /\ OneFile(es) /\ AskLast(es)
         /\ es # <<>> => 1 \in DOMAIN es /\ Head(es) = es[1] /\ Head(es) \in Byte \X Byte
         /\ es # <<>> /\ Head(es)[1] \in FileCmds => Head(es) \in FileFrames(es)
<1>1. DOMAIN es = 1..Len(es) /\ (es # <<>> => 1 \in 1..Len(es) /\ Head(es) = es[1] /\ Head(es) \in Byte \X Byte)
  BY LenProperties, HeadTailProperties, EmptySeq
<1>2. es = <<>> => DOMAIN es = {}
  OBVIOUS
<1>3. QED
  BY <1>1, <1>2 DEF FileFrames, ToSet, OneFile, AskLast

-----------------------------------------------------------------------------
(* The invariant, as long as no payload was left unread.                   *)

\* The transfer as the payloads under way see it.
Tx == <<sending, sent>>

\* How much of its frame the parser has consumed.
Offset == CASE state = "HEAD" -> 0
            [] state = "CMD" -> 1
            [] state \in {"DATA_LENGTH", "RECV"} -> 2
            [] state = "DISPATCH" -> 5

\* Between two frames; FB_ENABLE leaves a byte behind.
Between == data = <<>> \/ (state = "HEAD" /\ Len(data) = 1)

\* What the parser has of frame f, and what of it is still to be parsed.
Taken(f) ==
  /\ Ahead(data, f, Offset)
  /\ state \in {"DATA_LENGTH", "RECV", "DISPATCH"} => cmd = f[1]
  /\ state = "RECV" => recv_lack = 4
  /\ state = "DISPATCH" => data_length = <<f[2], 0, 0, 0>>

\* The frames expected are under way, the first of them in the parser's hands.
Line ==
  IF Between
  THEN /\ state = "HEAD" /\ ipc = "parse"
       /\ data # <<>> => data[1] # HEAD
       /\ Framed(link, 0, expected, Tx)
  ELSE /\ expected # <<>> /\ Taken(Head(expected))
       /\ Rest(got, link, expected, Tx)

\* The IDE waits for an answer before it goes on, and one step of a transfer
\* is under way at a time.
Order ==
  /\ OneFile(expected) /\ AskLast(expected)
  /\ \A j \in DOMAIN expected : expected[j][1] \in Asks => asked = expected[j][1] /\ reply = None
  /\ \A f \in FileFrames(expected) :
       /\ f[1] = CREATEFILE => transfer = "created" /\ f[2] = 2
       /\ f[1] = WRITEFILE => transfer = "written" /\ f[2] \in 1..ChunkSize /\ f[2] <= sent
       /\ f[1] = VERIFYFILE => transfer = "verify"
  /\ reply # None => reply[1] = asked /\ expected = <<>>

\* The file is open with the first n bytes of what the IDE sends.
FileIs(n) == info = Info(sending) /\ file = SubSeq(Contents[sending], 1, n)

\* The file lacks what is under way, unless an error is kept for the next
\* question about its status.
FileOK ==
  /\ ipc # "crash"
  /\ transfer = "open" => FileIs(sent)
  /\ transfer \in {"created", "written"} /\ FileFrames(expected) = {} /\ errcode = "none" => FileIs(sent)
  /\ \A f \in FileFrames(expected) :
       /\ f[1] = WRITEFILE => FileIs(sent - f[2])
       /\ f[1] = VERIFYFILE => FileIs(sent)
  /\ reply # None /\ asked = QUERY_FILE_STAT => reply[2] = errcode
  /\ reply = <<VERIFYFILE, "ok">> => Verifiable

\* The picture that FRAME_DUMP would send is the one announced, from the
\* answer to FRAME_SIZE to that to FRAME_DUMP.
PictureOK ==
  /\ asked = FRAME_DUMP => announced # None
  /\ reply # None /\ asked = FRAME_SIZE /\ reply[2] # None => Dump = reply[2]
  /\ reply # None /\ asked = FRAME_DUMP => reply[2] = announced
  /\ asked # FRAME_SIZE /\ (asked = FRAME_DUMP => reply = None) /\ announced # None => Dump = announced

Steady == Line /\ Order /\ FileOK /\ PictureOK

IInv == TypeOK /\ ParserOK /\ HostOK /\ (~refused => Steady)

-----------------------------------------------------------------------------
(* The parser in step.                                                     *)

\* The commands are different bytes.
LEMMA CommandsAre ==
  /\ Asks \subseteq Byte \ (Payloads \cup {FB_ENABLE}) /\ Payloads \subseteq Byte
  /\ FileCmds \subseteq Commands /\ Asks \subseteq Commands
  /\ FileCmds \cap Asks = {VERIFYFILE} /\ Payloads \cap Asks = {}
  /\ None \notin Asks
<1>1. /\ Asks \subseteq Byte \ (Payloads \cup {FB_ENABLE}) /\ Payloads \subseteq Byte
  BY DEF Asks, Payloads, Byte, SCRIPT_EXEC, FB_ENABLE, CREATEFILE, WRITEFILE, SCRIPT_RUNNING,
         FRAME_SIZE, FRAME_DUMP, QUERY_FILE_STAT, VERIFYFILE
<1>2. FileCmds \cap Asks = {VERIFYFILE} /\ Payloads \cap Asks = {}
  BY DEF Asks, FileCmds, Payloads, SCRIPT_EXEC, CREATEFILE, WRITEFILE, SCRIPT_RUNNING,
         FRAME_SIZE, FRAME_DUMP, QUERY_FILE_STAT, VERIFYFILE
<1>3. FileCmds \subseteq Commands /\ Asks \subseteq Commands
  BY DEF Asks, FileCmds, Commands
<1>4. None \notin Byte
  BY FrameAssumption
<1>5. QED
  BY <1>1, <1>2, <1>3, <1>4

\* None is no question.
LEMMA NoQuestion ==
  None # FRAME_SIZE /\ None # FRAME_DUMP /\ None # QUERY_FILE_STAT /\ None # VERIFYFILE
BY CommandsAre DEF Asks

\* What the parser dispatches is the first frame expected, and its last byte
\* is before it.
LEMMA Dispatched ==
  ASSUME TypeOK, Line, state = "DISPATCH"
  PROVE  /\ expected # <<>> /\ Head(expected) = <<cmd, Number(data_length)>>
         /\ Number(data_length) \in Byte /\ cmd \in Byte
         /\ Rest(got, link, expected, Tx) /\ Taken(Head(expected)) /\ ~Between
         /\ data # <<>> /\ Len(data) = HeaderLen(Head(expected)) - 5
         /\ Len(data) > 1 => data[2] \in {0, 1}
<1>1. ~Between
  BY DEF Line
<1>2. /\ expected # <<>> /\ Taken(Head(expected)) /\ Rest(got, link, expected, Tx)
      /\ data # <<>>
  BY <1>1 DEF Line, Between
<1>3. expected \in Seq(Byte \X Byte) /\ Head(expected) \in Byte \X Byte /\ cmd \in Byte
      /\ data_length \in [1..4 -> Byte]
  BY <1>2, HeadTailProperties DEF TypeOK
<1>4. /\ cmd = Head(expected)[1] /\ data_length = <<Head(expected)[2], 0, 0, 0>>
      /\ Ahead(data, Head(expected), 5)
  BY <1>2 DEF Taken, Offset
<1>5. Number(data_length) = Head(expected)[2]
  BY <1>3, <1>4, NumberIs
<1>6. Head(expected) = <<cmd, Number(data_length)>> /\ Number(data_length) \in Byte
  BY <1>3, <1>4, <1>5
<1>7. Len(data) = HeaderLen(Head(expected)) - 5
  BY <1>4 DEF Ahead
<1>8. Len(data) > 1 => data[2] \in {0, 1}
  <2>1. Len(data) > 1 => IsByte(Head(expected), 7, data[2])
    <3>1. Len(data) \in Nat /\ 2 + 5 = 7
      BY LenProperties DEF TypeOK
    <3>2. QED
      BY <1>4, <3>1 DEF Ahead
  <2>2. QED
    BY <2>1 DEF IsByte
<1>9. QED
  BY <1>1, <1>2, <1>3, <1>6, <1>7, <1>8

\* A command that ends when its payload is there leaves the parser between
\* two frames, with a byte that is no head at most.
LEMMA LineDone ==
  ASSUME TypeOK, Line, ~refused, state = "DISPATCH", Done, UNCHANGED <<link, sending, sent>>,
         cmd \notin Payloads \/ Len(got) = Number(data_length)
  PROVE  Line' /\ expected' = Tail(expected) /\ Text(got, Head(expected), Tx)
<1>1. /\ expected # <<>> /\ Head(expected) = <<cmd, Number(data_length)>>
      /\ Rest(got, link, expected, Tx)
      /\ data # <<>> /\ Len(data) = HeaderLen(Head(expected)) - 5
      /\ Len(data) > 1 => data[2] \in {0, 1}
  BY Dispatched
<1>2. /\ expected \in Seq(Byte \X Byte) /\ link \in Seq(Seq(Byte)) /\ got \in Seq(Byte)
      /\ data \in Seq(Byte)
  BY DEF TypeOK
<1>3. Text(got, Head(expected), Tx) /\ Framed(link, 0, Tail(expected), Tx)
  <2>1. Head(expected)[1] \notin Payloads \/ Len(got) = Head(expected)[2]
    BY <1>1
  <2>2. QED
    BY <1>1, <1>2, <2>1, RestDone
<1>4. expected' = Tail(expected)
  BY <1>1 DEF Done
<1>5. /\ data' = Tail(data) /\ Len(data) \in 1..2 /\ Len(Tail(data)) = Len(data) - 1
      /\ Tail(data) \in Seq(Byte)
      /\ Tail(data) # <<>> => Len(data) = 2 /\ Tail(data)[1] = data[2]
  <2>1. Len(data) \in Nat /\ Len(data) \in 1..2
    BY <1>1, <1>2, LenProperties DEF HeaderLen
  <2>2. /\ Tail(data) \in Seq(Byte) /\ Len(Tail(data)) = Len(data) - 1
        /\ \A i \in 1..Len(data) - 1 : Tail(data)[i] = data[i + 1]
    BY <1>1, <1>2, HeadTailProperties
  <2>3. Tail(data) # <<>> => Len(Tail(data)) # 0
    BY <2>2, EmptySeq
  <2>4. QED
    BY <2>1, <2>2, <2>3 DEF Done
<1>6. Between' /\ state' = "HEAD" /\ ipc' = "parse" /\ (data' # <<>> => data'[1] # HEAD)
  <2>1. data' = <<>> \/ Len(data') = 1
    BY <1>2, <1>5, EmptySeq
  <2>2. data' # <<>> => data'[1] \in {0, 1}
    BY <1>1, <1>5
  <2>3. QED
    BY <2>1, <2>2 DEF Between, Done, HEAD
<1>7. Framed(link', 0, expected', Tx')
  BY <1>3, <1>4 DEF Tx
<1>8. QED
  BY <1>3, <1>4, <1>6, <1>7 DEF Line

\* A handler that waits keeps the line.
LEMMA LineStays ==
  ASSUME Line, UNCHANGED <<link, data, parser, got, expected, sending, sent>>,
         ipc' = ipc \/ state = "DISPATCH"
  PROVE  Line'
<1>1. /\ Between' = Between /\ Offset' = Offset /\ Tx' = Tx
      /\ \A f : Taken(f)' = Taken(f)
  BY DEF Between, Offset, Tx, Taken, parser
<1>2. CASE Between
  <2>1. state = "HEAD"
    BY <1>2 DEF Line
  <2>2. QED
    BY <1>1, <1>2, <2>1 DEF Line, parser
<1>3. CASE ~Between
  <2>1. Taken(Head(expected))' = Taken(Head(expected))
    BY DEF Taken, parser, Offset
  <2>2. QED
    BY <1>1, <1>3, <2>1 DEF Line, parser
<1>4. QED
  BY <1>2, <1>3

\* A read begins a frame; the steps of the parser stay within it.
LEMMA LineParser ==
  ASSUME TypeOK, ParserOK, Line, Read \/ FrameHead \/ FrameCmd \/ FrameDataLength \/ FrameRecv
  PROVE  Line'
<1>1. /\ UNCHANGED <<ipc, got, expected, sending, sent>> /\ ipc = "parse" /\ got = <<>>
  BY DEF Read, FrameHead, FrameCmd, FrameDataLength, FrameRecv, Parse, others, host, ParserOK
<1>2. /\ expected \in Seq(Byte \X Byte) /\ link \in Seq(Seq(Byte)) /\ data \in Seq(Byte)
      /\ data_length \in [1..4 -> Byte] /\ Tx' = Tx
  BY <1>1 DEF TypeOK, Tx
<1>3. ASSUME data # <<>>
      PROVE  /\ Tail(data) \in Seq(Byte) /\ Len(Tail(data)) = Len(data) - 1 /\ Len(data) \in Nat
             /\ \A i \in 1..Len(Tail(data)) : Tail(data)[i] = data[i + 1]
  BY <1>2, <1>3, HeadTailProperties, LenProperties
<1>4. HeaderLen(Head(expected)) \in {6, 7}
  BY DEF HeaderLen
<1>5. ASSUME ~Between, link' = link, expected # <<>>, Taken(Head(expected))', ~Between'
      PROVE  Line'
  <2>1. Rest(got, link, expected, Tx)
    BY <1>5 DEF Line
  <2>2. Head(expected') = Head(expected)
    BY <1>1
  <2>3. QED
    BY <1>1, <1>2, <1>5, <2>1, <2>2 DEF Line
<1>6. CASE Read
  <2>1. /\ Between /\ state = "HEAD" /\ link # <<>> /\ data' = Head(link) /\ link' = Tail(link)
        /\ UNCHANGED parser
    BY <1>6 DEF Read, Between, Line
  <2>2. Framed(link, 0, expected, Tx)
    BY <2>1 DEF Line
  <2>3. expected # <<>> /\ Ahead(data', Head(expected), 0) /\ Rest(got', link', expected', Tx')
    BY <1>1, <1>2, <2>1, <2>2, FramedRead
  <2>4. Len(data') \in {6, 7}
    BY <1>4, <2>3 DEF Ahead
  <2>5. ~Between'
    BY <2>4 DEF Between
  <2>6. Taken(Head(expected))'
    BY <1>1, <2>1, <2>3 DEF Taken, Offset, parser
  <2>7. QED
    BY <1>1, <2>3, <2>5, <2>6 DEF Line
<1>7. CASE FrameHead
  <2>1. /\ data # <<>> /\ state = "HEAD" /\ data' = Tail(data) /\ link' = link
        /\ state' = IF data[1] = HEAD THEN "CMD" ELSE "HEAD"
    BY <1>7 DEF FrameHead, Parse
  <2>2. CASE Between
    <3>1. Len(data) = 1 /\ data[1] # HEAD /\ Framed(link, 0, expected, Tx)
      BY <2>1, <2>2 DEF Between, Line
    <3>2. data' = <<>> /\ state' = "HEAD"
      BY <1>3, <2>1, <3>1, EmptySeq
    <3>3. QED
      BY <1>1, <1>2, <2>1, <3>1, <3>2 DEF Between, Line
  <2>3. CASE ~Between
    <3>1. expected # <<>> /\ Ahead(data, Head(expected), 0)
      BY <2>1, <2>3 DEF Line, Taken, Offset
    <3>2. Len(data) \in {6, 7}
      BY <1>4, <3>1 DEF Ahead
    <3>3. data[1] = HEAD
      <4>1. IsByte(Head(expected), 1 + 0, data[1])
        BY <3>1, <3>2 DEF Ahead
      <4>2. QED
        BY <4>1 DEF IsByte
    <3>4. Ahead(data', Head(expected), 1)
      <4>1. Ahead(Tail(data), Head(expected), 0 + 1)
        BY <1>2, <1>3, <2>1, <3>1, AheadMoves
      <4>2. QED
        BY <2>1, <4>1
    <3>5. Taken(Head(expected))' /\ ~Between'
      <4>1. state' = "CMD" /\ Offset' = 1
        BY <2>1, <3>3 DEF Offset
      <4>2. data' # <<>>
        <5>1. Len(Tail(data)) = Len(data) - 1 /\ (Len(data) = 6 \/ Len(data) = 7)
          BY <1>3, <2>1, <3>2
        <5>2. Len(Tail(data)) # 0
          BY <5>1
        <5>3. Tail(data) # <<>> /\ data' = Tail(data)
          BY <2>1, <5>2, EmptySeq
        <5>4. QED
          BY <5>3
      <4>3. QED
        BY <1>1, <3>4, <4>1, <4>2 DEF Taken, Between
    <3>6. QED
      BY <1>5, <2>1, <2>3, <3>1, <3>5
  <2>4. QED
    BY <2>2, <2>3
<1>8. CASE FrameCmd
  <2>1. /\ data # <<>> /\ state = "CMD" /\ data' = Tail(data) /\ link' = link
        /\ state' = "DATA_LENGTH" /\ cmd' = data[1]
    BY <1>8 DEF FrameCmd, Parse
  <2>2. ~Between /\ expected # <<>> /\ Ahead(data, Head(expected), 1)
    BY <2>1 DEF Between, Line, Taken, Offset
  <2>3. Len(data) \in {5, 6}
    BY <1>4, <2>2 DEF Ahead
  <2>4. cmd' = Head(expected)[1]
    <3>1. IsByte(Head(expected), 1 + 1, data[1])
      BY <2>2, <2>3 DEF Ahead
    <3>2. QED
      BY <2>1, <3>1 DEF IsByte
  <2>5. Ahead(data', Head(expected), 2)
    <3>1. Ahead(Tail(data), Head(expected), 1 + 1)
      BY <1>2, <1>3, <2>1, <2>2, AheadMoves
    <3>2. QED
      BY <2>1, <3>1
  <2>6. Taken(Head(expected))' /\ ~Between'
    <3>1. Offset' = 2
      BY <2>1 DEF Offset
    <3>2. data' # <<>>
      <4>1. Len(Tail(data)) = Len(data) - 1 /\ (Len(data) = 5 \/ Len(data) = 6)
        BY <1>3, <2>1, <2>3
      <4>2. Len(Tail(data)) # 0
        BY <4>1
      <4>3. Tail(data) # <<>> /\ data' = Tail(data)
        BY <2>1, <4>2, EmptySeq
      <4>4. QED
        BY <4>3
    <3>3. QED
      BY <1>1, <2>1, <2>4, <2>5, <3>1, <3>2 DEF Taken, Between
  <2>7. QED
    BY <1>5, <2>1, <2>2, <2>6
<1>9. CASE FrameDataLength
  <2>1. /\ data # <<>> /\ state = "DATA_LENGTH" /\ UNCHANGED <<data, link, cmd>>
        /\ state' = "RECV" /\ recv_lack' = 4
    BY <1>9 DEF FrameDataLength, Parse
  <2>2. ~Between /\ expected # <<>> /\ Taken(Head(expected)) /\ ~Between'
    BY <2>1 DEF Between, Line
  <2>3. Taken(Head(expected))'
    <3>1. Offset = 2 /\ Offset' = 2
      BY <2>1 DEF Offset
    <3>2. QED
      BY <1>1, <2>1, <2>2, <3>1 DEF Taken
  <2>4. QED
    BY <1>5, <2>1, <2>2, <2>3
<1>10. CASE FrameRecv
  <2>1. /\ data # <<>> /\ state = "RECV" /\ UNCHANGED <<link, cmd>>
    BY <1>10 DEF FrameRecv, Parse
  <2>2. /\ ~Between /\ expected # <<>> /\ Ahead(data, Head(expected), 2)
        /\ cmd = Head(expected)[1] /\ recv_lack = 4
    BY <2>1 DEF Between, Line, Taken, Offset
  <2>3. Len(data) \in {4, 5}
    BY <1>4, <2>2 DEF Ahead
  <2>4. /\ data_length' = Overwrite(4) /\ state' = "DISPATCH" /\ data' = Drop(data, 3)
    <3>1. Len(data) >= recv_lack /\ recv_lack - 1 = 3
      <4>1. Len(data) >= 4 /\ 4 - 1 = 3
        <5>1. \A n \in {4, 5} : n >= 4
          OBVIOUS
        <5>2. Len(data) >= 4
          BY <2>3, <5>1, Zenon
        <5>3. QED
          BY <5>2
      <4>2. recv_lack = 4
        BY <2>2
      <4>3. QED
        BY <4>1, <4>2, Zenon
    <3>2. /\ data_length' = Overwrite(recv_lack) /\ state' = "DISPATCH"
          /\ data' = Drop(data, recv_lack - 1)
      BY <1>10, <3>1 DEF FrameRecv
    <3>3. QED
      BY <2>2, <3>1, <3>2
  <2>5. data_length' = <<Head(expected)[2], 0, 0, 0>>
    <3>1. /\ IsByte(Head(expected), 3, data[1]) /\ IsByte(Head(expected), 4, data[2])
          /\ IsByte(Head(expected), 5, data[3]) /\ IsByte(Head(expected), 6, data[4])
      <4>1. /\ IsByte(Head(expected), 1 + 2, data[1]) /\ IsByte(Head(expected), 2 + 2, data[2])
            /\ IsByte(Head(expected), 3 + 2, data[3]) /\ IsByte(Head(expected), 4 + 2, data[4])
        BY <2>2, <2>3 DEF Ahead
      <4>2. QED
        BY <4>1
    <3>2. data[1] = Head(expected)[2] /\ data[2] = 0 /\ data[3] = 0 /\ data[4] = 0
      BY <3>1 DEF IsByte
    <3>3. data_length' = [j \in 1..4 |-> data[j]]
      BY <2>4 DEF Overwrite
    <3>4. QED
      BY <3>2, <3>3
  <2>6. Ahead(data', Head(expected), 5) /\ data' # <<>>
    <3>1. 3 \in 0..Len(data)
      BY <2>3
    <3>2. /\ Drop(data, 3) \in Seq(Byte) /\ Len(Drop(data, 3)) = Len(data) - 3
          /\ \A i \in 1..Len(data) - 3 : Drop(data, 3)[i] = data[i + 3]
      BY <1>2, <3>1, DropLeaves
    <3>3. Ahead(Drop(data, 3), Head(expected), 2 + 3)
      BY <1>2, <2>2, <3>2, AheadMoves
    <3>4. QED
      BY <2>3, <2>4, <3>2, <3>3
  <2>7. Taken(Head(expected))' /\ ~Between'
    <3>1. Offset' = 5
      BY <2>4 DEF Offset
    <3>2. QED
      BY <1>1, <2>1, <2>2, <2>4, <2>5, <2>6, <3>1 DEF Taken, Between
  <2>8. QED
    BY <1>5, <2>1, <2>2, <2>7
<1>11. QED
  BY <1>6, <1>7, <1>8, <1>9, <1>10

\* read_until takes a whole packet, the next of the payload.
LEMMA LineReadUntil ==
  ASSUME TypeOK, ParserOK, Line, ReadUntil
  PROVE  Line'
<1>1. /\ ipc = "recv" /\ Len(got) < Number(data_length) /\ state = "DISPATCH" /\ cmd \in Payloads
      /\ UNCHANGED <<ipc, data, parser, expected, sending, sent>>
  BY DEF ReadUntil, ParserOK, others, host
<1>2. /\ expected # <<>> /\ Head(expected) = <<cmd, Number(data_length)>>
      /\ Number(data_length) \in Byte /\ Rest(got, link, expected, Tx)
      /\ Taken(Head(expected)) /\ ~Between
  BY <1>1, Dispatched
<1>3. /\ expected \in Seq(Byte \X Byte) /\ link \in Seq(Seq(Byte)) /\ got \in Seq(Byte)
  BY DEF TypeOK
<1>4. Head(expected)[1] \in Payloads /\ Len(got) < Head(expected)[2]
      /\ Head(expected)[2] = Number(data_length)
  BY <1>1, <1>2
<1>5. /\ link # <<>> /\ Head(link) \in Seq(Byte) /\ Len(got) + Len(Head(link)) <= Head(expected)[2]
      /\ Rest(got \o Head(link), Tail(link), expected, Tx)
  BY <1>2, <1>3, <1>4, RestMore
<1>6. got' = got \o Head(link) /\ link' = Tail(link)
  <2>1. Len(Head(link)) \in Nat /\ Len(got) \in Nat /\ Number(data_length) \in Nat
    BY <1>2, <1>3, <1>5, ByteIsNat, LenProperties
  <2>2. Len(Head(link)) <= Number(data_length) - Len(got)
    BY <1>4, <1>5, <2>1
  <2>3. got' = got \o SubSeq(Head(link), 1, Len(Head(link))) /\ link' = Tail(link)
    BY <2>2 DEF ReadUntil
  <2>4. QED
    BY <1>5, <2>3, SubSeqFull
<1>7. Taken(Head(expected))' /\ ~Between' /\ Tx' = Tx /\ expected' = expected
  BY <1>1, <1>2 DEF Taken, Between, Offset, parser, Tx
<1>8. QED
  BY <1>2, <1>5, <1>6, <1>7 DEF Line

\* A transfer that ends while no frame is about it.
LEMMA LineTx ==
  ASSUME TypeOK, Line, FileFrames(expected) = {},
         UNCHANGED <<ipc, data, parser, got, link, expected>>
  PROVE  Line'
<1>1. expected \in Seq(Byte \X Byte)
  BY DEF TypeOK
<1>2. \A j \in 1..Len(expected) : expected[j][1] \notin {CREATEFILE, WRITEFILE}
  <2>1. \A j \in DOMAIN expected : expected[j][1] \notin FileCmds
    BY <1>1, FileFramesAre
  <2>2. DOMAIN expected = 1..Len(expected)
    BY <1>1, LenProperties
  <2>3. QED
    BY <2>1, <2>2 DEF FileCmds
<1>3. Between' = Between /\ Offset' = Offset /\ UNCHANGED <<state, cmd, data_length, recv_lack>>
  BY DEF Between, Offset, parser
<1>4. CASE Between
  <2>1. Framed(link, 0, expected, Tx)
    BY <1>4 DEF Line
  <2>2. Framed(link, 0, expected, Tx')
    BY <1>2, <2>1, FramedTx
  <2>3. QED
    BY <1>3, <1>4, <2>2 DEF Line
<1>5. CASE ~Between
  <2>1. expected # <<>> /\ Taken(Head(expected)) /\ Rest(got, link, expected, Tx)
    BY <1>5 DEF Line
  <2>2. Rest(got, link, expected, Tx')
    BY <1>1, <1>2, <2>1, RestTx
  <2>3. Taken(Head(expected))'
    BY <1>3, <2>1 DEF Taken
  <2>4. QED
    BY <1>3, <1>5, <2>1, <2>2, <2>3 DEF Line
<1>6. QED
  BY <1>4, <1>5

\* A frame that is sent, perhaps with a new transfer, which no frame under way
\* is about.
LEMMA LineSent ==
  ASSUME TypeOK, Line, NEW f \in Byte \X Byte, NEW g \in Seq(Seq(Byte)),
         Brings(g, 1, Len(g) + 1, f, Tx'),
         Tx' = Tx \/ FileFrames(expected) = {},
         link' = link \o g, expected' = Append(expected, f),
         UNCHANGED <<ipc, data, parser, got>>
  PROVE  Line'
<1>1. expected \in Seq(Byte \X Byte) /\ link \in Seq(Seq(Byte))
  BY DEF TypeOK
<1>2. Tx' # Tx => \A j \in 1..Len(expected) : expected[j][1] \notin {CREATEFILE, WRITEFILE}
  <2>1. Tx' # Tx => \A j \in DOMAIN expected : expected[j][1] \notin FileCmds
    BY <1>1, FileFramesAre
  <2>2. DOMAIN expected = 1..Len(expected)
    BY <1>1, LenProperties
  <2>3. QED
    BY <2>1, <2>2 DEF FileCmds
<1>3. Between' = Between /\ Offset' = Offset /\ UNCHANGED <<state, cmd, data_length, recv_lack>>
  BY DEF Between, Offset, parser
<1>4. CASE Between
  <2>1. Framed(link, 0, expected, Tx)
    BY <1>4 DEF Line
  <2>2. Framed(link, 0, expected, Tx')
    BY <1>2, <2>1, FramedTx
  <2>3. Framed(link', 0, expected', Tx')
    BY <1>1, <2>2, FramedAppend
  <2>4. QED
    BY <1>3, <1>4, <2>3 DEF Line
<1>5. CASE ~Between
  <2>1. expected # <<>> /\ Taken(Head(expected)) /\ Rest(got, link, expected, Tx)
    BY <1>5 DEF Line
  <2>2. Rest(got, link, expected, Tx')
    BY <1>1, <1>2, <2>1, RestTx
  <2>3. Rest(got', link', expected', Tx')
    BY <1>1, <2>1, <2>2, RestSent
  <2>4. expected' # <<>> /\ Head(expected') = Head(expected)
    BY <1>1, <2>1, AppendProperties, HeadTailAppend
  <2>5. Taken(Head(expected))'
    BY <1>3, <2>1, <2>4 DEF Taken
  <2>6. QED
    BY <1>3, <1>5, <2>3, <2>4, <2>5 DEF Line
<1>6. QED
  BY <1>4, <1>5

-----------------------------------------------------------------------------
(* The other parts of the invariant: what keeps them.                      *)

\* Without a question there is no answer.
LEMMA NoAnswer ==
  ASSUME TypeOK, Order, asked = None
  PROVE  reply = None
<1>1. ASSUME reply # None PROVE FALSE
  <2>1. reply \in Replies /\ reply[1] = None
    BY <1>1 DEF TypeOK, Order
  <2>2. reply[1] \in Asks
    <3>1. \/ reply \in {SCRIPT_RUNNING} \X BOOLEAN
          \/ reply \in {QUERY_FILE_STAT} \X {"none", "path", "open", "write"}
          \/ reply \in {VERIFYFILE} \X {"ok", "sha2", "not open"}
          \/ reply \in {FRAME_SIZE, FRAME_DUMP} \X (Pic \cup {None})
      BY <2>1, Zenon DEF Replies
    <3>2. reply[1] \in {SCRIPT_RUNNING, QUERY_FILE_STAT, VERIFYFILE, FRAME_SIZE, FRAME_DUMP}
      BY <3>1
    <3>3. QED
      BY <3>2 DEF Asks
  <2>3. QED
    BY <2>1, <2>2, CommandsAre
<1>2. QED
  BY <1>1

\* The end of a command that is not answered.
LEMMA OrderDone ==
  ASSUME TypeOK, Order, expected # <<>>, expected' = Tail(expected),
         UNCHANGED <<asked, reply, transfer, sent>>
  PROVE  /\ Order' /\ reply = None
         /\ FileFrames(expected') = IF Head(expected)[1] \in FileCmds THEN {} ELSE FileFrames(expected)
<1>1. expected \in Seq(Byte \X Byte)
  BY DEF TypeOK
<1>2. /\ OneFile(expected') /\ AskLast(expected')
      /\ \A j \in DOMAIN expected' : j + 1 \in DOMAIN expected /\ expected'[j] = expected[j + 1]
      /\ FileFrames(expected') = IF Head(expected)[1] \in FileCmds THEN {} ELSE FileFrames(expected)
  BY <1>1, FramesDone DEF Order
<1>3. reply = None
  BY DEF Order
<1>4. QED
  BY <1>2, <1>3 DEF Order

\* The end of a command that is answered: it was the only one.
LEMMA OrderAnswered ==
  ASSUME TypeOK, Order, expected # <<>>, expected' = Tail(expected), Head(expected)[1] \in Asks,
         UNCHANGED <<asked, transfer, sent>>, reply'[1] = Head(expected)[1]
  PROVE  /\ Order' /\ reply = None /\ asked = Head(expected)[1]
         /\ FileFrames(expected') = {}
         /\ Head(expected)[1] \notin FileCmds => FileFrames(expected) = {}
<1>1. expected \in Seq(Byte \X Byte)
  BY DEF TypeOK
<1>2. /\ expected' = <<>>
      /\ FileFrames(expected') = IF Head(expected)[1] \in FileCmds THEN {} ELSE FileFrames(expected)
  BY <1>1, FramesDone DEF Order
<1>3. /\ OneFile(expected') /\ AskLast(expected') /\ FileFrames(expected') = {}
      /\ DOMAIN expected' = {}
  <2>1. expected' \in Seq(Byte \X Byte)
    BY <1>2, EmptySeq
  <2>2. OneFile(expected') /\ AskLast(expected') /\ FileFrames(expected') = {}
    BY <1>2, <2>1, FileFramesAre
  <2>3. DOMAIN expected' = {}
    <3>1. DOMAIN <<>> = {}
      OBVIOUS
    <3>2. QED
      BY <1>2, <3>1
  <2>4. QED
    BY <2>2, <2>3
<1>4. asked = Head(expected)[1] /\ reply = None
  BY <1>1, FileFramesAre DEF Order
<1>5. QED
  BY <1>2, <1>3, <1>4 DEF Order

\* A frame that the IDE sends.
LEMMA OrderSent ==
  ASSUME TypeOK, Order, asked = None, NEW f \in Byte \X Byte, expected' = Append(expected, f),
         reply' = reply, f[1] \in Asks => asked' = f[1],
         f[1] \in FileCmds => FileFrames(expected) = {},
         f[1] \notin FileCmds => UNCHANGED <<transfer, sent>>,
         /\ f[1] = CREATEFILE => transfer' = "created" /\ f[2] = 2
         /\ f[1] = WRITEFILE => transfer' = "written" /\ f[2] \in 1..ChunkSize /\ f[2] <= sent'
         /\ f[1] = VERIFYFILE => transfer' = "verify"
  PROVE  /\ Order' /\ reply = None
         /\ FileFrames(expected') = IF f[1] \in FileCmds THEN {f} ELSE FileFrames(expected)
<1>1. expected \in Seq(Byte \X Byte) /\ reply = None
  BY NoAnswer DEF TypeOK
<1>2. \A j \in DOMAIN expected : expected[j][1] \notin Asks
  BY CommandsAre DEF Order
<1>3. /\ OneFile(expected') /\ AskLast(expected')
      /\ FileFrames(expected') = IF f[1] \in FileCmds THEN {f} ELSE FileFrames(expected)
  BY <1>1, <1>2, FramesSent DEF Order
<1>4. \A j \in DOMAIN expected' : expected'[j][1] \in Asks => asked' = expected'[j][1] /\ reply' = None
  <2>1. /\ \A j \in DOMAIN expected' : j \in DOMAIN expected \/ j = Len(expected) + 1
        /\ \A j \in DOMAIN expected : expected'[j] = expected[j]
        /\ expected'[Len(expected) + 1] = f
    <3>1. /\ Len(expected) \in Nat /\ DOMAIN expected = 1..Len(expected)
          /\ DOMAIN expected' = 1..Len(expected) + 1
          /\ \A j \in 1..Len(expected) : expected'[j] = expected[j]
          /\ expected'[Len(expected) + 1] = f
      BY <1>1, AppendProperties, LenProperties
    <3>2. \A j \in 1..Len(expected) + 1 : j \in 1..Len(expected) \/ j = Len(expected) + 1
      BY <3>1
    <3>3. QED
      BY <3>1, <3>2
  <2>2. QED
    BY <1>1, <1>2, <2>1
<1>5. \A e \in FileFrames(expected') :
        /\ e[1] = CREATEFILE => transfer' = "created" /\ e[2] = 2
        /\ e[1] = WRITEFILE => transfer' = "written" /\ e[2] \in 1..ChunkSize /\ e[2] <= sent'
        /\ e[1] = VERIFYFILE => transfer' = "verify"
  BY <1>3 DEF Order
<1>6. QED
  BY <1>1, <1>3, <1>4, <1>5 DEF Order

\* A step that the file is not in.
LEMMA FileStays ==
  ASSUME FileOK, ipc' # "crash", UNCHANGED <<sv_file, transfer, sending, sent>>,
         FileFrames(expected') = FileFrames(expected),
         reply' # None /\ asked' = QUERY_FILE_STAT => reply'[2] = errcode,
         reply' = <<VERIFYFILE, "ok">> => Verifiable
  PROVE  FileOK'
<1>1. UNCHANGED <<errcode, file, chunk_buffer, info, card>>
  BY DEF sv_file
<1>2. FileIs(sent)' <=> FileIs(sent)
  BY <1>1 DEF FileIs
<1>3. ASSUME NEW f \in FileFrames(expected)
      PROVE  FileIs(sent - f[2])' <=> FileIs(sent - f[2])
  BY <1>1 DEF FileIs
<1>4. Verifiable' <=> Verifiable
  BY <1>1 DEF Verifiable
<1>5. QED
  BY <1>1, <1>2, <1>3, <1>4 DEF FileOK

\* A step that neither shows nor sends a picture.
LEMMA PictureStays ==
  ASSUME PictureOK, UNCHANGED <<asked, reply, announced, picture>>
  PROVE  PictureOK'
<1>1. Dump' = Dump
  BY DEF Dump, picture
<1>2. QED
  BY <1>1 DEF PictureOK

\* A question about something else, asked or answered.
LEMMA PictureOther ==
  ASSUME PictureOK, asked \notin {FRAME_SIZE, FRAME_DUMP}, asked' \notin {FRAME_SIZE, FRAME_DUMP},
         UNCHANGED <<announced, picture>>
  PROVE  PictureOK'
<1>1. Dump' = Dump
  BY DEF Dump, picture
<1>2. QED
  BY <1>1 DEF PictureOK

-----------------------------------------------------------------------------
(* The steps of the IDE task in step.                                      *)

\* The parser and read_until change nothing but the line.
LEMMA ParserSteady ==
  ASSUME TypeOK, ParserOK, Steady,
         Read \/ FrameHead \/ FrameCmd \/ FrameDataLength \/ FrameRecv \/ ReadUntil
  PROVE  Steady'
<1>1. UNCHANGED <<picture, sv_file, host, refused, ipc, reply, expected>>
  BY DEF Read, FrameHead, FrameCmd, FrameDataLength, FrameRecv, ReadUntil, others
<1>2. UNCHANGED <<asked, transfer, sending, sent, announced>>
  BY <1>1 DEF host
<1>3. Line'
  BY LineParser, LineReadUntil DEF Steady
<1>4. Order'
  BY <1>1, <1>2 DEF Steady, Order
<1>5. FileOK'
  BY <1>1, <1>2, FileStays DEF Steady, FileOK
<1>6. PictureOK'
  BY <1>1, <1>2, PictureStays DEF Steady
<1>7. QED
  BY <1>3, <1>4, <1>5, <1>6 DEF Steady

\* What holds where a command is dispatched or its handler goes on.
LEMMA HandlerIn ==
  ASSUME TypeOK, ParserOK, Steady, Parse("DISPATCH") \/ ipc \in {"pause", "recv", "frame"}
  PROVE  /\ state = "DISPATCH" /\ data # <<>>
         /\ expected # <<>> /\ expected \in Seq(Byte \X Byte)
         /\ Head(expected) = <<cmd, Number(data_length)>> /\ Head(expected)[1] = cmd
         /\ Head(expected)[2] = Number(data_length) /\ Number(data_length) \in Nat
         /\ cmd \in FileCmds => Head(expected) \in FileFrames(expected)
         /\ reply = None
<1>1. state = "DISPATCH" /\ data # <<>>
  BY HasByte
<1>2. /\ expected # <<>> /\ Head(expected) = <<cmd, Number(data_length)>>
      /\ Number(data_length) \in Byte
  BY <1>1, Dispatched DEF Steady
<1>3. Number(data_length) \in Nat
  BY <1>2, ByteIsNat
<1>4. expected \in Seq(Byte \X Byte)
  BY DEF TypeOK
<1>5. cmd \in FileCmds => Head(expected) \in FileFrames(expected)
  BY <1>2, <1>4, FileFramesAre
<1>6. reply = None
  BY <1>2 DEF Steady, Order
<1>7. QED
  BY <1>1, <1>2, <1>3, <1>4, <1>5, <1>6

\* A command about neither the file nor a picture that has no answer.
LEMMA DoneSteady ==
  ASSUME TypeOK, ParserOK, Steady, ~refused, Parse("DISPATCH") \/ ipc \in {"pause", "recv", "frame"},
         Done, UNCHANGED <<link, sv_file, host, reply>>,
         cmd \notin Payloads \/ Len(got) = Number(data_length),
         cmd \notin FileCmds, Dump' = Dump
  PROVE  Steady'
<1>1. /\ state = "DISPATCH" /\ expected # <<>> /\ Head(expected)[1] = cmd /\ reply = None
  BY HandlerIn
<1>2. UNCHANGED <<asked, transfer, sending, sent, announced>>
  BY DEF host
<1>3. Line' /\ expected' = Tail(expected)
  BY <1>1, <1>2, LineDone DEF Steady
<1>4. Order' /\ FileFrames(expected') = FileFrames(expected)
  BY <1>1, <1>2, <1>3, OrderDone DEF Steady
<1>5. FileOK'
  <2>1. ipc' # "crash"
    BY DEF Done
  <2>2. QED
    BY <1>1, <1>2, <1>4, <2>1, FileStays DEF Steady, FileOK
<1>6. PictureOK'
  BY <1>2 DEF Steady, PictureOK
<1>7. QED
  BY <1>3, <1>4, <1>5, <1>6 DEF Steady

\* A question is answered.
LEMMA AnswerSteady ==
  ASSUME TypeOK, ParserOK, Steady, ~refused, Parse("DISPATCH") \/ ipc = "frame",
         Done, UNCHANGED <<link, sv_file, host>>, cmd \in Asks \ {VERIFYFILE}, reply'[1] = cmd,
         cmd = QUERY_FILE_STAT => reply'[2] = errcode,
         asked = cmd => PictureOK'
  PROVE  Steady'
<1>1. /\ state = "DISPATCH" /\ expected # <<>> /\ Head(expected)[1] = cmd /\ reply = None
      /\ cmd \notin FileCmds /\ cmd \notin Payloads
  BY HandlerIn, CommandsAre
<1>2. UNCHANGED <<asked, transfer, sending, sent, announced>>
  BY DEF host
<1>3. Line' /\ expected' = Tail(expected)
  BY <1>1, <1>2, LineDone DEF Steady
<1>4. Order' /\ asked = cmd /\ FileFrames(expected') = FileFrames(expected)
  BY <1>1, <1>2, <1>3, OrderAnswered DEF Steady
<1>5. FileOK'
  <2>1. ipc' # "crash"
    BY DEF Done
  <2>2. reply' # <<VERIFYFILE, "ok">>
    OBVIOUS
  <2>3. reply' # None /\ asked' = QUERY_FILE_STAT => reply'[2] = errcode
    BY <1>2, <1>4
  <2>4. QED
    BY <1>2, <1>4, <2>1, <2>2, <2>3, FileStays DEF Steady
<1>6. QED
  BY <1>3, <1>4, <1>5 DEF Steady

\* A handler that goes on to wait.
LEMMA BlockSteady ==
  ASSUME TypeOK, ParserOK, Steady, Parse("DISPATCH") \/ ipc \in {"pause", "recv", "frame"},
         NEW there \in {"pause", "recv", "frame"}, Block(there),
         UNCHANGED <<link, host, reply>>
  PROVE  /\ Line' /\ Order'
         /\ UNCHANGED sv_file => FileOK'
         /\ Dump' = Dump => PictureOK'
<1>1. /\ state = "DISPATCH" /\ reply = None
  BY HandlerIn
<1>2. UNCHANGED <<asked, transfer, sending, sent, announced, expected, data, parser, got>>
      /\ ipc' # "crash"
  BY DEF host, Block
<1>3. Line'
  BY <1>1, <1>2, LineStays DEF Steady
<1>4. Order'
  BY <1>2 DEF Steady, Order
<1>5. UNCHANGED sv_file => FileOK'
  BY <1>1, <1>2, FileStays DEF Steady, FileOK
<1>6. Dump' = Dump => PictureOK'
  BY <1>2 DEF Steady, PictureOK
<1>7. QED
  BY <1>3, <1>4, <1>5, <1>6

\* Scripts, questions about them and about the file, and other commands.
LEMMA ScriptSteady ==
  ASSUME TypeOK, ParserOK, Steady, ~refused, ~refused',
         \/ ScriptRunning \/ ScriptExec \/ ScriptExecTest \/ ScriptReceived
         \/ QueryFileStat \/ OtherCommand
  PROVE  Steady'
<1>1. /\ UNCHANGED <<picture, sv_file, host, link>>
      /\ Parse("DISPATCH") \/ ipc \in {"pause", "recv", "frame"}
  BY DEF ScriptRunning, ScriptExec, ScriptExecTest, ScriptReceived, QueryFileStat, OtherCommand,
         others, Dispatch, Received
<1>2. Dump' = Dump
  BY <1>1 DEF Dump, picture
<1>3. reply = None /\ UNCHANGED announced
  BY <1>1, HandlerIn DEF host
<1>4. asked \notin {FRAME_SIZE, FRAME_DUMP} => PictureOK'
  <2>1. asked' = asked
    BY <1>1 DEF host
  <2>2. QED
    BY <1>1, <1>3, <2>1, PictureOther DEF Steady
<1>5. CASE ScriptRunning
  <2>1. cmd = SCRIPT_RUNNING /\ reply'[1] = cmd /\ Done /\ Parse("DISPATCH")
    BY <1>5 DEF ScriptRunning, Dispatch
  <2>2. cmd \in Asks \ {VERIFYFILE} /\ cmd \notin {FRAME_SIZE, FRAME_DUMP, QUERY_FILE_STAT}
    BY <2>1 DEF Asks, SCRIPT_RUNNING, VERIFYFILE, FRAME_SIZE, FRAME_DUMP, QUERY_FILE_STAT
  <2>3. QED
    BY <1>1, <1>4, <2>1, <2>2, AnswerSteady
<1>6. CASE ScriptExec
  <2>1. Block("pause") /\ reply' = reply
    BY <1>6 DEF ScriptExec
  <2>2. QED
    BY <1>1, <1>2, <2>1, BlockSteady DEF Steady
<1>7. CASE ScriptExecTest
  <2>1. Block("recv") /\ reply' = reply
    BY <1>7 DEF ScriptExecTest
  <2>2. QED
    BY <1>1, <1>2, <2>1, BlockSteady DEF Steady
<1>8. CASE ScriptReceived
  <2>1. Done /\ reply' = reply /\ cmd = SCRIPT_EXEC /\ Len(got) = Number(data_length)
    BY <1>8 DEF ScriptReceived, Received
  <2>2. cmd \notin FileCmds
    BY <2>1 DEF FileCmds, SCRIPT_EXEC, CREATEFILE, WRITEFILE, VERIFYFILE
  <2>3. QED
    BY <1>1, <1>2, <2>1, <2>2, DoneSteady
<1>9. CASE QueryFileStat
  <2>1. cmd = QUERY_FILE_STAT /\ reply'[1] = cmd /\ reply'[2] = errcode /\ Done /\ Parse("DISPATCH")
    BY <1>9 DEF QueryFileStat, Dispatch
  <2>2. cmd \in Asks \ {VERIFYFILE} /\ cmd \notin {FRAME_SIZE, FRAME_DUMP}
    BY <2>1 DEF Asks, VERIFYFILE, FRAME_SIZE, FRAME_DUMP, QUERY_FILE_STAT
  <2>3. QED
    BY <1>1, <1>4, <2>1, <2>2, AnswerSteady
<1>10. CASE OtherCommand
  <2>1. Done /\ reply' = reply /\ cmd \notin Commands
    BY <1>10 DEF OtherCommand, others
  <2>2. cmd \notin FileCmds /\ cmd \notin Payloads
    BY <2>1, CommandsAre DEF Commands, Payloads
  <2>3. QED
    BY <1>1, <1>2, <2>1, <2>2, DoneSteady
<1>11. QED
  BY <1>5, <1>6, <1>7, <1>8, <1>9, <1>10

\* The start of a sequence of bytes is one.
LEMMA PrefixTypes ==
  ASSUME NEW s \in Seq(Byte), NEW n \in Nat, n <= Len(s)
  PROVE  SubSeq(s, 1, n) \in Seq(Byte)
<1>1. \A i \in 1..n : s[i] \in Byte
  BY LenProperties
<1>2. QED
  BY <1>1, SubSeqProperties

\* None is no answer.
LEMMA NoneIs == None # <<VERIFYFILE, "ok">>
BY ReplyAssumption, RepliesAre

\* The IDE's own steps are taken as they were meant: CREATEFILE has the length of
\* its record, and WRITEFILE finds the file open and the buffer, if there is one,
\* large enough.
LEMMA TransferWaits ==
  ASSUME TypeOK, ParserOK, HostOK, Steady, ~refused', CreateFile \/ WriteFile
  PROVE  Block("recv") /\ UNCHANGED <<errcode, file, card, reply>>
<1> DEFINE f == Head(expected)
<1>1. /\ cmd \in FileCmds /\ Parse("DISPATCH") /\ reply' = reply
      /\ cmd = IF CreateFile THEN CREATEFILE ELSE WRITEFILE
  BY DEF CreateFile, WriteFile, Dispatch, FileCmds, CREATEFILE, WRITEFILE
<1>2. f[1] = cmd /\ f[2] = Number(data_length) /\ f \in FileFrames(expected)
  BY <1>1, HandlerIn
<1>3. CASE CreateFile
  <2>1. Number(data_length) = 2
    BY <1>1, <1>2, <1>3 DEF Steady, Order
  <2>2. Len(info) = 2
    BY DEF TypeOK
  <2>3. QED
    BY <1>1, <1>3, <2>1, <2>2 DEF CreateFile
<1>4. CASE ~CreateFile /\ WriteFile
  <2>1. FileIs(sent - f[2]) /\ f[2] \in 1..ChunkSize /\ f[2] <= sent /\ transfer = "written"
    BY <1>1, <1>2, <1>4 DEF Steady, Order, FileOK
  <2>2. file # None /\ info[1] = ChunkSize
    <3>1. sending \in DOMAIN Contents /\ sent <= Len(Contents[sending]) /\ sent \in Nat
      BY <2>1 DEF HostOK, TypeOK
    <3>2. ChunkSize \in Nat /\ Contents[sending] \in Seq(Byte)
      BY <3>1, FrameAssumption, ByteIsNat, TextTypes
    <3>3. sent - f[2] \in Nat /\ sent - f[2] <= Len(Contents[sending])
      BY <2>1, <3>1, <3>2, LenProperties
    <3>4. SubSeq(Contents[sending], 1, sent - f[2]) \in Seq(Byte)
      BY <3>2, <3>3, PrefixTypes
    <3>5. QED
      BY <2>1, <3>4, FrameAssumption DEF FileIs, Info
  <2>3. ~(info[1] < Number(data_length))
    <3>1. ChunkSize \in Nat
      BY FrameAssumption, ByteIsNat
    <3>2. QED
      BY <1>2, <2>1, <2>2, <3>1
  <2>4. chunk_buffer
    BY <1>4, <2>2, <2>3 DEF WriteFile
  <2>5. QED
    BY <1>1, <1>4, <2>2, <2>3, <2>4 DEF WriteFile
<1>5. QED
  BY <1>3, <1>4

\* The steps of a file transfer: what the IDE has put on the line is in the
\* file when the handler ends, or an error is kept.
LEMMA TransferSteady ==
  ASSUME TypeOK, ParserOK, HostOK, Steady, ~refused, ~refused',
         CreateFile \/ CreateReceived \/ WriteFile \/ WriteReceived \/ VerifyFile
  PROVE  Steady'
<1> DEFINE f == Head(expected)
           C == Contents[sending]
<1>1. /\ UNCHANGED <<picture, host, link>> /\ cmd \in FileCmds
      /\ Parse("DISPATCH") \/ ipc \in {"pause", "recv", "frame"}
  BY DEF CreateFile, CreateReceived, WriteFile, WriteReceived, VerifyFile, Dispatch, Received, FileCmds
<1>2. /\ state = "DISPATCH" /\ expected # <<>> /\ f[1] = cmd /\ f[2] = Number(data_length)
      /\ f \in FileFrames(expected) /\ reply = None /\ f[2] \in Nat
  BY <1>1, HandlerIn
<1>3. UNCHANGED <<asked, transfer, sending, sent, announced>>
  BY <1>1 DEF host
<1>4. Dump' = Dump
  BY <1>1 DEF Dump, picture
<1>5. /\ transfer # "no" /\ (cmd = CREATEFILE => transfer = "created" /\ f[2] = 2)
      /\ (cmd = WRITEFILE => transfer = "written" /\ f[2] \in 1..ChunkSize /\ f[2] <= sent)
      /\ (cmd = VERIFYFILE => transfer = "verify" /\ asked = VERIFYFILE)
  BY <1>1, <1>2 DEF Steady, Order, FileCmds, HostOK
<1>6. /\ sending \in DOMAIN Contents /\ C \in Seq(Byte) /\ sent \in Nat /\ sent <= Len(C)
      /\ Len(C) \in Nat /\ sending # 0
  <2>1. sending \in DOMAIN Contents /\ sent \in Nat /\ sent <= Len(C)
    BY <1>5 DEF HostOK, TypeOK
  <2>2. C \in Seq(Byte) /\ sending # 0
    BY <2>1, TextTypes
  <2>3. QED
    BY <2>1, <2>2, LenProperties
<1>7. ASSUME NEW n \in 0..sent
      PROVE  /\ SubSeq(C, 1, n) \in Seq(Byte) /\ SubSeq(C, 1, n) # None
             /\ n < sent => SubSeq(C, 1, n) \o SubSeq(C, n + 1, sent) = SubSeq(C, 1, sent)
             /\ SubSeq(C, 1, 0) = <<>>
  <2>1. \A i \in 1..n : C[i] \in Byte
    BY <1>6, LenProperties
  <2>2. SubSeq(C, 1, n) \in Seq(Byte)
    BY <1>6, <2>1, SubSeqProperties
  <2>3. 1 \in 1..Len(C) + 1 /\ n \in 1 - 1..Len(C) /\ sent \in n..Len(C)
    BY <1>6
  <2>4. SubSeq(C, 1, n) \o SubSeq(C, n + 1, sent) = SubSeq(C, 1, sent)
    BY <1>6, <2>3, ConcatAdjacentSubSeq
  <2>5. SubSeq(C, 1, 0) = <<>>
    BY <1>6, SubSeqEmpty
  <2>6. QED
    BY <2>2, <2>4, <2>5, FrameAssumption
<1> HIDE DEF C
<1>8. PictureOK'
  <2>1. CASE cmd = VERIFYFILE
    <3>1. asked \notin {FRAME_SIZE, FRAME_DUMP}
      BY <1>5, <2>1 DEF VERIFYFILE, FRAME_SIZE, FRAME_DUMP
    <3>2. QED
      BY <1>1, <1>3, <3>1, PictureOther DEF Steady
  <2>2. CASE cmd # VERIFYFILE
    <3>1. reply' = reply
      BY <2>2 DEF CreateFile, CreateReceived, WriteFile, WriteReceived, VerifyFile, Dispatch
    <3>2. QED
      BY <1>1, <1>3, <3>1, PictureStays DEF Steady
  <2>3. QED
    BY <2>1, <2>2
<1>9. ASSUME Done, reply' = reply, cmd \in Payloads => Len(got) = Number(data_length)
      PROVE  /\ Line' /\ Order' /\ FileFrames(expected') = {} /\ ipc' # "crash"
             /\ Text(got, f, Tx)
  <2>1. Line' /\ expected' = Tail(expected) /\ Text(got, f, Tx)
    BY <1>1, <1>2, <1>3, <1>9, LineDone DEF Steady
  <2>2. Order' /\ FileFrames(expected') = {}
    BY <1>1, <1>2, <1>3, <1>9, <2>1, OrderDone DEF Steady
  <2>3. QED
    BY <1>9, <2>1, <2>2 DEF Done
<1>10. CASE CreateFile
  <2>1. /\ cmd = CREATEFILE /\ reply' = reply /\ Parse("DISPATCH")
    BY <1>10 DEF CreateFile, Dispatch
  <2>2. Block("recv")
    BY <1>10, TransferWaits
  <2>3. Line' /\ Order'
    BY <1>1, <2>1, <2>2, BlockSteady
  <2>4. FileOK'
    <3>1. /\ transfer' = "created" /\ FileFrames(expected') = FileFrames(expected)
          /\ FileFrames(expected') # {} /\ reply' = None /\ ipc' # "crash"
      BY <1>2, <1>3, <1>5, <2>1, <2>2 DEF Block
    <3>2. \A e \in FileFrames(expected') : e[1] # WRITEFILE /\ e[1] # VERIFYFILE
      BY <1>5, <2>1, <3>1 DEF Steady, Order
    <3>3. reply' # <<VERIFYFILE, "ok">>
      BY <2>1, <3>1, <1>2, NoneIs
    <3>4. QED
      BY <3>1, <3>2, <3>3 DEF FileOK
  <2>5. QED
    BY <1>8, <2>3, <2>4 DEF Steady
<1>11. CASE CreateReceived
  <2>1. /\ cmd = CREATEFILE /\ reply' = reply /\ Done /\ Len(got) = Number(data_length) /\ info' = got
    BY <1>11 DEF CreateReceived, Received
  <2>2. /\ Line' /\ Order' /\ FileFrames(expected') = {} /\ ipc' # "crash"
        /\ got = Info(sending)
    BY <1>2, <1>9, <2>1 DEF Text, Tx
  <2>3. sent' = 0 /\ transfer' = "created" /\ reply' = None
    BY <1>2, <1>3, <1>5, <2>1 DEF HostOK
  <2>4. errcode' = "none" => FileIs(sent)'
    <3>1. errcode' = "none" => file' = <<>>
      BY <1>11 DEF CreateReceived
    <3>2. SubSeq(Contents[sending], 1, 0) = <<>>
      BY <1>6, <1>7 DEF C
    <3>3. QED
      BY <1>3, <2>1, <2>2, <2>3, <3>1, <3>2 DEF FileIs
  <2>5. reply' # <<VERIFYFILE, "ok">>
    BY <1>2, <2>1, NoneIs
  <2>6. FileOK'
    BY <2>2, <2>3, <2>4, <2>5 DEF FileOK
  <2>7. QED
    BY <1>8, <2>2, <2>6 DEF Steady
<1>12. CASE WriteFile
  <2>1. /\ cmd = WRITEFILE /\ reply' = reply /\ Parse("DISPATCH")
    BY <1>12 DEF WriteFile, Dispatch
  <2>2. Block("recv")
    BY <1>12, TransferWaits
  <2>3. UNCHANGED sv_file
    BY <1>12, <2>2, TransferWaits DEF WriteFile, sv_file
  <2>4. QED
    BY <1>1, <1>8, <2>1, <2>2, <2>3, BlockSteady DEF Steady
<1>13. CASE WriteReceived
  <2>1. /\ cmd = WRITEFILE /\ reply' = reply /\ Done /\ Len(got) = Number(data_length)
        /\ UNCHANGED <<chunk_buffer, info>>
    BY <1>13 DEF WriteReceived, Received
  <2>2. /\ Line' /\ Order' /\ FileFrames(expected') = {} /\ ipc' # "crash"
        /\ got = SubSeq(Contents[sending], sent - f[2] + 1, sent)
    BY <1>2, <1>9, <2>1 DEF Text, Tx
  <2>3. transfer' = "written" /\ reply' = None
    BY <1>2, <1>3, <1>5, <2>1
  <2>4. /\ FileIs(sent - f[2]) /\ sent - f[2] \in 0..sent /\ sent - f[2] < sent
    <3>1. FileIs(sent - f[2]) /\ f[2] \in 1..ChunkSize /\ f[2] <= sent
      BY <1>2, <1>5, <2>1 DEF Steady, FileOK
    <3>2. QED
      BY <1>2, <1>6, <3>1
  <2>5. errcode' = "none" => FileIs(sent)'
    <3>1. errcode' = "none" => file' = file \o got
      BY <1>13 DEF WriteReceived
    <3>2. file \o got = SubSeq(Contents[sending], 1, sent)
      BY <1>7, <2>2, <2>4 DEF FileIs, C
    <3>3. QED
      BY <1>3, <2>1, <2>4, <3>1, <3>2 DEF FileIs
  <2>6. reply' # <<VERIFYFILE, "ok">>
    BY <1>2, <2>1, NoneIs
  <2>7. FileOK'
    BY <2>2, <2>3, <2>5, <2>6 DEF FileOK
  <2>8. QED
    BY <1>8, <2>2, <2>7 DEF Steady
<1>14. CASE VerifyFile
  <2>1. cmd = VERIFYFILE /\ info' = info
    BY <1>14 DEF VerifyFile, Dispatch
  <2>2. FileIs(sent)
    BY <1>2, <2>1 DEF Steady, FileOK
  <2>3. file # None /\ info[2] = Digest(Contents[sending])
    <3>1. sent \in 0..sent
      BY <1>6
    <3>2. QED
      BY <1>7, <2>2, <3>1 DEF FileIs, C, Info
  <2>4. /\ Done
        /\ \/ reply' = <<VERIFYFILE, "not open">>
           \/ \E c \in Readable(card') :
                reply' = <<VERIFYFILE, IF Digest(c) = info[2] THEN "ok" ELSE "sha2">>
    BY <1>14, <2>3 DEF VerifyFile
  <2>5. cmd \notin Payloads /\ cmd \in Asks
    BY <2>1 DEF Payloads, Asks, SCRIPT_EXEC, CREATEFILE, WRITEFILE, VERIFYFILE
  <2>6. Line' /\ expected' = Tail(expected)
    BY <1>1, <1>2, <1>3, <2>4, <2>5, LineDone DEF Steady
  <2>7. Order' /\ FileFrames(expected') = {}
    <3>1. reply'[1] = f[1]
      <4>1. \E e : reply' = <<VERIFYFILE, e>>
        BY <2>4
      <4>2. reply'[1] = VERIFYFILE
        BY <4>1
      <4>3. QED
        BY <1>2, <2>1, <4>2
    <3>2. QED
      BY <1>2, <1>3, <2>5, <2>6, <3>1, OrderAnswered DEF Steady
  <2>8. reply' = <<VERIFYFILE, "ok">> => Verifiable'
    <3>1. ASSUME reply' = <<VERIFYFILE, "ok">>
          PROVE  \E c \in Readable(card') : Digest(c) = Digest(Contents[sending])
      <4>1. PICK c \in Readable(card') :
              reply' = <<VERIFYFILE, IF Digest(c) = info[2] THEN "ok" ELSE "sha2">>
        BY <2>4, <3>1
      <4>2. Digest(c) = info[2]
        BY <3>1, <4>1
      <4>3. QED
        BY <2>3, <4>2
    <3>2. QED
      BY <1>3, <3>1 DEF Verifiable
  <2>9. FileOK'
    <3>1. transfer' = "verify" /\ asked' = VERIFYFILE
      BY <1>3, <1>5, <2>1
    <3>2. VERIFYFILE # QUERY_FILE_STAT
      BY DEF VERIFYFILE, QUERY_FILE_STAT
    <3>3. ipc' # "crash"
      BY <2>4 DEF Done
    <3>4. QED
      BY <2>7, <2>8, <3>1, <3>2, <3>3 DEF FileOK
  <2>10. QED
    BY <1>8, <2>6, <2>7, <2>9 DEF Steady
<1>15. QED
  BY <1>10, <1>11, <1>12, <1>13, <1>14

\* Size and bytes of a picture: FRAME_SIZE settles which one FRAME_DUMP sends.
LEMMA PictureSteady ==
  ASSUME TypeOK, ParserOK, Steady, ~refused, FrameSize \/ FrameSizeEncode \/ FrameDump \/ FbEnable
  PROVE  Steady'
<1>1. /\ UNCHANGED <<sv_file, host, link>> /\ UNCHANGED <<asked, announced>>
      /\ Parse("DISPATCH") \/ ipc \in {"pause", "recv", "frame"}
  BY DEF FrameSize, FrameSizeEncode, FrameDump, FbEnable, Dispatch, host
<1>2. /\ expected # <<>> /\ expected \in Seq(Byte \X Byte) /\ Head(expected)[1] = cmd /\ reply = None
  BY <1>1, HandlerIn
<1>3. cmd \in Asks => asked = cmd
  BY <1>2, FileFramesAre DEF Steady, Order
<1>4. FRAME_SIZE \in Asks \ {VERIFYFILE, QUERY_FILE_STAT} /\ FRAME_DUMP \in Asks \ {VERIFYFILE, QUERY_FILE_STAT}
      /\ FRAME_SIZE # FRAME_DUMP
  BY DEF Asks, FRAME_SIZE, FRAME_DUMP, VERIFYFILE, QUERY_FILE_STAT
<1>5. CASE FrameSize
  <2>1. cmd = FRAME_SIZE /\ Announce /\ Parse("DISPATCH") /\ asked = FRAME_SIZE
    BY <1>3, <1>4, <1>5 DEF FrameSize, Dispatch
  <2>2. CASE NeedsFrame
    <3>1. Block("frame") /\ reply' = reply
      BY <1>5, <2>2 DEF FrameSize
    <3>2. PictureOK'
      BY <1>1, <1>2, <1>4, <2>1, <3>1 DEF PictureOK
    <3>3. QED
      BY <1>1, <2>1, <3>1, <3>2, BlockSteady DEF Steady
  <2>3. CASE ~NeedsFrame
    <3>1. Done /\ reply' = <<FRAME_SIZE, Size>>
      BY <1>5, <2>3 DEF FrameSize
    <3>2. Size # None => Dump' = Size
      <4>1. fb_from \in {"none", "user", "wbc"}
        BY DEF TypeOK, PictureTypeOK
      <4>2. Skip => Size = None
        BY DEF Size
      <4>3. ~Skip => /\ fb_from_current' = fb_from /\ fb_from \in {"user", "wbc"}
                     /\ UNCHANGED <<fb_data, wbc_jpeg>>
        BY <2>1, <4>1 DEF Announce, Skip
      <4>4. ~Skip => Size = IF fb_from = "user" THEN fb_data ELSE IF wbc_enabled THEN wbc_jpeg ELSE None
        BY DEF Size
      <4>5. QED
        BY <4>2, <4>3, <4>4 DEF Dump
    <3>3. PictureOK'
      BY <1>1, <1>4, <2>1, <3>1, <3>2 DEF PictureOK
    <3>4. QED
      BY <1>1, <1>4, <2>1, <3>1, <3>3, AnswerSteady
  <2>4. QED
    BY <2>2, <2>3
<1>6. CASE FrameSizeEncode
  <2>1. /\ ipc = "frame" /\ cmd = FRAME_SIZE /\ fb_from_current = "wbc" /\ asked = FRAME_SIZE
    BY <1>3, <1>4, <1>6 DEF FrameSizeEncode, ParserOK
  <2>2. PICK p \in Pic \cup {None} : Encode(p) /\ reply' = <<FRAME_SIZE, p>> /\ Done
    BY <1>6 DEF FrameSizeEncode
  <2>3. Dump' = p
    BY <2>1, <2>2 DEF Encode, Dump
  <2>4. PictureOK'
    BY <1>1, <1>4, <2>1, <2>2, <2>3 DEF PictureOK
  <2>5. QED
    BY <1>1, <1>4, <2>1, <2>2, <2>4, AnswerSteady
<1>7. CASE FrameDump
  <2>1. cmd = FRAME_DUMP /\ Parse("DISPATCH") /\ asked = FRAME_DUMP /\ Done /\ reply' = <<FRAME_DUMP, Dump>>
    BY <1>3, <1>4, <1>7 DEF FrameDump, Dispatch
  <2>2. announced # None /\ Dump = announced
    BY <1>2, <1>4, <2>1 DEF Steady, PictureOK
  <2>3. reply' # None
    <3>1. <<FRAME_DUMP, Dump>> \in Replies
      <4>1. Dump \in Pic \cup {None}
        BY DEF TypeOK, PictureTypeOK, Dump
      <4>2. QED
        BY <4>1, RepliesAre
    <3>2. QED
      BY <2>1, <3>1, ReplyAssumption
  <2>4. PictureOK'
    BY <1>1, <1>4, <2>1, <2>2, <2>3 DEF PictureOK
  <2>5. QED
    BY <1>1, <1>4, <2>1, <2>4, AnswerSteady
<1>8. CASE FbEnable
  <2>1. cmd = FB_ENABLE /\ Done /\ reply' = reply /\ UNCHANGED <<fb_from_current, fb_data, wbc_jpeg>>
    BY <1>8 DEF FbEnable, Dispatch
  <2>2. Dump' = Dump
    BY <2>1 DEF Dump
  <2>3. cmd \notin Payloads /\ cmd \notin FileCmds
    BY <2>1 DEF FB_ENABLE, Payloads, FileCmds, SCRIPT_EXEC, CREATEFILE, WRITEFILE, VERIFYFILE
  <2>4. QED
    BY <1>1, <2>1, <2>2, <2>3, DoneSteady
<1>9. QED
  BY <1>5, <1>6, <1>7, <1>8

\* Scripts show pictures, but the one announced stays until it is sent.
LEMMA MainSteady ==
  ASSUME TypeOK, Steady, Main
  PROVE  Steady'
<1>1. /\ MainThread /\ UNCHANGED <<link, data, parser, got, sv_file, host, expected, refused>>
      /\ UNCHANGED <<asked, transfer, sending, sent, announced>>
  BY DEF Main, host
<1>2. UNCHANGED <<ipc, reply, fb_from_current, wbc_jpeg>> /\ (fb_data # None => fb_data' = fb_data)
  BY <1>1 DEF MainThread, ScriptStart, SetVoWbc, VoWbcInit, VoWbcDeinit, ScriptEnding, ScriptEnd,
       SetFb, picture, session
<1>3. Dump # None => Dump' = Dump
  BY <1>2 DEF Dump
<1>4. Line'
  BY <1>1, <1>2, LineStays DEF Steady
<1>5. Order'
  BY <1>1, <1>2 DEF Steady, Order
<1>6. FileOK'
  BY <1>1, <1>2, FileStays DEF Steady, FileOK
<1>7. PictureOK'
  BY <1>1, <1>2, <1>3 DEF Steady, PictureOK
<1>8. QED
  BY <1>4, <1>5, <1>6, <1>7 DEF Steady

-----------------------------------------------------------------------------
(* The steps of the IDE in step.                                           *)

\* A frame that the IDE sends joins those expected.
LEMMA SendSteady ==
  ASSUME TypeOK, Steady, ~refused, NEW c \in Byte, NEW n \in Byte, NEW g \in Seq(Seq(Byte)),
         Send(c, n, g), Brings(g, 1, Len(g) + 1, <<c, n>>, Tx'),
         c \in Asks => asked' = c,
         c \in FileCmds => FileFrames(expected) = {},
         c \notin FileCmds => UNCHANGED <<transfer, sending, sent>>,
         /\ c = CREATEFILE => transfer' = "created" /\ n = 2
         /\ c = WRITEFILE => transfer' = "written" /\ n \in 1..ChunkSize /\ n <= sent'
         /\ c = VERIFYFILE => transfer' = "verify",
         announced' = announced, asked' = FRAME_DUMP => announced # None
  PROVE  /\ Line' /\ Order' /\ PictureOK' /\ reply' = None
         /\ FileFrames(expected') = IF c \in FileCmds THEN {<<c, n>>} ELSE FileFrames(expected)
         /\ c \notin FileCmds => FileOK'
<1>1. /\ asked = None /\ link' = link \o g /\ expected' = Append(expected, <<c, n>>)
      /\ UNCHANGED <<picture, ipc, reply, data, parser, got, sv_file>>
  BY DEF Send
<1>2. <<c, n>> \in Byte \X Byte /\ <<c, n>>[1] = c /\ <<c, n>>[2] = n
  OBVIOUS
<1>3. Line'
  <2>1. Tx' = Tx \/ FileFrames(expected) = {}
    BY DEF Tx
  <2>2. QED
    BY <1>1, <1>2, <2>1, LineSent DEF Steady
<1>4. /\ Order' /\ reply = None
      /\ FileFrames(expected') = IF c \in FileCmds THEN {<<c, n>>} ELSE FileFrames(expected)
  BY <1>1, <1>2, OrderSent DEF Steady
<1>5. PictureOK'
  <2>1. Dump' = Dump
    BY <1>1 DEF Dump, picture
  <2>2. asked # FRAME_SIZE /\ asked # FRAME_DUMP
    BY <1>1, NoQuestion
  <2>3. QED
    BY <1>1, <1>4, <2>1, <2>2 DEF Steady, PictureOK
<1>6. ASSUME c \notin FileCmds PROVE FileOK'
  <2>1. ipc' # "crash" /\ reply' # <<VERIFYFILE, "ok">>
    BY <1>1, <1>4, NoneIs DEF Steady, FileOK
  <2>2. QED
    BY <1>1, <1>4, <1>6, <2>1, FileStays DEF Steady
<1>7. QED
  BY <1>1, <1>3, <1>4, <1>5, <1>6

\* No step of a transfer is under way before the first and after a good status.
LEMMA NoFileFrame ==
  ASSUME Order, transfer \in {"no", "open"}
  PROVE  FileFrames(expected) = {}
BY DEF Order, FileFrames, FileCmds

\* A command without a payload that is not about the file.
LEMMA AskSteady ==
  ASSUME TypeOK, Steady, ~refused, NEW c \in Asks \ {VERIFYFILE}, Ask(c),
         c = FRAME_DUMP => announced # None
  PROVE  Steady'
<1>1. /\ Send(c, 0, <<Frame(c, 0)>>) /\ asked' = c /\ UNCHANGED <<transfer, sending, sent, announced>>
  BY DEF Ask
<1>2. /\ c \in Byte \ (Payloads \cup {FB_ENABLE}) /\ c \notin FileCmds /\ 0 \in Byte
  BY CommandsAre DEF Byte
<1>3. /\ c # CREATEFILE /\ c # WRITEFILE /\ c # VERIFYFILE
  BY <1>2 DEF FileCmds
<1>4. /\ <<Frame(c, 0)>> \in Seq(Seq(Byte))
      /\ Brings(<<Frame(c, 0)>>, 1, Len(<<Frame(c, 0)>>) + 1, <<c, 0>>, Tx')
  BY <1>2, SentHeader
<1>5. Line' /\ Order' /\ PictureOK' /\ FileOK'
  BY <1>1, <1>2, <1>3, <1>4, SendSteady
<1>6. QED
  BY <1>5 DEF Steady

\* Every step of the IDE, and its reading of an answer.
LEMMA IdeSteady ==
  ASSUME TypeOK, HostOK, Steady, ~refused, Ide
  PROVE  Steady'
<1>1. ASSUME AskRunning PROVE Steady'
  BY <1>1, AskSteady DEF AskRunning, Asks, SCRIPT_RUNNING, VERIFYFILE, FRAME_DUMP
<1>2. ASSUME AskSize PROVE Steady'
  BY <1>2, AskSteady DEF AskSize, Asks, FRAME_SIZE, VERIFYFILE, FRAME_DUMP
<1>3. ASSUME AskPicture PROVE Steady'
  BY <1>3, AskSteady DEF AskPicture, Asks, VERIFYFILE, FRAME_DUMP
<1>4. ASSUME AskStat PROVE Steady'
  BY <1>4, AskSteady DEF AskStat, Asks, QUERY_FILE_STAT, VERIFYFILE, FRAME_DUMP
<1>5. ASSUME AskVerify PROVE Steady'
  <2>1. /\ transfer = "open" /\ transfer' = "verify" /\ asked' = VERIFYFILE
        /\ Send(VERIFYFILE, 0, <<Frame(VERIFYFILE, 0)>>) /\ UNCHANGED <<sending, sent, announced>>
    BY <1>5 DEF AskVerify
  <2>2. /\ VERIFYFILE \in Byte \ (Payloads \cup {FB_ENABLE}) /\ 0 \in Byte /\ VERIFYFILE \in FileCmds
        /\ VERIFYFILE # CREATEFILE /\ VERIFYFILE # WRITEFILE /\ VERIFYFILE # FRAME_DUMP
    BY DEF Byte, Payloads, FileCmds, FB_ENABLE, SCRIPT_EXEC, CREATEFILE, WRITEFILE, VERIFYFILE, FRAME_DUMP
  <2>3. /\ <<Frame(VERIFYFILE, 0)>> \in Seq(Seq(Byte))
        /\ Brings(<<Frame(VERIFYFILE, 0)>>, 1, Len(<<Frame(VERIFYFILE, 0)>>) + 1, <<VERIFYFILE, 0>>, Tx')
    BY <2>2, SentHeader
  <2>4. FileFrames(expected) = {}
    BY <2>1, NoFileFrame DEF Steady
  <2>5. Line' /\ Order' /\ PictureOK' /\ reply' = None /\ FileFrames(expected') = {<<VERIFYFILE, 0>>}
    BY <2>1, <2>2, <2>3, <2>4, SendSteady
  <2>6. FileOK'
    <3>1. FileIs(sent)' /\ ipc' # "crash"
      BY <2>1 DEF Steady, FileOK, FileIs, Send, sv_file
    <3>2. reply' # <<VERIFYFILE, "ok">>
      BY <2>5, NoneIs
    <3>3. \A f \in FileFrames(expected') : f[1] # WRITEFILE
      BY <2>2, <2>5
    <3>4. QED
      BY <2>1, <2>5, <3>1, <3>2, <3>3 DEF FileOK
  <2>7. QED
    BY <2>5, <2>6 DEF Steady
<1>6. ASSUME SendScript PROVE Steady'
  <2>1. PICK t \in Scripts : SendPayload(SCRIPT_EXEC, t)
    BY <1>6 DEF SendScript
  <2>2. /\ t \in Seq(Byte) /\ Len(t) \in Byte /\ SCRIPT_EXEC \in Payloads /\ SCRIPT_EXEC \in Byte
        /\ SCRIPT_EXEC \notin FileCmds /\ SCRIPT_EXEC \notin Asks
        /\ SCRIPT_EXEC # CREATEFILE /\ SCRIPT_EXEC # WRITEFILE /\ SCRIPT_EXEC # VERIFYFILE
    <3>1. t \in Seq(Byte) /\ Len(t) \in Byte
      BY TextTypes
    <3>2. SCRIPT_EXEC \in Payloads
      BY DEF Payloads
    <3>3. /\ SCRIPT_EXEC \in Byte /\ SCRIPT_EXEC # CREATEFILE /\ SCRIPT_EXEC # WRITEFILE
          /\ SCRIPT_EXEC # VERIFYFILE
      BY DEF Byte, SCRIPT_EXEC, CREATEFILE, WRITEFILE, VERIFYFILE
    <3>4. QED
      BY <3>1, <3>2, <3>3, CommandsAre DEF FileCmds
  <2>3. PICK ps \in Packets(t) : Send(SCRIPT_EXEC, Len(t), <<Frame(SCRIPT_EXEC, Len(t))>> \o ps)
    BY <2>1 DEF SendPayload
  <2>4. UNCHANGED <<asked, transfer, sending, sent, announced>> /\ asked = None
    BY <1>6, <2>3 DEF SendScript, host, Send
  <2>5. Text(t, <<SCRIPT_EXEC, Len(t)>>, Tx')
    BY <2>2 DEF Text
  <2>6. /\ <<Frame(SCRIPT_EXEC, Len(t))>> \o ps \in Seq(Seq(Byte))
        /\ Brings(<<Frame(SCRIPT_EXEC, Len(t))>> \o ps, 1, Len(<<Frame(SCRIPT_EXEC, Len(t))>> \o ps) + 1,
                  <<SCRIPT_EXEC, Len(t)>>, Tx')
    BY <2>2, <2>3, <2>5, SentPayload
  <2>7. asked' # FRAME_DUMP
    BY <2>4, NoQuestion
  <2>8. Line' /\ Order' /\ PictureOK' /\ FileOK'
    BY <2>2, <2>3, <2>4, <2>6, <2>7, SendSteady
  <2>9. QED
    BY <2>8 DEF Steady
<1>7. ASSUME SendEnable PROVE Steady'
  <2>1. PICK b \in {0, 1} : Send(FB_ENABLE, 1, <<Frame(FB_ENABLE, 1) \o <<b>>>>)
    BY <1>7 DEF SendEnable
  <2>2. /\ FB_ENABLE \in Byte /\ 1 \in Byte /\ FB_ENABLE \notin FileCmds /\ FB_ENABLE \notin Asks
        /\ FB_ENABLE # CREATEFILE /\ FB_ENABLE # WRITEFILE /\ FB_ENABLE # VERIFYFILE
    <3>1. /\ FB_ENABLE \in Byte /\ 1 \in Byte /\ FB_ENABLE # CREATEFILE /\ FB_ENABLE # WRITEFILE
          /\ FB_ENABLE # VERIFYFILE
      BY DEF Byte, FB_ENABLE, CREATEFILE, WRITEFILE, VERIFYFILE
    <3>2. QED
      BY <3>1, CommandsAre DEF FileCmds
  <2>3. UNCHANGED <<asked, transfer, sending, sent, announced>> /\ asked = None
    BY <1>7, <2>1 DEF SendEnable, host, Send
  <2>4. /\ <<Frame(FB_ENABLE, 1) \o <<b>>>> \in Seq(Seq(Byte))
        /\ Brings(<<Frame(FB_ENABLE, 1) \o <<b>>>>, 1, Len(<<Frame(FB_ENABLE, 1) \o <<b>>>>) + 1,
                  <<FB_ENABLE, 1>>, Tx')
    BY SentEnable
  <2>5. asked' # FRAME_DUMP
    BY <2>3, NoQuestion
  <2>6. Line' /\ Order' /\ PictureOK' /\ FileOK'
    BY <2>1, <2>2, <2>3, <2>4, <2>5, SendSteady
  <2>7. QED
    BY <2>6 DEF Steady
<1>8. ASSUME SendCreate PROVE Steady'
  <2>1. PICK k \in DOMAIN Contents : sending' = k
    BY <1>8 DEF SendCreate
  <2>2. /\ transfer = "no" /\ transfer' = "created" /\ sent' = 0
        /\ UNCHANGED <<asked, announced>> /\ SendPayload(CREATEFILE, Info(k))
    BY <1>8, <2>1 DEF SendCreate
  <2>3. PICK ps \in Packets(Info(k)) :
          Send(CREATEFILE, Len(Info(k)), <<Frame(CREATEFILE, Len(Info(k)))>> \o ps)
    BY <2>2 DEF SendPayload
  <2>4. /\ Info(k) \in Seq(Byte) /\ Len(Info(k)) = 2 /\ 2 \in Byte
        /\ CREATEFILE \in Payloads /\ CREATEFILE \in Byte /\ CREATEFILE \in FileCmds
        /\ CREATEFILE \notin Asks /\ CREATEFILE # WRITEFILE /\ CREATEFILE # VERIFYFILE
    <3>1. Info(k) \in Seq(Byte) /\ Len(Info(k)) = 2 /\ 2 \in Byte
      BY TextTypes
    <3>2. CREATEFILE \in Payloads /\ CREATEFILE \in FileCmds
      BY DEF Payloads, FileCmds
    <3>3. CREATEFILE \in Byte /\ CREATEFILE # WRITEFILE /\ CREATEFILE # VERIFYFILE
      BY DEF Byte, CREATEFILE, WRITEFILE, VERIFYFILE
    <3>4. QED
      BY <3>1, <3>2, <3>3, CommandsAre
  <2>5. Text(Info(k), <<CREATEFILE, 2>>, Tx')
    BY <2>1, <2>4 DEF Text, Tx
  <2>6. /\ <<Frame(CREATEFILE, 2)>> \o ps \in Seq(Seq(Byte))
        /\ Brings(<<Frame(CREATEFILE, 2)>> \o ps, 1, Len(<<Frame(CREATEFILE, 2)>> \o ps) + 1,
                  <<CREATEFILE, 2>>, Tx')
    BY <2>3, <2>4, <2>5, SentPayload
  <2>7. Send(CREATEFILE, 2, <<Frame(CREATEFILE, 2)>> \o ps) /\ asked = None
    BY <2>3, <2>4 DEF Send
  <2>8. FileFrames(expected) = {}
    BY <2>2, NoFileFrame DEF Steady
  <2>9. asked' # FRAME_DUMP
    BY <2>2, <2>7, NoQuestion
  <2>10. Line' /\ Order' /\ PictureOK' /\ reply' = None /\ FileFrames(expected') = {<<CREATEFILE, 2>>}
    BY <2>2, <2>4, <2>6, <2>7, <2>8, <2>9, SendSteady
  <2>11. FileOK'
    <3>1. ipc' # "crash" /\ reply' # <<VERIFYFILE, "ok">>
      BY <2>7, <2>10, NoneIs DEF Steady, FileOK, Send
    <3>2. \A f \in FileFrames(expected') : f[1] # WRITEFILE /\ f[1] # VERIFYFILE
      BY <2>4, <2>10
    <3>3. FileFrames(expected') # {}
      BY <2>10
    <3>4. QED
      BY <2>2, <2>10, <3>1, <3>2, <3>3 DEF FileOK
  <2>12. QED
    BY <2>10, <2>11 DEF Steady
<1>9. ASSUME SendChunk PROVE Steady'
  <2>1. /\ transfer = "open" /\ sent < Len(Contents[sending]) /\ transfer' = "written"
        /\ sent' = IF sent + ChunkSize < Len(Contents[sending]) THEN sent + ChunkSize
                                                                ELSE Len(Contents[sending])
        /\ SendPayload(WRITEFILE, SubSeq(Contents[sending], sent + 1, sent'))
        /\ UNCHANGED <<asked, sending, announced>>
    BY <1>9 DEF SendChunk
  <2>2. sending \in DOMAIN Contents /\ sent \in Nat
    BY <2>1 DEF HostOK, TypeOK
  <2>3. PICK s : s = SubSeq(Contents[sending], sent + 1, sent')
    OBVIOUS
  <2>4. PICK n : n = sent' - sent
    OBVIOUS
  <2>5. /\ sent' \in Nat /\ n \in Byte /\ n \in 1..ChunkSize /\ n <= sent' /\ sent' - n = sent
        /\ s \in Seq(Byte) /\ Len(s) = n
    <3>1. /\ sent' \in Nat /\ sent < sent' /\ sent' - sent <= ChunkSize /\ sent' - sent \in Byte
          /\ s \in Seq(Byte) /\ Len(s) = sent' - sent
      BY <2>1, <2>2, <2>3, ChunkIs
    <3>2. ChunkSize \in Nat
      BY FrameAssumption, ByteIsNat
    <3>3. \A a, b, c \in Nat : a < b /\ b - a <= c => b - a \in 1..c /\ b - a <= b /\ b - (b - a) = a
      OBVIOUS
    <3>4. n \in 1..ChunkSize /\ n <= sent' /\ sent' - n = sent
      BY <2>2, <2>4, <3>1, <3>2, <3>3, Zenon
    <3>5. QED
      BY <2>4, <3>1, <3>4, Zenon
  <2>6. PICK ps \in Packets(s) : Send(WRITEFILE, n, <<Frame(WRITEFILE, n)>> \o ps)
    BY <2>1, <2>3, <2>5 DEF SendPayload
  <2>7. /\ WRITEFILE \in Payloads /\ WRITEFILE \in Byte /\ WRITEFILE \in FileCmds
        /\ WRITEFILE \notin Asks /\ CREATEFILE # WRITEFILE /\ WRITEFILE # VERIFYFILE
    <3>1. WRITEFILE \in Payloads /\ WRITEFILE \in FileCmds
      BY DEF Payloads, FileCmds
    <3>2. WRITEFILE \in Byte /\ CREATEFILE # WRITEFILE /\ WRITEFILE # VERIFYFILE
      BY DEF Byte, CREATEFILE, WRITEFILE, VERIFYFILE
    <3>3. QED
      BY <3>1, <3>2, CommandsAre
  <2>8. Text(s, <<WRITEFILE, n>>, Tx')
    BY <2>1, <2>3, <2>5, <2>7 DEF Text, Tx
  <2>9. /\ <<Frame(WRITEFILE, n)>> \o ps \in Seq(Seq(Byte))
        /\ Brings(<<Frame(WRITEFILE, n)>> \o ps, 1, Len(<<Frame(WRITEFILE, n)>> \o ps) + 1,
                  <<WRITEFILE, n>>, Tx')
    BY <2>5, <2>6, <2>7, <2>8, SentPayload
  <2>10. FileFrames(expected) = {}
    BY <2>1, NoFileFrame DEF Steady
  <2>11. asked' # FRAME_DUMP
    BY <2>1, <2>6, NoQuestion DEF Send
  <2>12. Line' /\ Order' /\ PictureOK' /\ reply' = None /\ FileFrames(expected') = {<<WRITEFILE, n>>}
    BY <2>1, <2>5, <2>6, <2>7, <2>9, <2>10, <2>11, SendSteady
  <2>13. FileOK'
    <3>1. ipc' # "crash" /\ reply' # <<VERIFYFILE, "ok">>
      BY <2>6, <2>12, NoneIs DEF Steady, FileOK, Send
    <3>2. FileIs(sent)
      BY <2>1 DEF Steady, FileOK
    <3>3. info' = Info(sending) /\ file' = SubSeq(Contents[sending], 1, sent)
      BY <2>6, <3>2 DEF FileIs, Send, sv_file
    <3>4. \A f \in FileFrames(expected') : f[1] # VERIFYFILE /\ f[2] = n
      BY <2>7, <2>12
    <3>5. \A f \in FileFrames(expected') : FileIs(sent - f[2])'
      BY <2>1, <2>5, <3>3, <3>4 DEF FileIs
    <3>6. FileFrames(expected') # {}
      BY <2>12
    <3>7. QED
      BY <2>1, <2>12, <3>1, <3>4, <3>5, <3>6 DEF FileOK
  <2>14. QED
    BY <2>12, <2>13 DEF Steady
<1>10. ASSUME Abandon PROVE Steady'
  <2>1. /\ UNCHANGED <<picture, session, ipc, reply, link, data, parser, got, sv_file,
                       asked, sending, announced, expected, refused>>
        /\ asked = None /\ transfer = "open" /\ transfer' = "no" /\ sent' = 0
    BY <1>10 DEF Abandon
  <2>2. FileFrames(expected) = {}
    BY <2>1, NoFileFrame DEF Steady
  <2>3. Line'
    BY <2>1, <2>2, LineTx DEF Steady
  <2>4. Order'
    BY <2>1, <2>2 DEF Steady, Order
  <2>5. FileOK'
    <3>1. reply' = None /\ reply' # <<VERIFYFILE, "ok">>
      BY <2>1, NoAnswer, NoneIs DEF Steady
    <3>2. QED
      BY <2>1, <2>2, <3>1 DEF Steady, FileOK
  <2>6. PictureOK'
    BY <2>1, PictureStays DEF Steady
  <2>7. QED
    BY <2>3, <2>4, <2>5, <2>6 DEF Steady
<1>11. QED
  BY <1>1, <1>2, <1>3, <1>4, <1>5, <1>6, <1>7, <1>8, <1>9, <1>10 DEF Ide

\* The IDE reads the answer to its question, the last of what it has sent: a
\* good status opens the transfer, a size becomes the picture announced.
LEMMA AnsweredSteady ==
  ASSUME TypeOK, HostOK, Steady, Answer
  PROVE  Steady'
<1>1. /\ asked # None /\ reply # None /\ asked' = None /\ reply' = None
      /\ UNCHANGED <<picture, session, ipc, link, data, parser, got, sv_file, sending, expected>>
      /\ sent' = IF transfer' = "no" THEN 0 ELSE sent
  BY DEF Answer
<1>2. reply[1] = asked /\ expected = <<>>
  BY <1>1 DEF Steady, Order
<1>3. FileFrames(expected) = {} /\ OneFile(expected) /\ AskLast(expected) /\ DOMAIN expected = {}
  <2>1. expected \in Seq(Byte \X Byte)
    BY DEF TypeOK
  <2>2. FileFrames(expected) = {} /\ OneFile(expected) /\ AskLast(expected)
    BY <1>2, <2>1, FileFramesAre
  <2>3. DOMAIN <<>> = {}
    OBVIOUS
  <2>4. QED
    BY <1>2, <2>2, <2>3
<1>4. Line'
  BY <1>1, <1>3, LineTx DEF Steady
<1>5. Order'
  <2>1. expected' = expected
    BY <1>1
  <2>2. QED
    BY <1>1, <1>3, <2>1 DEF Order
<1>6. FileOK'
  <2>1. UNCHANGED <<errcode, file, chunk_buffer, info, card>>
    BY <1>1 DEF sv_file
  <2>2. reply' # <<VERIFYFILE, "ok">>
    BY <1>1, NoneIs
  <2>3. transfer' \notin {"created", "written"} \/ transfer' = transfer
    BY DEF Answer
  <2>4. transfer' = transfer /\ transfer # "no" => sent' = sent
    BY <1>1
  <2>5. ASSUME transfer' = "open" PROVE FileIs(sent)'
    <3>1. sent' = sent
      BY <1>1, <2>5
    <3>2. FileIs(sent)
      <4>1. CASE asked = QUERY_FILE_STAT
        <5>1. reply[2] = "none" /\ reply[2] = errcode /\ transfer \in {"created", "written"}
          BY <1>1, <2>5, <4>1 DEF Answer, HostOK, Steady, FileOK
        <5>2. QED
          BY <1>3, <5>1 DEF Steady, FileOK
      <4>2. CASE asked # QUERY_FILE_STAT
        <5>1. transfer = "open"
          BY <2>5, <4>2 DEF Answer
        <5>2. QED
          BY <5>1 DEF Steady, FileOK
      <4>3. QED
        BY <4>1, <4>2
    <3>3. QED
      BY <1>1, <2>1, <3>1, <3>2 DEF FileIs
  <2>6. ASSUME transfer' \in {"created", "written"}, errcode' = "none" PROVE FileIs(sent)'
    <3>1. transfer' = transfer /\ sent' = sent
      BY <1>1, <2>3, <2>6
    <3>2. FileIs(sent)
      BY <1>3, <2>1, <2>6, <3>1 DEF Steady, FileOK
    <3>3. QED
      BY <1>1, <2>1, <3>1, <3>2 DEF FileIs
  <2>7. ipc' # "crash" /\ FileFrames(expected') = {}
    BY <1>1, <1>3 DEF Steady, FileOK
  <2>8. QED
    BY <1>1, <2>2, <2>5, <2>6, <2>7 DEF FileOK
<1>7. PictureOK'
  <2>1. Dump' = Dump
    BY <1>1 DEF Dump, picture
  <2>2. asked' # FRAME_DUMP
    BY <1>1, NoQuestion
  <2>3. announced' # None => Dump = announced'
    <3>1. CASE asked = FRAME_SIZE
      <4>1. announced' = reply[2]
        BY <3>1 DEF Answer, FRAME_SIZE, FRAME_DUMP
      <4>2. QED
        BY <1>1, <3>1, <4>1 DEF Steady, PictureOK
    <3>2. CASE asked = FRAME_DUMP
      <4>1. announced' = None
        BY <3>2 DEF Answer, FRAME_SIZE, FRAME_DUMP
      <4>2. QED
        BY <4>1
    <3>3. CASE asked # FRAME_SIZE /\ asked # FRAME_DUMP
      <4>1. announced' = announced
        BY <3>3 DEF Answer
      <4>2. QED
        BY <3>3, <4>1 DEF Steady, PictureOK
    <3>4. QED
      BY <3>1, <3>2, <3>3
  <2>4. QED
    BY <1>1, <2>1, <2>2, <2>3 DEF PictureOK
<1>8. QED
  BY <1>4, <1>5, <1>6, <1>7 DEF Steady

-----------------------------------------------------------------------------
(* The invariant of the specification.                                     *)

\* The line is empty at the start, and nothing has been asked or sent.
LEMMA InvariantInit ==
  ASSUME Init
  PROVE  IInv
<1>1. /\ PictureTypeOK /\ reply = None /\ refused = FALSE /\ link = <<>> /\ expected = <<>>
      /\ ipc = "parse" /\ data = <<>> /\ got = <<>> /\ state = "HEAD"
      /\ fb_from_current = "none" /\ asked = None /\ transfer = "no" /\ sent = 0 /\ announced = None
  BY DEF Init, PictureInit, PictureTypeOK
<1>2. expected \in Seq(Byte \X Byte) /\ link \in Seq(Seq(Byte)) /\ Len(link) = 0
  BY <1>1, EmptySeq
<1>3. TypeOK
  <2>1. LineTypes
    <3>1. data \in Seq(Byte) /\ got \in Seq(Byte)
      BY <1>1, EmptySeq
    <3>2. cmd \in Byte /\ data_length \in [1..4 -> Byte] /\ recv_lack \in 0..4
      BY DEF Init, Byte
    <3>3. QED
      BY <1>1, <1>2, <3>1, <3>2 DEF LineTypes
  <2>2. LinkTypes
    BY <1>2, FrameAssumption DEF LinkTypes
  <2>3. FileTypes
    <3>1. card \in Seq(Byte) /\ info \in Byte \X Byte
      BY EmptySeq DEF Init, Byte
    <3>2. QED
      BY <3>1 DEF Init, FileTypes
  <2>4. HostTypes
    BY <1>1 DEF Init, HostTypes
  <2>5. QED
    BY <1>1, <2>1, <2>2, <2>3, <2>4, Types
<1>4. ParserOK
  BY <1>1 DEF ParserOK
<1>5. asked # VERIFYFILE /\ asked # QUERY_FILE_STAT /\ asked # FRAME_DUMP
  BY <1>1, NoQuestion
<1>6. HostOK
  BY <1>1, <1>5 DEF HostOK
<1>7. FileFrames(expected) = {} /\ OneFile(expected) /\ AskLast(expected) /\ DOMAIN expected = {}
  <2>1. FileFrames(expected) = {} /\ OneFile(expected) /\ AskLast(expected)
    BY <1>1, <1>2, FileFramesAre
  <2>2. DOMAIN <<>> = {}
    OBVIOUS
  <2>3. QED
    BY <1>1, <2>1, <2>2
<1>8. Line
  <2>1. Framed(link, 0, expected, Tx)
    <3>1. Len(expected) = 0 /\ Len(link) = 0
      BY <1>1, <1>2
    <3>2. [i \in 1..1 |-> 1] \in [1..Len(expected) + 1 -> 1..Len(link) + 1]
      BY <3>1
    <3>3. \A j \in 1..Len(expected) : FALSE
      BY <3>1
    <3>4. [i \in 1..1 |-> 1][1] = 0 + 1 /\ [i \in 1..1 |-> 1][Len(expected) + 1] = Len(link) + 1
      BY <3>1
    <3>5. QED
      BY <3>2, <3>3, <3>4 DEF Framed
  <2>2. QED
    BY <1>1, <2>1 DEF Line, Between
<1>9. Order
  BY <1>1, <1>7 DEF Order
<1>10. FileOK
  BY <1>1, <1>7, NoneIs DEF FileOK
<1>11. PictureOK
  BY <1>1, <1>5 DEF PictureOK
<1>12. QED
  BY <1>3, <1>4, <1>6, <1>8, <1>9, <1>10, <1>11 DEF IInv, Steady

\* A payload that was left unread has been.
LEMMA RefusedStays ==
  ASSUME [Next]_vars, refused
  PROVE  refused'
<1>1. CASE UNCHANGED vars
  BY <1>1 DEF vars
<1>2. CASE IdeTask
  BY <1>2 DEF IdeTask, Read, FrameHead, FrameCmd, FrameDataLength, FrameRecv, ReadUntil,
    ScriptRunning, ScriptExec, ScriptExecTest, ScriptReceived, QueryFileStat, CreateFile,
    CreateReceived, WriteFile, WriteReceived, VerifyFile, FrameSize, FrameSizeEncode, FrameDump,
    FbEnable, OtherCommand, others
<1>3. CASE Main \/ Ide \/ Answer
  BY <1>3 DEF Main, Ide, AskRunning, AskSize, AskPicture, AskStat, AskVerify, SendScript,
    SendEnable, SendCreate, SendChunk, Abandon, Answer, Ask, SendPayload, Send
<1>4. QED
  BY <1>1, <1>2, <1>3 DEF Next

\* Every step keeps the invariant.
LEMMA InvariantKept ==
  ASSUME IInv, [Next]_vars
  PROVE  IInv'
<1>1. TypeOK /\ ParserOK /\ HostOK /\ (~refused => Steady)
  BY DEF IInv
<1>2. AnswerOK
  BY <1>1 DEF AnswerOK, Steady, Order
<1>3. TypeOK' /\ ParserOK' /\ HostOK'
  BY <1>1, <1>2, TypesKept
<1>4. ASSUME ~refused' PROVE Steady'
  <2>1. ~refused /\ Steady
    BY <1>1, <1>4, RefusedStays
  <2>2. CASE UNCHANGED vars
    <3>1. UNCHANGED <<picture, ipc, reply, link, data, parser, got, sv_file, asked, transfer,
                      sending, sent, announced, expected>>
      BY <2>2 DEF vars, host
    <3>2. Line'
      <4>1. UNCHANGED <<sending, sent>>
        BY <3>1
      <4>2. QED
        BY <1>1, <2>1, <3>1, LineStays DEF Steady
    <3>3. Order'
      BY <2>1, <3>1 DEF Steady, Order
    <3>4. FileOK'
      BY <2>1, <3>1, FileStays DEF Steady, FileOK
    <3>5. PictureOK'
      BY <2>1, <3>1, PictureStays DEF Steady
    <3>6. QED
      BY <3>2, <3>3, <3>4, <3>5 DEF Steady
  <2>3. CASE IdeTask
    BY <1>1, <1>4, <2>1, <2>3, ParserSteady, ScriptSteady, TransferSteady, PictureSteady DEF IdeTask
  <2>4. CASE Main
    BY <1>1, <2>1, <2>4, MainSteady
  <2>5. CASE Ide
    BY <1>1, <2>1, <2>5, IdeSteady
  <2>6. CASE Answer
    BY <1>1, <2>1, <2>6, AnsweredSteady
  <2>7. QED
    BY <2>2, <2>3, <2>4, <2>5, <2>6 DEF Next
<1>5. QED
  BY <1>3, <1>4 DEF IInv

\* The invariant holds of every state the program reaches: the parser, the
\* IDE, the file and the picture agree until a payload is left unread.
THEOREM Invariance == Spec => []IInv
<1>1. Init => IInv
  BY InvariantInit
<1>2. IInv /\ [Next]_vars => IInv'
  BY InvariantKept
<1>3. QED
  BY <1>1, <1>2, PTL DEF Spec

-----------------------------------------------------------------------------
(* What it says.                                                           *)

\* Every variable keeps its type, whatever comes over the line, payloads that are
\* taken for commands included.
THEOREM TypeCorrect == Spec => []TypeOK
<1>1. IInv => TypeOK
  BY DEF IInv
<1>2. QED
  BY <1>1, Invariance, PTL

\* What ide_dbg_update dispatches is the oldest frame under way, for files and
\* scripts of any bytes and payloads cut in two anywhere, until a script is refused
\* or a chunk finds no buffer.
THEOREM InStepCorrect == Spec => []InStep
<1>1. IInv => InStep
  BY Dispatched DEF IInv, Steady, InStep
<1>2. QED
  BY <1>1, Invariance, PTL

\* After a good status the file holds what the IDE has sent, for any chunk
\* size, and VERIFYFILE finds it open, until a payload is left unread.
THEOREM FileKeptCorrect == Spec => []FileKept
<1>1. IInv => FileKept
  BY DEF IInv, Steady, FileOK, FileIs, FileKept
<1>2. QED
  BY <1>1, Invariance, PTL

\* VERIFYFILE approves only if something it could read of the card has the digest
\* of the file sent, as far as strncmp compares it, for any digests.
THEOREM VerifiedCorrect == Spec => []Verified
<1>1. IInv => Verified
  BY DEF IInv, Steady, FileOK, Verified
<1>2. QED
  BY <1>1, Invariance, PTL

\* The picture sent is the one whose size was told, whatever scripts and the
\* display do between the two questions.
THEOREM PictureCorrect == Spec => []PictureWhole
<1>1. IInv => PictureWhole
  BY DEF IInv, Steady, PictureOK, PictureWhole
<1>2. QED
  BY <1>1, Invariance, PTL

-----------------------------------------------------------------------------
(* The commands implement the file transfer of FileTransfer.  A payload    *)
(* left unread upsets it; until then each step is one of its steps or      *)
(* leaves its state alone.                                                 *)

\* What the transfer adds to the invariant: an error that is kept means that the
\* file is closed, and nothing is counted as sent without a transfer.
Told ==
  /\ transfer \in {"created", "written"} /\ FileFrames(expected) = {} /\ errcode # "none" => file = None
  /\ transfer = "no" => sent = 0

\* A step that neither the IDE's transfer nor the file is in.
LEMMA TransferStays ==
  ASSUME Told, ~refused, ~refused', UNCHANGED <<transfer, sending, sent, errcode, file, card>>,
         FileFrames(expected') = FileFrames(expected), Approved' = Approved
  PROVE  Told' /\ UNCHANGED Transfer!vars
<1>1. Told'
  BY DEF Told
<1>2. Stage' = Stage /\ Due' = Due
  BY DEF Stage, Due
<1>3. QED
  BY <1>1, <1>2 DEF Transfer!vars, Transfer!board

\* An answer that is not approval.
LEMMA NoApproval ==
  ASSUME reply = None \/ reply[1] # VERIFYFILE
  PROVE  ~Approved
<1>1. CASE reply = None
  BY <1>1, NoneIs DEF Approved
<1>2. CASE reply[1] # VERIFYFILE
  BY <1>2 DEF Approved
<1>3. QED
  BY <1>1, <1>2

\* The end of a command that is not about the file.
LEMMA OtherDone ==
  ASSUME TypeOK, ParserOK, Steady, Told, ~refused, ~refused',
         Parse("DISPATCH") \/ ipc \in {"pause", "recv", "frame"},
         Done, cmd \notin FileCmds, UNCHANGED <<sv_file, host>>,
         reply' = reply \/ reply'[1] # VERIFYFILE
  PROVE  Told' /\ UNCHANGED Transfer!vars
<1>1. /\ expected # <<>> /\ expected \in Seq(Byte \X Byte) /\ Head(expected)[1] = cmd /\ reply = None
  BY HandlerIn
<1>2. expected' = Tail(expected)
  BY <1>1 DEF Done
<1>3. FileFrames(expected') = FileFrames(expected)
  BY <1>1, <1>2, FramesDone DEF Steady, Order
<1>4. ~Approved
  BY <1>1, NoApproval
<1>5. ~Approved'
  <2>1. CASE reply' = reply
    BY <1>1, <2>1, NoneIs DEF Approved
  <2>2. CASE reply'[1] # VERIFYFILE
    BY <2>2 DEF Approved
  <2>3. QED
    BY <2>1, <2>2
<1>6. UNCHANGED <<transfer, sending, sent, errcode, file, card>>
  BY DEF host, sv_file
<1>7. Approved' = Approved
  BY <1>4, <1>5 DEF Approved
<1>8. QED
  BY <1>3, <1>6, <1>7, TransferStays

\* A handler that waits.
LEMMA OtherBlock ==
  ASSUME Told, ~refused, ~refused', NEW there, Block(there),
         UNCHANGED <<host, errcode, file, card, reply>>
  PROVE  Told' /\ UNCHANGED Transfer!vars
<1>1. UNCHANGED <<transfer, sending, sent, expected>> /\ Approved' = Approved
  BY DEF host, Block, Approved
<1>2. QED
  BY <1>1, TransferStays

\* The steps of the IDE task that are not about the file.
LEMMA OthersTransfer ==
  ASSUME TypeOK, ParserOK, Steady, Told, ~refused, ~refused',
         \/ Read \/ FrameHead \/ FrameCmd \/ FrameDataLength \/ FrameRecv \/ ReadUntil
         \/ ScriptRunning \/ ScriptExec \/ ScriptExecTest \/ ScriptReceived
         \/ QueryFileStat \/ OtherCommand
         \/ FrameSize \/ FrameSizeEncode \/ FrameDump \/ FbEnable
  PROVE  Told' /\ UNCHANGED Transfer!vars
<1>1. UNCHANGED <<sv_file, host>>
  BY DEF Read, FrameHead, FrameCmd, FrameDataLength, FrameRecv, ReadUntil, ScriptRunning, ScriptExec,
    ScriptExecTest, ScriptReceived, QueryFileStat, OtherCommand, FrameSize, FrameSizeEncode, FrameDump,
    FbEnable, others
<1>2. UNCHANGED <<errcode, file, card>>
  BY <1>1 DEF sv_file
<1>3. CASE Read \/ FrameHead \/ FrameCmd \/ FrameDataLength \/ FrameRecv \/ ReadUntil
  <2>1. UNCHANGED <<reply, expected>>
    BY <1>3 DEF Read, FrameHead, FrameCmd, FrameDataLength, FrameRecv, ReadUntil
  <2>2. Approved' = Approved /\ UNCHANGED <<transfer, sending, sent>>
    BY <1>1, <2>1 DEF Approved, host
  <2>3. QED
    BY <1>2, <2>1, <2>2, TransferStays
<1>4. CASE ScriptExec \/ ScriptExecTest
  <2>1. reply' = reply /\ \E there \in {"pause", "recv"} : Block(there)
    BY <1>4 DEF ScriptExec, ScriptExecTest
  <2>2. QED
    BY <1>1, <1>2, <2>1, OtherBlock
<1>5. ASSUME FrameSize \/ FrameSizeEncode, Done, reply'[1] = FRAME_SIZE
      PROVE  Told' /\ UNCHANGED Transfer!vars
  <2>1. /\ cmd = FRAME_SIZE
        /\ Parse("DISPATCH") \/ ipc \in {"pause", "recv", "frame"}
    BY <1>5 DEF FrameSize, FrameSizeEncode, Dispatch, ParserOK
  <2>2. cmd \notin FileCmds /\ FRAME_SIZE # VERIFYFILE
    BY <2>1 DEF FileCmds, FRAME_SIZE, CREATEFILE, WRITEFILE, VERIFYFILE
  <2>3. QED
    BY <1>1, <1>5, <2>1, <2>2, OtherDone
<1>6. CASE FrameSize
  <2>1. CASE NeedsFrame
    <3>1. Block("frame") /\ reply' = reply
      BY <1>6, <2>1 DEF FrameSize
    <3>2. QED
      BY <1>1, <1>2, <3>1, OtherBlock
  <2>2. CASE ~NeedsFrame
    <3>1. Done /\ reply' = <<FRAME_SIZE, Size>>
      BY <1>6, <2>2 DEF FrameSize
    <3>2. QED
      BY <1>5, <1>6, <3>1
  <2>3. QED
    BY <2>1, <2>2
<1>7. CASE FrameSizeEncode
  <2>1. Done /\ \E p : reply' = <<FRAME_SIZE, p>>
    BY <1>7 DEF FrameSizeEncode
  <2>2. QED
    BY <1>5, <1>7, <2>1
<1>8. CASE ScriptRunning \/ QueryFileStat \/ FrameDump
  <2>1. /\ cmd \in {SCRIPT_RUNNING, QUERY_FILE_STAT, FRAME_DUMP}
        /\ Parse("DISPATCH") /\ Done /\ reply'[1] = cmd
    BY <1>8 DEF ScriptRunning, QueryFileStat, FrameDump, Dispatch
  <2>2. cmd \notin FileCmds /\ cmd # VERIFYFILE
    BY <2>1 DEF FileCmds, SCRIPT_RUNNING, QUERY_FILE_STAT, FRAME_DUMP, CREATEFILE, WRITEFILE, VERIFYFILE
  <2>3. QED
    BY <1>1, <2>1, <2>2, OtherDone
<1>9. CASE ScriptReceived \/ OtherCommand \/ FbEnable
  <2>1. /\ cmd \in {SCRIPT_EXEC, FB_ENABLE} \/ cmd \notin Commands
        /\ Parse("DISPATCH") \/ ipc \in {"pause", "recv", "frame"}
        /\ Done /\ reply' = reply
    BY <1>9 DEF ScriptReceived, OtherCommand, FbEnable, Dispatch, Received, others
  <2>2. cmd \notin FileCmds
    <3>1. SCRIPT_EXEC \notin FileCmds /\ FB_ENABLE \notin FileCmds
      BY DEF FileCmds, SCRIPT_EXEC, FB_ENABLE, CREATEFILE, WRITEFILE, VERIFYFILE
    <3>2. QED
      BY <2>1, <3>1, CommandsAre
  <2>3. QED
    BY <1>1, <2>1, <2>2, OtherDone
<1>10. QED
  BY <1>3, <1>4, <1>6, <1>7, <1>8, <1>9


\* The steps of the board are carried out once each, as FileTransfer has them.
LEMMA BoardTransfer ==
  ASSUME TypeOK, ParserOK, HostOK, Steady, Steady', Told, ~refused, ~refused',
         CreateFile \/ CreateReceived \/ WriteFile \/ WriteReceived \/ VerifyFile
  PROVE  Told' /\ [Transfer!Next]_(Transfer!vars)
<1> DEFINE f == Head(expected)
<1>1. /\ UNCHANGED host /\ cmd \in FileCmds
      /\ Parse("DISPATCH") \/ ipc \in {"pause", "recv", "frame"}
  BY DEF CreateFile, CreateReceived, WriteFile, WriteReceived, VerifyFile, Dispatch, Received, FileCmds
<1>2. /\ expected # <<>> /\ expected \in Seq(Byte \X Byte) /\ f[1] = cmd
      /\ f \in FileFrames(expected) /\ reply = None
  BY <1>1, HandlerIn
<1>3. UNCHANGED <<transfer, sending, sent>>
  BY <1>1 DEF host
<1>4. /\ cmd = CREATEFILE => transfer = "created"
      /\ cmd = WRITEFILE => transfer = "written"
      /\ cmd = VERIFYFILE => transfer = "verify"
  BY <1>2 DEF Steady, Order
<1>5. Due /\ ~Approved /\ Stage = transfer /\ Stage' = transfer
  BY <1>2, <1>3, NoApproval DEF Due, Stage
<1>6. CASE CreateFile \/ WriteFile
  <2>1. Block("recv") /\ UNCHANGED <<errcode, file, card, reply>>
    BY <1>6, TransferWaits
  <2>2. QED
    BY <1>1, <2>1, OtherBlock
<1>7. ASSUME Done PROVE FileFrames(expected') = {} /\ Due' = FALSE
  <2>1. expected' = Tail(expected)
    BY <1>2, <1>7 DEF Done
  <2>2. QED
    BY <1>1, <1>2, <2>1, FramesDone DEF Steady, Order, Due
<1>8. ASSUME Done, transfer \in {"created", "written"} PROVE Transfer!Carry(transfer)
  BY <1>3, <1>5, <1>7, <1>8 DEF Transfer!Carry
<1>9. Flushed = Transfer!Closed
  BY DEF Flushed, Transfer!Closed
<1>10. CASE CreateReceived
  <2>1. cmd = CREATEFILE /\ Done /\ reply' = reply
    BY <1>10 DEF CreateReceived, Received
  <2>2. Transfer!Carry("created") /\ Approved' = Approved /\ transfer' = "created"
    BY <1>3, <1>4, <1>8, <2>1 DEF Approved
  <2>3. CASE file' = <<>> /\ card' = <<>> /\ errcode' = "none"
    <3>1. Transfer!Create
      BY <2>2, <2>3 DEF Transfer!Create
    <3>2. Told'
      BY <2>2, <2>3 DEF Told
    <3>3. QED
      BY <3>1, <3>2 DEF Transfer!Next
  <2>4. CASE file' = None /\ card' \in Flushed
    <3>1. Transfer!Create
      BY <1>9, <2>2, <2>4 DEF Transfer!Create, Transfer!Fail
    <3>2. Told'
      BY <2>2, <2>4 DEF Told
    <3>3. QED
      BY <3>1, <3>2 DEF Transfer!Next
  <2>5. QED
    BY <1>10, <2>3, <2>4 DEF CreateReceived
<1>11. CASE WriteReceived
  <2>1. cmd = WRITEFILE /\ Done /\ reply' = reply
    BY <1>11 DEF WriteReceived, Received
  <2>2. Transfer!Carry("written") /\ Approved' = Approved /\ transfer' = "written"
    BY <1>3, <1>4, <1>8, <2>1 DEF Approved
  <2>3. CASE errcode' = "none" /\ UNCHANGED card
    <3>1. FileIs(sent)'
      BY <1>7, <2>1, <2>2, <2>3 DEF Steady, FileOK
    <3>2. file' = SubSeq(Transfer!Content, 1, sent)
      BY <1>3, <3>1 DEF FileIs, Transfer!Content
    <3>3. Transfer!Write
      BY <2>2, <2>3, <3>2 DEF Transfer!Write
    <3>4. Told'
      BY <2>2, <2>3 DEF Told
    <3>5. QED
      BY <3>3, <3>4 DEF Transfer!Next
  <2>4. CASE file' = None /\ card' \in Flushed
    <3>1. Transfer!Write
      BY <1>9, <2>2, <2>4 DEF Transfer!Write, Transfer!Fail
    <3>2. Told'
      BY <2>2, <2>4 DEF Told
    <3>3. QED
      BY <3>1, <3>2 DEF Transfer!Next
  <2>5. QED
    BY <1>11, <2>3, <2>4 DEF WriteReceived
<1>12. CASE VerifyFile
  <2>1. cmd = VERIFYFILE /\ transfer' = "verify" /\ file' = None
    BY <1>3, <1>4, <1>12 DEF VerifyFile, Dispatch
  <2>2. file # None
    <3>1. ipc' # "crash"
      BY DEF Steady, FileOK
    <3>2. QED
      BY <1>12, <3>1 DEF VerifyFile, Block
  <2>3. Done /\ card' \in Flushed
    BY <1>12, <2>2 DEF VerifyFile
  <2>4. Transfer!Carry("verify")
    BY <1>3, <1>4, <1>5, <1>7, <2>1, <2>3 DEF Transfer!Carry
  <2>5. /\ Approved' \in BOOLEAN
        /\ Approved' => \E n \in 0..Len(card') : Digest(SubSeq(card', 1, n)) = Digest(Transfer!Content)
    <3>1. Approved' => Verifiable'
      BY DEF Steady, FileOK, Approved
    <3>2. Verifiable' => \E n \in 0..Len(card') : Digest(SubSeq(card', 1, n)) = Digest(Transfer!Content)
      BY <1>3 DEF Verifiable, Readable, Transfer!Content
    <3>3. Approved' \in BOOLEAN
      BY DEF Approved
    <3>4. QED
      BY <3>1, <3>2, <3>3
  <2>6. Transfer!Verify
    BY <1>9, <2>1, <2>2, <2>3, <2>4, <2>5 DEF Transfer!Verify, Transfer!Fail
  <2>7. Told'
    BY <2>1 DEF Told
  <2>8. QED
    BY <2>6, <2>7 DEF Transfer!Next
<1>13. QED
  BY <1>6, <1>10, <1>11, <1>12


\* A frame that the IDE sends is due if it is about the file.
LEMMA SendDue ==
  ASSUME TypeOK, Steady, ~refused, NEW c \in Byte, NEW n \in Byte, NEW g, Send(c, n, g),
         c \in FileCmds => FileFrames(expected) = {}
  PROVE  /\ FileFrames(expected') = IF c \in FileCmds THEN {<<c, n>>} ELSE FileFrames(expected)
         /\ UNCHANGED <<errcode, file, card, reply>> /\ ~refused'
         /\ Approved' = Approved
<1>1. /\ asked = None /\ expected' = Append(expected, <<c, n>>)
      /\ UNCHANGED <<reply, sv_file, refused>>
  BY DEF Send
<1>2. \A j \in DOMAIN expected : expected[j][1] \notin Asks
  BY <1>1, CommandsAre DEF Steady, Order
<1>3. /\ expected \in Seq(Byte \X Byte) /\ <<c, n>> \in Byte \X Byte /\ <<c, n>>[1] = c
      /\ OneFile(expected)
  BY DEF TypeOK, Steady, Order
<1>4. FileFrames(expected') = IF c \in FileCmds THEN {<<c, n>>} ELSE FileFrames(expected)
  BY <1>1, <1>2, <1>3, FramesSent
<1>5. QED
  BY <1>1, <1>4 DEF sv_file, Approved

\* The steps of the IDE: those about the file are steps of the transfer.
LEMMA IdeTransfer ==
  ASSUME TypeOK, HostOK, Steady, Told, ~refused, Ide
  PROVE  Told' /\ [Transfer!Next]_(Transfer!vars)
<1> DEFINE Goal == Told' /\ [Transfer!Next]_(Transfer!vars)
<1>1. ASSUME NEW c \in Byte \ FileCmds, NEW n \in Byte, NEW g, Send(c, n, g),
             UNCHANGED <<transfer, sending, sent>>
      PROVE  Goal
  BY <1>1, SendDue, TransferStays
<1>2. ASSUME NEW c \in FileCmds, NEW n \in Byte, NEW g, Send(c, n, g), transfer \in {"no", "open"}
      PROVE  /\ ~Due /\ Due' /\ UNCHANGED <<errcode, file, card>> /\ Approved' = Approved
             /\ Stage = transfer /\ Stage' = transfer' /\ FileFrames(expected') # {}
  <2>1. c \in Byte
    BY <1>2, CommandsAre DEF FileCmds, Byte, CREATEFILE, WRITEFILE, VERIFYFILE
  <2>2. FileFrames(expected) = {}
    BY <1>2, NoFileFrame DEF Steady
  <2>3. /\ FileFrames(expected') = {<<c, n>>} /\ UNCHANGED <<errcode, file, card>> /\ ~refused'
        /\ Approved' = Approved
    BY <1>2, <2>1, <2>2, SendDue
  <2>4. QED
    BY <2>2, <2>3 DEF Due, Stage
<1>3. ASSUME NEW c \in Asks \ {VERIFYFILE}, Ask(c) PROVE Goal
  <2>1. c \in Byte \ FileCmds /\ 0 \in Byte
    BY CommandsAre DEF Byte
  <2>2. Send(c, 0, <<Frame(c, 0)>>) /\ UNCHANGED <<transfer, sending, sent>>
    BY <1>3 DEF Ask
  <2>3. QED
    BY <1>1, <2>1, <2>2
<1>4. CASE AskRunning \/ AskSize \/ AskPicture \/ AskStat
  <2>1. /\ {SCRIPT_RUNNING, FRAME_SIZE, FRAME_DUMP, QUERY_FILE_STAT} \subseteq Asks \ {VERIFYFILE}
    BY DEF Asks, SCRIPT_RUNNING, FRAME_SIZE, FRAME_DUMP, QUERY_FILE_STAT, VERIFYFILE
  <2>2. QED
    BY <1>3, <1>4, <2>1 DEF AskRunning, AskSize, AskPicture, AskStat
<1>5. CASE SendScript
  <2>1. PICK t \in Scripts : SendPayload(SCRIPT_EXEC, t)
    BY <1>5 DEF SendScript
  <2>2. PICK g : Send(SCRIPT_EXEC, Len(t), g)
    BY <2>1 DEF SendPayload
  <2>3. SCRIPT_EXEC \in Byte \ FileCmds
    BY DEF Byte, FileCmds, SCRIPT_EXEC, CREATEFILE, WRITEFILE, VERIFYFILE
  <2>4. Len(t) \in Byte
    BY TextTypes
  <2>5. UNCHANGED <<transfer, sending, sent>>
    BY <1>5 DEF SendScript, host
  <2>6. QED
    BY <1>1, <2>2, <2>3, <2>4, <2>5
<1>6. CASE SendEnable
  <2>1. PICK g : Send(FB_ENABLE, 1, g)
    BY <1>6 DEF SendEnable
  <2>2. 1 \in Byte /\ FB_ENABLE \in Byte \ FileCmds /\ UNCHANGED <<transfer, sending, sent>>
    BY <1>6 DEF SendEnable, host, Byte, FileCmds, FB_ENABLE, CREATEFILE, WRITEFILE, VERIFYFILE
  <2>3. QED
    BY <1>1, <2>1, <2>2
<1>7. CASE AskVerify
  <2>1. /\ transfer = "open" /\ sent = Len(Contents[sending]) /\ transfer' = "verify"
        /\ Send(VERIFYFILE, 0, <<Frame(VERIFYFILE, 0)>>) /\ UNCHANGED <<sending, sent>>
    BY <1>7 DEF AskVerify
  <2>2. VERIFYFILE \in FileCmds /\ 0 \in Byte
    BY DEF FileCmds, Byte
  <2>3. /\ ~Due /\ Due' /\ UNCHANGED <<errcode, file, card>> /\ Approved' = Approved
        /\ Stage = transfer /\ Stage' = transfer'
    BY <1>2, <2>1, <2>2
  <2>4. Transfer!Check
    BY <2>1, <2>3 DEF Transfer!Check, Transfer!Content, Transfer!board
  <2>5. Told'
    BY <2>1 DEF Told
  <2>6. QED
    BY <2>4, <2>5 DEF Transfer!Next
<1>8. CASE SendCreate
  <2>1. /\ transfer = "no" /\ transfer' = "created" /\ sending' \in DOMAIN Contents /\ sent' = 0
        /\ SendPayload(CREATEFILE, Info(sending'))
    BY <1>8 DEF SendCreate
  <2>2. PICK g : Send(CREATEFILE, Len(Info(sending')), g)
    BY <2>1 DEF SendPayload
  <2>3. CREATEFILE \in FileCmds /\ Len(Info(sending')) \in Byte
    BY <2>1, TextTypes DEF FileCmds
  <2>4. /\ ~Due /\ Due' /\ UNCHANGED <<errcode, file, card>> /\ Approved' = Approved
        /\ Stage = transfer /\ Stage' = transfer' /\ FileFrames(expected') # {}
    BY <1>2, <2>1, <2>2, <2>3
  <2>5. Transfer!Begin
    BY <2>1, <2>4 DEF Transfer!Begin, Transfer!board
  <2>6. Told'
    BY <2>1, <2>4 DEF Told
  <2>7. QED
    BY <2>5, <2>6 DEF Transfer!Next
<1>9. CASE SendChunk
  <2>1. /\ transfer = "open" /\ sent < Len(Contents[sending]) /\ transfer' = "written"
        /\ sent' = IF sent + ChunkSize < Len(Contents[sending]) THEN sent + ChunkSize
                                                                ELSE Len(Contents[sending])
        /\ SendPayload(WRITEFILE, SubSeq(Contents[sending], sent + 1, sent')) /\ UNCHANGED sending
    BY <1>9 DEF SendChunk
  <2>2. PICK s : s = SubSeq(Contents[sending], sent + 1, sent')
    OBVIOUS
  <2>3. PICK g : Send(WRITEFILE, Len(s), g)
    BY <2>1, <2>2 DEF SendPayload
  <2>4. sending \in DOMAIN Contents /\ sent \in Nat
    BY <2>1 DEF HostOK, TypeOK
  <2>5. /\ sent' \in Nat /\ sent < sent' /\ sent' - sent <= ChunkSize /\ sent' <= Len(Contents[sending])
        /\ Len(s) \in Byte
    BY <2>1, <2>2, <2>4, ChunkIs
  <2>6. ChunkSize \in Nat /\ Len(Contents[sending]) \in Nat
    BY <2>4, FrameAssumption, ByteIsNat, TextTypes, LenProperties
  <2>7. sent' \in sent + 1..Len(Contents[sending]) /\ sent' <= sent + ChunkSize
    <3>1. \A a, b, c, d \in Nat : a < b /\ b - a <= c /\ b <= d => b \in a + 1..d /\ b <= a + c
      OBVIOUS
    <3>2. sent < sent' /\ sent' - sent <= ChunkSize /\ sent' <= Len(Contents[sending]) /\ sent' \in Nat
      BY <2>5
    <3>3. QED
      BY <2>4, <2>6, <3>1, <3>2, Zenon
  <2>8. WRITEFILE \in FileCmds
    BY DEF FileCmds
  <2>9. /\ ~Due /\ Due' /\ UNCHANGED <<errcode, file, card>> /\ Approved' = Approved
        /\ Stage = transfer /\ Stage' = transfer' /\ FileFrames(expected') # {}
    BY <1>2, <2>1, <2>3, <2>5, <2>8
  <2>10. Transfer!Chunk
    BY <2>1, <2>7, <2>9 DEF Transfer!Chunk, Transfer!Content, Transfer!board
  <2>11. Told'
    BY <2>1, <2>9 DEF Told
  <2>12. QED
    BY <2>10, <2>11 DEF Transfer!Next
<1>10. CASE Abandon
  <2>1. /\ UNCHANGED <<reply, file, card, sending, expected, refused>>
        /\ transfer = "open" /\ transfer' = "no" /\ sent' = 0
    BY <1>10 DEF Abandon, sv_file
  <2>2. ~Due /\ Due' = Due /\ Approved' = Approved /\ Stage = transfer /\ Stage' = transfer'
    BY <2>1, NoFileFrame DEF Steady, Due, Approved, Stage
  <2>3. Transfer!Abandon
    BY <2>1, <2>2 DEF Transfer!Abandon, Transfer!board
  <2>4. Told'
    BY <2>1 DEF Told
  <2>5. QED
    BY <2>3, <2>4 DEF Transfer!Next
<1>11. QED
  BY <1>4, <1>5, <1>6, <1>7, <1>8, <1>9, <1>10 DEF Ide

\* What the IDE makes of an answer is what FileTransfer has it learn.
LEMMA AnswerTransfer ==
  ASSUME TypeOK, HostOK, Steady, Steady', Told, ~refused, Answer
  PROVE  Told' /\ [Transfer!Next]_(Transfer!vars)
<1>1. /\ asked # None /\ reply # None /\ reply' = None
      /\ UNCHANGED <<errcode, file, card, sending, expected, refused>>
      /\ sent' = IF transfer' = "no" THEN 0 ELSE sent
  BY DEF Answer, sv_file
<1>2. reply[1] = asked /\ expected = <<>>
  BY <1>1 DEF Steady, Order
<1>3. FileFrames(expected) = {} /\ ~Due /\ Due' = Due
  <2>1. expected \in Seq(Byte \X Byte)
    BY DEF TypeOK
  <2>2. FileFrames(expected) = {}
    BY <1>2, <2>1, FileFramesAre
  <2>3. QED
    BY <1>1, <2>2 DEF Due
<1>4. Stage = transfer /\ Stage' = transfer' /\ ~Approved'
  BY <1>1, NoneIs DEF Stage, Approved
<1>5. CASE asked = QUERY_FILE_STAT
  <2>1. transfer \in {"created", "written"} /\ reply[2] = errcode
    BY <1>1, <1>5 DEF HostOK, Steady, FileOK
  <2>2. ~Approved /\ Approved' = Approved
    <3>1. QUERY_FILE_STAT # VERIFYFILE
      BY DEF QUERY_FILE_STAT, VERIFYFILE
    <3>2. ~Approved
      BY <1>2, <1>5, <3>1, NoApproval
    <3>3. QED
      BY <1>4, <3>2 DEF Approved
  <2>3. CASE reply[2] = "none"
    <3>1. transfer' = "open" /\ sent' = sent
      <4>1. transfer' = "open"
        BY <1>5, <2>3 DEF Answer, QUERY_FILE_STAT, VERIFYFILE
      <4>2. QED
        BY <1>1, <4>1
    <3>2. file = SubSeq(Transfer!Content, 1, sent)
      BY <1>3, <2>1, <2>3 DEF Steady, FileOK, FileIs, Transfer!Content
    <3>3. Transfer!Good
      BY <1>1, <1>3, <1>4, <2>1, <2>2, <3>1, <3>2 DEF Transfer!Good, Transfer!Begun, Transfer!board
    <3>4. Told'
      BY <3>1 DEF Told
    <3>5. QED
      BY <3>3, <3>4 DEF Transfer!Next
  <2>4. CASE reply[2] # "none"
    <3>1. transfer' = "no" /\ sent' = 0
      <4>1. transfer' = "no"
        BY <1>5, <2>4 DEF Answer, QUERY_FILE_STAT, VERIFYFILE
      <4>2. QED
        BY <1>1, <4>1
    <3>2. file = None
      BY <1>3, <2>1, <2>4 DEF Told
    <3>3. Transfer!Bad
      BY <1>1, <1>3, <1>4, <2>1, <2>2, <3>1, <3>2 DEF Transfer!Bad, Transfer!Begun, Transfer!board
    <3>4. Told'
      BY <3>1 DEF Told
    <3>5. QED
      BY <3>3, <3>4 DEF Transfer!Next
  <2>5. QED
    BY <2>3, <2>4
<1>6. CASE asked = VERIFYFILE
  <2>1. transfer = "verify" /\ transfer' = "no" /\ sent' = 0
    BY <1>1, <1>6 DEF HostOK, Answer, VERIFYFILE, QUERY_FILE_STAT
  <2>2. Transfer!Finish
    BY <1>1, <1>3, <1>4, <2>1 DEF Transfer!Finish, Transfer!board
  <2>3. Told'
    BY <2>1 DEF Told
  <2>4. QED
    BY <2>2, <2>3 DEF Transfer!Next
<1>7. CASE asked \notin {QUERY_FILE_STAT, VERIFYFILE}
  <2>1. transfer' = transfer
    BY <1>7 DEF Answer
  <2>2. sent' = sent
    BY <1>1, <2>1 DEF Told
  <2>3. ~Approved
    BY <1>2, <1>7, NoApproval
  <2>4. Approved' = Approved /\ ~refused' /\ FileFrames(expected') = FileFrames(expected)
    BY <1>1, <1>4, <2>3 DEF Approved
  <2>5. QED
    BY <1>1, <2>1, <2>2, <2>4, TransferStays
<1>8. QED
  BY <1>5, <1>6, <1>7

\* Every step is one of the transfer's, or none of its business.
LEMMA StepTransfers ==
  ASSUME IInv, IInv', ~refused => Told, [Next]_vars
  PROVE  (~refused' => Told') /\ [Transfer!Next]_(Transfer!vars)
<1>1. CASE refused'
  <2>1. Transfer!Upset
    BY <1>1 DEF Transfer!Upset, Stage
  <2>2. QED
    BY <1>1, <2>1 DEF Transfer!Next
<1>2. CASE ~refused'
  <2>1. ~refused /\ Told /\ TypeOK /\ ParserOK /\ HostOK /\ Steady /\ Steady'
    BY <1>2, RefusedStays DEF IInv
  <2>2. CASE UNCHANGED vars \/ Main
    <3>1. UNCHANGED <<transfer, sending, sent, errcode, file, card, expected, reply>>
      <4>1. CASE UNCHANGED vars
        BY <4>1 DEF vars, host, sv_file
      <4>2. CASE Main
        BY <4>2 DEF Main, host, sv_file, MainThread, ScriptStart, SetVoWbc, VoWbcInit, VoWbcDeinit,
          ScriptEnding, ScriptEnd, SetFb
      <4>3. QED
        BY <2>2, <4>1, <4>2
    <3>2. Approved' = Approved /\ FileFrames(expected') = FileFrames(expected)
      BY <3>1 DEF Approved
    <3>3. QED
      BY <1>2, <2>1, <3>1, <3>2, TransferStays
  <2>3. CASE IdeTask
    BY <1>2, <2>1, <2>3, OthersTransfer, BoardTransfer DEF IdeTask
  <2>4. CASE Ide
    <3>1. Told' /\ [Transfer!Next]_(Transfer!vars)
      BY <2>1, <2>4, IdeTransfer
    <3>2. QED
      BY <3>1
  <2>5. CASE Answer
    BY <2>1, <2>5, AnswerTransfer
  <2>6. QED
    BY <2>2, <2>3, <2>4, <2>5 DEF Next
<1>3. QED
  BY <1>1, <1>2

\* The commands of the IDE implement the file transfer of FileTransfer, for any
\* files, chunk sizes, digests and failures of the card, until a payload is left unread.
THEOREM TransferImplements == Spec => TransferSpec
<1>1. Init => Transfer!Init /\ (~refused => Told)
  <2>1. ASSUME Init PROVE Transfer!Init /\ Told
    <3>1. /\ expected = <<>> /\ refused = FALSE /\ transfer = "no" /\ sent = 0 /\ file = None
          /\ card = <<>> /\ reply = None
      BY <2>1 DEF Init
    <3>2. FileFrames(expected) = {}
      <4>1. expected \in Seq(Byte \X Byte)
        BY <3>1, EmptySeq
      <4>2. QED
        BY <3>1, <4>1, FileFramesAre
    <3>3. ~Approved
      BY <3>1, NoApproval
    <3>4. QED
      BY <3>1, <3>2, <3>3 DEF Transfer!Init, Stage, Due, Told
  <2>2. QED
    BY <2>1
<1>2. IInv /\ IInv' /\ (~refused => Told) /\ [Next]_vars
        => (~refused => Told)' /\ [Transfer!Next]_(Transfer!vars)
  BY StepTransfers
<1>3. QED
  BY <1>1, <1>2, Invariance, PTL DEF Spec, TransferSpec, Transfer!Spec
=============================================================================
