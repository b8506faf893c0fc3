-------------------------- MODULE IdeTxRingProofs ---------------------------
(***************************************************************************)
(* Theorems about the text ring, for any number of threads, any size of    *)
(* the ring and any bounds: it implements the stream of TxStream, loses    *)
(* only by the two known accidents, and the GIL keeps the room a thread    *)
(* has polled for.                                                         *)
(***************************************************************************)
EXTENDS IdeTxRing, SequenceTheorems, TLAPS

\* Which threads are in mpy_stdout_tx with the GIL, and which without: only the
\* main thread, in the last print of a session.
GilOK ==
  \A t \in Thread :
    /\ pc[t] \in {"poll", "copy", "drain"} => gil = t
    /\ pc[t] \in {"drain", "exit", "poll exit", "copy exit", "deinit"} => t = Main
    /\ pc[t] \in {"exit", "poll exit", "copy exit", "deinit"} => gil # t
    /\ pc[t] \in {"poll", "copy", "poll exit", "copy exit"} => size[t] > 0

\* What is in the ring has been written.
QueueOK == Queue \in Seq(1..MaxBytes)

IInv == TypeOK /\ GilOK /\ QueueOK /\ RoomKept /\ Lossless

-----------------------------------------------------------------------------
(* The ring                                                                *)

\* j slots after slot p.
Slot(p, j) == IF p + j < Size THEN p + j ELSE p + j - Size

\* The remainders the ring takes, without division.
LEMMA ModSize ==
  ASSUME NEW x \in Int, -Size <= x, x < Size + Size
  PROVE  x % Size = IF x < 0 THEN x + Size ELSE IF x < Size THEN x ELSE x - Size
<1>1. Size \in Int /\ Size > 0
  BY RingAssumption
<1>2. CASE x < 0
  BY <1>1, <1>2, SMTT(30)
<1>3. CASE 0 <= x /\ x < Size
  BY <1>1, <1>3, SMTT(30)
<1>4. CASE Size <= x
  BY <1>1, <1>4, SMTT(30)
<1>5. QED
  BY <1>1, <1>2, <1>3, <1>4

\* Slots that are less than a round away differ, and distances add up.
LEMMA SlotIs ==
  ASSUME NEW p \in 0..Size - 1, NEW r \in 0..Size - 1, NEW n \in 0..r
  PROVE  /\ \A x, y \in 0..Size - 1 : Slot(p, x) = Slot(p, y) => x = y
         /\ Slot(p, n) \in 0..Size - 1 /\ Slot(Slot(p, n), r - n) = Slot(p, r)
<1>1. Size \in Nat \ {0}
  BY RingAssumption
<1>2. \A x, y \in 0..Size - 1 : Slot(p, x) = Slot(p, y) => x = y
  BY <1>1 DEF Slot
<1>3. Slot(p, n) \in 0..Size - 1
  BY <1>1 DEF Slot
<1>4. Slot(Slot(p, n), r - n) = Slot(p, r)
  BY <1>1 DEF Slot
<1>5. QED
  BY <1>2, <1>3, <1>4

\* The readable bytes, and the pointer behind them.
RingShape ==
  /\ Readable \in 0..Size - 1 /\ tx_buf_w_ptr = Slot(tx_buf_r_ptr, Readable)
  /\ Queue = [i \in 1..Readable |-> tx_buf[Slot(tx_buf_r_ptr, i - 1)]]
  /\ Queue \in Seq(0..MaxBytes) /\ Len(Queue) = Readable

\* The ring is as long as Readable says, and starts at the read pointer.
LEMMA RingIs == TypeOK => RingShape
<1> SUFFICES ASSUME TypeOK PROVE RingShape
  OBVIOUS
<1>1. /\ Size \in Nat /\ tx_buf_w_ptr \in 0..Size - 1 /\ tx_buf_r_ptr \in 0..Size - 1
  BY RingAssumption DEF TypeOK
<1>2. Readable \in 0..Size - 1 /\ tx_buf_w_ptr = Slot(tx_buf_r_ptr, Readable)
  BY <1>1 DEF Readable, Slot
<1>3. \A i \in 1..Readable : (tx_buf_r_ptr + i - 1) % Size = Slot(tx_buf_r_ptr, i - 1)
  BY <1>1, <1>2, ModSize DEF Slot
<1>4. Queue = [i \in 1..Readable |-> tx_buf[Slot(tx_buf_r_ptr, i - 1)]]
  BY <1>3, Zenon DEF Queue, Bytes
<1>5. ASSUME NEW i \in 1..Readable PROVE tx_buf[Slot(tx_buf_r_ptr, i - 1)] \in 0..MaxBytes
  <2>1. Slot(tx_buf_r_ptr, i - 1) \in 0..Size - 1
    BY <1>1, <1>2 DEF Slot
  <2>2. QED
    BY <2>1 DEF TypeOK
<1> HIDE DEF Readable
<1>6. Queue \in Seq(0..MaxBytes) /\ Len(Queue) = Readable
  BY <1>2, <1>4, <1>5
<1>7. QED
  BY <1>2, <1>4, <1>6 DEF RingShape

\* The n bytes that RINGBUFFER_WRITE copies.
Fresh(n) == [i \in 1..n |-> written + i]

\* What RINGBUFFER_WRITE leaves in the ring: the old bytes and the new ones, but
\* for the oldest Size of them when they fill it.
LEMMA WriteRing ==
  ASSUME TypeOK, TypeOK', NEW n \in 0..Size, RingWrite(n)
  PROVE  LET q == Queue \o Fresh(n)
         IN  /\ Len(q) = Readable + n
             /\ Queue' = IF Len(q) < Size THEN q ELSE SubSeq(q, Size + 1, Len(q))
<1> DEFINE r == Readable
           q == Queue \o Fresh(n)
           p == tx_buf_r_ptr
           New(i) == tx_buf'[Slot(p, i - 1)]
<1>1. /\ Size \in Nat \ {0} /\ r \in 0..Size - 1 /\ n \in 0..Size /\ p \in 0..Size - 1
      /\ tx_buf_w_ptr = Slot(p, r) /\ tx_buf_r_ptr' = p /\ written \in Nat
      /\ tx_buf_w_ptr \in 0..Size - 1 /\ tx_buf_w_ptr' = Moved(tx_buf_w_ptr, n)
  <2>1. /\ tx_buf_w_ptr' = Moved(tx_buf_w_ptr, n) /\ tx_buf_r_ptr' = tx_buf_r_ptr
    BY Zenon DEF RingWrite
  <2>2. RingShape
    BY RingIs
  <2>3. /\ Size \in Nat \ {0} /\ tx_buf_r_ptr \in 0..Size - 1 /\ tx_buf_w_ptr \in 0..Size - 1
        /\ written \in Nat
    BY RingAssumption DEF TypeOK
  <2>4. QED
    BY <2>1, <2>2, <2>3, Zenon DEF RingShape
<1>2. Readable' = IF r + n < Size THEN r + n ELSE r + n - Size
  <2>1. Readable' = IF tx_buf_w_ptr' >= p THEN tx_buf_w_ptr' - p ELSE Size - p + tx_buf_w_ptr'
    BY <1>1 DEF Readable
  <2> HIDE DEF r, p
  <2>2. QED
    BY <1>1, <2>1 DEF Moved, Slot
<1>3. /\ Len(q) = r + n /\ q \in Seq(Int)
      /\ \A i \in 1..r : q[i] = tx_buf[Slot(p, i - 1)]
      /\ \A i \in (r + 1)..(r + n) : q[i] = written + i - r
  <2>1. RingShape
    BY RingIs
  <2>2. MaxBytes \in Nat
    BY RingAssumption
  <2>3. Queue \in Seq(Int) /\ Len(Queue) = r
    BY <2>1, <2>2 DEF RingShape
  <2>4. Fresh(n) \in Seq(Int) /\ Len(Fresh(n)) = n /\ \A i \in 1..n : Fresh(n)[i] = written + i
    BY <1>1 DEF Fresh
  <2>5. /\ q \in Seq(Int) /\ Len(q) = Len(Queue) + Len(Fresh(n))
        /\ \A i \in 1..Len(Queue) + Len(Fresh(n)) :
              q[i] = IF i <= Len(Queue) THEN Queue[i] ELSE Fresh(n)[i - Len(Queue)]
    BY <2>3, <2>4, ConcatProperties
  <2> HIDE DEF q
  <2>6. \A i \in 1..r : q[i] = Queue[i]
    BY <1>1, <2>3, <2>4, <2>5
  <2>7. \A i \in (r + 1)..(r + n) : q[i] = Fresh(n)[i - r] /\ i - r \in 1..n
    BY <1>1, <2>3, <2>4, <2>5
  <2>8. \A i \in 1..r : Queue[i] = tx_buf[Slot(p, i - 1)]
    BY <2>1 DEF RingShape
  <2>9. \A i \in (r + 1)..(r + n) : Fresh(n)[i - r] = written + (i - r)
    BY <2>4, <2>7
  <2>10. Len(q) = r + n /\ q \in Seq(Int)
    BY <2>3, <2>4, <2>5
  <2> HIDE DEF r
  <2>11. \A i \in (r + 1)..(r + n) : written + (i - r) = written + i - r
    BY <1>1
  <2>12. QED
    BY <2>6, <2>7, <2>8, <2>9, <2>10, <2>11
<1>4. ASSUME NEW j \in 0..Size - 1
      PROVE  tx_buf'[Slot(p, j)] = LET k == IF j >= r THEN j - r ELSE j - r + Size
                                   IN  IF k < n THEN written + k + 1 ELSE tx_buf[Slot(p, j)]
  <2>1. Slot(p, j) \in 0..Size - 1
    BY <1>1 DEF Slot
  <2>2. (Slot(p, j) - tx_buf_w_ptr) % Size = IF j >= r THEN j - r ELSE j - r + Size
    <3>1. Slot(p, j) - tx_buf_w_ptr \in Int /\ -Size <= Slot(p, j) - tx_buf_w_ptr
          /\ Slot(p, j) - tx_buf_w_ptr < Size + Size
      BY <1>1, <2>1
    <3> DEFINE x == Slot(p, j) - tx_buf_w_ptr
    <3>2. x % Size = IF x < 0 THEN x + Size ELSE IF x < Size THEN x ELSE x - Size
      BY <3>1, ModSize
    <3> HIDE DEF r
    <3>3. x = Slot(p, j) - Slot(p, r)
      BY <1>1
    <3>4. QED
      BY <1>1, <3>2, <3>3 DEF Slot
  <2>3. QED
    BY <2>1, <2>2 DEF RingWrite
<1>5. Queue' = [i \in 1..Readable' |-> New(i)] /\ Readable' \in 0..Size - 1
  <2>1. RingShape'
    BY RingIs, PTL
  <2>2. QED
    BY <1>1, <2>1 DEF RingShape, Slot
<1> HIDE DEF q, r, p
<1>6. CASE r + n < Size
  <2>1. \A i \in 1..(r + n) : New(i) = q[i]
    <3> SUFFICES ASSUME NEW i \in 1..(r + n) PROVE New(i) = q[i]
      OBVIOUS
    <3>1. i - 1 \in 0..Size - 1 /\ i \in Int
      BY <1>1, <1>6
    <3>2. QED
      BY <1>1, <1>3, <1>4, <1>6, <3>1
  <2> HIDE DEF New
  <2>2. Queue' = [i \in 1..(r + n) |-> q[i]]
    BY <1>2, <1>5, <1>6, <2>1
  <2>3. q = [i \in 1..(r + n) |-> q[i]]
    BY <1>3, LenProperties
  <2>4. QED
    BY <1>3, <1>6, <2>2, <2>3 DEF q, r
<1>7. CASE r + n >= Size
  <2> DEFINE m == r + n - Size
             u == SubSeq(q, Size + 1, r + n)
  <2>1. ASSUME NEW i \in 1..m PROVE New(i) = q[Size + i]
    <3>1. i - 1 \in 0..Size - 1 /\ i \in Int /\ i <= r /\ Size + i \in (r + 1)..(r + n)
      BY <1>1, <1>7, <2>1
    <3>2. QED
      BY <1>1, <1>3, <1>4, <1>7, <3>1
  <2> HIDE DEF New
  <2>2. u = [i \in 1..m |-> q[Size + i]]
    <3>1. Size + 1 \in Int /\ r + n \in Int /\ m = (r + n) - (Size + 1) + 1
      BY <1>1
    <3>2. u = [i \in 1..m |-> q[Size + 1 + i - 1]]
      <4>1. Size + 1 \in 1..Len(q) + 1 /\ r + n \in Size..Len(q)
        BY <1>1, <1>3, <1>7
      <4>2. /\ u \in Seq(Int) /\ Len(u) = m
            /\ \A i \in 1..m : u[i] = q[Size + 1 + i - 1]
        <5>1. \A i \in 1..Len(q) : q[i] \in Int
          BY <1>3, ElementOfSeq
        <5>2. \A i \in (Size + 1)..(r + n) : i \in 1..Len(q)
          BY <1>1, <1>3
        <5>3. /\ u \in Seq(Int)
              /\ Len(u) = IF Size + 1 <= r + n THEN (r + n) - (Size + 1) + 1 ELSE 0
              /\ \A i \in 1..(r + n) - (Size + 1) + 1 : u[i] = q[Size + 1 + i - 1]
          BY <3>1, <5>1, <5>2, SubSeqProperties
        <5>4. m = IF Size + 1 <= r + n THEN (r + n) - (Size + 1) + 1 ELSE 0
          BY <1>1, <1>7
        <5> HIDE DEF u, m
        <5>5. QED
          BY <3>1, <5>3, <5>4
      <4> HIDE DEF u, m
      <4>3. u = [i \in 1..m |-> u[i]]
        BY <4>2, LenProperties
      <4>4. QED
        BY <4>2, <4>3
    <3>3. \A i \in 1..m : Size + 1 + i - 1 = Size + i
      BY <1>1
    <3>4. QED
      BY <3>2, <3>3
  <2>3. Readable' = m
    BY <1>1, <1>2, <1>7
  <2>4. Queue' = u
    BY <1>5, <2>1, <2>2, <2>3
  <2>5. ~(r + n < Size)
    BY <1>1, <1>7
  <2>6. QED
    BY <1>3, <2>4, <2>5 DEF q, r
<1>8. r + n < Size \/ r + n >= Size
  BY <1>1
<1>9. QED
  BY <1>6, <1>7, <1>8

\* TX_BUF with n bytes: it hands over the first of the ring and keeps the rest.
Take(n) ==
  /\ got' = got \o Bytes(tx_buf_r_ptr, n)
  /\ tx_buf_r_ptr' = Moved(tx_buf_r_ptr, n)
  /\ UNCHANGED <<tx_buf, tx_buf_w_ptr, written>>

\* TX_BUF hands over the first bytes of the ring.
LEMMA ReadBytes ==
  ASSUME TypeOK, NEW n \in 1..Readable
  PROVE  Bytes(tx_buf_r_ptr, n) = SubSeq(Queue, 1, n)
<1> DEFINE r == Readable
<1>1. RingShape /\ r \in 0..Size - 1 /\ n \in 1..r /\ tx_buf_r_ptr \in 0..Size - 1
  BY RingIs DEF RingShape, TypeOK
<1>2. Size \in Nat \ {0}
  BY RingAssumption
<1> HIDE DEF r
<1>3. \A i \in 1..n : (tx_buf_r_ptr + i - 1) % Size = Slot(tx_buf_r_ptr, i - 1)
  BY <1>1, <1>2, ModSize DEF Slot
<1>4. /\ \A i \in 1..r : Queue[i] = tx_buf[Slot(tx_buf_r_ptr, i - 1)]
      /\ Queue \in Seq(0..MaxBytes) /\ Len(Queue) = r
  BY <1>1 DEF RingShape, r
<1>5. n \in Int /\ \A i \in 1..n : i \in 1..r /\ Queue[i] \in 0..MaxBytes
  <2>1. \A i \in 1..r : Queue[i] \in 0..MaxBytes
    BY <1>4, ElementOfSeq
  <2>2. QED
    BY <1>1, <1>2, <2>1
<1>6. Bytes(tx_buf_r_ptr, n) = [i \in 1..n |-> Queue[i]]
  <2>1. \A i \in 1..n : tx_buf[(tx_buf_r_ptr + i - 1) % Size] = Queue[i]
    BY <1>3, <1>4, <1>5
  <2>2. QED
    BY <2>1, Zenon DEF Bytes
<1> DEFINE u == SubSeq(Queue, 1, n)
<1>7. u \in Seq(0..MaxBytes) /\ Len(u) = n /\ \A i \in 1..n : u[i] = Queue[1 + i - 1]
  BY <1>1, <1>5, SubSeqProperties
<1> HIDE DEF u
<1>8. u = [i \in 1..n |-> u[i]]
  BY <1>7, LenProperties
<1>9. \A i \in 1..n : 1 + i - 1 = i
  BY <1>5
<1>10. QED
  BY <1>6, <1>7, <1>8, <1>9 DEF u

\* What TX_BUF leaves in the ring: the bytes behind those it has handed over.
LEMMA ReadRing ==
  ASSUME TypeOK, TypeOK', NEW n \in 1..Readable, Take(n)
  PROVE  Queue' = SubSeq(Queue, n + 1, Len(Queue))
<1> DEFINE r == Readable
           p == tx_buf_r_ptr
<1>1. /\ RingShape /\ r \in 0..Size - 1 /\ n \in 1..r /\ p \in 0..Size - 1
      /\ tx_buf_w_ptr = Slot(p, r)
  BY RingIs DEF RingShape, TypeOK
<1>2. Size \in Nat \ {0}
  BY RingAssumption
<1>3. /\ tx_buf' = tx_buf /\ tx_buf_w_ptr' = tx_buf_w_ptr /\ tx_buf_r_ptr' = Slot(p, n)
      /\ tx_buf_r_ptr' \in 0..Size - 1
  <2>1. tx_buf_r_ptr' = Moved(tx_buf_r_ptr, n)
    BY DEF Take
  <2> HIDE DEF r
  <2>2. Moved(p, n) = Slot(p, n)
    BY <1>1, <1>2 DEF Moved, Slot
  <2>3. QED
    BY <2>1, <2>2 DEF Take, TypeOK
<1>4. RingShape'
  BY RingIs, PTL
<1>5. Readable' = r - n
  <2>1. Readable' \in 0..Size - 1 /\ tx_buf_w_ptr' = Slot(tx_buf_r_ptr', Readable')
    BY <1>4 DEF RingShape, Slot
  <2> HIDE DEF r, p
  <2>2. Slot(p, r) = Slot(Slot(p, n), Readable')
    BY <1>1, <1>3, <2>1
  <2>3. Slot(Slot(p, n), r - n) = Slot(p, r) /\ Slot(p, n) \in 0..Size - 1 /\ n \in 0..r
    BY <1>1, <1>2, SlotIs
  <2>4. r - n \in 0..Size - 1
    BY <1>1, <1>2
  <2>5. QED
    BY <1>2, <2>1, <2>2, <2>3, <2>4, SlotIs
<1>6. /\ \A i \in 1..r : Queue[i] = tx_buf[Slot(p, i - 1)]
      /\ Queue \in Seq(0..MaxBytes) /\ Len(Queue) = r
  BY <1>1 DEF RingShape
<1>7. Queue' = [i \in 1..Readable' |-> tx_buf[Slot(tx_buf_r_ptr', i - 1)]]
  BY <1>3, <1>4 DEF RingShape, Slot
<1> HIDE DEF r, p
<1>8. Queue' = [i \in 1..(r - n) |-> Queue[n + i]]
  <2>1. ASSUME NEW i \in 1..(r - n) PROVE tx_buf[Slot(tx_buf_r_ptr', i - 1)] = Queue[n + i]
    <3>1. n + i \in 1..r /\ Slot(Slot(p, n), i - 1) = Slot(p, (n + i) - 1)
      BY <1>1, <1>2, <2>1 DEF Slot
    <3>2. QED
      BY <1>3, <1>6, <3>1
  <2>2. QED
    BY <1>5, <1>7, <2>1
<1> DEFINE u == SubSeq(Queue, n + 1, r)
<1>9. u \in Seq(0..MaxBytes) /\ Len(u) = r - n /\ \A i \in 1..(r - n) : u[i] = Queue[(n + 1) + i - 1]
  <2>1. /\ n + 1 \in Int /\ r \in Int /\ r - (n + 1) + 1 = r - n /\ (n + 1 > r => r - n = 0)
    BY <1>1, <1>2
  <2>2. \A i \in 1..r : Queue[i] \in 0..MaxBytes
    BY <1>6, ElementOfSeq
  <2>3. \A i \in (n + 1)..r : Queue[i] \in 0..MaxBytes
    BY <1>1, <1>2, <2>2
  <2>4. QED
    BY <2>1, <2>3, SubSeqProperties
<1> HIDE DEF u
<1>10. u = [i \in 1..(r - n) |-> u[i]]
  BY <1>9, LenProperties
<1>11. \A i \in 1..(r - n) : (n + 1) + i - 1 = n + i
  BY <1>1
<1>12. QED
  BY <1>6, <1>8, <1>9, <1>10, <1>11 DEF u

-----------------------------------------------------------------------------
(* The steps                                                               *)

\* Every step writes to the ring, reads from it or leaves it alone; a write
\* into room that is not there is recorded.
WriteStep(n) ==
  /\ RingWrite(n) /\ written + n <= MaxBytes
  /\ n <= Writable \/ raced'

\* The steps of the threads and of the IDE task, seen from the ring.
LEMMA RingSteps ==
  ASSUME TypeOK, GilOK, [Next]_vars
  PROVE  /\ raced => raced'
         /\ \/ \E n \in 1..Size : WriteStep(n)
            \/ (\E n \in 1..Readable : Take(n)) /\ filled' = filled
            \/ UNCHANGED <<ring, written, got, filled>>
<1>1. Size \in Nat /\ Readable \in Nat /\ RingShape
  BY RingAssumption, RingIs DEF RingShape
<1>2. ASSUME NEW t \in Thread, NEW n \in 1..Size, MpyStdoutTx(t, n)
      PROVE  raced' = raced /\ (WriteStep(n) \/ UNCHANGED <<ring, written, got, filled>>)
  <2>1. CASE n > Writable
    BY <1>2, <2>1, Zenon DEF MpyStdoutTx, hist
  <2>2. CASE ~(n > Writable)
    <3>1. n <= Writable
      BY <1>1, <2>2 DEF TypeOK, Writable
    <3>2. RingWrite(n) /\ raced' = raced /\ written + n <= MaxBytes
      BY <1>2, <2>2, Zenon DEF MpyStdoutTx
    <3>3. QED
      BY <3>1, <3>2 DEF WriteStep
  <2>3. QED
    BY <2>1, <2>2
<1>3. ASSUME NEW t \in Thread, Copy(t)
      PROVE  (raced => raced') /\ size[t] \in 1..Size /\ WriteStep(size[t])
  <2>1. size[t] \in 1..Size
    <3>1. size[t] \in 0..Size /\ size[t] > 0
      BY <1>3 DEF Copy, GilOK, TypeOK
    <3>2. QED
      BY <1>1, <3>1
  <2>2. /\ RingWrite(size[t]) /\ written + size[t] <= MaxBytes
        /\ raced' = (raced \/ size[t] > Writable)
    BY <1>3, Zenon DEF Copy
  <2>3. size[t] <= Writable \/ raced'
    <3>1. Writable \in Int /\ size[t] \in Int
      BY <1>1, <2>1 DEF TypeOK, Writable
    <3>2. size[t] <= Writable \/ size[t] > Writable
      BY <3>1
    <3>3. QED
      BY <2>2, <3>2
  <2>4. QED
    BY <2>1, <2>2, <2>3 DEF WriteStep
<1>4. ASSUME NEW n \in 1..Size, TxBuf(n)
      PROVE  raced' = raced /\ filled' = filled /\ \E m \in 1..Readable : Take(m)
  <2> DEFINE len == IF Readable > n THEN n ELSE Readable
  <2>1. len \in 1..Readable
    BY <1>1, <1>4 DEF TxBuf
  <2>2. Take(len) /\ raced' = raced /\ filled' = filled
    BY <1>4, Zenon DEF TxBuf, Take
  <2>3. QED
    BY <2>1, <2>2
<1>5. ASSUME \/ \E t \in Thread : Poll(t) \/ GilEnter(t) \/ GilExit(t)
             \/ ScriptEnd \/ DrainPoll \/ DrainEnd \/ SoftReset \/ UNCHANGED vars
      PROVE  raced' = raced /\ UNCHANGED <<ring, written, got, filled>>
  BY <1>5, Zenon DEF Poll, GilEnter, GilExit, ScriptEnd, DrainPoll, DrainEnd, SoftReset, vars, hist
<1>6. QED
  BY <1>2, <1>3, <1>4, <1>5 DEF Next

\* A write keeps the pointers in the ring and the bytes in their range.
LEMMA WriteType ==
  ASSUME TypeOK, NEW n \in 1..Size, RingWrite(n), written + n <= MaxBytes
  PROVE  /\ tx_buf' \in [0..Size - 1 -> 0..MaxBytes]
         /\ tx_buf_w_ptr' \in 0..Size - 1 /\ tx_buf_r_ptr' \in 0..Size - 1
         /\ written' \in 0..MaxBytes /\ got' \in Seq(1..MaxBytes)
         /\ filled' \in BOOLEAN
<1>1. /\ Size \in Nat \ {0} /\ MaxBytes \in Nat /\ n \in 1..Size /\ written \in 0..MaxBytes
      /\ tx_buf_w_ptr \in 0..Size - 1
  BY RingAssumption DEF TypeOK
<1>2. ASSUME NEW i \in 0..Size - 1
      PROVE  (IF (i - tx_buf_w_ptr) % Size < n THEN written + ((i - tx_buf_w_ptr) % Size) + 1
              ELSE tx_buf[i]) \in 0..MaxBytes
  <2> DEFINE k == (i - tx_buf_w_ptr) % Size
  <2>1. k \in 0..Size - 1
    <3>1. /\ i - tx_buf_w_ptr \in Int /\ -Size <= i - tx_buf_w_ptr
          /\ i - tx_buf_w_ptr < Size + Size
      BY <1>1
    <3>2. k = IF i - tx_buf_w_ptr < 0 THEN i - tx_buf_w_ptr + Size
              ELSE IF i - tx_buf_w_ptr < Size THEN i - tx_buf_w_ptr ELSE i - tx_buf_w_ptr - Size
      BY <3>1, ModSize
    <3> HIDE DEF k
    <3>3. QED
      BY <1>1, <3>2
  <2>2. tx_buf[i] \in 0..MaxBytes
    BY DEF TypeOK
  <2> HIDE DEF k
  <2>3. (IF k < n THEN written + k + 1 ELSE tx_buf[i]) \in 0..MaxBytes
    BY <1>1, <2>1, <2>2
  <2>4. QED
    BY <2>3, Zenon DEF k
<1>3. tx_buf' \in [0..Size - 1 -> 0..MaxBytes]
  <2>1. tx_buf' = [i \in 0..Size - 1 |->
                     IF (i - tx_buf_w_ptr) % Size < n
                     THEN written + ((i - tx_buf_w_ptr) % Size) + 1 ELSE tx_buf[i]]
    BY Zenon DEF RingWrite
  <2>2. QED
    BY <1>2, <2>1, Zenon
<1>4. tx_buf_w_ptr' \in 0..Size - 1
  <2>1. tx_buf_w_ptr' = Moved(tx_buf_w_ptr, n)
    BY Zenon DEF RingWrite
  <2>2. QED
    BY <1>1, <2>1 DEF Moved
<1>5. written' = written + n /\ filled' = (filled \/ n = Size - Readable)
      /\ UNCHANGED <<tx_buf_r_ptr, got>>
  BY Zenon DEF RingWrite
<1>6. written' \in 0..MaxBytes
  BY <1>1, <1>5
<1>7. filled' \in BOOLEAN /\ tx_buf_r_ptr' \in 0..Size - 1 /\ got' \in Seq(1..MaxBytes)
  BY <1>5 DEF TypeOK
<1>8. QED
  BY <1>3, <1>4, <1>6, <1>7

\* A read keeps its pointer in the ring, and the IDE gets what was written.
LEMMA TakeType ==
  ASSUME TypeOK, QueueOK, NEW n \in 1..Readable, Take(n)
  PROVE  tx_buf_r_ptr' \in 0..Size - 1 /\ got' \in Seq(1..MaxBytes)
<1>1. Size \in Nat \ {0} /\ Readable \in 0..Size - 1 /\ RingShape
  BY RingAssumption, RingIs DEF RingShape
<1>2. tx_buf_r_ptr' \in 0..Size - 1
  <2>1. tx_buf_r_ptr' = Moved(tx_buf_r_ptr, n) /\ tx_buf_r_ptr \in 0..Size - 1
    BY DEF Take, TypeOK
  <2>2. n \in 1..Size - 1
    BY <1>1
  <2>3. QED
    BY <1>1, <2>1, <2>2 DEF Moved
<1>3. SubSeq(Queue, 1, n) \in Seq(1..MaxBytes)
  <2>1. Queue \in Seq(1..MaxBytes) /\ Len(Queue) = Readable
    BY <1>1 DEF QueueOK, RingShape
  <2>2. \A i \in 1..Readable : Queue[i] \in 1..MaxBytes
    BY <2>1, ElementOfSeq
  <2>3. n \in Int /\ \A i \in 1..n : i \in 1..Readable
    BY <1>1
  <2>4. QED
    BY <2>2, <2>3, SubSeqProperties
<1>4. got' = got \o SubSeq(Queue, 1, n)
  BY ReadBytes DEF Take
<1>5. QED
  BY <1>2, <1>3, <1>4, ConcatProperties DEF TypeOK

\* Every step keeps the types; got needs QueueOK, for the ring starts with zeros.
LEMMA TypeKeeps == TypeOK /\ GilOK /\ QueueOK /\ [Next]_vars => TypeOK'
<1> SUFFICES ASSUME TypeOK, GilOK, QueueOK, [Next]_vars PROVE TypeOK'
  OBVIOUS
<1>1. Size \in Nat /\ Main \in Thread /\ MaxPolls \in Nat \ {0}
  BY RingAssumption DEF Thread
\* the ring and the histories
<1>2. /\ tx_buf' \in [0..Size - 1 -> 0..MaxBytes]
      /\ tx_buf_w_ptr' \in 0..Size - 1 /\ tx_buf_r_ptr' \in 0..Size - 1
      /\ written' \in 0..MaxBytes /\ got' \in Seq(1..MaxBytes) /\ filled' \in BOOLEAN
  <2>1. CASE \E n \in 1..Size : WriteStep(n)
    BY <2>1, WriteType, Zenon DEF WriteStep
  <2>2. CASE (\E n \in 1..Readable : Take(n)) /\ filled' = filled
    BY <2>2, TakeType, Zenon DEF Take, TypeOK
  <2>3. CASE UNCHANGED <<ring, written, got, filled>>
    BY <2>3 DEF ring, TypeOK
  <2>4. QED
    BY <2>1, <2>2, <2>3, RingSteps
\* the rest
<1> DEFINE Rest == /\ pc' \in [Thread -> PC] /\ size' \in [Thread -> 0..Size]
                   /\ gil' \in Thread \cup {NoThread}
                   /\ polls' \in 0..MaxPolls /\ quiet' \in BOOLEAN
                   /\ raced' \in BOOLEAN
<1>3. /\ pc \in [Thread -> PC] /\ size \in [Thread -> 0..Size] /\ gil \in Thread \cup {NoThread}
      /\ polls \in 0..MaxPolls /\ quiet \in BOOLEAN /\ raced \in BOOLEAN
  BY DEF TypeOK
<1>4. ASSUME NEW t \in Thread, NEW n \in 1..Size, MpyStdoutTx(t, n) PROVE Rest
  <2>1. n \in 0..Size
    BY <1>1
  <2>2. gil' = gil /\ polls' = polls /\ quiet' = quiet /\ raced' = raced
    BY <1>4, Zenon DEF MpyStdoutTx, hist
  <2>3. pc' \in [Thread -> PC] /\ size' \in [Thread -> 0..Size]
    <3>1. CASE n > Writable
      BY <1>3, <1>4, <2>1, <3>1 DEF MpyStdoutTx, PC
    <3>2. CASE ~(n > Writable)
      BY <1>3, <1>4, <3>2 DEF MpyStdoutTx, Returned, PC
    <3>3. QED
      BY <3>1, <3>2
  <2>4. QED
    BY <1>3, <2>2, <2>3
<1>5. ASSUME NEW t \in Thread, Copy(t) PROVE Rest
  BY <1>3, <1>5 DEF Copy, Returned, PC
<1>6. ASSUME NEW t \in Thread, Poll(t) PROVE Rest
  BY <1>3, <1>6 DEF Poll, PC, hist
<1>7. ASSUME NEW t \in Thread, GilEnter(t) \/ GilExit(t) PROVE Rest
  BY <1>3, <1>7 DEF GilEnter, GilExit, hist
<1>8. ASSUME NEW n \in 1..Size, TxBuf(n) PROVE Rest
  BY <1>3, <1>8 DEF TxBuf
<1>9. ASSUME ScriptEnd \/ DrainPoll \/ DrainEnd \/ SoftReset PROVE Rest
  <2>1. raced' = raced /\ size' = size
    BY <1>9, Zenon DEF ScriptEnd, DrainPoll, DrainEnd, SoftReset, hist
  <2>2. quiet' \in BOOLEAN
    <3>1. quiet' = FALSE \/ quiet' = quiet \/ quiet' = (tx_buf_w_ptr = tx_buf_r_ptr)
      BY <1>9, Zenon DEF ScriptEnd, DrainPoll, DrainEnd, SoftReset
    <3>2. QED
      BY <1>3, <3>1
  <2>3. pc' \in [Thread -> PC] /\ gil' \in Thread \cup {NoThread} /\ polls' \in 0..MaxPolls
    <3>1. CASE ScriptEnd
      <4>1. pc' = [pc EXCEPT ![Main] = "drain"] /\ gil' = gil /\ polls' = 0
        BY <3>1, Zenon DEF ScriptEnd
      <4>2. polls' \in 0..MaxPolls
        BY <1>1, <4>1
      <4>3. pc' \in [Thread -> PC]
        BY <1>1, <1>3, <4>1 DEF PC
      <4>4. QED
        BY <1>3, <4>1, <4>2, <4>3
    <3>2. CASE DrainPoll
      <4>1. pc' = pc /\ gil' = gil /\ polls' = polls + 1 /\ polls < MaxPolls
        BY <3>2, Zenon DEF DrainPoll
      <4>2. QED
        BY <1>1, <1>3, <4>1
    <3>3. CASE DrainEnd
      BY <1>1, <1>3, <3>3 DEF DrainEnd, PC
    <3>4. CASE SoftReset
      BY <1>1, <1>3, <3>4 DEF SoftReset, PC
    <3>5. QED
      BY <1>9, <3>1, <3>2, <3>3, <3>4
  <2>4. QED
    BY <1>3, <2>1, <2>2, <2>3, Zenon
<1>10. ASSUME UNCHANGED vars PROVE Rest
  <2>1. /\ pc' = pc /\ size' = size /\ gil' = gil /\ polls' = polls /\ quiet' = quiet
        /\ raced' = raced
    BY <1>10, Zenon DEF vars, hist
  <2>2. QED
    BY <1>3, <2>1, Zenon
<1> HIDE DEF Rest
<1>11. QED
  <2>1. Rest
    BY <1>4, <1>5, <1>6, <1>7, <1>8, <1>9, <1>10 DEF Next
  <2>2. QED
    BY <1>2, <2>1 DEF TypeOK, Rest

\* Every step keeps the GIL with the thread that prints, but for the last line.
LEMMA GilKeeps == TypeOK /\ GilOK /\ [Next]_vars => GilOK'
<1> SUFFICES ASSUME TypeOK, GilOK, [Next]_vars PROVE GilOK'
  OBVIOUS
<1>1. Size \in Nat /\ Main \in Thread /\ NoThread \notin Thread
  BY RingAssumption DEF Thread
<1>2. pc \in [Thread -> PC] /\ size \in [Thread -> 0..Size] /\ gil \in Thread \cup {NoThread}
  BY DEF TypeOK
<1>3. ASSUME NEW t \in Thread, NEW n \in 1..Size, MpyStdoutTx(t, n) PROVE GilOK'
  <2>1. n > 0 /\ gil' = gil
    <3>1. gil' = gil
      BY <1>3, Zenon DEF MpyStdoutTx
    <3>2. QED
      BY <1>1, <3>1
  <2>2. CASE n > Writable
    BY <1>1, <1>2, <1>3, <2>1, <2>2 DEF MpyStdoutTx, MayPrint, GilOK
  <2>3. CASE ~(n > Writable)
    BY <1>1, <1>2, <1>3, <2>1, <2>3 DEF MpyStdoutTx, MayPrint, Returned, GilOK
  <2>4. QED
    BY <2>2, <2>3
<1>4. ASSUME NEW t \in Thread, Copy(t) PROVE GilOK'
  BY <1>1, <1>2, <1>4 DEF Copy, Returned, GilOK
<1>5. ASSUME NEW t \in Thread, Poll(t) PROVE GilOK'
  BY <1>1, <1>2, <1>5 DEF Poll, GilOK
<1>6. ASSUME NEW t \in Thread, GilEnter(t) \/ GilExit(t) PROVE GilOK'
  BY <1>1, <1>2, <1>6 DEF GilEnter, GilExit, GilOK
<1>7. ASSUME NEW n \in 1..Size, TxBuf(n) PROVE GilOK'
  BY <1>7 DEF TxBuf, GilOK
<1>8. CASE ScriptEnd \/ DrainPoll \/ DrainEnd \/ SoftReset
  <2>1. CASE ScriptEnd
    BY <1>1, <1>2, <2>1 DEF ScriptEnd, GilOK
  <2>2. CASE DrainPoll
    BY <2>2 DEF DrainPoll, GilOK
  <2>3. CASE DrainEnd
    BY <1>1, <1>2, <2>3 DEF DrainEnd, GilOK
  <2>4. CASE SoftReset
    BY <1>1, <1>2, <2>4 DEF SoftReset, GilOK
  <2>5. QED
    BY <1>8, <2>1, <2>2, <2>3, <2>4
<1>9. CASE UNCHANGED vars
  BY <1>9 DEF vars, GilOK
<1>10. QED
  BY <1>3, <1>4, <1>5, <1>6, <1>7, <1>8, <1>9 DEF Next

\* Nobody takes the room of a thread that has polled for it, except from the
\* main thread in its last line, or by it.
LEMMA RoomKeeps ==
  TypeOK /\ TypeOK' /\ GilOK /\ RoomKept /\ [Next]_vars => RoomKept'
<1> SUFFICES ASSUME TypeOK, TypeOK', GilOK, RoomKept, [Next]_vars PROVE RoomKept'
  OBVIOUS
<1>1. /\ Size \in Nat \ {0} /\ Main \in Thread /\ pc \in [Thread -> PC]
      /\ size \in [Thread -> 0..Size] /\ tx_buf_w_ptr \in 0..Size - 1
      /\ tx_buf_r_ptr \in 0..Size - 1 /\ Writable \in Int
  <2>1. /\ Size \in Nat \ {0} /\ Main \in Thread /\ pc \in [Thread -> PC]
        /\ size \in [Thread -> 0..Size] /\ tx_buf_w_ptr \in 0..Size - 1
        /\ tx_buf_r_ptr \in 0..Size - 1
    BY RingAssumption DEF TypeOK, Thread
  <2>2. Writable \in Int
    BY <2>1 DEF Writable
  <2>3. QED
    BY <2>1, <2>2
\* who copies: another thread with the GIL, or the main thread without
<1>2. ASSUME NEW t \in Thread, Returned(t), size' = size,
             \/ pc[t] \in {"run", "copy"} /\ gil = t
             \/ pc[t] \in {"exit", "copy exit"}
      PROVE  RoomKept'
  BY <1>1, <1>2 DEF Returned, GilOK, RoomKept
<1>3. ASSUME NEW t \in Thread, NEW n \in 1..Size, MpyStdoutTx(t, n) PROVE RoomKept'
  <2>1. CASE n > Writable
    <3>1. /\ pc' = [pc EXCEPT ![t] = IF gil = t THEN "poll" ELSE "poll exit"]
          /\ size' = [size EXCEPT ![t] = n] /\ UNCHANGED ring
          /\ pc[t] \in {"run", "exit"}
      BY <1>3, <2>1, Zenon DEF MpyStdoutTx, MayPrint
    <3>2. Writable' = Writable
      BY <3>1 DEF Writable, ring
    <3>3. QED
      BY <1>1, <3>1, <3>2 DEF RoomKept
  <2>2. CASE ~(n > Writable)
    <3>1. /\ Returned(t) /\ size' = size
          /\ (pc[t] = "run" /\ gil = t) \/ pc[t] = "exit"
      BY <1>3, <2>2, Zenon DEF MpyStdoutTx, MayPrint
    <3>2. QED
      BY <1>2, <3>1
  <2>3. QED
    BY <2>1, <2>2
<1>4. ASSUME NEW t \in Thread, Copy(t) PROVE RoomKept'
  <2>1. Returned(t) /\ size' = size /\ pc[t] \in {"copy", "copy exit"}
    BY <1>4, Zenon DEF Copy
  <2>2. pc[t] = "copy" => gil = t
    BY <2>1 DEF GilOK
  <2>3. QED
    BY <1>2, <2>1, <2>2
\* reading only makes room
<1>5. ASSUME NEW n \in 1..Size, TxBuf(n) PROVE RoomKept'
  <2> DEFINE len == IF Readable > n THEN n ELSE Readable
  <2>1. /\ len > 0 /\ tx_buf_r_ptr' = Moved(tx_buf_r_ptr, len)
        /\ pc' = pc /\ size' = size /\ tx_buf_w_ptr' = tx_buf_w_ptr
    BY <1>5, Zenon DEF TxBuf
  <2>2. Readable \in Nat
    BY <1>1 DEF Readable
  <2>3. len \in 1..Readable
    BY <2>1, <2>2
  <2> HIDE DEF len
  <2>4. Writable' >= Writable /\ Writable' \in Int
    BY <1>1, <2>1, <2>3 DEF Moved, Readable, Writable
  <2>5. ASSUME NEW t \in Thread, size[t] > Writable' PROVE size[t] > Writable
    BY <1>1, <2>4, <2>5
  <2>6. QED
    BY <2>1, <2>5 DEF RoomKept
<1>6. ASSUME NEW t \in Thread, Poll(t) PROVE RoomKept'
  <2>1. /\ pc[t] \in {"poll", "poll exit"} /\ size[t] <= Writable
        /\ pc' = [pc EXCEPT ![t] = IF @ = "poll" THEN "copy" ELSE "copy exit"]
        /\ size' = size /\ UNCHANGED ring
    BY <1>6, Zenon DEF Poll
  <2>2. Writable' = Writable /\ ~(size[t] > Writable)
    <3>1. Writable' = Writable
      BY <2>1 DEF Writable, ring
    <3>2. size[t] \in Int
      BY <1>1
    <3>3. Writable \in Int /\ size[t] <= Writable
      BY <1>1, <2>1, Zenon
    <3>4. ~(size[t] > Writable)
      BY <3>2, <3>3
    <3>5. QED
      BY <3>1, <3>4
  <2>3. QED
    BY <1>1, <2>1, <2>2 DEF RoomKept
<1>7. ASSUME NEW t \in Thread, GilEnter(t) \/ GilExit(t) PROVE RoomKept'
  <2>1. pc' = pc /\ size' = size /\ UNCHANGED ring
    BY <1>7, Zenon DEF GilEnter, GilExit
  <2>2. QED
    BY <2>1 DEF RoomKept, Writable, ring
<1>8. ASSUME ScriptEnd \/ DrainPoll \/ DrainEnd \/ SoftReset PROVE RoomKept'
  <2>1. size' = size /\ UNCHANGED ring
    BY <1>8, Zenon DEF ScriptEnd, DrainPoll, DrainEnd, SoftReset
  <2>2. Writable' = Writable
    BY <2>1 DEF Writable, ring
  <2>3. CASE pc[Main] = "deinit" /\ \A w \in Workers : pc[w] = "run"
    <3>1. pc' = [pc EXCEPT ![Main] = "run"]
      BY <1>8, <2>3, Zenon DEF ScriptEnd, DrainPoll, DrainEnd, SoftReset
    <3>2. QED
      BY <1>1, <2>3, <3>1 DEF RoomKept, Thread
  <2>4. CASE /\ pc[Main] \in {"run", "drain"}
             /\ \/ pc' = pc
                \/ pc' = [pc EXCEPT ![Main] = "drain"] \/ pc' = [pc EXCEPT ![Main] = "exit"]
    BY <1>1, <2>1, <2>2, <2>4 DEF RoomKept
  <2>5. QED
    BY <1>8, <2>3, <2>4, Zenon DEF ScriptEnd, DrainPoll, DrainEnd, SoftReset
<1>9. CASE UNCHANGED vars
  BY <1>9 DEF vars, ring, RoomKept, Writable
<1>10. QED
  BY <1>3, <1>4, <1>5, <1>6, <1>7, <1>8, <1>9 DEF Next

-----------------------------------------------------------------------------
(* The stream                                                              *)

\* The bytes from 1 to n, as the IDE should see them.
Upto(n) == [i \in 1..n |-> i]

\* The bytes of a write continue those written before.
LEMMA UptoGrows ==
  ASSUME TypeOK, NEW n \in 1..Size, written + n <= MaxBytes
  PROVE  /\ Fresh(n) \in Seq(1..MaxBytes) /\ Len(Fresh(n)) = n
         /\ Upto(written + n) = Upto(written) \o Fresh(n)
<1>1. written \in Nat /\ n \in Nat /\ MaxBytes \in Nat
  BY RingAssumption DEF TypeOK
<1>2. Fresh(n) \in Seq(1..MaxBytes) /\ Len(Fresh(n)) = n
  <2>1. \A i \in 1..n : written + i \in 1..MaxBytes
    BY <1>1
  <2>2. QED
    BY <1>1, <2>1 DEF Fresh
<1>3. Upto(written) \in Seq(1..MaxBytes) /\ Len(Upto(written)) = written
  <2>1. \A i \in 1..written : i \in 1..MaxBytes
    BY <1>1
  <2>2. QED
    BY <1>1, <2>1 DEF Upto
<1>4. Upto(written + n) \in Seq(1..MaxBytes) /\ Len(Upto(written + n)) = written + n
  <2>1. \A i \in 1..(written + n) : i \in 1..MaxBytes
    BY <1>1
  <2>2. QED
    BY <1>1, <2>1 DEF Upto
<1> DEFINE q == Upto(written) \o Fresh(n)
<1>5. /\ q \in Seq(1..MaxBytes) /\ Len(q) = written + n
      /\ \A i \in 1..(written + n) :
            q[i] = IF i <= written THEN Upto(written)[i] ELSE Fresh(n)[i - written]
  <2>1. /\ q \in Seq(1..MaxBytes) /\ Len(q) = Len(Upto(written)) + Len(Fresh(n))
        /\ \A i \in 1..Len(Upto(written)) + Len(Fresh(n)) :
              q[i] = IF i <= Len(Upto(written)) THEN Upto(written)[i]
                     ELSE Fresh(n)[i - Len(Upto(written))]
    BY <1>2, <1>3, ConcatProperties, Zenon
  <2>2. QED
    BY <1>2, <1>3, <2>1, Zenon
<1> HIDE DEF q
<1>6. ASSUME NEW i \in 1..(written + n) PROVE q[i] = i
  <2>1. CASE i <= written
    BY <1>1, <1>5, <2>1 DEF Upto
  <2>2. CASE ~(i <= written)
    <3>1. i - written \in 1..n /\ written + (i - written) = i
      BY <1>1, <2>2
    <3>2. QED
      BY <1>5, <2>2, <3>1 DEF Fresh
  <2>3. QED
    BY <2>1, <2>2
<1>7. \A i \in 1..(written + n) : Upto(written + n)[i] = q[i]
  BY <1>6 DEF Upto
<1>8. QED
  BY <1>2, <1>4, <1>5, <1>7, SeqEqual DEF q

\* RINGBUFFER_WRITE is Write of the stream.
LEMMA WriteStream ==
  ASSUME TypeOK, TypeOK', NEW n \in 1..Size, RingWrite(n)
  PROVE  Stream!Write(n)
<1>1. n \in 0..Size
  BY RingAssumption
<1>2. Queue' = LET q == Queue \o Fresh(n)
               IN  IF Len(q) < Size THEN q ELSE SubSeq(q, Size + 1, Len(q))
  BY <1>1, WriteRing, Zenon
<1>3. written' = written + n /\ got' = got
  BY Zenon DEF RingWrite
<1>4. QED
  BY <1>2, <1>3, Zenon DEF Stream!Write, Stream!Fresh, Fresh

\* TX_BUF is Read of the stream.
LEMMA ReadStream ==
  ASSUME TypeOK, TypeOK', NEW n \in 1..Readable, Take(n)
  PROVE  n \in 1..Len(Queue) /\ Stream!Read(n)
<1>1. Len(Queue) = Readable
  BY RingIs DEF RingShape
<1>2. Queue' = SubSeq(Queue, n + 1, Len(Queue))
  BY ReadRing
<1>3. got' = got \o SubSeq(Queue, 1, n) /\ written' = written
  BY ReadBytes DEF Take
<1>4. QED
  BY <1>1, <1>2, <1>3, Zenon DEF Stream!Read

\* A write that fits appends to what the IDE has and will have.
LEMMA WriteKeeps ==
  ASSUME TypeOK, TypeOK', QueueOK, Lossless, NEW n \in 1..Size, WriteStep(n), raced => raced'
  PROVE  QueueOK' /\ Lossless'
<1> DEFINE q == Queue \o Fresh(n)
<1>1. /\ Size \in Nat \ {0} /\ Readable \in Nat /\ n \in Nat /\ n \in 0..Size
      /\ written \in Nat /\ got \in Seq(1..MaxBytes) /\ Len(Queue) = Readable
  BY RingAssumption, RingIs DEF RingShape, TypeOK
<1>2. /\ RingWrite(n) /\ written + n <= MaxBytes /\ written' = written + n /\ got' = got
      /\ filled' = (filled \/ n = Size - Readable) /\ (n <= Writable \/ raced')
  BY Zenon DEF WriteStep, RingWrite
<1>3. Len(q) = Readable + n /\ Queue' = IF Len(q) < Size THEN q ELSE SubSeq(q, Size + 1, Len(q))
  BY <1>1, <1>2, WriteRing, Zenon
<1>4. /\ Fresh(n) \in Seq(1..MaxBytes) /\ Len(Fresh(n)) = n
      /\ Upto(written + n) = Upto(written) \o Fresh(n)
  BY <1>2, UptoGrows
<1>5. q \in Seq(1..MaxBytes)
  BY <1>4, ConcatProperties DEF QueueOK
<1>6. Queue' \in Seq(1..MaxBytes)
  <2>1. SubSeq(q, Size + 1, Len(q)) \in Seq(1..MaxBytes)
    <3> HIDE DEF q
    <3>1. Len(q) \in Int /\ \A i \in 1..Len(q) : q[i] \in 1..MaxBytes
      <4>1. Len(q) \in Int
        BY <1>1, <1>3
      <4>2. \A i \in 1..Len(q) : q[i] \in 1..MaxBytes
        BY <1>5, ElementOfSeq, Zenon
      <4>3. QED
        BY <4>1, <4>2
    <3>2. Size + 1 \in Int /\ \A i \in (Size + 1)..Len(q) : i \in 1..Len(q)
      BY <1>1, <3>1
    <3>3. \A i \in (Size + 1)..Len(q) : q[i] \in 1..MaxBytes
      BY <3>1, <3>2
    <3>4. QED
      BY <3>1, <3>2, <3>3, SubSeqProperties
  <2>2. QED
    BY <1>3, <1>5, <2>1
<1>7. ASSUME ~filled', ~raced' PROVE got' \o Queue' = Upto(written')
  <2>1. ~filled /\ ~raced /\ n # Size - Readable /\ n <= Writable
    BY <1>2, <1>7, Zenon
  <2>2. Readable + n < Size
    <3>1. tx_buf_w_ptr \in 0..Size - 1 /\ tx_buf_r_ptr \in 0..Size - 1
      BY DEF TypeOK
    <3>2. QED
      BY <1>1, <2>1, <3>1 DEF Readable, Writable
  <2>3. Queue' = q
    BY <1>3, <2>2
  <2>4. got \o Queue = Upto(written)
    BY <2>1 DEF Lossless, Upto
  <2>5. got \o q = (got \o Queue) \o Fresh(n)
    <3>1. Queue \in Seq(1..MaxBytes) /\ got \in Seq(1..MaxBytes)
      BY <1>1 DEF QueueOK
    <3>2. Fresh(n) \in Seq(1..MaxBytes)
      BY <1>4
    <3>3. (got \o Queue) \o Fresh(n) = got \o (Queue \o Fresh(n))
      BY <3>1, <3>2, ConcatAssociative, SMTT(40)
    <3>4. QED
      BY <3>3
  <2>6. QED
    BY <1>2, <1>4, <2>3, <2>4, <2>5
<1>8. QED
  BY <1>6, <1>7, Zenon DEF QueueOK, Lossless, Upto

\* A read moves bytes from the ring to the IDE and loses none.
LEMMA ReadKeeps ==
  ASSUME TypeOK, TypeOK', QueueOK, Lossless, NEW n \in 1..Readable, Take(n),
         filled' = filled, raced => raced'
  PROVE  QueueOK' /\ Lossless'
<1>1. /\ Queue \in Seq(1..MaxBytes) /\ got \in Seq(1..MaxBytes) /\ Len(Queue) = Readable
      /\ Readable \in Nat /\ n \in 1..Len(Queue)
  BY RingIs DEF RingShape, TypeOK, QueueOK
<1> DEFINE u == SubSeq(Queue, 1, n)
           v == SubSeq(Queue, n + 1, Len(Queue))
<1>2. Queue' = v /\ got' = got \o u /\ written' = written
  BY ReadRing, ReadBytes DEF Take
<1>3. u \in Seq(1..MaxBytes) /\ v \in Seq(1..MaxBytes)
  <2>1. \A i \in 1..Len(Queue) : Queue[i] \in 1..MaxBytes
    BY <1>1, ElementOfSeq
  <2>2. /\ n \in Int /\ n + 1 \in Int /\ Len(Queue) \in Int
        /\ \A i \in 1..n : i \in 1..Len(Queue)
        /\ \A i \in (n + 1)..Len(Queue) : i \in 1..Len(Queue)
    BY <1>1
  <2>3. /\ \A i \in 1..n : Queue[i] \in 1..MaxBytes
        /\ \A i \in (n + 1)..Len(Queue) : Queue[i] \in 1..MaxBytes
    BY <2>1, <2>2
  <2>4. QED
    BY <2>2, <2>3, SubSeqProperties
<1>4. u \o v = Queue
  <2>1. /\ 1 \in 1..Len(Queue) + 1 /\ n \in 1 - 1..Len(Queue) /\ Len(Queue) \in n..Len(Queue)
    BY <1>1
  <2>2. u \o v = SubSeq(Queue, 1, Len(Queue))
    BY <1>1, <2>1, ConcatAdjacentSubSeq
  <2>3. QED
    BY <1>1, <2>2, SubSeqFull
<1> HIDE DEF u, v
<1>5. got' \o Queue' = got \o Queue
  <2>1. (got \o u) \o v = got \o (u \o v)
    BY <1>1, <1>3, ConcatAssociative
  <2>2. QED
    BY <1>2, <1>4, <2>1
<1>6. QED
  BY <1>2, <1>3, <1>5, Zenon DEF QueueOK, Lossless

-----------------------------------------------------------------------------
(* The theorems                                                            *)

\* The invariant holds at the start.
LEMMA InitOK == Init => IInv
<1> SUFFICES ASSUME Init PROVE IInv
  OBVIOUS
<1>1. Size \in Nat \ {0} /\ MaxBytes \in Nat /\ MaxPolls \in Nat \ {0}
  BY RingAssumption
<1>2. /\ \A t \in Thread : pc[t] = "run" /\ size[t] = 0
      /\ pc = [t \in Thread |-> "run"] /\ size = [t \in Thread |-> 0]
  BY DEF Init
<1>3. TypeOK
  <2>1. pc \in [Thread -> PC] /\ size \in [Thread -> 0..Size] /\ gil \in Thread \cup {NoThread}
    BY <1>1, <1>2 DEF Init, PC
  <2>2. /\ tx_buf \in [0..Size - 1 -> 0..MaxBytes] /\ tx_buf_w_ptr \in 0..Size - 1
        /\ tx_buf_r_ptr \in 0..Size - 1 /\ polls \in 0..MaxPolls /\ written \in 0..MaxBytes
        /\ got \in Seq(1..MaxBytes)
    BY <1>1 DEF Init
  <2>3. quiet \in BOOLEAN /\ filled \in BOOLEAN /\ raced \in BOOLEAN
    BY DEF Init
  <2>4. QED
    BY <2>1, <2>2, <2>3 DEF TypeOK
<1>4. GilOK /\ RoomKept
  BY <1>2 DEF GilOK, RoomKept
<1>5. Queue = <<>>
  <2>1. RingShape /\ Readable = 0
    BY <1>3, RingIs DEF Init, Readable
  <2>2. Queue \in Seq(0..MaxBytes) /\ Len(Queue) = 0
    BY <2>1 DEF RingShape
  <2>3. QED
    BY <2>2, EmptySeq
<1>6. QueueOK
  BY <1>5 DEF QueueOK
<1>7. Lossless
  <2>1. got = <<>> /\ written = 0
    BY DEF Init
  <2>2. [i \in 1..0 |-> i] = <<>>
    OBVIOUS
  <2>3. <<>> \o <<>> = <<>>
    OBVIOUS
  <2>4. QED
    BY <1>5, <2>1, <2>2, <2>3 DEF Lossless
<1>8. QED
  BY <1>3, <1>4, <1>6, <1>7 DEF IInv

\* Every step keeps the invariant.
LEMMA NextKeeps == IInv /\ [Next]_vars => IInv'
<1> SUFFICES ASSUME TypeOK, GilOK, QueueOK, RoomKept, Lossless, [Next]_vars PROVE IInv'
  BY DEF IInv
<1>1. TypeOK' /\ GilOK'
  BY TypeKeeps, GilKeeps
<1>2. RoomKept'
  BY <1>1, RoomKeeps
<1>3. QueueOK' /\ Lossless'
  <2>1. raced => raced'
    BY RingSteps
  <2>2. CASE \E n \in 1..Size : WriteStep(n)
    BY <1>1, <2>1, <2>2, WriteKeeps
  <2>3. CASE (\E n \in 1..Readable : Take(n)) /\ filled' = filled
    BY <1>1, <2>1, <2>3, ReadKeeps
  <2>4. CASE UNCHANGED <<ring, written, got, filled>>
    <3>1. Queue' = Queue
      BY <2>4 DEF Queue, Bytes, Readable, ring
    <3>2. QED
      BY <2>1, <2>4, <3>1 DEF QueueOK, Lossless
  <2>5. QED
    BY <2>2, <2>3, <2>4, RingSteps
<1>4. QED
  BY <1>1, <1>2, <1>3 DEF IInv

\* The invariant is inductive.
LEMMA Invariance == Spec => []IInv
BY InitOK, NextKeeps, PTL DEF Spec

\* Every variable keeps its type; the pointers stay inside tx_buf.
THEOREM TypeCorrect == Spec => []TypeOK
<1>1. IInv => TypeOK
  BY DEF IInv
<1>2. QED
  BY <1>1, Invariance, PTL

\* The poll of mpy_stdout_tx outside the mutex is safe for every thread that
\* prints with the GIL: the room it has seen is there when it copies.
THEOREM RoomCorrect == Spec => []RoomKept
<1>1. IInv => RoomKept
  BY DEF IInv
<1>2. QED
  BY <1>1, Invariance, PTL

\* Text is lost only when a write fills the ring to the last byte or when room
\* was taken between poll and copy, for any number of threads and any size.
THEOREM LosslessCorrect == Spec => []Lossless
<1>1. IInv => Lossless
  BY DEF IInv
<1>2. QED
  BY <1>1, Invariance, PTL

\* Every step is one of the stream, or changes nothing of it.
LEMMA StepStreams ==
  IInv /\ IInv' /\ [Next]_vars => [Stream!Next]_<<written, Queue, got>>
<1> SUFFICES ASSUME IInv, IInv', [Next]_vars PROVE [Stream!Next]_<<written, Queue, got>>
  OBVIOUS
<1>1. TypeOK /\ TypeOK' /\ GilOK
  BY DEF IInv
<1>2. CASE \E n \in 1..Size : WriteStep(n)
  BY <1>1, <1>2, WriteStream DEF WriteStep, Stream!Next
<1>3. CASE \E n \in 1..Readable : Take(n)
  BY <1>1, <1>3, ReadStream DEF Stream!Next
<1>4. CASE UNCHANGED <<ring, written, got, filled>>
  BY <1>4 DEF Queue, Bytes, Readable, ring
<1>5. QED
  BY <1>1, <1>2, <1>3, <1>4, RingSteps

\* mpy_stdout_tx and TX_BUF implement the stream: in order, no byte twice.
THEOREM StreamCorrect == Spec => StreamSpec
<1>1. Init => Stream!Init
  <2> SUFFICES ASSUME Init PROVE Stream!Init
    OBVIOUS
  <2>1. IInv /\ Readable = 0
    BY InitOK DEF Init, Readable
  <2>2. Queue \in Seq(0..MaxBytes) /\ Len(Queue) = 0
    BY <2>1, RingIs DEF IInv, RingShape
  <2>3. Queue = <<>>
    BY <2>2, EmptySeq
  <2>4. QED
    BY <2>3 DEF Init, Stream!Init
<1>2. QED
  BY <1>1, StepStreams, Invariance, PTL DEF Spec, StreamSpec, Stream!Spec
=============================================================================
