----------------------------- MODULE IdeTxRing ------------------------------
(***************************************************************************)
(* The text channel to the IDE: the ring tx_buf of omv/ide_dbg.c, filled   *)
(* by mpy_stdout_tx in the threads that print and emptied by the TX_BUF    *)
(* request in the IDE task, with the wait for an empty ring at the end of  *)
(* a script (ide_dbg_on_script_end) and the last line main.c prints after  *)
(* it has given the GIL away.                                              *)
(*                                                                         *)
(* Bytes are numbered in the order they are copied into the ring.          *)
(***************************************************************************)
EXTENDS Integers, Sequences

CONSTANTS
  Main,       \* the thread that runs main_()
  Workers,    \* the other Python threads
  NoThread,   \* nobody holds the GIL
  Size,       \* TX_BUF_SIZE
  MaxBytes,   \* bound: bytes written in a behaviour
  MaxPolls    \* the polls of ide_dbg_on_script_end (100 in the code)

ASSUME RingAssumption ==
  /\ Main \notin Workers
  /\ NoThread \notin Workers \cup {Main}
  /\ Size \in Nat \ {0}
  /\ MaxBytes \in Nat
  /\ MaxPolls \in Nat \ {0}

Thread == Workers \cup {Main}

VARIABLES
  pc,         \* where each thread is in mpy_stdout_tx, or main in its exit
  size,       \* the argument of the call
  gil,        \* the holder of the GIL
  tx_buf, tx_buf_w_ptr, tx_buf_r_ptr,
  polls,      \* count of ide_dbg_on_script_end
  quiet,      \* history: the ring was seen empty by ide_dbg_on_script_end
  written,    \* history: bytes copied into the ring
  got,        \* history: what the IDE has read
  filled,     \* history: a write took every byte there was room for
  raced       \* history: a thread copied after its room was gone

ring == <<tx_buf, tx_buf_w_ptr, tx_buf_r_ptr>>
hist == <<written, got, filled, raced>>
vars == <<pc, size, gil, ring, polls, quiet, hist>>

Writable ==
  IF tx_buf_w_ptr >= tx_buf_r_ptr
  THEN Size - tx_buf_w_ptr + tx_buf_r_ptr
  ELSE tx_buf_r_ptr - tx_buf_w_ptr - 1

Readable ==
  IF tx_buf_w_ptr >= tx_buf_r_ptr
  THEN tx_buf_w_ptr - tx_buf_r_ptr
  ELSE Size - tx_buf_r_ptr + tx_buf_w_ptr

\* mutated: the boundary is one too far
MovedPast(ptr, n) == IF n + ptr <= Size THEN ptr + n ELSE n - (Size - ptr)

\* A pointer after n bytes, as RINGBUFFER_WRITE and TX_BUF move it.
Moved(ptr, n) == IF n + ptr < Size THEN ptr + n ELSE n - (Size - ptr)

\* The n bytes from ptr on, over the end of the buffer if need be.
Bytes(ptr, n) == [i \in 1..n |-> tx_buf[(ptr + i - 1) % Size]]

Init ==
  /\ pc = [t \in Thread |-> "run"]
  /\ size = [t \in Thread |-> 0]
  /\ gil = NoThread
  /\ tx_buf = [i \in 0..Size - 1 |-> 0]
  /\ tx_buf_w_ptr = 0 /\ tx_buf_r_ptr = 0
  /\ polls = 0 /\ quiet = FALSE
  /\ written = 0 /\ got = <<>> /\ filled = FALSE /\ raced = FALSE

-----------------------------------------------------------------------------
(* mpy_stdout_tx                                                           *)

\* mutated: the second memcpy starts again at the beginning of the text
RingWriteRestart(n) ==
  /\ tx_buf' = [i \in 0..Size - 1 |->
                  LET k == (i - tx_buf_w_ptr) % Size
                  IN CASE k < n /\ i >= tx_buf_w_ptr -> written + k + 1
                       [] k < n /\ i < tx_buf_w_ptr -> written + i + 1
                       [] OTHER -> tx_buf[i]]
  /\ tx_buf_w_ptr' = Moved(tx_buf_w_ptr, n)
  /\ written' = written + n
  /\ filled' = (filled \/ n = Size - Readable)
  /\ UNCHANGED <<tx_buf_r_ptr, got>>

\* RINGBUFFER_WRITE, inside the mutex.
RingWrite(n) ==
  /\ tx_buf' = [i \in 0..Size - 1 |->
                  LET k == (i - tx_buf_w_ptr) % Size
                  IN IF k < n THEN written + k + 1 ELSE tx_buf[i]]
  /\ tx_buf_w_ptr' = Moved(tx_buf_w_ptr, n)
  /\ written' = written + n
  /\ filled' = (filled \/ n = Size - Readable)
  /\ UNCHANGED <<tx_buf_r_ptr, got>>

\* The call returns: print goes on in Python, the line "MPY: soft reboot" is
\* the last thing the main thread does before it waits for the others.
Returned(t) == pc' = [pc EXCEPT ![t] = IF gil = t THEN "run" ELSE "deinit"]

\* mutated: the print gives the GIL away
MayPrintAny(t) == pc[t] \in {"run", "exit"}

\* A thread prints with the GIL, the main thread after its session without.
MayPrint(t) == \/ pc[t] = "run" /\ gil = t
               \/ pc[t] = "exit"

\* mutated: the room is never tested
MpyStdoutTxBlind(t, n) ==
  /\ MayPrint(t)
  /\ written + n <= MaxBytes
  /\ RingWrite(n) /\ Returned(t)
  /\ UNCHANGED <<size, raced, gil, polls, quiet>>

\* The first test under the mutex.  With room the same critical section
\* copies; without it the thread goes to poll.
MpyStdoutTx(t, n) ==
  /\ MayPrint(t)
  /\ written + n <= MaxBytes
  /\ IF n > Writable
     THEN /\ pc' = [pc EXCEPT ![t] = IF gil = t THEN "poll" ELSE "poll exit"]
          /\ size' = [size EXCEPT ![t] = n]
          /\ UNCHANGED <<ring, hist>>
     ELSE RingWrite(n) /\ Returned(t) /\ UNCHANGED <<size, raced>>
  /\ UNCHANGED <<gil, polls, quiet>>

\* mutated: a text as long as all the room never fits
PollStrict(t) ==
  /\ pc[t] \in {"poll", "poll exit"}
  /\ size[t] < Writable
  /\ pc' = [pc EXCEPT ![t] = IF @ = "poll" THEN "copy" ELSE "copy exit"]
  /\ UNCHANGED <<size, gil, ring, polls, quiet, hist>>

\* The poll without the mutex: usleep(2000) until there is room.
Poll(t) ==
  /\ pc[t] \in {"poll", "poll exit"}
  /\ size[t] <= Writable
  /\ pc' = [pc EXCEPT ![t] = IF @ = "poll" THEN "copy" ELSE "copy exit"]
  /\ UNCHANGED <<size, gil, ring, polls, quiet, hist>>

\* The mutex again, and the copy; the room is not tested once more.
Copy(t) ==
  /\ pc[t] \in {"copy", "copy exit"}
  /\ written + size[t] <= MaxBytes
  /\ RingWrite(size[t])
  /\ raced' = (raced \/ size[t] > Writable)
  /\ Returned(t)
  /\ UNCHANGED <<size, gil, polls, quiet>>

-----------------------------------------------------------------------------
(* The IDE task                                                            *)

\* USBDBG_TX_BUF with the data_length the IDE asked for.
TxBuf(data_length) ==
  LET len == IF Readable > data_length THEN data_length ELSE Readable
  IN /\ len > 0
     /\ got' = got \o Bytes(tx_buf_r_ptr, len)
     /\ tx_buf_r_ptr' = Moved(tx_buf_r_ptr, len)
     /\ UNCHANGED <<pc, size, gil, tx_buf, tx_buf_w_ptr, polls, quiet, written, filled, raced>>

-----------------------------------------------------------------------------
(* Python around it                                                        *)

GilEnter(t) ==
  /\ pc[t] = "run" /\ gil = NoThread
  /\ gil' = t
  /\ UNCHANGED <<pc, size, ring, polls, quiet, hist>>

GilExit(t) ==
  /\ pc[t] = "run" /\ gil = t
  /\ gil' = NoThread
  /\ UNCHANGED <<pc, size, ring, polls, quiet, hist>>

\* The script of the main thread ends: "wait print done".
ScriptEnd ==
  /\ pc[Main] = "run" /\ gil = Main
  /\ pc' = [pc EXCEPT ![Main] = "drain"]
  /\ polls' = 0
  /\ quiet' = FALSE
  /\ UNCHANGED <<size, gil, ring, hist>>

DrainPoll ==
  /\ pc[Main] = "drain"
  /\ tx_buf_w_ptr # tx_buf_r_ptr /\ polls < MaxPolls
  /\ polls' = polls + 1
  /\ UNCHANGED <<pc, size, gil, ring, quiet, hist>>

\* The wait is over; main_thread_exit gives the GIL away.
DrainEnd ==
  /\ pc[Main] = "drain"
  /\ tx_buf_w_ptr = tx_buf_r_ptr \/ polls = MaxPolls
  /\ pc' = [pc EXCEPT ![Main] = "exit"]
  /\ quiet' = (tx_buf_w_ptr = tx_buf_r_ptr)
  /\ gil' = NoThread
  /\ UNCHANGED <<size, ring, polls, hist>>

\* mp_thread_deinit has seen the last thread go; the ring is not reset.
SoftReset ==
  /\ pc[Main] = "deinit"
  /\ \A w \in Workers : pc[w] = "run" /\ gil # w
  /\ pc' = [pc EXCEPT ![Main] = "run"]
  /\ UNCHANGED <<size, gil, ring, polls, quiet, hist>>

Next ==
  \/ \E t \in Thread : \/ \E n \in 1..Size : MpyStdoutTx(t, n)
                       \/ Poll(t) \/ Copy(t) \/ GilEnter(t) \/ GilExit(t)
  \/ \E n \in 1..Size : TxBuf(n)
  \/ ScriptEnd \/ DrainPoll \/ DrainEnd \/ SoftReset

Spec == Init /\ [][Next]_vars

(***************************************************************************)
(* The IDE polls the board for text all the time, and a thread that finds  *)
(* room goes on.                                                           *)
(***************************************************************************)
Fairness ==
  /\ WF_vars(TxBuf(Size))
  /\ \A t \in Thread : SF_vars(Poll(t)) /\ WF_vars(Copy(t))

FairSpec == Spec /\ Fairness

-----------------------------------------------------------------------------
PC == {"run", "poll", "copy", "drain", "exit", "poll exit", "copy exit", "deinit"}

\* The type of every variable.
TypeOK ==
  /\ pc \in [Thread -> PC]
  /\ size \in [Thread -> 0..Size]
  /\ gil \in Thread \cup {NoThread}
  /\ tx_buf \in [0..Size - 1 -> 0..MaxBytes]
  /\ tx_buf_w_ptr \in 0..Size - 1 /\ tx_buf_r_ptr \in 0..Size - 1
  /\ polls \in 0..MaxPolls /\ quiet \in BOOLEAN
  /\ written \in 0..MaxBytes
  /\ got \in Seq(1..MaxBytes)
  /\ filled \in BOOLEAN /\ raced \in BOOLEAN

\* The bytes that are in the ring.
Queue == Bytes(tx_buf_r_ptr, Readable)

\* Two pointers and a wrap make a FIFO: whatever the threads that print and the
\* IDE do, the IDE reads bytes in order, none twice, none that was not written.
Stream == INSTANCE TxStream WITH Cap <- Size, sent <- written, queue <- Queue
StreamSpec == Stream!Spec

\* A print loses nothing, unless a write took the last free byte (the ring then
\* counts as empty) or copied into room another thread had taken after the poll.
Lossless == filled \/ raced \/ got \o Queue = [i \in 1..written |-> i]

\* The room a thread has polled for is still there when it copies, as long as
\* the GIL keeps the printing threads apart: only the line that the main thread
\* prints after MP_THREAD_GIL_EXIT can take it away.
RoomKept ==
  \A t \in Thread : pc[t] \in {"copy", "copy exit"} /\ size[t] > Writable =>
    pc[Main] \in {"copy exit", "deinit"}

\* A thread that waits for room gets it while the IDE reads, for any text that
\* fits in the ring.
WriteCompletes ==
  \A t \in Thread : pc[t] \in {"poll", "poll exit"} ~> pc[t] \notin {"poll", "poll exit"}

\* ide_dbg.c: "wait print done".  When the wait ends before its timeout, the
\* IDE has read all that was printed.
PrintDone ==
  [][pc[Main] = "drain" /\ pc'[Main] = "exit" /\ quiet' => Len(got) = written]_vars
=============================================================================
