--------------------------- MODULE MpThreadProofs ---------------------------
(***************************************************************************)
(* Proofs about MpThread, for any number of threads: the types, the list   *)
(* of threads, the GIL, and the handshake of the garbage collector.        *)
(***************************************************************************)
EXTENDS MpThread, SequenceTheorems, TLAPS

(* Linking and unlinking a node, as facts about the sequence.              *)

\* mp_thread_create puts the new node in front.
LEMMA PushNode ==
  ASSUME NEW w \in Thread, NEW s \in Seq(Thread)
  PROVE  /\ <<w>> \o s \in Seq(Thread)
         /\ Len(<<w>> \o s) = Len(s) + 1
         /\ (<<w>> \o s)[1] = w
         /\ \A i \in 1..Len(s) : (<<w>> \o s)[i + 1] = s[i]
<1>1. <<w>> \in Seq(Thread) /\ Len(<<w>>) = 1 /\ <<w>>[1] = w
  OBVIOUS
<1>2. Len(s) \in Nat
  BY LenProperties
<1>3. QED
  BY <1>1, <1>2, ConcatProperties

\* mp_thread_finish takes one node out and keeps the order of the others.
LEMMA RemoveNode ==
  ASSUME NEW s \in Seq(Thread), NEW i \in 1..Len(s)
  PROVE  LET r == SubSeq(s, 1, i - 1) \o SubSeq(s, i + 1, Len(s))
         IN /\ r \in Seq(Thread)
            /\ Len(r) = Len(s) - 1
            /\ \A j \in 1..Len(r) : r[j] = IF j < i THEN s[j] ELSE s[j + 1]
<1> DEFINE a == SubSeq(s, 1, i - 1)
           b == SubSeq(s, i + 1, Len(s))
<1>1. Len(s) \in Nat /\ i \in Int /\ \A k \in 1..Len(s) : s[k] \in Thread
  BY LenProperties, ElementOfSeq
<1>2. /\ a \in Seq(Thread) /\ Len(a) = i - 1
      /\ \A k \in 1..(i - 1) : a[k] = s[k]
  <2>1. \A k \in 1..(i - 1) : s[k] \in Thread
    BY <1>1
  <2>2. /\ a \in Seq(Thread)
        /\ Len(a) = IF 1 <= i - 1 THEN (i - 1) - 1 + 1 ELSE 0
        /\ \A k \in 1..((i - 1) - 1 + 1) : a[k] = s[1 + k - 1]
    BY <2>1, <1>1, SubSeqProperties, 1 \in Int, i - 1 \in Int
  <2>3. QED
    BY <2>2, <1>1
<1>3. /\ b \in Seq(Thread) /\ Len(b) = Len(s) - i
      /\ \A k \in 1..(Len(s) - i) : b[k] = s[i + k]
  <2>1. \A k \in (i + 1)..Len(s) : s[k] \in Thread
    BY <1>1
  <2>2. /\ b \in Seq(Thread)
        /\ Len(b) = IF i + 1 <= Len(s) THEN Len(s) - (i + 1) + 1 ELSE 0
        /\ \A k \in 1..(Len(s) - (i + 1) + 1) : b[k] = s[(i + 1) + k - 1]
    BY <2>1, <1>1, SubSeqProperties, i + 1 \in Int, Len(s) \in Int
  <2>3. QED
    BY <2>2, <1>1
<1>4. /\ a \o b \in Seq(Thread)
      /\ Len(a \o b) = Len(a) + Len(b)
      /\ \A k \in 1..(Len(a) + Len(b)) :
            (a \o b)[k] = IF k <= Len(a) THEN a[k] ELSE b[k - Len(a)]
  BY <1>2, <1>3, ConcatProperties
<1>5. Len(a) + Len(b) = Len(s) - 1
  <2> HIDE DEF a, b
  <2> QED BY <1>1, <1>2, <1>3
<1>6. ASSUME NEW j \in 1..(Len(s) - 1)
      PROVE  (a \o b)[j] = IF j < i THEN s[j] ELSE s[j + 1]
  <2> HIDE DEF a, b
  <2>1. CASE j < i
    BY <2>1, <1>1, <1>2, <1>4, <1>5
  <2>2. CASE ~(j < i)
    <3>1. (a \o b)[j] = b[j - (i - 1)]
      BY <2>2, <1>1, <1>2, <1>4, <1>5
    <3>2. j - (i - 1) \in 1..(Len(s) - i)
      BY <2>2, <1>1
    <3>3. b[j - (i - 1)] = s[i + (j - (i - 1))]
      BY <3>2, <1>3
    <3>4. i + (j - (i - 1)) = j + 1
      BY <1>1
    <3>5. QED
      BY <2>2, <3>1, <3>3, <3>4
  <2>3. QED
    BY <2>1, <2>2
<1>7. QED
  BY <1>4, <1>5, <1>6

-----------------------------------------------------------------------------
(***************************************************************************)
(* The inductive invariant.                                                *)
(***************************************************************************)

\* The recursive mutex: held by the collector while it walks the list and by
\* the main thread while it hands out exceptions, once for each.
MutexOK ==
  /\ pc[Main] = "throw" => owner = Main
  /\ gc.phase \in {"scan", "wait"} => owner = gc.by
  /\ owner = NoThread <=> depth = 0
  /\ depth = (IF gc.phase \in {"scan", "wait"} THEN 1 ELSE 0)
             + (IF pc[Main] = "throw" THEN 1 ELSE 0)

\* Where a thread can be, and that the collector stays where it called
\* gc_collect.
WhoOK ==
  /\ pc[Main] \notin {"none", "entry", "start", "unlinked"}
  /\ \A w \in Workers : pc[w] \notin {"throw", "deinit", "torn"}
  /\ gc.phase = "idle" <=> gc = NoGc
  /\ gc.phase # "idle" => gc.by \in Thread /\ pc[gc.by] \in {"run", "throw"}
  /\ \A t \in Thread : HasRoots(t) => ready[t]

\* The walk: everything before th is scanned, th itself is being waited for.
WalkOK ==
  /\ gc.phase \in {"scan", "wait"} =>
       /\ gc.th \in 1..(Len(list) + 1)
       /\ gc.by \in scanned
       /\ \A j \in 1..Len(list) : j < gc.th /\ ready[list[j]] => list[j] \in scanned
  /\ gc.phase = "wait" => gc.th <= Len(list)

\* Until the GIL is stolen, it belongs to the one thread that executes Python; and
\* since it keeps every thread that holds roots from starting, what the walk scanned
\* is still all there is at the sweep, after the mutex is released.
GilOwned == ~stolen => \A t \in Thread : RunsPython(t) => gil = t
GilOK == GilOwned /\ SweepSafe

Base == TypeOK /\ ListOK /\ MutexOK /\ WhoOK /\ HandshakeOK /\ WalkOK
IInv == Base /\ GilOK

-----------------------------------------------------------------------------
(* Base holds whatever the timing                                          *)

\* The base of the inductive invariant holds at the start.
LEMMA BaseInit == Init => Base
<1> SUFFICES ASSUME Init PROVE Base
  OBVIOUS
<1> USE ThreadAssumption
<1>1. <<Main>> \in Seq(Thread) /\ Len(<<Main>>) = 1 /\ <<Main>>[1] = Main
  BY DEF Thread
<1>2. TypeOK
  <2>1. /\ pc \in [Thread -> PC] /\ gc \in [by : Thread \cup {NoThread},
                                             phase : {"idle", "scan", "wait", "sweep"}, th : Nat]
        /\ list \in Seq(Thread) /\ gil \in Thread \cup {NoThread}
    BY <1>1 DEF Init, PC, Thread, NoGc
  <2>2. ready \in [Thread -> BOOLEAN] /\ stolen \in BOOLEAN
    BY DEF Init
  <2>3. /\ exitpoint_flag \in [Thread -> Flag]
        /\ exception \in [Thread -> Exception] /\ pending \in [Thread -> Exception]
    BY DEF Init, Flag, Exception, EXITPOINT_DISABLE
  <2>4. QED
    BY <2>1, <2>2, <2>3 DEF Init, TypeOK
<1>3. ListOK
  <2>1. Nodes = {Main}
    BY <1>1 DEF Init, Nodes
  <2>2. \A t \in Thread : pc[t] = IF t = Main THEN "run" ELSE "none"
    BY DEF Init
  <2>3. QED
    BY <1>1, <2>1, <2>2 DEF Init, ListOK, Linked
<1>4. MutexOK /\ WhoOK
  <2>1. \A t \in Thread : pc[t] = IF t = Main THEN "run" ELSE "none"
    BY DEF Init
  <2>2. ready[Main] = TRUE
    BY DEF Init, Thread
  <2>3. MutexOK
    <3>1. gc.phase = "idle" /\ owner = NoThread /\ depth = 0 /\ pc[Main] = "run"
      BY <2>1 DEF Init, NoGc, Thread
    <3>2. QED
      BY <3>1 DEF MutexOK
  <2>4. WhoOK
    <3>1. \A t \in Thread : HasRoots(t) => t = Main
      BY <2>1 DEF HasRoots
    <3>2. \A t \in Thread : HasRoots(t) => ready[t]
      BY <3>1, <2>2
    <3>3. gc = NoGc /\ gc.phase = "idle"
      BY DEF Init, NoGc
    <3>4. QED
      BY <2>1, <3>2, <3>3 DEF WhoOK, Thread
  <2>5. QED
    BY <2>3, <2>4
<1>5. HandshakeOK /\ WalkOK
  BY DEF Init, HandshakeOK, WalkOK, NoGc
<1>6. QED
  BY <1>2, <1>3, <1>4, <1>5 DEF Base

\* The two facts about the list that the cases below use: its end is the main
\* node, and without the main node it is empty.
LEMMA ListEnd ==
  ASSUME TypeOK, ListOK
  PROVE  /\ Len(list) \in Nat
         /\ \A i \in 1..Len(list) : list[i] \in Thread
         /\ list # <<>> => Len(list) > 0 /\ list[Len(list)] = Main
         /\ pc[Main] = "torn" => \A t \in Thread : pc[t] \notin Linked
<1>1. /\ Len(list) \in Nat
      /\ \A i \in 1..Len(list) : list[i] \in Thread
      /\ list # <<>> => Len(list) > 0
  BY LenProperties, ElementOfSeq, EmptySeq DEF TypeOK
<1>2. list # <<>> => list[Len(list)] = Main
  BY <1>1 DEF ListOK
<1>3. ASSUME pc[Main] = "torn", NEW t \in Thread, pc[t] \in Linked
      PROVE  FALSE
  <2>1. t \in Nodes
    BY <1>3 DEF ListOK
  <2>2. list # <<>>
    BY <2>1, <1>1 DEF Nodes
  <2>3. Main \in Nodes
    <3>1. Len(list) \in 1..Len(list)
      BY <2>2, <1>1
    <3>2. QED
      BY <3>1, <2>2, <1>2 DEF Nodes
  <2>4. QED
    BY <2>3, <1>3 DEF ListOK, Linked, Thread
<1>4. QED
  BY <1>1, <1>2, <1>3

\* A step that moves threads between places with the same standing, and touches
\* neither the list nor the mutex nor the collection.
Quiet ==
  /\ UNCHANGED <<list, ready, mtx, gc, hand>>
  /\ \A t \in Thread :
       \/ pc'[t] = pc[t]
       \/ /\ t # gc.by
          /\ \/ pc[t] \in {"run", "out", "back", "deliver", "finish"}
                /\ pc'[t] \in {"run", "out", "back", "deliver", "finish"}
             \/ t \in Workers /\ pc[t] = "entry" /\ pc'[t] = "start"
             \/ t \in Workers /\ pc[t] = "unlinked" /\ pc'[t] = "none"

\* A step that moves no thread between its lists keeps the base.
LEMMA QuietBase == Base /\ Quiet /\ TypeOK' => Base'
<1> SUFFICES ASSUME Base, Quiet, TypeOK' PROVE Base'
  OBVIOUS
<1> USE DEF Base, Quiet
<1>1. Nodes' = Nodes
  BY DEF Nodes
<1>2. \A t \in Thread : /\ pc'[t] \in Linked <=> pc[t] \in Linked
                        /\ HasRoots(t)' => HasRoots(t)
                        /\ pc'[t] = "throw" <=> pc[t] = "throw"
  BY DEF Linked, HasRoots
<1>3. ListOK'
  BY <1>1, <1>2 DEF ListOK
<1>4. MutexOK'
  BY <1>2 DEF MutexOK, mtx, Thread
<1>5. WhoOK'
  BY <1>2, ThreadAssumption DEF WhoOK, Thread
<1>6. HandshakeOK' /\ WalkOK'
  BY DEF HandshakeOK, WalkOK, hand
<1>7. QED
  BY <1>3, <1>4, <1>5, <1>6

\* Every action keeps the types.
LEMMA TypeStep == Base /\ [Next]_vars => TypeOK'
<1> SUFFICES ASSUME Base, [Next]_vars PROVE TypeOK'
  OBVIOUS
<1> USE ThreadAssumption DEF TypeOK, PC, Flag, Exception, node, exc, hand, mtx
<1>0. TypeOK /\ MutexOK /\ WhoOK
  BY DEF Base
<1>1. ASSUME NEW t \in Thread, NEW w \in Workers, Create(t, w) PROVE TypeOK'
  <2>1. w \in Thread
    BY DEF Thread
  <2>2. list' \in Seq(Thread)
    BY <1>0, <1>1, <2>1, PushNode DEF Create
  <2>3. exception' \in [Thread -> Exception]
    BY <1>0, <1>1 DEF Create
  <2>4. pc' \in [Thread -> PC] /\ ready' \in [Thread -> BOOLEAN]
    BY <1>0, <1>1 DEF Create
  <2>5. QED
    BY <1>0, <1>1, <2>2, <2>3, <2>4 DEF Create, Atomic
<1>2. ASSUME NEW t \in Thread, GilWait(t) \/ GilEnter(t) PROVE TypeOK'
  BY <1>0, <1>2 DEF GilWait, GilEnter
<1>3. ASSUME NEW t \in Thread, GilExit(t) PROVE TypeOK'
  BY <1>0, <1>3 DEF GilExit
<1>4. ASSUME NEW t \in Thread, Return(t) PROVE TypeOK'
  BY <1>0, <1>4 DEF Return
<1>5. ASSUME NEW t \in Thread, SetFlag(t) PROVE TypeOK'
  BY <1>0, <1>5 DEF SetFlag
<1>6. ASSUME NEW t \in Thread, NEW f, Exitpoint(t, f) PROVE TypeOK'
  BY <1>0, <1>6 DEF Exitpoint, Take
<1>7. ASSUME NEW t \in Thread, Disable(t) PROVE TypeOK'
  BY <1>0, <1>7 DEF Disable, Take, EXITPOINT_DISABLE
<1>8. ASSUME NEW t \in Thread, Deliver(t) PROVE TypeOK'
  BY <1>0, <1>8 DEF Deliver, Raise
<1>9. ASSUME NEW t \in Thread, HandlePending(t) PROVE TypeOK'
  BY <1>0, <1>9 DEF HandlePending, Raise
<1>10. ASSUME NEW w \in Workers, Start(w) PROVE TypeOK'
  BY <1>0, <1>10 DEF Start, Atomic, EXITPOINT_DISABLE
<1>11. ASSUME NEW w \in Workers, Finish(w) PROVE TypeOK'
  <2>1. list' \in Seq(Thread)
    BY <1>0, <1>11, RemoveNode DEF Finish
  <2>2. QED
    BY <1>0, <1>11, <2>1 DEF Finish, Atomic
<1>12. ASSUME NEW w \in Workers, Exit(w) PROVE TypeOK'
  BY <1>0, <1>12 DEF Exit
<1>13. ASSUME NEW t \in Thread, GcStart(t) PROVE TypeOK'
  BY <1>0, <1>13 DEF GcStart, Lock
<1>14. ASSUME NEW t \in Thread, GcSignal(t) PROVE TypeOK'
  BY <1>0, <1>14 DEF GcSignal
<1>15. ASSUME GcVisit PROVE TypeOK'
  <2>1. gc.th \in Nat /\ gc.th + 1 \in Nat
    BY <1>0
  <2>2. gc.th \in 1..Len(list) /\ list[gc.th] \in Thread
    BY <1>0, <1>15, LenProperties, ElementOfSeq DEF GcVisit, Base, WalkOK
  <2>3. gc' \in [by : Thread \cup {NoThread},
                phase : {"idle", "scan", "wait", "sweep"}, th : Nat]
    BY <1>0, <1>15, <2>1 DEF GcVisit
  <2>4. sig' \in SUBSET Thread
    BY <1>0, <1>15, <2>2 DEF GcVisit
  <2>5. QED
    BY <1>0, <1>15, <2>3, <2>4 DEF GcVisit
<1>16. ASSUME GcWake PROVE TypeOK'
  <2>1. sem' \in Nat
    BY <1>0, <1>16 DEF GcWake
  <2>2. gc' \in [by : Thread \cup {NoThread},
                phase : {"idle", "scan", "wait", "sweep"}, th : Nat]
    <3>1. gc' = [by |-> gc.by, phase |-> "scan", th |-> gc.th + 1]
      BY <1>0, <1>16 DEF GcWake
    <3>2. gc.by \in Thread \cup {NoThread} /\ gc.th + 1 \in Nat
      BY <1>0
    <3>3. QED
      BY <3>1, <3>2
  <2>3. QED
    BY <1>0, <1>16, <2>1, <2>2 DEF GcWake
<1>17. ASSUME GcUnlock PROVE TypeOK'
  BY <1>0, <1>17 DEF GcUnlock, Unlock, MutexOK
<1>18. ASSUME GcSweep PROVE TypeOK'
  BY <1>0, <1>18 DEF GcSweep, NoGc
<1>19. ASSUME IdeTest PROVE TypeOK'
  BY <1>0, <1>19 DEF IdeTest
<1>20. ASSUME IdeStore PROVE TypeOK'
  BY <1>0, <1>20 DEF IdeStore
<1>21. ASSUME MainExit PROVE TypeOK'
  BY <1>0, <1>21 DEF MainExit, Lock, Thread
<1>22. ASSUME Throw PROVE TypeOK'
  <2>1. list[at] \in Thread
    BY <1>0, <1>22, LenProperties, ElementOfSeq DEF Throw
  <2>2. QED
    BY <1>0, <1>22, <2>1 DEF Throw
<1>23. ASSUME ThrowEnd PROVE TypeOK'
  BY <1>0, <1>23 DEF ThrowEnd, Unlock, MutexOK, Thread
<1>24. ASSUME Deinit PROVE TypeOK'
  <2>1. list' \in Seq(Thread)
    BY <1>24, EmptySeq DEF Deinit
  <2>2. QED
    BY <1>0, <1>24, <2>1 DEF Deinit, Atomic
<1>25. ASSUME SoftReset PROVE TypeOK'
  BY <1>0, <1>25 DEF SoftReset, Thread, EXITPOINT_DISABLE
<1>26. CASE UNCHANGED vars
  BY <1>0, <1>26 DEF vars
<1>27. QED
  BY <1>1, <1>2, <1>3, <1>4, <1>5, <1>6, <1>7, <1>8, <1>9, <1>10, <1>11, <1>12, <1>13, <1>14, <1>15, <1>16, <1>17, <1>18, <1>19, <1>20, <1>21, <1>22, <1>23, <1>24, <1>25, <1>26
     DEF Next, Python, Worker, Collect, EndSession

\* Nobody enters a critical section while a collector walks the list.
LEMMA NoWalk ==
  ASSUME Base, NEW t \in Thread, owner \in {NoThread, t}, gc.by # t
  PROVE  gc.phase \notin {"scan", "wait"}
BY ThreadAssumption DEF Base, MutexOK, WhoOK, Thread

\* The steps that leave the list, the mutex and the collection alone.
LEMMA QuietSteps ==
  ASSUME Base, NEW t \in Thread,
         \/ GilWait(t) \/ GilEnter(t) \/ GilExit(t) \/ Return(t) \/ SetFlag(t)
         \/ (\E f \in {EXITPOINT_ANY, EXITPOINT_DISABLE, EXITPOINT_ENABLE_SLEEP} : Exitpoint(t, f))
         \/ Disable(t) \/ Deliver(t) \/ HandlePending(t)
         \/ (t \in Workers /\ Exit(t))
         \/ IdeTest \/ IdeStore \/ Throw
  PROVE  Quiet
<1> USE DEF node, exc, mtx, hand
<1>0. /\ pc \in [Thread -> PC]
      /\ gc.by \in Thread => pc[gc.by] \in {"run", "throw"}
      /\ pc[Main] \notin {"none", "entry", "start", "unlinked"}
  BY ThreadAssumption DEF Base, TypeOK, WhoOK, NoGc, Thread
<1>1. CASE GilEnter(t)
  <2>1. t # gc.by
    BY <1>0, <1>1 DEF GilEnter
  <2>2. pc[t] = "entry" => t \in Workers
    BY <1>0 DEF Thread
  <2>3. CASE pc[t] = "entry"
    BY <1>0, <1>1, <2>1, <2>2, <2>3 DEF GilEnter, Quiet
  <2>4. CASE pc[t] = "back"
    BY <1>0, <1>1, <2>1, <2>4 DEF GilEnter, Quiet
  <2>5. QED
    BY <1>1, <2>3, <2>4 DEF GilEnter
<1>2. CASE GilWait(t) \/ GilExit(t)
  BY <1>0, <1>2 DEF GilWait, GilExit, Free, Quiet
<1>3. CASE Return(t)
  BY <1>0, <1>3 DEF Return, Free, Quiet
<1>4. CASE SetFlag(t)
  BY <1>4 DEF SetFlag, Quiet
<1>5. CASE \E f \in {EXITPOINT_ANY, EXITPOINT_DISABLE, EXITPOINT_ENABLE_SLEEP} : Exitpoint(t, f)
  BY <1>0, <1>5 DEF Exitpoint, Take, Free, Quiet
<1>6. CASE Disable(t)
  BY <1>0, <1>6 DEF Disable, Take, Free, Quiet
<1>7. CASE Deliver(t)
  BY <1>0, <1>7 DEF Deliver, Raise, Quiet
<1>8. CASE HandlePending(t)
  BY <1>0, <1>8 DEF HandlePending, Raise, Free, Quiet
<1>9. CASE t \in Workers /\ Exit(t)
  BY <1>0, <1>9 DEF Exit, Quiet
<1>10. CASE IdeTest \/ IdeStore \/ Throw
  BY <1>10 DEF IdeTest, IdeStore, Throw, Quiet
<1>11. QED
  BY <1>1, <1>2, <1>3, <1>4, <1>5, <1>6, <1>7, <1>8, <1>9, <1>10

\* The steps that link, start and unlink a thread.
LEMMA CreateBase ==
  ASSUME Base, NEW t \in Thread, NEW w \in Workers, Create(t, w), TypeOK'
  PROVE  Base'
<1> USE ThreadAssumption DEF node, exc, mtx, hand, Atomic
<1>0. TypeOK /\ ListOK /\ MutexOK /\ WhoOK /\ w \in Thread /\ w # Main
  BY DEF Base, Thread
<1>1. gc.phase \notin {"scan", "wait"}
  BY <1>0, NoWalk DEF Create, Free
<1>2. list \in Seq(Thread) /\ Len(list) \in Nat
  BY <1>0, LenProperties DEF TypeOK
<1>3. /\ Len(list') = Len(list) + 1
      /\ list'[1] = w
      /\ \A i \in 1..Len(list) : list'[i + 1] = list[i]
  BY <1>0, <1>2, PushNode DEF Create
<1>4. \A u \in Thread : pc'[u] = IF u = w THEN "entry" ELSE pc[u]
  BY <1>0 DEF Create, TypeOK
<1>5. \A i \in 1..Len(list') : list'[i] = IF i = 1 THEN w ELSE list[i - 1]
  <2> SUFFICES ASSUME NEW i \in 1..Len(list') PROVE list'[i] = IF i = 1 THEN w ELSE list[i - 1]
    OBVIOUS
  <2>1. i = 1 \/ (i - 1 \in 1..Len(list) /\ i = (i - 1) + 1)
    BY <1>2, <1>3
  <2>2. QED
    BY <1>3, <2>1
<1>6. w \notin Nodes /\ list # <<>>
  <2>1. w \notin Nodes
    BY <1>0 DEF Create, ListOK, Linked
  <2>2. t \in Nodes
    BY <1>0 DEF Create, ListOK, Linked
  <2>3. QED
    BY <2>1, <2>2, <1>2 DEF Nodes
<1>7. \A i \in 1..Len(list) : list[i] # w
  BY <1>6 DEF Nodes
<1>8. ListOK'
  <2>1. \A i, j \in 1..Len(list') : i # j => list'[i] # list'[j]
    <3> SUFFICES ASSUME NEW i \in 1..Len(list'), NEW j \in 1..Len(list'), i < j
                 PROVE  list'[i] # list'[j]
      BY <1>2, <1>3
    <3>1. j - 1 \in 1..Len(list) /\ list'[j] = list[j - 1]
      BY <1>2, <1>3, <1>5
    <3>2. CASE i = 1
      BY <3>1, <3>2, <1>5, <1>7
    <3>3. CASE i # 1
      <4>1. i - 1 \in 1..Len(list) /\ list'[i] = list[i - 1] /\ i - 1 # j - 1
        BY <3>3, <1>2, <1>3, <1>5
      <4>2. QED
        BY <3>1, <4>1, <1>0 DEF ListOK
    <3>4. QED
      BY <3>2, <3>3
  <2>2. Nodes' = Nodes \cup {w}
    <3>1. ASSUME NEW u \in Nodes' PROVE u \in Nodes \cup {w}
      <4>1. PICK i \in 1..Len(list') : u = list'[i]
        BY <3>1 DEF Nodes
      <4>2. i = 1 \/ i - 1 \in 1..Len(list)
        BY <1>2, <1>3
      <4>3. QED
        BY <4>1, <4>2, <1>5 DEF Nodes
    <3>2. w \in Nodes'
      <4>1. 1 \in 1..Len(list')
        BY <1>2, <1>3
      <4>2. QED
        BY <4>1, <1>3 DEF Nodes
    <3>3. ASSUME NEW u \in Nodes PROVE u \in Nodes'
      <4>1. PICK i \in 1..Len(list) : u = list[i]
        BY <3>3 DEF Nodes
      <4>2. i + 1 \in 1..Len(list') /\ list'[i + 1] = u
        BY <4>1, <1>2, <1>3
      <4>3. QED
        BY <4>2 DEF Nodes
    <3>4. QED
      BY <3>1, <3>2, <3>3
  <2>3. \A u \in Thread : u \in Nodes' <=> pc'[u] \in Linked
    BY <2>2, <1>0, <1>4 DEF ListOK, Linked
  <2>4. ASSUME NEW i \in 1..Len(list')
        PROVE  list'[i] = Main <=> i = Len(list')
    <3>1. Len(list) >= 1
      BY <1>2, <1>6, EmptySeq
    <3>2. CASE i = 1
      BY <3>1, <3>2, <1>0, <1>2, <1>3
    <3>3. CASE i # 1
      <4>1. i - 1 \in 1..Len(list) /\ list'[i] = list[i - 1]
        BY <3>3, <1>2, <1>3, <1>5
      <4>2. list[i - 1] = Main <=> i - 1 = Len(list)
        BY <4>1, <1>0 DEF ListOK
      <4>3. QED
        BY <4>1, <4>2, <1>2, <1>3
    <3>4. QED
      BY <3>2, <3>3
  <2>5. QED
    BY <2>1, <2>3, <2>4 DEF ListOK
<1>9. MutexOK'
  BY <1>0, <1>4 DEF Create, MutexOK, Thread
<1>10. WhoOK'
  <2>1. \A u \in Thread : HasRoots(u)' => ready'[u]
    BY <1>0, <1>4 DEF Create, WhoOK, HasRoots, TypeOK
  <2>2. QED
    BY <2>1, <1>0, <1>4 DEF Create, WhoOK, Thread
<1>11. HandshakeOK' /\ WalkOK'
  BY <1>1 DEF Create, Base, HandshakeOK, WalkOK
<1>12. QED
  BY <1>8, <1>9, <1>10, <1>11 DEF Base

\* A thread that starts keeps the base.
LEMMA StartBase ==
  ASSUME Base, NEW w \in Workers, Start(w), TypeOK'
  PROVE  Base'
<1> USE ThreadAssumption DEF node, exc, mtx, hand, Atomic
<1>0. TypeOK /\ ListOK /\ MutexOK /\ WhoOK /\ w \in Thread /\ w # Main
  BY DEF Base, Thread
<1>1. gc.by # w
  BY <1>0 DEF Start, WhoOK, NoGc
<1>2. gc.phase \notin {"scan", "wait"}
  BY <1>0, <1>1, NoWalk DEF Start
<1>3. \A u \in Thread : pc'[u] = IF u = w THEN "run" ELSE pc[u]
  BY <1>0 DEF Start, TypeOK
<1>4. ListOK'
  <2>1. Nodes' = Nodes
    BY DEF Start, Nodes
  <2>2. \A u \in Thread : pc'[u] \in Linked <=> pc[u] \in Linked
    BY <1>3 DEF Start, Linked
  <2>3. QED
    BY <1>0, <2>1, <2>2 DEF Start, ListOK
<1>5. MutexOK'
  BY <1>0, <1>3 DEF Start, MutexOK, Thread
<1>6. WhoOK'
  <2>1. \A u \in Thread : HasRoots(u)' => ready'[u]
    BY <1>0, <1>3 DEF Start, WhoOK, HasRoots, TypeOK
  <2>2. QED
    BY <2>1, <1>0, <1>3 DEF Start, WhoOK, Thread
<1>7. HandshakeOK' /\ WalkOK'
  BY <1>2 DEF Start, Base, HandshakeOK, WalkOK
<1>8. QED
  BY <1>4, <1>5, <1>6, <1>7 DEF Base

\* A thread that finishes keeps the base.
LEMMA FinishBase ==
  ASSUME Base, NEW w \in Workers, Finish(w), TypeOK'
  PROVE  Base'
<1> USE ThreadAssumption DEF node, exc, mtx, hand, Atomic
<1>0. TypeOK /\ ListOK /\ MutexOK /\ WhoOK /\ w \in Thread /\ w # Main
  BY DEF Base, Thread
<1>1. gc.phase \notin {"scan", "wait"}
  BY <1>0, NoWalk DEF Finish, Free
<1>2. list \in Seq(Thread) /\ Len(list) \in Nat
  BY <1>0, LenProperties DEF TypeOK
<1>3. \A u \in Thread : pc'[u] = IF u = w THEN "unlinked" ELSE pc[u]
  BY <1>0 DEF Finish, TypeOK
<1>4. PICK k \in 1..Len(list) :
        list[k] = w /\ list' = SubSeq(list, 1, k - 1) \o SubSeq(list, k + 1, Len(list))
  BY DEF Finish
<1>5. /\ Len(list') = Len(list) - 1
      /\ \A j \in 1..Len(list') : list'[j] = IF j < k THEN list[j] ELSE list[j + 1]
  BY <1>2, <1>4, RemoveNode
<1>6. /\ k \in Int /\ 1 <= k /\ k <= Len(list)
      /\ Len(list') \in Nat /\ Len(list') = Len(list) - 1
  BY <1>2, <1>5
<1>7. ListOK'
  <2> DEFINE up(j) == IF j < k THEN j ELSE j + 1
  <2>1. \A j \in 1..Len(list') : up(j) \in 1..Len(list) /\ up(j) # k /\ list'[j] = list[up(j)]
    BY <1>2, <1>5
  <2>2. \A i, j \in 1..Len(list') : i # j => list'[i] # list'[j]
    <3> SUFFICES ASSUME NEW i \in 1..Len(list'), NEW j \in 1..Len(list'), i # j
                 PROVE  list'[i] # list'[j]
      OBVIOUS
    <3>1. up(i) # up(j)
      BY <1>2, <1>5
    <3>2. QED
      BY <2>1, <3>1, <1>0 DEF ListOK
  <2>3. \A u \in Thread : u \in Nodes' <=> u \in Nodes /\ u # w
    <3>1. ASSUME NEW u \in Nodes' PROVE u \in Nodes /\ u # w
      <4>1. PICK j \in 1..Len(list') : u = list'[j]
        BY <3>1 DEF Nodes
      <4>2. u = list[up(j)] /\ up(j) \in 1..Len(list) /\ up(j) # k
        BY <4>1, <2>1
      <4>3. QED
        BY <4>2, <1>0, <1>4 DEF Nodes, ListOK
    <3>2. ASSUME NEW u \in Nodes, u # w PROVE u \in Nodes'
      <4>1. PICK i \in 1..Len(list) : u = list[i]
        BY <3>2 DEF Nodes
      <4>2. i # k
        BY <4>1, <3>2, <1>4
      <4>3. CASE i < k
        <5>1. i \in 1..Len(list')
          BY <4>3, <1>2, <1>6
        <5>2. list'[i] = u
          BY <4>1, <4>3, <5>1, <1>5
        <5>3. QED
          BY <5>1, <5>2 DEF Nodes
      <4>4. CASE i > k
        <5>1. /\ i - 1 \in 1..Len(list') /\ ~(i - 1 < k) /\ (i - 1) + 1 = i
          BY <4>4, <1>2, <1>6
        <5>2. list'[i - 1] = u
          BY <5>1, <4>1, <1>5
        <5>3. QED
          BY <5>1, <5>2 DEF Nodes
      <4>5. QED
        BY <4>2, <4>3, <4>4, <1>2
    <3>3. QED
      BY <3>1, <3>2
  <2>4. \A u \in Thread : u \in Nodes' <=> pc'[u] \in Linked
    BY <2>3, <1>0, <1>3 DEF ListOK, Linked
  <2>5. ASSUME NEW i \in 1..Len(list')
        PROVE  list'[i] = Main <=> i = Len(list')
    <3>1. k # Len(list)
      BY <1>0, <1>4 DEF ListOK
    <3>2. list[up(i)] = Main <=> up(i) = Len(list)
      BY <2>1, <1>0 DEF ListOK
    <3>3. up(i) = Len(list) <=> i = Len(list')
      BY <3>1, <1>2, <1>6
    <3>4. QED
      BY <2>1, <3>2, <3>3
  <2>6. QED
    BY <2>2, <2>4, <2>5 DEF ListOK
<1>8. MutexOK'
  BY <1>0, <1>3 DEF Finish, MutexOK, Thread
<1>9. WhoOK'
  <2>1. \A u \in Thread : HasRoots(u)' => ready'[u]
    BY <1>0, <1>3 DEF Finish, WhoOK, HasRoots
  <2>2. QED
    BY <2>1, <1>0, <1>3 DEF Finish, Free, WhoOK, Thread
<1>10. HandshakeOK' /\ WalkOK'
  BY <1>1 DEF Finish, Base, HandshakeOK, WalkOK
<1>11. QED
  BY <1>7, <1>8, <1>9, <1>10 DEF Base

\* The steps of a collection, up to the sweep.
LEMMA CollectBase ==
  ASSUME Base, TypeOK', NEW t \in Thread,
         GcStart(t) \/ GcSignal(t) \/ GcVisit \/ GcWake \/ GcUnlock \/ GcSweep
  PROVE  Base'
<1> USE ThreadAssumption DEF node, exc, mtx, hand
<1>0. TypeOK /\ ListOK /\ MutexOK /\ WhoOK /\ HandshakeOK /\ WalkOK
  BY DEF Base
<1>1. UNCHANGED <<pc, list, ready>>
  BY DEF GcStart, GcSignal, GcVisit, GcWake, GcUnlock, GcSweep
<1>2. ListOK'
  BY <1>0, <1>1 DEF ListOK, Nodes
<1>3. Len(list) \in Nat /\ gc.th \in Nat /\ (\A i \in 1..Len(list) : list[i] \in Thread)
  BY <1>0, ListEnd DEF TypeOK
<1>4. SUFFICES MutexOK' /\ WhoOK' /\ HandshakeOK' /\ WalkOK'
  BY <1>2 DEF Base
<1>5. (\A u \in Thread : HasRoots(u)' => ready'[u]) /\ pc'[Main] = pc[Main]
  BY <1>0, <1>1 DEF WhoOK, HasRoots
<1>6. CASE GcStart(t)
  <2>1. /\ gc.phase = "idle" /\ gc'.phase = "scan" /\ gc'.by = t /\ gc'.th = 1
        /\ gc' # NoGc
    BY <1>0, <1>6 DEF GcStart, NoGc
  <2>2. MutexOK'
    BY <1>0, <1>1, <1>6, <2>1 DEF GcStart, Lock, MutexOK, Thread
  <2>3. WhoOK'
    BY <1>0, <1>1, <1>5, <1>6, <2>1 DEF GcStart, WhoOK
  <2>4. HandshakeOK' /\ WalkOK'
    BY <1>0, <1>1, <1>3, <1>6, <2>1 DEF GcStart, HandshakeOK, WalkOK
  <2>5. QED
    BY <2>2, <2>3, <2>4
<1>7. CASE GcSignal(t)
  <2>1. gc.phase = "wait" /\ sem = 0 /\ sig = {list[gc.th]} /\ t = list[gc.th]
    BY <1>0, <1>7 DEF GcSignal, HandshakeOK
  <2>2. MutexOK' /\ WhoOK'
    BY <1>0, <1>1, <1>5, <1>7 DEF GcSignal, MutexOK, WhoOK
  <2>3. sem' = 1 /\ sig' = {} /\ scanned' = scanned \cup {t} /\ gc' = gc
    BY <1>7, <2>1 DEF GcSignal
  <2>4. HandshakeOK' /\ WalkOK'
    BY <1>0, <1>1, <2>1, <2>3 DEF HandshakeOK, WalkOK
  <2>5. QED
    BY <2>2, <2>4
<1>8. CASE GcVisit
  <2> DEFINE th == list[gc.th]
  <2>1. /\ gc.phase = "scan" /\ gc.th \in 1..Len(list) /\ th \in Thread
        /\ sem = 0 /\ sig = {} /\ gc.by \in Thread /\ gc.by \in scanned
    BY <1>0, <1>3, <1>8 DEF GcVisit, HandshakeOK, WhoOK, WalkOK
  <2>2. CASE th = gc.by \/ ~ready[th]
    <3>1. /\ gc' = [gc EXCEPT !.th = @ + 1]
          /\ UNCHANGED <<owner, depth, sem, sig, scanned>>
      BY <1>8, <2>2 DEF GcVisit
    <3>2. gc'.phase = "scan" /\ gc'.by = gc.by /\ gc'.th = gc.th + 1 /\ gc' # NoGc
      BY <1>0, <2>1, <3>1 DEF TypeOK, NoGc
    <3>3. MutexOK' /\ WhoOK'
      BY <1>0, <1>1, <1>5, <2>1, <3>1, <3>2 DEF MutexOK, WhoOK
    <3>4. HandshakeOK'
      BY <2>1, <3>1, <3>2 DEF HandshakeOK
    <3>5. ASSUME NEW j \in 1..Len(list), j < gc.th + 1, ready[list[j]]
          PROVE  list[j] \in scanned
      <4>1. j < gc.th \/ j = gc.th
        BY <1>3, <3>5
      <4>2. QED
        BY <4>1, <1>0, <2>1, <2>2, <3>5 DEF WalkOK
    <3>6. WalkOK'
      BY <1>1, <1>3, <2>1, <3>1, <3>2, <3>5 DEF WalkOK
    <3>7. QED
      BY <3>3, <3>4, <3>6
  <2>3. CASE th # gc.by /\ ready[th]
    <3>1. /\ gc' = [gc EXCEPT !.phase = "wait"]
          /\ sig' = {th}
          /\ UNCHANGED <<owner, depth, sem, scanned>>
      BY <1>8, <2>1, <2>3 DEF GcVisit
    <3>2. gc'.phase = "wait" /\ gc'.by = gc.by /\ gc'.th = gc.th /\ gc' # NoGc
      BY <1>0, <2>1, <3>1 DEF TypeOK, NoGc
    <3>3. MutexOK' /\ WhoOK'
      BY <1>0, <1>1, <1>5, <2>1, <3>1, <3>2 DEF MutexOK, WhoOK
    <3>4. HandshakeOK'
      BY <1>1, <2>1, <3>1, <3>2 DEF HandshakeOK
    <3>5. WalkOK'
      BY <1>0, <1>1, <1>3, <2>1, <3>1, <3>2 DEF WalkOK
    <3>6. QED
      BY <3>3, <3>4, <3>5
  <2>4. QED
    BY <2>2, <2>3
<1>9. CASE GcWake
  <2>1. /\ gc.phase = "wait" /\ sem = 1 /\ sig = {} /\ list[gc.th] \in scanned
        /\ gc.th \in 1..Len(list)
    BY <1>0, <1>3, <1>9 DEF GcWake, HandshakeOK, WalkOK
  <2>2. sem' = 0 /\ UNCHANGED <<owner, depth, sig, scanned>>
    BY <1>9, <2>1 DEF GcWake
  <2>3. gc'.phase = "scan" /\ gc'.by = gc.by /\ gc'.th = gc.th + 1 /\ gc' # NoGc
    BY <1>0, <1>9 DEF GcWake, TypeOK, NoGc
  <2>4. MutexOK' /\ WhoOK'
    BY <1>0, <1>1, <1>5, <2>1, <2>2, <2>3 DEF MutexOK, WhoOK
  <2>5. HandshakeOK'
    BY <2>1, <2>2, <2>3 DEF HandshakeOK
  <2>6. ASSUME NEW j \in 1..Len(list), j < gc.th + 1, ready[list[j]]
        PROVE  list[j] \in scanned
    <3>1. j < gc.th \/ j = gc.th
      BY <1>3, <2>6
    <3>2. QED
      BY <3>1, <1>0, <2>1, <2>6 DEF WalkOK
  <2>7. WalkOK'
    BY <1>0, <1>1, <1>3, <2>1, <2>2, <2>3, <2>6 DEF WalkOK
  <2>8. QED
    BY <2>4, <2>5, <2>7
<1>10. CASE GcUnlock
  <2>1. gc.phase = "scan" /\ gc'.phase = "sweep" /\ gc'.by = gc.by /\ gc' # NoGc
    BY <1>0, <1>10 DEF GcUnlock, TypeOK, NoGc
  <2>2. owner' = (IF depth = 1 THEN NoThread ELSE gc.by) /\ depth' = depth - 1
    BY <1>10 DEF GcUnlock, Unlock
  <2>3. MutexOK'
    BY <1>0, <1>1, <2>1, <2>2 DEF MutexOK, WhoOK, Thread
  <2>4. WhoOK'
    BY <1>0, <1>1, <1>5, <2>1 DEF WhoOK
  <2>5. HandshakeOK' /\ WalkOK'
    BY <1>0, <1>10, <2>1 DEF GcUnlock, HandshakeOK, WalkOK
  <2>6. QED
    BY <2>3, <2>4, <2>5
<1>11. CASE GcSweep
  <2>1. gc.phase = "sweep" /\ gc' = NoGc /\ gc'.phase = "idle"
    BY <1>11 DEF GcSweep, NoGc
  <2>2. MutexOK' /\ WhoOK'
    BY <1>0, <1>1, <1>5, <1>11, <2>1 DEF GcSweep, MutexOK, WhoOK
  <2>3. HandshakeOK' /\ WalkOK'
    BY <1>0, <1>11, <2>1 DEF GcSweep, HandshakeOK, WalkOK
  <2>4. QED
    BY <2>2, <2>3
<1>12. QED
  BY <1>6, <1>7, <1>8, <1>9, <1>10, <1>11

\* The steps of the main thread at the end of a session.
LEMMA EndBase ==
  ASSUME Base, TypeOK', MainExit \/ ThrowEnd \/ Deinit \/ SoftReset
  PROVE  Base'
<1> USE ThreadAssumption DEF node, exc, mtx, hand
<1>0. /\ TypeOK /\ ListOK /\ MutexOK /\ WhoOK /\ HandshakeOK /\ WalkOK
      /\ Main \in Thread /\ pc \in [Thread -> PC]
  BY DEF Base, Thread, TypeOK
<1>1. SUFFICES ListOK' /\ MutexOK' /\ WhoOK' /\ HandshakeOK' /\ WalkOK'
  BY DEF Base
<1>2. CASE MainExit \/ ThrowEnd
  <2>1. /\ UNCHANGED <<list, ready, gc, sem, sig, scanned>>
        /\ \A u \in Thread : u # Main => pc'[u] = pc[u]
        /\ pc[Main] \in Linked /\ pc'[Main] \in {"throw", "deinit"}
        /\ gc.by # Main
    BY <1>0, <1>2 DEF MainExit, ThrowEnd, Free, WhoOK, NoGc, Linked
  <2>2. gc.phase \notin {"scan", "wait"}
    BY <1>0, <1>2, <2>1 DEF MainExit, ThrowEnd, Lock, MutexOK, WhoOK, Thread
  <2>3. ListOK'
    <3>1. Nodes' = Nodes
      BY <2>1 DEF Nodes
    <3>2. \A u \in Thread : pc'[u] \in Linked <=> pc[u] \in Linked
      BY <2>1 DEF Linked
    <3>3. QED
      BY <1>0, <2>1, <3>1, <3>2 DEF ListOK
  <2>4. MutexOK'
    <3>1. CASE MainExit
      BY <1>0, <2>2, <3>1 DEF MainExit, Lock, MutexOK
    <3>2. CASE ThrowEnd
      BY <1>0, <2>2, <3>2 DEF ThrowEnd, Unlock, MutexOK
    <3>3. QED
      BY <1>2, <3>1, <3>2
  <2>5. WhoOK'
    <3>1. HasRoots(Main)
      BY <1>2 DEF MainExit, ThrowEnd, HasRoots
    <3>2. \A u \in Thread : HasRoots(u)' => ready'[u]
      BY <1>0, <2>1, <3>1 DEF WhoOK, HasRoots
    <3>3. QED
      BY <1>0, <2>1, <3>2 DEF WhoOK, Thread
  <2>6. HandshakeOK' /\ WalkOK'
    BY <1>0, <2>1, <2>2 DEF HandshakeOK, WalkOK
  <2>7. QED
    BY <2>3, <2>4, <2>5, <2>6
<1>3. CASE Deinit
  <2>1. /\ list' = <<>> /\ Len(list') = 0
        /\ UNCHANGED <<ready, gc, sem, sig, scanned, owner, depth>>
        /\ Len(list) = 1 /\ owner \in {NoThread, Main}
        /\ \A u \in Thread : pc'[u] = IF u = Main THEN "torn" ELSE pc[u]
    BY <1>0, <1>3, EmptySeq DEF Deinit, Atomic
  <2>2. gc.by # Main
    BY <1>0, <1>3 DEF Deinit, WhoOK, NoGc
  <2>3. gc.phase \notin {"scan", "wait"}
    BY <1>0, <2>1, <2>2, NoWalk
  <2>4. \A u \in Thread : u # Main => pc[u] \notin Linked
    <3>1. list[1] = Main
      BY <1>0, <2>1 DEF ListOK
    <3>2. Nodes = {Main}
      BY <2>1, <3>1 DEF Nodes
    <3>3. QED
      BY <1>0, <3>2 DEF ListOK
  <2>5. ListOK'
    <3>1. Nodes' = {}
      BY <2>1 DEF Nodes
    <3>2. \A u \in Thread : pc'[u] \notin Linked
      BY <2>1, <2>4 DEF Linked
    <3>3. QED
      BY <2>1, <3>1, <3>2 DEF ListOK
  <2>6. MutexOK'
    BY <1>0, <1>3, <2>1 DEF Deinit, MutexOK
  <2>7. WhoOK'
    <3>1. \A u \in Thread : HasRoots(u)' => ready'[u]
      BY <1>0, <2>1 DEF WhoOK, HasRoots
    <3>2. QED
      BY <1>0, <2>1, <2>2, <3>1 DEF WhoOK, Thread
  <2>8. HandshakeOK' /\ WalkOK'
    BY <1>0, <2>1, <2>3 DEF HandshakeOK, WalkOK
  <2>9. QED
    BY <2>5, <2>6, <2>7, <2>8
<1>4. CASE SoftReset
  <2>1. \A u \in Thread : pc[u] \notin Linked
    BY <1>0, <1>4, ListEnd DEF SoftReset
  <2>2. gc = NoGc /\ gc.phase = "idle"
    BY <1>0, <2>1 DEF WhoOK, Linked
  <2>3. /\ list' = <<Main>> /\ Len(list') = 1 /\ list'[1] = Main
        /\ \A u \in Thread : pc'[u] = IF u = Main THEN "run" ELSE pc[u]
        /\ \A u \in Thread : ready'[u] = IF u = Main THEN TRUE ELSE ready[u]
        /\ owner' = NoThread /\ depth' = 0 /\ sem' = 0
        /\ UNCHANGED <<gc, sig, scanned>>
    BY <1>0, <1>4 DEF SoftReset, TypeOK
  <2>4. ListOK'
    <3>1. Nodes' = {Main}
      BY <2>3 DEF Nodes
    <3>2. \A u \in Thread : pc'[u] \in Linked <=> u = Main
      BY <2>1, <2>3 DEF Linked
    <3>3. QED
      BY <2>3, <3>1, <3>2 DEF ListOK
  <2>5. MutexOK'
    BY <1>0, <2>2, <2>3 DEF MutexOK
  <2>6. WhoOK'
    <3>1. \A u \in Thread : HasRoots(u)' => ready'[u]
      BY <1>0, <2>3 DEF WhoOK, HasRoots
    <3>2. QED
      BY <1>0, <2>2, <2>3, <3>1 DEF WhoOK, Thread
  <2>7. HandshakeOK' /\ WalkOK'
    BY <1>0, <2>2, <2>3 DEF HandshakeOK, WalkOK
  <2>8. QED
    BY <2>4, <2>5, <2>6, <2>7
<1>5. QED
  BY <1>2, <1>3, <1>4

\* Every step keeps the base.
LEMMA BaseStep == Base /\ [Next]_vars => Base'
<1> SUFFICES ASSUME Base, [Next]_vars PROVE Base'
  OBVIOUS
<1>0. TypeOK'
  BY TypeStep
<1>1. ASSUME NEW t \in Thread, Python(t) PROVE Base'
  <2>1. CASE \E w \in Workers : Create(t, w)
    BY <2>1, <1>0, CreateBase
  <2>2. CASE ~\E w \in Workers : Create(t, w)
    BY <1>1, <2>2, <1>0, QuietSteps, QuietBase DEF Python
  <2>3. QED
    BY <2>1, <2>2
<1>2. ASSUME NEW w \in Workers, Worker(w) PROVE Base'
  BY <1>2, <1>0, StartBase, FinishBase, QuietSteps, QuietBase DEF Worker, Thread
<1>3. CASE Collect
  BY <1>3, <1>0, CollectBase DEF Collect, Thread
<1>4. CASE IdeTest \/ IdeStore
  BY <1>4, <1>0, QuietSteps, QuietBase DEF Thread
<1>5. CASE EndSession
  BY <1>5, <1>0, EndBase, QuietSteps, QuietBase DEF EndSession, Thread
<1>6. CASE UNCHANGED vars
  <2>1. Quiet
    BY <1>6 DEF vars, node, Quiet
  <2>2. QED
    BY <2>1, <1>0, QuietBase
<1>7. QED
  BY <1>1, <1>2, <1>3, <1>4, <1>5, <1>6 DEF Next

\* Every reachable state satisfies Base, with no assumption about timing.
THEOREM BaseInvariant == Spec => []Base
<1>1. QED
  BY BaseInit, BaseStep, PTL DEF Spec

\* The variables have their types in every reachable state.
THEOREM TypeCorrect == Spec => []TypeOK
<1>1. Base => TypeOK
  BY DEF Base
<1>2. QED
  BY <1>1, BaseInvariant, PTL

\* The thread list is well formed: mp_thread_set_exception_other reaches every
\* thread but the main one, and mp_thread_deinit never misses one.
THEOREM ListCorrect == Spec => []ListOK
<1>1. Base => ListOK
  BY DEF Base
<1>2. QED
  BY <1>1, BaseInvariant, PTL

\* The semaphore of the GC handshake never carries an answer over to the wait
\* for another thread.
THEOREM HandshakeCorrect == Spec => []HandshakeOK
<1>1. Base => HandshakeOK
  BY DEF Base
<1>2. QED
  BY <1>1, BaseInvariant, PTL

\* The main thread tears the session down only when no other thread can still
\* run Python.
THEOREM TornAloneCorrect == Spec => []TornAlone
<1>1. Base => TornAlone
  <2> SUFFICES ASSUME Base, pc[Main] = "torn", NEW w \in Workers
               PROVE  pc[w] \in {"none", "unlinked"}
    BY DEF TornAlone
  <2>1. pc[w] \notin Linked /\ pc[w] \in PC /\ pc[w] \notin {"throw", "deinit", "torn"}
    BY ListEnd DEF Base, TypeOK, WhoOK, Thread
  <2>2. QED
    BY <2>1 DEF Linked, PC
<1>2. QED
  BY <1>1, BaseInvariant, PTL

\* No step changes the list while mp_thread_gc_others walks it.
THEOREM ListFrozenCorrect == Spec => ListFrozen
<1>1. Base /\ [Next]_vars => [gc.phase \in {"scan", "wait"} => list' = list]_vars
  <2> SUFFICES ASSUME Base, Next, gc.phase \in {"scan", "wait"}
               PROVE  list' = list
    BY DEF vars
  <2> USE ThreadAssumption DEF node, exc, mtx, hand
  <2>0. \A t \in Thread : owner \in {NoThread, t} => gc.by = t
    BY NoWalk
  <2>1. ASSUME NEW t \in Thread, Python(t) PROVE list' = list
    BY <2>0, <2>1 DEF Python, Create, Atomic, Free, GilWait, GilEnter, GilExit, Return, SetFlag,
                      Exitpoint, Disable, Deliver, HandlePending
  <2>2. ASSUME NEW w \in Workers, Worker(w) PROVE list' = list
    BY <2>0, <2>2 DEF Worker, Start, Finish, Exit, Atomic, Free, Thread
  <2>3. CASE Collect \/ IdeTest \/ IdeStore
    BY <2>3 DEF Collect, GcStart, GcSignal, GcVisit, GcWake, GcUnlock, GcSweep, IdeTest, IdeStore
  <2>4. CASE MainExit \/ Throw \/ ThrowEnd
    BY <2>4 DEF MainExit, Throw, ThrowEnd
  <2>5. CASE Deinit \/ SoftReset
    <3>1. gc.by \in Thread /\ pc[gc.by] \in {"run", "throw"}
      BY DEF Base, WhoOK
    <3>2. CASE Deinit
      BY <2>0, <3>1, <3>2 DEF Deinit, Atomic, Thread
    <3>3. CASE SoftReset
      BY <3>1, <3>3, ListEnd DEF SoftReset, Base, Linked
    <3>4. QED
      BY <2>5, <3>2, <3>3
  <2>6. QED
    BY <2>1, <2>2, <2>3, <2>4, <2>5 DEF Next, EndSession
<1>2. QED
  BY <1>1, BaseInvariant, PTL DEF Spec, ListFrozen

-----------------------------------------------------------------------------
(* The GIL, until a thread gives up one that is not its own                *)

\* The GIL's part holds at the start.
LEMMA GilInit == Init => GilOK
<1> SUFFICES ASSUME Init PROVE GilOK
  OBVIOUS
<1>1. \A t \in Thread : pc[t] = IF t = Main THEN "run" ELSE "none"
  BY DEF Init
<1>2. gc.phase = "idle" /\ gil = Main
  BY DEF Init, NoGc
<1>3. QED
  BY <1>1, <1>2 DEF GilOK, GilOwned, RunsPython, SweepSafe

\* A stolen GIL stays stolen.
LEMMA StolenStays == [Next]_vars /\ stolen => stolen'
BY DEF vars, Next, Python, Create, GilWait, GilEnter, GilExit, Return, SetFlag, Exitpoint, Disable, Deliver,
       HandlePending, Worker, Start, Finish, Exit, Collect, GcStart, GcSignal, GcVisit, GcWake,
       GcUnlock, GcSweep, IdeTest, IdeStore, EndSession, MainExit, Throw, ThrowEnd, Deinit, SoftReset

\* The holder of the GIL.
LEMMA GilStep ==
  ASSUME Base, GilOwned, Next, ~stolen'
  PROVE  (\A t \in Thread : RunsPython(t) => gil = t)'
<1> USE ThreadAssumption DEF node, exc, mtx, hand
<1>0. /\ pc \in [Thread -> PC] /\ Main \in Thread
      /\ \A t \in Thread : RunsPython(t) => gil = t
      /\ \A w \in Workers : w \in Thread /\ w # Main
  <2>1. ~stolen
    BY StolenStays
  <2>2. QED
    BY <2>1 DEF Base, TypeOK, GilOwned, Thread
<1>1. ASSUME NEW t \in Thread, Python(t)
      PROVE  (\A u \in Thread : RunsPython(u) => gil = u)'
  <2>1. CASE \E w \in Workers : Create(t, w)
    BY <1>0, <2>1 DEF Create, RunsPython
  <2>2. CASE GilWait(t) \/ GilEnter(t)
    BY <1>0, <2>2 DEF GilWait, GilEnter, RunsPython, Thread
  <2>3. CASE GilExit(t)
    BY <1>0, <2>3 DEF GilExit, RunsPython, Thread
  <2>4. CASE Return(t)
    BY <1>0, <2>4 DEF Return, RunsPython
  <2>5. CASE SetFlag(t)
    BY <1>0, <2>5 DEF SetFlag, RunsPython
  <2>6. CASE (\E f \in {EXITPOINT_ANY, EXITPOINT_DISABLE, EXITPOINT_ENABLE_SLEEP} : Exitpoint(t, f))
             \/ Disable(t)
    BY <1>0, <2>6 DEF Exitpoint, Disable, Take, RunsPython
  <2>7. CASE Deliver(t) \/ HandlePending(t)
    BY <1>0, <2>7 DEF Deliver, HandlePending, Raise, RunsPython
  <2>8. QED
    BY <1>1, <2>1, <2>2, <2>3, <2>4, <2>5, <2>6, <2>7 DEF Python
<1>2. ASSUME NEW w \in Workers, Worker(w)
      PROVE  (\A u \in Thread : RunsPython(u) => gil = u)'
  <2>1. CASE Start(w)
    BY <1>0, <2>1 DEF Start, RunsPython
  <2>2. CASE Finish(w)
    BY <1>0, <2>2 DEF Finish, RunsPython
  <2>3. CASE Exit(w)
    BY <1>0, <2>3 DEF Exit, RunsPython, Thread
  <2>4. QED
    BY <1>2, <2>1, <2>2, <2>3 DEF Worker
<1>3. CASE Collect \/ IdeTest \/ IdeStore
  BY <1>0, <1>3 DEF Collect, GcStart, GcSignal, GcVisit, GcWake, GcUnlock, GcSweep,
                    IdeTest, IdeStore, RunsPython
<1>4. CASE MainExit \/ Throw
  BY <1>0, <1>4 DEF MainExit, Throw, RunsPython
<1>5. CASE ThrowEnd
  BY <1>0, <1>5 DEF ThrowEnd, RunsPython, Thread
<1>6. CASE Deinit
  BY <1>0, <1>6 DEF Deinit, RunsPython
<1>7. CASE SoftReset
  <2>1. \A t \in Thread : ~RunsPython(t)
    <3>1. \A t \in Thread : pc[t] \notin Linked
      BY <1>7, ListEnd DEF Base, SoftReset
    <3>2. QED
      BY <3>1 DEF RunsPython, Linked
  <2>2. /\ gil' = Main
        /\ \A t \in Thread : pc'[t] = IF t = Main THEN "run" ELSE pc[t]
    BY <1>0, <1>7 DEF SoftReset
  <2>3. QED
    BY <2>1, <2>2 DEF RunsPython
<1>8. QED
  BY <1>1, <1>2, <1>3, <1>4, <1>5, <1>6, <1>7 DEF Next, EndSession

\* What the walk scanned is all there is at the sweep.
LEMMA SweepStep ==
  ASSUME Base, GilOK, Next, ~stolen, ~stolen'
  PROVE  SweepSafe'
<1> USE ThreadAssumption DEF node, exc, mtx, hand
<1>0. /\ pc \in [Thread -> PC] /\ ListOK /\ WhoOK /\ HandshakeOK /\ WalkOK
      /\ Len(list) \in Nat
  BY ListEnd DEF Base, TypeOK
<1>1. CASE GcUnlock
  <2>1. /\ \A j \in 1..Len(list) : ready[list[j]] => list[j] \in scanned
        /\ UNCHANGED <<pc, scanned>>
    BY <1>0, <1>1 DEF GcUnlock, WalkOK
  <2>2. \A t \in Thread : HasRoots(t) => t \in Nodes /\ ready[t]
    BY <1>0 DEF HasRoots, ListOK, Linked, WhoOK
  <2>3. \A t \in Thread : HasRoots(t) => t \in scanned
    BY <2>1, <2>2 DEF Nodes
  <2>4. QED
    BY <2>1, <2>3 DEF SweepSafe, HasRoots
<1>2. CASE gc.phase = "sweep" /\ ~GcSweep
  <2>1. gc.by \in Thread /\ gil = gc.by /\ gil \in Thread /\ sig = {}
    BY <1>0, <1>2 DEF WhoOK, HandshakeOK, GilOK, GilOwned, RunsPython
  <2>2. \A t \in Thread : HasRoots(t) => t \in scanned
    BY <1>2 DEF GilOK, SweepSafe
  <2>3. (\A t \in Thread : HasRoots(t)' => HasRoots(t)) /\ scanned' = scanned
    <3>1. ASSUME NEW t \in Thread, Python(t)
          PROVE  (\A u \in Thread : HasRoots(u)' => HasRoots(u)) /\ scanned' = scanned
      <4>1. ~GilEnter(t)
        BY <2>1 DEF GilEnter, Thread
      <4>2. CASE \E w \in Workers : Create(t, w)
        BY <1>0, <4>2 DEF Create, HasRoots
      <4>3. CASE GilWait(t) \/ GilExit(t) \/ Return(t) \/ SetFlag(t)
        BY <1>0, <4>3 DEF GilWait, GilExit, Return, SetFlag, HasRoots
      <4>4. CASE (\E f \in {EXITPOINT_ANY, EXITPOINT_DISABLE, EXITPOINT_ENABLE_SLEEP} : Exitpoint(t, f))
                 \/ Disable(t)
        BY <1>0, <4>4 DEF Exitpoint, Disable, Take, HasRoots
      <4>5. CASE Deliver(t) \/ HandlePending(t)
        BY <1>0, <4>5 DEF Deliver, HandlePending, Raise, HasRoots
      <4>6. QED
        BY <3>1, <4>1, <4>2, <4>3, <4>4, <4>5 DEF Python
    <3>2. ASSUME NEW w \in Workers, Worker(w)
          PROVE  (\A u \in Thread : HasRoots(u)' => HasRoots(u)) /\ scanned' = scanned
      <4>1. ~Start(w)
        <5>1. ASSUME Start(w) PROVE gc.by = w
          BY <5>1, <2>1 DEF Start, GilOK, GilOwned, RunsPython, Thread
        <5>2. ASSUME Start(w), gc.by = w PROVE FALSE
          BY <5>2, <1>0, <1>2 DEF Start, WhoOK
        <5>3. QED
          BY <5>1, <5>2
      <4>2. QED
        BY <1>0, <3>2, <4>1 DEF Worker, Finish, Exit, HasRoots
    <3>3. CASE Collect
      BY <1>2, <2>1, <3>3 DEF Collect, GcStart, GcSignal, GcVisit, GcWake, GcUnlock, NoGc, HasRoots
    <3>4. CASE IdeTest \/ IdeStore
      BY <3>4 DEF IdeTest, IdeStore, HasRoots
    <3>5. CASE EndSession
      <4>1. ~SoftReset
        <5>1. ASSUME SoftReset PROVE FALSE
          BY <5>1, <2>1, <1>0, <1>2, ListEnd DEF SoftReset, Base, WhoOK, Linked
        <5>2. QED
          BY <5>1
      <4>2. CASE MainExit
        BY <1>0, <4>2 DEF MainExit, HasRoots
      <4>3. CASE Throw \/ ThrowEnd
        BY <1>0, <4>3 DEF Throw, ThrowEnd, HasRoots
      <4>4. CASE Deinit
        BY <1>0, <4>4 DEF Deinit, HasRoots
      <4>5. QED
        BY <3>5, <4>1, <4>2, <4>3, <4>4 DEF EndSession
    <3>6. QED
      BY <3>1, <3>2, <3>3, <3>4, <3>5 DEF Next
  <2>4. QED
    BY <2>2, <2>3 DEF SweepSafe
<1>3. CASE gc.phase # "sweep" /\ ~GcUnlock
  <2>1. gc \in [by : Thread \cup {NoThread},
               phase : {"idle", "scan", "wait", "sweep"}, th : Nat]
    BY DEF Base, TypeOK
  <2>2. ASSUME Collect PROVE gc'.phase # "sweep"
    <3>1. CASE \E t \in Thread : GcStart(t) \/ GcSignal(t)
      BY <1>3, <3>1 DEF GcStart, GcSignal
    <3>2. CASE GcVisit
      <4>1. gc' = [gc EXCEPT !.th = @ + 1] \/ gc' = [gc EXCEPT !.phase = "wait"]
        BY <3>2 DEF GcVisit
      <4>2. QED
        BY <1>3, <2>1, <4>1
    <3>3. CASE GcWake
      BY <2>1, <3>3 DEF GcWake
    <3>4. CASE GcSweep
      BY <3>4 DEF GcSweep, NoGc
    <3>5. QED
      BY <1>3, <2>2, <3>1, <3>2, <3>3, <3>4 DEF Collect
  <2>3. ASSUME NEW t \in Thread, Python(t) PROVE gc' = gc
    BY <2>3 DEF Python, Create, GilWait, GilEnter, GilExit, Return, SetFlag, Exitpoint, Disable,
                Deliver, HandlePending
  <2>4. ASSUME NEW w \in Workers, Worker(w) PROVE gc' = gc
    BY <2>4 DEF Worker, Start, Finish, Exit
  <2>5. ASSUME IdeTest \/ IdeStore \/ EndSession PROVE gc' = gc
    BY <2>5 DEF IdeTest, IdeStore, EndSession, MainExit, Throw, ThrowEnd, Deinit, SoftReset
  <2>6. gc'.phase # "sweep"
    BY <1>3, <2>2, <2>3, <2>4, <2>5 DEF Next
  <2>7. QED
    BY <2>6 DEF SweepSafe
<1>4. CASE GcSweep
  BY <1>4 DEF GcSweep, NoGc, SweepSafe
<1>5. QED
  BY <1>1, <1>2, <1>3, <1>4

\* Every step keeps the inductive invariant.
LEMMA IInvStep == IInv /\ [Next]_vars => IInv'
<1> SUFFICES ASSUME IInv, [Next]_vars PROVE IInv'
  OBVIOUS
<1>1. Base'
  BY BaseStep DEF IInv
<1>2. CASE stolen'
  BY <1>1, <1>2 DEF IInv, GilOK, GilOwned, SweepSafe
<1>3. CASE Next /\ ~stolen'
  <2>1. ~stolen
    BY <1>3, StolenStays
  <2>2. GilOwned'
    BY <1>3, <2>1, GilStep DEF IInv, GilOK, GilOwned
  <2>3. SweepSafe'
    BY <1>3, <2>1, SweepStep DEF IInv
  <2>4. QED
    BY <1>1, <2>2, <2>3 DEF IInv, GilOK
<1>4. CASE UNCHANGED vars
  BY <1>1, <1>4 DEF vars, hand, IInv, GilOK, GilOwned, RunsPython, SweepSafe, HasRoots
<1>5. QED
  BY <1>2, <1>3, <1>4

\* The inductive invariant holds in every behaviour.
LEMMA IInvInvariant == Spec => []IInv
<1>1. Init => IInv
  BY BaseInit, GilInit DEF IInv
<1>2. IInv /\ [Next]_vars => IInv'
  BY IInvStep
<1>3. QED
  BY <1>1, <1>2, PTL DEF Spec

\* At most one thread executes Python, across soft resets too and with no assumption
\* on time, until a thread of an ended session gives up the GIL of another.
THEOREM GilCorrect == Spec => []GilExclusive
<1>1. IInv => GilExclusive
  BY DEF IInv, GilOK, GilOwned, GilExclusive
<1>2. QED
  BY <1>1, IInvInvariant, PTL

\* A sweep never misses the stack of a thread that may hold references, until then.
THEOREM SweepCorrect == Spec => []SweepSafe
<1>1. IInv => SweepSafe
  BY DEF IInv, GilOK
<1>2. QED
  BY <1>1, IInvInvariant, PTL
=============================================================================
