------------------------------ MODULE MpThread ------------------------------
(***************************************************************************)
(* The MicroPython thread layer of the big core: core/mpthreadport.c with  *)
(* the part of core/main.c that stops a session.  It covers the linked     *)
(* list of threads, the stop-the-world handshake of the garbage collector  *)
(* (one signal and one semaphore wait per thread), the exceptions that one *)
(* thread leaves for another one, and the tear-down and soft reset.        *)
(*                                                                         *)
(* The interpreter around it (_thread, the GIL, mp_handle_pending) is not  *)
(* in the repository; it is modelled from how the port uses it.            *)
(***************************************************************************)
EXTENDS Integers, Sequences

CONSTANTS
  Main,       \* the thread that runs main_()
  Workers,    \* the identities _thread.start_new_thread can hand out
  NoThread,   \* nobody: a free mutex
  MayCatch    \* TRUE: a script may catch the exception raised into it

ASSUME ThreadAssumption ==
  /\ Main \notin Workers
  /\ NoThread \notin Workers \cup {Main}
  /\ MayCatch \in BOOLEAN

Thread == Workers \cup {Main}

(***************************************************************************)
(* Exception slots.  "ide" is a statically allocated object, "exit" a      *)
(* SystemExit allocated on the MicroPython heap, "dangling" a slot that    *)
(* still points to one after a collection has swept it, or was never set.  *)
(***************************************************************************)
Exception == {"none", "ide", "exit", "dangling"}

EXITPOINT_ANY          == -1
EXITPOINT_DISABLE      == 0
EXITPOINT_ENABLE       == 1
EXITPOINT_ENABLE_SLEEP == 2
Flag == {EXITPOINT_DISABLE, EXITPOINT_ENABLE, EXITPOINT_ENABLE_SLEEP}

VARIABLES
  pc,              \* where each thread is
  list,            \* the list `thread`: newest node first, the main node last
  ready,           \* th->ready
  exitpoint_flag,  \* th->exitpoint_flag
  exception,       \* th->exception
  pending,         \* MP_STATE_THREAD(mp_pending_exception)
  gil,             \* who locked the GIL last, NoThread when it is free
  owner, depth,    \* the recursive thread_mutex
  gc,              \* the collection under way
  sem,             \* the count of thread_signal_done
  sig,             \* threads with the GC signal pending
  scanned,         \* threads whose stack this collection has scanned
  at,              \* the position of the loop of set_exception_other
  ide,             \* the IDE task inside mp_thread_set_exception_main
  told,            \* history: threads given a SystemExit they have not raised
  stolen           \* history: a thread has given up a GIL that was not its own

node == <<list, ready, exitpoint_flag>>
exc  == <<exception, pending, told, ide>>
hand == <<sem, sig, scanned>>
mtx  == <<owner, depth>>
vars == <<pc, node, exc, gil, stolen, mtx, gc, hand, at>>

NoGc == [by |-> NoThread, phase |-> "idle", th |-> 0]

Nodes == {list[i] : i \in 1..Len(list)}

\* A thread that is collecting does nothing else.
Free(t) == gc.by # t

\* pthread_mutex_lock and unlock of the recursive thread_mutex.
Lock(t) == /\ owner \in {NoThread, t}
           /\ owner' = t
           /\ depth' = depth + 1
UnlockTwice(t) == /\ owner' = NoThread        \* mutated: released twice
                  /\ depth' = depth - 2
Unlock(t) == /\ owner' = IF depth = 1 THEN NoThread ELSE t
             /\ depth' = depth - 1
\* A critical section without a step of another thread inside it.
AtomicNoWait(t) == UNCHANGED mtx                \* mutated: the mutex is not taken
Atomic(t) == owner \in {NoThread, t} /\ UNCHANGED mtx

\* A thread between its GIL_ENTER and the last Python or C code before GIL_EXIT.
RunsPython(t) == pc[t] \in {"start", "run", "deliver", "finish", "throw"}

\* A thread whose stack may hold references into the heap: it runs Python.
HasRoots(t) == pc[t] \in {"run", "out", "back", "deliver", "finish", "throw", "deinit"}

Init ==
  /\ pc = [t \in Thread |-> IF t = Main THEN "run" ELSE "none"]
  /\ list = <<Main>>
  /\ ready = [t \in Thread |-> t = Main]
  /\ exitpoint_flag = [t \in Thread |-> EXITPOINT_DISABLE]
  /\ exception = [t \in Thread |-> "none"]
  /\ pending = [t \in Thread |-> "none"]
  /\ gil = Main
  /\ owner = NoThread /\ depth = 0
  /\ gc = NoGc /\ sem = 0 /\ sig = {} /\ scanned = {}
  /\ at = 1
  /\ ide = "idle"
  /\ told = {}
  /\ stolen = FALSE

-----------------------------------------------------------------------------
(* Threads: creation, start, the GIL, the end                              *)

\* mp_thread_create: under the mutex the pthread is created and its node is
\* linked, not ready.  th->exception is left as malloc returned it.
Create(t, w) ==
  /\ pc[t] = "run" /\ Free(t)
  /\ pc[w] = "none"
  /\ Atomic(t)
  /\ pc' = [pc EXCEPT ![w] = "entry"]
  /\ list' = <<w>> \o list
  /\ ready' = [ready EXCEPT ![w] = FALSE]
  /\ \E e \in {"none", "dangling"} : exception' = [exception EXCEPT ![w] = e]
  /\ UNCHANGED <<exitpoint_flag, pending, told, ide, gil, stolen, gc, hand, at>>

\* A call that blocks returns, and its thread waits for the GIL.
GilWait(t) ==
  /\ pc[t] = "out"
  /\ pc' = [pc EXCEPT ![t] = "back"]
  /\ UNCHANGED <<node, exc, gil, stolen, mtx, gc, hand, at>>

GilEnter(t) ==
  /\ pc[t] \in {"entry", "back"}
  /\ gil = NoThread
  /\ gil' = t
  /\ pc' = [pc EXCEPT ![t] = IF @ = "entry" THEN "start" ELSE "run"]
  /\ UNCHANGED <<node, exc, stolen, mtx, gc, hand, at>>

GilExit(t) ==
  /\ pc[t] = "run" /\ Free(t)
  /\ gil' = NoThread
  /\ pc' = [pc EXCEPT ![t] = "out"]
  /\ UNCHANGED <<node, exc, stolen, mtx, gc, hand, at>>

\* mutated: th->ready stays 0
StartNotReady(w) ==
  /\ pc[w] = "start"
  /\ Atomic(w)
  /\ pc' = [pc EXCEPT ![w] = "run"]
  /\ exitpoint_flag' = [exitpoint_flag EXCEPT ![w] = EXITPOINT_DISABLE]
  /\ exception' = [exception EXCEPT ![w] = "none"]
  /\ UNCHANGED <<list, ready, pending, told, ide, gil, stolen, gc, hand, at>>

\* mp_thread_start: the new thread finds its node and resets it.
Start(w) ==
  /\ pc[w] = "start"
  /\ Atomic(w)
  /\ w \in Nodes
  /\ pc' = [pc EXCEPT ![w] = "run"]
  /\ ready' = [ready EXCEPT ![w] = TRUE]
  /\ exitpoint_flag' = [exitpoint_flag EXCEPT ![w] = EXITPOINT_DISABLE]
  /\ exception' = [exception EXCEPT ![w] = "none"]
  /\ UNCHANGED <<list, pending, told, ide, gil, stolen, gc, hand, at>>

\* The Python function returns; for the main thread, the script ends.
Return(t) ==
  /\ pc[t] = "run" /\ Free(t)
  /\ pc' = [pc EXCEPT ![t] = "finish"]
  /\ UNCHANGED <<node, exc, gil, stolen, mtx, gc, hand, at>>

\* mutated: the head moves past the node, whatever stood in front of it
FinishHead(w) ==
  /\ w \in Workers /\ pc[w] = "finish" /\ Free(w)
  /\ Atomic(w)
  /\ \E i \in 1..Len(list) :
       /\ list[i] = w
       /\ list' = SubSeq(list, i + 1, Len(list))
  /\ pc' = [pc EXCEPT ![w] = "unlinked"]
  /\ exception' = [exception EXCEPT ![w] = "none"]
  /\ told' = told \ {w}
  /\ UNCHANGED <<ready, exitpoint_flag, pending, ide, gil, stolen, gc, hand, at>>

\* mp_thread_finish: unlink and free the node.
Finish(w) ==
  /\ w \in Workers /\ pc[w] = "finish" /\ Free(w)
  /\ Atomic(w)
  /\ \E i \in 1..Len(list) :
       /\ list[i] = w
       /\ list' = SubSeq(list, 1, i - 1) \o SubSeq(list, i + 1, Len(list))
  /\ pc' = [pc EXCEPT ![w] = "unlinked"]
  /\ exception' = [exception EXCEPT ![w] = "none"]
  /\ told' = told \ {w}
  /\ UNCHANGED <<ready, exitpoint_flag, pending, ide, gil, stolen, gc, hand, at>>

\* The thread function gives up the GIL, whoever has it, and the thread ends.
\* Nobody joins it: main_() may have torn the session down and begun another.
Exit(w) ==
  /\ pc[w] = "unlinked"
  /\ gil' = NoThread
  /\ stolen' = (stolen \/ gil # w)
  /\ pc' = [pc EXCEPT ![w] = "none"]
  /\ pending' = [pending EXCEPT ![w] = "none"]
  /\ UNCHANGED <<node, exception, told, ide, mtx, gc, hand, at>>

-----------------------------------------------------------------------------
(* Garbage collection                                                      *)

\* gc_collect: any allocation of a running thread, or of the loop of
\* set_exception_other, may start one.  The mutex is taken once more.
GcStart(t) ==
  /\ pc[t] = "run" \/ (pc[t] = "throw" /\ at < Len(list))
  /\ gc = NoGc
  /\ Lock(t)
  /\ gc' = [by |-> t, phase |-> "scan", th |-> 1]
  /\ scanned' = {t}
  /\ UNCHANGED <<pc, node, exc, gil, stolen, sem, sig, at>>

\* mutated: all threads are signalled before the first wait
GcVisitNoWait ==
  /\ gc.phase = "scan" /\ gc.th <= Len(list)
  /\ LET th == list[gc.th]
     IN sig' = IF th = gc.by \/ ~ready[th] THEN sig ELSE sig \cup {th}
  /\ gc' = [gc EXCEPT !.th = @ + 1]
  /\ UNCHANGED <<pc, node, exc, gil, stolen, mtx, sem, scanned, at>>

\* One turn of the loop of mp_thread_gc_others: skip the caller and the
\* threads that have not started, signal the others.
GcVisit ==
  /\ gc.phase = "scan" /\ gc.th <= Len(list)
  /\ LET th == list[gc.th]
     IN IF th = gc.by \/ ~ready[th]
        THEN gc' = [gc EXCEPT !.th = @ + 1] /\ UNCHANGED sig
        ELSE gc' = [gc EXCEPT !.phase = "wait"] /\ sig' = sig \cup {th}
  /\ UNCHANGED <<pc, node, exc, gil, stolen, mtx, sem, scanned, at>>

\* mp_thread_gc, in the signalled thread: scan its stack and post.
GcSignal(t) ==
  /\ t \in sig
  /\ sig' = sig \ {t}
  /\ scanned' = scanned \cup {t}
  /\ sem' = sem + 1
  /\ UNCHANGED <<pc, node, exc, gil, stolen, mtx, gc, at>>

\* mutated: the loop does not go on to th->next
GcWakeStay ==
  /\ gc.phase = "wait" /\ sem > 0
  /\ sem' = sem - 1
  /\ gc' = [gc EXCEPT !.phase = "scan"]
  /\ UNCHANGED <<pc, node, exc, gil, stolen, mtx, sig, scanned, at>>

\* sem_wait returns.
GcWake ==
  /\ gc.phase = "wait" /\ sem > 0
  /\ sem' = sem - 1
  /\ gc' = [gc EXCEPT !.phase = "scan", !.th = @ + 1]
  /\ UNCHANGED <<pc, node, exc, gil, stolen, mtx, sig, scanned, at>>

\* The loop is over: mp_thread_gc_others unlocks.
GcUnlock ==
  /\ gc.phase = "scan" /\ gc.th > Len(list)
  /\ Unlock(gc.by)
  /\ gc' = [gc EXCEPT !.phase = "sweep"]
  /\ UNCHANGED <<pc, node, exc, gil, stolen, hand, at>>

\* gc_collect_end sweeps: an exception that only th->exception refers to is
\* freed, because the nodes are not scanned beyond th->arg.  (A stale word on
\* some stack may still save it; the model always frees it.)
GcSweep ==
  /\ gc.phase = "sweep"
  /\ exception' = [t \in Thread |-> IF exception[t] = "exit" THEN "dangling" ELSE exception[t]]
  /\ gc' = NoGc
  /\ scanned' = {}
  /\ UNCHANGED <<pc, node, pending, told, ide, gil, stolen, mtx, sem, sig, at>>

-----------------------------------------------------------------------------
(* Exceptions left for another thread                                      *)

\* os.exitpoint(flag), for a flag that does not disable it.
SetFlag(t) ==
  /\ pc[t] = "run" /\ Free(t)
  /\ \E f \in Flag \ {EXITPOINT_DISABLE} :
       exitpoint_flag' = [exitpoint_flag EXCEPT ![t] = f]
  /\ UNCHANGED <<pc, list, ready, exc, gil, stolen, mtx, gc, hand, at>>

\* mutated: the VM hook never passes
PassesNoHook(t, flag) == flag # EXITPOINT_DISABLE

\* The filter of mp_thread_exitpoint: flag says where the call comes from, the
\* thread's own flag what it lets through.
Passes(t, flag) ==
  CASE exitpoint_flag[t] = EXITPOINT_ENABLE       -> flag # EXITPOINT_DISABLE
    [] exitpoint_flag[t] = EXITPOINT_ENABLE_SLEEP -> flag = EXITPOINT_ANY
    [] OTHER                                      -> TRUE

Take(t) ==
  IF exception[t] # "none"
  THEN /\ pending' = [pending EXCEPT ![t] = exception[t]]
       /\ pc' = [pc EXCEPT ![t] = "deliver"]
  ELSE UNCHANGED <<pending, pc>>

\* mp_thread_exitpoint(flag), from the VM loop, a sleep or os.exitpoint(), up to
\* the store into mp_pending_exception.
Exitpoint(t, flag) ==
  /\ pc[t] = "run" /\ Free(t)
  /\ Passes(t, flag)
  /\ Take(t)
  /\ UNCHANGED <<node, exception, told, ide, gil, stolen, mtx, gc, hand, at>>

\* os.exitpoint(EXITPOINT_DISABLE) resets the flag first, so nothing is
\* filtered.
Disable(t) ==
  /\ pc[t] = "run" /\ Free(t)
  /\ exitpoint_flag' = [exitpoint_flag EXCEPT ![t] = EXITPOINT_DISABLE]
  /\ Take(t)
  /\ UNCHANGED <<list, ready, exception, told, ide, gil, stolen, mtx, gc, hand, at>>

\* mp_handle_pending(true) raises: the thread unwinds or its script catches it.
Raise(t) ==
  /\ pending' = [pending EXCEPT ![t] = "none"]
  /\ told' = told \ {t}
  /\ \E to \in {"finish"} \cup (IF MayCatch THEN {"run"} ELSE {}) :
       pc' = [pc EXCEPT ![t] = to]

\* The rest of mp_thread_exitpoint: th->exception = 0, then the raise.
Deliver(t) ==
  /\ pc[t] = "deliver"
  /\ exception' = [exception EXCEPT ![t] = "none"]
  /\ Raise(t)
  /\ UNCHANGED <<node, ide, gil, stolen, mtx, gc, hand, at>>

\* mp_handle_pending, outside an exit point.
HandlePending(t) ==
  /\ pc[t] = "run" /\ Free(t)
  /\ pending[t] # "none"
  /\ Raise(t)
  /\ UNCHANGED <<node, exception, ide, gil, stolen, mtx, gc, hand, at>>

\* mp_thread_set_exception_main, called by the IDE task without any lock: it
\* tests the flag of the main node in one step and stores in the next.
IdeTest ==
  /\ ide = "idle"
  /\ pc[Main] \in {"run", "out"}
  /\ ide' = IF exitpoint_flag[Main] = EXITPOINT_DISABLE THEN "pending" ELSE "exception"
  /\ UNCHANGED <<pc, node, exception, pending, told, gil, stolen, mtx, gc, hand, at>>

IdeStore ==
  /\ ide # "idle"
  /\ ide' = "idle"
  /\ IF ide = "pending"
     THEN pending' = [pending EXCEPT ![Main] = "ide"] /\ UNCHANGED exception
     ELSE exception' = [exception EXCEPT ![Main] = "ide"] /\ UNCHANGED pending
  /\ UNCHANGED <<pc, node, told, gil, stolen, mtx, gc, hand, at>>

-----------------------------------------------------------------------------
(* The end of a session                                                    *)

\* main_thread_exit: mp_thread_set_exception_other locks and starts its loop.
MainExit ==
  /\ pc[Main] = "finish"
  /\ Lock(Main)
  /\ pc' = [pc EXCEPT ![Main] = "throw"]
  /\ at' = 1
  /\ UNCHANGED <<node, exc, gil, stolen, gc, hand>>

\* One turn: a new exception object for a node that has a successor.
Throw ==
  /\ pc[Main] = "throw" /\ Free(Main)
  /\ at < Len(list)
  /\ exception' = [exception EXCEPT ![list[at]] = "exit"]
  /\ told' = told \cup {list[at]}
  /\ at' = at + 1
  /\ UNCHANGED <<pc, node, pending, ide, gil, stolen, mtx, gc, hand>>

\* The loop has reached the last node: unlock, MP_THREAD_GIL_EXIT.
ThrowEnd ==
  /\ pc[Main] = "throw" /\ Free(Main)
  /\ at >= Len(list)
  /\ Unlock(Main)
  /\ gil' = NoThread
  /\ pc' = [pc EXCEPT ![Main] = "deinit"]
  /\ UNCHANGED <<node, exc, stolen, gc, hand, at>>

\* mutated: the poll looks one node too far
DeinitEarly ==
  /\ pc[Main] = "deinit"
  /\ Atomic(Main)
  /\ Len(list) <= 2
  /\ list' = <<>>
  /\ pc' = [pc EXCEPT ![Main] = "torn"]
  /\ UNCHANGED <<ready, exitpoint_flag, exc, gil, stolen, gc, hand, at>>

\* mp_thread_deinit: a poll finds no node after the head and the node is freed.
Deinit ==
  /\ pc[Main] = "deinit"
  /\ Atomic(Main)
  /\ Len(list) = 1
  /\ list' = <<>>
  /\ pc' = [pc EXCEPT ![Main] = "torn"]
  /\ UNCHANGED <<ready, exitpoint_flag, exc, gil, stolen, gc, hand, at>>

\* goto soft_reset: mp_thread_init and mp_init build the next session; the
\* mutex, the semaphore and the GIL are initialised again and the GIL is taken.
SoftReset ==
  /\ pc[Main] = "torn"
  /\ pc' = [pc EXCEPT ![Main] = "run"]
  /\ list' = <<Main>>
  /\ ready' = [ready EXCEPT ![Main] = TRUE]
  /\ exitpoint_flag' = [exitpoint_flag EXCEPT ![Main] = EXITPOINT_DISABLE]
  /\ exception' = [exception EXCEPT ![Main] = "none"]
  /\ pending' = [pending EXCEPT ![Main] = "none"]
  /\ owner' = NoThread /\ depth' = 0
  /\ sem' = 0
  /\ gil' = Main
  /\ UNCHANGED <<told, ide, stolen, gc, sig, scanned, at>>

-----------------------------------------------------------------------------
Python(t) ==
  \/ \E w \in Workers : Create(t, w)
  \/ GilWait(t)
  \/ GilEnter(t)
  \/ GilExit(t)
  \/ Return(t)
  \/ SetFlag(t)
  \/ \E f \in {EXITPOINT_ANY, EXITPOINT_DISABLE, EXITPOINT_ENABLE_SLEEP} : Exitpoint(t, f)
  \/ Disable(t)
  \/ Deliver(t)
  \/ HandlePending(t)

Worker(w) == Start(w) \/ Finish(w) \/ Exit(w)

Collect == (\E t \in Thread : GcStart(t) \/ GcSignal(t))
           \/ GcVisit \/ GcWake \/ GcUnlock \/ GcSweep

EndSession == MainExit \/ Throw \/ ThrowEnd \/ Deinit \/ SoftReset

Next ==
  \/ \E t \in Thread : Python(t)
  \/ \E w \in Workers : Worker(w)
  \/ Collect
  \/ IdeTest \/ IdeStore
  \/ EndSession

Spec == Init /\ [][Next]_vars

(***************************************************************************)
(* Fairness: a signal is handled, a thread that can take a step of C code  *)
(* takes it, the GIL is passed on to every thread that waits for it, and a *)
(* thread that runs Python passes through the VM hook again and again.     *)
(* Nothing makes a call that blocks return (GilWait), nor a script end.    *)
(***************************************************************************)
Fairness ==
  /\ WF_vars(GcVisit \/ GcWake \/ GcUnlock \/ GcSweep)
  /\ \A t \in Thread : /\ WF_vars(GcSignal(t))
                       /\ SF_vars(GilEnter(t))
                       /\ SF_vars(Exitpoint(t, EXITPOINT_DISABLE))
                       /\ WF_vars(Deliver(t))
  /\ \A w \in Workers : SF_vars(Start(w)) /\ SF_vars(Finish(w)) /\ WF_vars(Exit(w))
  /\ SF_vars(Throw) /\ SF_vars(ThrowEnd) /\ SF_vars(Deinit)

FairSpec == Spec /\ Fairness

-----------------------------------------------------------------------------
(* Safety                                                                  *)

PC == {"none", "entry", "start", "run", "out", "back", "deliver", "finish",
       "unlinked", "throw", "deinit", "torn"}

\* The type of every variable.
TypeOK ==
  /\ pc \in [Thread -> PC]
  /\ list \in Seq(Thread)
  /\ ready \in [Thread -> BOOLEAN]
  /\ exitpoint_flag \in [Thread -> Flag]
  /\ exception \in [Thread -> Exception]
  /\ pending \in [Thread -> Exception]
  /\ gil \in Thread \cup {NoThread}
  /\ owner \in Thread \cup {NoThread}
  /\ depth \in Nat
  /\ gc \in [by : Thread \cup {NoThread},
             phase : {"idle", "scan", "wait", "sweep"}, th : Nat]
  /\ sem \in Nat
  /\ sig \in SUBSET Thread
  /\ scanned \in SUBSET Thread
  /\ at \in Nat \ {0}
  /\ ide \in {"idle", "pending", "exception"}
  /\ told \in SUBSET Thread
  /\ stolen \in BOOLEAN

Linked == {"entry", "start", "run", "out", "back", "deliver", "finish", "throw", "deinit"}

\* The list holds exactly the threads between pthread_create and
\* mp_thread_finish, each once, and the main node is its tail: the loop of
\* mp_thread_set_exception_other and the poll of mp_thread_deinit tell the
\* main thread from the others by th->next alone.
ListOK ==
  /\ \A i, j \in 1..Len(list) : i # j => list[i] # list[j]
  /\ \A t \in Thread : t \in Nodes <=> pc[t] \in Linked
  /\ \A i \in 1..Len(list) : list[i] = Main <=> i = Len(list)

\* At most one thread executes Python (mpstate.h: "a global mutex used to make
\* the VM/runtime thread-safe"), across sessions, until a thread of a session that
\* main_() has already torn down gives up the GIL of the next one.  No other way
\* leads to two threads in Python, although nobody joins a thread that ends.
GilExclusive ==
  ~stolen => \A t, u \in Thread : RunsPython(t) /\ RunsPython(u) => t = u

\* The sweep of a collection comes only after every other thread that may hold
\* references into the heap has scanned its stack for this collection: after the
\* walk has released the mutex, the GIL alone keeps a new thread from getting roots.
SweepSafe ==
  gc.phase = "sweep" /\ ~stolen => \A t \in Thread : HasRoots(t) => t \in scanned

\* One post answers one wait: the semaphore never keeps a count that a later
\* wait would take for the answer of a thread that has not scanned yet.
HandshakeOK ==
  /\ gc.phase # "wait" => sem = 0 /\ sig = {}
  /\ gc.phase = "wait" => \/ sem = 0 /\ sig = {list[gc.th]}
                          \/ sem = 1 /\ sig = {} /\ list[gc.th] \in scanned

\* When the main thread frees its node and goes on to sweep the heap and to
\* unmap the session's memory, no other thread can run Python any more.
TornAlone ==
  pc[Main] = "torn" => \A w \in Workers : pc[w] \in {"none", "unlinked"}

\* The walk of mp_thread_gc_others never meets a list that changes under it.
ListFrozen == [][gc.phase \in {"scan", "wait"} => list' = list]_vars

\* main.c: "exit other thread".  A thread that was given its SystemExit keeps it
\* until it has raised it.
ExitReachesOthers ==
  \A t \in told : exception[t] # "none" \/ pending[t] # "none"

\* mpthreadport.c: "This function scans all pointers that are external to the
\* current thread".  No thread raises an exception object that was swept.
RaisesLiveObject == \A t \in Thread : pending[t] # "dangling"

-----------------------------------------------------------------------------
(* Liveness                                                                *)

\* A collection ends, whatever the other threads are blocked on.
CollectionEnds == gc.phase # "idle" ~> gc.phase = "idle"

\* A worker that will raise its SystemExit, or is already past its script.
Leaving(w) ==
  \/ pc[w] \in {"finish", "unlinked", "none"}
  \/ w \in told /\ ~MayCatch /\ exitpoint_flag[w] = EXITPOINT_DISABLE
     /\ exception[w] # "none" /\ pc[w] \in {"run", "out", "back", "deliver"}

\* No thread stays for ever in a call that blocks.
CallsReturn == \A w \in Workers : []<>(pc[w] # "out")

\* The wait of mp_thread_deinit, which has no limit, ends if every other thread had
\* started, takes exceptions anywhere and does not catch them when they were handed
\* out, unless one of them is in a call that never returns.
DeinitCompletes ==
  CallsReturn =>
    ((pc[Main] = "deinit" /\ \A w \in Workers : Leaving(w))
       ~> \/ pc[Main] = "torn"
          \/ \E w \in Workers : ~Leaving(w))
=============================================================================
