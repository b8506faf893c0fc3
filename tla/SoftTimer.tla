----------------------------- MODULE SoftTimer -----------------------------
(***************************************************************************)
(* Soft timers, Timer(-1) of machine/machine_timer.c.  The kernel has a    *)
(* timer for each object, and SIGALRM for all of them: the handler knows   *)
(* its object only from the static timer_obj.  The steps of the methods    *)
(* are those of the thread with the GIL; a signal can come between any two *)
(* of them, in this thread or in another one, where it can be left for the *)
(* next thread half way.                                                   *)
(*                                                                         *)
(* External: the kernel's timers, mp_sched_schedule of the interpreter,    *)
(* its collector, which runs deinit as __del__ of unreachable objects.     *)
(* Hard timers are left out: timer_used has them all busy from the start.  *)
(***************************************************************************)
EXTENDS Naturals, Sequences

CONSTANTS
  Timer,                    \* timer objects
  Setup,                    \* what init is called with: a callback and its arg
  MICROPY_SCHEDULER_DEPTH,  \* room for scheduled callbacks
  None

ASSUME TimerAssumption ==
  /\ MICROPY_SCHEDULER_DEPTH \in Nat \ {0}
  /\ None \notin Timer \cup Setup

VARIABLES
  pc,                \* the next step of the thread with the GIL
  self, given,       \* the object and the settings of its call, or None
  closing,           \* the object in machine_timer_deinit, or None
  status,            \* of the objects: "free" memory, or the code's 0, 1 and 2:
                     \* "off", "made" and "ready"
  callback, arg,     \* fields of the objects
  refs,              \* the objects the script can reach
  timer_obj,         \* the object the handler serves
  kernel,            \* the kernel's timers: "none", "idle", "once", "periodic"
  signal, handler,   \* SIGALRM is pending; the object a handler has read
  queue,             \* the scheduled callbacks with their args
  broken,            \* history: a constructor raised after timer_create
  upset              \* history: an object was exposed to signals unready

call == <<pc, self, given>>
fields == <<callback, arg>>
alarm == <<signal, handler>>
history == <<broken, upset>>
vars == <<call, closing, status, fields, refs, timer_obj, kernel, alarm, queue,
          history>>

Init ==
  /\ pc = "python" /\ self = None /\ given = None /\ closing = None
  /\ status = [o \in Timer |-> "free"]
  /\ callback = [o \in Timer |-> None] /\ arg = [o \in Timer |-> None]
  /\ refs = {} /\ timer_obj = None
  /\ kernel = [o \in Timer |-> "none"]
  /\ signal = FALSE /\ handler = None /\ queue = <<>>
  /\ broken = FALSE /\ upset = FALSE

\* The thread with the GIL is at p, and in no __del__.
At(p) == pc = p /\ closing = None

\* The call is over.
Over == pc' = "python" /\ self' = None /\ given' = None

Armed(o) == kernel[o] \in {"once", "periodic"}

-----------------------------------------------------------------------------
(* The constructor and init.                                               *)

\* Mutation: a new object is made whether or not there is one.
CheckNothing(o) ==
  /\ At("python") /\ status[o] = "free"
  /\ pc' = "alloc" /\ self' = o
  /\ UNCHANGED <<given, closing, status, fields, refs, timer_obj, kernel, alarm,
                 queue, history>>
\* make_new up to the allocation of the object o, which may collect.
MakeCheck(o) ==
  /\ At("python") /\ status[o] = "free" /\ timer_obj = None
  /\ pc' = "alloc" /\ self' = o
  /\ UNCHANGED <<given, closing, status, fields, refs, timer_obj, kernel, alarm,
                 queue, history>>

\* timer_create, which may fail, and the first values of the fields.
MakeCreate ==
  /\ At("alloc")
  /\ callback' = [callback EXCEPT ![self] = None]
  /\ arg' = [arg EXCEPT ![self] = None]
  /\ \/ /\ kernel' = [kernel EXCEPT ![self] = "idle"]
        /\ status' = [status EXCEPT ![self] = "made"]
        /\ pc' \in {"init", "done"} /\ UNCHANGED <<self, given>>
     \/ status' = [status EXCEPT ![self] = "off"] /\ Over /\ UNCHANGED kernel
  /\ UNCHANGED <<closing, refs, timer_obj, alarm, queue, history>>

\* A timer runs, or a signal is under way.
Stirring == signal \/ handler # None \/ \E o \in Timer : Armed(o)

\* init of an object that has not been deleted.
InitStart(o) ==
  /\ At("python") /\ o \in refs /\ status[o] # "off"
  /\ pc' = "init" /\ self' = o
  /\ upset' = (upset \/ Stirring)
  /\ UNCHANGED <<given, closing, status, fields, refs, timer_obj, kernel, alarm,
                 queue, broken>>

\* The object is under construction: the script has not got it yet.
Making == self \notin refs

\* The arguments are refused.
InitRaise ==
  /\ At("init") /\ Over
  /\ broken' = (broken \/ Making)
  /\ UNCHANGED <<closing, status, fields, refs, timer_obj, kernel, alarm, queue,
                 upset>>

\* Mutation: the handler gets the object before its fields are set.
CallbackPoint ==
  /\ At("init") /\ pc' = "arg"
  /\ \E s \in Setup : given' = s /\ callback' = [callback EXCEPT ![self] = s]
  /\ timer_obj' = self
  /\ UNCHANGED <<self, closing, status, arg, refs, kernel, alarm, queue, history>>
\* The period and the mode, which the handler does not read, go with this.
InitCallback ==
  /\ At("init") /\ pc' = "arg"
  /\ \E s \in Setup : given' = s /\ callback' = [callback EXCEPT ![self] = s]
  /\ UNCHANGED <<self, closing, status, arg, refs, timer_obj, kernel, alarm,
                 queue, history>>

InitArg ==
  /\ At("arg") /\ pc' = "start"
  /\ arg' = [arg EXCEPT ![self] = given]
  /\ UNCHANGED <<self, given, closing, status, callback, refs, timer_obj, kernel,
                 alarm, queue, history>>

StartPoint ==
  /\ At("start") /\ pc' = "settime"
  /\ timer_obj' = self
  /\ UNCHANGED <<self, given, closing, status, fields, refs, kernel, alarm, queue,
                 history>>

\* timer_settime, which may fail.
StartSet ==
  /\ At("settime")
  /\ \/ /\ \E m \in {"once", "periodic"} : kernel' = [kernel EXCEPT ![self] = m]
        /\ IF Making THEN pc' = "done" /\ UNCHANGED <<self, given>> ELSE Over
        /\ UNCHANGED broken
     \/ Over /\ broken' = (broken \/ Making) /\ UNCHANGED kernel
  /\ UNCHANGED <<closing, status, fields, refs, timer_obj, alarm, queue, upset>>

MakeDone ==
  /\ At("done") /\ Over
  /\ upset' = (upset \/ (callback[self] = None /\ Stirring))
  /\ status' = [status EXCEPT ![self] = "ready"]
  /\ timer_obj' = self
  /\ refs' = refs \cup {self}
  /\ UNCHANGED <<closing, fields, kernel, alarm, queue, broken>>

-----------------------------------------------------------------------------
(* deinit and __del__, the script and the collector.                       *)

Drop(o) ==
  /\ At("python") /\ o \in refs
  /\ refs' = refs \ {o}
  /\ UNCHANGED <<call, closing, status, fields, timer_obj, kernel, alarm, queue,
                 history>>

\* The script may call deinit of o, or the collector its __del__.  An object
\* that a handler has read is on the handler's stack, and not garbage.
MayClose(o) ==
  \/ At("python") /\ o \in refs
  \/ /\ closing = None /\ pc \in {"python", "alloc", "sweep"}
     /\ o \notin refs \cup {self, handler}

\* machine_timer_deinit, up to timer_delete.
DeinitDelete(o) ==
  /\ MayClose(o) /\ status[o] \in {"made", "ready"}
  /\ kernel' = [kernel EXCEPT ![o] = "none"]
  /\ closing' = o
  /\ UNCHANGED <<call, status, fields, refs, timer_obj, alarm, queue, history>>

\* Mutation: the handler goes on with the object that is deleted.
ClearStatus ==
  /\ closing # None /\ closing' = None
  /\ status' = [status EXCEPT ![closing] = "off"]
  /\ UNCHANGED <<call, fields, refs, timer_obj, kernel, alarm, queue, history>>
DeinitClear ==
  /\ closing # None /\ closing' = None
  /\ timer_obj' = None
  /\ status' = [status EXCEPT ![closing] = "off"]
  /\ UNCHANGED <<call, fields, refs, kernel, alarm, queue, history>>

\* The collector frees what it has found unreachable and, with a status of 0,
\* has no __del__ left to run.
Free(o) ==
  /\ closing = None /\ pc \in {"python", "alloc", "sweep"}
  /\ o \notin refs \cup {self, handler} /\ status[o] = "off"
  /\ status' = [status EXCEPT ![o] = "free"]
  /\ UNCHANGED <<call, closing, fields, refs, timer_obj, kernel, alarm, queue,
                 history>>

\* gc_sweep_all at the end of a session, when only the main thread is left.
SessionEnd ==
  /\ At("python") /\ handler = None
  /\ pc' = "sweep" /\ refs' = {}
  /\ UNCHANGED <<self, given, closing, status, fields, timer_obj, kernel, alarm,
                 queue, history>>

\* gc_sweep_all has freed every object; mp_init empties the queue.
SessionNext ==
  /\ At("sweep") /\ \A o \in Timer : status[o] = "free"
  /\ handler = None
  /\ pc' = "python" /\ queue' = <<>>
  /\ UNCHANGED <<self, given, closing, status, fields, refs, timer_obj, kernel,
                 alarm, history>>

-----------------------------------------------------------------------------
(* The kernel, the handler and the scheduler.                              *)

Expire(o) ==
  /\ Armed(o) /\ signal' = TRUE
  /\ kernel' = [kernel EXCEPT ![o] = IF @ = "once" THEN "idle" ELSE @]
  /\ UNCHANGED <<call, closing, status, fields, refs, timer_obj, handler, queue,
                 history>>

\* timer_handler reads timer_obj; without one it returns.
Handle ==
  /\ signal /\ handler = None
  /\ signal' = FALSE /\ handler' = timer_obj
  /\ UNCHANGED <<call, closing, status, fields, refs, timer_obj, kernel, queue,
                 history>>

\* Mutation: nobody looks whether there is room.
ScheduleAlways ==
  /\ handler # None /\ handler' = None
  /\ queue' = Append(queue, [callback |-> callback[handler], arg |-> arg[handler]])
  /\ UNCHANGED <<call, closing, status, fields, refs, timer_obj, kernel, signal,
                 history>>
\* The handler schedules what the object says now; a full queue drops it.
Schedule ==
  /\ handler # None /\ handler' = None
  /\ queue' = IF Len(queue) = MICROPY_SCHEDULER_DEPTH THEN queue
              ELSE Append(queue, [callback |-> callback[handler],
                                  arg |-> arg[handler]])
  /\ UNCHANGED <<call, closing, status, fields, refs, timer_obj, kernel, signal,
                 history>>

\* A callback runs, between two instructions of Python.
RunPending ==
  /\ At("python") /\ queue # <<>>
  /\ queue' = Tail(queue)
  /\ UNCHANGED <<call, closing, status, fields, refs, timer_obj, kernel, alarm,
                 history>>

Next ==
  \/ \E o \in Timer : \/ MakeCheck(o) \/ InitStart(o) \/ Drop(o)
                      \/ DeinitDelete(o) \/ Free(o) \/ Expire(o)
  \/ MakeCreate \/ InitRaise \/ InitCallback \/ InitArg
  \/ StartPoint \/ StartSet \/ MakeDone
  \/ DeinitClear \/ SessionEnd \/ SessionNext
  \/ Handle \/ Schedule \/ RunPending

Spec == Init /\ [][Next]_vars

-----------------------------------------------------------------------------
(* Properties.                                                             *)

Pair == [callback : Setup \cup {None}, arg : Setup \cup {None}]

\* Types of the state.
TypeOK ==
  /\ pc \in {"python", "alloc", "init", "arg", "start", "settime", "done", "sweep"}
  /\ self \in Timer \cup {None} /\ given \in Setup \cup {None}
  /\ closing \in Timer \cup {None}
  /\ status \in [Timer -> {"free", "off", "made", "ready"}]
  /\ callback \in [Timer -> Setup \cup {None}]
  /\ arg \in [Timer -> Setup \cup {None}]
  /\ refs \subseteq Timer /\ timer_obj \in Timer \cup {None}
  /\ kernel \in [Timer -> {"none", "idle", "once", "periodic"}]
  /\ signal \in BOOLEAN /\ handler \in Timer \cup {None}
  /\ queue \in Seq(Pair) /\ Len(queue) <= MICROPY_SCHEDULER_DEPTH
  /\ broken \in BOOLEAN /\ upset \in BOOLEAN

\* At most one timer of the kernel runs, and the handler serves its object, so
\* that no timer falls silent or calls for another: until a constructor raises
\* after timer_create.  The object it leaves behind is deleted by a later
\* collection, and its __del__ clears timer_obj whoever it points at.
OneTimer ==
  ~broken => \A o \in Timer : Armed(o) => timer_obj = o

\* What the handler schedules is a callback with its own arg, both of one call
\* of init or of the constructor, however late signals come: until a script
\* calls init, or makes an object without settings, while a timer runs or a
\* signal is under way.  Then a signal can find a callback with the arg of
\* another one, or no callback at all.
PairWhole ==
  ~upset => \A i \in DOMAIN queue :
              queue[i].callback # None /\ queue[i].arg = queue[i].callback

\* A session, however it ends, leaves no timer in the kernel and no object to
\* the handler, which would be one of a heap that is gone.
SessionQuiet ==
  [][SessionNext => /\ timer_obj = None
                    /\ \A o \in Timer : kernel[o] = "none"]_vars
=============================================================================
