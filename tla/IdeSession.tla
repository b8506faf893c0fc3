----------------------------- MODULE IdeSession -----------------------------
(***************************************************************************)
(* The sessions of the interpreter: main_() of core/main.c, which boots,   *)
(* runs scripts or the REPL and resets itself, against ide_dbg_task of     *)
(* omv/ide_dbg.c, which attaches an IDE, hands scripts over, stops them    *)
(* and lets the IDE go.  They share the flags below without any lock.      *)
(*                                                                         *)
(* The IDE task has the more urgent priority (20 against 30 on one core),  *)
(* so a handler is one step up to the next call that blocks; the main      *)
(* thread can be interrupted between any two of its steps.  The exit point *)
(* flag of the main thread has its default: an exception set for it goes   *)
(* to mp_pending_exception (MpThread has the other cases).                 *)
(***************************************************************************)
EXTENDS Naturals, Sequences

CONSTANTS
  BootFiles,   \* how many of boot.py and main.py are on the card
  MaxKeys,     \* bound: characters in the stdin ring
  MaxPosts     \* bound: the count of script_sem

ASSUME SessionAssumption ==
  /\ BootFiles \in 0..2
  /\ MaxKeys \in Nat \ {0, 1}
  /\ MaxPosts \in Nat \ {0}

VARIABLES
  mpc,            \* where main_() is
  what,           \* whose script it runs: a boot script's or the IDE's
  todo,           \* boot scripts not yet run
  ipc,            \* where the SCRIPT_EXEC handler is
  attached,       \* ide_attached
  running,        \* ide_script_running
  disconnect,     \* ide_disconnect
  script,         \* script_string: "null", being received, or complete
  script_sem,     \* its count
  repl_run,       \* repl_script_running
  repl_intr,      \* is_repl_intr
  stdin,          \* the stdin ring
  exc,            \* the exception pending for the main thread
  stray,          \* history: SCRIPT_EXEC was accepted when main_() was not
                  \* on its way to a free wait for it (see ExecTest)
  caught          \* history: the script that runs has caught an exception

flags == <<attached, running, disconnect, repl_run, repl_intr>>
hand  == <<script, script_sem>>
vars  == <<mpc, what, todo, ipc, flags, hand, stdin, exc, stray, caught>>

Init ==
  /\ mpc = "reset" /\ what = "boot" /\ todo = 0
  /\ ipc = "idle"
  /\ attached = FALSE /\ running = FALSE /\ disconnect = FALSE
  /\ script = "null" /\ script_sem = 0
  /\ repl_run = FALSE /\ repl_intr = FALSE
  /\ stdin = <<>>
  /\ exc = "none"
  /\ stray = FALSE /\ caught = FALSE

At(here, there) == mpc = here /\ mpc' = there

-----------------------------------------------------------------------------
(* main_()                                                                 *)

\* soft_reset: mp_thread_init and mp_init forget a pending exception.
SoftReset ==
  /\ At("reset", "clear")
  /\ exc' = "none"
  /\ UNCHANGED <<what, todo, ipc, flags, hand, stdin, stray, caught>>

UsbRxClear ==
  /\ At("clear", "boot")
  /\ stdin' = <<>>
  /\ UNCHANGED <<what, todo, ipc, flags, hand, exc, stray, caught>>

\* boot.py and main.py run when no IDE is there and Ctrl-C has not stopped the
\* session before; the test comes once, before the first.
BootTest ==
  /\ mpc = "boot"
  /\ IF ~attached /\ ~repl_intr
     THEN mpc' = "open" /\ todo' = BootFiles
     ELSE mpc' = "select" /\ UNCHANGED todo
  /\ UNCHANGED <<what, ipc, flags, hand, stdin, exc, stray, caught>>

\* mutated: a script that is not on the card is run as well
BootStartBlind ==
  /\ At("open", "exec")
  /\ todo' = todo - 1
  /\ what' = "boot"
  /\ running' = TRUE
  /\ repl_run' = TRUE
  /\ UNCHANGED <<ipc, attached, disconnect, repl_intr, hand, stdin, exc, stray, caught>>

\* ide_dbg_on_script_start, do_str.
BootStart ==
  /\ At("open", "exec") /\ todo > 0
  /\ todo' = todo - 1
  /\ what' = "boot"
  /\ running' = TRUE
  /\ repl_run' = TRUE
  /\ UNCHANGED <<ipc, attached, disconnect, repl_intr, hand, stdin, exc, stray, caught>>

BootEnd ==
  /\ mpc = "open" /\ todo = 0
  /\ mpc' = IF repl_intr THEN "exit" ELSE "select"
  /\ UNCHANGED <<what, todo, ipc, flags, hand, stdin, exc, stray, caught>>

Select ==
  /\ mpc = "select"
  /\ IF attached
     THEN mpc' = "wait" /\ repl_intr' = FALSE
     ELSE mpc' = "repl" /\ UNCHANGED repl_intr
  /\ UNCHANGED <<what, todo, ipc, attached, running, disconnect, repl_run, hand, stdin, exc, stray, caught>>

\* ide_dbg_get_script: sem_wait, then the string if the IDE is still there.
GetScript ==
  /\ At("wait", "take")
  /\ script_sem > 0
  /\ script_sem' = script_sem - 1
  /\ UNCHANGED <<what, todo, ipc, flags, script, stdin, exc, stray, caught>>

TakeScript ==
  /\ mpc = "take"
  /\ what' = "ide"
  /\ IF attached /\ script # "null"
     THEN mpc' = "exec" /\ repl_run' = TRUE
     ELSE mpc' = "end" /\ UNCHANGED repl_run
  /\ UNCHANGED <<todo, ipc, attached, running, disconnect, repl_intr, hand, stdin, exc, stray, caught>>

AfterScript == IF mpc = "exec" THEN "tail" ELSE "repl tail"

\* The script ends by itself; an exception still pending is raised or dropped.
ScriptReturn ==
  /\ mpc \in {"exec", "repl exec"}
  /\ mpc' = AfterScript
  /\ exc' = "none" /\ caught' = FALSE
  /\ UNCHANGED <<what, todo, ipc, flags, hand, stdin, stray>>

\* The pending exception is raised in the script, which ends with it, or catches it
\* and goes on: ide_exception is a plain Exception.
ScriptRaise ==
  /\ mpc \in {"exec", "repl exec"}
  /\ exc # "none"
  /\ exc' = "none"
  /\ \/ mpc' = AfterScript /\ caught' = FALSE
     \/ caught' = TRUE /\ UNCHANGED mpc
  /\ UNCHANGED <<what, todo, ipc, flags, hand, stdin, stray>>

\* The traceback is out and do_str returns.
ScriptTail ==
  /\ At("tail", "end")
  /\ repl_run' = FALSE
  /\ UNCHANGED <<what, todo, ipc, attached, running, disconnect, repl_intr, hand, stdin, exc, stray, caught>>

\* mutated: the string stays
EndFreeKeeps ==
  /\ At("end", "drain")
  /\ UNCHANGED <<what, todo, ipc, flags, hand, stdin, exc, stray, caught>>

\* ide_dbg_on_script_end: the string goes, the output is waited for, the flags
\* follow.
EndFree ==
  /\ At("end", "drain")
  /\ script' = "null"
  /\ UNCHANGED <<what, todo, ipc, flags, script_sem, stdin, exc, stray, caught>>

EndRunning ==
  /\ At("drain", "check")
  /\ running' = FALSE
  /\ UNCHANGED <<what, todo, ipc, attached, disconnect, repl_run, repl_intr, hand, stdin, exc, stray, caught>>

\* mutated: only the end of the IDE's own script lets it go
EndCheckIde ==
  /\ mpc = "check"
  /\ mpc' = IF what = "boot" THEN "open" ELSE "exit"
  /\ attached' = (attached /\ ~(disconnect /\ what = "ide"))
  /\ disconnect' = (disconnect /\ what = "boot")
  /\ repl_run' = FALSE
  /\ UNCHANGED <<what, todo, ipc, running, repl_intr, hand, stdin, exc, stray, caught>>

EndCheck ==
  /\ mpc = "check"
  /\ mpc' = IF what = "boot" THEN "open" ELSE "exit"
  /\ attached' = (attached /\ ~disconnect)
  /\ disconnect' = FALSE
  /\ repl_run' = FALSE
  /\ UNCHANGED <<what, todo, ipc, running, repl_intr, hand, stdin, exc, stray, caught>>

\* One character for the line editor: Ctrl-D ends the REPL, Ctrl-C starts the
\* line again, a line runs.
ReplKey ==
  /\ mpc = "repl" /\ exc = "none"
  /\ stdin # <<>>
  /\ stdin' = Tail(stdin)
  /\ CASE Head(stdin) = "ctrl-d" -> mpc' = "repl end" /\ UNCHANGED repl_run
       [] Head(stdin) = "ctrl-c" -> UNCHANGED <<mpc, repl_run>>
       [] Head(stdin) = "line"   -> mpc' = "repl exec" /\ repl_run' = TRUE
  /\ UNCHANGED <<what, todo, ipc, attached, running, disconnect, repl_intr, hand, exc, stray, caught>>

\* mp_hal_stdin_rx_chr handles a pending exception between two characters:
\* do_repl catches it outside every script and pops a handler it has not.
ReplRaise ==
  /\ At("repl", "crash")
  /\ exc # "none"
  /\ exc' = "none"
  /\ UNCHANGED <<what, todo, ipc, flags, hand, stdin, stray, caught>>

\* ide_afer_python_run.
ReplTail ==
  /\ At("repl tail", "repl")
  /\ repl_run' = FALSE
  /\ UNCHANGED <<what, todo, ipc, attached, running, disconnect, repl_intr, hand, stdin, exc, stray, caught>>

ReplEnd ==
  /\ At("repl end", "exit")
  /\ repl_intr' = FALSE
  /\ UNCHANGED <<what, todo, ipc, attached, running, disconnect, repl_run, hand, stdin, exc, stray, caught>>

\* main_thread_exit, up to the wait of mp_thread_deinit.
MainExit ==
  /\ At("exit", "join")
  /\ UNCHANGED <<what, todo, ipc, flags, hand, stdin, exc, stray, caught>>

\* The other threads have ended, which nothing makes them do in time: the rest of
\* main_(), and goto soft_reset.
ThreadsEnd ==
  /\ At("join", "reset")
  /\ UNCHANGED <<what, todo, ipc, flags, hand, stdin, exc, stray, caught>>

-----------------------------------------------------------------------------
(* ide_dbg_task                                                            *)

Idle == ipc = "idle" /\ mpc # "crash"

\* mp_thread_set_exception_main(&ide_exception), if a script is running.
SetException == exc' = IF running THEN "ide" ELSE exc

\* mutated: the Ctrl-D for the line editor is left out
AttachQuiet ==
  /\ Idle /\ ~attached
  /\ Len(stdin) + 1 <= MaxKeys
  /\ stdin' = Append(stdin, "ctrl-c")
  /\ attached' = TRUE
  /\ SetException
  /\ UNCHANGED <<mpc, what, todo, ipc, running, disconnect, repl_run, repl_intr, hand, stray, caught>>

\* A token of six bytes from an IDE: interrupt_repl, then the flag.
Attach ==
  /\ Idle /\ ~attached
  /\ Len(stdin) + 2 <= MaxKeys
  /\ stdin' = stdin \o <<"ctrl-c", "ctrl-d">>
  /\ attached' = TRUE
  /\ SetException
  /\ UNCHANGED <<mpc, what, todo, ipc, running, disconnect, repl_run, repl_intr, hand, stray, caught>>

\* USBDBG_SCRIPT_EXEC, up to usleep(100000).
ScriptExec ==
  /\ Idle /\ attached
  /\ SetException
  /\ ipc' = "pause"
  /\ UNCHANGED <<mpc, what, todo, flags, hand, stdin, stray, caught>>

\* mutated: the script that runs is not waited for
ExecTestBlind ==
  /\ ipc = "pause"
  /\ ipc' = "recv" /\ script' = "partial"
  /\ UNCHANGED <<mpc, what, todo, flags, script_sem, stdin, exc, stray, caught>>

\* Main_() may take a script that is not handed over yet, or drop one that is:
\* it is awake with the post of an older request, it has boot scripts to end, or
\* the IDE is being let go.
Unready == \/ script_sem > 0
           \/ mpc \in {"take", "end", "drain"}
           \/ mpc \in {"check", "open"} /\ todo > 0
           \/ disconnect \/ ~attached

\* After the pause: a script that still runs makes the request void; else the
\* string is allocated and the task blocks in read_until.
ExecTest ==
  /\ ipc = "pause"
  /\ IF running
     THEN ipc' = "idle" /\ UNCHANGED <<script, stray, caught>>
     ELSE /\ ipc' = "recv"
          /\ script' = "partial"
          /\ stray' = (stray \/ Unready)
  /\ UNCHANGED <<mpc, what, todo, flags, script_sem, stdin, exc, caught>>

\* mutated: the waiting main thread is not woken
ExecRecvQuiet ==
  /\ ipc = "recv"
  /\ ipc' = "idle"
  /\ script' = IF script = "partial" THEN "whole" ELSE script
  /\ running' = TRUE
  /\ UNCHANGED <<mpc, what, todo, attached, disconnect, repl_run, repl_intr, script_sem, stdin, exc, stray, caught>>

\* The whole script has come.
ExecRecv ==
  /\ ipc = "recv"
  /\ script_sem < MaxPosts
  /\ ipc' = "idle"
  /\ script' = IF script = "partial" THEN "whole" ELSE script
  /\ running' = TRUE
  /\ script_sem' = script_sem + 1
  /\ UNCHANGED <<mpc, what, todo, attached, disconnect, repl_run, repl_intr, stdin, exc, stray, caught>>

\* USBDBG_SCRIPT_STOP.
ScriptStop ==
  /\ Idle /\ attached /\ running
  /\ exc' = "ide"
  /\ UNCHANGED <<mpc, what, todo, ipc, flags, hand, stdin, stray, caught>>

\* USBDBG_SYS_RESET, and RTS on the serial line: a script is stopped and the
\* IDE let go at its end; without one interrupt_ide does it at once.
SysReset ==
  /\ Idle /\ attached
  /\ SetException
  /\ IF running
     THEN disconnect' = TRUE /\ UNCHANGED <<attached, script_sem>>
     ELSE /\ script_sem < MaxPosts
          /\ script_sem' = script_sem + 1
          /\ attached' = FALSE
          /\ UNCHANGED disconnect
  /\ UNCHANGED <<mpc, what, todo, ipc, running, repl_run, repl_intr, script, stdin, stray, caught>>

\* Ctrl-C on the serial line without an IDE, while a script runs.
CtrlC ==
  /\ Idle /\ ~attached /\ repl_run
  /\ repl_intr' = TRUE
  /\ exc' = "kbd"
  /\ UNCHANGED <<mpc, what, todo, ipc, attached, running, disconnect, repl_run, hand, stdin, stray, caught>>

\* Any other input without an IDE goes to the stdin ring.
Key ==
  /\ Idle /\ ~attached
  /\ Len(stdin) < MaxKeys
  /\ \E k \in {"line", "ctrl-d"} \cup (IF repl_run THEN {} ELSE {"ctrl-c"}) :
       stdin' = Append(stdin, k)
  /\ UNCHANGED <<mpc, what, todo, ipc, flags, hand, exc, stray, caught>>

-----------------------------------------------------------------------------
\* The steps the main thread takes by itself.
MainStep ==
  \/ SoftReset \/ UsbRxClear
  \/ BootTest \/ BootStart \/ BootEnd
  \/ Select \/ GetScript \/ TakeScript
  \/ ScriptRaise \/ ScriptTail
  \/ EndFree \/ EndRunning \/ EndCheck
  \/ ReplKey \/ ReplRaise \/ ReplTail \/ ReplEnd
  \/ MainExit

IdeTask == Attach \/ ScriptExec \/ ExecTest \/ ExecRecv \/ ScriptStop \/ SysReset \/ CtrlC \/ Key

Next == MainStep \/ ThreadsEnd \/ ScriptReturn \/ IdeTask

Spec == Init /\ [][Next]_vars

(***************************************************************************)
(* The main thread goes on, an exception pending for a script is raised,   *)
(* and an IDE that announces a script sends it.  A script need not end,    *)
(* nor need the threads that the end of a session waits for.               *)
(***************************************************************************)
FairSpec == Spec /\ WF_vars(MainStep) /\ WF_vars(ExecTest \/ ExecRecv)

-----------------------------------------------------------------------------
MPC == {"reset", "clear", "boot", "open", "select", "wait", "take", "exec", "tail",
        "end", "drain", "check", "repl", "repl exec", "repl tail", "repl end",
        "exit", "join", "crash"}

\* The type of every variable.
TypeOK ==
  /\ mpc \in MPC
  /\ what \in {"boot", "ide"}
  /\ todo \in 0..BootFiles
  /\ ipc \in {"idle", "pause", "recv"}
  /\ attached \in BOOLEAN /\ running \in BOOLEAN /\ disconnect \in BOOLEAN
  /\ script \in {"null", "partial", "whole"}
  /\ script_sem \in 0..MaxPosts
  /\ repl_run \in BOOLEAN /\ repl_intr \in BOOLEAN
  /\ stdin \in Seq({"ctrl-c", "ctrl-d", "line"}) /\ Len(stdin) <= MaxKeys
  /\ exc \in {"none", "ide", "kbd"}
  /\ stray \in BOOLEAN /\ caught \in BOOLEAN

\* The hand-over of a script without a lock: the string the IDE task receives
\* into is not freed, main_() runs only strings that are complete, it never
\* loses one it has not run, and the flag that keeps SCRIPT_EXEC away from the
\* string is up as long as it is in use.
HandoverOK ==
  ~stray =>
    /\ ipc = "recv" => script = "partial"
    /\ mpc = "exec" /\ what = "ide" => script = "whole"
    /\ script = "whole" /\ mpc \in {"reset", "clear", "boot", "select", "wait", "take", "exec"}
         => running

\* How far the hand-over is, as the string and the place of main_() tell.
Phase == CASE stray -> "upset"
           [] ~stray /\ script = "null" -> "none"
           [] ~stray /\ script = "partial" -> "receiving"
           [] OTHER -> CASE what = "ide" /\ mpc = "exec" -> "running"
                         [] what = "ide" /\ mpc \in {"tail", "end"} -> "over"
                         [] OTHER -> "accepted"

\* A string, a count and two flags that are set and cleared in several steps of two
\* threads make one slot for scripts: none is accepted before all of it has come,
\* run twice or begun over another that is accepted, running or not yet freed.
Handover == INSTANCE ScriptHandover WITH phase <- Phase
HandoverSpec == Handover!Spec

\* An accepted script runs: once main_() is past its boot scripts and the REPL,
\* nothing the IDE does keeps it from starting the script.
AcceptedRuns ==
  (~stray /\ attached /\ script = "whole" /\ mpc \in {"reset", "clear", "boot", "select", "wait"})
     ~> (mpc = "exec" /\ what = "ide")

\* A script goes on that has caught what it was told, or that nobody has told to stop:
\* one typed at the REPL, which ide_script_running does not mark, the next boot script,
\* or one whose stop came before it started.
Unstopped == mpc \in {"exec", "repl exec"} /\ (exc = "none" \/ caught)

\* Neither such a script nor the wait for the other threads lasts for ever.
SessionsGoOn == []<>~Unstopped /\ []<>(mpc # "join")

\* A reset asked for while a script runs ends with the IDE let go, be it a boot
\* script or the IDE's, even if the script has already ended by itself: only a script
\* or a thread that goes on for ever can prevent it, in a session that is not stray.
ResetDetaches ==
  SessionsGoOn => (disconnect ~> (~attached \/ stray \/ mpc = "crash"))

InIdeMode == mpc = "wait" \/ (mpc = "exec" /\ what = "ide")

\* ide_dbg.c: "switch to ide mode".  An IDE that has attached gets the board or
\* goes away again; what can keep it waiting without end is only a script that nobody
\* has told to stop or that has caught it, a thread that the session waits for, and
\* the two accidents of stray and of an exception at the prompt.
SwitchesToIde ==
  SessionsGoOn => (attached ~> (InIdeMode \/ ~attached \/ stray \/ mpc = "crash"))
=============================================================================
