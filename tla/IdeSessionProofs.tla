-------------------------- MODULE IdeSessionProofs --------------------------
(***************************************************************************)
(* Theorems about the sessions, for any bounds of the stdin ring and of    *)
(* the semaphore: the order in which the two threads set and clear their   *)
(* flags is enough to hand scripts over without a lock, as long as         *)
(* SCRIPT_EXEC is accepted when main_() is ready for it.                   *)
(***************************************************************************)
EXTENDS IdeSession, SequenceTheorems, TLAPS

\* While a script is received main_() cannot wake up, take or free the string.
Received ==
  ipc = "recv" =>
    /\ script = "partial" /\ attached /\ ~disconnect /\ script_sem = 0
    /\ mpc \notin {"take", "exec", "tail", "end", "drain"}
    /\ mpc \in {"check", "open"} => todo = 0

\* What the string and the flags say of each other.
Flagged ==
  /\ script = "partial" => ipc = "recv"
  /\ script = "whole" => running
  /\ mpc \in {"exec", "tail"} => running
  /\ mpc = "exec" /\ what = "ide" => script = "whole"
  /\ mpc = "drain" => script = "null"

IInv == TypeOK /\ (~stray => Received /\ Flagged)

-----------------------------------------------------------------------------
Key3 == {"ctrl-c", "ctrl-d", "line"}

\* The stdin ring holds keys, whatever is put in or taken out.
LEMMA StdinKeeps ==
  ASSUME TypeOK, [Next]_vars
  PROVE  stdin' \in Seq(Key3) /\ Len(stdin') <= MaxKeys
<1>1. stdin \in Seq(Key3) /\ Len(stdin) <= MaxKeys /\ MaxKeys \in Nat \ {0, 1}
  BY SessionAssumption DEF TypeOK, Key3
<1>2. CASE stdin' = stdin
  BY <1>1, <1>2
<1>3. CASE stdin' = <<>>
  BY <1>1, <1>3
<1>4. CASE ReplKey
  <2>1. stdin # <<>> /\ stdin' = Tail(stdin)
    BY <1>4 DEF ReplKey
  <2>2. QED
    BY <1>1, <2>1
<1>5. CASE Attach
  <2>1. stdin' = stdin \o <<"ctrl-c", "ctrl-d">> /\ Len(stdin) + 2 <= MaxKeys
    BY <1>5 DEF Attach
  <2>2. <<"ctrl-c", "ctrl-d">> \in Seq(Key3) /\ Len(<<"ctrl-c", "ctrl-d">>) = 2
    BY DEF Key3
  <2>3. stdin' \in Seq(Key3) /\ Len(stdin') = Len(stdin) + 2
    BY <1>1, <2>1, <2>2, ConcatProperties
  <2>4. QED
    BY <2>1, <2>3
<1>6. CASE Key
  <2>1. PICK k \in Key3 : stdin' = Append(stdin, k)
    BY <1>6 DEF Key, Key3
  <2>2. Len(stdin) < MaxKeys
    BY <1>6 DEF Key
  <2>3. stdin' \in Seq(Key3) /\ Len(stdin') = Len(stdin) + 1
    BY <1>1, <2>1, AppendProperties
  <2>4. QED
    BY <1>1, <2>2, <2>3
<1>7. ASSUME \/ SoftReset \/ BootTest \/ BootStart \/ BootEnd \/ Select
             \/ GetScript \/ TakeScript \/ ScriptReturn \/ ScriptRaise \/ ScriptTail
             \/ EndFree \/ EndRunning \/ EndCheck \/ ReplRaise \/ ReplTail \/ ReplEnd
             \/ MainExit \/ ThreadsEnd \/ ScriptExec \/ ExecTest \/ ExecRecv \/ ScriptStop \/ SysReset
             \/ CtrlC \/ UNCHANGED vars
      PROVE  stdin' = stdin
  BY <1>7, Zenon DEF SoftReset, BootTest, BootStart, BootEnd, Select, GetScript,
     TakeScript, ScriptReturn, ScriptRaise, ScriptTail, EndFree, EndRunning, EndCheck,
     ReplRaise, ReplTail, ReplEnd, MainExit, ThreadsEnd, ScriptExec, ExecTest, ExecRecv, ScriptStop,
     SysReset, CtrlC, vars
<1>8. UsbRxClear => stdin' = <<>>
  BY DEF UsbRxClear
<1>9. QED
  BY <1>2, <1>3, <1>4, <1>5, <1>6, <1>7, <1>8, Zenon DEF Next, MainStep, IdeTask

\* The line editor knows every key the ring may hold.
LEMMA KeyIs ==
  ASSUME TypeOK, ReplKey
  PROVE  Head(stdin) = "ctrl-d" \/ Head(stdin) = "ctrl-c" \/ Head(stdin) = "line"
<1>1. stdin \in Seq({"ctrl-c", "ctrl-d", "line"}) /\ stdin # <<>>
  BY DEF TypeOK, ReplKey
<1>2. QED
  BY <1>1

\* Every step keeps the types.
LEMMA TypeKeeps == TypeOK /\ [Next]_vars => TypeOK'
<1> SUFFICES ASSUME TypeOK, [Next]_vars PROVE TypeOK'
  OBVIOUS
<1>1. BootFiles \in Nat /\ MaxPosts \in Nat /\ 0 \in 0..BootFiles /\ BootFiles \in 0..BootFiles
  BY SessionAssumption
<1>2. stdin' \in Seq({"ctrl-c", "ctrl-d", "line"}) /\ Len(stdin') <= MaxKeys
  BY StdinKeeps DEF Key3
<1> DEFINE Numbers == todo' \in 0..BootFiles /\ script_sem' \in 0..MaxPosts
           Flags == /\ attached' \in BOOLEAN /\ running' \in BOOLEAN
                    /\ disconnect' \in BOOLEAN /\ repl_run' \in BOOLEAN
                    /\ repl_intr' \in BOOLEAN /\ stray' \in BOOLEAN /\ caught' \in BOOLEAN
           Places == /\ mpc' \in MPC /\ what' \in {"boot", "ide"}
                     /\ ipc' \in {"idle", "pause", "recv"}
                     /\ script' \in {"null", "partial", "whole"}
                     /\ exc' \in {"none", "ide", "kbd"}
<1>3. ReplKey => Head(stdin) = "ctrl-d" \/ Head(stdin) = "ctrl-c" \/ Head(stdin) = "line"
  BY KeyIs
<1>4. Numbers
  <2>1. todo \in 0..BootFiles /\ script_sem \in 0..MaxPosts
    BY DEF TypeOK
  <2>2. \/ todo' = todo \/ todo' = BootFiles
        \/ todo > 0 /\ todo' = todo - 1
    BY Zenon DEF Next, MainStep, IdeTask, SoftReset, UsbRxClear, BootTest, BootStart, BootEnd,
       Select, GetScript, TakeScript, ScriptReturn, ScriptRaise, ScriptTail, EndFree,
       EndRunning, EndCheck, ReplKey, ReplRaise, ReplTail, ReplEnd, MainExit, ThreadsEnd, Attach,
       ScriptExec, ExecTest, ExecRecv, ScriptStop, SysReset, CtrlC, Key, vars
  <2>3. \/ script_sem' = script_sem
        \/ script_sem > 0 /\ script_sem' = script_sem - 1
        \/ script_sem < MaxPosts /\ script_sem' = script_sem + 1
    BY Zenon DEF Next, MainStep, IdeTask, SoftReset, UsbRxClear, BootTest, BootStart, BootEnd,
       Select, GetScript, TakeScript, ScriptReturn, ScriptRaise, ScriptTail, EndFree,
       EndRunning, EndCheck, ReplKey, ReplRaise, ReplTail, ReplEnd, MainExit, ThreadsEnd, Attach,
       ScriptExec, ExecTest, ExecRecv, ScriptStop, SysReset, CtrlC, Key, vars, hand
  <2>4. QED
    BY <1>1, <2>1, <2>2, <2>3
<1>5. Flags
  <2>1. /\ attached \in BOOLEAN /\ running \in BOOLEAN /\ disconnect \in BOOLEAN
        /\ repl_run \in BOOLEAN /\ repl_intr \in BOOLEAN /\ stray \in BOOLEAN
        /\ caught \in BOOLEAN
    BY DEF TypeOK
  <2>2. attached' = attached \/ attached' \in BOOLEAN
    BY Zenon DEF Next, MainStep, IdeTask, SoftReset, UsbRxClear, BootTest, BootStart, BootEnd,
       Select, GetScript, TakeScript, ScriptReturn, ScriptRaise, ScriptTail, EndFree,
       EndRunning, EndCheck, ReplKey, ReplRaise, ReplTail, ReplEnd, MainExit, ThreadsEnd, Attach,
       ScriptExec, ExecTest, ExecRecv, ScriptStop, SysReset, CtrlC, Key, vars, flags, hand
  <2>3. running' = running \/ running' \in BOOLEAN
    BY Zenon DEF Next, MainStep, IdeTask, SoftReset, UsbRxClear, BootTest, BootStart, BootEnd,
       Select, GetScript, TakeScript, ScriptReturn, ScriptRaise, ScriptTail, EndFree,
       EndRunning, EndCheck, ReplKey, ReplRaise, ReplTail, ReplEnd, MainExit, ThreadsEnd, Attach,
       ScriptExec, ExecTest, ExecRecv, ScriptStop, SysReset, CtrlC, Key, vars, flags, hand
  <2>4. disconnect' = disconnect \/ disconnect' \in BOOLEAN
    BY Zenon DEF Next, MainStep, IdeTask, SoftReset, UsbRxClear, BootTest, BootStart, BootEnd,
       Select, GetScript, TakeScript, ScriptReturn, ScriptRaise, ScriptTail, EndFree,
       EndRunning, EndCheck, ReplKey, ReplRaise, ReplTail, ReplEnd, MainExit, ThreadsEnd, Attach,
       ScriptExec, ExecTest, ExecRecv, ScriptStop, SysReset, CtrlC, Key, vars, flags, hand
  <2>5. repl_run' = repl_run \/ repl_run' \in BOOLEAN
    <3>1. CASE ReplKey
      BY <1>3, <3>1, Zenon DEF ReplKey
    <3>2. CASE ~ReplKey
      BY <3>2, Zenon DEF Next, MainStep, IdeTask, SoftReset, UsbRxClear, BootTest, BootStart, BootEnd,
       Select, GetScript, TakeScript, ScriptReturn, ScriptRaise, ScriptTail, EndFree,
       EndRunning, EndCheck, ReplRaise, ReplTail, ReplEnd, MainExit, ThreadsEnd, Attach,
       ScriptExec, ExecTest, ExecRecv, ScriptStop, SysReset, CtrlC, Key, vars, flags, hand
    <3>3. QED
      BY <3>1, <3>2
  <2>6. repl_intr' = repl_intr \/ repl_intr' \in BOOLEAN
    BY Zenon DEF Next, MainStep, IdeTask, SoftReset, UsbRxClear, BootTest, BootStart, BootEnd,
       Select, GetScript, TakeScript, ScriptReturn, ScriptRaise, ScriptTail, EndFree,
       EndRunning, EndCheck, ReplKey, ReplRaise, ReplTail, ReplEnd, MainExit, ThreadsEnd, Attach,
       ScriptExec, ExecTest, ExecRecv, ScriptStop, SysReset, CtrlC, Key, vars, flags, hand
  <2>7. stray' = stray \/ stray' \in BOOLEAN
    BY Zenon DEF Next, MainStep, IdeTask, SoftReset, UsbRxClear, BootTest, BootStart, BootEnd,
       Select, GetScript, TakeScript, ScriptReturn, ScriptRaise, ScriptTail, EndFree,
       EndRunning, EndCheck, ReplKey, ReplRaise, ReplTail, ReplEnd, MainExit, ThreadsEnd, Attach,
       ScriptExec, ExecTest, ExecRecv, ScriptStop, SysReset, CtrlC, Key, vars, flags, hand
  <2>8. caught' = caught \/ caught' \in BOOLEAN
    BY Zenon DEF Next, MainStep, IdeTask, SoftReset, UsbRxClear, BootTest, BootStart, BootEnd,
       Select, GetScript, TakeScript, ScriptReturn, ScriptRaise, ScriptTail, EndFree,
       EndRunning, EndCheck, ReplKey, ReplRaise, ReplTail, ReplEnd, MainExit, ThreadsEnd, Attach,
       ScriptExec, ExecTest, ExecRecv, ScriptStop, SysReset, CtrlC, Key, vars, flags, hand
  <2>9. QED
    BY <2>1, <2>2, <2>3, <2>4, <2>5, <2>6, <2>7, <2>8, Zenon
<1>6. Places
  <2>1. /\ mpc \in MPC /\ what \in {"boot", "ide"} /\ ipc \in {"idle", "pause", "recv"}
        /\ script \in {"null", "partial", "whole"} /\ exc \in {"none", "ide", "kbd"}
    BY DEF TypeOK
  <2>2. what' \in {what, "boot", "ide"} /\ ipc' \in {ipc, "idle", "pause", "recv"}
    BY <2>1 DEF Next, MainStep, IdeTask, SoftReset, UsbRxClear, BootTest, BootStart, BootEnd,
       Select, GetScript, TakeScript, ScriptReturn, ScriptRaise, ScriptTail, EndFree,
       EndRunning, EndCheck, ReplKey, ReplRaise, ReplTail, ReplEnd, MainExit, ThreadsEnd, Attach,
       ScriptExec, ExecTest, ExecRecv, ScriptStop, SysReset, CtrlC, Key, vars, flags, hand
  <2>3. script' \in {script, "null", "partial", "whole"} /\ exc' \in {exc, "none", "ide", "kbd"}
    BY <2>1 DEF SetException, Next, MainStep, IdeTask, SoftReset, UsbRxClear, BootTest, BootStart, BootEnd,
       Select, GetScript, TakeScript, ScriptReturn, ScriptRaise, ScriptTail, EndFree,
       EndRunning, EndCheck, ReplKey, ReplRaise, ReplTail, ReplEnd, MainExit, ThreadsEnd, Attach,
       ScriptExec, ExecTest, ExecRecv, ScriptStop, SysReset, CtrlC, Key, vars, flags, hand
  <2>4. mpc' \in MPC
    <3>1. CASE IdeTask \/ UNCHANGED vars
      BY <2>1, <3>1 DEF Next, MainStep, IdeTask, SoftReset, UsbRxClear, BootTest, BootStart, BootEnd,
       Select, GetScript, TakeScript, ScriptReturn, ScriptRaise, ScriptTail, EndFree,
       EndRunning, EndCheck, ReplKey, ReplRaise, ReplTail, ReplEnd, MainExit, ThreadsEnd, Attach,
       ScriptExec, ExecTest, ExecRecv, ScriptStop, SysReset, CtrlC, Key, vars, flags, hand
    <3>2. CASE ReplKey
      <4>1. mpc' = mpc \/ mpc' = "repl end" \/ mpc' = "repl exec"
        BY <1>3, <3>2, Zenon DEF ReplKey
      <4>2. QED
        BY <2>1, <4>1 DEF MPC
    <3>3. CASE (MainStep \/ ThreadsEnd \/ ScriptReturn) /\ ~ReplKey
      BY <2>1, <3>3 DEF AfterScript, At, MPC, Next, MainStep, IdeTask, SoftReset, UsbRxClear, BootTest, BootStart, BootEnd,
       Select, GetScript, TakeScript, ScriptReturn, ScriptRaise, ScriptTail, EndFree,
       EndRunning, EndCheck, ReplRaise, ReplTail, ReplEnd, MainExit, ThreadsEnd, Attach,
       ScriptExec, ExecTest, ExecRecv, ScriptStop, SysReset, CtrlC, Key, vars, flags, hand
    <3>4. QED
      BY <3>1, <3>2, <3>3 DEF Next
  <2>5. QED
    BY <2>1, <2>2, <2>3, <2>4
<1>7. QED
  BY <1>2, <1>4, <1>5, <1>6 DEF TypeOK

-----------------------------------------------------------------------------
(* The hand-over                                                           *)

\* Every step keeps the string and the flags in order.
LEMMA HandKeeps ==
  ASSUME TypeOK, [Next]_vars, ~stray', ~stray => Received /\ Flagged
  PROVE  Received' /\ Flagged'
<1>1. ~stray
  BY Zenon DEF Next, MainStep, IdeTask, SoftReset, UsbRxClear, BootTest, BootStart, BootEnd,
       Select, GetScript, TakeScript, ScriptReturn, ScriptRaise, ScriptTail, EndFree,
       EndRunning, EndCheck, ReplKey, ReplRaise, ReplTail, ReplEnd, MainExit, ThreadsEnd, Attach,
       ScriptExec, ExecTest, ExecRecv, ScriptStop, SysReset, CtrlC, Key, vars
<1>2. /\ Received /\ Flagged /\ script_sem \in Nat /\ todo \in Nat
      /\ script \in {"null", "partial", "whole"}
  BY <1>1 DEF TypeOK
<1>3. ASSUME SoftReset PROVE Received' /\ Flagged'
  BY <1>2, <1>3 DEF SoftReset, Received, Flagged, At, Idle, flags, hand
<1>4. ASSUME UsbRxClear PROVE Received' /\ Flagged'
  BY <1>2, <1>4 DEF UsbRxClear, Received, Flagged, At, Idle, flags, hand
<1>5. ASSUME BootTest PROVE Received' /\ Flagged'
  BY <1>2, <1>5 DEF BootTest, Received, Flagged, At, Idle, flags, hand
<1>6. ASSUME BootEnd PROVE Received' /\ Flagged'
  BY <1>2, <1>6 DEF BootEnd, Received, Flagged, At, Idle, flags, hand
<1>7. ASSUME Select PROVE Received' /\ Flagged'
  BY <1>2, <1>7 DEF Select, Received, Flagged, At, Idle, flags, hand
<1>8. ASSUME GetScript PROVE Received' /\ Flagged'
  BY <1>2, <1>8 DEF GetScript, Received, Flagged, At, Idle, flags, hand
<1>9. ASSUME TakeScript PROVE Received' /\ Flagged'
  BY <1>2, <1>9 DEF TakeScript, Received, Flagged, At, Idle, flags, hand
<1>10. ASSUME ScriptReturn PROVE Received' /\ Flagged'
  BY <1>2, <1>10 DEF ScriptReturn, Received, Flagged, At, Idle, flags, hand, AfterScript
<1>11. ASSUME ScriptRaise PROVE Received' /\ Flagged'
  BY <1>2, <1>11 DEF ScriptRaise, Received, Flagged, At, Idle, flags, hand, AfterScript
<1>12. ASSUME ScriptTail PROVE Received' /\ Flagged'
  BY <1>2, <1>12 DEF ScriptTail, Received, Flagged, At, Idle, flags, hand
<1>13. ASSUME EndFree PROVE Received' /\ Flagged'
  BY <1>2, <1>13 DEF EndFree, Received, Flagged, At, Idle, flags, hand
<1>14. ASSUME EndRunning PROVE Received' /\ Flagged'
  BY <1>2, <1>14 DEF EndRunning, Received, Flagged, At, Idle, flags, hand
<1>15. ASSUME EndCheck PROVE Received' /\ Flagged'
  BY <1>2, <1>15 DEF EndCheck, Received, Flagged, At, Idle, flags, hand
<1>16. ASSUME ReplKey PROVE Received' /\ Flagged'
  <2>1. /\ mpc = "repl" /\ mpc' \in {"repl", "repl end", "repl exec"}
        /\ UNCHANGED <<what, todo, ipc, attached, running, disconnect, hand>>
    <3>1. mpc' = mpc \/ mpc' = "repl end" \/ mpc' = "repl exec"
      BY <1>16, KeyIs, Zenon DEF ReplKey
    <3>2. QED
      BY <1>16, <3>1 DEF ReplKey
  <2>2. QED
    BY <1>2, <2>1 DEF Received, Flagged, hand
<1>17. ASSUME ReplRaise PROVE Received' /\ Flagged'
  BY <1>2, <1>17 DEF ReplRaise, Received, Flagged, At, Idle, flags, hand
<1>18. ASSUME ReplTail PROVE Received' /\ Flagged'
  BY <1>2, <1>18 DEF ReplTail, Received, Flagged, At, Idle, flags, hand
<1>19. ASSUME ReplEnd PROVE Received' /\ Flagged'
  BY <1>2, <1>19 DEF ReplEnd, Received, Flagged, At, Idle, flags, hand
<1>20. ASSUME MainExit PROVE Received' /\ Flagged'
  BY <1>2, <1>20 DEF MainExit, Received, Flagged, At, Idle, flags, hand
<1>21. ASSUME BootStart PROVE Received' /\ Flagged'
  BY <1>2, <1>21 DEF BootStart, Received, Flagged, At, Idle, flags, hand
<1>22. ASSUME Attach PROVE Received' /\ Flagged'
  BY <1>2, <1>22 DEF Attach, Received, Flagged, At, Idle, flags, hand
<1>23. ASSUME ScriptExec PROVE Received' /\ Flagged'
  BY <1>2, <1>23 DEF ScriptExec, Received, Flagged, At, Idle, flags, hand
<1>24. ASSUME ExecTest PROVE Received' /\ Flagged'
  <2>1. /\ ipc = "pause" /\ mpc' = mpc /\ what' = what /\ todo' = todo /\ attached' = attached
        /\ disconnect' = disconnect /\ running' = running /\ script_sem' = script_sem
    BY <1>24, Zenon DEF ExecTest, flags
  <2>2. CASE running
    <3>1. ipc' = "idle" /\ script' = script
      BY <1>24, <2>2, Zenon DEF ExecTest
    <3>2. QED
      BY <1>2, <2>1, <3>1 DEF Received, Flagged
  <2>3. CASE ~running
    <3>1. ipc' = "recv" /\ script' = "partial" /\ ~Unready
      BY <1>24, <2>3, Zenon DEF ExecTest
    <3>2. /\ script_sem = 0 /\ mpc \notin {"take", "end", "drain"}
          /\ mpc \in {"check", "open"} => todo = 0
          /\ ~disconnect /\ attached
      BY <1>2, <3>1 DEF Unready
    <3>3. QED
      BY <1>2, <2>1, <2>3, <3>1, <3>2 DEF Received, Flagged
  <2>4. QED
    BY <2>2, <2>3
<1>25. ASSUME ExecRecv PROVE Received' /\ Flagged'
  BY <1>2, <1>25 DEF ExecRecv, Received, Flagged, At, Idle, flags, hand
<1>26. ASSUME ScriptStop PROVE Received' /\ Flagged'
  BY <1>2, <1>26 DEF ScriptStop, Received, Flagged, At, Idle, flags, hand
<1>27. ASSUME SysReset PROVE Received' /\ Flagged'
  BY <1>2, <1>27 DEF SysReset, Received, Flagged, At, Idle, flags, hand
<1>28. ASSUME CtrlC PROVE Received' /\ Flagged'
  BY <1>2, <1>28 DEF CtrlC, Received, Flagged, At, Idle, flags, hand
<1>29. ASSUME Key PROVE Received' /\ Flagged'
  BY <1>2, <1>29 DEF Key, Received, Flagged, At, Idle, flags, hand
<1>30. ASSUME UNCHANGED vars PROVE Received' /\ Flagged'
  BY <1>2, <1>30 DEF vars, flags, hand, Received, Flagged
<1>31. ASSUME ThreadsEnd PROVE Received' /\ Flagged'
  BY <1>2, <1>31 DEF ThreadsEnd, Received, Flagged, At, Idle, flags, hand
<1>32. QED
  BY <1>3, <1>4, <1>5, <1>6, <1>7, <1>8, <1>9, <1>10, <1>11, <1>12, <1>13, <1>14, <1>15, <1>16, <1>17, <1>18, <1>19, <1>20, <1>21, <1>22, <1>23, <1>24, <1>25, <1>26, <1>27, <1>28, <1>29, <1>30, <1>31, Zenon
     DEF Next, MainStep, IdeTask

\* The invariant holds at the start.
LEMMA InitOK == Init => IInv
<1> SUFFICES ASSUME Init PROVE IInv
  OBVIOUS
<1>1. 0 \in 0..BootFiles /\ 0 \in 0..MaxPosts /\ MaxKeys \in Nat
  BY SessionAssumption
<1>2. TypeOK
  <2>1. stdin \in Seq({"ctrl-c", "ctrl-d", "line"}) /\ Len(stdin) <= MaxKeys
    BY <1>1 DEF Init
  <2>2. /\ attached \in BOOLEAN /\ running \in BOOLEAN /\ disconnect \in BOOLEAN
        /\ repl_run \in BOOLEAN /\ repl_intr \in BOOLEAN /\ stray \in BOOLEAN
        /\ caught \in BOOLEAN
    BY DEF Init
  <2>3. /\ mpc \in MPC /\ what \in {"boot", "ide"} /\ todo \in 0..BootFiles
        /\ ipc \in {"idle", "pause", "recv"} /\ script \in {"null", "partial", "whole"}
        /\ script_sem \in 0..MaxPosts /\ exc \in {"none", "ide", "kbd"}
    BY <1>1 DEF Init, MPC
  <2>4. QED
    BY <2>1, <2>2, <2>3 DEF TypeOK
<1>3. Received /\ Flagged
  BY DEF Init, Received, Flagged
<1>4. QED
  BY <1>2, <1>3 DEF IInv

\* The invariant is inductive.
LEMMA Invariance == Spec => []IInv
<1>1. IInv /\ [Next]_vars => IInv'
  BY TypeKeeps, HandKeeps DEF IInv
<1>2. QED
  BY InitOK, <1>1, PTL DEF Spec

\* Every variable keeps its type; the stdin ring and the semaphore keep their bounds.
THEOREM TypeCorrect == Spec => []TypeOK
<1>1. IInv => TypeOK
  BY DEF IInv
<1>2. QED
  BY <1>1, Invariance, PTL

\* ide_dbg_get_script and SCRIPT_EXEC hand scripts over without a lock: main_()
\* runs only complete strings, none is freed while it is received, and none that
\* is accepted goes unmarked, in every session that nothing has upset.
THEOREM HandoverCorrect == Spec => []HandoverOK
<1>1. IInv => HandoverOK
  BY DEF IInv, Received, Flagged, HandoverOK
<1>2. QED
  BY <1>1, Invariance, PTL

-----------------------------------------------------------------------------
(* The abstract hand-over                                                  *)

\* What the phase is, by string and place.
PhaseIs ==
  /\ script = "null" => Phase = "none"
  /\ script = "partial" => Phase = "receiving"
  /\ script = "whole" =>
       /\ what = "ide" /\ mpc = "exec" => Phase = "running"
       /\ what = "ide" /\ mpc \in {"tail", "end"} => Phase = "over"
       /\ ~(what = "ide" /\ mpc \in {"exec", "tail", "end"}) => Phase = "accepted"

\* The steps that leave the phase alone: the string stays, and main_() neither
\* begins nor ends the IDE's script.
Quiet ==
  /\ script' = script
  /\ \/ script # "whole"
     \/ UNCHANGED <<what, mpc>>
     \/ /\ what = "boot" \/ mpc \notin {"exec", "tail", "end"}
        /\ what' = "boot" \/ mpc' \notin {"exec", "tail", "end"}
     \/ what' = what /\ mpc = "tail" /\ mpc' = "end"

\* A step of neither kind below is quiet.
LEMMA StepKinds ==
  ASSUME TypeOK, [Next]_vars, ~stray => Received /\ Flagged, ~stray
  PROVE  Quiet \/ TakeScript \/ ScriptReturn \/ ScriptRaise \/ EndFree \/ ExecTest \/ ExecRecv
<1>1. Flagged /\ what \in {"boot", "ide"}
  BY DEF TypeOK
<1>2. ASSUME SoftReset PROVE Quiet
  BY <1>1, <1>2 DEF SoftReset, Quiet, Flagged, At, Idle, flags, hand
<1>3. ASSUME UsbRxClear PROVE Quiet
  BY <1>1, <1>3 DEF UsbRxClear, Quiet, Flagged, At, Idle, flags, hand
<1>4. ASSUME BootTest PROVE Quiet
  BY <1>1, <1>4 DEF BootTest, Quiet, Flagged, At, Idle, flags, hand
<1>5. ASSUME BootStart PROVE Quiet
  BY <1>1, <1>5 DEF BootStart, Quiet, Flagged, At, Idle, flags, hand
<1>6. ASSUME BootEnd PROVE Quiet
  BY <1>1, <1>6 DEF BootEnd, Quiet, Flagged, At, Idle, flags, hand
<1>7. ASSUME Select PROVE Quiet
  BY <1>1, <1>7 DEF Select, Quiet, Flagged, At, Idle, flags, hand
<1>8. ASSUME GetScript PROVE Quiet
  BY <1>1, <1>8 DEF GetScript, Quiet, Flagged, At, Idle, flags, hand
<1>9. ASSUME ScriptTail PROVE Quiet
  BY <1>1, <1>9 DEF ScriptTail, Quiet, Flagged, At, Idle, flags, hand
<1>10. ASSUME EndRunning PROVE Quiet
  BY <1>1, <1>10 DEF EndRunning, Quiet, Flagged, At, Idle, flags, hand
<1>11. ASSUME EndCheck PROVE Quiet
  BY <1>1, <1>11 DEF EndCheck, Quiet, Flagged, At, Idle, flags, hand
<1>12. ASSUME ReplKey PROVE Quiet
  <2>1. /\ mpc = "repl" /\ what' = what /\ script' = script
        /\ mpc' \in {"repl", "repl end", "repl exec"}
    <3>1. mpc' = mpc \/ mpc' = "repl end" \/ mpc' = "repl exec"
      BY <1>12, KeyIs, Zenon DEF ReplKey
    <3>2. QED
      BY <1>12, <3>1 DEF ReplKey, hand
  <2>2. QED
    BY <2>1 DEF Quiet
<1>13. ASSUME ReplRaise PROVE Quiet
  BY <1>1, <1>13 DEF ReplRaise, Quiet, Flagged, At, Idle, flags, hand
<1>14. ASSUME ReplTail PROVE Quiet
  BY <1>1, <1>14 DEF ReplTail, Quiet, Flagged, At, Idle, flags, hand
<1>15. ASSUME ReplEnd PROVE Quiet
  BY <1>1, <1>15 DEF ReplEnd, Quiet, Flagged, At, Idle, flags, hand
<1>16. ASSUME MainExit PROVE Quiet
  BY <1>1, <1>16 DEF MainExit, Quiet, Flagged, At, Idle, flags, hand
<1>17. ASSUME Attach PROVE Quiet
  BY <1>1, <1>17 DEF Attach, Quiet, Flagged, At, Idle, flags, hand
<1>18. ASSUME ScriptExec PROVE Quiet
  BY <1>1, <1>18 DEF ScriptExec, Quiet, Flagged, At, Idle, flags, hand
<1>19. ASSUME ScriptStop PROVE Quiet
  BY <1>1, <1>19 DEF ScriptStop, Quiet, Flagged, At, Idle, flags, hand
<1>20. ASSUME SysReset PROVE Quiet
  BY <1>1, <1>20 DEF SysReset, Quiet, Flagged, At, Idle, flags, hand
<1>21. ASSUME CtrlC PROVE Quiet
  BY <1>1, <1>21 DEF CtrlC, Quiet, Flagged, At, Idle, flags, hand
<1>22. ASSUME Key PROVE Quiet
  BY <1>1, <1>22 DEF Key, Quiet, Flagged, At, Idle, flags, hand
<1>23. ASSUME UNCHANGED vars PROVE Quiet
  BY <1>23 DEF vars, hand, Quiet
<1>24. ASSUME ThreadsEnd PROVE Quiet
  BY <1>1, <1>24 DEF ThreadsEnd, Quiet, Flagged, At, Idle, flags, hand
<1>25. QED
  BY <1>2, <1>3, <1>4, <1>5, <1>6, <1>7, <1>8, <1>9, <1>10, <1>11, <1>12, <1>13, <1>14, <1>15, <1>16, <1>17, <1>18, <1>19, <1>20, <1>21, <1>22, <1>23, <1>24, Zenon
     DEF Next, MainStep, IdeTask

\* Every step of the sessions is one of the hand-over, or leaves it alone.
LEMMA StepHandsOver ==
  ASSUME IInv, IInv', [Next]_vars
  PROVE  [Handover!Next]_Phase
<1>1. CASE stray'
  <2>1. Phase' = "upset"
    BY <1>1 DEF Phase
  <2>2. QED
    BY <2>1 DEF Handover!Next, Handover!Upset
<1>2. CASE ~stray'
  <2>1. ~stray
    BY <1>2, Zenon DEF Next, MainStep, IdeTask, SoftReset, UsbRxClear, BootTest, BootStart, BootEnd,
       Select, GetScript, TakeScript, ScriptReturn, ScriptRaise, ScriptTail, EndFree,
       EndRunning, EndCheck, ReplKey, ReplRaise, ReplTail, ReplEnd, MainExit, ThreadsEnd, Attach,
       ScriptExec, ExecTest, ExecRecv, ScriptStop, SysReset, CtrlC, Key, vars
  <2>2. /\ TypeOK /\ Received /\ Flagged
        /\ script \in {"null", "partial", "whole"} /\ what \in {"boot", "ide"}
        /\ script' \in {"null", "partial", "whole"} /\ what' \in {"boot", "ide"}
    BY <2>1 DEF IInv, TypeOK
  <2>3. PhaseIs
    BY <2>1, <2>2 DEF PhaseIs, Phase
  <2>4. PhaseIs'
    BY <1>2, <2>2 DEF PhaseIs, Phase
  <2>5. CASE Quiet
    <3>1. Phase' = Phase
      BY <2>2, <2>3, <2>4, <2>5 DEF PhaseIs, Quiet
    <3>2. QED
      BY <3>1
  <2>6. CASE TakeScript
    <3>1. /\ mpc = "take" /\ what' = "ide" /\ script' = script
          /\ mpc' = "end" \/ (mpc' = "exec" /\ script # "null")
      BY <2>6, Zenon DEF TakeScript, hand
    <3>2. \/ Phase' = Phase
          \/ Phase = "accepted" /\ Phase' \in {"running", "over"}
      BY <2>2, <2>3, <2>4, <3>1 DEF PhaseIs
    <3>3. QED
      BY <3>2 DEF Handover!Next, Handover!Start, Handover!Drop, Handover!Goes
  <2>7. CASE ScriptReturn \/ ScriptRaise
    <3>1. /\ mpc \in {"exec", "repl exec"} /\ what' = what /\ script' = script
          /\ mpc' = mpc \/ mpc' = IF mpc = "exec" THEN "tail" ELSE "repl tail"
      BY <2>7, Zenon DEF ScriptReturn, ScriptRaise, AfterScript, hand
    <3>2. CASE mpc' = mpc
      BY <2>2, <2>3, <2>4, <3>1, <3>2 DEF PhaseIs
    <3>3. CASE mpc' # mpc
      <4>1. Phase' = Phase \/ (Phase = "running" /\ Phase' = "over")
        BY <2>2, <2>3, <2>4, <3>1, <3>3 DEF PhaseIs
      <4>2. QED
        BY <4>1 DEF Handover!Next, Handover!End, Handover!Goes
    <3>4. QED
      BY <3>2, <3>3
  <2>8. CASE EndFree
    <3>1. mpc = "end" /\ script' = "null"
      BY <2>8 DEF EndFree, At
    <3>2. Phase' = "none" /\ Phase \in {"none", "over", "accepted"}
      BY <2>2, <2>3, <2>4, <3>1 DEF PhaseIs, Flagged, Received
    <3>3. QED
      BY <3>2 DEF Handover!Next, Handover!Free, Handover!Drop, Handover!Goes
  <2>9. CASE ExecTest
    <3>1. CASE running
      <4>1. script' = script /\ what' = what /\ mpc' = mpc
        BY <2>9, <3>1, Zenon DEF ExecTest
      <4>2. QED
        BY <2>2, <2>3, <2>4, <4>1 DEF PhaseIs
    <3>2. CASE ~running
      <4>1. script' = "partial" /\ ipc = "pause"
        BY <2>9, <3>2, Zenon DEF ExecTest
      <4>2. Phase = "none" /\ Phase' = "receiving"
        BY <2>2, <2>3, <2>4, <3>2, <4>1 DEF PhaseIs, Flagged
      <4>3. QED
        BY <4>2 DEF Handover!Next, Handover!Begin, Handover!Goes
    <3>3. QED
      BY <3>1, <3>2
  <2>10. CASE ExecRecv
    <3>1. /\ ipc = "recv" /\ script = "partial" /\ script' = "whole"
          /\ what' = what /\ mpc' = mpc /\ mpc \notin {"exec", "tail", "end"}
      BY <2>2, <2>10 DEF ExecRecv, Received
    <3>2. Phase = "receiving" /\ Phase' = "accepted"
      BY <2>3, <2>4, <3>1 DEF PhaseIs
    <3>3. QED
      BY <3>2 DEF Handover!Next, Handover!Accept, Handover!Goes
  <2>11. QED
    BY <2>1, <2>2, <2>5, <2>6, <2>7, <2>8, <2>9, <2>10, StepKinds
<1>3. QED
  BY <1>1, <1>2

\* main_() and the IDE task implement one slot for scripts: received whole, run
\* at most once, and no other begun until it is freed.
THEOREM HandoverImplements == Spec => HandoverSpec
<1>1. Init => Handover!Init
  BY DEF Init, Phase, Handover!Init
<1>2. IInv /\ IInv' /\ [Next]_vars => [Handover!Next]_Phase
  BY StepHandsOver
<1>3. QED
  BY <1>1, <1>2, Invariance, PTL DEF Spec, HandoverSpec, Handover!Spec
=============================================================================
