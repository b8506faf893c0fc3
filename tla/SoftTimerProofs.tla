--------------------------- MODULE SoftTimerProofs ---------------------------
(***************************************************************************)
(* Theorems about soft timers, for any number of objects and settings and  *)
(* any room in the scheduler's queue.                                      *)
(*                                                                         *)
(* What the four properties rest on is how the status of an object, its    *)
(* timer in the kernel and timer_obj go together (ObjectsOK), that a       *)
(* second object is not made while there is one (Alone), and that fields   *)
(* are set only where no signal can find them (Settled).                   *)
(***************************************************************************)
EXTENDS SoftTimer, TLAPS

Starting == {"init", "arg", "start", "settime"}

Live(o) == status[o] \in {"made", "ready"}

\* Where a call is, it has an object, which is live once it has been made; and
\* no object is deleted between the first and the last step of init.
CallOK ==
  /\ pc \in Starting \cup {"alloc", "done"} => self \in Timer
  /\ pc \in {"start", "settime"} => given # None
  /\ pc = "arg" => given # None
  /\ pc = "alloc" => status[self] = "free" /\ self \notin refs
  /\ pc = "done" => self \notin refs
  /\ pc \in Starting \cup {"done"} =>
       status[self] = IF self \in refs THEN "ready" ELSE "made"
  /\ closing # None => pc \in {"python", "alloc", "sweep"}

\* The script has no free object, only a live object has a timer in the kernel
\* or in timer_obj, and what a handler has read is not free.
ObjectsOK ==
  /\ \A o \in refs : status[o] \in {"off", "ready"}
  /\ \A o \in Timer : kernel[o] # "none" => Live(o)
  /\ timer_obj # None => Live(timer_obj)
  /\ handler # None => status[handler] # "free"
  /\ closing # None => Live(closing) /\ kernel[closing] = "none"
  /\ pc = "settime" => timer_obj = self
  /\ pc \in {"init", "arg"} /\ self \notin refs => timer_obj # self /\ handler # self

\* Until a constructor breaks, there is one live object: that of timer_obj or
\* the one under construction.
Alone ==
  ~broken =>
    /\ \A o, p \in Timer : Live(o) /\ Live(p) => o = p
    /\ \A o \in Timer : Live(o) /\ timer_obj # o =>
         self = o /\ o \notin refs /\ pc \in Starting \cup {"done"}
    /\ pc = "alloc" => \A o \in Timer : ~Live(o)
    /\ OneTimer

\* The object's callback and arg are of one call.
Good(o) == callback[o] # None /\ arg[o] = callback[o]

\* Until an object is exposed, what a signal can find is whole: the handler's
\* object, and that of timer_obj when a signal may come; the fields of an
\* object the script has are set when none can.
Settled ==
  ~upset =>
    /\ handler # None => Good(handler)
    /\ timer_obj # None /\ Stirring => Good(timer_obj)
    /\ pc \in Starting /\ self \in refs => ~Stirring
    /\ pc = "arg" => callback[self] = given
    /\ pc \in {"start", "settime"} => Good(self)
    /\ pc = "done" => arg[self] = callback[self]
    /\ PairWhole

IInv == TypeOK /\ CallOK /\ ObjectsOK /\ Alone /\ Settled

-----------------------------------------------------------------------------
(* Every step keeps the invariant                                          *)

\* Types, in every step.
LEMMA TypeStep ==
  ASSUME TypeOK, CallOK, [Next]_vars PROVE TypeOK'
<1>1. ASSUME NEW o \in Timer, MakeCheck(o) PROVE TypeOK'
  BY <1>1 DEF
     MakeCheck, At, TypeOK, CallOK, Starting, Pair, call, fields, alarm, history
<1>2. ASSUME MakeCreate PROVE TypeOK'
  BY <1>2 DEF
     MakeCreate, At, Over, TypeOK, CallOK, Starting, Pair, call, fields, alarm, history
<1>3. ASSUME NEW o \in Timer, InitStart(o) PROVE TypeOK'
  BY <1>3 DEF
     InitStart, At, TypeOK, CallOK, Starting, Pair, call, fields, alarm, history
<1>4. ASSUME InitRaise PROVE TypeOK'
  BY <1>4 DEF
     InitRaise, At, Over, Making, TypeOK, CallOK, Starting, Pair, call, fields, alarm, history
<1>5. ASSUME InitCallback PROVE TypeOK'
  BY <1>5 DEF
     InitCallback, At, TypeOK, CallOK, Starting, Pair, call, fields, alarm, history
<1>6. ASSUME InitArg PROVE TypeOK'
  BY <1>6 DEF
     InitArg, At, TypeOK, CallOK, Starting, Pair, call, fields, alarm, history
<1>7. ASSUME StartPoint PROVE TypeOK'
  BY <1>7 DEF
     StartPoint, At, TypeOK, CallOK, Starting, Pair, call, fields, alarm, history
<1>8. ASSUME StartSet PROVE TypeOK'
  BY <1>8 DEF
     StartSet, At, Over, Making, TypeOK, CallOK, Starting, Pair, call, fields, alarm, history
<1>9. ASSUME MakeDone PROVE TypeOK'
  BY <1>9 DEF
     MakeDone, At, Over, TypeOK, CallOK, Starting, Pair, call, fields, alarm, history
<1>10. ASSUME NEW o \in Timer, Drop(o) PROVE TypeOK'
  BY <1>10 DEF
     Drop, At, TypeOK, CallOK, Starting, Pair, call, fields, alarm, history
<1>11. ASSUME NEW o \in Timer, DeinitDelete(o) PROVE TypeOK'
  BY <1>11 DEF
     DeinitDelete, MayClose, At, TypeOK, CallOK, Starting, Pair, call, fields, alarm, history
<1>12. ASSUME DeinitClear PROVE TypeOK'
  BY <1>12 DEF
     DeinitClear, TypeOK, CallOK, Starting, Pair, call, fields, alarm, history
<1>13. ASSUME NEW o \in Timer, Free(o) PROVE TypeOK'
  BY <1>13 DEF
     Free, TypeOK, CallOK, Starting, Pair, call, fields, alarm, history
<1>14. ASSUME SessionEnd PROVE TypeOK'
  BY <1>14 DEF
     SessionEnd, At, TypeOK, CallOK, Starting, Pair, call, fields, alarm, history
<1>15. ASSUME SessionNext PROVE TypeOK'
  BY <1>15, TimerAssumption DEF
     SessionNext, At, TypeOK, CallOK, Starting, Pair, call, fields, alarm, history
<1>16. ASSUME NEW o \in Timer, Expire(o) PROVE TypeOK'
  BY <1>16, TimerAssumption DEF
     Expire, Armed, TypeOK, CallOK, Starting, Pair, call, fields, alarm, history
<1>17. ASSUME Handle PROVE TypeOK'
  BY <1>17 DEF
     Handle, TypeOK, CallOK, Starting, Pair, call, fields, alarm, history
<1>18. ASSUME Schedule PROVE TypeOK'
  <2>1. handler \in Timer /\ [callback |-> callback[handler], arg |-> arg[handler]] \in Pair
    BY <1>18 DEF Schedule, TypeOK, Pair
  <2>2. queue' \in Seq(Pair) /\ Len(queue') <= MICROPY_SCHEDULER_DEPTH
    BY <1>18, <2>1, TimerAssumption DEF Schedule, TypeOK
  <2>3. QED
    BY <1>18, <2>2 DEF Schedule, TypeOK, call, fields, history
<1>19. ASSUME RunPending PROVE TypeOK'
  BY <1>19, TimerAssumption DEF
     RunPending, At, TypeOK, CallOK, Starting, Pair, call, fields, alarm, history
<1>20. ASSUME UNCHANGED vars PROVE TypeOK'
  BY <1>20 DEF
     vars, TypeOK, CallOK, Starting, Pair, call, fields, alarm, history
<1>21. QED
  BY <1>1, <1>2, <1>3, <1>4, <1>5, <1>6, <1>7, <1>8, <1>9, <1>10, <1>11, <1>12, <1>13, <1>14,
  <1>15, <1>16, <1>17, <1>18, <1>19, <1>20 DEF Next

\* The object of a call, in every step.
LEMMA CallStep ==
  ASSUME TypeOK, CallOK, ObjectsOK, [Next]_vars PROVE CallOK'
<1>1. ASSUME NEW o \in Timer, MakeCheck(o) PROVE CallOK'
  BY <1>1 DEF
     MakeCheck, At, TypeOK, CallOK, ObjectsOK, Starting, Live, call, fields, alarm, history
<1>2. ASSUME MakeCreate PROVE CallOK'
  BY <1>2 DEF
     MakeCreate, At, Over, TypeOK, CallOK, ObjectsOK, Starting, Live, call, fields, alarm, history
<1>3. ASSUME NEW o \in Timer, InitStart(o) PROVE CallOK'
  BY <1>3 DEF
     InitStart, At, TypeOK, CallOK, ObjectsOK, Starting, Live, call, fields, alarm, history
<1>4. ASSUME InitRaise PROVE CallOK'
  BY <1>4 DEF
     InitRaise, At, Over, Making, TypeOK, CallOK, ObjectsOK, Starting, Live, call, fields, alarm,
     history
<1>5. ASSUME InitCallback PROVE CallOK'
  BY <1>5, TimerAssumption DEF
     InitCallback, At, TypeOK, CallOK, ObjectsOK, Starting, Live, call, fields, alarm, history
<1>6. ASSUME InitArg PROVE CallOK'
  BY <1>6 DEF
     InitArg, At, TypeOK, CallOK, ObjectsOK, Starting, Live, call, fields, alarm, history
<1>7. ASSUME StartPoint PROVE CallOK'
  BY <1>7 DEF
     StartPoint, At, TypeOK, CallOK, ObjectsOK, Starting, Live, call, fields, alarm, history
<1>8. ASSUME StartSet PROVE CallOK'
  BY <1>8 DEF
     StartSet, At, Over, Making, TypeOK, CallOK, ObjectsOK, Starting, Live, call, fields, alarm,
     history
<1>9. ASSUME MakeDone PROVE CallOK'
  BY <1>9 DEF
     MakeDone, At, Over, TypeOK, CallOK, ObjectsOK, Starting, Live, call, fields, alarm, history
<1>10. ASSUME NEW o \in Timer, Drop(o) PROVE CallOK'
  BY <1>10 DEF
     Drop, At, TypeOK, CallOK, ObjectsOK, Starting, Live, call, fields, alarm, history
<1>11. ASSUME NEW o \in Timer, DeinitDelete(o) PROVE CallOK'
  BY <1>11 DEF
     DeinitDelete, MayClose, At, TypeOK, CallOK, ObjectsOK, Starting, Live, call, fields, alarm,
     history
<1>12. ASSUME DeinitClear PROVE CallOK'
  BY <1>12 DEF
     DeinitClear, TypeOK, CallOK, ObjectsOK, Starting, Live, call, fields, alarm, history
<1>13. ASSUME NEW o \in Timer, Free(o) PROVE CallOK'
  BY <1>13 DEF
     Free, TypeOK, CallOK, ObjectsOK, Starting, Live, call, fields, alarm, history
<1>14. ASSUME SessionEnd PROVE CallOK'
  BY <1>14 DEF
     SessionEnd, At, TypeOK, CallOK, ObjectsOK, Starting, Live, call, fields, alarm, history
<1>15. ASSUME SessionNext PROVE CallOK'
  BY <1>15 DEF
     SessionNext, At, TypeOK, CallOK, ObjectsOK, Starting, Live, call, fields, alarm, history
<1>16. ASSUME NEW o \in Timer, Expire(o) PROVE CallOK'
  BY <1>16 DEF
     Expire, Armed, TypeOK, CallOK, ObjectsOK, Starting, Live, call, fields, alarm, history
<1>17. ASSUME Handle PROVE CallOK'
  BY <1>17 DEF
     Handle, TypeOK, CallOK, ObjectsOK, Starting, Live, call, fields, alarm, history
<1>18. ASSUME Schedule PROVE CallOK'
  BY <1>18 DEF
     Schedule, TypeOK, CallOK, ObjectsOK, Starting, Live, call, fields, alarm, history
<1>19. ASSUME RunPending PROVE CallOK'
  BY <1>19 DEF
     RunPending, At, TypeOK, CallOK, ObjectsOK, Starting, Live, call, fields, alarm, history
<1>20. ASSUME UNCHANGED vars PROVE CallOK'
  BY <1>20 DEF
     vars, TypeOK, CallOK, ObjectsOK, Starting, Live, call, fields, alarm, history
<1>21. QED
  BY <1>1, <1>2, <1>3, <1>4, <1>5, <1>6, <1>7, <1>8, <1>9, <1>10, <1>11, <1>12, <1>13, <1>14,
  <1>15, <1>16, <1>17, <1>18, <1>19, <1>20 DEF Next

\* The objects, the kernel and timer_obj, in every step.
LEMMA ObjectsStep ==
  ASSUME TypeOK, CallOK, ObjectsOK, [Next]_vars PROVE ObjectsOK'
<1>1. ASSUME NEW o \in Timer, MakeCheck(o) PROVE ObjectsOK'
  BY <1>1 DEF
     MakeCheck, At, TypeOK, CallOK, ObjectsOK, Starting, Live, call, fields, alarm, history
<1>2. ASSUME MakeCreate PROVE ObjectsOK'
  BY <1>2, TimerAssumption DEF
     MakeCreate, At, Over, TypeOK, CallOK, ObjectsOK, Starting, Live, call, fields, alarm, history
<1>3. ASSUME NEW o \in Timer, InitStart(o) PROVE ObjectsOK'
  BY <1>3 DEF
     InitStart, At, TypeOK, CallOK, ObjectsOK, Starting, Live, call, fields, alarm, history
<1>4. ASSUME InitRaise PROVE ObjectsOK'
  BY <1>4 DEF
     InitRaise, At, Over, Making, TypeOK, CallOK, ObjectsOK, Starting, Live, call, fields, alarm,
     history
<1>5. ASSUME InitCallback PROVE ObjectsOK'
  BY <1>5 DEF
     InitCallback, At, TypeOK, CallOK, ObjectsOK, Starting, Live, call, fields, alarm, history
<1>6. ASSUME InitArg PROVE ObjectsOK'
  BY <1>6 DEF
     InitArg, At, TypeOK, CallOK, ObjectsOK, Starting, Live, call, fields, alarm, history
<1>7. ASSUME StartPoint PROVE ObjectsOK'
  BY <1>7 DEF
     StartPoint, At, TypeOK, CallOK, ObjectsOK, Starting, Live, call, fields, alarm, history
<1>8. ASSUME StartSet PROVE ObjectsOK'
  BY <1>8 DEF
     StartSet, At, Over, Making, TypeOK, CallOK, ObjectsOK, Starting, Live, call, fields, alarm,
     history
<1>9. ASSUME MakeDone PROVE ObjectsOK'
  BY <1>9 DEF
     MakeDone, At, Over, TypeOK, CallOK, ObjectsOK, Starting, Live, call, fields, alarm, history
<1>10. ASSUME NEW o \in Timer, Drop(o) PROVE ObjectsOK'
  BY <1>10 DEF
     Drop, At, TypeOK, CallOK, ObjectsOK, Starting, Live, call, fields, alarm, history
<1>11. ASSUME NEW o \in Timer, DeinitDelete(o) PROVE ObjectsOK'
  BY <1>11 DEF
     DeinitDelete, MayClose, At, TypeOK, CallOK, ObjectsOK, Starting, Live, call, fields, alarm,
     history
<1>12. ASSUME DeinitClear PROVE ObjectsOK'
  BY <1>12 DEF
     DeinitClear, TypeOK, CallOK, ObjectsOK, Starting, Live, call, fields, alarm, history
<1>13. ASSUME NEW o \in Timer, Free(o) PROVE ObjectsOK'
  BY <1>13 DEF
     Free, TypeOK, CallOK, ObjectsOK, Starting, Live, call, fields, alarm, history
<1>14. ASSUME SessionEnd PROVE ObjectsOK'
  BY <1>14, TimerAssumption DEF
     SessionEnd, At, TypeOK, CallOK, ObjectsOK, Starting, Live, call, fields, alarm, history
<1>15. ASSUME SessionNext PROVE ObjectsOK'
  BY <1>15 DEF
     SessionNext, At, TypeOK, CallOK, ObjectsOK, Starting, Live, call, fields, alarm, history
<1>16. ASSUME NEW o \in Timer, Expire(o) PROVE ObjectsOK'
  BY <1>16 DEF
     Expire, Armed, TypeOK, CallOK, ObjectsOK, Starting, Live, call, fields, alarm, history
<1>17. ASSUME Handle PROVE ObjectsOK'
  BY <1>17 DEF
     Handle, TypeOK, CallOK, ObjectsOK, Starting, Live, call, fields, alarm, history
<1>18. ASSUME Schedule PROVE ObjectsOK'
  BY <1>18, TimerAssumption DEF
     Schedule, TypeOK, CallOK, ObjectsOK, Starting, Live, call, fields, alarm, history
<1>19. ASSUME RunPending PROVE ObjectsOK'
  BY <1>19 DEF
     RunPending, At, TypeOK, CallOK, ObjectsOK, Starting, Live, call, fields, alarm, history
<1>20. ASSUME UNCHANGED vars PROVE ObjectsOK'
  BY <1>20 DEF
     vars, TypeOK, CallOK, ObjectsOK, Starting, Live, call, fields, alarm, history
<1>21. QED
  BY <1>1, <1>2, <1>3, <1>4, <1>5, <1>6, <1>7, <1>8, <1>9, <1>10, <1>11, <1>12, <1>13, <1>14,
  <1>15, <1>16, <1>17, <1>18, <1>19, <1>20 DEF Next

\* No second live object, in every step.
LEMMA AloneStep ==
  ASSUME TypeOK, CallOK, ObjectsOK, Alone, [Next]_vars PROVE Alone'
<1>1. ASSUME NEW o \in Timer, MakeCheck(o) PROVE Alone'
  BY <1>1, TimerAssumption DEF
     MakeCheck, At, TypeOK, CallOK, ObjectsOK, Alone, OneTimer, Armed, Starting, Live, call,
     fields, alarm, history
<1>2. ASSUME MakeCreate PROVE Alone'
  BY <1>2 DEF
     MakeCreate, At, Over, TypeOK, CallOK, ObjectsOK, Alone, OneTimer, Armed, Starting, Live,
     call, fields, alarm, history
<1>3. ASSUME NEW o \in Timer, InitStart(o) PROVE Alone'
  BY <1>3 DEF
     InitStart, At, TypeOK, CallOK, ObjectsOK, Alone, OneTimer, Armed, Starting, Live, call,
     fields, alarm, history
<1>4. ASSUME InitRaise PROVE Alone'
  <2>1. CASE self \notin refs
    BY <1>4, <2>1 DEF InitRaise, Making, Alone, OneTimer
  <2>2. CASE self \in refs
    <3>1. timer_obj = self \/ broken
      BY <1>4, <2>2 DEF InitRaise, At, CallOK, Alone, Starting, Live, ObjectsOK
    <3>2. QED
      BY <1>4, <2>2, <3>1
         DEF InitRaise, At, Over, Making, CallOK, Alone, OneTimer, Armed, Starting, Live, alarm
  <2>3. QED
    BY <2>1, <2>2
<1>5. ASSUME InitCallback PROVE Alone'
  BY <1>5 DEF
     InitCallback, At, TypeOK, CallOK, ObjectsOK, Alone, OneTimer, Armed, Starting, Live, call,
     fields, alarm, history
<1>6. ASSUME InitArg PROVE Alone'
  BY <1>6 DEF
     InitArg, At, TypeOK, CallOK, ObjectsOK, Alone, OneTimer, Armed, Starting, Live, call, fields,
     alarm, history
<1>7. ASSUME StartPoint PROVE Alone'
  BY <1>7 DEF
     StartPoint, At, TypeOK, CallOK, ObjectsOK, Alone, OneTimer, Armed, Starting, Live, call,
     fields, alarm, history
<1>8. ASSUME StartSet PROVE Alone'
  BY <1>8 DEF
     StartSet, At, Over, Making, TypeOK, CallOK, ObjectsOK, Alone, OneTimer, Armed, Starting,
     Live, call, fields, alarm, history
<1>9. ASSUME MakeDone PROVE Alone'
  BY <1>9 DEF
     MakeDone, At, Over, TypeOK, CallOK, ObjectsOK, Alone, OneTimer, Armed, Starting, Live, call,
     fields, alarm, history
<1>10. ASSUME NEW o \in Timer, Drop(o) PROVE Alone'
  BY <1>10 DEF
     Drop, At, TypeOK, CallOK, ObjectsOK, Alone, OneTimer, Armed, Starting, Live, call, fields,
     alarm, history
<1>11. ASSUME NEW o \in Timer, DeinitDelete(o) PROVE Alone'
  BY <1>11, TimerAssumption DEF
     DeinitDelete, MayClose, At, TypeOK, CallOK, ObjectsOK, Alone, OneTimer, Armed, Starting,
     Live, call, fields, alarm, history
<1>12. ASSUME DeinitClear PROVE Alone'
  BY <1>12, TimerAssumption DEF
     DeinitClear, TypeOK, CallOK, ObjectsOK, Alone, OneTimer, Armed, Starting, Live, call, fields,
     alarm, history
<1>13. ASSUME NEW o \in Timer, Free(o) PROVE Alone'
  BY <1>13 DEF
     Free, TypeOK, CallOK, ObjectsOK, Alone, OneTimer, Armed, Starting, Live, call, fields, alarm,
     history
<1>14. ASSUME SessionEnd PROVE Alone'
  BY <1>14 DEF
     SessionEnd, At, TypeOK, CallOK, ObjectsOK, Alone, OneTimer, Armed, Starting, Live, call,
     fields, alarm, history
<1>15. ASSUME SessionNext PROVE Alone'
  BY <1>15, TimerAssumption DEF
     SessionNext, At, TypeOK, CallOK, ObjectsOK, Alone, OneTimer, Armed, Starting, Live, call,
     fields, alarm, history
<1>16. ASSUME NEW o \in Timer, Expire(o) PROVE Alone'
  BY <1>16 DEF
     Expire, Armed, TypeOK, CallOK, ObjectsOK, Alone, OneTimer, Armed, Starting, Live, call,
     fields, alarm, history
<1>17. ASSUME Handle PROVE Alone'
  BY <1>17 DEF
     Handle, TypeOK, CallOK, ObjectsOK, Alone, OneTimer, Armed, Starting, Live, call, fields,
     alarm, history
<1>18. ASSUME Schedule PROVE Alone'
  BY <1>18 DEF
     Schedule, TypeOK, CallOK, ObjectsOK, Alone, OneTimer, Armed, Starting, Live, call, fields,
     alarm, history
<1>19. ASSUME RunPending PROVE Alone'
  BY <1>19 DEF
     RunPending, At, TypeOK, CallOK, ObjectsOK, Alone, OneTimer, Armed, Starting, Live, call,
     fields, alarm, history
<1>20. ASSUME UNCHANGED vars PROVE Alone'
  BY <1>20 DEF
     vars, TypeOK, CallOK, ObjectsOK, Alone, OneTimer, Armed, Starting, Live, call, fields, alarm,
     history
<1>21. QED
  BY <1>1, <1>2, <1>3, <1>4, <1>5, <1>6, <1>7, <1>8, <1>9, <1>10, <1>11, <1>12, <1>13, <1>14,
  <1>15, <1>16, <1>17, <1>18, <1>19, <1>20 DEF Next

\* Whole pairs where a signal can find them, in every step.
LEMMA SettledStep ==
  ASSUME TypeOK, CallOK, ObjectsOK, Settled, [Next]_vars PROVE Settled'
<1>1. ASSUME NEW o \in Timer, MakeCheck(o) PROVE Settled'
  BY <1>1 DEF
     MakeCheck, At, TypeOK, CallOK, ObjectsOK, Settled, PairWhole, Stirring, Armed, Good,
     Starting, Live, call, fields, alarm, history
<1>2. ASSUME MakeCreate PROVE Settled'
  BY <1>2 DEF
     MakeCreate, At, Over, TypeOK, CallOK, ObjectsOK, Settled, PairWhole, Stirring, Armed, Good,
     Starting, Live, call, fields, alarm, history
<1>3. ASSUME NEW o \in Timer, InitStart(o) PROVE Settled'
  BY <1>3 DEF
     InitStart, At, TypeOK, CallOK, ObjectsOK, Settled, PairWhole, Stirring, Armed, Good,
     Starting, Live, call, fields, alarm, history
<1>4. ASSUME InitRaise PROVE Settled'
  BY <1>4 DEF
     InitRaise, At, Over, Making, TypeOK, CallOK, ObjectsOK, Settled, PairWhole, Stirring, Armed,
     Good, Starting, Live, call, fields, alarm, history
<1>5. ASSUME InitCallback PROVE Settled'
  BY <1>5 DEF
     InitCallback, At, TypeOK, CallOK, ObjectsOK, Settled, PairWhole, Stirring, Armed, Good,
     Starting, Live, call, fields, alarm, history
<1>6. ASSUME InitArg PROVE Settled'
  BY <1>6 DEF
     InitArg, At, TypeOK, CallOK, ObjectsOK, Settled, PairWhole, Stirring, Armed, Good, Starting,
     Live, call, fields, alarm, history
<1>7. ASSUME StartPoint PROVE Settled'
  BY <1>7 DEF
     StartPoint, At, TypeOK, CallOK, ObjectsOK, Settled, PairWhole, Stirring, Armed, Good,
     Starting, Live, call, fields, alarm, history
<1>8. ASSUME StartSet PROVE Settled'
  BY <1>8 DEF
     StartSet, At, Over, Making, TypeOK, CallOK, ObjectsOK, Settled, PairWhole, Stirring, Armed,
     Good, Starting, Live, call, fields, alarm, history
<1>9. ASSUME MakeDone PROVE Settled'
  BY <1>9 DEF
     MakeDone, At, Over, TypeOK, CallOK, ObjectsOK, Settled, PairWhole, Stirring, Armed, Good,
     Starting, Live, call, fields, alarm, history
<1>10. ASSUME NEW o \in Timer, Drop(o) PROVE Settled'
  BY <1>10 DEF
     Drop, At, TypeOK, CallOK, ObjectsOK, Settled, PairWhole, Stirring, Armed, Good, Starting,
     Live, call, fields, alarm, history
<1>11. ASSUME NEW o \in Timer, DeinitDelete(o) PROVE Settled'
  BY <1>11 DEF
     DeinitDelete, MayClose, At, TypeOK, CallOK, ObjectsOK, Settled, PairWhole, Stirring, Armed,
     Good, Starting, Live, call, fields, alarm, history
<1>12. ASSUME DeinitClear PROVE Settled'
  BY <1>12 DEF
     DeinitClear, TypeOK, CallOK, ObjectsOK, Settled, PairWhole, Stirring, Armed, Good, Starting,
     Live, call, fields, alarm, history
<1>13. ASSUME NEW o \in Timer, Free(o) PROVE Settled'
  BY <1>13 DEF
     Free, TypeOK, CallOK, ObjectsOK, Settled, PairWhole, Stirring, Armed, Good, Starting, Live,
     call, fields, alarm, history
<1>14. ASSUME SessionEnd PROVE Settled'
  BY <1>14 DEF
     SessionEnd, At, TypeOK, CallOK, ObjectsOK, Settled, PairWhole, Stirring, Armed, Good,
     Starting, Live, call, fields, alarm, history
<1>15. ASSUME SessionNext PROVE Settled'
  BY <1>15 DEF
     SessionNext, At, TypeOK, CallOK, ObjectsOK, Settled, PairWhole, Stirring, Armed, Good,
     Starting, Live, call, fields, alarm, history
<1>16. ASSUME NEW o \in Timer, Expire(o) PROVE Settled'
  BY <1>16 DEF
     Expire, Armed, TypeOK, CallOK, ObjectsOK, Settled, PairWhole, Stirring, Armed, Good,
     Starting, Live, call, fields, alarm, history
<1>17. ASSUME Handle PROVE Settled'
  BY <1>17 DEF
     Handle, TypeOK, CallOK, ObjectsOK, Settled, PairWhole, Stirring, Armed, Good, Starting, Live,
     call, fields, alarm, history
<1>18. ASSUME Schedule PROVE Settled'
  BY <1>18 DEF
     Schedule, TypeOK, CallOK, ObjectsOK, Settled, PairWhole, Stirring, Armed, Good, Starting,
     Live, call, fields, alarm, history
<1>19. ASSUME RunPending PROVE Settled'
  BY <1>19 DEF
     RunPending, At, TypeOK, CallOK, ObjectsOK, Settled, PairWhole, Stirring, Armed, Good,
     Starting, Live, call, fields, alarm, history
<1>20. ASSUME UNCHANGED vars PROVE Settled'
  BY <1>20 DEF
     vars, TypeOK, CallOK, ObjectsOK, Settled, PairWhole, Stirring, Armed, Good, Starting, Live,
     call, fields, alarm, history
<1>21. QED
  BY <1>1, <1>2, <1>3, <1>4, <1>5, <1>6, <1>7, <1>8, <1>9, <1>10, <1>11, <1>12, <1>13, <1>14,
  <1>15, <1>16, <1>17, <1>18, <1>19, <1>20 DEF Next

\* Nothing is made at first.
LEMMA InitOK == Init => IInv
<1> SUFFICES ASSUME Init PROVE IInv
  OBVIOUS
<1>1. TypeOK
  <2>1. queue \in Seq(Pair) /\ Len(queue) = 0
    BY DEF Init
  <2>2. Len(queue) <= MICROPY_SCHEDULER_DEPTH
    BY <2>1, TimerAssumption
  <2>3. signal \in BOOLEAN /\ broken \in BOOLEAN /\ upset \in BOOLEAN
    BY DEF Init
  <2>4. /\ status \in [Timer -> {"free", "off", "made", "ready"}]
        /\ callback \in [Timer -> Setup \cup {None}] /\ arg \in [Timer -> Setup \cup {None}]
        /\ kernel \in [Timer -> {"none", "idle", "once", "periodic"}]
    BY DEF Init
  <2>5. QED
    BY <2>1, <2>2, <2>3, <2>4, Zenon DEF Init, TypeOK
<1>2. CallOK /\ ObjectsOK
  BY DEF Init, CallOK, ObjectsOK, Starting, Live
<1>3. Alone
  BY DEF Init, Alone, OneTimer, Armed, Live, Starting
<1>4. Settled
  BY DEF Init, Settled, PairWhole, Starting, Stirring
<1>5. QED
  BY <1>1, <1>2, <1>3, <1>4 DEF IInv

\* The inductive invariant holds.
LEMMA Invariance == Spec => []IInv
<1>1. ASSUME IInv, [Next]_vars PROVE IInv'
  BY <1>1, TypeStep, CallStep, ObjectsStep, AloneStep, SettledStep DEF IInv
<1>2. QED
  BY <1>1, InitOK, PTL DEF Spec

-----------------------------------------------------------------------------
(* The theorems                                                            *)

\* Every variable keeps its type, and the scheduler's queue its limit.
THEOREM TypeCorrect == Spec => []TypeOK
<1>1. IInv => TypeOK
  BY DEF IInv
<1>2. QED
  BY <1>1, Invariance, PTL

\* Until a constructor raises after timer_create, at most one timer of the
\* kernel runs, and timer_handler serves its object.
THEOREM OneTimerCorrect == Spec => []OneTimer
<1>1. IInv => OneTimer
  BY DEF IInv, Alone, OneTimer
<1>2. QED
  BY <1>1, Invariance, PTL

\* timer_handler schedules each callback with its own arg, until a script sets
\* an object while a signal can come.
THEOREM PairCorrect == Spec => []PairWhole
<1>1. IInv => PairWhole
  BY DEF IInv, Settled, PairWhole
<1>2. QED
  BY <1>1, Invariance, PTL

\* gc_sweep_all leaves no timer in the kernel and no object in timer_obj.
THEOREM SessionCorrect == Spec => SessionQuiet
<1>1. ASSUME IInv, SessionNext
      PROVE  timer_obj = None /\ \A o \in Timer : kernel[o] = "none"
  BY <1>1 DEF IInv, TypeOK, ObjectsOK, Live, SessionNext
<1>2. IInv /\ [Next]_vars =>
        [SessionNext => timer_obj = None /\ \A o \in Timer : kernel[o] = "none"]_vars
  BY <1>1
<1>3. QED
  BY <1>2, Invariance, PTL DEF Spec, SessionQuiet
=============================================================================
