---------------------------- MODULE MediaManager ----------------------------
(***************************************************************************)
(* The Python side of the media buffers: MediaManager of builtin_py/       *)
(* media/media.py, with run and stop of media/sensor.py, used by several   *)
(* Python threads on top of the tables of VbMgmt, and the end of the       *)
(* session in core/main.c.                                                 *)
(*                                                                         *)
(* The calls into C hold the GIL and are one step.  Between them Python    *)
(* jumps, and at a jump the interpreter may give the GIL to another thread *)
(* or raise an exception that ends the call.                               *)
(***************************************************************************)
EXTENDS VbMgmt

CONSTANTS
  Thread,    \* Python threads
  Obj,       \* MediaManager.Buffer objects
  MAX_MEDIA_BUFFER_POOLS,
  MAX_MEDIA_LINK_COUNT

ASSUME MediaAssumption ==
  /\ None \notin Obj \cup Dev /\ Link \cap Dev = {}
  /\ MAX_MEDIA_BUFFER_POOLS \in Nat
  /\ MAX_MEDIA_LINK_COUNT \in Nat

VARIABLES
  pc,          \* where each thread is in a call
  arg,         \* the object, link or device the call is about
  at,          \* its loop index or slot
  found,       \* the slot that _del_buffer or _del_link has found
  closing,     \* threads inside MediaManager.deinit
  handle,      \* the block an object was made for, None before
  _buffers, _links,
  _is_inited,
  _is_started, \* the sensors between run and stop
  returned,    \* the objects scripts have: get() has returned them
  late,        \* history: those that were returned while a deinit was going on
  deleted,     \* history: objects whose block has been given back
  twice,       \* history: a block has been given back twice for an object, or
               \* by deinit(force = True) under other threads
  lost         \* history: links and devices in use whose record was missed

call == <<pc, arg, at, found, closing>>
lists == <<_buffers, _links, _is_inited, _is_started>>
hist == <<returned, late, deleted, twice, lost>>
vars == <<vbVars, call, handle, lists, hist>>

Slots == 1..MAX_MEDIA_BUFFER_POOLS
LinkSlots == 1..MAX_MEDIA_LINK_COUNT

Init ==
  /\ VbInit
  /\ pc = [t \in Thread |-> "run"]
  /\ arg = [t \in Thread |-> None]
  /\ at = [t \in Thread |-> 0]
  /\ found = [t \in Thread |-> 0]
  /\ closing = {}
  /\ handle = [o \in Obj |-> None]
  /\ _buffers = [s \in Slots |-> None]
  /\ _links = [s \in LinkSlots |-> None]
  /\ _is_inited = FALSE /\ _is_started = {}
  /\ returned = {} /\ late = {} /\ deleted = {} /\ twice = FALSE
  /\ lost = {}

\* Thread t goes from one place to another with an argument and a loop index.
Step(t, from, to, a, n) ==
  /\ pc[t] = from
  /\ pc' = [pc EXCEPT ![t] = to]
  /\ arg' = [arg EXCEPT ![t] = a]
  /\ at' = [at EXCEPT ![t] = n]
  /\ found' = [found EXCEPT ![t] = 0]

\* It goes on in the same call with the slot it has found.
Find(t, from, to, s) ==
  /\ pc[t] = from
  /\ pc' = [pc EXCEPT ![t] = to]
  /\ found' = [found EXCEPT ![t] = s]
  /\ UNCHANGED <<arg, at>>

\* Where a thread goes on after __del__ and after _del_link.
Home(t) == IF t \in closing THEN "close" ELSE "run"
LinkHome(t) == IF t \in closing THEN "unlink" ELSE "run"

-----------------------------------------------------------------------------
(* init, Buffer.get and Buffer.__del__                                     *)

MediaInit(t) ==
  /\ pc[t] = "run" /\ ~_is_inited
  /\ _is_inited' = TRUE
  /\ UNCHANGED <<vbVars, call, handle, _buffers, _links, _is_started, hist>>

\* get() tests the flag before it asks for the block.
GetStart(t) ==
  /\ _is_inited
  /\ Step(t, "run", "get", None, 0)
  /\ UNCHANGED <<vbVars, closing, handle, lists, hist>>

Get(t, o, b) ==
  /\ handle[o] = None
  /\ GetBlock(b)
  /\ handle' = [handle EXCEPT ![o] = b]
  /\ Step(t, "get", "got", o, 0)
  /\ UNCHANGED <<closing, lists, hist>>

GetFails(t) ==
  /\ GetBlockFails
  /\ Step(t, "get", "run", None, 0)
  /\ UNCHANGED <<closing, handle, lists, hist>>

\* _add_buffer finds the first empty slot.
AddFind(t) ==
  /\ \/ \E s \in Slots : IsFirstFree(_buffers, s) /\ Step(t, "got", "store", arg[t], s)
     \/ Full(_buffers) /\ Step(t, "got", "undo", arg[t], 0)
  /\ UNCHANGED <<vbVars, closing, handle, lists, hist>>

\* It stores the object there, and get() returns.
AddStore(t) ==
  /\ Step(t, "store", "run", None, 0)
  /\ _buffers' = [_buffers EXCEPT ![at[t]] = arg[t]]
  /\ returned' = returned \cup {arg[t]}
  /\ late' = IF _is_inited /\ closing = {} THEN late ELSE late \cup {arg[t]}
  /\ UNCHANGED <<vbVars, closing, handle, _links, _is_inited, _is_started, deleted, twice, lost>>

\* No slot is empty: the block goes back, then __del__ is called on top.
Undo(t) ==
  /\ Step(t, "undo", "del", arg[t], 0)
  /\ PutBlock(handle[arg[t]]) \/ PutBlockFails(handle[arg[t]])
  /\ deleted' = deleted \cup {arg[t]}
  /\ UNCHANGED <<closing, handle, lists, returned, late, twice, lost>>

Equal(s, o) == _buffers[s] # None /\ handle[_buffers[s]] = handle[o]

\* A script, or a class of the media library, calls __del__.
Delete(t, o) ==
  /\ o \in returned
  /\ Step(t, "run", "seek", o, 0)
  /\ deleted' = deleted \cup {o}
  /\ twice' = (twice \/ o \in deleted)
  /\ UNCHANGED <<vbVars, closing, handle, lists, returned, late, lost>>

UndoDelete(t) ==
  /\ Step(t, "del", "seek", arg[t], 0)
  /\ twice' = TRUE
  /\ UNCHANGED <<vbVars, closing, handle, lists, returned, late, deleted, lost>>

\* _del_buffer looks for the first slot with an equal object,
SeekBuffer(t) ==
  /\ pc[t] = "seek"
  /\ \/ \E s \in Slots : /\ Equal(s, arg[t]) /\ \A r \in Slots : r < s => ~Equal(r, arg[t])
                         /\ Find(t, "seek", "unlist", s)
     \/ (\A s \in Slots : ~Equal(s, arg[t])) /\ Find(t, "seek", "put", 0)
  /\ UNCHANGED <<vbVars, closing, handle, lists, hist>>

\* and clears it, whatever is in it by then.
Unlist(t) ==
  /\ Find(t, "unlist", "put", 0)
  /\ _buffers' = [_buffers EXCEPT ![found[t]] = None]
  /\ UNCHANGED <<vbVars, closing, handle, _links, _is_inited, _is_started, hist>>

\* __del__ puts the block, and raises when that fails: out of deinit, too.
Put(t) ==
  /\ \/ /\ Step(t, "put", Home(t), None, at[t])
        /\ PutBlock(handle[arg[t]])
        /\ UNCHANGED closing
     \/ /\ Step(t, "put", "run", None, 0)
        /\ PutBlockFails(handle[arg[t]])
        /\ closing' = closing \ {t}
  /\ UNCHANGED <<handle, lists, hist>>

-----------------------------------------------------------------------------
(* link and linker.__del__                                                 *)

LinkBind(t, l) ==
  /\ Bind(l)
  /\ Step(t, "run", "bound", l, 0)
  /\ UNCHANGED <<closing, handle, lists, hist>>

\* _add_link; without a slot the pair is unbound again.
LinkAdd(t) ==
  /\ \/ /\ \E s \in LinkSlots :
             /\ IsFirstFree(_links, s)
             /\ Step(t, "bound", "push", arg[t], s)
        /\ UNCHANGED vbVars
     \/ /\ Full(_links)
        /\ Unbind(arg[t])
        /\ Step(t, "bound", "run", None, 0)
  /\ UNCHANGED <<closing, handle, lists, hist>>

LinkStore(t) ==
  /\ Step(t, "push", "record", arg[t], 0)
  /\ _links' = [_links EXCEPT ![at[t]] = arg[t]]
  /\ UNCHANGED <<vbVars, closing, handle, _buffers, _is_inited, _is_started, hist>>

LinkPush(t) ==
  /\ Step(t, "record", "run", None, 0)
  /\ PushLinkInfo(arg[t])
  /\ lost' = IF Full(vb_mpp_links_records) THEN lost \cup {arg[t]} ELSE lost
  /\ UNCHANGED <<closing, handle, lists, returned, late, deleted, twice>>

\* linker.__del__ of an object that stands for the pair, an old one perhaps.
DelLink(t, l) ==
  /\ Step(t, "run", "seek link", l, 0)
  /\ UNCHANGED <<vbVars, closing, handle, lists, hist>>

\* _del_link looks for the first slot with an equal object,
SeekLink(t) ==
  /\ \/ \E s \in LinkSlots : /\ _links[s] = arg[t] /\ \A r \in LinkSlots : r < s => _links[r] # arg[t]
                             /\ Find(t, "seek link", "pop", s)
     \/ /\ \A s \in LinkSlots : _links[s] # arg[t]
        /\ Step(t, "seek link", LinkHome(t), None, at[t])
  /\ UNCHANGED <<vbVars, closing, handle, lists, hist>>

\* drops the records of the pair, and clears the slot.
LinkPop(t) ==
  /\ Find(t, "pop", "clear", found[t])
  /\ PopLinkInfo(arg[t])
  /\ UNCHANGED <<closing, handle, lists, hist>>

DelLinkClear(t) ==
  /\ Step(t, "clear", LinkHome(t), None, at[t])
  /\ _links' = [_links EXCEPT ![found[t]] = None]
  /\ UNCHANGED <<vbVars, closing, handle, _buffers, _is_inited, _is_started, hist>>

-----------------------------------------------------------------------------
(* deinit                                                                  *)

CloseStart(t) ==
  /\ Step(t, "run", "unlink", None, 0)
  /\ closing' = closing \cup {t}
  /\ _is_inited' = FALSE
  /\ UNCHANGED <<vbVars, handle, _buffers, _links, _is_started, hist>>

\* _destory_all_link and _destory_all_buffer test one slot after the other,
CloseTestLink(t) ==
  LET s == at[t] + 1
  IN /\ \/ s \in LinkSlots /\ _links[s] # None /\ Step(t, "unlink", "unlink it", None, s)
        \/ s \in LinkSlots /\ _links[s] = None /\ Step(t, "unlink", "unlink", None, s)
        \/ s \notin LinkSlots /\ Step(t, "unlink", "close", None, 0)
     /\ UNCHANGED <<vbVars, closing, handle, lists, hist>>

CloseTestBuffer(t) ==
  LET s == at[t] + 1
  IN /\ s \in Slots
     /\ Step(t, "close", IF _buffers[s] = None THEN "close" ELSE "close it", None, s)
     /\ UNCHANGED <<vbVars, closing, handle, lists, hist>>

\* and read a slot that is in use again: for _del_link, which raises when it has
\* been cleared meanwhile,
CloseLink(t) ==
  /\ pc[t] = "unlink it"
  /\ IF _links[at[t]] # None
     THEN Step(t, "unlink it", "seek link", _links[at[t]], at[t]) /\ UNCHANGED closing
     ELSE Step(t, "unlink it", "run", None, 0) /\ closing' = closing \ {t}
  /\ UNCHANGED <<vbVars, handle, lists, hist>>

\* and for __del__, which None does not have.
CloseBuffer(t) ==
  LET o == _buffers[at[t]]
  IN /\ pc[t] = "close it"
     /\ \/ /\ o # None
           /\ Step(t, "close it", "seek", o, at[t])
           /\ deleted' = deleted \cup {o}
           /\ twice' = (twice \/ o \in deleted)
           /\ UNCHANGED closing
        \/ /\ o = None
           /\ Step(t, "close it", "run", None, 0)
           /\ closing' = closing \ {t}
           /\ UNCHANGED <<deleted, twice>>
     /\ UNCHANGED <<vbVars, handle, lists, returned, late, lost>>

CloseEnd(t) ==
  /\ at[t] + 1 \notin Slots
  /\ Step(t, "close", "run", None, 0)
  /\ closing' = closing \ {t}
  /\ UNCHANGED <<vbVars, handle, lists, hist>>

\* deinit(force = True) goes on with vb_mgmt_deinit, under the objects of others.
CloseForce(t) ==
  /\ at[t] + 1 \notin Slots
  /\ Step(t, "close", "run", None, 0)
  /\ closing' = closing \ {t}
  /\ VbMgmtDeinit
  /\ twice' = (twice \/ \E u \in Thread \ {t} : pc[u] # "run")
  /\ deleted' = {o \in Obj : handle[o] # None}
  /\ UNCHANGED <<handle, lists, returned, late, lost>>

-----------------------------------------------------------------------------
(* Sensor.run and Sensor.stop                                              *)

SensorStart(t, d) ==
  /\ d \notin _is_started
  /\ VicapInit(d)
  /\ Step(t, "run", "inits", d, 0)
  /\ UNCHANGED <<closing, handle, lists, hist>>

\* The stream is started and the device marked.
SensorInited(t) ==
  /\ Step(t, "inits", "run", None, 0)
  /\ VicapDevInited(arg[t])
  /\ _is_started' = _is_started \cup {arg[t]}
  /\ UNCHANGED <<closing, handle, _buffers, _links, _is_inited, hist>>

\* It cannot be started: the device is given back, whatever the kernel says.
SensorStartFails(t) ==
  /\ Step(t, "inits", "run", None, 0)
  /\ VicapDeinit(arg[t])
  /\ UNCHANGED <<closing, handle, lists, hist>>

\* With several cameras run() starts them all, and records none of them.
SensorRunMany(t, d) ==
  /\ d \notin _is_started
  /\ VicapInit(d)
  /\ Step(t, "run", "many", d, 0)
  /\ lost' = lost \cup {d}
  /\ UNCHANGED <<closing, handle, lists, returned, late, deleted, twice>>

SensorRanMany(t) ==
  /\ Step(t, "many", "run", None, 0)
  /\ _is_started' = _is_started \cup {arg[t]}
  /\ UNCHANGED <<vbVars, closing, handle, _buffers, _links, _is_inited, hist>>

\* One thread at a time uses a sensor.  When the kernel refuses, stop() raises and
\* leaves things as they are, and stop(is_del = True) goes on.
SensorStop(t, d) ==
  /\ d \in _is_started
  /\ \A u \in Thread : arg[u] # d
  /\ VicapDeinit(d)
  /\ Step(t, "run", "stopped", d, 0)
  /\ lost' = lost \ {d}
  /\ UNCHANGED <<closing, handle, lists, returned, late, deleted, twice>>

SensorDeinited(t) ==
  /\ Step(t, "stopped", "run", None, 0)
  /\ VicapDevDeinited(arg[t])
  /\ _is_started' = _is_started \ {arg[t]}
  /\ UNCHANGED <<closing, handle, _buffers, _links, _is_inited, hist>>

-----------------------------------------------------------------------------
\* An exception (a stop from the IDE, the SystemExit of the session's end)
\* ends the call: what it has taken and not recorded is missed.
Interrupt(t) ==
  /\ pc[t] # "run"
  /\ pc' = [pc EXCEPT ![t] = "run"]
  /\ arg' = [arg EXCEPT ![t] = None]
  /\ at' = [at EXCEPT ![t] = 0]
  /\ found' = [found EXCEPT ![t] = 0]
  /\ closing' = closing \ {t}
  /\ lost' = IF pc[t] \in {"bound", "push", "record", "inits"}
             THEN lost \cup {arg[t]} ELSE lost
  /\ UNCHANGED <<vbVars, handle, lists, returned, late, deleted, twice>>

\* main_thread_exit, when the other threads have gone: vb_mgmt_deinit, and the
\* next session has a new Python and calls vb_mgmt_init.
SessionEnd ==
  /\ \A t \in Thread : pc[t] = "run"
  /\ VbMgmtDeinit
  /\ handle' = [o \in Obj |-> None]
  /\ _buffers' = [s \in Slots |-> None]
  /\ _links' = [s \in LinkSlots |-> None]
  /\ _is_inited' = FALSE /\ _is_started' = {}
  /\ returned' = {} /\ late' = {} /\ deleted' = {} /\ twice' = FALSE
  /\ UNCHANGED <<call, lost>>

Next ==
  \/ \E t \in Thread :
       \/ MediaInit(t)
       \/ \E o \in Obj : Delete(t, o) \/ \E b \in Block : Get(t, o, b)
       \/ GetStart(t) \/ GetFails(t) \/ AddFind(t) \/ AddStore(t) \/ Undo(t)
       \/ UndoDelete(t) \/ SeekBuffer(t) \/ Unlist(t) \/ Put(t)
       \/ \E l \in Link : LinkBind(t, l) \/ DelLink(t, l)
       \/ LinkAdd(t) \/ LinkStore(t) \/ LinkPush(t)
       \/ SeekLink(t) \/ LinkPop(t) \/ DelLinkClear(t)
       \/ CloseStart(t) \/ CloseTestLink(t) \/ CloseLink(t)
       \/ CloseTestBuffer(t) \/ CloseBuffer(t) \/ CloseEnd(t) \/ CloseForce(t)
       \/ \E d \in Dev : SensorStart(t, d) \/ SensorRunMany(t, d) \/ SensorStop(t, d)
       \/ SensorInited(t) \/ SensorStartFails(t) \/ SensorRanMany(t) \/ SensorDeinited(t)
       \/ Interrupt(t)
  \/ SessionEnd

Spec == Init /\ [][Next]_vars

-----------------------------------------------------------------------------
PC == {"run", "get", "got", "store", "undo", "del", "seek", "unlist", "put",
       "bound", "push", "record", "seek link", "pop", "clear",
       "unlink", "unlink it", "close", "close it", "inits", "many", "stopped"}

\* The type of every variable.
TypeOK ==
  /\ VbTypeOK
  /\ pc \in [Thread -> PC]
  /\ arg \in [Thread -> Obj \cup Link \cup Dev \cup {None}]
  /\ at \in [Thread -> Nat] /\ found \in [Thread -> Nat]
  /\ closing \subseteq Thread
  /\ handle \in [Obj -> Block \cup {None}]
  /\ _buffers \in [Slots -> Obj \cup {None}]
  /\ _links \in [LinkSlots -> Link \cup {None}]
  /\ _is_inited \in BOOLEAN /\ _is_started \subseteq Dev
  /\ returned \subseteq Obj /\ late \subseteq Obj /\ deleted \subseteq Obj
  /\ twice \in BOOLEAN
  /\ lost \subseteq Link \cup Dev

\* What the kernel holds for Python is what the records say, each block in one
\* record, and what it has refused to take back: no failure path of
\* vb_mgmt_get_block and no put, even of a stale or foreign Buffer, leaks a block or
\* a mapping by itself, releases one twice or forgets one the kernel was not asked for.
BlocksRecorded ==
  /\ held = Entries(vb_records) \cup keptBlocks
  /\ mapped = Entries(vb_records) \cup keptMaps
  /\ Entries(vb_records) \cap (keptBlocks \cup keptMaps) = {}
  /\ \A r, s \in Records : vb_records[r] = vb_records[s] /\ vb_records[r] # None => r = s

BindingsRecorded ==
  \A l \in bound :
    \/ l \in Entries(vb_mpp_links_records) \/ l \in lost \cup keptLinks
    \/ \E t \in Thread : pc[t] \in {"bound", "push", "record"} /\ arg[t] = l

CamerasRecorded ==
  \A d \in running :
    \/ d \in vicap_dev_stat \/ d \in lost \cup keptDevs
    \/ \E t \in Thread : pc[t] = "inits" /\ arg[t] = d

\* A binding or a camera that the kernel runs is recorded, or a thread is about
\* to record it, unless an exception or a full table made it miss the record, run()
\* started several cameras, which it does not record, or the kernel has been asked to
\* end it and refused.
UseRecorded == BindingsRecorded /\ CamerasRecorded

\* A Buffer a script has, and that was not deleted, owns its block and no other
\* object's, whatever other threads get, delete and deinit, as long as no object
\* has its block given back twice.
LiveHeld ==
  ~twice =>
    \A o \in returned \ deleted :
      /\ handle[o] \in held
      /\ \A p \in returned \ deleted : handle[p] = handle[o] => p = o

\* Nothing is left in the kernel but what it has refused to take back and the
\* bindings and cameras whose record was missed.
NothingLeft ==
  /\ held = keptBlocks /\ mapped = keptMaps
  /\ bound \subseteq lost \cup keptLinks /\ running \subseteq lost \cup keptDevs

\* main.c: "release all block".  The end of a session asks the kernel for everything
\* that is recorded, wherever it has interrupted the threads.
TornDown == [][SessionEnd => NothingLeft']_vars

\* tests/02-Media/audio.py: MediaManager.deinit() releases the vb buffers.  At
\* its end no Buffer that a script had before holds a block.
DeinitReleases ==
  [][\A t \in Thread :
       CloseEnd(t) /\ closing = {t} /\ ~_is_inited =>
         \A o \in returned \ (late \cup deleted) : handle[o] \notin held]_vars
=============================================================================
