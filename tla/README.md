# A verification of CanMV for the K230

CanMV runs MicroPython on the big core of the K230: scripts use the camera,
the display and the neural network accelerator, several Python threads may run,
and an IDE on a serial line sends scripts, stops them, shows their output and
their pictures, and copies files to the card. The C code of the port
(`src/micropython/port`) is what joins all of this, and where it is concurrent
it relies on a few mutexes, on the GIL, on priorities, and on the order in which
flags are written. This directory holds TLA+ models of those parts, TLC runs that
check them on small instances, and TLAPS proofs of the most important results
for any size.

Paths below are relative to `src/micropython/port` unless they start with `src/`.

## 1. The system

### Components and their state

| Component | Source | State | Operations |
|---|---|---|---|
| Python threads | `core/mpthreadport.c`, `core/gccollect.c`, `core/modos.c`, end of `core/main.c` | the list `thread` (ready, exitpoint_flag, exception, arg), `thread_mutex`, `thread_signal_done`, the pending exception of each thread, the GIL | create, start, finish, collect (signal and wait for each thread), exit points, set_exception_main, set_exception_other, deinit, soft reset |
| Text to the IDE | `omv/ide_dbg.c` 122-158, 206-225, 762-794 | `tx_buf` and two pointers under `tx_buf_mutex` | mpy_stdout_tx (polls for room without the mutex), TX_BUF_LEN, TX_BUF, the wait for the output at the end of a script |
| Sessions | `core/main.c` `main_`, `do_repl`; `omv/ide_dbg.c` 180-245, 626-650, 959-969, 1020-1160 | `script_string`, `script_sem`, `ide_attached`, `ide_script_running`, `ide_disconnect`, `repl_script_running`, `is_repl_intr`, the stdin ring, the pending exception | reset, boot.py and main.py, REPL, wait for a script, run it, end; attach, SCRIPT_EXEC, SCRIPT_STOP, SYS_RESET and RTS, Ctrl-C, typed input |
| IDE commands | `omv/ide_dbg.c` 563-1005 | `ide_dbg_state_t` (parser), `ide_dbg_sv_file` | the parser, read_until, CREATEFILE, WRITEFILE, QUERY_FILE_STAT, VERIFYFILE |
| Pictures for the IDE | `omv/ide_dbg.c` 241-262, 282-300, 388-517, 795-958 | `fb_from`, `fb_from_current`, `fb_data` under `fb_mutex`, `enable_pic`, `flag_vo_wbc_enabled`, `wbc_jpeg_size` | ide_set_fb, write-back on and off, FRAME_SIZE, FRAME_DUMP, FB_ENABLE |
| Records of the media kernel | `core/mpp_vb_mgmt.c` | tables of video blocks, channel bindings and running cameras | get and put a block, push and pop a binding, camera inited and deinited, deinit |
| Media manager | `builtin_py/media/media.py`, `run` and `stop` of `sensor.py` | `_buffers`, `_links`, `_is_inited`, `_is_started`, the Buffers scripts hold | Buffer.get and `__del__`, link and `__del__`, init, deinit with and without force, a camera run alone or among several, and stopped |
| Sockets | `socket_network/modsocket.c`, `socket_network/ipcm_socket_network.c`, and on the little core `micropython_socket_server.c` of the SDK overlay (`src/k230_sdk_overlay/src/little/buildroot-ext/package/micropython_socket/src`) | the number in each socket object, the message channel, the descriptors of the little core | socket, accept, close, send, recv, read, connect and the like, setblocking, poll, network commands; the server's handlers |
| Soft timers | `machine/machine_timer.c` | `timer_obj`, status, callback and arg of each object, the kernel's timers, the scheduler's queue | constructor, init, deinit and finaliser, `timer_handler`, the end of a session |
| Not modelled | `omv/alloc`, the display, audio and codec classes in Python, the rest of `machine`, `kpu`, `ai_*`, RTSP, kernel bindings, imlib, the rest of the SDK overlay | see section 7 | |

### How they interact

* **Threads and the GIL.** A Python thread runs until it gives the GIL away in
  a call that blocks or at an exit point. A collection holds the GIL and
  `thread_mutex`, sends each linked thread a signal and waits for one semaphore
  post from its handler.
* **The IDE task and the main thread** share flags and `script_string` with no
  lock at all; what orders them is `script_sem`, the task's higher priority
  (20 against 30, SCHED_FIFO, one core) and the order of the writes. The task
  interrupts the main thread by storing an exception, which the VM hook or an
  exit point raises.
* **Text and pictures** go through one buffer each, with a mutex, from any
  thread to the IDE task.
* **A session's end** (`main_`, 789-875) is shared by all: the other threads get
  a SystemExit and are waited for, then `vb_mgmt_deinit` gives back to the kernel
  what the tables remember, and the next session starts with a new heap while
  the IDE task, the ring, the pictures and the kernel keep their state.
* **Sockets** are numbers of the little core's kernel. A call sends a message for
  each part and waits for its answer; one thread of the little core takes the
  messages in order. A wait that ends at its limit leaves the message in the
  channel, so the little core may act on it after the script has gone on; an answer that
  is not sent, and a server that has ended, leave the thread in its wait.
* **Soft timers** reach Python through SIGALRM: the handler, on whatever thread the
  signal comes to, reads the one static `timer_obj` and schedules its callback.

### What is hard

Interleavings of the IDE task with an interrupted main thread, the last
instructions of a thread that has left the list, a collection against threads
that come and go, exceptions that arrive at any jump of a Python function that
must keep two things in step, two Python threads inside the same function of
`media.py`, frames and payloads that reach the parser in pieces, pointers that
meet in a full ring, requests that are carried out after the call that made them
has given up, a kernel that refuses to take back what it has given, a signal between
two stores, and a session that ends anywhere. `PROJECT.json` lists these hazards at
their lines with the properties that cover them; where a property leaves a case out,
the hazard's note says which.

### What makes a component correct

* Threads: the list is exactly the live threads; one thread runs Python; a sweep
  comes only after every stack is scanned; a collection ends; after
  `mp_thread_deinit` nobody else runs; an exception given to a thread reaches it.
* Text: bytes arrive in order, once, and are not lost; a print returns.
* Sessions: a script is run only when it is complete and never freed while it is
  received; an accepted script starts; a reset lets the IDE go.
* IDE commands: parser and IDE stay in step; the board's file is what the IDE has
  sent, at every status the IDE is told; every question is answered; a picture
  has the bytes of the size announced.
* Media: what the kernel holds is recorded; a live Buffer owns its block; the end
  of a session leaves nothing behind but what the kernel refuses to take back.
* Sockets: an open object keeps its descriptor; what send() and recv() report is
  what reached and left the network; a wait with the GIL held ends.
* Soft timers: the handler serves the timer that runs; a callback goes with its own
  argument; no timer outlives its session.

## 2. The modules

| Module | Models | Extends |
|---|---|---|
| `MpThread` | the thread layer with the collector and the end of a session | |
| `MCMpThread` | instances of it | `MpThread` |
| `MpThreadProofs` | theorems about it | `MpThread`, TLAPS |
| `TxStream` | the abstract text channel: an ordered stream that drops only by overflow | |
| `IdeTxRing` | the ring, the printing threads, TX_BUF, the drain | instantiates `TxStream` |
| `IdeTxRingProofs` | theorems about it, and that it implements `TxStream` | `IdeTxRing`, TLAPS |
| `ScriptHandover` | the abstract hand-over of scripts: one slot, received whole, run at most once | |
| `IdeSession` | `main_()` against the IDE task | instantiates `ScriptHandover` |
| `IdeSessionProofs` | theorems about it, and that it implements `ScriptHandover` | `IdeSession`, TLAPS |
| `FileTransfer` | the abstract file transfer: steps carried out once, answers that are true, approval of what was sent | |
| `IdePicture` | pictures: the script's side, and what the commands do to them | |
| `IdeFrame` | parser, file transfer and dispatch of the commands | `IdePicture`, instantiates `FileTransfer` |
| `IdeFrameTypes` | lemmas about its types and about what a handler that waits relies on | `IdeFrame`, TLAPS |
| `IdeFrameProofs` | theorems about it, and that it implements `FileTransfer` | `IdeFrameTypes` |
| `VbMgmt` | the C tables over an external kernel | |
| `MediaManager` | the Python classes over the tables, several threads | `VbMgmt` |
| `MediaManagerProofs` | theorems about it | `MediaManager`, TLAPS |
| `Sockets` | socket objects, the message channel and the server of the little core | |
| `SocketsProofs` | theorems about it | `Sockets`, TLAPS |
| `SoftTimer` | soft timers, the signal and the scheduler | |
| `SoftTimerProofs` | theorems about it | `SoftTimer`, TLAPS |

The `MC...` modules hold the definitions that only TLC needs (symmetry, bounds).
A definition whose comment starts with "Mutation" (or says "mutated") is a plausible
bug in the definition that follows it: replacing the one by the other makes TLC find a property
violated (`PROJECT.json`, "mutants").

### Correspondence with the code

* `MpThread`. `pc[t]` is where thread t is: "entry" between pthread_create and
  mp_thread_start, "run" with the GIL in Python, "out" in a call without it,
  "back" when such a call has returned and the thread waits for the GIL, "deliver"
  between taking an exception at an exit point and raising it, "finish"
  in mp_thread_finish, "unlinked" after it, "throw" and "deinit" in the end of
  `main_`. The mutex is recursive (`owner`, `depth`); a collection is the record
  `gc` (who, phase, node) with `sem` and `sig`. Sections under the mutex with
  nothing blocking inside are one step; the walk of the collector is one step per
  node and wait. The last GIL release of a thread that has left the list is a step with
  no limit on its time, and may release the GIL of a later session (`stolen`). The
  interpreter (GIL, `_thread`, mp_handle_pending) is external and modelled from how the
  port uses it.
* `IdeTxRing`. Bytes are numbered as they are copied, so `got` and the content of
  the ring show loss, duplication and order. `size > TX_BUF_WRITABLE`, the poll
  without the mutex and the copy under it are separate steps, with the code's
  macros as operators (`Writable`, `Readable`, `Moved`). A poll reads `tx_buf_r_ptr` once,
  where the macro `TX_BUF_WRITABLE` names it twice: an IDE task that moves it between the
  two evaluations is left out.
* `IdeSession`. `mpc` is the place in `main_()`; each `sem_wait`, flag store and
  test is its own step; a handler of the IDE task is one step up to its next
  blocking call (the 100 ms pause and read_until of SCRIPT_EXEC), which is what the
  priorities give. A script that is told to stop ends or catches the exception and goes on
  (`caught`): `ide_exception` is a plain Exception (ide_dbg.c 1188). The end of a session
  waits for the other threads ("join") until they have ended, if they do (`ThreadsEnd`).
* `IdeFrame`. `data` is the unread rest of `usb_cdc_read_buf` (so i += n drops n
  bytes and `length - i` is its length); each turn of the loop of `ide_dbg_update`
  is a step, with the code's four states and the way FRAME_RECV and
  FRAME_DISPATCH share a byte. `data_length` keeps its four bytes, because a
  length in two reads overwrites its own start. A file is the sequence written
  to it, and reaches the card at fclose, or does not. The info record of
  CREATEFILE is reduced to chunk size and digest. `Digest` is the digest up to its first
  zero byte, which is all that `strncmp` compares (line 710), so files may share it; the
  digest of what `fread` gives may be that of a beginning of the file (`Readable`). malloc of the
  chunk buffer may fail with no error (line 750): `chunk_buffer` says whether there is
  one. A chunk or a script whose bytes are left to the parser sets `refused`.
* `IdePicture`. A picture stands for its size and bytes. The mutex sections and
  the part of FRAME_SIZE up to `kd_mpi_wbc_dump_frame` are one step each.
* `VbMgmt`. One step per C function, which holds the GIL. The kernel (`held`, `mapped`, `bound`,
  `running`) is external. It may refuse to release or to unmap a block, to unbind, and to stop
  or deinit a camera, and the record goes all the same, as in the code; `keptBlocks`,
  `keptMaps`, `keptLinks` and `keptDevs` collect what it has refused. The five failures of
  `vb_mgmt_get_block` after the kernel has granted a block ask for its release and differ in
  nothing else, so they are one outcome with that release granted and one with it refused. A
  block or an address that the kernel still has in use is not handed out again.
* `MediaManager`. A step is the code up to the next jump after which another
  thread may have the GIL or an exception may be raised (`Interrupt` ends any call).
  The search for a slot, the whole loop, is one step, and the store into it another,
  in `_add_buffer`, `_del_buffer` and `_del_link`; the loops of deinit test each slot and read it
  again in steps of their own, and end with the AttributeError or TypeError that a slot cleared in
  between brings. `run()` of a camera among several (`SensorRunMany`) starts its stream and
  returns before the record is made. A `stop()` that the kernel refuses raises, or goes on
  with `is_del`.
* `Sockets`. `pc[t]` says whether thread t is outside of a call ("python"), in
  `kd_ipcmsg_send_sync` ("wait"), or back from it ("back"). One step is a message sent,
  an answer taken up, or one handler of the server. `queue` is the channel with the
  request in the server's hands at its head; a request keeps the number that the
  object had (`fd`) and, for transfers, where its part starts (`at`). Bytes are pairs of
  connection and position, so that order, loss and mixing show. `LoseAnswer` is an answer that
  `kd_ipcmsg_send_async` fails to send, and `BrokenPipe` the SIGPIPE of a write to a
  connection that its peer has closed, after which nobody serves the channel (`alive`).
  `owner[f]` is the object whose descriptor f is (`Leaked` when the object is gone). bind, listen,
  setsockopt and getaddrinfo are `connect` here: one request with a limit, which
  changes nothing of this state; write and recvfrom are transfers of one part.
* `SoftTimer`. `pc` is the place of the thread with the GIL in the constructor or
  init; each store the handler can see between is a step of its own. `handler` is the
  object that a running handler has read. The kernel's timers, the collector (which
  runs `deinit` as `__del__`) and `mp_sched_schedule` are external.

## 3. The runs

| Run | Shows | States |
|---|---|---|
| `threads` | two workers, as late as they like, scripts that catch their SystemExit: types, ListOK, HandshakeOK, TornAlone, ListFrozen | 7.4 M |
| `threads_live` | one worker, with fairness, up to the first GIL that is given up by a thread without it: CollectionEnds, DeinitCompletes (if the calls return), GilExclusive, SweepSafe | 23 k |
| `threads_exit` | **violated**: a SystemExit given to a thread that has not run mp_thread_start is lost | |
| `threads_sweep` | **violated**: an exception object in transit in `th->exception` is swept | |
| `txring` | the ring implements `TxStream`; loss only by a write of exactly the free room or by the print outside the GIL; a print returns | |
| `txring_done` | **violated**: the wait "print done" ends with the text unread when the ring is exactly full | |
| `session` | HandoverOK without a lock, HandoverSpec (it implements `ScriptHandover`), AcceptedRuns, and, if no script goes on for ever that was not told or has caught it, nor a thread the session waits for: ResetDetaches and SwitchesToIde | 60 k |
| `commands` | InStep, FileKept, PictureWhole, Answered, TransferSpec (it implements `FileTransfer`), with refused scripts, failing card, malloc and reads | 1.7 M |
| `media` | Buffers, bindings and a camera under exceptions, sessions that end and a kernel that refuses: BlocksRecorded, LiveHeld, UseRecorded, TornDown | 2.2 M |
| `media_release` | **violated**: two get() calls share a slot and deinit() misses a Buffer | |
| `sockets` | two threads, two objects and two numbers, with answers lost and a server that ends: FdUnshared, SendReported, ReceivedWhole, GilFreed | 1.0 M |
| `timer` | two timers with two settings, over sessions: OneTimer, PairWhole, SessionQuiet | |

### Divergences found

The four violated runs are the findings of `PROJECT.json`; each quotes the comment
or test the code disagrees with. Met while modelling, and not stated as a
property because nothing in the repository says otherwise:

* ide_dbg.c 1096 says "switch to ide mode", but an IDE that attaches interrupts only
  a script that `ide_script_running` marks (line 1102): one typed at the REPL keeps the
  board as long as it likes. So does any script that catches the exception it is told to
  stop with, and `mp_thread_deinit` waits without a limit for threads. SwitchesToIde and
  ResetDetaches assume that these (`Unstopped`, "join") do not last for ever, and show that
  nothing else keeps an IDE waiting.
* SCRIPT_EXEC accepted between boot.py and main.py, or while a stale post is in
  `script_sem`, hands its string to a script end that frees it. `stray` records
  these moments and HandoverOK leaves them out.
* A stop that arrives after a script was accepted and before it starts is
  forgotten by the reset of `main_` (main.c 477).
* A Ctrl-C between the last check of a REPL line and the end of the line is raised
  in the line editor, where no handler is left (`ReplRaise` to "crash").
* The last GIL release of a thread that has left the list can meet the GIL of the next
  session (`stolen`), and two threads run Python from then on: nobody joins a thread.
* CREATEFILE answers "none" when malloc of the chunk buffer has failed (ide_dbg.c 750): the
  next chunk is refused and left to the parser.
* The text of a script that is refused (the running one did not end in 100 ms) is parsed as
  commands, and can swallow the IDE's next command (`refused`, as for a chunk without a buffer).
  It can itself ask for things: the IDE may take an answer it never asked for as the one it
  waits for, and a text that reads as VERIFYFILE with no file open ends in fclose(NULL) (`ipc`
  "crash"). FileKept, InStep, Verified, PictureWhole and TransferSpec therefore speak of the
  time before it; TypeOK does not.
* VERIFYFILE approves two digests that agree up to a zero byte.
* A picture the IDE has not fetched outlives its script and displaces the first
  one of the next.
* A camera that `run()` starts among several is never recorded (sensor.py 128 and
  837-838), so a session that ends leaves it streaming; `lost` counts it.
* The records of blocks, bindings and cameras go even when the kernel refuses to take the
  thing back (mpp_vb_mgmt.c 40-52, 144-156, 324-329): nobody asks a second time.
* Nothing marks a closed socket object: closing it twice closes whichever object
  has its number by then (`again`). FdUnshared shows that this is the only way.
* `MP_HAL_RETRY_SYSCALL` tests an errno which no request but recv sets, so a call that
  fails after an interrupted one of the same thread is repeated: send() from its
  first byte. send(b"") has no part to send and returns -1 with that errno.
* read() and recv() lose what earlier parts have brought when a later part raises;
  read() turns EAGAIN and a time limit into 0 bytes, where the comment at
  modsocket.c 109-113 speaks of None.
* A peer that closes its connection ends the server on the little core at the next send
  (SIGPIPE), and with it the network until a reboot; a thread in netcmd keeps the GIL then.
* A constructor of a timer that raises after `timer_create` leaves an object whose
  finaliser clears `timer_obj` while another timer runs (`broken`); init of a timer
  that runs can schedule one callback with the arg of the other (`upset`).

### Bounds, and why they are enough

* Threads: main and two workers are the least where one thread collects while
  another ends and a third starts; more only repeat the walk. Worker identities
  are reused, so sessions and threads go on without a bound. `threads_live` has one
  worker: fairness is per thread, and a collection waits for one thread at a time; it
  follows behaviours up to the first stolen GIL (`OwnGil`), where GilExclusive and SweepSafe
  end. These two are proved for any number. The VIEW `NoHistory` leaves out `told` and
  `stolen`, which none of the run's other properties reads.
* `IdeTxRing`: three printing threads, a ring of 4 (1024 in the code), writes of
  1 to 4 bytes, 9 bytes in all (`MaxBytes`) cover every alignment of both pointers
  around the end more than twice; `MaxPolls` 1 stands for the 100 polls (the wait
  ends when empty or after the last).
* `IdeSession`: both boot scripts, 3 characters of input (`MaxKeys`), two posts of
  the semaphore (`MaxPosts`): one stale and one good. Only the guards of the IDE's
  steps mention the bounds.
* `IdeFrame`: files of one and two chunks, one of whose bytes is 0x30; a script
  text that looks like the start of a frame; 3 packets under way (`MaxLink`), enough
  for a header and a payload in two pieces, or for a command sent while the last
  is being handled. The file of two bytes shares its digest with its first byte
  (`MCDigest`). `Bounds` in `MCIdeFrame` keeps files and pictures to different
  sessions (neither part reads the other's variables), follows a refused text
  only where nothing else goes on, and a chunk without a buffer until the IDE asks for its
  status. Two pictures tell one from another. The theorems need
  none of this but `MaxLink`, for which any number will do.
* `MediaManager`: two Buffers over two blocks with one slot, two bindings over one
  record and one slot, one camera, two threads: every table runs full, every
  identity is used again, and each hazard is between two. `Bounded` follows a behaviour
  until the kernel has refused a second time, and lets blocks, bindings and cameras, which no
  operation but the end of a session relates, be in use one kind at a time. The VIEW
  leaves out `late`, which only DeinitReleases reads. The theorems need none of this.
* `Sockets`: one thread that makes connections, sends and configures, one that
  accepts, receives and closes (`Roles`); two objects and two numbers, so that a number
  is given again at once; messages of 2 bytes and transfers of 3 (`IPCM_MAX_SIZE`,
  `Length`): a full part, a short one, and answers that are short of each; one given-up
  request, or one whose answer is lost, at a time in the channel (`MaxLate`). `Once` ends a
  behaviour at the first object closed twice and when the server ends. FdUnshared says
  nothing after either, SendReported nothing after the first, and GilFreed nothing after the
  second; ReceivedWhole is checked only up to there, and GilFreed up to a second close. The
  theorems need none of these bounds: `ReceiveCorrect` holds beyond them.
* `SoftTimer`: two objects (the one the handler serves and another), two settings (the
  least that can be torn), room for two callbacks. The theorems need none of these.

### Assumptions on the environment

* `MayCatch` (`MpThread`): whether scripts may catch their SystemExit. Only DeinitCompletes
  needs that they do not, and that no worker stays for ever in a call that blocks
  (`CallsReturn`, a premise of the property: nothing in the code sees to it).
* `SessionsGoOn` (`IdeSession`), the premise of ResetDetaches and SwitchesToIde: no script
  that has caught its stop, or that nobody has told, and no thread that the end of a session
  waits for, goes on for ever. Nothing in the code sees to this either.
* `IdeTxRing`, WriteCompletes: an IDE that goes on reading, and no print of more bytes than
  the ring holds. With the others a print waits for ever, with the GIL.
* One core with fixed priorities for the IDE task: it is not preempted by the main
  thread (`IdeSession`, `IdeFrame`). The ring and the threads are modelled without it.
* The IDE: a header arrives in one read and its payload after it, and the IDE asks
  for the status of each step of a transfer. The parser has no other way to keep
  in step: a payload in the same read as its header would be parsed as commands.
* The IDE and the card (`IdeFrame`): open, write, flush, read and malloc of the chunk buffer
  fail at will; malloc of a script's text (ide_dbg.c 636-640) and reads of the serial line do not.
* The kernel of the media blocks grants only what is free and fails and refuses at will.
* `Sockets`: `kd_ipcmsg_run` hands the messages over one after the other, in the order in
  which they came, in the one thread that calls it (`rcv_thread`, lines 186-192 of the
  server). poll asks the little core with no time to wait, and the shell commands of netcmd
  end. Scripts start no call on an object they have closed, but for another close.
* `SoftTimer`: one SIGALRM handler runs at a time, `timer_delete` of a timer that
  exists does not fail, and no handler is running when the end of a session begins to sweep
  the heap and when the next one starts: SIGALRM may come to a thread of C code as well, and
  the code does not wait for it.

### Fairness

* `MpThread`: a signal is handled and C code goes on (weak), a thread whose call has
  returned gets the GIL and a thread in Python passes its exit points again and again
  (strong: the GIL changes hands in between). The VM hook (`mpconfigport.h` 131-151)
  gives the GIL away at jumps and looks at the exit point, and a thread that blocks or
  sleeps gives it away too; that the mutex under it starves nobody is assumed of the
  operating system. That a call that blocks returns, or a script ends, is not assumed.
* `IdeTxRing`: the IDE polls (weak), and a printer that finds room at some poll
  copies (strong: other printers may take the room).
* `IdeSession`: the main thread's own steps and the pause and reception of
  SCRIPT_EXEC (weak). A script need not return, the other threads need not end
  (`ThreadsEnd` has no fairness), and a stop or a reset is not assumed.
* `IdeFrame`: the IDE task (weak; it has the most urgent priority) and the IDE's
  reading of an answer (weak). Nothing is assumed of the script.
* `Sockets`: C code goes on, and the server, while it lives, carries out what does not wait for
  a peer (weak). Neither a time limit nor a peer is assumed to do anything, nor that an answer
  is sent: GilFreed names the three cases in which the GIL is kept for ever. `SoftTimer` has
  only safety properties and assumes no fairness.

Deadlock is checked in the thread runs. The others turn it off: a session
without an IDE, a bound that is used up, or an IDE that waits for the answer to a
swallowed command are places where those models really stop.

## 4. What is proved

All theorems hold for every value of the constants that the named assumptions
allow (`ThreadAssumption`, `RingAssumption`, `SessionAssumption`, `VbAssumption`,
`MediaAssumption`, `SocketAssumption`, `TimerAssumption`, `PictureAssumption`,
`FrameAssumption`, `ReplyAssumption`).

`MpThreadProofs`:

* `TypeCorrect`, `ListCorrect`, `HandshakeCorrect`, `TornAloneCorrect`,
  `ListFrozenCorrect`. No theorem assumes anything about timing. The inductive invariant is
  `Base == TypeOK /\ ListOK /\ MutexOK /\ WhoOK /\ HandshakeOK /\ WalkOK`. ListOK alone is
  not inductive: a step that unlinks a thread keeps it only because the thread is
  in the list exactly once and is not main (WhoOK); the handshake needs that the
  collector stays where it is and that nobody else has the mutex (MutexOK), and that
  everything before the walk's position is scanned (WalkOK).
* `GilCorrect`, `SweepCorrect`: with `GilOK` added: until a thread has given up a GIL that was
  not its own (`stolen`), the GIL's holder is exactly the thread in Python. That nobody joins a
  thread makes one such moment possible, its last release after the end of its session, and
  GilCorrect says that there is no other way to two threads in Python. SweepSafe needs
  GilOK after the walk has released the mutex, where only the GIL keeps a new thread from
  getting roots.

The lemmas follow the groups of actions (creation, start, finish, collection, end of
a session), with `QuietBase` for the many actions that leave list, mutex and
collection alone, and two facts about sequences (`PushNode`, `RemoveNode`).

`IdeTxRingProofs`:

* `TypeCorrect`, `RoomCorrect`, `LosslessCorrect`, from
  `IInv == TypeOK /\ GilOK /\ QueueOK /\ RoomKept /\ Lossless`. RoomKept needs that only
  the main thread is ever in a print without the GIL (GilOK). Lossless is inductive
  once the ring is known as a sequence: `RingIs` says what the two pointers mean,
  `WriteRing` what a write leaves of the old bytes and the new ones, `ReadBytes` and
  `ReadRing` what a read takes and leaves, at every alignment and over the wrap.
* `StreamCorrect`: `Spec => StreamSpec`, the refinement of `TxStream` under the mapping of
  `queue` to the readable bytes. `RingSteps` sorts the steps into writes, reads and
  steps that leave the ring alone; `WriteStream` and `ReadStream` map the first two,
  the write that loses a whole round of the ring included.

`IdeSessionProofs`:

* `TypeCorrect`, `HandoverCorrect`, from `IInv == TypeOK /\ (~stray => Received /\ Flagged)`.
  HandoverOK is not inductive: that nobody frees the string being received needs that no
  post is in `script_sem`, no reset is asked for, and main_() is not at a script's end nor
  has a boot script to go (Received, which is what `stray` tests when SCRIPT_EXEC is accepted);
  that a later SCRIPT_EXEC stays away needs that the flag is up from the moment the string is
  complete until it is freed (Flagged).
* `HandoverImplements`: `Spec => HandoverSpec`, the refinement of `ScriptHandover` with the
  phase read off the string and the place of `main_()` (`Phase`). `StepKinds` sorts out the
  many steps that leave the phase alone, and `StepHandsOver` maps the other six.

`MediaManagerProofs`:

* `TypeCorrect`, `BlocksCorrect`, `LiveCorrect`, `UseCorrect`, `TornDownCorrect`, from `IInv ==
  TypeOK /\ ArgOK /\ BlocksRecorded /\ BindingsRecorded /\ CamerasRecorded /\ StopOK /\ LiveOK`.
  BlocksRecorded is inductive given the types: whatever Python does with stale Buffers, the C
  table and the kernel stay equal but for what the kernel has refused, and what it has refused
  is in no record, as it is not handed out again. UseRecorded is not: it needs to know what a
  call is about (ArgOK), and that a camera being stopped is counted as started, is stopped or
  refused to stop, and is touched by nobody else (StopOK). LiveHeld needs that the objects under
  construction and those about to give their block back own a block each as well, each with one
  thread (OwnOK), that such objects are not yet, or no longer, a script's (OrderOK), and that
  what is in a slot was made for a block (MadeOK). TornDown is an action property that follows
  from BlocksRecorded and UseRecorded in the state before `SessionEnd`.

`SoftTimerProofs`:

* `TypeCorrect`, `OneTimerCorrect`, `PairCorrect`, `SessionCorrect`, from
  `IInv == TypeOK /\ CallOK /\ ObjectsOK /\ Alone /\ Settled`. OneTimer is not inductive: it
  needs that, until a constructor fails half way, there is one live object, that of
  `timer_obj` or the one under construction (Alone), and that only live objects have a
  timer in the kernel (ObjectsOK). PairWhole needs that as long as signals may
  come the fields of the object they find are those of one init (Settled).
  SessionQuiet is an action property: when every object is free no kernel timer is left.

`SocketsProofs`:

* `TypeCorrect`, `FdCorrect`, `SendCorrect`, `ReceiveCorrect`, from
  `IInv == TypeOK /\ CallOK /\ ObjectsOK /\ QueueOK /\ Owned /\ Sending /\ Receiving`.
  FdUnshared (Owned) needs what each close request in the channel is about, whether or
  not its caller still waits: the descriptor of an object that is closed or gone, and
  of no other close. SendReported and ReceivedWhole are the states of Sending and
  Receiving just before a call returns; between, they say where the bytes of a part are
  (on the network or in the buffer), which needs that a request in the channel is the
  one its caller waits for (QueueOK; a request that was given up, or whose answer is lost, is
  nobody's, `OrphanKeeps`). Three facts about sequences carry the data
  (`PrefixGrows`, `AppendAdds`, `TailTakes`), and the lemmas follow the groups of actions: calls
  that begin, ask again, end or give up, and the handlers (`AnsweredKeeps`,
  `AnsweredOwned`).

`IdeFrameProofs` (with `IdeFrameTypes`):

* `TypeCorrect`, `InStepCorrect`, `FileKeptCorrect`, `VerifiedCorrect`, `PictureCorrect`, from
  `IInv == TypeOK /\ ParserOK /\ HostOK /\ (~refused => Line /\ Order /\ FileOK /\ PictureOK)`.
  The first three parts hold whatever comes over the line: ParserOK says that a handler that
  waits has its last byte before it and its file open, HostOK that a transfer is about a file
  of `Contents`. `FrameAssumption` lets files and scripts be any bytes, of lengths that fit in one
  byte (the other three bytes of a length field are zero); `ChunkSize` is any such length.
* InStep is not inductive: it needs what every packet under way is (Line). `Framed` cuts
  the line into the frames `expected`, each a header and at most two packets of its payload,
  with the text they bring together; between two frames the parser holds no byte, or the
  one FB_ENABLE leaves behind, which is never 0x30; inside one it holds the header's rest, and
  the line begins with what read_until still lacks (`Rest`). The lemmas
  `FramedRead`, `FramedDrop`, `FramedAppend`, `CarriesMore` and `RestMore` say what reading,
  sending and read_until do to it, wherever a payload is cut.
* FileKept needs Order: the IDE waits for its answers, so a question is the last frame under way
  and at most one step of a transfer is. Then FileOK can say what the file lacks at each point:
  while a chunk is under way, exactly that chunk; after it, nothing, or `errcode` keeps the
  error for the next QUERY_FILE_STAT. So a chunk is refused only for want of the buffer that
  malloc did not give (`refused` from then on), never because the file is not open, which would
  leave its payload to the parser as well: that is where InStep and FileKept depend on each
  other and are proved together.
* `TransferImplements`: the commands implement `FileTransfer`, where a step of the IDE is one
  step, the board carries it out in one more, and an answer is read. `Stage` is the IDE's
  `transfer` until a payload is left to the parser and "upset" from then on; `Due` says that a
  command about the file is still to be dispatched or waits for its payload, `Approved` that
  VERIFYFILE's "ok" is under way. IInv is what makes a step carry the right chunk; `Told` adds
  what it leaves open, that an error kept for QUERY_FILE_STAT means the file is closed.
  `StepTransfers` sorts the steps: those of the script and of the line change nothing
  (`TransferStays`), nor do those of the parser and the handlers until a handler is done
  (`OthersTransfer`), which is a step of the board (`BoardTransfer`); the rest is the IDE's
  (`IdeTransfer`, `AnswerTransfer`).
* Verified is part of what TransferSpec promises (`Verify` of `FileTransfer`), so no run
  checks it a second time; `VerifiedCorrect` is its theorem.
* PictureOK says that from the answer to FRAME_SIZE to that to FRAME_DUMP the picture
  FRAME_DUMP would send (`Dump`) is the one announced. It holds without `fb_mutex`
  over `fb_from`, because `fb_from_current` is set only by FRAME_SIZE and `ide_set_fb` never
  replaces a picture that is not sent.

Only model-checked: the liveness properties (liveness under fairness and ENABLED
are beyond the prover). Every invariant and every action property that a passing run
checks is also a theorem.

## 5. Properties by component

Each property has a comment in its module that says which behaviour of the code it is about.
Types are one invariant per module. History variables are named as such: `told` (threads given a
SystemExit), `stolen` (a GIL given up by a thread without it), `filled`, `raced` (the two known
ways the ring loses bytes), `stray`, `caught` (a script that has caught what it was told),
`refused` (a payload left to the parser), `expected` (frames sent and not dispatched), `late`,
`twice`, `lost` and the four `kept...` (media), `out`, `took`, `again`, `lost` (sockets),
`broken`, `upset` (timers). Where a property excludes a case by such a variable, the case is one
of the divergences above, and the property shows that there is no other.

## 6. Plan

1. Done: threads and collector with proofs; text ring with its abstract stream, and the
   proof that it implements it; sessions with the abstract hand-over of scripts, and the
   proof that they implement it outside `stray`; IDE commands with the abstract
   file transfer, the proof that they implement it, and pictures; media records
   and manager with proofs; sockets with the server of the little core, with proofs; soft
   timers with proofs.
2. Left, models: the composition of `IdeSession` with `IdeFrame`, so that a refused text
   meets the real session; the frames of `snapshot` in `sensor.py`; the layers of
   `display.py`; the allocation stack of `omv/alloc/fb_alloc.c`.
3. Left, proofs: an abstract allocator of video blocks that `MediaManager` implements, in
   the way of `TxStream`, `ScriptHandover` and `FileTransfer`.

## 7. Not modelled, and why

* Sockets: the first use of the channel by two threads at once
  (`ipcm_socket_server_init` tests and sets a flag with no lock), the contents of
  addresses, and the texts of the network commands.
* `omv/alloc`: fb_alloc is in the plan; umm_malloc is third-party.
* Display, audio, codec and player classes: users of the media manager; their own
  state is the kernel's.
* `machine`, `kpu`, `ai_demo`, `ai_cube`, RTSP, kernel bindings: one library or
  kernel call per method, no protocol of their own; of `machine` the soft timers are
  modelled, and hard timers cannot be had (`timer_used` is full from the start).
* imlib and the OpenMV modules, vendored libraries, scripts, resources and the SDK
  overlay: not this project's logic.
* In modelled parts: `sys.exitfunc` after the GIL is released (main.c 806), SIGINT and
  process_exit, the command line of `main_`, errors of the serial line, a failing malloc of a
  script's text, device numbers past the end of the camera table, the byte counts of the stdin
  ring, the contents of the heap (so an unreachable timer's callback that is swept and then
  scheduled is not seen).

## 8. Running

`tlc -workers 2 -config MCIdeFrame.cfg MCIdeFrame` checks one configuration; `PROJECT.json`
lists which belongs to which module. `tlapm MpThreadProofs.tla` and its like check the
proofs of a module, in about a minute or less each (`IdeFrameProofs`: three to four).
