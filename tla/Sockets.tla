------------------------------ MODULE Sockets ------------------------------
(***************************************************************************)
(* Sockets of a script.  The network is on the little core: each call of   *)
(* socket_network/modsocket.c becomes one or more requests of              *)
(* ipcm_socket_network.c over one message channel, and the one thread of   *)
(* micropython_socket_server.c carries the requests out in the order in    *)
(* which they came.                                                        *)
(*                                                                         *)
(* A call that gives up (kd_ipcmsg_send_sync returns after its limit)      *)
(* leaves its request in the channel: it is carried out all the same, and  *)
(* nobody takes the answer.  An answer may fail to be sent, and the server *)
(* ends by the signal of a write to a connection that its peer has closed. *)
(* The message library, the kernel of the little core and the peers on the *)
(* network are external.                                                   *)
(***************************************************************************)
EXTENDS Integers, Sequences, FiniteSets

CONSTANTS
  Thread,          \* Python threads
  Sock,            \* socket objects
  Fd,              \* descriptor numbers the little core can give
  IPCM_MAX_SIZE,   \* bytes in one message
  Length,          \* bytes a script sends or asks for in one call
  MaxLate,         \* bound: requests in the channel whose answer nobody gets
  Calls,           \* the calls each thread makes
  None, Free, Leaked

Call == {"socket", "accept", "close", "send", "recv", "read", "connect",
         "setblocking", "poll", "netcmd"}

ASSUME SocketAssumption ==
  /\ Fd \subseteq Nat
  /\ IPCM_MAX_SIZE \in Nat \ {0} /\ Length \subseteq Nat \ {0}
  /\ MaxLate \in Nat
  /\ None \notin Thread \cup Sock \cup Fd
  /\ Free \notin Sock /\ Leaked \notin Sock /\ Free # Leaked
  /\ None \notin [ret : Int, data : Seq((Sock \cup {Leaked}) \X Nat)]
  /\ Calls \in [Thread -> SUBSET Call]

VARIABLES
  gil,             \* the thread that keeps the GIL in a call, or None
  pc,              \* "python", "wait" (in kd_ipcmsg_send_sync), "back" from it
  cmd, sock, made, \* a call: what it does, its object, the object it makes
  len, have,       \* its length and what is done of it
  ans,             \* the answer to its request, None without one
  out, took,       \* history: its bytes on the network, as last repeated;
                   \* those read for it
  buf,             \* the bytes in its buffer
  state, fd,       \* the objects: "none", "making", "open", "closed"
  queue,           \* the channel; its head is in the hands of the server
  owner, nonblock, \* the descriptors of the little core
  alive,           \* the server has not ended
  lost,            \* history: threads that wait for an answer that was not sent
  again            \* history: an object was closed that was closed already

calls == <<gil, pc, cmd, sock, made, len, have, ans, out, took,
           buf>>
objects == <<state, fd, again>>
fate == <<alive, lost>>
server == <<queue, owner, nonblock, fate>>
vars == <<calls, objects, server>>

\* Calls made of parts.
Transfers == {"send", "recv", "read"}
\* Calls that keep the GIL while they wait for their answer.
Held == {"poll", "netcmd"}
\* Calls that do without a limit for the answer (0x7fffffff ms).
Endless == {"accept", "recv", "netcmd"}
\* Mutation: a close that got no answer in time is done again.
RetriedClose == {"accept", "close", "send", "recv", "read", "connect"}
\* Calls inside MP_HAL_RETRY_SYSCALL, and connect, which has its own loop.
Retried == {"accept", "send", "recv", "read", "connect"}
\* Requests in whose handler the server may wait for a peer.
PeerBound == {"accept", "send", "recv", "read", "connect"}

Smaller(a, b) == IF a < b THEN a ELSE b

Init ==
  /\ gil = None /\ pc = [t \in Thread |-> "python"]
  /\ cmd = [t \in Thread |-> None] /\ sock = [t \in Thread |-> None]
  /\ made = [t \in Thread |-> None] /\ ans = [t \in Thread |-> None]
  /\ len = [t \in Thread |-> 0] /\ have = [t \in Thread |-> 0]
  /\ out = [t \in Thread |-> <<>>] /\ took = [t \in Thread |-> <<>>]
  /\ buf = [t \in Thread |-> <<>>]
  /\ state = [o \in Sock |-> "none"] /\ fd = [o \in Sock |-> None]
  /\ queue = <<>>
  /\ owner = [f \in Fd |-> Free] /\ nonblock = [f \in Fd |-> FALSE]
  /\ again = FALSE /\ alive = TRUE /\ lost = {}

-----------------------------------------------------------------------------
(* The calls, in the thread that makes them.                               *)

\* What the next message of a transfer is about, d of n bytes being done.
Part(n, d) == Smaller(n - d, IPCM_MAX_SIZE)

\* kd_ipcmsg_send_sync puts a request in the channel, or fails at once.
Ask(t, m) ==
  /\ ans' = [ans EXCEPT ![t] = None]
  /\ \/ /\ queue' = Append(queue, m)
        /\ pc' = [pc EXCEPT ![t] = "wait"]
     \/ /\ pc' = [pc EXCEPT ![t] = "back"] /\ UNCHANGED queue
  /\ UNCHANGED <<owner, nonblock, fate>>

\* The request of thread t for call c of object o that makes object w, when
\* d of n bytes are done.
Request(t, c, o, w, n, d) ==
  [from |-> t, cmd |-> c, made |-> w, at |-> d,
   fd |-> IF o = None THEN None ELSE fd[o],
   n |-> IF c \in Transfers THEN Part(n, d) ELSE n]

\* A call begins.  What Python does between two calls is left out, and gil
\* follows the GIL only while a call keeps it.
Begin(t, c, o, w, n) ==
  /\ gil = None /\ pc[t] = "python" /\ c \in Calls[t]
  /\ gil' = (IF c \in Held THEN t ELSE None)
  /\ cmd' = [cmd EXCEPT ![t] = c]
  /\ sock' = [sock EXCEPT ![t] = o] /\ made' = [made EXCEPT ![t] = w]
  /\ len' = [len EXCEPT ![t] = n]
  /\ Ask(t, Request(t, c, o, w, n, 0))
  /\ UNCHANGED <<have, out, took, buf>>

\* Scripts begin no call on an object they have closed, but for another
\* close; a call that is going on may be overtaken by the close.
Usable(o) == state[o] = "open"

socket_make_new(t) == \E w \in Sock :
  /\ state[w] = "none" /\ state' = [state EXCEPT ![w] = "making"]
  /\ Begin(t, "socket", None, w, 0)
  /\ UNCHANGED <<fd, again>>

socket_accept(t) == \E o, w \in Sock :
  /\ Usable(o)
  /\ state[w] = "none" /\ state' = [state EXCEPT ![w] = "making"]
  /\ Begin(t, "accept", o, w, 0)
  /\ UNCHANGED <<fd, again>>

\* send and sendto, recv and read, with a length.  write and recvfrom are one
\* message whatever the length: they are transfers of one part.
socket_transfer(t) == \E o \in Sock, n \in Length, c \in Transfers :
  /\ Usable(o) /\ Begin(t, c, o, None, n)
  /\ UNCHANGED objects

\* connect stands for bind, listen, setsockopt and getaddrinfo too: one
\* request with a limit that changes nothing here.  poll and netcmd (the
\* shell commands of network.LAN and network.WLAN) keep the GIL.
socket_request(t) ==
  /\ \E o \in Sock, c \in {"connect", "poll", "netcmd"} :
       Usable(o) /\ Begin(t, c, o, None, 0)
  /\ UNCHANGED objects

\* setblocking(flag): n is 1 to block.
socket_setblocking(t) == \E o \in Sock, n \in 0..1 :
  /\ Usable(o) /\ Begin(t, "setblocking", o, None, n)
  /\ UNCHANGED objects

\* The object keeps its number: nothing marks it as closed in the code.
socket_close(t) == \E o \in Sock :
  /\ state[o] \in {"open", "closed"} /\ Begin(t, "close", o, None, 0)
  /\ again' = (again \/ state[o] = "closed")
  /\ state' = [state EXCEPT ![o] = "closed"]
  /\ UNCHANGED fd

\* The next request of a call, of which d is done.
AskOn(t, d) ==
  /\ have' = [have EXCEPT ![t] = d]
  /\ Ask(t, Request(t, cmd[t], sock[t], made[t], len[t], d))
  /\ UNCHANGED <<gil, cmd, sock, made, len, took, objects>>

\* The request m, after thread t has given it up.
Orphan(t, m) == IF m.from = t THEN [m EXCEPT !.from = None] ELSE m

LateOnes == Cardinality({i \in DOMAIN queue : queue[i].from = None})

\* kd_ipcmsg_send_sync gives up: 2 s, and 200 s for read.
Expire(t) ==
  /\ pc[t] = "wait" /\ cmd[t] \notin Endless /\ LateOnes < MaxLate
  /\ pc' = [pc EXCEPT ![t] = "back"]
  /\ queue' = [i \in DOMAIN queue |-> Orphan(t, queue[i])]
  /\ lost' = lost \ {t}
  /\ UNCHANGED <<gil, cmd, sock, made, len, have, ans, out, took, buf,
                 objects, owner, nonblock, alive>>

Fine(t) == pc[t] = "back" /\ ans[t] # None /\ ans[t].ret >= 0

\* Mutation: a short answer is taken for the whole part.
SumParts(t) == have[t] + Part(len[t], have[t])
\* The bytes sent or received so far, the answer at hand included.
Sum(t) == have[t] + ans[t].ret

\* Mutation: the loops go on when nothing is left.
GoesOnAtEnd(t) == ans[t].ret = Part(len[t], have[t]) /\ Sum(t) <= len[t]
\* The loops go on after a full part that is not the last.
GoesOn(t) == ans[t].ret = Part(len[t], have[t]) /\ Sum(t) < len[t]

\* The loop of ipcm_send, without the GIL.
ipcm_send(t) ==
  /\ Fine(t) /\ cmd[t] = "send" /\ GoesOn(t)
  /\ AskOn(t, Sum(t))
  /\ UNCHANGED <<out, buf>>

\* Mutation: each part is copied to the start of the buffer.
ReceivedOver(t) == ans[t].data
\* buf + out_sz, with the bytes of the answer copied to it.
Received(t) == buf[t] \o ans[t].data

\* The loops of socket_recv and socket_read, which take the GIL and give it
\* away again between two parts.
socket_recv(t) ==
  /\ Fine(t) /\ cmd[t] \in {"recv", "read"} /\ GoesOn(t) /\ gil = None
  /\ buf' = [buf EXCEPT ![t] = Received(t)]
  /\ AskOn(t, Sum(t))
  /\ UNCHANGED out

\* F_GETFL is answered and F_SETFL follows, without the GIL.
SetFlags(t) ==
  /\ Fine(t) /\ cmd[t] = "setblocking" /\ have[t] = 0
  /\ AskOn(t, 1)
  /\ UNCHANGED <<out, buf>>

\* The thread has the GIL again and the call is over.
Leave(t) ==
  /\ gil \in {None, t} /\ gil' = None
  /\ pc' = [pc EXCEPT ![t] = "python"]
  /\ cmd' = [cmd EXCEPT ![t] = None] /\ sock' = [sock EXCEPT ![t] = None]
  /\ made' = [made EXCEPT ![t] = None] /\ ans' = [ans EXCEPT ![t] = None]
  /\ len' = [len EXCEPT ![t] = 0] /\ have' = [have EXCEPT ![t] = 0]
  /\ out' = [out EXCEPT ![t] = <<>>] /\ took' = [took EXCEPT ![t] = <<>>]
  /\ buf' = [buf EXCEPT ![t] = <<>>]
  /\ UNCHANGED server

\* A call returns, with the object it has made, the count of bytes sent or the
\* bytes received.
Return(t) ==
  /\ Fine(t) /\ Leave(t)
  /\ cmd[t] \in Transfers => ~GoesOn(t)
  /\ cmd[t] = "setblocking" => have[t] = 1
  /\ IF made[t] = None THEN UNCHANGED <<state, fd>>
     ELSE /\ state' = [state EXCEPT ![made[t]] = "open"]
          /\ fd' = [fd EXCEPT ![made[t]] = ans[t].ret]
  /\ UNCHANGED again

\* The result is -1 and the call raises what errno says, which is of the
\* server for recv and whatever it was for the others.  close ignores it.
Raise(t) ==
  /\ pc[t] = "back" /\ ~Fine(t) /\ Leave(t)
  /\ state' = [o \in Sock |-> IF o = made[t] THEN "none" ELSE state[o]]
  /\ UNCHANGED <<fd, again>>

\* errno happens to be EINTR, from an earlier interrupted call of this
\* thread: the whole of ipcm_send is done again, or the last message of the
\* others.  recv takes errno from the server when there is an answer.
Repeat(t) ==
  /\ pc[t] = "back" /\ ~Fine(t) /\ cmd[t] \in Retried /\ gil = None
  /\ ~(cmd[t] = "recv" /\ ans[t] # None)
  /\ out' = [out EXCEPT ![t] = <<>>]
  /\ AskOn(t, IF cmd[t] = "send" THEN 0 ELSE have[t])
  /\ UNCHANGED buf

\* The script lets an object go, closed or not: it has no finaliser, so its
\* descriptor stays open on the little core.  The end of a session does this
\* to all objects.  An identity is used again once no bytes of it are on
\* their way.
Forget(o) ==
  /\ state[o] \in {"open", "closed"}
  /\ \A t \in Thread : o \notin {sock[t], made[t]}
  /\ \A t \in Thread : \A i \in DOMAIN took[t] : took[t][i][1] # o
  /\ state' = [state EXCEPT ![o] = "none"] /\ fd' = [fd EXCEPT ![o] = None]
  /\ owner' = [f \in Fd |-> IF owner[f] = o THEN Leaked ELSE owner[f]]
  /\ UNCHANGED <<calls, again, queue, nonblock, fate>>

-----------------------------------------------------------------------------
(* The server, mcsk_rcv_msg_proc in one thread.                            *)

busy == Head(queue)
Serving(cs) == alive /\ queue # <<>> /\ busy.cmd \in cs

\* The answer goes to the thread that waits for it, or to nobody.
Reply(ret, data) ==
  LET t == busy.from IN
  /\ queue' = Tail(queue)
  /\ IF t = None THEN UNCHANGED <<pc, ans>>
     ELSE /\ pc' = [pc EXCEPT ![t] = "back"]
          /\ ans' = [ans EXCEPT ![t] = [ret |-> ret, data |-> data]]
  /\ UNCHANGED <<gil, cmd, sock, made, len, have, buf, objects, fate>>

\* The answer to the request in hand will not be sent: nobody looks at what
\* kd_ipcmsg_send_async returns.  What the handler does now it does for nobody,
\* and its thread waits until it gives up, if it ever does.
LoseAnswer ==
  /\ alive /\ queue # <<>> /\ busy.from # None /\ LateOnes < MaxLate
  /\ queue' = [i \in DOMAIN queue |-> Orphan(busy.from, queue[i])]
  /\ lost' = lost \cup {busy.from}
  /\ UNCHANGED <<calls, objects, owner, nonblock, alive>>

\* send or write on a connection that the peer has closed raises SIGPIPE, which
\* nothing handles.  The descriptors of the little core go with the server;
\* what they were stays as it is here, and nobody sees it any more.
BrokenPipe ==
  /\ Serving({"send"}) /\ alive' = FALSE
  /\ UNCHANGED <<calls, objects, queue, owner, nonblock, lost>>

\* The lowest free number, as open descriptors are given.
Lowest(f) == owner[f] = Free /\ \A g \in Fd : owner[g] = Free => f <= g

mcsk_srv_proc_make ==
  /\ Serving({"socket", "accept"})
  /\ \E f \in Fd :
       /\ Lowest(f)
       /\ owner' = [owner EXCEPT ![f] =
                      IF busy.from = None THEN Leaked ELSE busy.made]
       /\ Reply(f, <<>>)
  /\ UNCHANGED <<out, took, nonblock>>

mcsk_srv_proc_close ==
  /\ Serving({"close"}) /\ owner[busy.fd] # Free
  /\ owner' = [owner EXCEPT ![busy.fd] = Free]
  /\ nonblock' = [nonblock EXCEPT ![busy.fd] = FALSE]
  /\ Reply(0, <<>>)
  /\ UNCHANGED <<out, took>>

mcsk_srv_proc_send ==
  /\ Serving({"send"}) /\ owner[busy.fd] # Free
  /\ \E k \in 1..busy.n :
       /\ out' = [t \in Thread |-> out[t] \o
                    IF t # busy.from THEN <<>>
                    ELSE [i \in 1..k |-> <<owner[busy.fd], busy.at + i>>]]
       /\ Reply(k, <<>>)
  /\ UNCHANGED <<took, owner, nonblock>>

\* recv and read with bytes at hand, or waiting for the peer to send some.
mcsk_srv_proc_recv ==
  /\ Serving({"recv", "read"}) /\ owner[busy.fd] \in Sock
  /\ LET o == owner[busy.fd]
         t == busy.from
     IN \E k \in 1..busy.n :
          LET data == [i \in 1..k |->
                         <<o, (IF t = None THEN 0 ELSE Len(took[t])) + i>>] IN
          /\ took' = [u \in Thread |-> IF u = t THEN took[u] \o data ELSE took[u]]
          /\ Reply(k, data)
  /\ UNCHANGED <<out, owner, nonblock>>

\* Nothing at hand: a socket that does not block (or whose SO_RCVTIMEO is over)
\* fails with EAGAIN, which read turns into 0; a peer that is gone makes both
\* return 0.
mcsk_srv_proc_read ==
  /\ Serving({"recv", "read"}) /\ owner[busy.fd] \in Sock
  /\ \/ Reply(0, <<>>)
     \/ nonblock[busy.fd] /\ Reply(IF busy.cmd = "read" THEN 0 ELSE -1, <<>>)
  /\ UNCHANGED <<out, took, owner, nonblock>>

mcsk_srv_proc_fcntl ==
  /\ Serving({"setblocking"}) /\ owner[busy.fd] # Free
  /\ nonblock' = IF busy.at = 0 THEN nonblock
                 ELSE [nonblock EXCEPT ![busy.fd] = (busy.n = 0)]
  /\ Reply(0, <<>>)
  /\ UNCHANGED <<out, took, owner>>

mcsk_srv_proc_other ==
  /\ Serving({"connect", "poll", "netcmd"})
  /\ Reply(0, <<>>)
  /\ UNCHANGED <<out, took, owner, nonblock>>

\* Mutation: a handler that fails sends no answer.
ErrorUnanswered ==
  /\ alive /\ queue # <<>> /\ queue' = Tail(queue)
  /\ UNCHANGED <<calls, objects, owner, nonblock, fate>>
\* Any call of the little core's kernel can fail.
mcsk_srv_proc_error ==
  /\ alive /\ queue # <<>> /\ Reply(-1, <<>>)
  /\ UNCHANGED <<out, took, owner, nonblock>>

Handlers == \/ mcsk_srv_proc_make \/ mcsk_srv_proc_close \/ mcsk_srv_proc_send
            \/ mcsk_srv_proc_recv \/ mcsk_srv_proc_read \/ mcsk_srv_proc_fcntl
            \/ mcsk_srv_proc_other \/ mcsk_srv_proc_error

Python(t) == \/ socket_make_new(t) \/ socket_accept(t) \/ socket_transfer(t)
             \/ socket_request(t) \/ socket_setblocking(t) \/ socket_close(t)

InCall(t) == \/ ipcm_send(t) \/ socket_recv(t) \/ SetFlags(t)
             \/ Return(t) \/ Raise(t) \/ Repeat(t)

Next == \/ \E t \in Thread : Python(t) \/ InCall(t) \/ Expire(t)
        \/ \E o \in Sock : Forget(o)
        \/ Handlers \/ LoseAnswer \/ BrokenPipe

\* C code goes on, and the server, while it lives, takes and carries out what does
\* not wait for a peer: poll asks with no time to wait, and the shell commands of
\* netcmd are taken to end.  No limit is taken to be kept, no peer to do anything.
Fairness ==
  /\ \A t \in Thread : WF_vars(InCall(t))
  /\ WF_vars(Handlers /\ ~Serving(PeerBound))

Spec == Init /\ [][Next]_vars /\ Fairness

-----------------------------------------------------------------------------
(* Properties.                                                             *)

Connection == Sock \cup {Leaked}
Bytes == Connection \X Nat
Message == [from : Thread \cup {None}, cmd : Call, made : Sock \cup {None},
            at : Nat, fd : Fd \cup {None}, n : Nat]

\* Types of the state; no request of a transfer asks for nothing.
TypeOK ==
  /\ gil \in Thread \cup {None}
  /\ pc \in [Thread -> {"python", "wait", "back"}]
  /\ cmd \in [Thread -> Call \cup {None}]
  /\ sock \in [Thread -> Sock \cup {None}] /\ made \in [Thread -> Sock \cup {None}]
  /\ len \in [Thread -> Nat] /\ have \in [Thread -> Nat]
  /\ ans \in [Thread -> [ret : Int, data : Seq(Bytes)] \cup {None}]
  /\ out \in [Thread -> Seq(Bytes)] /\ took \in [Thread -> Seq(Bytes)]
  /\ buf \in [Thread -> Seq(Bytes)]
  /\ again \in BOOLEAN
  /\ state \in [Sock -> {"none", "making", "open", "closed"}]
  /\ fd \in [Sock -> Fd \cup {None}]
  /\ alive \in BOOLEAN /\ lost \subseteq Thread
  /\ queue \in Seq(Message)
  /\ \A i \in DOMAIN queue :
       queue[i].cmd \in Transfers => queue[i].n \in 1..IPCM_MAX_SIZE
  /\ owner \in [Fd -> Sock \cup {Free, Leaked}] /\ nonblock \in [Fd -> BOOLEAN]

\* No two live objects ever share a descriptor of the little core, nor does
\* one lose it: late and given-up requests included, a descriptor is closed
\* only for the object that has it, as long as the server lives.  The code keeps
\* the number in a closed object, so this ends with the first script that closes
\* an object twice.
FdUnshared ==
  alive /\ ~again => \A o \in Sock : state[o] = "open" => owner[fd[o]] = o

\* The count that send() is about to return is what reached the network from
\* its buffer, each byte once, in order and on its own connection, over all
\* the parts of ipcm_send.  Of a call that is repeated after EINTR it speaks of
\* the last time (what had been sent before goes out again).  It does not
\* hold when another thread closes the object meanwhile: the rest may go to
\* a connection that has got its number.
SendReported ==
  \A t \in Thread :
    /\ Fine(t) /\ cmd[t] = "send"
    /\ state[sock[t]] = "open" /\ ~again
    => out[t] = [i \in 1..Sum(t) |-> <<sock[t], i>>]

\* What recv() and read() are about to return is what the little core has read
\* from connections for this call, all of it, in order: in the parts of the
\* loop nothing is dropped or overwritten.  Bytes that the little core has
\* read are lost only by a call that raises after its first part, by a read that
\* was given up and with an answer that was not sent.
ReceivedWhole ==
  \A t \in Thread :
    Fine(t) /\ cmd[t] \in {"recv", "read"} => Received(t) = took[t]

\* A thread that waits for the little core with the GIL (poll, and all of
\* network.LAN and network.WLAN) lets the other threads go on.  Three things keep
\* them out, for ever: the server waits for a peer on behalf of an earlier
\* request, the server has ended, or the answer was not sent.
GilFreed ==
  gil # None ~> gil = None \/ Serving(PeerBound) \/ ~alive \/ gil \in lost
=============================================================================
