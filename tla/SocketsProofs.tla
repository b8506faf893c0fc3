---------------------------- MODULE SocketsProofs ----------------------------
(***************************************************************************)
(* Theorems about sockets, for any number of threads, objects and          *)
(* descriptors, any size of messages and calls of any length.              *)
(*                                                                         *)
(* CallOK and QueueOK tie a call to its object and its request, whoever    *)
(* gives up when.  Owned is the inductive form of FdUnshared: it needs to  *)
(* know whose numbers the close requests under way are about.  Sending and *)
(* Receiving follow the bytes of a transfer through its parts.             *)
(***************************************************************************)
EXTENDS Sockets, SequenceTheorems, TLAPS

Makes == {"socket", "accept"}

\* A call has the objects it needs, which are not free for others, and a part
\* to do; one that has made a descriptor has its number.
CallOK ==
  \A t \in Thread :
    /\ pc[t] = "python" => /\ sock[t] = None /\ made[t] = None /\ have[t] = 0
                           /\ out[t] = <<>> /\ took[t] = <<>> /\ buf[t] = <<>>
    /\ pc[t] # "python" => /\ cmd[t] \in Call
                           /\ cmd[t] # "socket" => sock[t] \in Sock
                           /\ IF cmd[t] \in Makes THEN made[t] \in Sock ELSE made[t] = None
                           /\ cmd[t] \in Transfers => have[t] < len[t]
    /\ pc[t] = "wait" => ans[t] = None
    /\ sock[t] # None => state[sock[t]] \in {"open", "closed"}
    /\ made[t] # None => state[made[t]] = "making"
    /\ made[t] # None => \A u \in Thread : made[u] = made[t] => u = t
    /\ Fine(t) /\ made[t] # None => ans[t].ret \in Fd

\* An object the script has, or has closed, has a number.
ObjectsOK == \A o \in Sock : state[o] \in {"open", "closed"} => fd[o] \in Fd

\* A request says what it is about, and it is the one its thread waits for.
RequestOK(m) ==
  /\ m.cmd # "socket" => m.fd \in Fd
  /\ m.cmd \in Makes => m.made \in Sock
  /\ m.from # None =>
       /\ pc[m.from] = "wait" /\ m.cmd = cmd[m.from] /\ m.made = made[m.from]
       /\ m.cmd # "socket" => m.fd = fd[sock[m.from]]
       /\ m.at = have[m.from]

QueueOK ==
  /\ \A i \in DOMAIN queue : RequestOK(queue[i])
  /\ \A i, j \in DOMAIN queue : queue[i].from = queue[j].from /\ queue[i].from # None => i = j

\* Until an object is closed twice: an open object has its descriptor, so has
\* one that is about to get its number, and the close requests are about
\* different descriptors, of closed objects or of none.
Owned ==
  ~again =>
    /\ \A o \in Sock : state[o] = "open" => owner[fd[o]] = o
    /\ \A t \in Thread : Fine(t) /\ made[t] # None => owner[ans[t].ret] = made[t]
    /\ \A i \in DOMAIN queue : queue[i].cmd = "close" =>
         \/ owner[queue[i].fd] = Leaked
         \/ owner[queue[i].fd] \in Sock /\ state[owner[queue[i].fd]] = "closed"
    /\ \A i, j \in DOMAIN queue :
         queue[i].cmd = "close" /\ queue[j].cmd = "close" /\ queue[i].fd = queue[j].fd => i = j

\* The first n bytes of a buffer on the connection of object o.
Prefix(o, n) == [i \in 1..n |-> <<o, i>>]

SendingAt(t) ==
  pc[t] # "python" /\ cmd[t] = "send" /\ state[sock[t]] = "open" =>
    /\ pc[t] = "wait" => out[t] = Prefix(sock[t], have[t])
    /\ Fine(t) => out[t] = Prefix(sock[t], Sum(t))

Sending == ~again => \A t \in Thread : SendingAt(t)

\* What has been read for a transfer is in its buffer, or in the answer.
Receiving ==
  \A t \in Thread :
    pc[t] # "python" /\ cmd[t] \in {"recv", "read"} =>
      took[t] = IF Fine(t) THEN Received(t) ELSE buf[t]

IInv == TypeOK /\ CallOK /\ ObjectsOK /\ QueueOK /\ Owned /\ Sending /\ Receiving

-----------------------------------------------------------------------------
(* Sequences                                                               *)

\* What is appended to a part of a buffer is the next part.
LEMMA PrefixGrows ==
  ASSUME NEW o, NEW n \in Nat, NEW k \in Nat
  PROVE  Prefix(o, n) \o [i \in 1..k |-> <<o, n + i>>] = Prefix(o, n + k)
<1> DEFINE s == Prefix(o, n)
           r == [i \in 1..k |-> <<o, n + i>>]
           S == {<<o, i>> : i \in 1..(n + k)}
<1>1. s \in Seq(S) /\ Len(s) = n /\ r \in Seq(S) /\ Len(r) = k
  BY DEF Prefix
<1>2. /\ \A i \in 1..n : s[i] = <<o, i>>
      /\ \A i \in 1..k : r[i] = <<o, n + i>>
  BY DEF Prefix
<1> HIDE DEF s, r
<1>3. s \o r \in Seq(S) /\ Len(s \o r) = n + k
  BY <1>1, ConcatProperties
<1>4. ASSUME NEW i \in 1..(n + k) PROVE (s \o r)[i] = <<o, i>>
  <2>1. i \in Int /\ 1 <= i /\ i <= n + k
    BY <1>4
  <2>2. (s \o r)[i] = IF i <= n THEN s[i] ELSE r[i - n]
    BY <1>1, <2>1, ConcatProperties
  <2>3. i > n => i - n \in 1..k /\ n + (i - n) = i
    BY <2>1
  <2>4. QED
    BY <1>2, <2>1, <2>2, <2>3
<1>5. s \o r = Prefix(o, n + k)
  <2>1. s \o r = [i \in 1..(n + k) |-> (s \o r)[i]]
    BY <1>3, LenProperties
  <2>2. QED
    BY <2>1, <1>4, Zenon DEF Prefix
<1>6. QED
  BY <1>5 DEF s, r

\* The message m comes to the channel, behind the others.
Added(m) ==
  \E n : /\ n \notin DOMAIN queue /\ DOMAIN queue' = DOMAIN queue \cup {n}
         /\ queue'[n] = m
         /\ \A i \in DOMAIN queue : queue'[i] = queue[i]

\* The server is done with the message at the head.
Taken ==
  /\ 1 \in DOMAIN queue /\ busy = queue[1]
  /\ \A i \in DOMAIN queue' : /\ i \in Int /\ i + 1 # 1 /\ i + 1 \in DOMAIN queue
                              /\ queue'[i] = queue[i + 1]

\* A message that is put in the channel is the last of it.
LEMMA AppendAdds ==
  ASSUME queue \in Seq(Message), NEW m \in Message, queue' = Append(queue, m)
  PROVE  Added(m) /\ queue' \in Seq(Message)
<1>1. /\ Len(queue) + 1 \notin DOMAIN queue
      /\ DOMAIN queue' = DOMAIN queue \cup {Len(queue) + 1}
      /\ queue'[Len(queue) + 1] = m
      /\ \A i \in DOMAIN queue : queue'[i] = queue[i]
  <2>1. /\ Len(queue) \in Nat /\ DOMAIN queue = 1..Len(queue)
        /\ DOMAIN queue' = 1..(Len(queue) + 1)
    BY AppendProperties, LenProperties
  <2>2. DOMAIN queue' = DOMAIN queue \cup {Len(queue) + 1} /\ Len(queue) + 1 \notin DOMAIN queue
    BY <2>1
  <2>3. QED
    BY <2>1, <2>2, AppendProperties
<1>2. Added(m)
  BY <1>1 DEF Added
<1>3. QED
  BY <1>2, AppendProperties

\* What the server leaves is the channel without its head.
LEMMA TailTakes ==
  ASSUME queue \in Seq(Message), queue # <<>>, queue' = Tail(queue)
  PROVE  Taken /\ queue' \in Seq(Message) /\ busy \in Message
BY DEF Taken, busy

-----------------------------------------------------------------------------
(* Steps with a common shape                                               *)

\* A request of thread t goes to the channel, or fails at once.
Asked(t, m) ==
  /\ ans' = [ans EXCEPT ![t] = None]
  /\ \/ Added(m) /\ pc' = [pc EXCEPT ![t] = "wait"]
     \/ queue' = queue /\ pc' = [pc EXCEPT ![t] = "back"]
  /\ m \in Message /\ queue' \in Seq(Message)
  /\ m.cmd \in Transfers => m.n \in 1..IPCM_MAX_SIZE
  /\ UNCHANGED <<owner, nonblock, alive, lost>>

\* Ask, in the terms of the messages it adds.
LEMMA AskAsks ==
  ASSUME TypeOK, NEW t \in Thread, NEW c \in Call, NEW o \in Sock \cup {None},
         NEW w \in Sock \cup {None}, NEW n \in Nat, NEW d \in Nat,
         c \in Transfers => d < n,
         Ask(t, Request(t, c, o, w, n, d))
  PROVE  Asked(t, Request(t, c, o, w, n, d))
<1> DEFINE m == Request(t, c, o, w, n, d)
<1>1. c \in Transfers => Part(n, d) \in 1..IPCM_MAX_SIZE
  BY SocketAssumption DEF Part, Smaller
<1>2. (IF o = None THEN None ELSE fd[o]) \in Fd \cup {None}
  BY DEF TypeOK
<1>3. (IF c \in Transfers THEN Part(n, d) ELSE n) \in Nat
  BY <1>1, SocketAssumption
<1>4. m \in Message /\ (m.cmd \in Transfers => m.n \in 1..IPCM_MAX_SIZE)
  BY <1>1, <1>2, <1>3 DEF Request, Message
<1>5. queue \in Seq(Message)
  BY DEF TypeOK
<1>6. QED
  BY <1>4, <1>5, AppendAdds DEF Ask, Asked, fate

\* Thread t begins call c of object o that makes w.
Began(t, c, o, w, n) ==
  /\ c \in Call /\ o \in Sock \cup {None} /\ w \in Sock \cup {None} /\ n \in Nat
  /\ Begin(t, c, o, w, n) /\ Asked(t, Request(t, c, o, w, n, 0))
  /\ IF c \in Makes
     THEN w \in Sock /\ state[w] = "none" /\ state' = [state EXCEPT ![w] = "making"]
     ELSE w = None /\ IF c = "close" THEN state' = [state EXCEPT ![o] = "closed"]
                      ELSE state' = state
  /\ c # "socket" => o \in Sock /\ state[o] \in {"open", "closed"}
  /\ c = "socket" => o = None
  /\ c \in Transfers => n > 0
  /\ again' = (again \/ (c = "close" /\ state[o] = "closed"))
  /\ UNCHANGED fd

\* Each call of a script begins as Began says.
LEMMA PythonBegins ==
  ASSUME TypeOK, NEW t \in Thread, Python(t)
  PROVE  \E c, o, w, n : Began(t, c, o, w, n)
<1>1. ASSUME socket_make_new(t) PROVE \E c, o, w, n : Began(t, c, o, w, n)
  <2>1. PICK w \in Sock : /\ state[w] = "none" /\ state' = [state EXCEPT ![w] = "making"]
                          /\ Begin(t, "socket", None, w, 0) /\ UNCHANGED <<fd, again>>
    BY <1>1 DEF socket_make_new
  <2>2. Asked(t, Request(t, "socket", None, w, 0, 0))
    BY <2>1, AskAsks DEF Begin, Call, Transfers
  <2>3. Began(t, "socket", None, w, 0)
    BY <2>1, <2>2 DEF Began, Call, Makes, Transfers, TypeOK
  <2>4. QED
    BY <2>3
<1>2. ASSUME socket_accept(t) PROVE \E c, o, w, n : Began(t, c, o, w, n)
  <2>1. PICK o \in Sock, w \in Sock :
          /\ state[o] = "open" /\ state[w] = "none" /\ state' = [state EXCEPT ![w] = "making"]
          /\ Begin(t, "accept", o, w, 0) /\ UNCHANGED <<fd, again>>
    BY <1>2 DEF socket_accept, Usable
  <2>2. Asked(t, Request(t, "accept", o, w, 0, 0))
    BY <2>1, AskAsks DEF Begin, Call, Transfers
  <2>3. Began(t, "accept", o, w, 0)
    BY <2>1, <2>2 DEF Began, Call, Makes, Transfers, TypeOK
  <2>4. QED
    BY <2>3
<1>3. ASSUME socket_transfer(t) PROVE \E c, o, w, n : Began(t, c, o, w, n)
  <2>1. PICK o \in Sock, n \in Length, c \in Transfers :
          state[o] = "open" /\ Begin(t, c, o, None, n) /\ UNCHANGED objects
    BY <1>3 DEF socket_transfer, Usable
  <2>2. n \in Nat /\ n > 0 /\ c \in Call
    BY SocketAssumption DEF Call, Transfers
  <2>3. Asked(t, Request(t, c, o, None, n, 0))
    BY <2>1, <2>2, AskAsks DEF Begin
  <2>4. Began(t, c, o, None, n)
    BY <2>1, <2>2, <2>3 DEF Began, Makes, Transfers, TypeOK, objects
  <2>5. QED
    BY <2>4
<1>4. ASSUME socket_request(t) PROVE \E c, o, w, n : Began(t, c, o, w, n)
  <2>1. PICK o \in Sock, c \in {"connect", "poll", "netcmd"} :
          state[o] = "open" /\ Begin(t, c, o, None, 0) /\ UNCHANGED objects
    BY <1>4 DEF socket_request, Usable
  <2>2. Asked(t, Request(t, c, o, None, 0, 0))
    BY <2>1, AskAsks DEF Begin, Call, Transfers
  <2>3. Began(t, c, o, None, 0)
    BY <2>1, <2>2 DEF Began, Call, Makes, Transfers, TypeOK, objects
  <2>4. QED
    BY <2>3
<1>5. ASSUME socket_setblocking(t) PROVE \E c, o, w, n : Began(t, c, o, w, n)
  <2>1. PICK o \in Sock, n \in 0..1 :
          state[o] = "open" /\ Begin(t, "setblocking", o, None, n) /\ UNCHANGED objects
    BY <1>5 DEF socket_setblocking, Usable
  <2>2. "setblocking" \in Call /\ "setblocking" \notin Transfers /\ n \in Nat
    BY DEF Call, Transfers
  <2>3. Asked(t, Request(t, "setblocking", o, None, n, 0))
    BY <2>1, <2>2, AskAsks DEF Begin
  <2>4. Began(t, "setblocking", o, None, n)
    BY <2>1, <2>2, <2>3 DEF Began, Call, Makes, Transfers, TypeOK, objects
  <2>5. QED
    BY <2>4
<1>6. ASSUME socket_close(t) PROVE \E c, o, w, n : Began(t, c, o, w, n)
  <2>1. PICK o \in Sock :
          /\ state[o] \in {"open", "closed"} /\ Begin(t, "close", o, None, 0)
          /\ again' = (again \/ state[o] = "closed")
          /\ state' = [state EXCEPT ![o] = "closed"] /\ UNCHANGED fd
    BY <1>6 DEF socket_close
  <2>2. Asked(t, Request(t, "close", o, None, 0, 0))
    BY <2>1, AskAsks DEF Begin, Call, Transfers
  <2>3. Began(t, "close", o, None, 0)
    BY <2>1, <2>2 DEF Began, Call, Makes, Transfers
  <2>4. QED
    BY <2>3
<1>7. QED
  BY <1>1, <1>2, <1>3, <1>4, <1>5, <1>6 DEF Python
-----------------------------------------------------------------------------
(* Calls that begin, and calls that go on                                  *)

\* The sending of another thread is not disturbed.
LEMMA SendingStays ==
  ASSUME NEW u \in Thread, SendingAt(u),
         UNCHANGED <<pc[u], cmd[u], sock[u], have[u], ans[u], out[u]>>,
         cmd[u] = "send" /\ pc[u] # "python" /\ state'[sock[u]] = "open" =>
           state[sock[u]] = "open"
  PROVE  SendingAt(u)'
BY DEF SendingAt, Fine, Sum

\* A call that begins keeps the inductive invariant.
LEMMA BeganKeeps ==
  ASSUME IInv, NEW t \in Thread, NEW c, NEW o, NEW w, NEW n, Began(t, c, o, w, n)
  PROVE  IInv'
<1> USE DEF IInv
<1>1. /\ pc[t] = "python" /\ pc'[t] \in {"wait", "back"} /\ ans' = [ans EXCEPT ![t] = None]
      /\ \A u \in Thread \ {t} : pc'[u] = pc[u]
      /\ cmd' = [cmd EXCEPT ![t] = c] /\ sock' = [sock EXCEPT ![t] = o]
      /\ made' = [made EXCEPT ![t] = w] /\ len' = [len EXCEPT ![t] = n]
      /\ UNCHANGED <<have, out, took, buf, owner, nonblock, alive, lost, fd>>
  BY DEF Began, Begin, Asked, TypeOK
<1>2. PICK m \in Message :
        /\ Asked(t, m) /\ m.from = t /\ m.cmd = c /\ m.made = w /\ m.at = 0
        /\ c # "socket" => m.fd = fd[o]
  <2> DEFINE r == Request(t, c, o, w, n, 0)
  <2>1. r \in Message /\ Asked(t, r)
    BY DEF Began, Asked
  <2>2. /\ r.from = t /\ r.cmd = c /\ r.made = w /\ r.at = 0
        /\ c # "socket" => r.fd = fd[o]
    BY SocketAssumption DEF Began, Request
  <2>3. QED
    BY <2>1, <2>2
<1>3. /\ c \in Call /\ o \in Sock \cup {None} /\ w \in Sock \cup {None} /\ n \in Nat
      /\ IF c \in Makes
         THEN w \in Sock /\ state[w] = "none" /\ state' = [state EXCEPT ![w] = "making"]
         ELSE w = None /\ IF c = "close" THEN state' = [state EXCEPT ![o] = "closed"]
                          ELSE state' = state
      /\ c # "socket" => o \in Sock /\ state[o] \in {"open", "closed"}
      /\ c = "socket" => o = None
      /\ c \in Transfers => n > 0
  BY DEF Began
<1>4. again' = (again \/ (c = "close" /\ state[o] = "closed"))
  BY DEF Began
<1>5. TypeOK'
  <2>1. again' \in BOOLEAN
    BY <1>4
  <2>2. gil' \in Thread \cup {None} /\ state' \in [Sock -> {"none", "making", "open", "closed"}]
    BY <1>3 DEF Began, Begin, TypeOK, Makes
  <2>3. /\ queue' \in Seq(Message)
        /\ \A i \in DOMAIN queue' : queue'[i].cmd \in Transfers => queue'[i].n \in 1..IPCM_MAX_SIZE
    BY <1>2 DEF Asked, Added, TypeOK
  <2>4. pc' \in [Thread -> {"python", "wait", "back"}]
    BY <1>2 DEF Asked, TypeOK
  <2>5. QED
    BY <1>1, <1>3, <2>1, <2>2, <2>3, <2>4 DEF TypeOK
<1>6. CallOK'
  <2>1. \A u \in Thread : /\ pc'[u] = "wait" => ans'[u] = None
                          /\ Fine(u)' => u # t /\ Fine(u) /\ ans'[u] = ans[u]
    BY <1>1 DEF CallOK, TypeOK, Fine
  <2>2. QED
    BY <1>1, <1>3, <2>1, SMTT(40) DEF CallOK, TypeOK, Makes
<1>7. ObjectsOK'
  BY <1>1, <1>3 DEF ObjectsOK, TypeOK
<1>8. QueueOK'
  <2>1. ASSUME NEW r \in Message, RequestOK(r) PROVE r.from # t /\ RequestOK(r)'
    BY <1>1, <2>1, SocketAssumption DEF RequestOK, Message, TypeOK
  <2>2. pc'[t] = "wait" => RequestOK(m)'
    BY <1>1, <1>2, <1>3 DEF RequestOK, TypeOK, CallOK, ObjectsOK, Makes
  <2>3. \A i \in DOMAIN queue : queue[i] \in Message /\ RequestOK(queue[i])
    BY DEF QueueOK, TypeOK
  <2>4. CASE Added(m) /\ pc'[t] = "wait"
    BY <1>2, <2>1, <2>2, <2>3, <2>4 DEF Added, QueueOK
  <2>5. CASE queue' = queue
    BY <2>1, <2>3, <2>5 DEF QueueOK
  <2>6. QED
    BY <1>2, <2>4, <2>5 DEF Asked, TypeOK
<1>9. Owned'
  <2> SUFFICES ASSUME ~again'
               PROVE  (/\ \A p \in Sock : state[p] = "open" => owner[fd[p]] = p
                       /\ \A u \in Thread :
                            Fine(u) /\ made[u] # None => owner[ans[u].ret] = made[u]
                       /\ \A i \in DOMAIN queue : queue[i].cmd = "close" =>
                            \/ owner[queue[i].fd] = Leaked
                            \/ /\ owner[queue[i].fd] \in Sock
                               /\ state[owner[queue[i].fd]] = "closed"
                       /\ \A i, j \in DOMAIN queue :
                            queue[i].cmd = "close" /\ queue[j].cmd = "close"
                            /\ queue[i].fd = queue[j].fd => i = j)'
    BY DEF Owned
  <2>1. ~again /\ (c = "close" => o \in Sock /\ state[o] = "open" /\ owner[fd[o]] = o)
    BY <1>3, <1>4 DEF Owned
  <2>2. \A p \in Sock : state'[p] = "open" => owner'[fd'[p]] = p
    BY <1>1, <1>3, <2>1 DEF Owned, TypeOK
  <2>3. \A u \in Thread : Fine(u)' /\ made'[u] # None => owner'[ans'[u].ret] = made'[u]
    BY <1>1, <2>1 DEF Owned, Fine, TypeOK
  <2>4. \A i \in DOMAIN queue : queue[i].cmd = "close" =>
          \/ owner[queue[i].fd] = Leaked
          \/ /\ owner[queue[i].fd] \in Sock
             /\ state'[owner[queue[i].fd]] = "closed" /\ (c = "close" => queue[i].fd # fd[o])
    BY <1>3, <2>1 DEF Owned, TypeOK, Makes
  <2>5. c = "close" => \A i \in DOMAIN queue : queue[i].cmd = "close" => queue[i].fd # fd[o]
    BY <2>1, <2>4, SocketAssumption DEF Owned
  <2>6. c = "close" => state'[o] = "closed" /\ m.fd = fd[o]
    BY <1>2, <1>3 DEF TypeOK, Makes
  <2>7. \/ Added(m)
        \/ queue' = queue
    BY <1>2 DEF Asked
  <2>8. \A i \in DOMAIN queue' : queue'[i].cmd = "close" =>
          \/ owner'[queue'[i].fd] = Leaked
          \/ /\ owner'[queue'[i].fd] \in Sock
             /\ state'[owner'[queue'[i].fd]] = "closed"
    <3>1. m.cmd = "close" => owner[m.fd] \in Sock /\ state'[owner[m.fd]] = "closed"
      BY <1>2, <2>1, <2>6
    <3>2. ASSUME NEW i \in DOMAIN queue'
          PROVE  (i \in DOMAIN queue /\ queue'[i] = queue[i]) \/ queue'[i] = m
      BY <2>7, <3>2 DEF Added
    <3>3. QED
      BY <1>1, <2>4, <3>1, <3>2
  <2>9. \A i, j \in DOMAIN queue' :
          queue'[i].cmd = "close" /\ queue'[j].cmd = "close"
          /\ queue'[i].fd = queue'[j].fd => i = j
    <3>1. \A i, j \in DOMAIN queue : queue[i].cmd = "close" /\ queue[j].cmd = "close"
                                     /\ queue[i].fd = queue[j].fd => i = j
      BY <2>1 DEF Owned
    <3>2. m.cmd = "close" => \A i \in DOMAIN queue : queue[i].cmd = "close" => queue[i].fd # m.fd
      BY <1>2, <2>5, <2>6
    <3>3. CASE queue' = queue
      BY <3>1, <3>3
    <3>4. CASE Added(m)
      <4>1. PICK n1 : /\ DOMAIN queue' = DOMAIN queue \cup {n1} /\ queue'[n1] = m
                      /\ \A i \in DOMAIN queue : queue'[i] = queue[i]
        BY <3>4 DEF Added
      <4>2. QED
        BY <3>1, <3>2, <4>1
    <3>5. QED
      BY <2>7, <3>3, <3>4
  <2>10. QED
    BY <2>2, <2>3, <2>8, <2>9
<1>10. Sending'
  <2>1. ~again' => ~again
    BY <1>4
  <2>2. ASSUME NEW u \in Thread, SendingAt(u) PROVE SendingAt(u)'
    <3>1. CASE u = t
      <4>1. out'[u] = <<>> /\ have'[u] = 0 /\ ~Fine(u)'
        BY <1>1, <3>1 DEF CallOK, TypeOK, Fine
      <4>2. QED
        BY <4>1 DEF SendingAt, Prefix
    <3>2. CASE u # t
      <4>1. UNCHANGED <<pc[u], cmd[u], sock[u], have[u], ans[u], out[u]>>
        BY <1>1, <3>2 DEF TypeOK
      <4>2. cmd[u] = "send" /\ pc[u] # "python" /\ state'[sock[u]] = "open" =>
              state[sock[u]] = "open"
        BY <1>3 DEF CallOK, TypeOK, Makes
      <4>3. QED
        BY <2>2, <4>1, <4>2, SendingStays
    <3>3. QED
      BY <3>1, <3>2
  <2>3. QED
    BY <2>1, <2>2 DEF Sending
<1>11. Receiving'
  <2>1. ASSUME NEW u \in Thread
        PROVE  /\ u = t => ~Fine(u)' /\ took'[u] = <<>> /\ buf'[u] = <<>>
               /\ u # t => /\ Fine(u)' = Fine(u)
                          /\ UNCHANGED <<pc[u], cmd[u], ans[u], took[u], buf[u]>>
    BY <1>1 DEF TypeOK, CallOK, Fine
  <2>2. QED
    BY <2>1, SMTT(30) DEF Receiving, Received
<1>12. QED
  BY <1>5, <1>6, <1>7, <1>8, <1>9, <1>10, <1>11

\* The call of thread t asks again when d is done.
WentOn(t, d) ==
  /\ pc[t] = "back" /\ cmd[t] # "close" /\ d \in Nat /\ (cmd[t] \in Transfers => d < len[t])
  /\ \A u \in Thread \ {t} : out'[u] = out[u] /\ buf'[u] = buf[u]
  /\ AskOn(t, d) /\ Asked(t, Request(t, cmd[t], sock[t], made[t], len[t], d))

\* AskOn, in the terms of the messages it adds.
LEMMA OnWent ==
  ASSUME IInv, NEW t \in Thread, NEW d \in Nat, pc[t] = "back", cmd[t] # "close",
         cmd[t] \in Transfers => d < len[t],
         \A u \in Thread \ {t} : out'[u] = out[u] /\ buf'[u] = buf[u],
         AskOn(t, d)
  PROVE  WentOn(t, d)
<1>1. /\ cmd[t] \in Call /\ sock[t] \in Sock \cup {None} /\ made[t] \in Sock \cup {None}
      /\ len[t] \in Nat
  BY DEF IInv, TypeOK, CallOK
<1>2. QED
  BY <1>1, AskAsks DEF WentOn, AskOn, IInv

\* A call that asks again is about the same objects.
LEMMA WentOnKeeps ==
  ASSUME IInv, NEW t \in Thread, NEW d, WentOn(t, d)
  PROVE  CallOK' /\ ObjectsOK' /\ QueueOK' /\ Owned'
<1> USE DEF IInv
<1>1. /\ pc[t] = "back" /\ pc'[t] \in {"wait", "back"} /\ ans' = [ans EXCEPT ![t] = None]
      /\ \A u \in Thread \ {t} : pc'[u] = pc[u]
      /\ have' = [have EXCEPT ![t] = d]
      /\ UNCHANGED <<cmd, sock, made, len, took, state, fd, again, owner, nonblock>>
  BY DEF WentOn, AskOn, Asked, TypeOK, objects
<1>2. PICK m \in Message :
        /\ Asked(t, m) /\ m.from = t /\ m.cmd = cmd[t] /\ m.made = made[t] /\ m.at = d
        /\ m.cmd # "close"
        /\ cmd[t] # "socket" => m.fd = fd[sock[t]]
  <2> DEFINE r == Request(t, cmd[t], sock[t], made[t], len[t], d)
  <2>1. r \in Message /\ Asked(t, r)
    BY DEF WentOn, Asked
  <2>2. /\ r.from = t /\ r.cmd = cmd[t] /\ r.made = made[t] /\ r.at = d
        /\ r.cmd # "close"
        /\ cmd[t] # "socket" => r.fd = fd[sock[t]]
    BY <1>1, SocketAssumption DEF WentOn, CallOK, Request
  <2>3. QED
    BY <2>1, <2>2
<1>3. CallOK'
  <2>1. ASSUME NEW u \in Thread
        PROVE  /\ pc'[u] = "python" <=> pc[u] = "python"
               /\ Fine(u)' => Fine(u) /\ ans'[u] = ans[u]
               /\ pc[u] = "python" => UNCHANGED <<have[u], out[u], buf[u]>>
               /\ pc[u] # "python" /\ cmd[u] \in Transfers => have'[u] < len[u]
               /\ pc'[u] = "wait" => ans'[u] = None
    BY <1>1 DEF WentOn, Fine, TypeOK, CallOK
  <2>2. QED
    BY <1>1, <2>1 DEF CallOK
<1>4. ObjectsOK'
  BY <1>1 DEF ObjectsOK
<1>5. QueueOK'
  <2>1. ASSUME NEW r \in Message, RequestOK(r) PROVE r.from # t /\ RequestOK(r)'
    BY <1>1, <2>1, SocketAssumption DEF RequestOK, Message, TypeOK
  <2>2. pc'[t] = "wait" => RequestOK(m)'
    BY <1>1, <1>2, SocketAssumption DEF RequestOK, TypeOK, CallOK, ObjectsOK, Makes
  <2>3. \A i \in DOMAIN queue : queue[i] \in Message /\ RequestOK(queue[i])
    BY DEF QueueOK, TypeOK
  <2>4. CASE Added(m) /\ pc'[t] = "wait"
    BY <1>2, <2>1, <2>2, <2>3, <2>4 DEF Added, QueueOK
  <2>5. CASE queue' = queue
    BY <2>1, <2>3, <2>5 DEF QueueOK
  <2>6. QED
    BY <1>2, <2>4, <2>5 DEF Asked, TypeOK
<1>6. Owned'
  <2>1. Added(m) \/ queue' = queue
    BY <1>2 DEF Asked
  <2>2. \A u \in Thread : Fine(u)' => Fine(u) /\ ans'[u] = ans[u]
    BY <1>1 DEF Fine, TypeOK
  <2>3. \A i \in DOMAIN queue' :
          queue'[i].cmd = "close" => i \in DOMAIN queue /\ queue'[i] = queue[i]
    BY <1>2, <2>1 DEF Added
  <2>4. QED
    BY <1>1, <2>2, <2>3 DEF Owned
<1>7. QED
  BY <1>3, <1>4, <1>5, <1>6
\* A call that asks again keeps the types.
LEMMA WentOnTyped ==
  ASSUME IInv, NEW t \in Thread, NEW d, WentOn(t, d),
         out' \in [Thread -> Seq(Bytes)], buf' \in [Thread -> Seq(Bytes)]
  PROVE  TypeOK'
<1> USE DEF IInv
<1>1. UNCHANGED <<gil, cmd, sock, made, len, took, state, fd, again, owner, nonblock, alive, lost>>
  BY DEF WentOn, AskOn, Asked, objects
<1>2. have' \in [Thread -> Nat] /\ ans' = [ans EXCEPT ![t] = None]
  BY DEF WentOn, AskOn, Asked, TypeOK
<1>3. /\ queue' \in Seq(Message) /\ pc' \in [Thread -> {"python", "wait", "back"}]
      /\ \A i \in DOMAIN queue' : queue'[i].cmd \in Transfers => queue'[i].n \in 1..IPCM_MAX_SIZE
  BY DEF WentOn, Asked, Added, TypeOK
<1>4. QED
  BY <1>1, <1>2, <1>3 DEF TypeOK

\* The bytes of other threads, when thread t asks again.
LEMMA OthersWent ==
  ASSUME IInv, NEW t \in Thread, NEW d, WentOn(t, d), NEW u \in Thread \ {t}
  PROVE  UNCHANGED <<pc[u], cmd[u], sock[u], have[u], ans[u], out[u], took[u], buf[u], state>>
BY DEF WentOn, AskOn, Asked, IInv, TypeOK, objects

\* What thread t is about to have when it has asked again.
LEMMA SelfWent ==
  ASSUME IInv, NEW t \in Thread, NEW d, WentOn(t, d)
  PROVE  /\ have'[t] = d /\ ~Fine(t)' /\ pc'[t] # "python"
         /\ UNCHANGED <<cmd[t], sock[t], took[t], again>>
BY DEF WentOn, AskOn, Asked, IInv, TypeOK, objects, Fine

\* One part of a transfer and the next: the bytes of the thread itself.
LEMMA WentOnBytes ==
  ASSUME IInv, NEW t \in Thread, NEW d, WentOn(t, d),
         cmd[t] = "send" /\ state[sock[t]] = "open" /\ ~again => out'[t] = Prefix(sock[t], d),
         cmd[t] \in {"recv", "read"} => took[t] = buf'[t]
  PROVE  Sending' /\ Receiving'
<1> USE DEF IInv
<1>1. ~again => SendingAt(t)'
  BY SelfWent DEF SendingAt, WentOn, AskOn, objects
<1>2. ASSUME NEW u \in Thread \ {t}, SendingAt(u) PROVE SendingAt(u)'
  BY <1>2, OthersWent, SendingStays
<1>3. again' = again
  BY DEF WentOn, AskOn, objects
<1>4. Sending'
  BY <1>1, <1>2, <1>3 DEF Sending
<1>5. Receiving'
  BY SelfWent, OthersWent DEF Receiving, Fine, Received
<1>6. QED
  BY <1>4, <1>5

\* The next part of ipcm_send keeps the inductive invariant.
LEMMA SendKeeps ==
  ASSUME IInv, NEW t \in Thread, ipcm_send(t) PROVE IInv'
<1> USE DEF IInv
<1>1. /\ pc[t] = "back" /\ cmd[t] = "send" /\ Fine(t) /\ Sum(t) \in Nat /\ Sum(t) < len[t]
      /\ AskOn(t, Sum(t)) /\ out' = out /\ buf' = buf
  BY DEF ipcm_send, Fine, Sum, GoesOn, TypeOK
<1>2. WentOn(t, Sum(t))
  BY <1>1, OnWent
<1>3. TypeOK'
  BY <1>1, <1>2, WentOnTyped DEF TypeOK
<1>4. Sending' /\ Receiving'
  BY <1>1, <1>2, WentOnBytes DEF Sending, SendingAt
<1>5. QED
  BY <1>2, <1>3, <1>4, WentOnKeeps

\* The next part of socket_recv or socket_read keeps it.
LEMMA RecvKeeps ==
  ASSUME IInv, NEW t \in Thread, socket_recv(t) PROVE IInv'
<1> USE DEF IInv
<1>1. /\ pc[t] = "back" /\ cmd[t] \in {"recv", "read"} /\ Fine(t)
      /\ Sum(t) \in Nat /\ Sum(t) < len[t] /\ AskOn(t, Sum(t)) /\ out' = out
      /\ buf' = [buf EXCEPT ![t] = Received(t)]
  BY DEF socket_recv, Fine, Sum, GoesOn, TypeOK
<1>2. WentOn(t, Sum(t))
  BY <1>1, OnWent DEF TypeOK
<1>3. Received(t) \in Seq(Bytes)
  BY <1>1 DEF Received, TypeOK, Fine
<1>4. TypeOK'
  BY <1>1, <1>2, <1>3, WentOnTyped DEF TypeOK
<1>5. buf'[t] = took[t]
  BY <1>1 DEF Receiving, TypeOK
<1>6. Sending' /\ Receiving'
  BY <1>1, <1>2, <1>5, WentOnBytes
<1>7. QED
  BY <1>2, <1>4, <1>6, WentOnKeeps

\* F_SETFL after F_GETFL keeps it.
LEMMA FlagsKeep ==
  ASSUME IInv, NEW t \in Thread, SetFlags(t) PROVE IInv'
<1> USE DEF IInv
<1>1. pc[t] = "back" /\ cmd[t] = "setblocking" /\ AskOn(t, 1) /\ out' = out /\ buf' = buf
  BY DEF SetFlags, Fine
<1>2. WentOn(t, 1)
  BY <1>1, OnWent DEF Transfers
<1>3. TypeOK'
  BY <1>1, <1>2, WentOnTyped DEF TypeOK
<1>4. Sending' /\ Receiving'
  BY <1>1, <1>2, WentOnBytes
<1>5. QED
  BY <1>2, <1>3, <1>4, WentOnKeeps

\* A call that is done again after EINTR keeps it: send from its first byte.
LEMMA RepeatKeeps ==
  ASSUME IInv, NEW t \in Thread, Repeat(t) PROVE IInv'
<1> DEFINE d == IF cmd[t] = "send" THEN 0 ELSE have[t]
<1> USE DEF IInv
<1>1. /\ pc[t] = "back" /\ ~Fine(t) /\ cmd[t] \in Retried /\ AskOn(t, d)
      /\ out' = [out EXCEPT ![t] = <<>>] /\ buf' = buf
  BY DEF Repeat
<1>2. d \in Nat /\ (cmd[t] \in Transfers => d < len[t])
  BY <1>1 DEF TypeOK, CallOK
<1>3. \A u \in Thread \ {t} : out'[u] = out[u] /\ buf'[u] = buf[u]
  BY <1>1 DEF TypeOK
<1>4. WentOn(t, d)
  BY <1>1, <1>2, <1>3, OnWent DEF Retried
<1>5. TypeOK'
  <2>1. out' \in [Thread -> Seq(Bytes)] /\ buf' \in [Thread -> Seq(Bytes)]
    BY <1>1 DEF TypeOK
  <2>2. QED
    BY <1>4, <2>1, WentOnTyped
<1>6. cmd[t] = "send" => out'[t] = Prefix(sock[t], d)
  BY <1>1 DEF Prefix, TypeOK
<1>7. cmd[t] \in {"recv", "read"} => took[t] = buf'[t]
  BY <1>1 DEF Receiving
<1>8. Sending' /\ Receiving'
  BY <1>4, <1>6, <1>7, WentOnBytes
<1>9. QED
  BY <1>4, <1>5, <1>8, WentOnKeeps
-----------------------------------------------------------------------------
(* Calls that end or give up, and objects that are forgotten               *)

\* Thread t is out of its call, and the others are where they were.
LEMMA LeaveLeaves ==
  ASSUME TypeOK, NEW t \in Thread, Leave(t)
  PROVE  /\ pc'[t] = "python" /\ sock'[t] = None /\ made'[t] = None /\ have'[t] = 0
         /\ out'[t] = <<>> /\ took'[t] = <<>> /\ buf'[t] = <<>> /\ ~Fine(t)'
         /\ \A u \in Thread \ {t} :
              UNCHANGED <<pc[u], cmd[u], sock[u], made[u], len[u], have[u], ans[u], out[u],
                          took[u], buf[u]>>
         /\ UNCHANGED <<queue, owner, nonblock>>
BY DEF Leave, TypeOK, Fine, server, fate

\* A call that is over keeps the types.
LEMMA LeaveTyped ==
  ASSUME TypeOK, NEW t \in Thread, Leave(t),
         state' \in [Sock -> {"none", "making", "open", "closed"}],
         fd' \in [Sock -> Fd \cup {None}], UNCHANGED again
  PROVE  TypeOK'
<1>1. /\ out' \in [Thread -> Seq(Bytes)] /\ took' \in [Thread -> Seq(Bytes)]
      /\ buf' \in [Thread -> Seq(Bytes)]
  BY DEF Leave, TypeOK
<1>2. ans' \in [Thread -> [ret : Int, data : Seq(Bytes)] \cup {None}]
  BY DEF Leave, TypeOK
<1>3. QED
  BY <1>1, <1>2 DEF Leave, TypeOK, server, fate

\* A call that returns keeps the inductive invariant.
LEMMA ReturnKeeps ==
  ASSUME IInv, NEW t \in Thread, Return(t) PROVE IInv'
<1> DEFINE w == made[t]
<1> USE DEF IInv
<1>1. Leave(t) /\ Fine(t) /\ UNCHANGED again
  BY DEF Return
<1>2. IF w = None THEN UNCHANGED <<state, fd>>
      ELSE /\ w \in Sock /\ state[w] = "making" /\ ans[t].ret \in Fd
           /\ state' = [state EXCEPT ![w] = "open"]
           /\ fd' = [fd EXCEPT ![w] = ans[t].ret]
  BY <1>1 DEF Return, CallOK, TypeOK
<1>3. w # None => \A u \in Thread : sock[u] # w /\ (u # t => made[u] # w)
  BY <1>2, SocketAssumption DEF CallOK
<1> HIDE DEF w
<1>4. TypeOK'
  <2>1. state' \in [Sock -> {"none", "making", "open", "closed"}] /\ fd' \in [Sock -> Fd \cup {None}]
    BY <1>2 DEF TypeOK
  <2>2. QED
    BY <1>1, <2>1, LeaveTyped
<1>5. CallOK'
  <2>1. ASSUME NEW u \in Thread \ {t}
        PROVE  /\ sock[u] # None => sock[u] \in Sock /\ state'[sock[u]] \in {"open", "closed"}
               /\ made[u] # None => made[u] \in Sock /\ state'[made[u]] = "making"
    BY <1>2, <1>3 DEF CallOK, TypeOK
  <2>2. QED
    BY <1>1, <2>1, LeaveLeaves DEF CallOK, Fine
<1>6. ObjectsOK'
  BY <1>2 DEF ObjectsOK, TypeOK
<1>7. QueueOK'
  <2>1. ASSUME NEW r \in Message, RequestOK(r) PROVE RequestOK(r)'
    <3>1. r.from # None =>
            /\ r.from \in Thread \ {t}
            /\ r.cmd # "socket" => fd'[sock[r.from]] = fd[sock[r.from]]
      BY <1>1, <1>2, <1>3, <2>1, SocketAssumption DEF RequestOK, Message, Fine, CallOK, TypeOK
    <3>2. QED
      BY <1>1, <2>1, <3>1, LeaveLeaves DEF RequestOK
  <2>2. QED
    BY <1>1, <2>1, LeaveLeaves, SMTT(40) DEF QueueOK, TypeOK
<1>8. Owned'
  <2>1. ~again => \A p \in Sock : state'[p] = "open" => owner[fd'[p]] = p
    BY <1>1, <1>2 DEF Owned, TypeOK, w
  <2>2. ~again => \A u \in Thread : Fine(u)' /\ made'[u] # None => owner[ans'[u].ret] = made'[u]
    BY <1>1, LeaveLeaves DEF Owned, Fine
  <2>3. \A p \in Sock : state[p] = "closed" => state'[p] = "closed"
    BY <1>2 DEF TypeOK
  <2>4. QED
    BY <1>1, <2>1, <2>2, <2>3, LeaveLeaves DEF Owned
<1>9. Sending'
  <2>1. ASSUME NEW u \in Thread, SendingAt(u) PROVE SendingAt(u)'
    <3>1. CASE u = t
      BY <1>1, <3>1, LeaveLeaves DEF SendingAt
    <3>2. CASE u # t
      <4>1. cmd[u] = "send" /\ pc[u] # "python" /\ state'[sock[u]] = "open" =>
              state[sock[u]] = "open"
        BY <1>2, <1>3 DEF CallOK, TypeOK
      <4>2. QED
        BY <1>1, <2>1, <3>2, <4>1, LeaveLeaves, SendingStays
    <3>3. QED
      BY <3>1, <3>2
  <2>2. QED
    BY <1>1, <2>1 DEF Sending
<1>10. Receiving'
  BY <1>1, LeaveLeaves DEF Receiving, Fine, Received
<1>11. QED
  BY <1>4, <1>5, <1>6, <1>7, <1>8, <1>9, <1>10

\* A call that raises keeps it.
LEMMA RaiseKeeps ==
  ASSUME IInv, NEW t \in Thread, Raise(t) PROVE IInv'
<1> USE DEF IInv
<1>1. /\ Leave(t) /\ pc[t] = "back" /\ UNCHANGED <<fd, again>>
      /\ state' = [o \in Sock |-> IF o = made[t] THEN "none" ELSE state[o]]
  BY DEF Raise
<1>2. TypeOK'
  <2>1. state' \in [Sock -> {"none", "making", "open", "closed"}] /\ fd' \in [Sock -> Fd \cup {None}]
    BY <1>1 DEF TypeOK
  <2>2. QED
    BY <1>1, <2>1, LeaveTyped
<1>3. CallOK'
  <2>1. ASSUME NEW u \in Thread \ {t}
        PROVE  /\ sock[u] # None => sock[u] \in Sock /\ state'[sock[u]] \in {"open", "closed"}
               /\ made[u] # None => made[u] \in Sock /\ state'[made[u]] = "making"
    BY <1>1, SocketAssumption DEF CallOK, TypeOK
  <2>2. QED
    BY <1>1, <2>1, LeaveLeaves DEF CallOK, Fine
<1>4. ObjectsOK'
  BY <1>1 DEF ObjectsOK, TypeOK
<1>5. QueueOK'
  <2>1. ASSUME NEW r \in Message, RequestOK(r) PROVE RequestOK(r)'
    <3>1. r.from # None => r.from \in Thread \ {t}
      BY <1>1, <2>1 DEF RequestOK, Message
    <3>2. QED
      BY <1>1, <2>1, <3>1, LeaveLeaves DEF RequestOK
  <2>2. QED
    BY <1>1, <2>1, LeaveLeaves, SMTT(40) DEF QueueOK, TypeOK
<1>6. Owned'
  <2>1. \A p \in Sock : /\ state'[p] = "open" => state[p] = "open"
                        /\ state[p] = "closed" => state'[p] = "closed"
    <3>1. made[t] \in Sock => state[made[t]] = "making"
      BY SocketAssumption DEF CallOK
    <3>2. QED
      BY <1>1, <3>1
  <2>2. ~again => \A u \in Thread : Fine(u)' /\ made'[u] # None => owner[ans'[u].ret] = made'[u]
    BY <1>1, LeaveLeaves DEF Owned, Fine
  <2>3. QED
    BY <1>1, <2>1, <2>2, LeaveLeaves DEF Owned
<1>7. Sending'
  <2>1. ASSUME NEW u \in Thread, SendingAt(u) PROVE SendingAt(u)'
    <3>1. CASE u = t
      BY <1>1, <3>1, LeaveLeaves DEF SendingAt
    <3>2. CASE u # t
      <4>1. cmd[u] = "send" /\ pc[u] # "python" /\ state'[sock[u]] = "open" =>
              state[sock[u]] = "open"
        BY <1>1 DEF CallOK, TypeOK
      <4>2. QED
        BY <1>1, <2>1, <3>2, <4>1, LeaveLeaves, SendingStays
    <3>3. QED
      BY <3>1, <3>2
  <2>2. QED
    BY <1>1, <2>1 DEF Sending
<1>8. Receiving'
  BY <1>1, LeaveLeaves DEF Receiving, Fine, Received
<1>9. QED
  BY <1>2, <1>3, <1>4, <1>5, <1>6, <1>7, <1>8

\* The request of a waiting call becomes nobody's, and the call gives up or not.
Orphaned(t) ==
  /\ pc[t] = "wait" /\ pc' \in {pc, [pc EXCEPT ![t] = "back"]}
  /\ queue' = [i \in DOMAIN queue |-> Orphan(t, queue[i])]
  /\ lost' \subseteq Thread
  /\ UNCHANGED <<gil, cmd, sock, made, len, have, ans, out, took, buf, state, fd, again, owner,
                 nonblock, alive>>

\* A request that becomes nobody's keeps it.
LEMMA OrphanKeeps ==
  ASSUME IInv, NEW t \in Thread, Orphaned(t) PROVE IInv'
<1> USE DEF IInv
<1>1. /\ pc[t] = "wait" /\ pc'[t] \in {"wait", "back"} /\ \A u \in Thread \ {t} : pc'[u] = pc[u]
      /\ pc' \in [Thread -> {"python", "wait", "back"}]
      /\ queue' = [i \in DOMAIN queue |-> Orphan(t, queue[i])]
      /\ lost' \subseteq Thread
      /\ UNCHANGED <<gil, cmd, sock, made, len, have, ans, out, took, buf, state, fd, again, owner,
                     nonblock, alive>>
  BY DEF Orphaned, TypeOK
<1>2. ASSUME NEW r \in Message
      PROVE  /\ Orphan(t, r) \in Message /\ Orphan(t, r).cmd = r.cmd
             /\ Orphan(t, r).fd = r.fd /\ Orphan(t, r).made = r.made /\ Orphan(t, r).n = r.n
             /\ Orphan(t, r).at = r.at
             /\ Orphan(t, r).from = IF r.from = t THEN None ELSE r.from
  BY DEF Orphan, Message
<1>3. queue' \in Seq(Message) /\ DOMAIN queue' = DOMAIN queue
  <2>1. DOMAIN queue = 1..Len(queue) /\ Len(queue) \in Nat
    BY LenProperties DEF TypeOK
  <2>2. \A i \in DOMAIN queue : Orphan(t, queue[i]) \in Message
    BY <1>2, <2>1, ElementOfSeq DEF TypeOK
  <2>3. queue' = [i \in 1..Len(queue) |-> Orphan(t, queue[i])]
    BY <1>1, <2>1
  <2>4. QED
    BY <2>1, <2>2, <2>3
<1>4. \A i \in DOMAIN queue : queue[i] \in Message /\ queue'[i] = Orphan(t, queue[i])
  BY <1>1 DEF TypeOK
<1>5. ~Fine(t)' /\ \A u \in Thread : Fine(u)' => Fine(u)
  BY <1>1 DEF Fine, CallOK, TypeOK
<1>6. TypeOK'
  <2>1. \A i \in DOMAIN queue : queue'[i].cmd = queue[i].cmd /\ queue'[i].n = queue[i].n
    BY <1>2, <1>4
  <2>2. \A i \in DOMAIN queue : queue[i].cmd \in Transfers => queue[i].n \in 1..IPCM_MAX_SIZE
    BY DEF TypeOK
  <2>3. \A i \in DOMAIN queue' : queue'[i].cmd \in Transfers => queue'[i].n \in 1..IPCM_MAX_SIZE
    BY <1>3, <2>1, <2>2
  <2>4. QED
    BY <1>1, <1>3, <2>3 DEF TypeOK
<1>7. CallOK' /\ ObjectsOK'
  BY <1>1, <1>5 DEF CallOK, ObjectsOK, TypeOK
<1>8. QueueOK'
  <2>1. ASSUME NEW r \in Message, RequestOK(r) PROVE RequestOK(Orphan(t, r))'
    <3>1. r.from # None => r.from \in Thread
      BY <2>1 DEF Message
    <3>2. r.from # None /\ r.from # t => pc'[r.from] = pc[r.from]
      BY <1>1, <3>1
    <3>3. QED
      BY <1>1, <1>2, <2>1, <3>2, SMTT(40) DEF RequestOK
  <2>2. (\A i \in DOMAIN queue : RequestOK(queue[i]))'
    BY <1>3, <1>4, <2>1 DEF QueueOK
  <2>3. \A i, j \in DOMAIN queue' :
          queue'[i].from = queue'[j].from /\ queue'[i].from # None => i = j
    BY <1>2, <1>3, <1>4 DEF QueueOK
  <2>4. QED
    BY <2>2, <2>3 DEF QueueOK
<1>9. Owned'
  BY <1>1, <1>2, <1>3, <1>4, <1>5 DEF Owned
<1>10. Sending'
  <2>1. ASSUME NEW u \in Thread, SendingAt(u) PROVE SendingAt(u)'
    BY <1>1, <1>5, <2>1 DEF SendingAt, TypeOK, Sum
  <2>2. QED
    BY <1>1, <2>1 DEF Sending
<1>11. Receiving'
  BY <1>1, <1>5 DEF Receiving, TypeOK, Fine, Received, CallOK
<1>12. QED
  BY <1>6, <1>7, <1>8, <1>9, <1>10, <1>11

\* A call that gives up keeps it: its request stays, with nobody to answer.
LEMMA ExpireKeeps ==
  ASSUME IInv, NEW t \in Thread, Expire(t) PROVE IInv'
<1>1. Orphaned(t)
  BY DEF Expire, Orphaned, objects, IInv, TypeOK
<1>2. QED
  BY <1>1, OrphanKeeps

\* An answer that will not be sent keeps it: its thread waits, with no request.
LEMMA LoseKeeps ==
  ASSUME IInv, LoseAnswer PROVE IInv'
<1>1. 1 \in DOMAIN queue /\ busy = queue[1] /\ busy \in Message /\ RequestOK(busy)
  <2>1. queue \in Seq(Message) /\ queue # <<>>
    BY DEF LoseAnswer, IInv, TypeOK
  <2>2. 1 \in DOMAIN queue /\ busy = queue[1] /\ busy \in Message
    BY <2>1 DEF busy
  <2>3. QED
    BY <2>2 DEF IInv, QueueOK
<1>2. busy.from \in Thread /\ pc[busy.from] = "wait"
  BY <1>1 DEF LoseAnswer, RequestOK, Message
<1>3. Orphaned(busy.from)
  BY <1>2 DEF LoseAnswer, Orphaned, calls, objects, IInv, TypeOK
<1>4. QED
  BY <1>2, <1>3, OrphanKeeps

\* An object that is forgotten keeps it: its descriptor is nobody's.
LEMMA ForgetKeeps ==
  ASSUME IInv, NEW o \in Sock, Forget(o) PROVE IInv'
<1> USE DEF IInv
<1>1. /\ state[o] \in {"open", "closed"} /\ \A t \in Thread : sock[t] # o /\ made[t] # o
      /\ state' = [state EXCEPT ![o] = "none"] /\ fd' = [fd EXCEPT ![o] = None]
      /\ owner' = [f \in Fd |-> IF owner[f] = o THEN Leaked ELSE owner[f]]
      /\ UNCHANGED <<gil, pc, cmd, sock, made, len, have, ans, out, took, buf, again, queue,
                     nonblock, alive, lost>>
  BY DEF Forget, calls, fate
<1>2. TypeOK'
  BY <1>1 DEF TypeOK
<1>3. CallOK'
  BY <1>1 DEF CallOK, Fine, TypeOK
<1>4. ObjectsOK'
  BY <1>1 DEF ObjectsOK, TypeOK
<1>5. QueueOK'
  <2>1. ASSUME NEW r \in Message, RequestOK(r) PROVE RequestOK(r)'
    <3>1. r.from # None => r.from \in Thread /\ pc[r.from] # "python"
      BY <2>1 DEF RequestOK, Message
    <3>2. r.from # None /\ r.cmd # "socket" => fd'[sock[r.from]] = fd[sock[r.from]]
      BY <1>1, <2>1, <3>1 DEF RequestOK, CallOK, TypeOK
    <3>3. QED
      BY <1>1, <2>1, <3>2 DEF RequestOK
  <2>2. QED
    BY <1>1, <2>1 DEF QueueOK, TypeOK
<1>6. Owned'
  <2>1. \A p \in Sock : state'[p] = "open" => state[p] = "open" /\ p # o /\ fd'[p] = fd[p]
    BY <1>1 DEF TypeOK
  <2>2. \A f \in Fd : /\ owner[f] # o => owner'[f] = owner[f]
                      /\ owner[f] = o => owner'[f] = Leaked
    BY <1>1
  <2>3. ~again => \A p \in Sock : state'[p] = "open" => owner'[fd'[p]] = p
    BY <2>1, <2>2 DEF Owned, ObjectsOK
  <2>4. ~again => \A t \in Thread : Fine(t) /\ made[t] # None => owner'[ans[t].ret] = made[t]
    BY <1>1, <2>2 DEF Owned, CallOK
  <2>5. ~again => \A i \in DOMAIN queue : queue[i].cmd = "close" =>
          \/ owner'[queue[i].fd] = Leaked
          \/ owner'[queue[i].fd] \in Sock /\ state'[owner'[queue[i].fd]] = "closed"
    BY <1>1, <2>2 DEF Owned, QueueOK, RequestOK, TypeOK
  <2>6. QED
    BY <1>1, <2>3, <2>4, <2>5 DEF Owned, Fine
<1>7. Sending'
  <2>1. ASSUME NEW u \in Thread, SendingAt(u) PROVE SendingAt(u)'
    <3>1. state'[sock[u]] = "open" => state[sock[u]] = "open"
      BY <1>1 DEF CallOK, TypeOK
    <3>2. QED
      BY <1>1, <2>1, <3>1, SendingStays
  <2>2. QED
    BY <1>1, <2>1 DEF Sending
<1>8. Receiving'
  BY <1>1 DEF Receiving, Fine, Received
<1>9. QED
  BY <1>2, <1>3, <1>4, <1>5, <1>6, <1>7, <1>8

-----------------------------------------------------------------------------
(* The server                                                              *)

\* The server has answered the request at the head; t waited for it.
Answered(ret, data) ==
  /\ Taken /\ queue' \in Seq(Message) /\ busy \in Message /\ RequestOK(busy)
  /\ IF busy.from = None THEN UNCHANGED <<pc, ans>>
     ELSE /\ pc' = [pc EXCEPT ![busy.from] = "back"]
          /\ ans' = [ans EXCEPT ![busy.from] = [ret |-> ret, data |-> data]]
  /\ UNCHANGED <<gil, cmd, sock, made, len, have, buf, state, fd, again, alive, lost>>

\* Reply, in the terms of the messages it takes.
LEMMA ReplyAnswers ==
  ASSUME IInv, queue # <<>>, NEW ret \in Int, NEW data \in Seq(Bytes), Reply(ret, data)
  PROVE  Answered(ret, data)
<1>1. Taken /\ queue' \in Seq(Message) /\ busy \in Message
  BY TailTakes DEF IInv, TypeOK, Reply
<1>2. RequestOK(busy)
  BY <1>1 DEF IInv, QueueOK, Taken
<1>3. QED
  BY <1>1, <1>2 DEF Answered, Reply, objects, fate

\* What an answer leaves as it should be: everything but the descriptors.
LEMMA AnsweredKeeps ==
  ASSUME IInv, NEW ret \in Int, NEW data \in Seq(Bytes), Answered(ret, data),
         out' \in [Thread -> Seq(Bytes)], took' \in [Thread -> Seq(Bytes)],
         owner' \in [Fd -> Sock \cup {Free, Leaked}], nonblock' \in [Fd -> BOOLEAN],
         busy.from # None /\ busy.made # None /\ ret >= 0 => ret \in Fd,
         \A u \in Thread : u # busy.from => out'[u] = out[u] /\ took'[u] = took[u],
         busy.from # None /\ busy.cmd = "send" /\ ret >= 0
           /\ state[sock[busy.from]] = "open" /\ ~again =>
             out'[busy.from] = Prefix(sock[busy.from], have[busy.from] + ret),
         busy.from # None /\ busy.cmd \in {"recv", "read"} =>
           took'[busy.from] = IF ret >= 0 THEN buf[busy.from] \o data ELSE buf[busy.from]
  PROVE  TypeOK' /\ CallOK' /\ ObjectsOK' /\ QueueOK' /\ Sending' /\ Receiving'
<1> DEFINE t == busy.from
           r == [ret |-> ret, data |-> data]
<1> USE DEF IInv
<1>1. r \in [ret : Int, data : Seq(Bytes)] /\ r # None /\ r.ret = ret /\ r.data = data
  BY SocketAssumption DEF Bytes, Connection
<1>2. \A i \in DOMAIN queue' : i + 1 \in DOMAIN queue /\ i + 1 # 1 /\ queue'[i] = queue[i + 1]
  BY DEF Answered, Taken
<1>3. /\ t # None => /\ t \in Thread /\ pc[t] = "wait" /\ busy.cmd = cmd[t]
                     /\ busy.made = made[t] /\ busy.at = have[t]
      /\ UNCHANGED <<gil, cmd, sock, made, len, have, buf, state, fd, again, alive, lost>>
  BY DEF Answered, RequestOK, Message
<1>4. ASSUME NEW u \in Thread, u # t
      PROVE  UNCHANGED <<pc[u], ans[u], out[u], took[u]>>
  BY <1>4 DEF Answered, TypeOK
<1>5. t # None => pc'[t] = "back" /\ ans'[t] = r
  BY <1>3 DEF Answered, TypeOK
<1> HIDE DEF r, t
<1>6. \A u \in Thread : Fine(u)' = IF u = t THEN ret >= 0 ELSE Fine(u)
  BY <1>1, <1>3, <1>4, <1>5, SocketAssumption DEF Fine
<1>7. TypeOK'
  <2>1. pc' \in [Thread -> {"python", "wait", "back"}]
    BY <1>3 DEF Answered, TypeOK, t
  <2> DEFINE A == [ret : Int, data : Seq(Bytes)] \cup {None}
  <2>4. ans \in [Thread -> A] /\ r \in A
    BY <1>1 DEF TypeOK
  <2>5. ans' = ans \/ (t \in Thread /\ ans' = [ans EXCEPT ![t] = r])
    BY <1>3 DEF Answered, r, t
  <2> HIDE DEF A
  <2>6. ans' \in [Thread -> A]
    BY <2>4, <2>5
  <2> USE DEF A
  <2>2. \A i \in DOMAIN queue' : queue'[i].cmd \in Transfers => queue'[i].n \in 1..IPCM_MAX_SIZE
    BY <1>2 DEF TypeOK
  <2>3. queue' \in Seq(Message)
    BY DEF Answered
  <2>7. QED
    BY <1>3, <2>1, <2>2, <2>3, <2>6 DEF TypeOK
<1>8. CallOK'
  <2>1. ASSUME NEW u \in Thread
        PROVE  /\ pc'[u] = "python" => pc[u] = "python" /\ out'[u] = out[u] /\ took'[u] = took[u]
               /\ pc'[u] = "wait" => pc[u] = "wait" /\ ans'[u] = ans[u]
               /\ pc'[u] # "python" => pc[u] # "python"
               /\ Fine(u)' /\ made[u] # None => ans'[u].ret \in Fd
    <3>1. CASE u = t
      BY <1>1, <1>3, <1>5, <1>6, <3>1, SocketAssumption DEF t
    <3>2. CASE u # t
      BY <1>4, <1>6, <3>2 DEF CallOK
    <3>3. QED
      BY <3>1, <3>2
  <2>2. ASSUME NEW u \in Thread
        PROVE  /\ pc'[u] = "python" => /\ sock'[u] = None /\ made'[u] = None /\ have'[u] = 0
                                       /\ out'[u] = <<>> /\ took'[u] = <<>> /\ buf'[u] = <<>>
               /\ pc'[u] # "python" =>
                    /\ cmd'[u] \in Call
                    /\ cmd'[u] # "socket" => sock'[u] \in Sock
                    /\ IF cmd'[u] \in Makes THEN made'[u] \in Sock ELSE made'[u] = None
                    /\ cmd'[u] \in Transfers => have'[u] < len'[u]
               /\ pc'[u] = "wait" => ans'[u] = None
    BY <1>3, <2>1, ZenonT(60) DEF CallOK
  <2>3. ASSUME NEW u \in Thread
        PROVE  /\ sock'[u] # None => state'[sock'[u]] \in {"open", "closed"}
               /\ made'[u] # None => state'[made'[u]] = "making"
               /\ made'[u] # None => \A v \in Thread : made'[v] = made'[u] => v = u
    BY <1>3 DEF CallOK
  <2>4. QED
    BY <1>3, <2>1, <2>2, <2>3 DEF CallOK
<1>9. ObjectsOK'
  BY <1>3 DEF ObjectsOK
<1>10. QueueOK'
  <2>1. ASSUME NEW m \in Message, RequestOK(m), m.from # t \/ m.from = None PROVE RequestOK(m)'
    <3>1. m.from # None => m.from \in Thread /\ m.from # t
      BY <2>1 DEF Message
    <3>2. QED
      BY <1>3, <1>4, <2>1, <3>1 DEF RequestOK
  <2>2. ASSUME NEW i \in DOMAIN queue, i # 1
        PROVE  queue[i] \in Message /\ RequestOK(queue[i]) /\ (queue[i].from # t \/ queue[i].from = None)
    BY <2>2 DEF QueueOK, TypeOK, Answered, Taken, t
  <2>3. (\A i \in DOMAIN queue : RequestOK(queue[i]))'
    BY <1>2, <2>1, <2>2
  <2>4. \A i, j \in DOMAIN queue' :
          queue'[i].from = queue'[j].from /\ queue'[i].from # None => i = j
    <3>1. ASSUME NEW i \in DOMAIN queue', NEW j \in DOMAIN queue',
                 queue'[i].from = queue'[j].from, queue'[i].from # None
          PROVE  i = j
      <4>1. i + 1 = j + 1
        BY <1>2, <3>1 DEF QueueOK
      <4>2. i \in Int /\ j \in Int
        BY DEF Answered, Taken
      <4>3. QED
        BY <4>1, <4>2
    <3>2. QED
      BY <3>1
  <2>5. QED
    BY <2>3, <2>4 DEF QueueOK
<1>11. Sending'
  <2>1. ASSUME NEW u \in Thread, u # t, SendingAt(u) PROVE SendingAt(u)'
    BY <1>3, <1>4, <2>1, SendingStays
  <2>2. ASSUME NEW u \in Thread, u = t, ~again PROVE SendingAt(u)'
    <3>1. u # None /\ pc'[u] = "back" /\ ans'[u].ret = ret /\ cmd'[u] = busy.cmd
      BY <1>1, <1>3, <1>5, <2>2, SocketAssumption DEF t
    <3>2. Fine(u)' => ret >= 0
      BY <1>6, <2>2
    <3>3. UNCHANGED <<have, sock, state>>
      BY <1>3
    <3>4. Fine(u)' /\ cmd'[u] = "send" /\ state'[sock'[u]] = "open" =>
            out'[u] = Prefix(sock'[u], have'[u] + ans'[u].ret)
      BY <2>2, <3>1, <3>2, <3>3 DEF t
    <3>5. QED
      BY <3>1, <3>4 DEF SendingAt, Sum
  <2>3. again' = again
    BY <1>3
  <2>4. ~again => \A u \in Thread : SendingAt(u)'
    BY <2>1, <2>2 DEF Sending
  <2>5. QED
    BY <2>3, <2>4 DEF Sending
<1>12. Receiving'
  <2>1. ASSUME NEW u \in Thread, pc'[u] # "python", cmd'[u] \in {"recv", "read"}
        PROVE  took'[u] = IF Fine(u)' THEN Received(u)' ELSE buf'[u]
    <3>1. CASE u = t
      BY <1>1, <1>3, <1>5, <1>6, <2>1, <3>1, SocketAssumption DEF Received, t
    <3>2. CASE u # t
      BY <1>3, <1>4, <1>6, <2>1, <3>2 DEF Receiving, Received
    <3>3. QED
      BY <3>1, <3>2
  <2>2. QED
    BY <2>1 DEF Receiving
<1>13. QED
  BY <1>7, <1>8, <1>9, <1>10, <1>11, <1>12

\* What an answer leaves of the descriptors, of which only g may change hands.
LEMMA AnsweredOwned ==
  ASSUME IInv, NEW ret \in Int, NEW data \in Seq(Bytes), Answered(ret, data),
         NEW g, \A f \in Fd : f # g => owner'[f] = owner[f],
         busy.from # None /\ busy.made # None /\ ret >= 0 =>
           ret \in Fd /\ owner'[ret] = busy.made,
         ~again => /\ \A o \in Sock : state[o] = "open" => fd[o] # g
                   /\ \A u \in Thread : Fine(u) /\ made[u] # None => ans[u].ret # g
                   /\ \A i \in DOMAIN queue : i # 1 /\ queue[i].cmd = "close" => queue[i].fd # g
  PROVE  Owned'
<1> USE DEF IInv
<1>1. \A i \in DOMAIN queue' : i + 1 \in DOMAIN queue /\ i + 1 # 1 /\ queue'[i] = queue[i + 1]
  BY DEF Answered, Taken
<1>2. /\ busy.from # None => busy.from \in Thread /\ busy.made = made[busy.from]
      /\ UNCHANGED <<made, state, fd, again>>
  BY DEF Answered, RequestOK, Message
<1>3. ASSUME NEW u \in Thread, u # busy.from
      PROVE  UNCHANGED <<pc[u], ans[u]>>
  BY <1>2, <1>3 DEF Answered, TypeOK
<1>4. \A o \in Sock : ~again /\ state'[o] = "open" => owner'[fd'[o]] = o
  BY <1>2 DEF Owned, ObjectsOK
<1>5. ASSUME NEW u \in Thread, ~again, Fine(u)', made'[u] # None PROVE owner'[ans'[u].ret] = made'[u]
  <2>1. CASE u = busy.from
    <3>1. ans'[u] = [ret |-> ret, data |-> data] /\ busy.made = made[u] /\ u # None
      BY <1>2, <2>1, SocketAssumption DEF Answered, TypeOK
    <3>2. ans'[u].ret = ret /\ ret >= 0
      BY <1>5, <3>1 DEF Fine
    <3>3. QED
      BY <1>2, <1>5, <2>1, <3>1, <3>2
  <2>2. CASE u # busy.from
    <3>1. Fine(u) /\ made[u] # None /\ ans'[u] = ans[u] /\ made'[u] = made[u]
      BY <1>2, <1>3, <1>5, <2>2 DEF Fine
    <3>2. ans[u].ret \in Fd /\ owner[ans[u].ret] = made[u]
      BY <1>5, <3>1 DEF CallOK, Owned
    <3>3. QED
      BY <1>5, <3>1, <3>2
  <2>3. QED
    BY <2>1, <2>2
<1>6. ASSUME NEW i \in DOMAIN queue', ~again, queue'[i].cmd = "close"
      PROVE  \/ owner'[queue'[i].fd] = Leaked
             \/ owner'[queue'[i].fd] \in Sock /\ state'[owner'[queue'[i].fd]] = "closed"
  <2>1. queue'[i].fd \in Fd /\ queue'[i].fd # g
    BY <1>1, <1>6 DEF QueueOK, RequestOK
  <2>2. \/ owner[queue'[i].fd] = Leaked
        \/ owner[queue'[i].fd] \in Sock /\ state[owner[queue'[i].fd]] = "closed"
    BY <1>1, <1>6 DEF Owned
  <2>3. QED
    BY <1>2, <2>1, <2>2
<1>7. ASSUME NEW i \in DOMAIN queue', NEW j \in DOMAIN queue', ~again,
             queue'[i].cmd = "close", queue'[j].cmd = "close", queue'[i].fd = queue'[j].fd
      PROVE  i = j
  <2>1. i + 1 = j + 1
    BY <1>1, <1>7 DEF Owned
  <2>2. i \in Int /\ j \in Int
    BY DEF Answered, Taken
  <2>3. QED
    BY <2>1, <2>2
<1>8. again' = again
  BY <1>2
<1>9. QED
  BY <1>4, <1>5, <1>6, <1>7, <1>8 DEF Owned

\* The handlers that give no descriptor and close none.
LEMMA AnsweredOnly ==
  ASSUME IInv, NEW ret \in Int, NEW data \in Seq(Bytes), Answered(ret, data),
         owner' = owner, busy.cmd \notin Makes \/ ret < 0
  PROVE  /\ busy.from # None /\ busy.made # None => ret < 0
         /\ Owned'
<1>1. busy.from # None /\ busy.made # None => ret < 0
  BY SocketAssumption DEF Answered, RequestOK, IInv, CallOK, Message
<1>2. \A f \in Fd : f # None
  BY SocketAssumption
<1>3. /\ \A o \in Sock : state[o] = "open" => fd[o] # None
      /\ \A u \in Thread : Fine(u) /\ made[u] # None => ans[u].ret # None
      /\ \A i \in DOMAIN queue : queue[i].cmd = "close" => queue[i].fd # None
  BY <1>2 DEF IInv, ObjectsOK, CallOK, QueueOK, RequestOK
<1>4. busy.from # None /\ busy.made # None /\ ret >= 0 => ret \in Fd /\ owner'[ret] = busy.made
  BY <1>1
<1>5. Owned'
  BY <1>3, <1>4, AnsweredOwned
<1>6. QED
  BY <1>1, <1>5

\* A new descriptor keeps the inductive invariant.
LEMMA MakeKeeps ==
  ASSUME IInv, mcsk_srv_proc_make PROVE IInv'
<1> USE DEF IInv
<1>1. PICK f \in Fd :
        /\ owner[f] = Free
        /\ owner' = [owner EXCEPT ![f] = IF busy.from = None THEN Leaked ELSE busy.made]
        /\ Reply(f, <<>>)
  BY DEF mcsk_srv_proc_make, Lowest
<1>2. queue # <<>> /\ busy.cmd \in Makes /\ UNCHANGED <<out, took, nonblock>>
  BY DEF mcsk_srv_proc_make, Serving, Makes
<1>3. f \in Int /\ <<>> \in Seq(Bytes)
  BY SocketAssumption
<1>4. Answered(f, <<>>)
  BY <1>1, <1>2, <1>3, ReplyAnswers
<1>5. busy.made \in Sock
  BY <1>2, <1>4 DEF Answered, RequestOK
<1>6. owner' \in [Fd -> Sock \cup {Free, Leaked}]
  BY <1>1, <1>5 DEF TypeOK
<1>7. TypeOK' /\ CallOK' /\ ObjectsOK' /\ QueueOK' /\ Sending' /\ Receiving'
  <2>1. /\ out' \in [Thread -> Seq(Bytes)] /\ took' \in [Thread -> Seq(Bytes)]
        /\ nonblock' \in [Fd -> BOOLEAN]
    BY <1>2 DEF TypeOK
  <2>2. busy.cmd # "send" /\ busy.cmd \notin {"recv", "read"}
    BY <1>2 DEF Makes
  <2>3. QED
    BY <1>2, <1>3, <1>4, <1>6, <2>1, <2>2, AnsweredKeeps
<1>8. Owned'
  <2>1. /\ \A h \in Fd : h # f => owner'[h] = owner[h]
        /\ busy.from # None => owner'[f] = busy.made
    BY <1>1 DEF TypeOK
  <2>2. ~again => /\ \A o \in Sock : state[o] = "open" => fd[o] # f
                  /\ \A u \in Thread : Fine(u) /\ made[u] # None => ans[u].ret # f
                  /\ \A i \in DOMAIN queue : i # 1 /\ queue[i].cmd = "close" => queue[i].fd # f
    BY <1>1, SocketAssumption DEF Owned, TypeOK
  <2>3. QED
    BY <1>3, <1>4, <2>1, <2>2, AnsweredOwned
<1>9. QED
  BY <1>7, <1>8

\* A close keeps it: the descriptor is of no open object and in no other close.
LEMMA CloseKeeps ==
  ASSUME IInv, mcsk_srv_proc_close PROVE IInv'
<1> USE DEF IInv
<1>1. /\ queue # <<>> /\ busy.cmd = "close" /\ Reply(0, <<>>) /\ UNCHANGED <<out, took>>
      /\ owner' = [owner EXCEPT ![busy.fd] = Free]
      /\ nonblock' = [nonblock EXCEPT ![busy.fd] = FALSE]
  BY DEF mcsk_srv_proc_close, Serving
<1>2. 0 \in Int /\ <<>> \in Seq(Bytes) /\ Answered(0, <<>>)
  <2>1. 0 \in Int /\ <<>> \in Seq(Bytes)
    OBVIOUS
  <2>2. QED
    BY <1>1, <2>1, ReplyAnswers
<1>3. /\ busy.fd \in Fd /\ 1 \in DOMAIN queue /\ busy = queue[1]
      /\ busy.from # None => busy.made = None
  BY <1>1, <1>2 DEF Answered, RequestOK, Taken, CallOK, Makes, Message
<1>4. TypeOK' /\ CallOK' /\ ObjectsOK' /\ QueueOK' /\ Sending' /\ Receiving'
  <2>1. /\ out' \in [Thread -> Seq(Bytes)] /\ took' \in [Thread -> Seq(Bytes)]
        /\ nonblock' \in [Fd -> BOOLEAN] /\ owner' \in [Fd -> Sock \cup {Free, Leaked}]
    BY <1>1 DEF TypeOK
  <2>2. busy.cmd # "send" /\ busy.cmd \notin {"recv", "read"}
    BY <1>1
  <2>3. QED
    BY <1>1, <1>2, <1>3, <2>1, <2>2, AnsweredKeeps
<1>5. Owned'
  <2>1. \A h \in Fd : h # busy.fd => owner'[h] = owner[h]
    BY <1>1 DEF TypeOK
  <2>2. ~again => \/ owner[busy.fd] = Leaked
                  \/ owner[busy.fd] \in Sock /\ state[owner[busy.fd]] = "closed"
    BY <1>1, <1>3 DEF Owned
  <2>3. ~again => /\ \A o \in Sock : state[o] = "open" => fd[o] # busy.fd
                  /\ \A i \in DOMAIN queue : i # 1 /\ queue[i].cmd = "close" => queue[i].fd # busy.fd
    BY <1>1, <1>3, <2>2, SocketAssumption DEF Owned
  <2>4. ~again => \A u \in Thread : Fine(u) /\ made[u] # None => ans[u].ret # busy.fd
    <3>1. \A u \in Thread : made[u] # None => made[u] \in Sock /\ state[made[u]] = "making"
      BY DEF CallOK, TypeOK
    <3>2. QED
      BY <2>2, <3>1, SocketAssumption DEF Owned
  <2>5. QED
    BY <1>2, <1>3, <2>1, <2>3, <2>4, AnsweredOwned, ZenonT(60)
<1>6. QED
  BY <1>4, <1>5

\* Bytes that go to the network keep it: they continue those of the call.
LEMMA SrvSendKeeps ==
  ASSUME IInv, mcsk_srv_proc_send PROVE IInv'
<1> USE DEF IInv
<1>1. PICK k \in 1..busy.n :
        /\ out' = [t \in Thread |-> out[t] \o
                     IF t # busy.from THEN <<>>
                     ELSE [i \in 1..k |-> <<owner[busy.fd], busy.at + i>>]]
        /\ Reply(k, <<>>)
  BY DEF mcsk_srv_proc_send
<1>2. /\ queue # <<>> /\ busy.cmd = "send" /\ owner[busy.fd] # Free
      /\ UNCHANGED <<took, owner, nonblock>>
  BY DEF mcsk_srv_proc_send, Serving
<1>3. busy \in Message
  BY <1>1, <1>2, TailTakes DEF TypeOK, Reply
<1>4. k \in Nat /\ k \in Int /\ <<>> \in Seq(Bytes)
  BY <1>3 DEF Message
<1>5. Answered(k, <<>>)
  BY <1>1, <1>2, <1>4, ReplyAnswers
<1>6. /\ busy.fd \in Fd /\ busy.at \in Nat
      /\ busy.from # None => /\ busy.from \in Thread /\ busy.made = None /\ busy.cmd = cmd[busy.from]
                             /\ pc[busy.from] = "wait" /\ busy.at = have[busy.from]
                             /\ busy.fd = fd[sock[busy.from]] /\ sock[busy.from] \in Sock
  BY <1>2, <1>3, <1>5 DEF Answered, RequestOK, CallOK, Makes, Message
<1> DEFINE new == [i \in 1..k |-> <<owner[busy.fd], busy.at + i>>]
<1>7. new \in Seq(Bytes)
  <2>1. owner[busy.fd] \in Connection
    BY <1>2, <1>6 DEF TypeOK, Connection
  <2>2. \A i \in 1..k : <<owner[busy.fd], busy.at + i>> \in Bytes
    BY <1>6, <2>1 DEF Bytes
  <2>3. QED
    BY <1>4, <2>2
<1> HIDE DEF new
<1>8. /\ \A u \in Thread : out[u] \in Seq(Bytes)
      /\ \A u \in Thread : out'[u] = out[u] \o IF u # busy.from THEN <<>> ELSE new
      /\ DOMAIN out' = Thread /\ out' = [u \in Thread |-> out'[u]]
  BY <1>1 DEF TypeOK, new
<1>9. /\ out' \in [Thread -> Seq(Bytes)]
      /\ \A u \in Thread : u # busy.from => out'[u] = out[u]
      /\ \A u \in Thread : u = busy.from => out'[u] = out[u] \o new
  <2>1. ASSUME NEW u \in Thread PROVE out'[u] \in Seq(Bytes) /\ (u # busy.from => out'[u] = out[u])
    <3>1. CASE u = busy.from
      <4>1. out[u] \o new \in Seq(Bytes)
        BY <1>7, <1>8, ConcatProperties
      <4>2. QED
        BY <1>8, <3>1, <4>1
    <3>2. CASE u # busy.from
      BY <1>8, <3>2, ConcatEmptySeq
    <3>3. QED
      BY <3>1, <3>2
  <2>2. QED
    BY <1>8, <2>1
<1>10. busy.from # None /\ state[sock[busy.from]] = "open" /\ ~again =>
         out'[busy.from] = Prefix(sock[busy.from], have[busy.from] + k)
  <2> SUFFICES ASSUME busy.from # None, state[sock[busy.from]] = "open", ~again
               PROVE  out'[busy.from] = Prefix(sock[busy.from], have[busy.from] + k)
    OBVIOUS
  <2>1. owner[busy.fd] = sock[busy.from]
    BY <1>6 DEF Owned
  <2>2. out[busy.from] = Prefix(sock[busy.from], have[busy.from])
    BY <1>2, <1>6 DEF Sending, SendingAt
  <2>3. new = [i \in 1..k |-> <<sock[busy.from], have[busy.from] + i>>] /\ have[busy.from] \in Nat
    BY <1>6, <2>1 DEF new
  <2>4. Prefix(sock[busy.from], have[busy.from]) \o new
          = Prefix(sock[busy.from], have[busy.from] + k)
    BY <1>4, <2>3, PrefixGrows
  <2>5. QED
    BY <1>6, <1>9, <2>2, <2>4
<1>11. Owned'
  BY <1>2, <1>4, <1>5, AnsweredOnly DEF Makes
<1>12. TypeOK' /\ CallOK' /\ ObjectsOK' /\ QueueOK' /\ Sending' /\ Receiving'
  <2>1. /\ took' \in [Thread -> Seq(Bytes)] /\ nonblock' \in [Fd -> BOOLEAN]
        /\ owner' \in [Fd -> Sock \cup {Free, Leaked}]
        /\ \A u \in Thread : took'[u] = took[u]
    BY <1>2 DEF TypeOK
  <2>2. QED
    BY <1>2, <1>4, <1>5, <1>6, <1>9, <1>10, <2>1, AnsweredKeeps
<1>13. QED
  BY <1>11, <1>12

\* The handlers that change neither descriptors nor the bytes read or sent.
LEMMA QuietKeeps ==
  ASSUME IInv, NEW ret \in Int, queue # <<>>, Reply(ret, <<>>),
         UNCHANGED <<out, took, owner>>, nonblock' \in [Fd -> BOOLEAN],
         busy.cmd \notin Makes \cup {"send"} \/ ret < 0
  PROVE  IInv'
<1> USE DEF IInv
<1>1. <<>> \in Seq(Bytes)
  OBVIOUS
<1>2. Answered(ret, <<>>)
  BY <1>1, ReplyAnswers
<1>3. Owned' /\ (busy.from # None /\ busy.made # None => ret < 0)
  BY <1>1, <1>2, AnsweredOnly
<1>4. ASSUME busy.from # None, busy.cmd \in {"recv", "read"}
      PROVE  took[busy.from] = IF ret >= 0 THEN buf[busy.from] \o <<>> ELSE buf[busy.from]
  <2>1. busy.from \in Thread /\ pc[busy.from] = "wait" /\ busy.cmd = cmd[busy.from]
    BY <1>2, <1>4 DEF Answered, RequestOK, Message
  <2>2. took[busy.from] = buf[busy.from] /\ buf[busy.from] \in Seq(Bytes)
    BY <1>4, <2>1 DEF Receiving, Fine, TypeOK
  <2>3. QED
    BY <2>2, ConcatEmptySeq
<1>5. TypeOK' /\ CallOK' /\ ObjectsOK' /\ QueueOK' /\ Sending' /\ Receiving'
  <2>1. /\ out' \in [Thread -> Seq(Bytes)] /\ took' \in [Thread -> Seq(Bytes)]
        /\ owner' \in [Fd -> Sock \cup {Free, Leaked}]
        /\ \A u \in Thread : out'[u] = out[u] /\ took'[u] = took[u]
    BY DEF TypeOK
  <2>2. busy.cmd = "send" => ~(ret >= 0)
    OBVIOUS
  <2>3. busy.from # None /\ busy.made # None /\ ret >= 0 => ret \in Fd
    BY <1>3
  <2>4. busy.from # None /\ busy.cmd \in {"recv", "read"} =>
          took'[busy.from] = IF ret >= 0 THEN buf[busy.from] \o <<>> ELSE buf[busy.from]
    BY <1>4
  <2>5. QED
    BY <1>1, <1>2, <2>1, <2>2, <2>3, <2>4, AnsweredKeeps
<1>6. QED
  BY <1>3, <1>5

\* Bytes that are read keep it: they go to the call that asked.
LEMMA SrvRecvKeeps ==
  ASSUME IInv, mcsk_srv_proc_recv PROVE IInv'
<1> USE DEF IInv
<1> DEFINE t == busy.from
           at == IF t = None THEN 0 ELSE Len(took[t])
           Data(k) == [i \in 1..k |-> <<owner[busy.fd], at + i>>]
<1>1. PICK k \in 1..busy.n :
        /\ took' = [u \in Thread |-> IF u = t THEN took[u] \o Data(k) ELSE took[u]]
        /\ Reply(k, Data(k))
  BY DEF mcsk_srv_proc_recv
<1>2. /\ queue # <<>> /\ busy.cmd \in {"recv", "read"} /\ owner[busy.fd] \in Sock
      /\ UNCHANGED <<out, owner, nonblock>>
  BY DEF mcsk_srv_proc_recv, Serving
<1>3. busy \in Message
  BY <1>1, <1>2, TailTakes DEF TypeOK, Reply
<1>4. k \in Nat /\ k \in Int /\ k >= 0 /\ t \in Thread \cup {None}
  BY <1>3 DEF Message
<1> DEFINE data == Data(k)
<1>5. data \in Seq(Bytes)
  <2>1. at \in Nat
    BY <1>4 DEF TypeOK
  <2>2. \A i \in 1..k : <<owner[busy.fd], at + i>> \in Bytes
    BY <1>2, <2>1 DEF Bytes, Connection
  <2>3. QED
    BY <1>4, <2>2
<1> HIDE DEF data
<1>6. /\ took' = [u \in Thread |-> IF u = t THEN took[u] \o data ELSE took[u]]
      /\ Reply(k, data)
  BY <1>1 DEF data
<1>7. Answered(k, data)
  BY <1>2, <1>4, <1>5, <1>6, ReplyAnswers
<1>8. took' \in [Thread -> Seq(Bytes)] /\ \A u \in Thread : u # t => took'[u] = took[u]
  <2>1. ASSUME NEW u \in Thread PROVE took[u] \in Seq(Bytes) /\ took[u] \o data \in Seq(Bytes)
    BY <1>5, ConcatProperties DEF TypeOK
  <2>2. QED
    BY <1>6, <2>1
<1>9. t # None => took'[t] = IF k >= 0 THEN buf[t] \o data ELSE buf[t]
  <2>1. t # None => t \in Thread /\ pc[t] = "wait" /\ busy.cmd = cmd[t]
    BY <1>4, <1>7 DEF Answered, RequestOK
  <2>2. t # None => took[t] = buf[t]
    BY <1>2, <2>1 DEF Receiving, Fine
  <2>3. QED
    BY <1>4, <1>6, <2>1, <2>2
<1>10. Owned' /\ (busy.from # None /\ busy.made # None => k < 0)
  BY <1>2, <1>4, <1>5, <1>7, AnsweredOnly DEF Makes
<1>11. TypeOK' /\ CallOK' /\ ObjectsOK' /\ QueueOK' /\ Sending' /\ Receiving'
  <2>1. /\ out' \in [Thread -> Seq(Bytes)] /\ nonblock' \in [Fd -> BOOLEAN]
        /\ owner' \in [Fd -> Sock \cup {Free, Leaked}]
        /\ \A u \in Thread : out'[u] = out[u]
    BY <1>2 DEF TypeOK
  <2>2. busy.cmd # "send" /\ (busy.from # None /\ busy.made # None /\ k >= 0 => k \in Fd)
    BY <1>2, <1>4, <1>10
  <2>3. QED
    BY <1>4, <1>5, <1>7, <1>8, <1>9, <2>1, <2>2, AnsweredKeeps
<1>12. QED
  BY <1>10, <1>11

\* Every handler of the server keeps it.
LEMMA HandlersKeep ==
  ASSUME IInv, Handlers PROVE IInv'
<1>1. nonblock \in [Fd -> BOOLEAN]
  BY DEF IInv, TypeOK
<1>2. CASE mcsk_srv_proc_read
  <2>1. /\ queue # <<>> /\ busy.cmd \notin Makes \cup {"send"}
        /\ Reply(0, <<>>) \/ Reply(-1, <<>>)
        /\ UNCHANGED <<out, took, owner, nonblock>>
    BY <1>2 DEF mcsk_srv_proc_read, Serving, Makes
  <2>2. QED
    BY <1>1, <2>1, QuietKeeps
<1>3. CASE mcsk_srv_proc_fcntl
  <2>1. /\ queue # <<>> /\ busy.cmd \notin Makes \cup {"send"} /\ Reply(0, <<>>)
        /\ UNCHANGED <<out, took, owner>> /\ nonblock' \in [Fd -> BOOLEAN]
    BY <1>1, <1>3 DEF mcsk_srv_proc_fcntl, Serving, Makes
  <2>2. QED
    BY <2>1, QuietKeeps
<1>4. CASE mcsk_srv_proc_other
  <2>1. /\ queue # <<>> /\ busy.cmd \notin Makes \cup {"send"} /\ Reply(0, <<>>)
        /\ UNCHANGED <<out, took, owner, nonblock>>
    BY <1>4 DEF mcsk_srv_proc_other, Serving, Makes
  <2>2. QED
    BY <1>1, <2>1, QuietKeeps
<1>5. CASE mcsk_srv_proc_error
  BY <1>1, <1>5, QuietKeeps DEF mcsk_srv_proc_error
<1>6. QED
  BY <1>2, <1>3, <1>4, <1>5, MakeKeeps, CloseKeeps, SrvSendKeeps, SrvRecvKeeps DEF Handlers

-----------------------------------------------------------------------------
(* Theorems                                                                *)

\* The inductive invariant holds before the first call.
LEMMA InitOK == Init => IInv
<1> SUFFICES ASSUME Init PROVE IInv
  OBVIOUS
<1>1. TypeOK
  <2>1. /\ gil \in Thread \cup {None} /\ pc \in [Thread -> {"python", "wait", "back"}]
        /\ cmd \in [Thread -> Call \cup {None}]
        /\ sock \in [Thread -> Sock \cup {None}] /\ made \in [Thread -> Sock \cup {None}]
        /\ len \in [Thread -> Nat] /\ have \in [Thread -> Nat]
    BY DEF Init
  <2>2. /\ out \in [Thread -> Seq(Bytes)] /\ took \in [Thread -> Seq(Bytes)]
        /\ buf \in [Thread -> Seq(Bytes)]
        /\ ans \in [Thread -> [ret : Int, data : Seq(Bytes)] \cup {None}]
    BY DEF Init
  <2>3. /\ again \in BOOLEAN /\ state \in [Sock -> {"none", "making", "open", "closed"}]
        /\ fd \in [Sock -> Fd \cup {None}] /\ nonblock \in [Fd -> BOOLEAN]
        /\ owner \in [Fd -> Sock \cup {Free, Leaked}]
    BY DEF Init
  <2>4. /\ queue \in Seq(Message) /\ DOMAIN queue = {}
        /\ alive \in BOOLEAN /\ lost \subseteq Thread
    BY DEF Init
  <2>5. QED
    BY <2>1, <2>2, <2>3, <2>4 DEF TypeOK
<1>2. \A t \in Thread : pc[t] = "python" /\ sock[t] = None /\ made[t] = None /\ ~Fine(t)
  BY DEF Init, Fine
<1>3. CallOK /\ ObjectsOK
  BY <1>2 DEF Init, CallOK, ObjectsOK
<1>4. QueueOK /\ Owned
  BY <1>2 DEF Init, QueueOK, Owned
<1>5. Sending /\ Receiving
  BY <1>2 DEF Sending, SendingAt, Receiving
<1>6. QED
  BY <1>1, <1>3, <1>4, <1>5 DEF IInv

\* Every step keeps the inductive invariant.
LEMMA NextKeeps == IInv /\ [Next]_vars => IInv'
<1> SUFFICES ASSUME IInv, [Next]_vars PROVE IInv'
  OBVIOUS
<1>1. ASSUME NEW t \in Thread, Python(t) PROVE IInv'
  <2>1. PICK c, o, w, n : Began(t, c, o, w, n)
    BY <1>1, PythonBegins DEF IInv
  <2>2. QED
    BY <2>1, BeganKeeps
<1>2. ASSUME NEW t \in Thread, InCall(t) PROVE IInv'
  BY <1>2, SendKeeps, RecvKeeps, FlagsKeep, ReturnKeeps, RaiseKeeps, RepeatKeeps DEF InCall
<1>3. ASSUME NEW t \in Thread, Expire(t) PROVE IInv'
  BY <1>3, ExpireKeeps
<1>4. ASSUME NEW o \in Sock, Forget(o) PROVE IInv'
  BY <1>4, ForgetKeeps
<1>5. CASE UNCHANGED vars \/ BrokenPipe
  <2>1. /\ UNCHANGED <<gil, pc, cmd, sock, made, len, have, ans, out, took, buf>>
        /\ UNCHANGED <<state, fd, again, queue, owner, nonblock, lost>>
        /\ alive \in BOOLEAN => alive' \in BOOLEAN
    BY <1>5 DEF vars, calls, objects, server, fate, BrokenPipe
  <2>2. \A u \in Thread : Fine(u)' = Fine(u) /\ SendingAt(u)' = SendingAt(u)
    BY <2>1 DEF Fine, SendingAt, Sum
  <2>3. TypeOK' /\ ObjectsOK'
    BY <2>1 DEF IInv, TypeOK, ObjectsOK
  <2>4. CallOK'
    BY <2>1, <2>2 DEF IInv, CallOK
  <2>5. QueueOK'
    BY <2>1 DEF IInv, QueueOK, RequestOK
  <2>6. Owned' /\ Sending'
    BY <2>1, <2>2 DEF IInv, Owned, Sending
  <2>7. Receiving'
    BY <2>1, <2>2 DEF IInv, Receiving, Received
  <2>8. QED
    BY <2>3, <2>4, <2>5, <2>6, <2>7 DEF IInv
<1>6. QED
  BY <1>1, <1>2, <1>3, <1>4, <1>5, HandlersKeep, LoseKeeps DEF Next

\* The inductive invariant holds in every behaviour.
LEMMA Invariance == Spec => []IInv
<1>1. QED
  BY InitOK, NextKeeps, PTL DEF Spec

\* The state keeps its types, and the channel never holds a request of a
\* transfer that asks for nothing or for more than a message can carry.
THEOREM TypeCorrect == Spec => []TypeOK
<1>1. IInv => TypeOK
  BY DEF IInv
<1>2. QED
  BY <1>1, Invariance, PTL

\* No descriptor is closed under an open object, whatever requests are given
\* up and carried out later, as long as the server lives and no script closes
\* an object twice.
THEOREM FdCorrect == Spec => []FdUnshared
<1>1. IInv => FdUnshared
  BY DEF IInv, Owned, FdUnshared
<1>2. QED
  BY <1>1, Invariance, PTL

\* send() returns the count of bytes of its buffer that are on the network,
\* over any number of parts, short answers and failures between them.
THEOREM SendCorrect == Spec => []SendReported
<1>1. IInv => SendReported
  <2> SUFFICES ASSUME IInv, NEW t \in Thread, Fine(t), cmd[t] = "send",
                      state[sock[t]] = "open", ~again
               PROVE  out[t] = [i \in 1..Sum(t) |-> <<sock[t], i>>]
    BY DEF SendReported
  <2>1. SendingAt(t)
    BY DEF IInv, Sending
  <2>2. pc[t] # "python"
    BY DEF Fine
  <2>3. QED
    BY <2>1, <2>2 DEF SendingAt, Prefix
<1>2. QED
  BY <1>1, Invariance, PTL

\* recv() and read() return all the bytes the little core has read for them.
THEOREM ReceiveCorrect == Spec => []ReceivedWhole
<1>1. IInv => ReceivedWhole
  BY DEF IInv, Receiving, ReceivedWhole, Fine
<1>2. QED
  BY <1>1, Invariance, PTL
=============================================================================
