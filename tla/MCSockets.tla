----------------------------- MODULE MCSockets -----------------------------
(* Instance of Sockets for TLC. *)
EXTENDS Sockets, TLC

CONSTANTS t1, t2
Threads == {t1, t2}

\* Bound: one thread makes connections, sends and configures the network, the
\* other accepts, receives and closes.  connect and poll differ from
\* these calls in nothing that Sockets tells apart but their sets.
Roles == t1 :> {"socket", "send", "read", "poll", "netcmd"} @@
         t2 :> {"accept", "close", "recv", "setblocking"}

\* Bound: a behaviour is followed until an object is closed twice or the server has
\* ended.  A call that has its answer then goes on as it does with the server.
Once == ~again /\ alive
=============================================================================
