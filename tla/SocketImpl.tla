---------------------------- MODULE SocketImpl -----------------------------
(***************************************************************************)
(* The bridge's sockets, bridge/source/socket_impl.c and what it uses of   *)
(* socket.c, on a Unix.  Each system call is a step; between two of them   *)
(* the network, and so the state of a socket, changes.                     *)
(*                                                                         *)
(* The operating system (external): a descriptor has a state, perhaps a    *)
(* pending error, a queue of what has arrived (data of a connection,       *)
(* datagrams, or connections to be accepted) and a peer that may stop      *)
(* taking what is sent, end the connection or reset it.  A call that       *)
(* cannot go on fails when the descriptor is non-blocking and waits        *)
(* otherwise, for good if the network has it so.  Sending on a             *)
(* connection that is no more raises SIGPIPE, which ends the bridge:       *)
(* nothing in it handles or prevents the signal.                           *)
(***************************************************************************)
EXTENDS Integers, Sequences

CONSTANTS
  Conn,       \* 0 .. MOBILE_MAX_CONNECTIONS - 1
  Fd,         \* the descriptors the bridge may have
  Sizes,      \* the sizes of a SEND or a RECV
  Lengths,    \* what arrives at once: bytes of a connection, or a datagram
  Faults      \* TRUE: any system call may fail

ASSUME SocketAssumption ==
  /\ Fd \subseteq Nat /\ Sizes \subseteq Nat /\ Lengths \subseteq Nat
  /\ Faults \in BOOLEAN

NoFd == -1

VARIABLES
  os,        \* the operating system's descriptors
  sockets,   \* state->sockets
  pc,        \* "idle", "killed", or the next system call
  call,      \* the function that runs and its arguments
  new,       \* the descriptor it has made and not yet stored
  returned,  \* what the last one returned
  leaked     \* history: descriptors nobody holds any more

vars == <<os, sockets, pc, call, new, returned, leaked>>

Free == [type |-> "none", state |-> "free", nonblock |-> FALSE, error |-> FALSE,
         queue |-> <<>>, peer |-> "here"]

NoCall == [op |-> "none", conn |-> 0, size |-> 0, type |-> "none"]

Init ==
  /\ os = [f \in Fd |-> Free]
  /\ sockets = [c \in Conn |-> NoFd]
  /\ pc = "idle" /\ call = NoCall /\ new = NoFd
  /\ returned = 0
  /\ leaked = {}
-----------------------------------------------------------------------------
\* What the network does to an open descriptor.  Its queue is abstracted to one
\* item.

Changes(f, from, to) == from /\ os' = [os EXCEPT ![f] = to]

Connected(s) == s.state = "connected" /\ s.type = "TCP"

Alive(s) == s.peer \in {"here", "stalled"}

Network(f) ==
  LET s == os[f] IN
  \* an attempt to connect succeeds, or fails
  \/ Changes(f, s.state = "connecting", [s EXCEPT !.state = "connected"])
  \/ Changes(f, s.state = "connecting", [s EXCEPT !.state = "closed", !.error = TRUE])
  \* data, a datagram, a connection; a datagram or a connection may be taken back
  \/ \E n \in Lengths \ {0} :
       Changes(f, Connected(s) /\ Alive(s) /\ s.queue = <<>>, [s EXCEPT !.queue = <<n>>])
  \/ \E n \in Lengths \cup {0} :
       Changes(f, s.type = "UDP" /\ s.queue = <<>>, [s EXCEPT !.queue = <<n>>])
  \/ Changes(f, s.state = "listening" /\ s.queue = <<>>, [s EXCEPT !.queue = <<0>>])
  \/ Changes(f, ~Connected(s) /\ s.queue # <<>>, [s EXCEPT !.queue = <<>>])
  \* the peer stalls, goes on, goes; a datagram could not be delivered
  \/ Changes(f, Connected(s) /\ s.peer = "here", [s EXCEPT !.peer = "stalled"])
  \/ Changes(f, s.peer = "stalled", [s EXCEPT !.peer = "here"])
  \/ Changes(f, Connected(s) /\ Alive(s), [s EXCEPT !.peer = "ended"])
  \/ Changes(f, Connected(s) /\ s.peer # "reset", [s EXCEPT !.peer = "reset", !.error = TRUE])
  \/ Changes(f, s.type = "UDP" /\ s.state = "connected" /\ ~s.error, [s EXCEPT !.error = TRUE])

Holds(f) == \E c \in Conn : sockets[c] = f

Environment ==
  /\ \E f \in Fd : (Holds(f) \/ f = new) /\ Network(f)
  /\ UNCHANGED <<sockets, pc, call, new, returned, leaked>>
-----------------------------------------------------------------------------
\* The descriptor of the connection that is called, and its state.
sock == sockets[call.conn]
socket == os[sock]

\* The step is followed by another of the same call, or the function returns.
Goes(to) == pc' = to /\ UNCHANGED <<call, returned>>
Returns(val) ==
  pc' = "idle" /\ call' = NoCall /\ returned' = val

Keeps == UNCHANGED <<sockets, new, leaked>>

Call ==
  [op : {"open"}, conn : Conn, size : {0}, type : {"TCP", "UDP"}]
  \cup [op : {"close", "connect", "listen", "accept"}, conn : Conn, size : {0}, type : {"none"}]
  \cup [op : {"send", "recv"}, conn : Conn, size : Sizes, type : {"none"}]

\* It is called.  The connection is open, unless it is to be opened.
Begins(op, first) ==
  /\ pc = "idle" /\ pc' = first
  /\ call' \in {c \in Call : c.op = op}
  /\ sockets[call'.conn] = NoFd <=> op = "open"
  /\ returned' = 0
  /\ UNCHANGED <<os, sockets, new, leaked>>

Calls ==
  \/ Begins("open", "socket") \/ Begins("close", "close")
  \/ Begins("connect", "connect") \/ Begins("listen", "listen")
  \/ Begins("accept", "accept_poll")
  \/ Begins("send", "sendto") \/ Begins("recv", "recv_poll")
-----------------------------------------------------------------------------
\* socket_impl_open

NoneFree == \A f \in Fd : os[f] # Free

\* Mutant: it is not noticed that there is no descriptor.
Socket_Unchecked ==
  /\ pc = "socket"
  /\ \/ \E f \in Fd :
          /\ os[f] = Free /\ \A g \in Fd : os[g] = Free => f <= g
          /\ new' = f
          /\ os' = [os EXCEPT ![f] = [Free EXCEPT !.type = call.type, !.state = "closed"]]
     \/ NoneFree /\ UNCHANGED <<os, new>>
  /\ Goes("open_setblocking")
  /\ UNCHANGED <<sockets, leaked>>

\* A new descriptor is the lowest that is free.
Socket ==
  /\ pc = "socket"
  /\ \/ \E f \in Fd :
          /\ os[f] = Free /\ \A g \in Fd : os[g] = Free => f <= g
          /\ new' = f
          /\ os' = [os EXCEPT ![f] = [Free EXCEPT !.type = call.type, !.state = "closed"]]
          /\ Goes("open_setblocking")
     \/ /\ Faults \/ NoneFree
        /\ Returns(0) /\ UNCHANGED <<os, new>>
  /\ UNCHANGED <<sockets, leaked>>

\* The descriptor is closed and the connection remains closed.
OpenFails ==
  /\ Faults
  /\ os' = [os EXCEPT ![new] = Free] /\ new' = NoFd
  /\ Returns(0)
  /\ UNCHANGED <<sockets, leaked>>

OpenSetBlocking ==
  /\ pc = "open_setblocking"
  /\ \/ /\ os' = [os EXCEPT ![new].nonblock = TRUE]
        /\ Goes("setsockopt") /\ Keeps
     \/ OpenFails

\* SO_REUSEADDR, and TCP_NODELAY for TCP.
SetSockOpt ==
  /\ pc = "setsockopt"
  /\ \/ Goes("bind") /\ Keeps /\ UNCHANGED os
     \/ OpenFails

\* Mutant: the connection is open before the port is bound.
Bind_Early ==
  /\ pc = "bind"
  /\ sockets' = [sockets EXCEPT ![call.conn] = new] /\ new' = NoFd
  /\ \/ Returns(1)
     \/ Faults /\ Returns(0)
  /\ UNCHANGED <<os, leaked>>

Bind ==
  /\ pc = "bind"
  /\ \/ /\ sockets' = [sockets EXCEPT ![call.conn] = new] /\ new' = NoFd
        /\ Returns(1)
        /\ UNCHANGED <<os, leaked>>
     \/ OpenFails
-----------------------------------------------------------------------------
\* socket_impl_close
Close ==
  /\ pc = "close"
  /\ os' = [os EXCEPT ![sock] = Free]
  /\ sockets' = [sockets EXCEPT ![call.conn] = NoFd]
  /\ Returns(0)
  /\ UNCHANGED <<new, leaked>>

\* socket_impl_connect: one that is called again while the attempt goes on is
\* told so, and one after it has succeeded may be told that as an error.
Connect ==
  /\ pc = "connect"
  /\ \/ /\ socket.type = "UDP"
        /\ os' = [os EXCEPT ![sock].state = "connected"] /\ Returns(1)
     \/ /\ socket.state = "closed" /\ socket.type = "TCP"
        /\ \/ /\ ~socket.error
              /\ os' = [os EXCEPT ![sock].state = "connecting"]
              /\ Goes(IF socket.nonblock THEN "poll_out" ELSE "connect")
           \/ /\ socket.error
              /\ os' = [os EXCEPT ![sock].error = FALSE] /\ Returns(-1)
     \/ /\ socket.state = "connecting" /\ socket.nonblock
        /\ Goes("poll_out") /\ UNCHANGED os
     \/ Faults /\ socket.state # "connecting" /\ Returns(-1) /\ UNCHANGED os
     \/ /\ Connected(socket)
        /\ Returns(1) \/ Returns(-1)
        /\ UNCHANGED os
     \/ socket.state = "listening" /\ Returns(-1) /\ UNCHANGED os
  /\ Keeps

\* socket_isconnected, which waits 100 ms at most
PollOut ==
  /\ pc = "poll_out"
  /\ \/ Faults /\ Returns(-1)
     \/ socket.state = "connecting" /\ Returns(0)
     \/ socket.state # "connecting" /\ Goes("so_error")
  /\ Keeps /\ UNCHANGED os

\* Mutant: that the attempt is over is taken for success.
SocketError_Unread ==
  /\ pc = "so_error"
  /\ Returns(1)
  /\ Keeps /\ UNCHANGED os

SocketError ==
  /\ pc = "so_error"
  /\ \/ /\ os' = [os EXCEPT ![sock].error = FALSE]
        /\ Returns(IF socket.error THEN -1 ELSE 1)
     \/ Faults /\ Goes("err_unset") /\ UNCHANGED os
  /\ Keeps

\* That getsockopt has failed is not noticed: err is read, which nothing has set.
ErrUnset ==
  /\ pc = "err_unset"
  /\ Returns(1) \/ Returns(-1)
  /\ Keeps /\ UNCHANGED os

\* socket_impl_listen
Listen ==
  /\ pc = "listen"
  /\ \/ /\ socket.type = "TCP" /\ socket.state \in {"closed", "listening"}
        /\ os' = [os EXCEPT ![sock].state = "listening"] /\ Returns(1)
     \/ /\ Faults \/ socket.type = "UDP" \/ socket.state \in {"connecting", "connected"}
        /\ Returns(0) /\ UNCHANGED os
  /\ Keeps
-----------------------------------------------------------------------------
\* socket_hasdata: something to read, or something to say about the socket.
HasData ==
  \/ socket.queue # <<>> \/ socket.error \/ ~Alive(socket)
  \/ socket.type = "TCP" /\ socket.state = "closed"

\* accept and recv poll first, and return 0 when there is nothing.
Polls(at, to) ==
  /\ pc = at
  /\ \/ HasData /\ Goes(to)
     \/ /\ ~HasData \/ Faults
        /\ Returns(0)
  /\ Keeps /\ UNCHANGED os

AcceptPoll == Polls("accept_poll", "accept")
RecvPoll == Polls("recv_poll", "recvfrom")

\* socket_impl_accept.  The connection may be gone since the poll.
Accept ==
  /\ pc = "accept"
  /\ \/ /\ socket.state = "listening" /\ socket.queue # <<>>
        /\ \E f \in Fd :
             /\ os[f] = Free /\ \A g \in Fd : os[g] = Free => f <= g
             /\ new' = f
             /\ os' = [os EXCEPT ![sock].queue = <<>>,
                         ![f] = [Free EXCEPT !.type = "TCP", !.state = "connected"]]
        /\ Goes("accept_setblocking")
     \/ /\ \/ socket.state # "listening"
           \/ socket.queue # <<>> /\ (NoneFree \/ Faults)
           \/ socket.queue = <<>> /\ socket.nonblock
        /\ Returns(0) /\ UNCHANGED <<os, new>>
  /\ UNCHANGED <<sockets, leaked>>

\* Mutant: the socket that listened is not closed.
AcceptSetBlocking_NoClose ==
  /\ pc = "accept_setblocking"
  /\ new' = NoFd
  /\ os' = [os EXCEPT ![new].nonblock = TRUE]
  /\ sockets' = [sockets EXCEPT ![call.conn] = new]
  /\ Returns(1)
  /\ UNCHANGED leaked

\* Mutant: the new socket is thought to be non-blocking as the old one was.
AcceptSetBlocking_Inherited ==
  /\ pc = "accept_setblocking"
  /\ new' = NoFd
  /\ os' = [os EXCEPT ![sock] = Free]
  /\ sockets' = [sockets EXCEPT ![call.conn] = new]
  /\ Returns(1)
  /\ UNCHANGED leaked

\* The new socket takes the place of the one that listened.  If it cannot be
\* made non-blocking, nobody closes it.
AcceptSetBlocking ==
  /\ pc = "accept_setblocking"
  /\ new' = NoFd
  /\ \/ /\ os' = [os EXCEPT ![sock] = Free, ![new].nonblock = TRUE]
        /\ sockets' = [sockets EXCEPT ![call.conn] = new]
        /\ Returns(1)
        /\ UNCHANGED leaked
     \/ /\ Faults
        /\ leaked' = leaked \cup {new}
        /\ Returns(0)
        /\ UNCHANGED <<os, sockets>>
-----------------------------------------------------------------------------
\* Nobody is there to send to.
Broken ==
  /\ socket.type = "TCP"
  /\ socket.state \in {"closed", "listening"} \/ socket.peer = "reset"

SendWaits == socket.state = "connecting" \/ socket.peer = "stalled"

\* Mutant: a failure is taken for a full buffer.
SendTo_FailsAsZero ==
  /\ pc = "sendto"
  /\ Returns(0)
  /\ os' = [os EXCEPT ![sock].error = FALSE]
  /\ Keeps

\* socket_impl_send
SendTo ==
  /\ pc = "sendto"
  /\ \/ /\ ~Broken /\ ~socket.error /\ ~SendWaits
        /\ \E n \in 0..call.size :
             /\ n = call.size \/ (socket.type = "TCP" /\ n > 0)
             /\ Returns(n)
        /\ UNCHANGED os
     \/ SendWaits /\ socket.nonblock /\ Returns(0) /\ UNCHANGED os
     \/ socket.error /\ os' = [os EXCEPT ![sock].error = FALSE] /\ Returns(-1)
     \/ Broken /\ ~socket.error /\ Goes("killed") /\ UNCHANGED os
     \/ Faults /\ ~SendWaits /\ Returns(-1) /\ UNCHANGED os
  /\ Keeps

Lesser(m, n) == IF m < n THEN m ELSE n

\* recvfrom finds data; the rest of a datagram is lost.
Takes(n) ==
  os' = [os EXCEPT ![sock].queue =
           IF socket.type = "UDP" \/ n = Head(@) THEN <<>> ELSE <<Head(@) - n>>]

NothingToRead == socket.queue = <<>> /\ ~socket.error

\* Mutant: whatever the socket, nothing received means that the peer is gone.
RecvFrom_AnyType ==
  /\ pc = "recvfrom"
  /\ \/ /\ socket.queue # <<>>
        /\ LET n == Lesser(call.size, Head(socket.queue)) IN
             Takes(n) /\ Returns(IF n = 0 THEN -2 ELSE n)
     \/ NothingToRead /\ ~Alive(socket) /\ Returns(-2) /\ UNCHANGED os
  /\ Keeps

\* socket_impl_recv; gbridge_prot_ma.c always gives it a buffer.  A length of 0
\* on a stream is taken for its end; the type of the socket is asked for first,
\* and what was received is lost if that fails.
RecvFrom ==
  /\ pc = "recvfrom"
  /\ \/ /\ socket.queue # <<>> /\ socket.state # "listening"
        /\ socket.type = "UDP" => ~socket.error
        /\ LET n == Lesser(call.size, Head(socket.queue)) IN
             /\ Takes(n)
             /\ \/ Returns(IF n = 0 /\ socket.type = "TCP" THEN -2 ELSE n)
                \/ Faults /\ n = 0 /\ Returns(-1)
     \/ /\ socket.error /\ (socket.queue = <<>> \/ socket.type = "UDP")
        /\ os' = [os EXCEPT ![sock].error = FALSE] /\ Returns(-1)
     \/ NothingToRead /\ ~Alive(socket) /\ Returns(-2) /\ UNCHANGED os
     \/ NothingToRead /\ Alive(socket) /\ socket.nonblock /\ Returns(0) /\ UNCHANGED os
     \/ /\ socket.type = "TCP" /\ socket.state \in {"closed", "listening"}
        /\ Returns(-1) /\ UNCHANGED os
     \/ Faults /\ (NothingToRead => ~Alive(socket)) /\ Returns(-1) /\ UNCHANGED os
  /\ Keeps

Bridge ==
  \/ Socket \/ OpenSetBlocking \/ SetSockOpt \/ Bind \/ Close
  \/ Connect \/ PollOut \/ SocketError \/ ErrUnset \/ Listen
  \/ AcceptPoll \/ Accept \/ AcceptSetBlocking
  \/ SendTo \/ RecvPoll \/ RecvFrom

Next == Calls \/ Bridge \/ Environment

Spec == Init /\ [][Next]_vars

\* The operating system runs the bridge.  The network owes it nothing.
FairSpec == Spec /\ WF_vars(Bridge)
-----------------------------------------------------------------------------
Live ==
  [type : {"TCP", "UDP"}, state : {"closed", "connecting", "connected", "listening"},
   nonblock : BOOLEAN, error : BOOLEAN, queue : Seq(Nat),
   peer : {"here", "stalled", "ended", "reset"}]

SystemCalls ==
  {"socket", "open_setblocking", "setsockopt", "bind", "close", "connect", "poll_out",
   "so_error", "err_unset", "listen", "accept_poll", "accept", "accept_setblocking", "sendto",
   "recv_poll", "recvfrom"}

\* The state has its type; a new descriptor is in hand only where one is.
SocketTypeOK ==
  /\ os \in [Fd -> Live \cup {Free}]
  /\ sockets \in [Conn -> Fd \cup {NoFd}]
  /\ pc \in SystemCalls \cup {"idle", "killed"}
  /\ pc \in {"open_setblocking", "setsockopt", "bind", "accept_setblocking"} <=> new # NoFd
  /\ new \in Fd \cup {NoFd} /\ leaked \subseteq Fd
  /\ call \in Call \cup {NoCall} /\ (pc = "idle" <=> call = NoCall)

\* Every open descriptor has one owner: a connection, the call that has just
\* made it, or, if a socket that was accepted could not be made non-blocking,
\* nobody.  Whatever fails half-way, nothing else is leaked or used twice.
SocketsOwned ==
  /\ \A c \in Conn : sockets[c] # NoFd =>
       /\ os[sockets[c]] # Free /\ sockets[c] # new /\ sockets[c] \notin leaked
       /\ \A d \in Conn : sockets[d] = sockets[c] => d = c
  /\ new # NoFd => os[new] # Free /\ new \notin leaked
  /\ \A f \in Fd : os[f] # Free => Holds(f) \/ f = new \/ f \in leaked
  /\ \A f \in leaked : os[f] # Free

\* To the rest of the bridge the calls are what GbridgeBridge takes them for.
Abstract == INSTANCE SocketCalls WITH
  Calls <- Call, open <- {c \in Conn : sockets[c] # NoFd}
ImplementsCalls == Abstract!Spec

\* The step in which op returns val.
Ends(op, val) == pc \notin {"idle", "killed"} /\ call.op = op /\ pc' = "idle" /\ returned' = val

\* "Check if a connect() call has completed": connect is true only of a socket
\* that is connected, although an attempt that fails is over as well.  When
\* getsockopt fails it is not: what is returned is then what err happened to be.
ConnectIsTrue ==
  [][Ends("connect", 1) /\ pc # "err_unset" => os'[sock].state = "connected"]_vars

\* "A length of 0 will be returned if the remote has disconnected", and it is
\* taken for that: the peer is gone, and all that it sent has been received.
DisconnectIsReal ==
  [][Ends("recv", -2) => Connected(socket) /\ ~Alive(socket) /\ socket.queue = <<>>]_vars

\* A pending error is reported by the call that takes it from the socket,
\* unless that closes it.
ErrorReported ==
  [][\A f \in Fd : os[f].error /\ ~os'[f].error => os'[f] = Free \/ Ends(call.op, -1)]_vars

\* No call waits for the network: each comes to an end, or ends the bridge.
CallReturns == pc # "idle" ~> pc \in {"idle", "killed"}
=============================================================================
