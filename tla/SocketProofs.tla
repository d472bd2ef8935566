---------------------------- MODULE SocketProofs ----------------------------
(***************************************************************************)
(* Theorems about SocketImpl, for any number of connections and of         *)
(* descriptors, whatever arrives and whichever system call fails.          *)
(***************************************************************************)
EXTENDS SocketImpl, TLAPS

\* What a step of each function belongs to.
StepsOf ==
  /\ pc \in {"socket", "open_setblocking", "setsockopt", "bind"} => call.op = "open"
  /\ pc = "close" => call.op = "close"
  /\ pc \in {"connect", "poll_out", "so_error", "err_unset"} => call.op = "connect"
  /\ pc = "listen" => call.op = "listen"
  /\ pc \in {"accept_poll", "accept", "accept_setblocking"} => call.op = "accept"
  /\ pc \in {"sendto", "killed"} => call.op = "send"
  /\ pc \in {"recv_poll", "recvfrom"} => call.op = "recv"

\* It is called on an open connection, socket_impl_open on a closed one.
CalledRightly == pc # "idle" => (sockets[call.conn] = NoFd <=> call.op = "open")

\* What waits at a connection has a length.
QueueOK(s) == s.state = "connected" /\ s.type = "TCP" /\ s.queue # <<>> => s.queue[1] > 0

\* And before it is connected nothing waits there, and there is no peer to go.
QuietBefore(s) ==
  /\ s.type = "TCP" /\ s.state \in {"closed", "connecting"} => s.queue = <<>>
  /\ ~Connected(s) => s.peer = "here"

Queues == \A f \in Fd : QueueOK(os[f]) /\ QuietBefore(os[f])

SocketInv == SocketTypeOK /\ SocketsOwned /\ StepsOf /\ CalledRightly /\ Queues
-----------------------------------------------------------------------------
LEMMA Distinct ==
  /\ Free \notin Live /\ NoFd \notin Fd
  /\ \A s \in Live : s # Free
<1>1. Free.type = "none"
  BY DEF Free
<1>2. \A s \in Live : s.type # "none"
  BY DEF Live
<1>3. NoFd \notin Fd
  BY SocketAssumption DEF SocketAssumption, NoFd
<1>4. QED
  BY <1>1, <1>2, <1>3

LEMMA CallShape ==
  /\ NoCall \notin Call
  /\ \A c \in Call : c.conn \in Conn /\ c.size \in Nat
<1>1. NoCall.op = "none"
  BY DEF NoCall
<1>2. \A c \in Call : c.op # "none" /\ c.conn \in Conn /\ c.size \in Nat
  <2>1. Sizes \subseteq Nat
    BY SocketAssumption DEF SocketAssumption
  <2> SUFFICES ASSUME NEW c \in Call PROVE c.op # "none" /\ c.conn \in Conn /\ c.size \in Nat
    OBVIOUS
  <2>2. CASE c \in [op : {"open"}, conn : Conn, size : {0}, type : {"TCP", "UDP"}]
    BY <2>2
  <2>3. CASE c \in [op : {"close", "connect", "listen", "accept"}, conn : Conn, size : {0},
                    type : {"none"}]
    BY <2>3
  <2>4. CASE c \in [op : {"send", "recv"}, conn : Conn, size : Sizes, type : {"none"}]
    BY <2>1, <2>4
  <2>5. QED
    BY <2>2, <2>3, <2>4 DEF Call
<1>3. QED
  BY <1>1, <1>2

\* The network leaves a descriptor open, and what waits there sound.
LEMMA NetworkKeeps ==
  ASSUME NEW f \in Fd, os[f] \in Live, Network(f), QueueOK(os[f]), QuietBefore(os[f])
  PROVE  \E s \in Live : os' = [os EXCEPT ![f] = s] /\ QueueOK(s) /\ QuietBefore(s)
<1> DEFINE s == os[f]
           Becomes(t) == os' = [os EXCEPT ![f] = t]
<1>1. \A n \in Lengths \cup {0} : <<n>> \in Seq(Nat) /\ <<n>>[1] = n /\ n \in Nat
  <2>1. ASSUME NEW n \in Nat PROVE <<n>> \in Seq(Nat) /\ <<n>>[1] = n
    OBVIOUS
  <2>2. Lengths \cup {0} \subseteq Nat
    BY SocketAssumption DEF SocketAssumption
  <2>3. QED
    BY <2>1, <2>2
<1>2. <<>> \in Seq(Nat)
  OBVIOUS
<1>3. \/ s.state = "connecting" /\ Becomes([s EXCEPT !.state = "connected"])
      \/ s.state = "connecting" /\ Becomes([s EXCEPT !.state = "closed", !.error = TRUE])
      \/ \E n \in Lengths \ {0} : Connected(s) /\ Becomes([s EXCEPT !.queue = <<n>>])
      \/ \E n \in Lengths \cup {0} : s.type = "UDP" /\ Becomes([s EXCEPT !.queue = <<n>>])
      \/ s.state = "listening" /\ Becomes([s EXCEPT !.queue = <<0>>])
      \/ ~Connected(s) /\ Becomes([s EXCEPT !.queue = <<>>])
      \/ \E p \in {"here", "stalled", "ended"} : Connected(s) /\ Becomes([s EXCEPT !.peer = p])
      \/ Connected(s) /\ Becomes([s EXCEPT !.peer = "reset", !.error = TRUE])
      \/ Becomes([s EXCEPT !.error = TRUE])
  BY DEF Network, Changes, QuietBefore
<1>4. s \in Live /\ QueueOK(s) /\ QuietBefore(s)
  OBVIOUS
<1>a. ASSUME NEW t \in Live, Becomes(t), QueueOK(t), QuietBefore(t)
      PROVE  \E u \in Live : Becomes(u) /\ QueueOK(u) /\ QuietBefore(u)
  BY <1>a
<1> HIDE DEF s
<1>5. CASE s.state = "connecting" /\ Becomes([s EXCEPT !.state = "connected"])
  <2> DEFINE t == [s EXCEPT !.state = "connected"]
  <2>1. t \in Live /\ t.type = s.type /\ t.state = "connected" /\ t.queue = s.queue /\ t.peer = s.peer
    BY <1>4 DEF Live
  <2> HIDE DEF t
  <2>2. QueueOK(t) /\ QuietBefore(t)
    BY <1>4, <1>5, <2>1 DEF Connected, QueueOK, QuietBefore
  <2>3. Becomes(t)
    BY <1>5 DEF t
  <2>4. QED
    BY <1>a, <2>1, <2>2, <2>3
<1>6. CASE s.state = "connecting" /\ Becomes([s EXCEPT !.state = "closed", !.error = TRUE])
  <2> DEFINE t == [s EXCEPT !.state = "closed", !.error = TRUE]
  <2>1. t \in Live /\ t.type = s.type /\ t.state = "closed" /\ t.queue = s.queue /\ t.peer = s.peer
    BY <1>4 DEF Live
  <2> HIDE DEF t
  <2>2. QueueOK(t) /\ QuietBefore(t)
    BY <1>4, <1>6, <2>1 DEF Connected, QueueOK, QuietBefore
  <2>3. Becomes(t)
    BY <1>6 DEF t
  <2>4. QED
    BY <1>a, <2>1, <2>2, <2>3
<1>7. CASE \E n \in Lengths \ {0} : Connected(s) /\ Becomes([s EXCEPT !.queue = <<n>>])
  <2>1. PICK n \in Lengths \ {0} : Connected(s) /\ Becomes([s EXCEPT !.queue = <<n>>])
    BY <1>7
  <2> DEFINE t == [s EXCEPT !.queue = <<n>>]
  <2>2. t \in Live /\ t.type = s.type /\ t.state = s.state /\ t.queue = <<n>> /\ t.peer = s.peer
    BY <1>1, <1>4 DEF Live
  <2> HIDE DEF t
  <2>3. QueueOK(t) /\ QuietBefore(t)
    BY <1>1, <1>4, <2>1, <2>2 DEF Connected, QueueOK, QuietBefore
  <2>4. Becomes(t)
    BY <2>1 DEF t
  <2>5. QED
    BY <1>a, <2>2, <2>3, <2>4
<1>8. CASE \E n \in Lengths \cup {0} : s.type = "UDP" /\ Becomes([s EXCEPT !.queue = <<n>>])
  <2>1. PICK n \in Lengths \cup {0} : s.type = "UDP" /\ Becomes([s EXCEPT !.queue = <<n>>])
    BY <1>8
  <2> DEFINE t == [s EXCEPT !.queue = <<n>>]
  <2>2. t \in Live /\ t.type = s.type /\ t.state = s.state /\ t.peer = s.peer
    BY <1>1, <1>4 DEF Live
  <2> HIDE DEF t
  <2>3. QueueOK(t) /\ QuietBefore(t)
    BY <1>1, <1>4, <2>1, <2>2 DEF Connected, QueueOK, QuietBefore
  <2>4. Becomes(t)
    BY <2>1 DEF t
  <2>5. QED
    BY <1>a, <2>2, <2>3, <2>4
<1>9. CASE s.state = "listening" /\ Becomes([s EXCEPT !.queue = <<0>>])
  <2> DEFINE t == [s EXCEPT !.queue = <<0>>]
  <2>1. t \in Live /\ t.type = s.type /\ t.state = s.state /\ t.peer = s.peer
    BY <1>4, <1>1 DEF Live
  <2> HIDE DEF t
  <2>2. QueueOK(t) /\ QuietBefore(t)
    BY <1>4, <1>9, <2>1 DEF Connected, QueueOK, QuietBefore
  <2>3. Becomes(t)
    BY <1>9 DEF t
  <2>4. QED
    BY <1>a, <2>1, <2>2, <2>3
<1>10. CASE ~Connected(s) /\ Becomes([s EXCEPT !.queue = <<>>])
  <2> DEFINE t == [s EXCEPT !.queue = <<>>]
  <2>1. t \in Live /\ t.type = s.type /\ t.state = s.state /\ t.queue = <<>> /\ t.peer = s.peer
    BY <1>4, <1>2 DEF Live
  <2> HIDE DEF t
  <2>2. QueueOK(t) /\ QuietBefore(t)
    BY <1>4, <1>10, <2>1 DEF Connected, QueueOK, QuietBefore
  <2>3. Becomes(t)
    BY <1>10 DEF t
  <2>4. QED
    BY <1>a, <2>1, <2>2, <2>3
<1>11. CASE \E p \in {"here", "stalled", "ended"} : Connected(s) /\ Becomes([s EXCEPT !.peer = p])
  <2>1. PICK p \in {"here", "stalled", "ended"} : Connected(s) /\ Becomes([s EXCEPT !.peer = p])
    BY <1>11
  <2> DEFINE t == [s EXCEPT !.peer = p]
  <2>2. t \in Live /\ t.type = s.type /\ t.state = s.state /\ t.queue = s.queue
    BY <1>1, <1>4 DEF Live
  <2> HIDE DEF t
  <2>3. QueueOK(t) /\ QuietBefore(t)
    BY <1>1, <1>4, <2>1, <2>2 DEF Connected, QueueOK, QuietBefore
  <2>4. Becomes(t)
    BY <2>1 DEF t
  <2>5. QED
    BY <1>a, <2>2, <2>3, <2>4
<1>12. CASE Connected(s) /\ Becomes([s EXCEPT !.peer = "reset", !.error = TRUE])
  <2> DEFINE t == [s EXCEPT !.peer = "reset", !.error = TRUE]
  <2>1. t \in Live /\ t.type = s.type /\ t.state = s.state /\ t.queue = s.queue
    BY <1>4 DEF Live
  <2> HIDE DEF t
  <2>2. QueueOK(t) /\ QuietBefore(t)
    BY <1>4, <1>12, <2>1 DEF Connected, QueueOK, QuietBefore
  <2>3. Becomes(t)
    BY <1>12 DEF t
  <2>4. QED
    BY <1>a, <2>1, <2>2, <2>3
<1>13. CASE Becomes([s EXCEPT !.error = TRUE])
  <2> DEFINE t == [s EXCEPT !.error = TRUE]
  <2>1. t \in Live /\ t.type = s.type /\ t.state = s.state /\ t.queue = s.queue /\ t.peer = s.peer
    BY <1>4 DEF Live
  <2> HIDE DEF t
  <2>2. QueueOK(t) /\ QuietBefore(t)
    BY <1>4, <1>13, <2>1 DEF Connected, QueueOK, QuietBefore
  <2>3. Becomes(t)
    BY <1>13 DEF t
  <2>4. QED
    BY <1>a, <2>1, <2>2, <2>3
<1>14. QED
  BY <1>3, <1>5, <1>6, <1>7, <1>8, <1>9, <1>10, <1>11, <1>12, <1>13 DEF s

-----------------------------------------------------------------------------
LEMMA InitSocketInv == Init => SocketInv
<1> SUFFICES ASSUME Init PROVE SocketInv
  OBVIOUS
<1>1. SocketTypeOK
  BY DEF Init, SocketTypeOK
<1>2. SocketsOwned
  BY Distinct DEF Init, SocketsOwned
<1>3. StepsOf /\ CalledRightly
  BY DEF Init, StepsOf, CalledRightly
<1>4. Queues
  BY DEF Init, Queues, QueueOK, QuietBefore, Connected, Free
<1>5. QED
  BY <1>1, <1>2, <1>3, <1>4 DEF SocketInv

\* The connection that is called is open, and its descriptor is one.
LEMMA Called ==
  ASSUME SocketInv, pc # "idle", call.op # "open"
  PROVE  sock \in Fd /\ socket \in Live /\ sock # new /\ call \in Call /\ call.conn \in Conn
         /\ sock # NoFd
<1>1. call \in Call
  BY DEF SocketInv, SocketTypeOK
<1>2. call.conn \in Conn
  BY <1>1, CallShape
<1>3. sock # NoFd /\ sock \in Fd
  BY <1>2 DEF SocketInv, SocketTypeOK, CalledRightly, sock
<1>4. socket # Free /\ sock # new
  BY <1>2, <1>3 DEF SocketInv, SocketsOwned, sock, socket
<1>5. socket \in Live
  BY <1>3, <1>4 DEF SocketInv, SocketTypeOK, socket
<1>6. QED
  BY <1>1, <1>2, <1>3, <1>4, <1>5

\* A descriptor that is open changes its state and remains open.
LEMMA UpdateKeeps ==
  ASSUME SocketInv, NEW f \in Fd, os[f] \in Live, NEW s \in Live,
         QueueOK(s), QuietBefore(s),
         os' = [os EXCEPT ![f] = s], UNCHANGED <<sockets, new, leaked>>
  PROVE  os' \in [Fd -> Live \cup {Free}] /\ SocketsOwned' /\ Queues'
<1>1. os \in [Fd -> Live \cup {Free}]
  BY DEF SocketInv, SocketTypeOK
<1>2. os' \in [Fd -> Live \cup {Free}]
  BY <1>1
<1>3. \A g \in Fd : os'[g] # Free <=> os[g] # Free
  BY <1>1, Distinct
<1>4. SocketsOwned'
  BY <1>3 DEF SocketInv, SocketTypeOK, SocketsOwned, Holds
<1>5. Queues'
  BY <1>1 DEF SocketInv, Queues
<1>6. QED
  BY <1>2, <1>4, <1>5

InHand == {"open_setblocking", "setsockopt", "bind", "accept_setblocking"}

\* A step of a function that makes no descriptor and closes none.
LEMMA KeepsInv ==
  ASSUME SocketInv, Keeps, pc # "idle", pc \notin InHand, call.op # "open",
         \/ os' = os
         \/ \E s \in Live : QueueOK(s) /\ QuietBefore(s) /\ os' = [os EXCEPT ![sock] = s],
         \/ pc' = "idle" /\ call' = NoCall
         \/ /\ pc' \in SystemCalls \cup {"killed"} /\ pc' \notin InHand
            /\ call' = call /\ StepsOf'
  PROVE  SocketInv'
<1>1. sock \in Fd /\ socket \in Live
  BY Called
<1>2. /\ os' \in [Fd -> Live \cup {Free}] /\ SocketsOwned' /\ Queues'
  <2>1. CASE os' = os
    BY <2>1 DEF Keeps, SocketInv, SocketTypeOK, SocketsOwned, Holds, Queues
  <2>2. CASE \E s \in Live : QueueOK(s) /\ QuietBefore(s) /\ os' = [os EXCEPT ![sock] = s]
    BY <1>1, <2>2, UpdateKeeps DEF Keeps, socket
  <2>3. QED
    BY <2>1, <2>2
<1>3. new = NoFd
  BY DEF SocketInv, SocketTypeOK, InHand
<1>4. SocketTypeOK'
  BY <1>2, <1>3, CallShape DEF SocketInv, SocketTypeOK, Keeps, InHand, SystemCalls
<1>5. StepsOf'
  BY DEF StepsOf
<1>6. CalledRightly'
  BY DEF SocketInv, CalledRightly, Keeps
<1>7. QED
  BY <1>2, <1>4, <1>5, <1>6 DEF SocketInv

\* A state that a system call gives to a descriptor.
LEMMA Becomes ==
  ASSUME NEW s \in Live, QueueOK(s), QuietBefore(s)
  PROVE  /\ [s EXCEPT !.error = FALSE] \in Live
         /\ QueueOK([s EXCEPT !.error = FALSE]) /\ QuietBefore([s EXCEPT !.error = FALSE])
         /\ [s EXCEPT !.nonblock = TRUE] \in Live
         /\ QueueOK([s EXCEPT !.nonblock = TRUE]) /\ QuietBefore([s EXCEPT !.nonblock = TRUE])
BY DEF Live, QueueOK, QuietBefore, Connected

\* What recvfrom leaves.
LEMMA Taken ==
  ASSUME NEW s \in Live, QueueOK(s), QuietBefore(s), s.queue # <<>>, NEW m \in Nat,
         s.type = "UDP" \/ s.state = "connected"
  PROVE  LET n == Lesser(m, Head(s.queue))
             rest == IF s.type = "UDP" \/ n = Head(s.queue) THEN <<>> ELSE <<Head(s.queue) - n>>
             t == [s EXCEPT !.queue = rest]
         IN /\ t \in Live /\ QueueOK(t) /\ QuietBefore(t)
            /\ n \in Nat /\ n <= m
            /\ s.type = "TCP" /\ m > 0 => n > 0
<1> DEFINE h == Head(s.queue)
           n == Lesser(m, h)
           rest == IF s.type = "UDP" \/ n = h THEN <<>> ELSE <<h - n>>
           t == [s EXCEPT !.queue = rest]
<1>1. h \in Nat /\ h = s.queue[1]
  BY DEF Live
<1>2. n \in Nat /\ n <= m /\ n <= h /\ (n = m \/ n = h)
  BY <1>1 DEF Lesser
<1>3. rest \in Seq(Nat) /\ (rest # <<>> => rest[1] > 0)
  <2>1. n # h => h - n \in Nat /\ h - n > 0
    BY <1>1, <1>2
  <2>2. ASSUME NEW k \in Nat PROVE <<k>> \in Seq(Nat) /\ <<k>>[1] = k /\ <<>> \in Seq(Nat)
    OBVIOUS
  <2> HIDE DEF n, h
  <2>3. QED
    BY <2>1, <2>2
<1>4. s.type = "TCP" /\ m > 0 => n > 0
  <2>1. s.type = "TCP" => h > 0
    BY <1>1 DEF QueueOK, Live
  <2>2. QED
    BY <1>1, <1>2, <2>1
<1> HIDE DEF rest
<1>5. t \in Live /\ t.queue = rest /\ t.type = s.type /\ t.state = s.state /\ t.peer = s.peer
  BY <1>3 DEF Live
<1> HIDE DEF t
<1>6. QueueOK(t) /\ QuietBefore(t)
  BY <1>3, <1>5 DEF QueueOK, QuietBefore, Connected
<1>7. QED
  BY <1>2, <1>4, <1>5, <1>6 DEF t, rest

LEMMA ConnectInv ==
  ASSUME SocketInv, Connect \/ PollOut \/ SocketError \/ ErrUnset \/ Listen
  PROVE  SocketInv'
<1>1. /\ pc \in {"connect", "poll_out", "so_error", "err_unset", "listen"} /\ Keeps
      /\ call.op \in {"connect", "listen"}
      /\ pc \in {"connect", "poll_out", "so_error", "err_unset"} => call.op = "connect"
  BY DEF Connect, PollOut, SocketError, ErrUnset, Listen, SocketInv, StepsOf
<1>2. sock \in Fd /\ socket \in Live /\ QueueOK(socket) /\ QuietBefore(socket)
  BY <1>1, Called DEF SocketInv, Queues, socket
<1>3. /\ \/ pc' = "idle" /\ call' = NoCall
         \/ /\ pc' \in {"connect", "poll_out", "so_error", "err_unset"} /\ call' = call
            /\ call.op = "connect"
      /\ \/ os' = os
         \/ os' = [os EXCEPT ![sock] = [socket EXCEPT !.error = FALSE]]
         \/ \E v \in {"connecting", "connected", "listening"} :
              /\ os' = [os EXCEPT ![sock] = [socket EXCEPT !.state = v]]
              /\ \/ socket.type = "UDP" \/ socket.state = "closed"
                 \/ socket.state = "listening" /\ v = "listening"
  <2>1. CASE Connect
    BY <1>1, <2>1 DEF Connect, Goes, Returns, socket
  <2>2. CASE PollOut
    BY <1>1, <2>2 DEF PollOut, Goes, Returns, socket
  <2>3. CASE SocketError
    BY <1>1, <2>3 DEF SocketError, Goes, Returns, socket
  <2>4. CASE ErrUnset
    BY <1>1, <2>4 DEF ErrUnset, Goes, Returns, socket
  <2>5. CASE Listen
    BY <1>1, <2>5 DEF Listen, Goes, Returns, socket
  <2>6. QED
    BY <2>1, <2>2, <2>3, <2>4, <2>5
<1>4. \/ os' = os
      \/ \E s \in Live : QueueOK(s) /\ QuietBefore(s) /\ os' = [os EXCEPT ![sock] = s]
  <2>1. CASE os' = [os EXCEPT ![sock] = [socket EXCEPT !.error = FALSE]]
    BY <1>2, <2>1, Becomes
  <2>2. ASSUME NEW v \in {"connecting", "connected", "listening"},
               os' = [os EXCEPT ![sock] = [socket EXCEPT !.state = v]],
               \/ socket.type = "UDP" \/ socket.state = "closed"
               \/ socket.state = "listening" /\ v = "listening"
        PROVE  \E s \in Live : QueueOK(s) /\ QuietBefore(s) /\ os' = [os EXCEPT ![sock] = s]
    <3> DEFINE t == [socket EXCEPT !.state = v]
    <3>1. t \in Live /\ t.type = socket.type /\ t.state = v /\ t.queue = socket.queue
          /\ t.peer = socket.peer
      BY <1>2, <2>2 DEF Live
    <3> HIDE DEF t
    <3>2. QueueOK(t) /\ QuietBefore(t)
      BY <1>2, <2>2, <3>1 DEF QueueOK, QuietBefore, Connected
    <3>3. os' = [os EXCEPT ![sock] = t]
      BY <2>2 DEF t
    <3>4. QED
      BY <3>1, <3>2, <3>3
  <2>3. QED
    BY <1>3, <2>1, <2>2
<1>5. \/ pc' = "idle" /\ call' = NoCall
      \/ /\ pc' \in SystemCalls \cup {"killed"} /\ pc' \notin InHand
         /\ call' = call /\ StepsOf'
  BY <1>3 DEF SystemCalls, InHand, StepsOf
<1>6. pc # "idle" /\ pc \notin InHand /\ call.op # "open"
  BY <1>1 DEF InHand
<1>7. QED
  BY <1>1, <1>4, <1>5, <1>6, KeepsInv

LEMMA TransferInv ==
  ASSUME SocketInv, AcceptPoll \/ RecvPoll \/ SendTo \/ RecvFrom
  PROVE  SocketInv'
<1>1. /\ pc \in {"accept_poll", "recv_poll", "sendto", "recvfrom"} /\ Keeps
      /\ call.op = CASE pc = "accept_poll" -> "accept" [] pc = "sendto" -> "send"
                     [] OTHER -> "recv"
  BY DEF AcceptPoll, RecvPoll, Polls, SendTo, RecvFrom, SocketInv, StepsOf
<1>2. sock \in Fd /\ socket \in Live /\ QueueOK(socket) /\ QuietBefore(socket)
      /\ call \in Call
  BY <1>1, Called DEF SocketInv, Queues, socket
<1>3. /\ \/ pc' = "idle" /\ call' = NoCall
         \/ /\ call' = call
            /\ \/ pc' = "accept" /\ call.op = "accept"
               \/ pc' = "killed" /\ call.op = "send"
               \/ pc' = "recvfrom" /\ call.op = "recv"
      /\ \/ os' = os
         \/ os' = [os EXCEPT ![sock] = [socket EXCEPT !.error = FALSE]]
         \/ /\ socket.queue # <<>> /\ socket.state # "listening"
            /\ Takes(Lesser(call.size, Head(socket.queue)))
  <2>1. CASE AcceptPoll \/ RecvPoll
    BY <1>1, <2>1 DEF AcceptPoll, RecvPoll, Polls, Goes, Returns
  <2>2. CASE SendTo
    BY <1>1, <2>2 DEF SendTo, Goes, Returns, socket
  <2>3. CASE RecvFrom
    BY <1>1, <2>3 DEF RecvFrom, Goes, Returns, socket
  <2>4. QED
    BY <2>1, <2>2, <2>3
<1>4. \/ os' = os
      \/ \E s \in Live : QueueOK(s) /\ QuietBefore(s) /\ os' = [os EXCEPT ![sock] = s]
  <2>1. CASE os' = [os EXCEPT ![sock] = [socket EXCEPT !.error = FALSE]]
    BY <1>2, <2>1, Becomes
  <2>2. CASE /\ socket.queue # <<>> /\ socket.state # "listening"
             /\ Takes(Lesser(call.size, Head(socket.queue)))
    <3> DEFINE n == Lesser(call.size, Head(socket.queue))
               rest == IF socket.type = "UDP" \/ n = Head(socket.queue)
                       THEN <<>> ELSE <<Head(socket.queue) - n>>
               t == [socket EXCEPT !.queue = rest]
    <3>1. socket.type = "UDP" \/ socket.state = "connected"
      BY <1>2, <2>2 DEF QuietBefore, Live
    <3>2. call.size \in Nat
      BY <1>2, CallShape
    <3>3. t \in Live /\ QueueOK(t) /\ QuietBefore(t)
      BY <1>2, <2>2, <3>1, <3>2, Taken
    <3>4. os' = [os EXCEPT ![sock] = t]
      BY <2>2 DEF Takes, socket
    <3>5. QED
      BY <3>3, <3>4
  <2>3. QED
    BY <1>3, <2>1, <2>2
<1>5. \/ pc' = "idle" /\ call' = NoCall
      \/ /\ pc' \in SystemCalls \cup {"killed"} /\ pc' \notin InHand
         /\ call' = call /\ StepsOf'
  BY <1>3 DEF SystemCalls, InHand, StepsOf
<1>6. pc # "idle" /\ pc \notin InHand /\ call.op # "open"
  BY <1>1 DEF InHand
<1>7. QED
  BY <1>1, <1>4, <1>5, <1>6, KeepsInv

LEMMA CallsInv ==
  ASSUME SocketInv, Calls
  PROVE  SocketInv'
<1>1. /\ pc = "idle" /\ call' \in Call /\ UNCHANGED <<os, sockets, new, leaked>>
      /\ sockets[call'.conn] = NoFd <=> call'.op = "open"
      /\ \/ pc' = "socket" /\ call'.op = "open"
         \/ pc' = "close" /\ call'.op = "close"
         \/ pc' = "connect" /\ call'.op = "connect"
         \/ pc' = "listen" /\ call'.op = "listen"
         \/ pc' = "accept_poll" /\ call'.op = "accept"
         \/ pc' = "sendto" /\ call'.op = "send"
         \/ pc' = "recv_poll" /\ call'.op = "recv"
  BY DEF Calls, Begins
<1>2. SocketTypeOK'
  BY <1>1, CallShape DEF SocketInv, SocketTypeOK, SystemCalls
<1>3. SocketsOwned' /\ Queues'
  BY <1>1 DEF SocketInv, SocketsOwned, Holds, Queues
<1>4. StepsOf' /\ CalledRightly'
  BY <1>1 DEF StepsOf, CalledRightly
<1>5. QED
  BY <1>2, <1>3, <1>4 DEF SocketInv

LEMMA EnvironmentInv ==
  ASSUME SocketInv, Environment
  PROVE  SocketInv'
<1>1. PICK f \in Fd : (Holds(f) \/ f = new) /\ Network(f)
  BY DEF Environment
<1>2. os[f] \in Live /\ QueueOK(os[f]) /\ QuietBefore(os[f])
  BY <1>1, Distinct DEF SocketInv, SocketTypeOK, SocketsOwned, Holds, Queues
<1>3. PICK s \in Live : os' = [os EXCEPT ![f] = s] /\ QueueOK(s) /\ QuietBefore(s)
  BY <1>1, <1>2, NetworkKeeps
<1>4. os' \in [Fd -> Live \cup {Free}] /\ SocketsOwned' /\ Queues'
  BY <1>2, <1>3, UpdateKeeps DEF Environment
<1>5. SocketTypeOK' /\ StepsOf' /\ CalledRightly'
  BY <1>4 DEF Environment, SocketInv, SocketTypeOK, StepsOf, CalledRightly
<1>6. QED
  BY <1>4, <1>5 DEF SocketInv

LEMMA SocketStepInv ==
  ASSUME SocketInv, Socket
  PROVE  SocketInv'
<1>1. pc = "socket" /\ call.op = "open" /\ UNCHANGED <<sockets, leaked>> /\ call \in Call
      /\ new = NoFd
  BY DEF Socket, SocketInv, StepsOf, SocketTypeOK
<1>2. CASE Returns(0) /\ UNCHANGED <<os, new>>
  BY <1>1, <1>2, CallShape DEF SocketInv, SocketTypeOK, SocketsOwned, Holds, Queues, StepsOf,
     CalledRightly, Returns, SystemCalls
<1>3. CASE ~(Returns(0) /\ UNCHANGED <<os, new>>)
  <2> DEFINE s == [Free EXCEPT !.type = call.type, !.state = "closed"]
  <2>1. PICK f \in Fd : /\ os[f] = Free /\ new' = f /\ os' = [os EXCEPT ![f] = s]
                        /\ Goes("open_setblocking")
    BY <1>1, <1>3 DEF Socket
  <2>2. s \in Live /\ QueueOK(s) /\ QuietBefore(s)
    <3>1. call.type \in {"TCP", "UDP"}
      BY <1>1 DEF Call
    <3>2. <<>> \in Seq(Nat)
      OBVIOUS
    <3>3. QED
      BY <3>1, <3>2 DEF Live, Free, QueueOK, QuietBefore, Connected
  <2> HIDE DEF s
  <2>3. os' \in [Fd -> Live \cup {Free}] /\ os'[f] # Free
        /\ \A g \in Fd : g # f => os'[g] = os[g]
    BY <2>1, <2>2, Distinct DEF SocketInv, SocketTypeOK
  <2>4. SocketTypeOK'
    BY <1>1, <2>1, <2>3, Distinct DEF SocketInv, SocketTypeOK, Goes, SystemCalls
  <2>5. SocketsOwned'
    <3>1. f \notin leaked
      BY <2>1 DEF SocketInv, SocketsOwned
    <3>2. \A c \in Conn : sockets[c] # f
      BY <2>1, Distinct DEF SocketInv, SocketsOwned
    <3>3. QED
      BY <1>1, <2>1, <2>3, <3>1, <3>2, Distinct DEF SocketInv, SocketTypeOK, SocketsOwned, Holds
  <2>6. Queues'
    BY <2>1, <2>2, <2>3 DEF SocketInv, SocketTypeOK, Queues
  <2>7. StepsOf' /\ CalledRightly'
    BY <1>1, <2>1 DEF SocketInv, StepsOf, CalledRightly, Goes
  <2>8. QED
    BY <2>4, <2>5, <2>6, <2>7 DEF SocketInv
<1>4. QED
  BY <1>2, <1>3

\* The descriptor in hand is closed, and nobody holds it.
LEMMA OpenFailsInv ==
  ASSUME SocketInv, pc \in {"open_setblocking", "setsockopt", "bind"}, OpenFails
  PROVE  SocketInv'
<1>1. /\ new \in Fd /\ new # NoFd /\ os' = [os EXCEPT ![new] = Free] /\ new' = NoFd
      /\ UNCHANGED <<sockets, leaked>> /\ pc' = "idle" /\ call' = NoCall
  BY Distinct DEF SocketInv, SocketTypeOK, OpenFails, Returns
<1>2. os' \in [Fd -> Live \cup {Free}] /\ os'[new] = Free
      /\ \A g \in Fd : g # new => os'[g] = os[g]
  BY <1>1 DEF SocketInv, SocketTypeOK
<1>3. SocketTypeOK'
  BY <1>1, <1>2, CallShape DEF SocketInv, SocketTypeOK
<1>4. SocketsOwned'
  BY <1>1, <1>2 DEF SocketInv, SocketTypeOK, SocketsOwned, Holds
<1>5. Queues'
  BY <1>1, <1>2 DEF SocketInv, Queues, QueueOK, QuietBefore, Connected, Free
<1>6. StepsOf' /\ CalledRightly'
  BY <1>1 DEF StepsOf, CalledRightly
<1>7. QED
  BY <1>3, <1>4, <1>5, <1>6 DEF SocketInv

LEMMA OpenInv ==
  ASSUME SocketInv, OpenSetBlocking \/ SetSockOpt \/ Bind
  PROVE  SocketInv'
<1>1. /\ pc \in {"open_setblocking", "setsockopt", "bind"} /\ call.op = "open"
      /\ call \in Call /\ call.conn \in Conn /\ sockets[call.conn] = NoFd
  BY CallShape DEF OpenSetBlocking, SetSockOpt, Bind, SocketInv, SocketTypeOK, StepsOf,
     CalledRightly
<1>2. new \in Fd /\ new # NoFd /\ os[new] \in Live /\ QueueOK(os[new]) /\ QuietBefore(os[new])
  BY <1>1, Distinct DEF SocketInv, SocketTypeOK, SocketsOwned, Queues
<1>3. CASE OpenFails
  BY <1>1, <1>3, OpenFailsInv
<1>4. CASE OpenSetBlocking /\ ~OpenFails
  <2>1. /\ os' = [os EXCEPT ![new] = [os[new] EXCEPT !.nonblock = TRUE]]
        /\ pc' = "setsockopt" /\ UNCHANGED <<call, sockets, new, leaked>>
    BY <1>4 DEF OpenSetBlocking, Goes, Keeps
  <2>2. os' \in [Fd -> Live \cup {Free}] /\ SocketsOwned' /\ Queues'
    <3> DEFINE t == [os[new] EXCEPT !.nonblock = TRUE]
    <3>1. t \in Live /\ QueueOK(t) /\ QuietBefore(t)
      BY <1>2, Becomes
    <3> HIDE DEF t
    <3>2. os' = [os EXCEPT ![new] = t]
      BY <2>1 DEF t
    <3>3. QED
      BY <1>2, <2>1, <3>1, <3>2, UpdateKeeps
  <2>3. QED
    BY <1>1, <1>2, <2>1, <2>2 DEF SocketInv, SocketTypeOK, StepsOf, CalledRightly, SystemCalls
<1>5. CASE SetSockOpt /\ ~OpenFails
  <2>1. pc' = "bind" /\ UNCHANGED <<os, call, sockets, new, leaked>>
    BY <1>5 DEF SetSockOpt, Goes, Keeps
  <2>2. QED
    BY <1>1, <1>2, <2>1 DEF SocketInv, SocketTypeOK, StepsOf, CalledRightly, SystemCalls,
       SocketsOwned, Holds, Queues
<1>6. CASE Bind /\ ~OpenFails
  <2>1. /\ sockets' = [sockets EXCEPT ![call.conn] = new] /\ new' = NoFd
        /\ UNCHANGED <<os, leaked>> /\ pc' = "idle" /\ call' = NoCall
    BY <1>6 DEF Bind, Returns
  <2>2. /\ sockets' \in [Conn -> Fd \cup {NoFd}] /\ sockets'[call.conn] = new
        /\ \A c \in Conn : c # call.conn => sockets'[c] = sockets[c]
    BY <1>1, <1>2, <2>1 DEF SocketInv, SocketTypeOK
  <2>3. SocketTypeOK'
    BY <2>1, <2>2, CallShape DEF SocketInv, SocketTypeOK
  <2>4. SocketsOwned'
    <3>1. \A f \in Fd : os[f] # Free => Holds(f)' \/ f \in leaked
      BY <1>1, <2>2, Distinct DEF SocketInv, SocketTypeOK, SocketsOwned, Holds
    <3>2. QED
      BY <1>1, <1>2, <2>1, <2>2, <3>1 DEF SocketInv, SocketTypeOK, SocketsOwned
  <2>5. Queues' /\ StepsOf' /\ CalledRightly'
    BY <2>1 DEF SocketInv, Queues, StepsOf, CalledRightly
  <2>6. QED
    BY <2>3, <2>4, <2>5 DEF SocketInv
<1>7. QED
  BY <1>3, <1>4, <1>5, <1>6

LEMMA CloseInv ==
  ASSUME SocketInv, Close
  PROVE  SocketInv'
<1>1. pc = "close" /\ call.op = "close"
  BY DEF Close, SocketInv, StepsOf
<1>2. sock \in Fd /\ socket \in Live /\ sock # new /\ call.conn \in Conn /\ sock # NoFd
  BY <1>1, Called
<1>3. /\ os' = [os EXCEPT ![sock] = Free] /\ sockets' = [sockets EXCEPT ![call.conn] = NoFd]
      /\ UNCHANGED <<new, leaked>> /\ pc' = "idle" /\ call' = NoCall /\ new = NoFd
  BY <1>1 DEF Close, Returns, SocketInv, SocketTypeOK
<1>4. /\ os' \in [Fd -> Live \cup {Free}] /\ os'[sock] = Free
      /\ \A g \in Fd : g # sock => os'[g] = os[g]
      /\ sockets' \in [Conn -> Fd \cup {NoFd}] /\ sockets'[call.conn] = NoFd
      /\ \A c \in Conn : c # call.conn => sockets'[c] = sockets[c]
  BY <1>2, <1>3 DEF SocketInv, SocketTypeOK
<1>5. SocketTypeOK'
  BY <1>3, <1>4, CallShape DEF SocketInv, SocketTypeOK
<1>6. SocketsOwned'
  <2>1. \A c \in Conn : c # call.conn => sockets[c] # sock
    BY <1>2 DEF SocketInv, SocketsOwned, sock
  <2>2. \A f \in Fd : os'[f] # Free => Holds(f)' \/ f \in leaked
    BY <1>2, <1>3, <1>4 DEF SocketInv, SocketTypeOK, SocketsOwned, Holds, sock
  <2>3. sock \notin leaked /\ leaked \subseteq Fd
    BY <1>2 DEF SocketInv, SocketTypeOK, SocketsOwned, sock
  <2>4. QED
    BY <1>2, <1>3, <1>4, <2>1, <2>2, <2>3 DEF SocketInv, SocketTypeOK, SocketsOwned
<1>7. Queues'
  BY <1>2, <1>4 DEF SocketInv, Queues, QueueOK, QuietBefore, Connected, Free
<1>8. StepsOf' /\ CalledRightly'
  BY <1>3 DEF StepsOf, CalledRightly
<1>9. QED
  BY <1>5, <1>6, <1>7, <1>8 DEF SocketInv

LEMMA AcceptInv ==
  ASSUME SocketInv, Accept
  PROVE  SocketInv'
<1>1. pc = "accept" /\ call.op = "accept" /\ UNCHANGED <<sockets, leaked>> /\ new = NoFd
  BY DEF Accept, SocketInv, StepsOf, SocketTypeOK
<1>2. sock \in Fd /\ socket \in Live
  BY <1>1, Called
<1>3. CASE Returns(0) /\ UNCHANGED <<os, new>>
  BY <1>1, <1>3, CallShape DEF SocketInv, SocketTypeOK, SocketsOwned, Holds, Queues, StepsOf,
     CalledRightly, Returns
<1>4. CASE ~(Returns(0) /\ UNCHANGED <<os, new>>)
  <2> DEFINE s == [socket EXCEPT !.queue = <<>>]
             t == [Free EXCEPT !.type = "TCP", !.state = "connected"]
  <2>1. PICK f \in Fd : /\ os[f] = Free /\ new' = f
                        /\ os' = [os EXCEPT ![sock].queue = <<>>, ![f] = t]
                        /\ Goes("accept_setblocking")
    BY <1>1, <1>4 DEF Accept
  <2>2. f # sock
    BY <1>2, <2>1, Distinct DEF socket
  <2>3. <<>> \in Seq(Nat)
    OBVIOUS
  <2>4. s \in Live /\ QueueOK(s) /\ QuietBefore(s)
    BY <1>2, <2>3 DEF Live, QueueOK, QuietBefore, Connected, SocketInv, Queues, socket
  <2>5. t \in Live /\ QueueOK(t) /\ QuietBefore(t)
    BY <2>3 DEF Live, Free, QueueOK, QuietBefore, Connected
  <2>6. os' = [os EXCEPT ![sock] = s, ![f] = t]
    BY <2>1 DEF socket
  <2> HIDE DEF s, t
  <2>7. /\ os' \in [Fd -> Live \cup {Free}] /\ os'[f] = t /\ os'[sock] = s
        /\ \A g \in Fd : g # f /\ g # sock => os'[g] = os[g]
    BY <1>2, <2>2, <2>4, <2>5, <2>6 DEF SocketInv, SocketTypeOK
  <2>8. \A g \in Fd : g # f => (os'[g] # Free <=> os[g] # Free)
    BY <1>2, <2>4, <2>7, Distinct DEF socket
  <2>9. os'[f] # Free
    BY <2>5, <2>7, Distinct
  <2>10. SocketTypeOK'
    BY <1>1, <2>1, <2>7, Distinct DEF SocketInv, SocketTypeOK, Goes, SystemCalls
  <2>11. SocketsOwned'
    <3>1. f \notin leaked
      BY <2>1 DEF SocketInv, SocketsOwned
    <3>2. \A c \in Conn : sockets[c] # f
      BY <2>1, Distinct DEF SocketInv, SocketsOwned
    <3>3. QED
      BY <1>1, <2>1, <2>8, <2>9, <3>1, <3>2, Distinct DEF SocketInv, SocketTypeOK, SocketsOwned,
         Holds
  <2>12. Queues'
    BY <2>4, <2>5, <2>7 DEF SocketInv, Queues
  <2>13. StepsOf' /\ CalledRightly'
    BY <1>1, <2>1 DEF SocketInv, StepsOf, CalledRightly, Goes
  <2>14. QED
    BY <2>10, <2>11, <2>12, <2>13 DEF SocketInv
<1>5. QED
  BY <1>3, <1>4

LEMMA AcceptSetBlockingInv ==
  ASSUME SocketInv, AcceptSetBlocking
  PROVE  SocketInv'
<1>1. pc = "accept_setblocking" /\ call.op = "accept" /\ new' = NoFd /\ pc' = "idle"
      /\ call' = NoCall
  BY DEF AcceptSetBlocking, Returns, SocketInv, StepsOf
<1>2. /\ sock \in Fd /\ socket \in Live /\ sock # new /\ call.conn \in Conn /\ sock # NoFd
      /\ sock = sockets[call.conn]
  BY <1>1, Called DEF sock
<1>3. new \in Fd /\ new # NoFd /\ os[new] \in Live /\ QueueOK(os[new]) /\ QuietBefore(os[new])
      /\ new \notin leaked /\ leaked \subseteq Fd
  BY <1>1, Distinct DEF SocketInv, SocketTypeOK, SocketsOwned, Queues
<1>4. StepsOf' /\ CalledRightly'
  BY <1>1 DEF StepsOf, CalledRightly
<1>5. CASE leaked' = leaked \cup {new} /\ UNCHANGED <<os, sockets>>
  <2>1. SocketTypeOK'
    BY <1>1, <1>3, <1>5, CallShape DEF SocketInv, SocketTypeOK
  <2>2. SocketsOwned'
    <3>1. \A c \in Conn : sockets[c] # NoFd => sockets[c] # new
      BY DEF SocketInv, SocketsOwned
    <3>2. \A f \in Fd : os[f] # Free => Holds(f)' \/ f \in leaked'
      BY <1>5 DEF SocketInv, SocketsOwned, Holds
    <3>3. QED
      BY <1>1, <1>3, <1>5, <3>1, <3>2, Distinct DEF SocketInv, SocketTypeOK, SocketsOwned
  <2>3. Queues'
    BY <1>5 DEF SocketInv, Queues
  <2>4. QED
    BY <1>4, <2>1, <2>2, <2>3 DEF SocketInv
<1>6. CASE ~(leaked' = leaked \cup {new} /\ UNCHANGED <<os, sockets>>)
  <2> DEFINE t == [os[new] EXCEPT !.nonblock = TRUE]
  <2>1. /\ os' = [os EXCEPT ![sock] = Free, ![new] = t] /\ UNCHANGED leaked
        /\ sockets' = [sockets EXCEPT ![call.conn] = new]
    BY <1>2, <1>6 DEF AcceptSetBlocking
  <2>2. t \in Live /\ QueueOK(t) /\ QuietBefore(t)
    BY <1>3, Becomes
  <2> HIDE DEF t
  <2>3. /\ os' \in [Fd -> Live \cup {Free}] /\ os'[sock] = Free /\ os'[new] = t
        /\ \A g \in Fd : g # sock /\ g # new => os'[g] = os[g]
        /\ sockets' \in [Conn -> Fd \cup {NoFd}] /\ sockets'[call.conn] = new
        /\ \A c \in Conn : c # call.conn => sockets'[c] = sockets[c]
    BY <1>2, <1>3, <2>1, <2>2 DEF SocketInv, SocketTypeOK
  <2>4. os'[new] # Free
    BY <2>2, <2>3, Distinct
  <2>5. SocketTypeOK'
    BY <1>1, <2>1, <2>3, CallShape DEF SocketInv, SocketTypeOK
  <2>6. \A c \in Conn : c # call.conn /\ sockets[c] # NoFd =>
          sockets[c] # sock /\ sockets[c] # new /\ sockets[c] \in Fd
    BY <1>2 DEF SocketInv, SocketTypeOK, SocketsOwned
  <2>7. sock \notin leaked
    BY <1>2 DEF SocketInv, SocketsOwned
  <2>8. SocketsOwned'
    <3>1. \A f \in Fd : os'[f] # Free => Holds(f)' \/ f \in leaked
      <4> SUFFICES ASSUME NEW f \in Fd, os'[f] # Free, f # new, f \notin leaked
                   PROVE  Holds(f)'
        BY <1>2, <2>3 DEF Holds
      <4>1. f # sock /\ os[f] # Free
        BY <2>3
      <4>2. PICK c \in Conn : sockets[c] = f
        BY <4>1 DEF SocketInv, SocketsOwned, Holds
      <4>3. sockets'[c] = f
        BY <1>2, <2>3, <4>1, <4>2
      <4>4. QED
        BY <4>3 DEF Holds
    <3>2. \A c \in Conn : sockets'[c] # NoFd =>
            /\ os'[sockets'[c]] # Free /\ sockets'[c] # NoFd /\ sockets'[c] \notin leaked
            /\ \A d \in Conn : sockets'[d] = sockets'[c] => d = c
      <4> SUFFICES ASSUME NEW c \in Conn, sockets'[c] # NoFd
                   PROVE  /\ os'[sockets'[c]] # Free /\ sockets'[c] \notin leaked
                          /\ \A d \in Conn : sockets'[d] = sockets'[c] => d = c
        OBVIOUS
      <4>1. CASE c = call.conn
        BY <1>3, <2>3, <2>4, <2>6, <4>1
      <4>2. CASE c # call.conn
        BY <1>3, <2>3, <2>6, <4>2 DEF SocketInv, SocketsOwned
      <4>3. QED
        BY <4>1, <4>2
    <3>3. \A f \in leaked : os'[f] # Free
      BY <1>3, <2>3, <2>7 DEF SocketInv, SocketsOwned
    <3>4. QED
      BY <1>1, <2>1, <3>1, <3>2, <3>3 DEF SocketsOwned
  <2>9. Queues'
    BY <1>2, <1>3, <2>2, <2>3 DEF SocketInv, Queues, QueueOK, QuietBefore, Connected, Free
  <2>10. QED
    BY <1>4, <2>5, <2>8, <2>9 DEF SocketInv
<1>7. QED
  BY <1>5, <1>6

LEMMA SocketInvariant == Spec => []SocketInv
<1>1. SocketInv /\ [Next]_vars => SocketInv'
  <2> SUFFICES ASSUME SocketInv, [Next]_vars PROVE SocketInv'
    OBVIOUS
  <2>1. CASE Next
    BY <2>1, CallsInv, EnvironmentInv, SocketStepInv, OpenInv, CloseInv, ConnectInv, TransferInv,
       AcceptInv, AcceptSetBlockingInv DEF Next, Bridge
  <2>2. CASE UNCHANGED vars
    BY <2>2 DEF vars, SocketInv, SocketTypeOK, SocketsOwned, Holds, StepsOf, CalledRightly, Queues
  <2>3. QED
    BY <2>1, <2>2
<1>2. QED
  BY <1>1, InitSocketInv, PTL DEF Spec

\* The sockets' state has its type.
THEOREM SocketTypeCorrect == Spec => []SocketTypeOK
<1>1. SocketInv => SocketTypeOK
  BY DEF SocketInv
<1>2. QED
  BY <1>1, SocketInvariant, PTL

\* No descriptor is lost or shared, except for those that accept leaks.
THEOREM SocketsOwnedHolds == Spec => []SocketsOwned
<1>1. SocketInv => SocketsOwned
  BY DEF SocketInv
<1>2. QED
  BY <1>1, SocketInvariant, PTL
-----------------------------------------------------------------------------
\* Where a step leaves the calls of the abstract specification alone, or ends one.
LEMMA AbstractStep ==
  ASSUME SocketInv, [Next]_vars
  PROVE  [Abstract!Next]_(Abstract!vars)
<1> DEFINE Open == {c \in Conn : sockets[c] # NoFd}
<1>1. CASE UNCHANGED <<sockets, call, returned>>
  BY <1>1 DEF Abstract!vars
<1>2. CASE Calls
  <2>1. /\ pc = "idle" /\ call' \in Call /\ returned' = 0 /\ sockets' = sockets
        /\ sockets[call'.conn] = NoFd <=> call'.op = "open"
    BY <1>2 DEF Calls, Begins
  <2>2. call = NoCall /\ call'.conn \in Conn
    BY <2>1, CallShape DEF SocketInv, SocketTypeOK
  <2>3. Abstract!Begin(call')
    BY <2>1, <2>2 DEF Abstract!Begin
  <2>4. QED
    BY <2>1, <2>3 DEF Abstract!Next
<1>3. CASE /\ pc \in SystemCalls /\ call' = NoCall /\ returned' \in Abstract!Results(call)
           /\ \/ sockets' = sockets /\ call.op # "close" /\ ~(call.op = "open" /\ returned' = 1)
              \/ /\ call.op = "open" /\ returned' = 1 /\ new # NoFd
                 /\ sockets' = [sockets EXCEPT ![call.conn] = new]
              \/ /\ call.op = "close"
                 /\ sockets' = [sockets EXCEPT ![call.conn] = NoFd]
              \/ /\ call.op = "accept" /\ new # NoFd
                 /\ sockets' = [sockets EXCEPT ![call.conn] = new]
  <2>1. call # NoCall /\ call \in Call /\ call.conn \in Conn
    BY <1>3, CallShape DEF SocketInv, SocketTypeOK, SystemCalls
  <2>2. sockets[call.conn] = NoFd <=> call.op = "open"
    BY <1>3 DEF SocketInv, CalledRightly, SystemCalls
  <2>3. Open' = CASE call.op = "open" /\ returned' = 1 -> Open \cup {call.conn}
                  [] call.op = "close" -> Open \ {call.conn}
                  [] OTHER -> Open
    <3>1. CASE sockets' = sockets /\ call.op # "close" /\ ~(call.op = "open" /\ returned' = 1)
      BY <3>1
    <3>2. CASE /\ call.op = "open" /\ returned' = 1 /\ new # NoFd
               /\ sockets' = [sockets EXCEPT ![call.conn] = new]
      BY <2>1, <3>2 DEF SocketInv, SocketTypeOK
    <3>3. CASE call.op = "close" /\ sockets' = [sockets EXCEPT ![call.conn] = NoFd]
      BY <2>1, <3>3 DEF SocketInv, SocketTypeOK
    <3>4. CASE /\ call.op = "accept" /\ new # NoFd
               /\ sockets' = [sockets EXCEPT ![call.conn] = new]
      BY <2>1, <2>2, <3>4 DEF SocketInv, SocketTypeOK
    <3>5. QED
      BY <1>3, <3>1, <3>2, <3>3, <3>4
  <2>4. Abstract!End
    BY <1>3, <2>1, <2>3 DEF Abstract!End
  <2>5. QED
    BY <2>4 DEF Abstract!Next
<1>4. CASE Environment \/ UNCHANGED vars
  BY <1>1, <1>4 DEF Environment, vars
<1>5. CASE Socket \/ OpenSetBlocking \/ SetSockOpt \/ Bind
  <2>1. pc \in SystemCalls /\ call.op = "open"
    BY <1>5 DEF Socket, OpenSetBlocking, SetSockOpt, Bind, SystemCalls, SocketInv, StepsOf
  <2>2. Abstract!Results(call) = {0, 1}
    BY <2>1 DEF Abstract!Results
  <2>3. pc = "bind" => new # NoFd
    BY DEF SocketInv, SocketTypeOK
  <2>4. QED
    BY <1>1, <1>3, <1>5, <2>1, <2>2, <2>3
    DEF Socket, OpenSetBlocking, SetSockOpt, Bind, OpenFails, Goes, Returns, Keeps
<1>6. CASE Close
  <2>1. call.op = "close" /\ pc \in SystemCalls
    BY <1>6 DEF Close, SocketInv, StepsOf, SystemCalls
  <2>2. Abstract!Results(call) = {0}
    BY <2>1 DEF Abstract!Results
  <2>3. QED
    BY <1>3, <1>6, <2>1, <2>2 DEF Close, Returns
<1>7. CASE Connect \/ PollOut \/ SocketError \/ ErrUnset
  <2>1. call.op = "connect" /\ pc \in SystemCalls
    BY <1>7 DEF Connect, PollOut, SocketError, ErrUnset, SocketInv, StepsOf, SystemCalls
  <2>2. Abstract!Results(call) = {-1, 0, 1}
    BY <2>1 DEF Abstract!Results
  <2>3. QED
    BY <1>1, <1>3, <1>7, <2>1, <2>2
    DEF Connect, PollOut, SocketError, ErrUnset, Goes, Returns, Keeps
<1>8. CASE Listen \/ AcceptPoll \/ Accept \/ AcceptSetBlocking
  <2>1. /\ call.op \in {"listen", "accept"} /\ pc \in SystemCalls
        /\ pc = "accept_setblocking" => new # NoFd /\ call.op = "accept"
    BY <1>8 DEF Listen, AcceptPoll, Polls, Accept, AcceptSetBlocking, SocketInv, StepsOf,
       SystemCalls, SocketTypeOK
  <2>2. Abstract!Results(call) = {0, 1}
    <3>1. CASE call.op = "listen"
      BY <3>1 DEF Abstract!Results
    <3>2. CASE call.op = "accept"
      BY <3>2 DEF Abstract!Results
    <3>3. QED
      BY <2>1, <3>1, <3>2
  <2>3. CASE Listen \/ AcceptPoll \/ Accept
    BY <1>1, <1>3, <2>1, <2>2, <2>3 DEF Listen, AcceptPoll, Polls, Accept, Goes, Returns, Keeps
  <2>4. CASE AcceptSetBlocking
    <3>1. /\ pc = "accept_setblocking" /\ call' = NoCall /\ returned' \in {0, 1}
          /\ sockets' = sockets \/ sockets' = [sockets EXCEPT ![call.conn] = new]
      BY <2>4 DEF AcceptSetBlocking, Returns
    <3>2. QED
      BY <1>3, <2>1, <2>2, <3>1
  <2>5. QED
    BY <1>8, <2>3, <2>4
<1>9. CASE SendTo
  <2>1. call.op = "send" /\ pc \in SystemCalls /\ call.size \in Nat
    BY <1>9, CallShape DEF SendTo, SocketInv, StepsOf, SocketTypeOK, SystemCalls
  <2>2. Abstract!Results(call) = -1..call.size
    BY <2>1 DEF Abstract!Results
  <2>3. \A n \in 0..call.size : n \in -1..call.size
    BY <2>1
  <2>4. -1 \in -1..call.size /\ 0 \in -1..call.size
    BY <2>1
  <2>5. QED
    BY <1>1, <1>3, <1>9, <2>1, <2>2, <2>3, <2>4 DEF SendTo, Goes, Returns, Keeps
<1>10. CASE RecvPoll
  <2>1. call.op = "recv" /\ pc \in SystemCalls /\ call.size \in Nat
    BY <1>10, CallShape DEF RecvPoll, Polls, SocketInv, StepsOf, SocketTypeOK, SystemCalls
  <2>2. 0 \in Abstract!Results(call)
    BY <2>1 DEF Abstract!Results
  <2>3. QED
    BY <1>1, <1>3, <1>10, <2>1, <2>2 DEF RecvPoll, Polls, Goes, Returns, Keeps
<1>11. CASE RecvFrom
  <2>1. call.op = "recv" /\ pc = "recvfrom" /\ pc \in SystemCalls /\ call.size \in Nat
    BY <1>11, CallShape DEF RecvFrom, SocketInv, StepsOf, SocketTypeOK, SystemCalls
  <2>2. Abstract!Results(call) = -2..call.size
    BY <2>1 DEF Abstract!Results
  <2>3. -2 \in -2..call.size /\ -1 \in -2..call.size /\ 0 \in -2..call.size
    BY <2>1
  <2>4. socket \in Live /\ QueueOK(socket) /\ QuietBefore(socket)
    BY <2>1, Called DEF SocketInv, Queues, socket
  <2>5. socket.queue # <<>> /\ socket.state # "listening" =>
          Lesser(call.size, Head(socket.queue)) \in -2..call.size
    <3>1. socket.queue # <<>> => Head(socket.queue) \in Nat
      BY <2>4 DEF Live
    <3>2. QED
      BY <2>1, <3>1 DEF Lesser
  <2>6. QED
    BY <1>3, <1>11, <2>1, <2>2, <2>3, <2>5 DEF RecvFrom, Returns, Keeps
<1>12. QED
  BY <1>2, <1>4, <1>5, <1>6, <1>7, <1>8, <1>9, <1>10, <1>11 DEF Next, Bridge

\* The socket layer is, to the rest of the bridge, what GbridgeBridge takes it
\* for: every step of a function ends its call as SocketCalls allows or leaves
\* the connections alone.
THEOREM CallsImplemented == Spec => ImplementsCalls
<1>1. Init => Abstract!Init
  <2> SUFFICES ASSUME Init PROVE Abstract!Init
    OBVIOUS
  <2>1. {c \in Conn : sockets[c] # NoFd} = {}
    BY DEF Init
  <2>2. QED
    BY <2>1 DEF Init, Abstract!Init
<1>2. QED
  BY <1>1, AbstractStep, SocketInvariant, PTL DEF Spec, ImplementsCalls, Abstract!Spec
-----------------------------------------------------------------------------
\* While connect waits for an attempt and asks how it ended, the attempt goes
\* on, or has succeeded, or has failed with an error still to be told.
Undecided(s) ==
  s.state \in {"connecting", "connected"} \/ (s.state = "closed" /\ s.error = TRUE)

Attempt ==
  /\ pc \in {"poll_out", "so_error"} => Undecided(socket)
  /\ pc = "so_error" => socket.state # "connecting"

\* The network takes no error back and begins no attempt.
LEMMA NetworkTells ==
  ASSUME NEW f \in Fd, os \in [Fd -> Live \cup {Free}], os[f] \in Live, Network(f)
  PROVE  /\ os[f].error = TRUE => os'[f].error = TRUE
         /\ os'[f].state = "connecting" => os[f].state = "connecting"
         /\ Undecided(os[f]) => Undecided(os'[f])
         /\ \A g \in Fd : g # f => os'[g] = os[g]
<1> DEFINE s == os[f]
<1>1. PICK t : /\ os' = [os EXCEPT ![f] = t]
               /\ \/ s.state = "connecting" /\ t = [s EXCEPT !.state = "connected"]
                  \/ t = [s EXCEPT !.state = "closed", !.error = TRUE]
                  \/ \E q : t = [s EXCEPT !.queue = q]
                  \/ \E p : t = [s EXCEPT !.peer = p]
                  \/ t = [s EXCEPT !.peer = "reset", !.error = TRUE]
                  \/ t = [s EXCEPT !.error = TRUE]
  BY DEF Network, Changes
<1>2. os'[f] = t /\ \A g \in Fd : g # f => os'[g] = os[g]
  BY <1>1
<1> HIDE DEF s
<1>3. s \in Live
  BY DEF s
<1>4. /\ s.error = TRUE => t.error = TRUE
      /\ t.state = "connecting" => s.state = "connecting"
      /\ Undecided(s) => Undecided(t)
  BY <1>1, <1>3 DEF Live, Undecided
<1>5. QED
  BY <1>2, <1>4 DEF s

LEMMA AttemptStep ==
  ASSUME SocketInv, Attempt, [Next]_vars
  PROVE  Attempt'
<1> SUFFICES ASSUME pc' \in {"poll_out", "so_error"} PROVE Attempt'
  BY DEF Attempt
<1>1. CASE UNCHANGED vars
  BY <1>1 DEF vars, Attempt, sock, socket
<1>2. CASE Environment
  <2>1. pc' = pc /\ sock' = sock /\ call.op # "open" /\ pc # "idle"
    BY <1>2 DEF Environment, sock, SocketInv, StepsOf
  <2>2. sock \in Fd /\ socket \in Live
    BY <2>1, Called
  <2>3. PICK f \in Fd : (Holds(f) \/ f = new) /\ Network(f)
    BY <1>2 DEF Environment
  <2>4. os[f] \in Live /\ os \in [Fd -> Live \cup {Free}]
    BY <2>3, Distinct DEF SocketInv, SocketTypeOK, SocketsOwned, Holds
  <2>5. /\ Undecided(socket) => Undecided(os'[sock])
        /\ os'[sock].state = "connecting" => socket.state = "connecting"
    BY <2>2, <2>3, <2>4, NetworkTells DEF socket
  <2>6. QED
    BY <2>1, <2>5 DEF Attempt, socket
<1>3. CASE Connect
  <2>1. sock \in Fd /\ socket \in Live /\ sock' = sock
    BY <1>3, Called DEF Connect, Keeps, SocketInv, StepsOf, Goes, Returns, sock
  <2>2. /\ pc' = "poll_out"
        /\ \/ os' = os /\ socket.state = "connecting"
           \/ os' = [os EXCEPT ![sock] = [socket EXCEPT !.state = "connecting"]]
    BY <1>3, <2>1 DEF Connect, Goes, Returns, socket
  <2>3. [socket EXCEPT !.state = "connecting"].state = "connecting"
    BY <2>1 DEF Live
  <2>4. socket'.state = "connecting"
    BY <2>1, <2>2, <2>3 DEF socket, SocketInv, SocketTypeOK
  <2>5. QED
    BY <2>2, <2>4 DEF Attempt, Undecided
<1>4. CASE PollOut
  <2>1. pc = "poll_out" /\ pc' = "so_error" /\ UNCHANGED <<os, sockets, call>>
        /\ socket.state # "connecting"
    BY <1>4 DEF PollOut, Goes, Returns, Keeps
  <2>2. QED
    BY <2>1 DEF Attempt, sock, socket
<1>5. CASE Next /\ ~Environment /\ ~Connect /\ ~PollOut
  BY <1>5 DEF Next, Calls, Begins, Bridge, Socket, OpenSetBlocking, SetSockOpt, Bind, OpenFails,
     Close, SocketError, ErrUnset, Listen, AcceptPoll, Polls, Accept, AcceptSetBlocking,
     SendTo, RecvPoll, RecvFrom, Goes, Returns
<1>6. QED
  BY <1>1, <1>2, <1>3, <1>4, <1>5

LEMMA AttemptInvariant == Spec => []Attempt
<1>1. Init => Attempt
  BY DEF Init, Attempt
<1>2. QED
  BY <1>1, AttemptStep, SocketInvariant, PTL DEF Spec

\* A connection that is reported is there, if the error could be asked for.
THEOREM ConnectIsTrueHolds == Spec => ConnectIsTrue
<1> DEFINE A == Ends("connect", 1) /\ pc # "err_unset" => os'[sock].state = "connected"
<1>1. SocketInv /\ Attempt /\ [Next]_vars => [A]_vars
  <2> SUFFICES ASSUME SocketInv, Attempt, Next, Ends("connect", 1),
                      pc # "err_unset"
               PROVE  os'[sock].state = "connected"
    BY DEF Ends
  <2>1. pc \in {"connect", "poll_out", "so_error", "err_unset"} /\ pc' = "idle" /\ returned' = 1
        /\ call.op = "connect" /\ pc # "idle"
    BY DEF Ends, SocketInv, SocketTypeOK, StepsOf, SystemCalls
  <2>2. sock \in Fd /\ socket \in Live /\ os \in [Fd -> Live \cup {Free}]
    BY <2>1, Called DEF SocketInv, SocketTypeOK
  <2>3. Connect \/ PollOut \/ SocketError
    BY <2>1 DEF Next, Calls, Begins, Environment, Bridge, Socket, OpenSetBlocking, SetSockOpt,
       Bind, Close, ErrUnset, Listen, AcceptPoll, Polls, Accept, AcceptSetBlocking, SendTo,
       RecvPoll, RecvFrom
  <2>4. CASE Connect
    <3>1. \/ os' = os /\ socket.state = "connected"
          \/ os' = [os EXCEPT ![sock] = [socket EXCEPT !.state = "connected"]]
      BY <2>1, <2>4 DEF Connect, Goes, Returns, Connected, socket
    <3>2. [socket EXCEPT !.state = "connected"].state = "connected"
      BY <2>2 DEF Live
    <3>3. QED
      BY <2>2, <3>1, <3>2 DEF socket
  <2>5. CASE PollOut
    BY <2>1, <2>5 DEF PollOut, Goes, Returns
  <2>6. CASE SocketError
    <3>1. socket.error = FALSE /\ os' = [os EXCEPT ![sock].error = FALSE] /\ pc = "so_error"
      BY <2>1, <2>2, <2>6 DEF SocketError, Returns, Goes, Live
    <3>2. socket.state = "connected"
      BY <3>1 DEF Attempt, Undecided
    <3>3. QED
      BY <2>2, <3>1, <3>2 DEF socket, Live
  <2>7. QED
    BY <2>3, <2>4, <2>5, <2>6
<1>2. QED
  BY <1>1, AttemptInvariant, SocketInvariant, PTL DEF Spec, ConnectIsTrue

\* If no size is 0, a connection is given up only when its peer has ended it and
\* everything it sent has been received.
THEOREM DisconnectIsRealHolds == 0 \notin Sizes => (Spec => DisconnectIsReal)
<1> SUFFICES ASSUME 0 \notin Sizes PROVE Spec => DisconnectIsReal
  OBVIOUS
<1> DEFINE A == Ends("recv", -2) => Connected(socket) /\ ~Alive(socket) /\ socket.queue = <<>>
<1>1. SocketInv /\ [Next]_vars => [A]_vars
  <2> SUFFICES ASSUME SocketInv, Next, Ends("recv", -2)
               PROVE  Connected(socket) /\ ~Alive(socket) /\ socket.queue = <<>>
    BY DEF Ends
  <2>1. pc \in {"recv_poll", "recvfrom"} /\ pc' = "idle" /\ returned' = -2
        /\ call.op = "recv" /\ pc # "idle"
    BY DEF Ends, SocketInv, SocketTypeOK, StepsOf, SystemCalls
  <2>2. /\ sock \in Fd /\ socket \in Live /\ QueueOK(socket) /\ QuietBefore(socket)
        /\ call \in Call
    BY <2>1, Called DEF SocketInv, Queues, socket
  <2>3. RecvPoll \/ RecvFrom
    BY <2>1 DEF Next, Calls, Begins, Environment, Bridge, Socket, OpenSetBlocking, SetSockOpt,
       Bind, Close, Connect, PollOut, SocketError, ErrUnset, Listen, AcceptPoll, Polls, Accept,
       AcceptSetBlocking, SendTo
  <2>4. returned' # 0 /\ returned' # -1
    BY <2>1
  <2>5. RecvFrom
    <3>1. ~RecvPoll
      BY <2>1 DEF RecvPoll, Polls, Goes, Returns
    <3>2. QED
      BY <2>3, <3>1
  <2>6. CASE NothingToRead /\ ~Alive(socket)
    BY <2>2, <2>6 DEF NothingToRead, Alive, QuietBefore, Connected
  <2>7. CASE /\ socket.queue # <<>> /\ socket.state # "listening"
             /\ Returns(IF Lesser(call.size, Head(socket.queue)) = 0 /\ socket.type = "TCP"
                        THEN -2 ELSE Lesser(call.size, Head(socket.queue)))
    <3> DEFINE n == Lesser(call.size, Head(socket.queue))
    <3>1. call.size \in Nat /\ call.size > 0
      <4>1. call.size \in Sizes /\ Sizes \subseteq Nat
        BY <2>1, <2>2, SocketAssumption DEF Call, SocketAssumption
      <4>2. ASSUME NEW k \in Sizes, Sizes \subseteq Nat
            PROVE  k \in Nat /\ k > 0
        <5>1. k \in Nat /\ k # 0
          BY <4>2
        <5>2. QED
          BY <5>1
      <4>3. QED
        BY <4>1, <4>2
    <3>2. socket.type = "UDP" \/ socket.state = "connected"
      BY <2>2, <2>7 DEF QuietBefore, Live
    <3>3. n \in Nat /\ (socket.type = "TCP" => n > 0)
      BY <2>2, <2>7, <3>1, <3>2, Taken
    <3> HIDE DEF n
    <3>4. returned' = n
      BY <2>7, <3>3 DEF Returns, n
    <3>5. QED
      BY <2>1, <3>3, <3>4
  <2>8. QED
    BY <2>1, <2>4, <2>5, <2>6, <2>7 DEF RecvFrom, Returns
<1>2. QED
  BY <1>1, SocketInvariant, PTL DEF Spec, DisconnectIsReal
-----------------------------------------------------------------------------
\* Of one descriptor: it keeps its pending error, is closed, or the call reports it.
Told(f) ==
  os[f].error = TRUE /\ ~os'[f].error => os'[f] = Free \/ Ends(call.op, -1)

\* A system call that puts t in the place of one descriptor, free or open.
LEMMA PlacedTold ==
  ASSUME os \in [Fd -> Live \cup {Free}], NEW g \in Fd, NEW t,
         os' = [os EXCEPT ![g] = t],
         t = Free \/ os[g] = Free \/ t.error = os[g].error
  PROVE  \A f \in Fd : Told(f)
<1> SUFFICES ASSUME NEW f \in Fd, os[f].error = TRUE, ~os'[f].error PROVE os'[f] = Free
  BY DEF Told
<1>1. f = g /\ os'[f] = t
  BY SMTT(30)
<1>2. Free.error = FALSE
  BY DEF Free
<1>3. QED
  BY <1>1, <1>2

\* An error never goes unnoticed: the call that clears it says so.
THEOREM ErrorReportedHolds == Spec => ErrorReported
<1> DEFINE A == \A f \in Fd : os[f].error /\ ~os'[f].error => os'[f] = Free \/ Ends(call.op, -1)
<1>1. SocketInv /\ [Next]_vars => [A]_vars
  <2> SUFFICES ASSUME SocketInv, Next PROVE A
    OBVIOUS
  <2>0. os \in [Fd -> Live \cup {Free}] /\ \A f \in Fd : os[f].error \in BOOLEAN
    <3>1. Free.error = FALSE
      BY DEF Free
    <3>2. \A s \in Live : s.error \in BOOLEAN
      BY DEF Live
    <3>3. QED
      BY <3>1, <3>2 DEF SocketInv, SocketTypeOK
  <2> SUFFICES \A f \in Fd : Told(f)
    BY <2>0 DEF Told
  <2>1. CASE UNCHANGED os
    BY <2>1 DEF Told
  <2>2. CASE Environment
    <3>1. PICK g \in Fd : (Holds(g) \/ g = new) /\ Network(g)
      BY <2>2 DEF Environment
    <3>2. os[g] \in Live
      BY <3>1, Distinct DEF SocketInv, SocketTypeOK, SocketsOwned, Holds
    <3>3. os[g].error = TRUE => os'[g].error = TRUE
      BY <2>0, <3>1, <3>2, NetworkTells
    <3>4. \A f \in Fd : f # g => os'[f] = os[f]
      BY <2>0, <3>1, <3>2, NetworkTells
    <3>5. QED
      BY <3>3, <3>4 DEF Told
  <2>3. CASE Socket /\ os' # os
    <3> DEFINE t == [Free EXCEPT !.type = call.type, !.state = "closed"]
    <3>1. PICK f \in Fd : os[f] = Free /\ os' = [os EXCEPT ![f] = t]
      BY <2>3 DEF Socket
    <3> HIDE DEF t
    <3>2. QED
      BY <2>0, <3>1, PlacedTold
  <2>4. CASE (OpenSetBlocking \/ SetSockOpt \/ Bind) /\ os' # os
    <3>1. pc \in {"open_setblocking", "setsockopt", "bind"} /\ new \in Fd
      BY <2>4, Distinct DEF OpenSetBlocking, SetSockOpt, Bind, SocketInv, SocketTypeOK
    <3>2. \/ os' = [os EXCEPT ![new] = Free]
          \/ os' = [os EXCEPT ![new] = [os[new] EXCEPT !.nonblock = TRUE]]
      BY <2>4 DEF OpenSetBlocking, SetSockOpt, Bind, OpenFails
    <3>3. [os[new] EXCEPT !.nonblock = TRUE].error = os[new].error
      BY <2>0, <3>1 DEF Live, Free
    <3>4. QED
      BY <2>0, <3>1, <3>2, <3>3, PlacedTold
  <2>5. CASE Close
    <3>1. sock \in Fd /\ os' = [os EXCEPT ![sock] = Free]
      BY <2>5, Called DEF Close, SocketInv, StepsOf
    <3>2. QED
      BY <2>0, <3>1, PlacedTold
  <2>6. CASE (Connect \/ SocketError \/ Listen \/ SendTo \/ RecvFrom) /\ os' # os
    <3>1. /\ pc \in {"connect", "so_error", "listen", "sendto", "recvfrom"}
          /\ sock \in Fd /\ socket \in Live /\ os[sock] = socket
      BY <2>6, Called
      DEF Connect, SocketError, Listen, SendTo, RecvFrom, SocketInv, StepsOf, socket
    <3> DEFINE Keeping(t) == os' = [os EXCEPT ![sock] = t] /\ t.error = socket.error
               Clearing == os' = [os EXCEPT ![sock] = [socket EXCEPT !.error = FALSE]]
    <3>2. ASSUME NEW t, Keeping(t) PROVE \A f \in Fd : Told(f)
      BY <2>0, <3>1, <3>2, PlacedTold
    <3>3. CASE Clearing /\ socket.error = FALSE
      <4>1. [socket EXCEPT !.error = FALSE].error = FALSE
        BY <3>1 DEF Live
      <4>2. QED
        BY <3>2, <3>3, <4>1
    <3>4. CASE Ends(call.op, -1)
      BY <3>4 DEF Told
    <3>5. CASE Connect
      <4>1. \/ \E st \in {"connected", "connecting"} :
                 os' = [os EXCEPT ![sock] = [socket EXCEPT !.state = st]]
            \/ Ends(call.op, -1)
        BY <2>6, <3>1, <3>5 DEF Connect, Returns, Ends, socket
      <4>2. \A st : [socket EXCEPT !.state = st].error = socket.error
        BY <3>1 DEF Live
      <4>3. QED
        BY <3>2, <3>4, <4>1, <4>2
    <3>6. CASE SocketError
      <4>1. Clearing /\ (socket.error = TRUE => Ends(call.op, -1))
        BY <2>6, <3>1, <3>6 DEF SocketError, Returns, Ends, socket
      <4>2. QED
        BY <2>0, <3>1, <3>3, <3>4, <4>1
    <3>7. CASE Listen
      <4>1. os' = [os EXCEPT ![sock] = [socket EXCEPT !.state = "listening"]]
        BY <2>6, <3>7 DEF Listen, socket
      <4>2. [socket EXCEPT !.state = "listening"].error = socket.error
        BY <3>1 DEF Live
      <4>3. QED
        BY <3>2, <4>1, <4>2
    <3>8. CASE SendTo
      BY <2>6, <3>1, <3>4, <3>8 DEF SendTo, Returns, Goes, Ends
    <3>9. CASE RecvFrom
      <4>1. (\E n : Takes(n)) \/ Ends(call.op, -1)
        BY <2>6, <3>1, <3>9 DEF RecvFrom, Returns, Ends
      <4>2. ASSUME NEW n, Takes(n) PROVE \A f \in Fd : Told(f)
        <5> DEFINE q == IF socket.type = "UDP" \/ n = Head(socket.queue)
                          THEN <<>> ELSE <<Head(socket.queue) - n>>
        <5>1. os' = [os EXCEPT ![sock] = [socket EXCEPT !.queue = q]]
          BY <4>2 DEF Takes, socket
        <5> HIDE DEF q
        <5>2. [socket EXCEPT !.queue = q].error = socket.error
          BY <3>1 DEF Live
        <5>3. QED
          BY <3>2, <5>1, <5>2
      <4>3. QED
        BY <3>4, <4>1, <4>2
    <3>10. QED
      BY <2>6, <3>5, <3>6, <3>7, <3>8, <3>9
  <2>7. CASE Accept /\ os' # os
    <3> DEFINE s == [socket EXCEPT !.queue = <<>>]
               t == [Free EXCEPT !.type = "TCP", !.state = "connected"]
    <3>1. sock \in Fd /\ socket \in Live
      BY <2>7, Called DEF Accept, SocketInv, StepsOf
    <3>2. PICK f \in Fd : os[f] = Free /\ os' = [os EXCEPT ![sock] = s, ![f] = t]
      BY <2>7 DEF Accept, socket
    <3>3. f # sock
      BY <3>1, <3>2, Distinct DEF socket
    <3>4. s.error = socket.error /\ os[f].error = FALSE
      BY <3>1, <3>2 DEF Live, Free
    <3> HIDE DEF s, t
    <3>5. os'[sock] = s /\ \A g \in Fd : g # f /\ g # sock => os'[g] = os[g]
      BY <2>0, <3>1, <3>2, <3>3
    <3>6. QED
      BY <3>4, <3>5 DEF Told, socket
  <2>8. CASE AcceptSetBlocking /\ os' # os
    <3> DEFINE t == [os[new] EXCEPT !.nonblock = TRUE]
    <3>1. pc = "accept_setblocking" /\ call.op = "accept"
      BY <2>8 DEF AcceptSetBlocking, SocketInv, StepsOf
    <3>2. new \in Fd /\ sock \in Fd /\ sock # new
      BY <3>1, Called, Distinct DEF SocketInv, SocketTypeOK
    <3>3. os' = [os EXCEPT ![sock] = Free, ![new] = t]
      BY <2>8, <3>2 DEF AcceptSetBlocking
    <3>4. t.error = os[new].error
      BY <2>0, <3>2 DEF Live, Free
    <3> HIDE DEF t
    <3>5. os'[sock] = Free /\ os'[new] = t
          /\ \A f \in Fd : f # sock /\ f # new => os'[f] = os[f]
      BY <2>0, <3>2, <3>3
    <3>6. QED
      BY <3>4, <3>5 DEF Told
  <2>9. CASE ErrUnset
    BY <2>1, <2>9 DEF ErrUnset, Told
  <2>10. QED
    BY <2>1, <2>2, <2>3, <2>4, <2>5, <2>6, <2>7, <2>8, <2>9
    DEF Next, Calls, Begins, Bridge, PollOut, AcceptPoll, RecvPoll, Polls
<1>2. QED
  BY <1>1, SocketInvariant, PTL DEF Spec, ErrorReported
=============================================================================
