--------------------------- MODULE GbridgeBridge ---------------------------
(***************************************************************************)
(* The bridge: bridge/source/gbridge.c, the socket requests that           *)
(* gbridge_prot_ma.c serves, and the loop of main.c.                       *)
(*                                                                         *)
(* The bridge is one thread that blocks.  A read for a given count of      *)
(* bytes takes them all, or times out and takes what there is.  A pc that  *)
(* names what is being read is inside that read; count is its count.       *)
(* The sockets of socket_impl.c appear by what each call may return.       *)
(***************************************************************************)
EXTENDS GbridgeWire

CONSTANT SocketLengths  \* the lengths a socket may send or receive at once

VARIABLES
  \* gbridge.c
  connected, handshake_progress, waiting_cmd,
  data,        \* data.buffer[0 .. data.size)
  data_ready,
  \* main() and the call it is in
  pc,          \* where the program is
  count,       \* recv_data's count
  wait_for,    \* the argument of wait_cmd
  stream,      \* recv_cmd_sock_send's recv_buffer
  res,         \* what the socket call returned
  sockets      \* the connections with sockets[conn] # -1

link == <<connected, handshake_progress, waiting_cmd>>
packet == <<data, data_ready>>
handler == <<wait_for, stream, res, sockets>>

bridgeVars == <<link, packet, handler, pc, count>>

BridgeInit ==
  /\ connected = FALSE /\ handshake_progress = 0
  /\ waiting_cmd = GBRIDGE_CMD_NONE
  /\ data = <<>> /\ data_ready = FALSE
  /\ pc = "handshake" /\ count = 0
  /\ wait_for = GBRIDGE_CMD_NONE /\ stream = <<>> /\ res = 0
  /\ sockets = {}
-----------------------------------------------------------------------------
GbridgeInit ==
  /\ connected' = FALSE /\ handshake_progress' = 0
  /\ waiting_cmd' = GBRIDGE_CMD_NONE
  /\ data_ready' = FALSE /\ data' = <<>>

Reads(n) == Len(toPC) >= n /\ toPC' = After(toPC, n)
Writes(bytes) == toDev' = toDev \o bytes

\* recv_data(port, ..., n) is called.
Recv(n, where) == count' = n /\ pc' = where

\* Its bytes have come.
Received(where) == pc = where /\ Reads(count)

\* gbridge_handshake sends the handshake and looks for it in what comes back,
\* whatever comes before it.  main calls it again when it times out.
HandshakeSend ==
  /\ pc = "handshake"
  /\ Writes(GBRIDGE_HANDSHAKE)
  /\ pc' = "handshake_read"
  /\ UNCHANGED <<toPC, link, packet, handler, count>>

HandshakeByte ==
  /\ pc = "handshake_read"
  /\ Reads(1)
  /\ LET c == Head(toPC)
         progress == IF c = GBRIDGE_HANDSHAKE[handshake_progress + 1]
                     THEN handshake_progress + 1
                     ELSE IF c = GBRIDGE_HANDSHAKE[1] THEN 1 ELSE 0
     IN /\ connected' = (progress = Len(GBRIDGE_HANDSHAKE))
        /\ handshake_progress' = IF connected' THEN 0 ELSE progress
  /\ pc' = IF connected' THEN "gbridge_loop" ELSE pc
  /\ UNCHANGED <<toDev, waiting_cmd, packet, handler, count>>

\* Mutant: the handshake is not repeated.
HandshakeTimesOut_Once ==
  /\ pc = "handshake_read"
  /\ UNCHANGED <<wire, link, packet, handler, count, pc>>

\* Nothing has come for a second, whatever is still on its way.
HandshakeTimesOut ==
  /\ pc = "handshake_read"
  /\ pc' = "handshake"
  /\ UNCHANGED <<wire, link, packet, handler, count>>
-----------------------------------------------------------------------------
\* gbridge_loop is called by main and by wait_cmd's second loop.  wait_cmd's
\* first loop never runs: no handler starts while a command is waited for.
InGbridgeLoop ==
  /\ connected
  /\ pc = "gbridge_loop" \/ (pc = "wait_cmd" /\ waiting_cmd = wait_for)

LoopReturns ==
  pc' = IF pc = "gbridge_loop" THEN "gbridge_prot_ma_loop" ELSE pc

\* Nothing has come for 100 ms.  It changes nothing, so that it also stands for
\* the times when a byte was on its way.
LoopIdle ==
  /\ InGbridgeLoop /\ pc = "gbridge_loop"
  /\ toPC = <<>>
  /\ LoopReturns
  /\ UNCHANGED <<wire, link, packet, handler, count>>

\* The port fails.  In wait_cmd, gbridge_loop does nothing from here on and
\* the loop never ends.
PortError ==
  /\ InGbridgeLoop
  /\ connected' = FALSE
  /\ LoopReturns
  /\ UNCHANGED <<wire, handshake_progress, waiting_cmd, packet, handler, count>>

RecvAck ==
  /\ InGbridgeLoop /\ Reads(1)
  /\ waiting_cmd # GBRIDGE_CMD_NONE
  /\ waiting_cmd' = IF Head(toPC) = Reply(waiting_cmd)
                    THEN GBRIDGE_CMD_NONE ELSE waiting_cmd
  /\ LoopReturns
  /\ UNCHANGED <<toDev, connected, handshake_progress, packet, handler, count>>

ReadsCommand ==
  /\ InGbridgeLoop /\ Reads(1)
  /\ waiting_cmd = GBRIDGE_CMD_NONE
  /\ UNCHANGED <<toDev, handler>>

RecvDebugLine ==
  /\ ReadsCommand
  /\ Head(toPC) = GBRIDGE_CMD_DEBUG_LINE
  /\ Recv(1, "debug_line_length")
  /\ UNCHANGED <<link, packet>>

RecvData ==
  /\ ReadsCommand
  /\ Head(toPC) = GBRIDGE_CMD_DATA
  /\ \/ ~data_ready /\ Recv(1, "data_size") /\ UNCHANGED <<link, packet>>
     \/ data_ready /\ GbridgeInit /\ LoopReturns /\ UNCHANGED count

RecvUnknown ==
  /\ ReadsCommand
  /\ Head(toPC) \notin {GBRIDGE_CMD_DEBUG_LINE, GBRIDGE_CMD_DATA}
  /\ LoopReturns
  /\ UNCHANGED <<link, packet, count>>
-----------------------------------------------------------------------------
\* recv_cmd_debug_line
DebugLineLength ==
  /\ Received("debug_line_length")
  /\ Recv(Head(toPC), "debug_line_string")
  /\ UNCHANGED <<toDev, link, packet, handler>>

DebugLineString ==
  /\ Received("debug_line_string")
  /\ Writes(<<Reply(GBRIDGE_CMD_DEBUG_LINE)>>)
  /\ pc' = "gbridge_prot_ma_loop"
  /\ UNCHANGED <<link, packet, handler, count>>

\* recv_cmd_data.  Here a size above GBRIDGE_MAX_DATA_SIZE is not refused; what
\* reading more bytes than data_buf has room for does is not modelled.
DataSize ==
  /\ Received("data_size")
  /\ Recv(Head(toPC), "data_buffer")
  /\ UNCHANGED <<toDev, link, packet, handler>>

DataBuffer ==
  /\ Received("data_buffer")
  /\ data' = SubSeq(toPC, 1, count)
  /\ Recv(2, "data_checksum")
  /\ UNCHANGED <<toDev, link, data_ready, handler>>

\* Mutant: the checksum of a packet is not looked at.
DataChecksum_Trusting ==
  /\ Received("data_checksum")
  /\ data_ready' = TRUE
  /\ Writes(<<Reply(GBRIDGE_CMD_DATA)>>)
  /\ pc' = "gbridge_prot_ma_loop"
  /\ UNCHANGED <<link, data, handler, count>>

DataChecksum ==
  /\ Received("data_checksum")
  /\ LET valid == FromBe16(toPC[1], toPC[2]) = ChecksumData(data) IN
     \/ /\ valid
        /\ data_ready' = TRUE
        /\ Writes(<<Reply(GBRIDGE_CMD_DATA)>>)
        /\ UNCHANGED <<link, data>>
     \/ ~valid /\ GbridgeInit /\ UNCHANGED toDev
  /\ pc' = "gbridge_prot_ma_loop"
  /\ UNCHANGED <<handler, count>>

\* gbridge_recv_stream into recv_cmd_sock_send's buffer.  The handler gives
\* up when it fails; a stream that is too long is left in the line.
MaxStream == 512

StreamFails == data_ready' = FALSE /\ pc' = "gbridge_loop"

StreamCommand ==
  /\ Received("stream_cmd")
  /\ \/ /\ Head(toPC) = GBRIDGE_CMD_STREAM
        /\ Recv(2, "stream_size")
        /\ UNCHANGED <<link, packet>>
     \/ /\ Head(toPC) # GBRIDGE_CMD_STREAM
        /\ GbridgeInit /\ StreamFails /\ UNCHANGED count
  /\ UNCHANGED <<toDev, handler>>

\* Mutant: a stream may be longer than the buffer.
StreamSize_Unchecked ==
  /\ Received("stream_size")
  /\ Recv(FromBe16(toPC[1], toPC[2]), "stream_buffer")
  /\ UNCHANGED <<toDev, link, packet, handler>>

StreamSize ==
  /\ Received("stream_size")
  /\ LET size == FromBe16(toPC[1], toPC[2]) IN
     \/ /\ size <= MaxStream
        /\ Recv(size, "stream_buffer")
        /\ UNCHANGED data_ready
     \/ /\ size > MaxStream
        /\ StreamFails /\ UNCHANGED count
  /\ UNCHANGED <<toDev, link, data, handler>>

StreamBuffer ==
  /\ Received("stream_buffer")
  /\ stream' = SubSeq(toPC, 1, count)
  /\ Recv(2, "stream_checksum")
  /\ UNCHANGED <<toDev, link, packet, wait_for, res, sockets>>

\* Mutant: the checksum of a stream is not looked at.
StreamChecksum_Trusting ==
  /\ Received("stream_checksum")
  /\ Writes(<<Reply(GBRIDGE_CMD_STREAM)>>)
  /\ pc' = "socket_impl_send"
  /\ UNCHANGED <<link, packet, handler, count>>

StreamChecksum ==
  /\ Received("stream_checksum")
  /\ LET valid == FromBe16(toPC[1], toPC[2]) = ChecksumData(stream) IN
     \/ /\ valid
        /\ Writes(<<Reply(GBRIDGE_CMD_STREAM)>>)
        /\ pc' = "socket_impl_send"
        /\ UNCHANGED <<link, packet>>
     \/ ~valid /\ GbridgeInit /\ StreamFails /\ UNCHANGED toDev
  /\ UNCHANGED <<handler, count>>

\* recv_data: less than count has come in time, whatever is still on its way.
\* Each caller gives up, and main, no longer connected, ends.
Receiving ==
  {"debug_line_length", "debug_line_string",
   "data_size", "data_buffer", "data_checksum",
   "stream_cmd", "stream_size", "stream_buffer", "stream_checksum"}

RecvTimesOut ==
  /\ pc \in Receiving
  /\ \E n \in 0..Len(toPC) : n < count /\ toPC' = After(toPC, n)
  /\ GbridgeInit
  /\ pc' = "gbridge_loop"
  /\ UNCHANGED <<toDev, handler, count>>
-----------------------------------------------------------------------------
\* Mutant: a RECV is taken to be one byte shorter than it is.
WellFormed_ShortRecv(request) ==
  LET size == Len(request)
      addrlen == AddressRead(After(request, 2))
      op == request[1]
  IN /\ size >= 1
     /\ CASE op = OPEN -> size = 6
          [] op \in {CLOSE, LISTEN, ACCEPT} -> size = 2
          [] op = CONNECT -> addrlen > 1 /\ size = 2 + addrlen
          [] op = SEND -> addrlen # 0
          [] op = RECV -> size = 3
          [] OTHER -> FALSE

\* The tests that the recv_cmd_sock_* make on a request.  One that fails them
\* gets no reply.
WellFormed(request) ==
  LET size == Len(request)
      addrlen == AddressRead(After(request, 2))
      op == request[1]
  IN /\ size >= 1
     /\ CASE op = OPEN -> size = 6
          [] op \in {CLOSE, LISTEN, ACCEPT} -> size = 2
          [] op = CONNECT -> addrlen > 1 /\ size = 2 + addrlen
          [] op = SEND -> addrlen # 0
          [] op = RECV -> size = 4
          [] OTHER -> FALSE

\* gbridge_prot_ma_loop: nothing to do, or nothing that makes sense.
ProtMaLoop ==
  /\ pc = "gbridge_prot_ma_loop"
  /\ ~data_ready \/ ~WellFormed(data)
  /\ data_ready' = FALSE
  /\ pc' = "gbridge_loop"
  /\ UNCHANGED <<wire, link, data, handler, count>>

\* recv_cmd_sock_send receives its stream first.
RecvStream ==
  /\ pc = "gbridge_prot_ma_loop"
  /\ data_ready /\ WellFormed(data) /\ data[1] = SEND
  /\ Recv(1, "stream_cmd")
  /\ UNCHANGED <<wire, link, packet, handler>>

AtSocketCall ==
  \/ pc = "socket_impl_send"
  \/ pc = "gbridge_prot_ma_loop" /\ data_ready /\ WellFormed(data)
     /\ data[1] # SEND

\* socket_impl_open asserts that the connection is closed and the type of its
\* address known, the others that the connection is open.
Asserted(op, conn) ==
  IF op = OPEN THEN conn \notin sockets /\ data[4] \in {ADDR_IPV4, ADDR_IPV6}
  ELSE conn \in sockets

\* What socket_impl_* may return.
Results(op) ==
  LET asked == IF op = RECV THEN FromBe16(data[3], data[4]) ELSE Len(stream)
      lengths == {n \in SocketLengths : n <= asked}
  IN CASE op = CLOSE -> {0}
       [] op = CONNECT -> {-1, 0, 1}
       [] op = SEND -> {-1, 0} \cup lengths
       [] op = RECV -> {-2, -1, 0} \cup lengths
       [] OTHER -> {0, 1}

\* Mutant: the reply to a RECV leaves out the sender's address.
ReplyPayload_NoAddr(op, r, addr) ==
  <<op>> \o
    CASE op = CLOSE -> <<>>
      [] op = CONNECT -> <<Unsigned(r, 8)>>
      [] op \in {SEND, RECV} -> Be16(Unsigned(r, 16))
      [] OTHER -> <<r>>

ReplyPayload(op, r, addr) ==
  <<op>> \o
    CASE op = CLOSE -> <<>>
      [] op = CONNECT -> <<Unsigned(r, 8)>>
      [] op = SEND -> Be16(Unsigned(r, 16))
      [] op = RECV -> Be16(Unsigned(r, 16)) \o AddressWrite(addr)
      [] OTHER -> <<r>>

\* Only a RECV that has received knows whom from, and TCP does not say.
Senders(op, r) == IF op = RECV /\ r >= 0
                  THEN {ADDR_NONE, ADDR_IPV4, ADDR_IPV6} ELSE {ADDR_NONE}

\* A frame is sent and wait_cmd entered.
SendAndWait(cmd, frame) ==
  /\ Writes(frame)
  /\ pc' = "wait_cmd" /\ wait_for' = cmd /\ waiting_cmd' = cmd

\* The socket call returns r; its reply is sent.
SocketCall(r) ==
  /\ AtSocketCall
  /\ LET op == data[1]
         conn == data[2]
     IN /\ Asserted(op, conn)
        /\ r \in Results(op)
        /\ sockets' = IF op = OPEN /\ r = 1 THEN sockets \cup {conn}
                      ELSE IF op = CLOSE THEN sockets \ {conn} ELSE sockets
        /\ \E addr \in Senders(op, r) :
             SendAndWait(GBRIDGE_CMD_DATA_PC,
                         DataFrame(GBRIDGE_CMD_DATA_PC,
                                   ReplyPayload(op, r, addr)))
  /\ res' = r
  /\ UNCHANGED <<toPC, connected, handshake_progress, packet, stream, count>>

AssertFails ==
  /\ AtSocketCall /\ ~Asserted(data[1], data[2])
  /\ pc' = "aborted"
  /\ UNCHANGED <<wire, link, packet, handler, count>>

\* The reply to a RECV that received is followed by a stream.
EndWaitStream ==
  /\ pc = "wait_cmd" /\ waiting_cmd # wait_for
  /\ wait_for = GBRIDGE_CMD_DATA_PC /\ data[1] = RECV /\ res > 0
  /\ SendAndWait(GBRIDGE_CMD_STREAM_PC,
                 StreamFrame(GBRIDGE_CMD_STREAM_PC, Content(res)))
  /\ UNCHANGED <<toPC, connected, handshake_progress, packet, stream, res,
                 sockets, count>>

\* Mutant: the request is not marked as done.
EndWait_Again ==
  /\ pc = "wait_cmd" /\ waiting_cmd # wait_for
  /\ ~(wait_for = GBRIDGE_CMD_DATA_PC /\ data[1] = RECV /\ res > 0)
  /\ pc' = "gbridge_loop"
  /\ UNCHANGED <<wire, link, packet, handler, count>>

EndWait ==
  /\ pc = "wait_cmd" /\ waiting_cmd # wait_for
  /\ ~(wait_for = GBRIDGE_CMD_DATA_PC /\ data[1] = RECV /\ res > 0)
  /\ data_ready' = FALSE
  /\ pc' = "gbridge_loop"
  /\ UNCHANGED <<wire, link, data, handler, count>>

\* main leaves its loop; the sockets are closed with the process.
MainEnds ==
  /\ pc = "gbridge_loop" /\ ~connected
  /\ pc' = "closed" /\ sockets' = {}
  /\ UNCHANGED <<wire, link, packet, wait_for, stream, res, count>>

SocketValues == {-2, -1, 0, 1} \cup SocketLengths

BridgeStep ==
  \/ HandshakeSend \/ HandshakeByte
  \/ LoopIdle \/ RecvAck \/ RecvDebugLine \/ RecvData \/ RecvUnknown
  \/ DebugLineLength \/ DebugLineString
  \/ DataSize \/ DataBuffer \/ DataChecksum
  \/ StreamCommand \/ StreamSize \/ StreamBuffer \/ StreamChecksum
  \/ ProtMaLoop \/ RecvStream \/ \E r \in SocketValues : SocketCall(r)
  \/ AssertFails \/ EndWaitStream \/ EndWait \/ MainEnds

BridgeTimeout == HandshakeTimesOut \/ RecvTimesOut

\* Blocked until a byte comes, or for good.
Blocked ==
  \/ pc \in {"handshake_read", "closed", "aborted"}
  \/ pc \in Receiving /\ count > 0
  \/ InGbridgeLoop
-----------------------------------------------------------------------------
\* The bridge's state has its type.
BridgeTypeOK ==
  /\ connected \in BOOLEAN /\ handshake_progress \in 0..3
  /\ waiting_cmd \in
       {GBRIDGE_CMD_NONE, GBRIDGE_CMD_DATA_PC, GBRIDGE_CMD_STREAM_PC}
  /\ data \in Seq(Byte) /\ data_ready \in BOOLEAN
  /\ pc \in Receiving \cup
       {"handshake", "handshake_read", "gbridge_loop", "gbridge_prot_ma_loop",
        "socket_impl_send", "wait_cmd", "closed", "aborted"}
  /\ count \in 0..MaxStream
  /\ wait_for \in
       {GBRIDGE_CMD_NONE, GBRIDGE_CMD_DATA_PC, GBRIDGE_CMD_STREAM_PC}
  /\ stream \in Seq(Byte) /\ res \in SocketValues
  /\ sockets \subseteq Byte
=============================================================================
