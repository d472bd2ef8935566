--------------------------- MODULE GbridgeDevice ---------------------------
(***************************************************************************)
(* The device: atmega328p/source/gbridge.c, the socket calls of            *)
(* gbridge_prot_ma.c that are built on it, and the loop of main.c.         *)
(*                                                                         *)
(* gbridge_loop() is a poll: it consumes the bytes that have arrived and   *)
(* returns.  Whether a byte has arrived is for the line to decide, so one  *)
(* call that reads several bytes is the same as several calls that read    *)
(* one step's worth each, and every action below is such a call.           *)
(***************************************************************************)
EXTENDS GbridgeWire

CONSTANTS
  Requests,    \* the socket operations libmobile may ask for
  DebugLines,  \* the lengths of the debug lines libmobile may print
  MaxCalls     \* bound: how many operations and lines it asks for

ASSUME DeviceAssumption ==
  /\ Requests \subseteq [op : Op, conn : Byte, addr : 0..2, size : 0..UINT_MAX]
  /\ DebugLines \subseteq Byte
  /\ MaxCalls \in Nat

VARIABLES
  \* gbridge.c
  connected, handshake_progress, waiting_cmd,
  processing_cmd, processing_cmd_state,
  data_len,
  data,             \* data_buf[0 .. data_cur)
  data_size,        \* data.size
  data_ready,
  stream_max_size,
  stream_size,      \* stream_recv.size
  stream,           \* stream_recv.buffer[0 .. stream_cur)
  \* main() and the call it is in
  pc,               \* where the program is
  wait_for,         \* the argument of wait_cmd
  call,             \* the mobile_impl_sock_* call in progress
  res,              \* its local res
  ret,              \* what the last one returned
  open,             \* the connections libmobile holds open (external)
  calls             \* counts calls, up to MaxCalls

link == <<connected, handshake_progress, waiting_cmd>>
packet == <<data_len, data, data_size, data_ready>>
streaming == <<stream_max_size, stream_size, stream>>
processing == <<processing_cmd, processing_cmd_state>>
caller == <<wait_for, call, res, ret, open, calls>>

deviceVars == <<link, packet, streaming, processing, caller, pc>>

NoCall == [op |-> -1, conn |-> 0, addr |-> 0, size |-> 0]

DeviceInit ==
  /\ connected = FALSE /\ handshake_progress = 0
  /\ waiting_cmd = GBRIDGE_CMD_NONE
  /\ processing_cmd = GBRIDGE_CMD_NONE /\ processing_cmd_state = 0
  /\ data_len = 0 /\ data = <<>> /\ data_size = 0 /\ data_ready = FALSE
  /\ stream_max_size = 0 /\ stream_size = 0 /\ stream = <<>>
  /\ pc = "mobile_loop" /\ wait_for = GBRIDGE_CMD_NONE
  /\ call = NoCall /\ res = 0
  /\ ret = [req |-> NoCall, replied |-> FALSE, val |-> 0]
  /\ open = {} /\ calls = 0
-----------------------------------------------------------------------------
\* Mutant: gbridge_init forgets the packet that nobody has read yet.
GbridgeInit_KeepsData ==
  /\ connected' = FALSE /\ handshake_progress' = 0
  /\ waiting_cmd' = GBRIDGE_CMD_NONE
  /\ processing_cmd' = GBRIDGE_CMD_NONE
  /\ data_size' = 0 /\ stream_max_size' = 0
  /\ UNCHANGED <<processing_cmd_state, data_len, data, data_ready, stream>>

\* Mutant: gbridge_init forgets the stream that is expected.
GbridgeInit_KeepsStream ==
  /\ connected' = FALSE /\ handshake_progress' = 0
  /\ waiting_cmd' = GBRIDGE_CMD_NONE
  /\ processing_cmd' = GBRIDGE_CMD_NONE
  /\ data_ready' = FALSE /\ data_size' = 0
  /\ UNCHANGED <<processing_cmd_state, data_len, data, stream_max_size, stream>>

\* gbridge_init: back to "not connected", whatever was in progress.
GbridgeInit ==
  /\ connected' = FALSE /\ handshake_progress' = 0
  /\ waiting_cmd' = GBRIDGE_CMD_NONE
  /\ processing_cmd' = GBRIDGE_CMD_NONE
  /\ data_ready' = FALSE /\ data_size' = 0
  /\ stream_max_size' = 0
  /\ UNCHANGED <<processing_cmd_state, data_len, data, stream>>

\* Where gbridge_loop() is called: main's loop and four waiting loops.
InGbridgeLoop ==
  \/ pc = "gbridge_loop"
  \/ pc = "wait_previous" /\ waiting_cmd # GBRIDGE_CMD_NONE
  \/ pc = "wait_cmd" /\ waiting_cmd = wait_for
  \/ pc = "recv_data_wait" /\ connected /\ ~data_ready
  \/ pc = "recv_stream_wait" /\ connected /\ stream_max_size # 0

\* gbridge_loop returns: main goes on to gbridge_prot_ma_loop, a waiting loop
\* to its condition.
LoopReturns ==
  /\ pc' = IF pc = "gbridge_loop" THEN "gbridge_prot_ma_loop" ELSE pc
  /\ UNCHANGED caller

Reads(n) == Len(toDev) >= n /\ toDev' = After(toDev, n)
Writes(bytes) == toPC' = toPC \o bytes
-----------------------------------------------------------------------------
\* do_handshake: one byte; the whole handshake is answered with our own.
Handshake ==
  /\ InGbridgeLoop /\ ~connected
  /\ Reads(1)
  /\ LET c == Head(toDev)
         expected == c = GBRIDGE_HANDSHAKE[handshake_progress + 1]
         complete == expected /\ handshake_progress + 1 = Len(GBRIDGE_HANDSHAKE)
     IN /\ connected' = complete
        /\ handshake_progress' = IF complete THEN 0
                                 ELSE IF expected THEN handshake_progress + 1
                                 ELSE IF c = GBRIDGE_HANDSHAKE[1] THEN 1 ELSE 0
        /\ Writes(IF complete THEN GBRIDGE_HANDSHAKE ELSE <<>>)
  /\ LoopReturns
  /\ UNCHANGED <<waiting_cmd, processing, packet, streaming>>

\* Mutant: the acknowledgement that is waited for has no timeout.
Timeout_ReceiveOnly ==
  /\ InGbridgeLoop /\ connected
  /\ processing_cmd # GBRIDGE_CMD_NONE
  /\ GbridgeInit /\ LoopReturns
  /\ UNCHANGED <<stream_size, wire>>

\* A command or an acknowledgement has taken longer than GBRIDGE_TIMEOUT_US.
Timeout ==
  /\ InGbridgeLoop /\ connected
  /\ \/ processing_cmd # GBRIDGE_CMD_NONE
     \/ waiting_cmd # GBRIDGE_CMD_NONE
  /\ GbridgeInit /\ LoopReturns
  /\ UNCHANGED <<stream_size, wire>>

ReadsCommand ==
  /\ InGbridgeLoop /\ connected
  /\ processing_cmd = GBRIDGE_CMD_NONE
  /\ Reads(1)
  /\ LoopReturns

\* While wait_cmd() waits, only its acknowledgement means anything.
RecvAck ==
  /\ ReadsCommand
  /\ waiting_cmd # GBRIDGE_CMD_NONE
  /\ waiting_cmd' = IF Head(toDev) = Reply(waiting_cmd)
                    THEN GBRIDGE_CMD_NONE ELSE waiting_cmd
  /\ UNCHANGED <<toPC, connected, handshake_progress, processing, packet,
                 streaming>>

\* recv_cmd_reset
RecvReset ==
  /\ ReadsCommand
  /\ waiting_cmd = GBRIDGE_CMD_NONE
  /\ Head(toDev) = GBRIDGE_CMD_RESET
  /\ GbridgeInit
  /\ Writes(<<Reply(GBRIDGE_CMD_RESET)>>)
  /\ UNCHANGED stream_size

\* Mutant: a packet is received over the one that was not read yet.
CannotReceive_OnlyStream(cmd) ==
  cmd = GBRIDGE_CMD_STREAM_PC /\ stream_max_size = 0

\* Refused when the last packet is still unread (recv_cmd_data_pc) or when no
\* stream is expected (recv_cmd_stream_pc).  The code tests this again at
\* every further byte; StillAllowed says that those tests never refuse.
CannotReceive(cmd) ==
  \/ cmd = GBRIDGE_CMD_DATA_PC /\ data_ready
  \/ cmd = GBRIDGE_CMD_STREAM_PC /\ stream_max_size = 0

\* A command is begun, refused, or ignored when it is not one we know.
\* (processing_cmd_state means nothing while no command is being received; it
\* is set when one is begun, and kept as it is otherwise.)
RecvCommand ==
  /\ ReadsCommand
  /\ waiting_cmd = GBRIDGE_CMD_NONE
  /\ LET cmd == Head(toDev) IN
     \/ /\ cmd \in {GBRIDGE_CMD_DATA_PC, GBRIDGE_CMD_STREAM_PC}
        /\ ~CannotReceive(cmd)
        /\ processing_cmd' = cmd /\ processing_cmd_state' = 0
        /\ UNCHANGED <<link, packet, streaming>>
     \/ /\ CannotReceive(cmd)
        /\ GbridgeInit
        /\ UNCHANGED stream_size
     \/ /\ cmd \notin {GBRIDGE_CMD_DATA_PC, GBRIDGE_CMD_STREAM_PC,
                       GBRIDGE_CMD_RESET}
        /\ UNCHANGED <<link, processing, packet, streaming>>
  /\ UNCHANGED toPC

\* Nothing has arrived.
LoopIdle ==
  /\ pc = "gbridge_loop"
  /\ toDev = <<>>
  /\ LoopReturns
  /\ UNCHANGED <<wire, link, processing, packet, streaming>>
-----------------------------------------------------------------------------
\* The states of recv_cmd_data_pc and recv_cmd_stream_pc.
Processing(cmd, state) ==
  /\ InGbridgeLoop /\ connected
  /\ processing_cmd = cmd
  /\ processing_cmd_state = state
  /\ LoopReturns

\* Mutant: a packet may have any length.
RecvDataLen_Unchecked ==
  /\ Processing(GBRIDGE_CMD_DATA_PC, 0)
  /\ Reads(1)
  /\ data_len' = Head(toDev) /\ data' = <<>>
  /\ processing_cmd_state' = 1
  /\ UNCHANGED <<processing_cmd, data_size, data_ready, link,
                 stream_max_size, stream, toPC, stream_size>>

RecvDataLen ==
  /\ Processing(GBRIDGE_CMD_DATA_PC, 0)
  /\ Reads(1)
  /\ \/ /\ Head(toDev) > GBRIDGE_MAX_DATA_SIZE
        /\ GbridgeInit
     \/ /\ Head(toDev) <= GBRIDGE_MAX_DATA_SIZE
        /\ data_len' = Head(toDev) /\ data' = <<>>
        /\ processing_cmd_state' = 1
        /\ UNCHANGED <<processing_cmd, data_size, data_ready, link,
                       stream_max_size, stream>>
  /\ UNCHANGED <<toPC, stream_size>>

RecvDataByte ==
  /\ Processing(GBRIDGE_CMD_DATA_PC, 1)
  /\ Reads(1)
  /\ data' = Append(data, Head(toDev))
  /\ LET full == Len(data) + 1 >= data_len IN
     /\ data_size' = IF full THEN data_len ELSE data_size
     /\ processing_cmd_state' = IF full THEN 2 ELSE 1
  /\ UNCHANGED <<toPC, processing_cmd, data_len, data_ready, link, streaming>>

Received == SubSeq(data, 1, data_size)

RecvDataChecksum ==
  /\ Processing(GBRIDGE_CMD_DATA_PC, 2)
  /\ Reads(2)
  /\ LET valid == FromBe16(toDev[1], toDev[2]) = ChecksumData(Received) IN
     \/ /\ valid
        /\ data_ready' = TRUE /\ processing_cmd' = GBRIDGE_CMD_NONE
        /\ Writes(<<Reply(GBRIDGE_CMD_DATA_PC)>>)
        /\ UNCHANGED <<processing_cmd_state, data_len, data, data_size, link,
                       stream_max_size, stream>>
     \/ ~valid /\ GbridgeInit /\ UNCHANGED toPC
  /\ UNCHANGED stream_size

\* stream_recv.size is an unsigned char: the high byte is lost.
StreamSize(hi, lo) == ((hi * 256) % 256) + lo

\* Mutant: a stream may be longer than the buffer.
RecvStreamLen_Unchecked ==
  /\ Processing(GBRIDGE_CMD_STREAM_PC, 0)
  /\ Reads(2)
  /\ stream_size' = StreamSize(toDev[1], toDev[2])
  /\ stream' = <<>> /\ processing_cmd_state' = 1
  /\ UNCHANGED <<processing_cmd, stream_max_size, link, packet, toPC>>

RecvStreamLen ==
  /\ Processing(GBRIDGE_CMD_STREAM_PC, 0)
  /\ Reads(2)
  /\ stream_size' = StreamSize(toDev[1], toDev[2])
  /\ \/ /\ stream_size' > stream_max_size
        /\ GbridgeInit
     \/ /\ stream_size' <= stream_max_size
        /\ stream' = <<>> /\ processing_cmd_state' = 1
        /\ UNCHANGED <<processing_cmd, stream_max_size, link, packet>>
  /\ UNCHANGED toPC

RecvStreamByte ==
  /\ Processing(GBRIDGE_CMD_STREAM_PC, 1)
  /\ Reads(1)
  /\ stream' = Append(stream, Head(toDev))
  /\ processing_cmd_state' = IF Len(stream) + 1 >= stream_size THEN 2 ELSE 1
  /\ UNCHANGED <<toPC, processing_cmd, stream_max_size, stream_size, link,
                 packet>>

RecvStreamChecksum ==
  /\ Processing(GBRIDGE_CMD_STREAM_PC, 2)
  /\ Reads(2)
  /\ LET sum == ChecksumData(SubSeq(stream, 1, stream_size))
         valid == FromBe16(toDev[1], toDev[2]) = sum
     IN \/ /\ valid
           /\ stream_max_size' = 0 /\ processing_cmd' = GBRIDGE_CMD_NONE
           /\ Writes(<<Reply(GBRIDGE_CMD_STREAM_PC)>>)
           /\ UNCHANGED <<processing_cmd_state, stream, link, packet>>
        \/ ~valid /\ GbridgeInit /\ UNCHANGED toPC
  /\ UNCHANGED stream_size

GbridgeLoop ==
  \/ Handshake \/ RecvAck \/ RecvReset \/ RecvCommand \/ LoopIdle
  \/ RecvDataLen \/ RecvDataByte \/ RecvDataChecksum
  \/ RecvStreamLen \/ RecvStreamByte \/ RecvStreamChecksum
-----------------------------------------------------------------------------
\* libmobile (external) opens a closed connection and uses an open one.
MayCall(req) == (req.op = OPEN) <=> (req.conn \notin open)

ErrorValue(op) == IF op \in {CONNECT, SEND, RECV} THEN -1 ELSE 0

\* A mobile_impl_sock_* function returns val to libmobile.
Returns(req, replied, val) ==
  /\ pc' = "mobile_loop" /\ call' = NoCall
  /\ ret' = [req |-> req, replied |-> replied, val |-> val]
  /\ open' = IF req.op = OPEN /\ val = 1 THEN open \cup {req.conn}
             ELSE IF req.op = CLOSE THEN open \ {req.conn} ELSE open

RecvDataDone == data_ready' = FALSE

Fails(req) == RecvDataDone /\ Returns(req, FALSE, ErrorValue(req.op))

\* gbridge_cmd_data sends the request.  Not connected, it sends nothing, and
\* the call fails as soon as gbridge_recv_data_wait returns NULL.
StartCall(req) ==
  /\ pc = "mobile_loop" /\ calls < MaxCalls /\ MayCall(req)
  /\ calls' = calls + 1
  /\ \/ /\ connected
        /\ Writes(DataFrame(GBRIDGE_CMD_DATA, Payload(req)))
        /\ pc' = "wait_previous" /\ wait_for' = GBRIDGE_CMD_DATA
        /\ call' = req
        /\ UNCHANGED <<data_ready, ret, open>>
     \/ /\ ~connected
        /\ Fails(req)
        /\ UNCHANGED <<toPC, wait_for>>
  /\ UNCHANGED <<toDev, link, processing, data_len, data, data_size, streaming,
                 res>>

\* mobile_impl_debug_log: gbridge_cmd_debug_line
DebugLine(length) ==
  /\ pc = "mobile_loop" /\ calls < MaxCalls
  /\ connected
  /\ pc' = "wait_previous" /\ wait_for' = GBRIDGE_CMD_DEBUG_LINE
  /\ calls' = calls + 1
  /\ Writes(DebugFrame(Content(length)))
  /\ UNCHANGED <<toDev, link, processing, packet, streaming,
                 call, res, ret, open>>

\* wait_cmd: no earlier command is waited for any more; wait for this one.
BeginWait ==
  /\ pc = "wait_previous" /\ waiting_cmd = GBRIDGE_CMD_NONE
  /\ pc' = "wait_cmd" /\ waiting_cmd' = wait_for
  /\ UNCHANGED <<wire, connected, handshake_progress, processing, packet,
                 streaming, caller>>

\* Mutant: wait_cmd does not wait for the command it was called for.
WaitOver_AtOnce ==
  /\ pc = "wait_cmd"
  /\ UNCHANGED <<toDev, link, processing, data_len, data, data_size, streaming,
                 res, calls>>

\* wait_cmd returns: acknowledged, timed out or reset.
WaitOver ==
  /\ pc = "wait_cmd" /\ waiting_cmd # wait_for
  /\ UNCHANGED <<toDev, link, processing, data_len, data, data_size, streaming,
                 res, calls>>

EndDebugLine ==
  /\ WaitOver
  /\ wait_for = GBRIDGE_CMD_DEBUG_LINE
  /\ pc' = "mobile_loop"
  /\ UNCHANGED <<toPC, data_ready, wait_for, call, ret, open>>

\* mobile_impl_sock_send goes on to its stream, if still connected.
EndSendData ==
  /\ WaitOver
  /\ wait_for = GBRIDGE_CMD_DATA /\ call.op = SEND
  /\ \/ /\ connected
        /\ Writes(StreamFrame(GBRIDGE_CMD_STREAM, Content(call.size)))
        /\ pc' = "wait_previous" /\ wait_for' = GBRIDGE_CMD_STREAM
        /\ UNCHANGED <<data_ready, call, ret, open>>
     \/ /\ ~connected
        /\ Fails(call)
        /\ UNCHANGED <<toPC, wait_for>>

\* The request is sent; the call waits for its reply.
EndSend ==
  /\ WaitOver
  /\ wait_for # GBRIDGE_CMD_DEBUG_LINE
  /\ ~(wait_for = GBRIDGE_CMD_DATA /\ call.op = SEND)
  /\ pc' = "recv_data_wait"
  /\ UNCHANGED <<toPC, data_ready, wait_for, call, ret, open>>

\* The tests each call makes on its reply.
GoodReply(req, reply) ==
  LET size == Len(reply)
      addrlen == AddressRead(After(reply, 3))
  IN /\ CASE req.op = CLOSE -> size = 1
          [] req.op = SEND -> size = 3
          [] req.op = RECV -> size >= 3 /\ addrlen # 0 /\ size = addrlen + 3
          [] OTHER -> size = 2
     /\ reply[1] = req.op

\* Mutant: the results of SEND and RECV are read back without their sign.
ReplyValue_Unsigned(req, reply) ==
  CASE req.op \in {OPEN, LISTEN, ACCEPT} -> IF reply[2] # 0 THEN 1 ELSE 0
    [] req.op = CONNECT -> Signed(reply[2], 8)
    [] req.op = CLOSE -> 0
    [] OTHER -> FromBe16(reply[2], reply[3])

ReplyValue(req, reply) ==
  CASE req.op \in {OPEN, LISTEN, ACCEPT} -> IF reply[2] # 0 THEN 1 ELSE 0
    [] req.op = CONNECT -> Signed(reply[2], 8)
    [] req.op = CLOSE -> 0
    [] OTHER -> Signed(FromBe16(reply[2], reply[3]), 16)

\* gbridge_recv_data_wait returns and the call reads its reply.  A RECV that
\* has data goes on to gbridge_recv_stream_wait.
EndRecvData ==
  /\ pc = "recv_data_wait"
  /\ ~connected \/ data_ready
  /\ LET good == connected /\ GoodReply(call, Received)
         val == ReplyValue(call, Received)
         more == call.op = RECV /\ val > 0
     IN \/ ~good /\ Fails(call) /\ UNCHANGED <<res, streaming>>
        \/ /\ good /\ ~more
           /\ RecvDataDone /\ Returns(call, TRUE, val)
           /\ UNCHANGED <<res, streaming>>
        \/ /\ good /\ more
           /\ RecvDataDone
           /\ pc' = "recv_stream_wait" /\ res' = val
           /\ stream_max_size' = call.size
           /\ stream_size' = 0 /\ stream' = <<>>
           /\ UNCHANGED <<call, ret, open>>
  /\ UNCHANGED <<wire, link, processing, data_len, data, data_size,
                 wait_for, calls>>

\* gbridge_recv_stream_wait returns: received, or no longer connected.
EndRecvStream ==
  /\ pc = "recv_stream_wait"
  /\ ~connected \/ stream_max_size = 0
  /\ Returns(call, connected, IF connected THEN res ELSE -1)
  /\ UNCHANGED <<wire, link, processing, packet, streaming, wait_for, res,
                 calls>>

\* mobile_loop returns; main calls gbridge_loop.
MobileLoopReturns ==
  /\ pc = "mobile_loop"
  /\ pc' = "gbridge_loop"
  /\ UNCHANGED <<wire, link, processing, packet, streaming, caller>>

\* gbridge_prot_ma_loop: data nobody asked for is dropped.
ProtMaLoop ==
  /\ pc = "gbridge_prot_ma_loop"
  /\ pc' = "mobile_loop" /\ RecvDataDone
  /\ UNCHANGED <<wire, link, processing, data_len, data, data_size, streaming,
                 caller>>

DeviceStep ==
  \/ GbridgeLoop
  \/ \E req \in Requests : StartCall(req)
  \/ \E length \in DebugLines : DebugLine(length)
  \/ BeginWait \/ EndDebugLine \/ EndSendData \/ EndSend
  \/ EndRecvData \/ EndRecvStream
  \/ MobileLoopReturns \/ ProtMaLoop
-----------------------------------------------------------------------------
WaitCommands == {GBRIDGE_CMD_NONE, GBRIDGE_CMD_DEBUG_LINE, GBRIDGE_CMD_DATA,
                 GBRIDGE_CMD_STREAM}

FlagsTypeOK == connected \in BOOLEAN /\ data_ready \in BOOLEAN

ReceiverTypeOK ==
  /\ handshake_progress \in 0..3
  /\ waiting_cmd \in WaitCommands
  /\ processing_cmd \in {GBRIDGE_CMD_NONE, GBRIDGE_CMD_DATA_PC,
                         GBRIDGE_CMD_STREAM_PC}
  /\ processing_cmd_state \in 0..2
  /\ data_len \in 0..GBRIDGE_MAX_DATA_SIZE
  /\ data_size \in 0..GBRIDGE_MAX_DATA_SIZE
  /\ data \in Seq(Byte)
  /\ stream_max_size \in 0..UINT_MAX /\ stream_size \in Byte
  /\ stream \in Seq(Byte)

CallerTypeOK ==
  /\ pc \in {"mobile_loop", "gbridge_loop", "gbridge_prot_ma_loop",
             "wait_previous", "wait_cmd", "recv_data_wait", "recv_stream_wait"}
  /\ wait_for \in WaitCommands
  /\ call \in Requests \cup {NoCall} /\ res \in Int
  /\ ret \in [req : Requests \cup {NoCall}, replied : BOOLEAN, val : Int]
  /\ open \subseteq Byte /\ calls \in Nat

\* The device's state has its type.
DeviceTypeOK == FlagsTypeOK /\ ReceiverTypeOK /\ CallerTypeOK

\* A device that is not connected has nothing in progress: every path that
\* drops the connection drops the command being received, the command being
\* waited for, unread data and the caller's stream buffer with it.  Otherwise
\* gbridge_loop, which tests the timeouts only when connected, would let a
\* waiting loop spin for ever.
DisconnectedIsIdle ==
  ~connected =>
    /\ processing_cmd = GBRIDGE_CMD_NONE
    /\ waiting_cmd = GBRIDGE_CMD_NONE
    /\ ~data_ready
    /\ stream_max_size = 0

\* A command is waited for only by the wait_cmd call that sent it: wait_cmd
\* is never entered while an earlier command is outstanding, so its first
\* loop never runs, and no caller goes on before its wait is over.
OneWaiter ==
  waiting_cmd # GBRIDGE_CMD_NONE =>
    pc = "wait_cmd" /\ wait_for = waiting_cmd

\* gbridge_loop holds a pointer to the buffer passed to mobile_impl_sock_recv
\* only while that call is blocked in gbridge_recv_stream_wait, and never
\* takes it for larger than it is: a stream that comes late, twice or
\* unasked for is not written to a buffer whose owner has returned.
StreamBufferOwned ==
  stream_max_size # 0 =>
    pc = "recv_stream_wait" /\ stream_max_size = call.size

\* The receive buffers are not overrun: a packet being received fits data_buf
\* and a stream being received fits the caller's buffer, whatever the lengths
\* on the line say, the length zero included.
BuffersNotOverrun ==
  /\ Len(data) <= GBRIDGE_MAX_DATA_SIZE
  /\ stream_max_size # 0 => Len(stream) <= stream_max_size

\* The unread packet is never written over, and every byte of it that the
\* caller may read was received with it: none is left from an earlier packet.
\* A stream is received only into a buffer that is still there.
StillAllowed ==
  /\ processing_cmd # GBRIDGE_CMD_NONE => ~CannotReceive(processing_cmd)
  /\ data_ready => data_size <= Len(data)
=============================================================================
