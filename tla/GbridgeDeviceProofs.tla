------------------------ MODULE GbridgeDeviceProofs ------------------------
(***************************************************************************)
(* The inductive invariant of the device, and the proof that each of its   *)
(* actions preserves it, whatever arrives on the line: the device alone    *)
(* (GbridgeDeviceOpenProofs) and the link (GbridgeLinkProofs) build on it. *)
(***************************************************************************)
EXTENDS GbridgeDevice, TLAPS

\* While a packet (a stream) is being received, what is in the buffer is
\* short of the length announced, and the length fits the buffer.
Progress ==
  /\ processing_cmd = GBRIDGE_CMD_DATA_PC /\ processing_cmd_state = 1 =>
       Len(data) < data_len \/ data = <<>>
  /\ processing_cmd = GBRIDGE_CMD_DATA_PC /\ processing_cmd_state = 2 =>
       data_size <= Len(data)
  /\ processing_cmd = GBRIDGE_CMD_STREAM_PC /\ processing_cmd_state = 1 =>
       /\ stream_size <= stream_max_size
       /\ Len(stream) < stream_size \/ stream = <<>>

\* A caller that has sent a command enters wait_cmd connected.
CallerConnected == pc = "wait_previous" => connected

\* The safety invariants and what makes them inductive.
Safe ==
  /\ DisconnectedIsIdle /\ OneWaiter /\ StreamBufferOwned
  /\ BuffersNotOverrun /\ StillAllowed /\ Progress /\ CallerConnected

DeviceInv == DeviceTypeOK /\ toDev \in Seq(Byte) /\ Safe
-----------------------------------------------------------------------------
LEMMA ReadsType ==
  ASSUME NEW n \in Nat, Reads(n), toDev \in Seq(Byte)
  PROVE  /\ toDev' \in Seq(Byte)
         /\ \A i \in 1..n : toDev[i] \in Byte
         /\ n > 0 => Head(toDev) \in Byte
BY DEF Reads, After

LEMMA StreamSizeType ==
  ASSUME NEW hi \in Byte, NEW lo \in Byte
  PROVE  StreamSize(hi, lo) \in Byte
<1>1. (hi * 256) % 256 = 0
  BY DEF Byte
<1>2. QED
  BY <1>1 DEF StreamSize, Byte

LEMMA UintMax == UINT_MAX \in Nat /\ Byte \subseteq Nat
BY DEF UINT_MAX, Byte

LEMMA RequestType ==
  ASSUME NEW req \in Requests \cup {NoCall}
  PROVE  /\ req.op \in Op \cup {-1}
         /\ req.conn \in Byte
         /\ req.size \in 0..UINT_MAX
<1>1. CASE req \in Requests
  BY <1>1, DeviceAssumption DEF DeviceAssumption
<1>2. CASE req = NoCall
  BY <1>2 DEF NoCall, Byte, UINT_MAX
<1>3. QED
  BY <1>1, <1>2

LEMMA ReplyValueType ==
  ASSUME NEW req \in Requests \cup {NoCall}, NEW reply \in Seq(Byte),
         GoodReply(req, reply)
  PROVE  ReplyValue(req, reply) \in Int
<1>1. req.op \in Op \cup {-1}
  BY RequestType
<1>2. \A i \in 1..Len(reply) : reply[i] \in Byte /\ reply[i] \in Int
  <2>1. \A i \in 1..Len(reply) : reply[i] \in Byte
    OBVIOUS
  <2>2. Byte \subseteq Int /\ -1 \notin Byte
    BY DEF Byte
  <2>3. QED
    BY <2>1, <2>2
<1>3. \A n \in Int : Signed(n, 8) \in Int /\ Signed(n, 16) \in Int
  BY DEF Signed
<1>4. \A hi, lo \in Int : FromBe16(hi, lo) \in Int
  BY DEF FromBe16
<1>5. CASE req.op \in {OPEN, LISTEN, ACCEPT, CLOSE}
  BY <1>5 DEF ReplyValue, OPEN, CLOSE, CONNECT, LISTEN, ACCEPT
<1>6. CASE req.op = CONNECT
  <2>1. Len(reply) = 2
    BY <1>6 DEF GoodReply, CLOSE, CONNECT, SEND, RECV
  <2>2. QED
    BY <2>1, <1>2, <1>3, <1>6
    DEF ReplyValue, OPEN, CLOSE, CONNECT, LISTEN, ACCEPT
<1>7. CASE req.op \in {SEND, RECV}
  <2>1. Len(reply) >= 3
    BY <1>7 DEF GoodReply, CLOSE, SEND, RECV
  <2>2. QED
    BY <2>1, <1>2, <1>3, <1>4, <1>7
    DEF ReplyValue, OPEN, CLOSE, CONNECT, LISTEN, ACCEPT, SEND, RECV
<1>8. CASE req.op = -1
  <2>1. Len(reply) = 2 /\ reply[1] = -1
    BY <1>8 DEF GoodReply, CLOSE, SEND, RECV
  <2>2. -1 \notin Byte
    BY DEF Byte
  <2>3. QED
    BY <2>1, <2>2, <1>2
<1>9. QED
  BY <1>1, <1>5, <1>6, <1>7, <1>8 DEF Op

\* gbridge_loop leaves the caller where it is.
LEMMA LoopReturnsPreserves ==
  ASSUME LoopReturns, CallerTypeOK, InGbridgeLoop
  PROVE  /\ CallerTypeOK'
         /\ UNCHANGED caller
         /\ pc # "gbridge_loop" => pc' = pc
         /\ OneWaiter => pc' # "wait_previous"
         /\ pc # "wait_cmd" => pc' # "wait_cmd"
         /\ pc # "recv_stream_wait" => pc' # "recv_stream_wait"
BY DEF LoopReturns, CallerTypeOK, InGbridgeLoop, OneWaiter, caller

\* Every way to lose the connection.
LEMMA GbridgeInitPreserves ==
  ASSUME DeviceInv, GbridgeInit, LoopReturns, InGbridgeLoop,
         stream_size' \in Byte, toDev' \in Seq(Byte)
  PROVE  DeviceInv'
<1>1. FlagsTypeOK'
  BY DEF GbridgeInit, FlagsTypeOK
<1>2. ReceiverTypeOK'
  <2>1. 0 \in 0..3 /\ 0 \in 0..GBRIDGE_MAX_DATA_SIZE /\ 0 \in 0..UINT_MAX
    BY DEF GBRIDGE_MAX_DATA_SIZE, UINT_MAX
  <2>2. GBRIDGE_CMD_NONE \in WaitCommands
    BY DEF WaitCommands
  <2>3. QED
    BY <2>1, <2>2 DEF DeviceInv, DeviceTypeOK, ReceiverTypeOK, GbridgeInit
<1>3. CallerTypeOK'
  BY LoopReturnsPreserves DEF DeviceInv, DeviceTypeOK
<1>4. Safe'
  BY LoopReturnsPreserves
  DEF DeviceInv, DeviceTypeOK, GbridgeInit, Safe, DisconnectedIsIdle, OneWaiter,
         StreamBufferOwned, BuffersNotOverrun, StillAllowed, Progress, CallerConnected,
         GBRIDGE_CMD_NONE, GBRIDGE_CMD_DATA_PC, GBRIDGE_CMD_STREAM_PC
<1>5. QED
  BY <1>1, <1>2, <1>3, <1>4 DEF DeviceInv, DeviceTypeOK

\* A mobile_impl_sock_* function returns a value of its type.
LEMMA ReturnsPreserves ==
  ASSUME CallerTypeOK, NEW req \in Requests \cup {NoCall},
         NEW replied \in BOOLEAN, NEW val \in Int, Returns(req, replied, val),
         UNCHANGED <<wait_for, res>>, calls' \in Nat
  PROVE  CallerTypeOK' /\ pc' = "mobile_loop"
<1>1. ret' \in [req : Requests \cup {NoCall}, replied : BOOLEAN, val : Int]
  BY DEF Returns
<1>2. open' \subseteq Byte
  BY RequestType DEF Returns, CallerTypeOK
<1>3. QED
  BY <1>1, <1>2 DEF Returns, CallerTypeOK

LEMMA ErrorValueType == \A op : ErrorValue(op) \in Int
BY DEF ErrorValue

-----------------------------------------------------------------------------
(***************************************************************************)
(* Every action of gbridge_loop preserves the invariant.                   *)
(***************************************************************************)
LEMMA HandshakePreserves ==
  ASSUME DeviceInv, Handshake
  PROVE  DeviceInv'
<1>1. FlagsTypeOK'
  <2>1. connected' \in BOOLEAN
    BY DEF Handshake
  <2>2. QED
    BY <2>1 DEF DeviceInv, DeviceTypeOK, FlagsTypeOK, Handshake, packet
<1>2. ReceiverTypeOK'
  <2>1. handshake_progress' \in 0..3
    BY DEF DeviceInv, DeviceTypeOK, ReceiverTypeOK, Handshake,
           GBRIDGE_HANDSHAKE
  <2>2. QED
    BY <2>1 DEF DeviceInv, DeviceTypeOK, ReceiverTypeOK, Handshake,
                packet, streaming, processing
<1>3. CallerTypeOK' /\ toDev' \in Seq(Byte)
  BY LoopReturnsPreserves, ReadsType
  DEF DeviceInv, DeviceTypeOK, Handshake
<1>4. Safe'
  BY LoopReturnsPreserves
  DEF DeviceInv, DeviceTypeOK, Handshake, packet, streaming, processing,
      caller, Safe, DisconnectedIsIdle, OneWaiter, StreamBufferOwned,
        BuffersNotOverrun, StillAllowed, CannotReceive, Progress,
        CallerConnected
<1>5. QED
  BY <1>1, <1>2, <1>3, <1>4 DEF DeviceInv, DeviceTypeOK

LEMMA RecvAckPreserves ==
  ASSUME DeviceInv, RecvAck
  PROVE  DeviceInv'
<1>1. FlagsTypeOK'
  BY DEF DeviceInv, DeviceTypeOK, FlagsTypeOK, RecvAck, packet
<1>2. ReceiverTypeOK'
  BY DEF DeviceInv, DeviceTypeOK, ReceiverTypeOK, RecvAck, WaitCommands,
         packet, streaming, processing
<1>3. CallerTypeOK' /\ toDev' \in Seq(Byte)
  BY LoopReturnsPreserves, ReadsType
  DEF DeviceInv, DeviceTypeOK, RecvAck, ReadsCommand
<1>4. Safe'
  BY LoopReturnsPreserves
  DEF DeviceInv, DeviceTypeOK, RecvAck, ReadsCommand, packet, streaming,
      processing, caller, Safe, DisconnectedIsIdle, OneWaiter, StreamBufferOwned,
        BuffersNotOverrun, StillAllowed, CannotReceive, Progress,
        CallerConnected
<1>5. QED
  BY <1>1, <1>2, <1>3, <1>4 DEF DeviceInv, DeviceTypeOK

LEMMA RecvResetPreserves ==
  ASSUME DeviceInv, RecvReset
  PROVE  DeviceInv'
BY GbridgeInitPreserves, ReadsType
DEF RecvReset, ReadsCommand, DeviceInv, DeviceTypeOK, ReceiverTypeOK

LEMMA RecvCommandPreserves ==
  ASSUME DeviceInv, RecvCommand
  PROVE  DeviceInv'
<1>1. toDev' \in Seq(Byte) /\ LoopReturns /\ InGbridgeLoop
  BY ReadsType DEF RecvCommand, ReadsCommand, DeviceInv
<1>2. CASE GbridgeInit /\ stream_size' = stream_size
  BY <1>1, <1>2, GbridgeInitPreserves
  DEF DeviceInv, DeviceTypeOK, ReceiverTypeOK
<1>3. CASE ~(GbridgeInit /\ stream_size' = stream_size)
  <2>1. /\ UNCHANGED <<link, packet, streaming>>
        /\ \/ /\ processing_cmd' \in
                   {GBRIDGE_CMD_DATA_PC, GBRIDGE_CMD_STREAM_PC}
              /\ ~CannotReceive(processing_cmd')
              /\ processing_cmd_state' = 0
           \/ UNCHANGED processing
    BY <1>3 DEF RecvCommand
  <2>2. FlagsTypeOK'
    BY <2>1 DEF DeviceInv, DeviceTypeOK, FlagsTypeOK, packet, link
  <2>3. ReceiverTypeOK'
    BY <2>1 DEF DeviceInv, DeviceTypeOK, ReceiverTypeOK, packet, link,
                streaming, processing
  <2>4. CallerTypeOK'
    BY <1>1, LoopReturnsPreserves DEF DeviceInv, DeviceTypeOK
  <2>5. Safe'
    BY <1>1, <2>1, LoopReturnsPreserves
    DEF DeviceInv, DeviceTypeOK, RecvCommand, ReadsCommand, packet, link,
        streaming, processing, caller, Safe, DisconnectedIsIdle, OneWaiter, StreamBufferOwned,
        BuffersNotOverrun, StillAllowed, CannotReceive, Progress,
        CallerConnected
  <2>6. QED
    BY <1>1, <2>2, <2>3, <2>4, <2>5 DEF DeviceInv, DeviceTypeOK
<1>4. QED
  BY <1>2, <1>3

LEMMA RecvDataLenPreserves ==
  ASSUME DeviceInv, RecvDataLen
  PROVE  DeviceInv'
<1>1. /\ toDev' \in Seq(Byte) /\ Head(toDev) \in Byte
      /\ LoopReturns /\ InGbridgeLoop
  BY ReadsType DEF RecvDataLen, Processing, DeviceInv
<1>2. CASE GbridgeInit
  BY <1>1, <1>2, GbridgeInitPreserves
  DEF RecvDataLen, DeviceInv, DeviceTypeOK, ReceiverTypeOK
<1>3. CASE ~GbridgeInit
  <2>0. /\ Head(toDev) <= GBRIDGE_MAX_DATA_SIZE
        /\ data_len' = Head(toDev) /\ data' = <<>>
        /\ processing_cmd_state' = 1
        /\ UNCHANGED <<processing_cmd, data_size, data_ready, link, streaming>>
    BY <1>3 DEF RecvDataLen, streaming
  <2>1. FlagsTypeOK'
    BY <2>0 DEF DeviceInv, DeviceTypeOK, FlagsTypeOK, link
  <2>2. ReceiverTypeOK'
    <3>1. \A b \in Byte : b <= GBRIDGE_MAX_DATA_SIZE
                            => b \in 0..GBRIDGE_MAX_DATA_SIZE
      BY DEF Byte, GBRIDGE_MAX_DATA_SIZE
    <3>2. QED
      BY <1>1, <2>0, <3>1
      DEF DeviceInv, DeviceTypeOK, ReceiverTypeOK, link, streaming
  <2>3. CallerTypeOK'
    BY <1>1, LoopReturnsPreserves DEF DeviceInv, DeviceTypeOK
  <2>4. Safe'
    <3>1. Len(data') = 0 /\ 0 <= GBRIDGE_MAX_DATA_SIZE
      BY <2>0 DEF GBRIDGE_MAX_DATA_SIZE
    <3>2. QED
      BY <1>1, <2>0, <3>1, LoopReturnsPreserves
      DEF DeviceInv, DeviceTypeOK, RecvDataLen, Processing, link, streaming,
          caller, GBRIDGE_CMD_NONE, GBRIDGE_CMD_DATA_PC,
          GBRIDGE_CMD_STREAM_PC,
          Safe, DisconnectedIsIdle, OneWaiter, StreamBufferOwned,
          BuffersNotOverrun, StillAllowed, CannotReceive, Progress,
        CallerConnected
  <2>5. QED
    BY <1>1, <2>1, <2>2, <2>3, <2>4 DEF DeviceInv, DeviceTypeOK
<1>4. QED
  BY <1>2, <1>3

LEMMA RecvDataBytePreserves ==
  ASSUME DeviceInv, RecvDataByte
  PROVE  DeviceInv'
<1>1. /\ toDev' \in Seq(Byte) /\ Head(toDev) \in Byte
      /\ LoopReturns /\ InGbridgeLoop
  BY ReadsType DEF RecvDataByte, Processing, DeviceInv
<1>2. data' \in Seq(Byte) /\ Len(data') = Len(data) + 1
  BY <1>1 DEF RecvDataByte, DeviceInv, DeviceTypeOK, ReceiverTypeOK
<1>3. FlagsTypeOK'
  BY DEF DeviceInv, DeviceTypeOK, FlagsTypeOK, RecvDataByte, link
<1>4. ReceiverTypeOK'
  BY <1>2 DEF DeviceInv, DeviceTypeOK, ReceiverTypeOK, RecvDataByte, link,
              streaming
<1>5. CallerTypeOK'
  BY <1>1, LoopReturnsPreserves DEF DeviceInv, DeviceTypeOK
<1>6. Safe'
  <2>1. /\ Len(data') <= GBRIDGE_MAX_DATA_SIZE
        /\ processing_cmd_state' = 1 => Len(data') < data_len'
        /\ processing_cmd_state' = 2 => data_size' <= Len(data')
    BY <1>2
    DEF DeviceInv, DeviceTypeOK, ReceiverTypeOK, RecvDataByte, Processing,
        GBRIDGE_MAX_DATA_SIZE, Safe, Progress
  <2>2. QED
    BY <1>1, <2>1, LoopReturnsPreserves
    DEF DeviceInv, DeviceTypeOK, RecvDataByte, Processing, link, streaming,
        caller, GBRIDGE_CMD_NONE, GBRIDGE_CMD_DATA_PC,
        GBRIDGE_CMD_STREAM_PC,
        Safe, DisconnectedIsIdle, OneWaiter, StreamBufferOwned,
        BuffersNotOverrun, StillAllowed, CannotReceive, Progress,
        CallerConnected
<1>7. QED
  BY <1>1, <1>3, <1>4, <1>5, <1>6 DEF DeviceInv, DeviceTypeOK

LEMMA RecvDataChecksumPreserves ==
  ASSUME DeviceInv, RecvDataChecksum
  PROVE  DeviceInv'
<1>1. toDev' \in Seq(Byte) /\ LoopReturns /\ InGbridgeLoop
  BY ReadsType DEF RecvDataChecksum, Processing, DeviceInv
<1>2. CASE GbridgeInit
  BY <1>1, <1>2, GbridgeInitPreserves
  DEF RecvDataChecksum, DeviceInv, DeviceTypeOK, ReceiverTypeOK
<1>3. CASE ~GbridgeInit
  <2>0. /\ data_ready' = TRUE /\ processing_cmd' = GBRIDGE_CMD_NONE
        /\ UNCHANGED <<processing_cmd_state, data_len, data, data_size, link,
                       streaming>>
    BY <1>3 DEF RecvDataChecksum, streaming
  <2>1. FlagsTypeOK'
    BY <2>0 DEF DeviceInv, DeviceTypeOK, FlagsTypeOK, link
  <2>2. ReceiverTypeOK'
    BY <2>0 DEF DeviceInv, DeviceTypeOK, ReceiverTypeOK, link, streaming
  <2>3. CallerTypeOK'
    BY <1>1, LoopReturnsPreserves DEF DeviceInv, DeviceTypeOK
  <2>4. Safe'
    BY <1>1, <2>0, LoopReturnsPreserves
    DEF DeviceInv, DeviceTypeOK, RecvDataChecksum, Processing, link,
        streaming, caller,
        GBRIDGE_CMD_NONE, GBRIDGE_CMD_DATA_PC,
        GBRIDGE_CMD_STREAM_PC,
        Safe, DisconnectedIsIdle, OneWaiter, StreamBufferOwned,
        BuffersNotOverrun, StillAllowed, CannotReceive, Progress,
        CallerConnected
  <2>5. QED
    BY <1>1, <2>1, <2>2, <2>3, <2>4 DEF DeviceInv, DeviceTypeOK
<1>4. QED
  BY <1>2, <1>3

LEMMA RecvStreamLenPreserves ==
  ASSUME DeviceInv, RecvStreamLen
  PROVE  DeviceInv'
<1>1. /\ toDev' \in Seq(Byte) /\ stream_size' \in Byte
      /\ LoopReturns /\ InGbridgeLoop
  BY ReadsType, StreamSizeType DEF RecvStreamLen, Processing, DeviceInv
<1>2. CASE GbridgeInit
  BY <1>1, <1>2, GbridgeInitPreserves DEF RecvStreamLen
<1>3. CASE ~GbridgeInit
  <2>0. /\ stream_size' <= stream_max_size
        /\ stream' = <<>> /\ processing_cmd_state' = 1
        /\ UNCHANGED <<processing_cmd, stream_max_size, link, packet>>
    BY <1>3 DEF RecvStreamLen
  <2>1. FlagsTypeOK'
    BY <2>0 DEF DeviceInv, DeviceTypeOK, FlagsTypeOK, link, packet
  <2>2. ReceiverTypeOK'
    BY <1>1, <2>0 DEF DeviceInv, DeviceTypeOK, ReceiverTypeOK, link, packet
  <2>3. CallerTypeOK'
    BY <1>1, LoopReturnsPreserves DEF DeviceInv, DeviceTypeOK
  <2>4. Safe'
    <3>1. Len(stream') = 0 /\ (stream_max_size \in Nat => 0 <= stream_max_size)
      BY <2>0
    <3>2. stream_max_size \in Nat
      BY UintMax DEF DeviceInv, DeviceTypeOK, ReceiverTypeOK
    <3>3. QED
      BY <1>1, <2>0, <3>1, <3>2, LoopReturnsPreserves
      DEF DeviceInv, DeviceTypeOK, RecvStreamLen, Processing,
          link, packet, caller, GBRIDGE_CMD_NONE, GBRIDGE_CMD_DATA_PC,
          GBRIDGE_CMD_STREAM_PC,
          Safe, DisconnectedIsIdle, OneWaiter, StreamBufferOwned,
          BuffersNotOverrun, StillAllowed, CannotReceive, Progress,
        CallerConnected
  <2>5. QED
    BY <1>1, <2>1, <2>2, <2>3, <2>4 DEF DeviceInv, DeviceTypeOK
<1>4. QED
  BY <1>2, <1>3

LEMMA RecvStreamBytePreserves ==
  ASSUME DeviceInv, RecvStreamByte
  PROVE  DeviceInv'
<1>1. /\ toDev' \in Seq(Byte) /\ Head(toDev) \in Byte
      /\ LoopReturns /\ InGbridgeLoop
  BY ReadsType DEF RecvStreamByte, Processing, DeviceInv
<1>2. stream' \in Seq(Byte) /\ Len(stream') = Len(stream) + 1
  BY <1>1 DEF RecvStreamByte, DeviceInv, DeviceTypeOK, ReceiverTypeOK
<1>3. FlagsTypeOK'
  BY DEF DeviceInv, DeviceTypeOK, FlagsTypeOK, RecvStreamByte, link, packet
<1>4. ReceiverTypeOK'
  BY <1>2 DEF DeviceInv, DeviceTypeOK, ReceiverTypeOK, RecvStreamByte, link,
              packet
<1>5. CallerTypeOK'
  BY <1>1, LoopReturnsPreserves DEF DeviceInv, DeviceTypeOK
<1>6. Safe'
  <2>1. /\ stream_max_size # 0
        /\ Len(stream') <= stream_max_size
        /\ processing_cmd_state' = 1 => Len(stream') < stream_size
    <3>1. stream_max_size \in Nat /\ stream_size \in Nat
      BY UintMax DEF DeviceInv, DeviceTypeOK, ReceiverTypeOK
    <3>2. Len(stream) = 0 \/ stream # <<>>
      OBVIOUS
    <3>3. QED
      BY <1>2, <3>1, <3>2
      DEF DeviceInv, DeviceTypeOK, ReceiverTypeOK, RecvStreamByte, Processing,
          GBRIDGE_CMD_NONE, GBRIDGE_CMD_STREAM_PC,
          Safe, Progress, StillAllowed, CannotReceive
  <2>2. QED
    BY <1>1, <2>1, LoopReturnsPreserves
    DEF DeviceInv, DeviceTypeOK, RecvStreamByte, Processing, link, packet,
        caller, GBRIDGE_CMD_NONE, GBRIDGE_CMD_DATA_PC,
        GBRIDGE_CMD_STREAM_PC,
        Safe, DisconnectedIsIdle, OneWaiter, StreamBufferOwned,
        BuffersNotOverrun, StillAllowed, CannotReceive, Progress,
        CallerConnected
<1>7. QED
  BY <1>1, <1>3, <1>4, <1>5, <1>6 DEF DeviceInv, DeviceTypeOK

LEMMA RecvStreamChecksumPreserves ==
  ASSUME DeviceInv, RecvStreamChecksum
  PROVE  DeviceInv'
<1>1. toDev' \in Seq(Byte) /\ LoopReturns /\ InGbridgeLoop
  BY ReadsType DEF RecvStreamChecksum, Processing, DeviceInv
<1>2. CASE GbridgeInit
  BY <1>1, <1>2, GbridgeInitPreserves
  DEF RecvStreamChecksum, DeviceInv, DeviceTypeOK, ReceiverTypeOK
<1>3. CASE ~GbridgeInit
  <2>0. /\ stream_max_size' = 0 /\ processing_cmd' = GBRIDGE_CMD_NONE
        /\ UNCHANGED <<processing_cmd_state, stream, stream_size, link, packet>>
    BY <1>3 DEF RecvStreamChecksum
  <2>1. FlagsTypeOK'
    BY <2>0 DEF DeviceInv, DeviceTypeOK, FlagsTypeOK, link, packet
  <2>2. ReceiverTypeOK'
    BY <2>0, UintMax
    DEF DeviceInv, DeviceTypeOK, ReceiverTypeOK, link, packet
  <2>3. CallerTypeOK'
    BY <1>1, LoopReturnsPreserves DEF DeviceInv, DeviceTypeOK
  <2>4. Safe'
    BY <1>1, <2>0, LoopReturnsPreserves
    DEF DeviceInv, DeviceTypeOK, RecvStreamChecksum, Processing, link, packet,
        caller, GBRIDGE_CMD_NONE, GBRIDGE_CMD_DATA_PC,
        GBRIDGE_CMD_STREAM_PC,
        Safe, DisconnectedIsIdle, OneWaiter, StreamBufferOwned,
        BuffersNotOverrun, StillAllowed, CannotReceive, Progress,
        CallerConnected
  <2>5. QED
    BY <1>1, <2>1, <2>2, <2>3, <2>4 DEF DeviceInv, DeviceTypeOK
<1>4. QED
  BY <1>2, <1>3

LEMMA GbridgeLoopPreserves ==
  ASSUME DeviceInv, GbridgeLoop \/ Timeout
  PROVE  DeviceInv'
<1>1. CASE Timeout
  BY <1>1, GbridgeInitPreserves
  DEF Timeout, DeviceInv, DeviceTypeOK, ReceiverTypeOK, wire
<1>2. CASE LoopIdle
  <2>1. DeviceTypeOK'
    BY <1>2, LoopReturnsPreserves
    DEF LoopIdle, InGbridgeLoop, DeviceInv, DeviceTypeOK, FlagsTypeOK,
        ReceiverTypeOK, link, packet, streaming, processing
  <2>2. Safe'
    BY <1>2, LoopReturnsPreserves
    DEF LoopIdle, InGbridgeLoop, DeviceInv, DeviceTypeOK, link, packet,
        streaming, processing, caller,
        Safe, DisconnectedIsIdle, OneWaiter, StreamBufferOwned,
        BuffersNotOverrun, StillAllowed, CannotReceive, Progress,
        CallerConnected
  <2>3. QED
    BY <1>2, <2>1, <2>2 DEF LoopIdle, DeviceInv, wire
<1>3. QED
  BY <1>1, <1>2, HandshakePreserves, RecvAckPreserves, RecvResetPreserves,
     RecvCommandPreserves, RecvDataLenPreserves, RecvDataBytePreserves,
     RecvDataChecksumPreserves, RecvStreamLenPreserves,
     RecvStreamBytePreserves, RecvStreamChecksumPreserves
  DEF GbridgeLoop
-----------------------------------------------------------------------------
(***************************************************************************)
(* The steps of the caller.  Each leaves the receiver's numbers alone, but *)
(* for stream_max_size, which a RECV sets.                                 *)
(***************************************************************************)
LEMMA StartCallPreserves ==
  ASSUME DeviceInv, NEW req \in Requests, StartCall(req)
  PROVE  DeviceInv'
<1>1. calls' \in Nat
  BY DEF StartCall, DeviceInv, DeviceTypeOK, CallerTypeOK
<1>2. FlagsTypeOK' /\ ReceiverTypeOK' /\ toDev' \in Seq(Byte)
  <2>1. FlagsTypeOK'
    BY DEF StartCall, Fails, RecvDataDone, DeviceInv, DeviceTypeOK,
           FlagsTypeOK, link
  <2>2. QED
    BY <2>1 DEF StartCall, DeviceInv, DeviceTypeOK, ReceiverTypeOK,
                link, processing, streaming
<1>3. CallerTypeOK'
  <2>1. CASE connected
    BY <1>1, <2>1
    DEF StartCall, DeviceInv, DeviceTypeOK, CallerTypeOK, WaitCommands
  <2>2. CASE ~connected
    BY <1>1, <2>2, ReturnsPreserves, ErrorValueType
    DEF StartCall, Fails, DeviceInv, DeviceTypeOK
  <2>3. QED
    BY <2>1, <2>2
<1>4. Safe'
  BY DEF StartCall, Fails, RecvDataDone, Returns, DeviceInv, DeviceTypeOK,
         link, processing, streaming,
         Safe, DisconnectedIsIdle, OneWaiter, StreamBufferOwned,
         BuffersNotOverrun, StillAllowed, CannotReceive, Progress,
        CallerConnected
<1>5. QED
  BY <1>2, <1>3, <1>4 DEF DeviceInv, DeviceTypeOK

LEMMA DebugLinePreserves ==
  ASSUME DeviceInv, NEW length \in DebugLines, DebugLine(length)
  PROVE  DeviceInv'
<1>1. FlagsTypeOK' /\ ReceiverTypeOK' /\ toDev' \in Seq(Byte)
  BY DEF DebugLine, DeviceInv, DeviceTypeOK, FlagsTypeOK, ReceiverTypeOK,
         link, packet, processing, streaming
<1>2. CallerTypeOK'
  BY DEF DebugLine, DeviceInv, DeviceTypeOK, CallerTypeOK, WaitCommands
<1>3. Safe'
  BY DEF DebugLine, DeviceInv, DeviceTypeOK, link, packet, processing,
         streaming,
         Safe, DisconnectedIsIdle, OneWaiter, StreamBufferOwned,
         BuffersNotOverrun, StillAllowed, CannotReceive, Progress,
        CallerConnected
<1>4. QED
  BY <1>1, <1>2, <1>3 DEF DeviceInv, DeviceTypeOK

LEMMA BeginWaitPreserves ==
  ASSUME DeviceInv, BeginWait
  PROVE  DeviceInv'
<1>1. FlagsTypeOK'
  BY DEF BeginWait, DeviceInv, DeviceTypeOK, FlagsTypeOK, packet
<1>2. ReceiverTypeOK'
  BY DEF BeginWait, DeviceInv, DeviceTypeOK, ReceiverTypeOK, CallerTypeOK,
         packet, processing, streaming
<1>3. CallerTypeOK'
  BY DEF BeginWait, DeviceInv, DeviceTypeOK, CallerTypeOK, caller
<1>4. Safe'
  <2>1. connected
    BY DEF BeginWait, DeviceInv, Safe, CallerConnected
  <2>2. QED
    BY <2>1 DEF BeginWait, DeviceInv, DeviceTypeOK, packet, processing,
                streaming, caller,
         Safe, DisconnectedIsIdle, OneWaiter, StreamBufferOwned,
         BuffersNotOverrun, StillAllowed, CannotReceive, Progress,
        CallerConnected
<1>5. QED
  BY <1>1, <1>2, <1>3, <1>4 DEF BeginWait, DeviceInv, DeviceTypeOK, wire

LEMMA WaitOverPreserves ==
  ASSUME DeviceInv, EndDebugLine \/ EndSendData \/ EndSend
  PROVE  DeviceInv'
<1>1. WaitOver
  BY DEF EndDebugLine, EndSendData, EndSend
<1>2. FlagsTypeOK'
  BY <1>1 DEF WaitOver, EndDebugLine, EndSendData, EndSend, Fails,
     RecvDataDone, DeviceInv, DeviceTypeOK, FlagsTypeOK, link
<1>3. ReceiverTypeOK' /\ toDev' \in Seq(Byte)
  BY <1>1 DEF WaitOver, DeviceInv, DeviceTypeOK, ReceiverTypeOK, link,
     processing, streaming
<1>4. CallerTypeOK'
  <2>1. CASE EndSendData /\ ~connected
    BY <2>1, ReturnsPreserves, ErrorValueType
    DEF EndSendData, WaitOver, Fails, DeviceInv, DeviceTypeOK, CallerTypeOK
  <2>2. CASE ~(EndSendData /\ ~connected)
    BY <1>1, <2>2
    DEF EndDebugLine, EndSendData, EndSend, WaitOver, DeviceInv, DeviceTypeOK,
        CallerTypeOK, WaitCommands
  <2>3. QED
    BY <2>1, <2>2
<1>5. Safe'
  BY <1>1
  DEF EndDebugLine, EndSendData, EndSend, WaitOver, Fails, RecvDataDone,
      Returns, DeviceInv, DeviceTypeOK, link, processing, streaming,
        Safe, DisconnectedIsIdle, OneWaiter, StreamBufferOwned,
        BuffersNotOverrun, StillAllowed, CannotReceive, Progress,
        CallerConnected
<1>6. QED
  BY <1>2, <1>3, <1>4, <1>5 DEF DeviceInv, DeviceTypeOK

LEMMA EndRecvDataPreserves ==
  ASSUME DeviceInv, EndRecvData
  PROVE  DeviceInv'
<1>1. call \in Requests \cup {NoCall} /\ calls' \in Nat
  BY DEF EndRecvData, DeviceInv, DeviceTypeOK, CallerTypeOK
<1>2. CASE Fails(call) /\ UNCHANGED <<res, streaming>>
  <2>1. CallerTypeOK'
    BY <1>1, <1>2, ReturnsPreserves, ErrorValueType
    DEF Fails, EndRecvData, DeviceInv, DeviceTypeOK
  <2>2. FlagsTypeOK'
    BY <1>2 DEF Fails, RecvDataDone, EndRecvData, DeviceInv, DeviceTypeOK,
                FlagsTypeOK, link
  <2>3. ReceiverTypeOK' /\ toDev' \in Seq(Byte)
    BY <1>2 DEF EndRecvData, DeviceInv, DeviceTypeOK, ReceiverTypeOK, link,
                processing, streaming, wire
  <2>4. Safe'
    BY <1>2
    DEF EndRecvData, Fails, RecvDataDone, Returns, DeviceInv, DeviceTypeOK,
        link, processing, streaming,
        Safe, DisconnectedIsIdle, OneWaiter, StreamBufferOwned,
        BuffersNotOverrun, StillAllowed, CannotReceive, Progress,
        CallerConnected
  <2>5. QED
    BY <2>1, <2>2, <2>3, <2>4 DEF DeviceInv, DeviceTypeOK
<1>3. CASE ~(Fails(call) /\ UNCHANGED <<res, streaming>>)
  <2>1. /\ connected /\ data_ready /\ GoodReply(call, Received)
        /\ data_ready' = FALSE
    BY <1>3 DEF EndRecvData, RecvDataDone
  <2>2. Received \in Seq(Byte)
    BY <2>1 DEF Received, DeviceInv, DeviceTypeOK, ReceiverTypeOK, Safe,
                StillAllowed, GBRIDGE_MAX_DATA_SIZE
  <2>3. ReplyValue(call, Received) \in Int
    BY <1>1, <2>1, <2>2, ReplyValueType
  <2>4. FlagsTypeOK'
    BY <2>1 DEF EndRecvData, DeviceInv, DeviceTypeOK, FlagsTypeOK, link
  <2>5. CASE ~(call.op = RECV /\ ReplyValue(call, Received) > 0)
    <3>1. /\ Returns(call, TRUE, ReplyValue(call, Received))
          /\ UNCHANGED <<res, streaming>>
      BY <1>3, <2>5 DEF EndRecvData
    <3>2. CallerTypeOK'
      BY <1>1, <2>3, <3>1, ReturnsPreserves
      DEF EndRecvData, DeviceInv, DeviceTypeOK
    <3>3. ReceiverTypeOK' /\ toDev' \in Seq(Byte)
      BY <3>1 DEF EndRecvData, DeviceInv, DeviceTypeOK, ReceiverTypeOK, link,
                  processing, streaming, wire
    <3>4. Safe'
      BY <2>1, <3>1
      DEF EndRecvData, Returns, DeviceInv, DeviceTypeOK,
          link, processing, streaming,
        Safe, DisconnectedIsIdle, OneWaiter, StreamBufferOwned,
        BuffersNotOverrun, StillAllowed, CannotReceive, Progress,
        CallerConnected
    <3>5. QED
      BY <2>4, <3>2, <3>3, <3>4 DEF DeviceInv, DeviceTypeOK
  <2>6. CASE call.op = RECV /\ ReplyValue(call, Received) > 0
    <3>1. /\ pc' = "recv_stream_wait" /\ res' = ReplyValue(call, Received)
          /\ stream_max_size' = call.size
          /\ stream_size' = 0 /\ stream' = <<>>
          /\ UNCHANGED <<call, ret, open>>
      BY <1>3, <2>6 DEF EndRecvData
    <3>2. CallerTypeOK'
      BY <1>1, <2>3, <3>1
      DEF EndRecvData, DeviceInv, DeviceTypeOK, CallerTypeOK
    <3>3. ReceiverTypeOK' /\ toDev' \in Seq(Byte)
      <4>1. stream_max_size' \in 0..UINT_MAX /\ stream_size' \in Byte
        BY <1>1, <3>1, RequestType DEF Byte
      <4>2. QED
        BY <3>1, <4>1
        DEF EndRecvData, DeviceInv, DeviceTypeOK, ReceiverTypeOK, link,
            processing, wire
    <3>4. Safe'
      <4>1. Len(stream') = 0
        BY <3>1
      <4>2. call.size >= 0
        BY <1>1, RequestType, UintMax
      <4>3. processing_cmd # GBRIDGE_CMD_STREAM_PC
        BY DEF EndRecvData, DeviceInv, Safe, StillAllowed, CannotReceive,
               StreamBufferOwned, GBRIDGE_CMD_NONE, GBRIDGE_CMD_STREAM_PC
      <4>4. QED
        BY <2>1, <3>1, <4>1, <4>2, <4>3
        DEF EndRecvData, DeviceInv, DeviceTypeOK,
            link, processing,
        Safe, DisconnectedIsIdle, OneWaiter, StreamBufferOwned,
        BuffersNotOverrun, StillAllowed, CannotReceive, Progress,
        CallerConnected
    <3>5. QED
      BY <2>4, <3>2, <3>3, <3>4 DEF DeviceInv, DeviceTypeOK
  <2>7. QED
    BY <2>5, <2>6
<1>4. QED
  BY <1>2, <1>3

LEMMA EndRecvStreamPreserves ==
  ASSUME DeviceInv, EndRecvStream
  PROVE  DeviceInv'
<1>1. call \in Requests \cup {NoCall} /\ calls' \in Nat /\ res \in Int
      /\ connected \in BOOLEAN
  BY DEF EndRecvStream, DeviceInv, DeviceTypeOK, CallerTypeOK, FlagsTypeOK
<1>2. CallerTypeOK'
  <2>1. (IF connected THEN res ELSE -1) \in Int
    BY <1>1
  <2>2. QED
    BY <1>1, <2>1, ReturnsPreserves
    DEF EndRecvStream, DeviceInv, DeviceTypeOK
<1>3. FlagsTypeOK' /\ ReceiverTypeOK' /\ toDev' \in Seq(Byte)
  BY DEF EndRecvStream, DeviceInv, DeviceTypeOK, FlagsTypeOK, ReceiverTypeOK,
         link, packet, processing, streaming, wire
<1>4. Safe'
  <2>1. pc' = "mobile_loop"
    BY DEF EndRecvStream, Returns
  <2>2. stream_max_size = 0
    BY DEF EndRecvStream, DeviceInv, Safe, DisconnectedIsIdle
  <2>3. pc = "recv_stream_wait"
        /\ UNCHANGED <<link, packet, processing, streaming>>
    BY DEF EndRecvStream
  <2>4. QED
    BY <2>1, <2>2, <2>3
    DEF DeviceInv, DeviceTypeOK, link, packet, processing, streaming,
        Safe, DisconnectedIsIdle, OneWaiter, StreamBufferOwned,
        BuffersNotOverrun, StillAllowed, CannotReceive, Progress,
        CallerConnected
<1>5. QED
  BY <1>2, <1>3, <1>4 DEF DeviceInv, DeviceTypeOK

LEMMA MainPreserves ==
  ASSUME DeviceInv, MobileLoopReturns \/ ProtMaLoop
  PROVE  DeviceInv'
<1>1. FlagsTypeOK'
  BY DEF MobileLoopReturns, ProtMaLoop, RecvDataDone, DeviceInv, DeviceTypeOK,
         FlagsTypeOK, link, packet
<1>2. ReceiverTypeOK' /\ toDev' \in Seq(Byte)
  BY DEF MobileLoopReturns, ProtMaLoop, DeviceInv, DeviceTypeOK,
         ReceiverTypeOK, link, packet, processing, streaming, wire
<1>3. CallerTypeOK'
  BY DEF MobileLoopReturns, ProtMaLoop, DeviceInv, DeviceTypeOK, CallerTypeOK,
         caller
<1>4. Safe'
  BY DEF MobileLoopReturns, ProtMaLoop, RecvDataDone, DeviceInv, DeviceTypeOK,
         link, packet, processing, streaming, caller,
         Safe, DisconnectedIsIdle, OneWaiter, StreamBufferOwned,
         BuffersNotOverrun, StillAllowed, CannotReceive, Progress,
        CallerConnected
<1>5. QED
  BY <1>1, <1>2, <1>3, <1>4 DEF DeviceInv, DeviceTypeOK
-----------------------------------------------------------------------------
LEMMA InitDeviceInv ==
  ASSUME DeviceInit, toDev = <<>>
  PROVE  DeviceInv
<1>1. FlagsTypeOK
  BY DEF DeviceInit, FlagsTypeOK
<1>2. ReceiverTypeOK
  BY UintMax DEF DeviceInit, ReceiverTypeOK, WaitCommands, Byte,
                 GBRIDGE_MAX_DATA_SIZE
<1>3. CallerTypeOK
  <2>1. ret \in [req : Requests \cup {NoCall}, replied : BOOLEAN, val : Int]
    BY DEF DeviceInit
  <2>2. QED
    BY <2>1 DEF DeviceInit, CallerTypeOK, WaitCommands
<1>4. Safe
  BY DEF DeviceInit, Safe, DisconnectedIsIdle, OneWaiter,
         StreamBufferOwned, BuffersNotOverrun, StillAllowed, Progress,
         CallerConnected, GBRIDGE_MAX_DATA_SIZE, GBRIDGE_CMD_NONE,
         GBRIDGE_CMD_DATA_PC, GBRIDGE_CMD_STREAM_PC
<1>5. toDev \in Seq(Byte)
  OBVIOUS
<1>6. QED
  BY <1>1, <1>2, <1>3, <1>4, <1>5 DEF DeviceInv, DeviceTypeOK
=============================================================================
