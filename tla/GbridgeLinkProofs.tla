------------------------- MODULE GbridgeLinkProofs --------------------------
(***************************************************************************)
(* Theorems about the device and the bridge together.                      *)
(***************************************************************************)
EXTENDS GbridgeLink, GbridgeDeviceProofs, GbridgeWireProofs

\* The bridge's copies of the wire format are the wire format.
LEMMA SameWire ==
  /\ B!Byte = Byte
  /\ \A n : B!Be16(n) = Be16(n) /\ B!Reply(n) = Reply(n)
              /\ B!Content(n) = Content(n) /\ B!AddressWrite(n) = AddressWrite(n)
  /\ \A hi, lo : B!FromBe16(hi, lo) = FromBe16(hi, lo)
                   /\ B!Unsigned(hi, lo) = Unsigned(hi, lo)
                   /\ B!After(hi, lo) = After(hi, lo)
                   /\ B!DataFrame(hi, lo) = DataFrame(hi, lo)
                   /\ B!StreamFrame(hi, lo) = StreamFrame(hi, lo)
  /\ \A s : B!ChecksumData(s) = ChecksumData(s) /\ B!AddressRead(s) = AddressRead(s)
<1>1. B!Byte = Byte
  BY DEF B!Byte, Byte
<1>2. \A n : B!Be16(n) = Be16(n) /\ B!Reply(n) = Reply(n)
              /\ B!Content(n) = Content(n)
  BY DEF B!Be16, Be16, B!Reply, Reply, B!Content, Content
<1>3. \A n : B!AddressWrite(n) = AddressWrite(n)
  BY DEF B!AddressWrite, AddressWrite, B!ADDR_NONE, ADDR_NONE,
         B!ADDR_IPV4, ADDR_IPV4, B!ADDR_IPV6, ADDR_IPV6
<1>4. \A hi, lo : B!FromBe16(hi, lo) = FromBe16(hi, lo)
                   /\ B!Unsigned(hi, lo) = Unsigned(hi, lo)
                   /\ B!After(hi, lo) = After(hi, lo)
  BY DEF B!FromBe16, FromBe16, B!Unsigned, Unsigned, B!After, After
<1>5. \A s : B!ChecksumData(s) = ChecksumData(s)
  BY DEF B!ChecksumData, ChecksumData, B!ByteSum, ByteSum
<1>6. \A s : B!AddressRead(s) = AddressRead(s)
  BY DEF B!AddressRead, AddressRead, B!ADDR_NONE, ADDR_NONE,
         B!ADDR_IPV4, ADDR_IPV4, B!ADDR_IPV6, ADDR_IPV6
<1>7. \A cmd, s : /\ B!DataFrame(cmd, s) = DataFrame(cmd, s)
                  /\ B!StreamFrame(cmd, s) = StreamFrame(cmd, s)
  BY <1>2, <1>5 DEF B!DataFrame, DataFrame, B!StreamFrame, StreamFrame
<1>8. QED
  BY <1>1, <1>2, <1>3, <1>4, <1>5, <1>6, <1>7

LEMMA SameCodes ==
  /\ B!OPEN = OPEN /\ B!CLOSE = CLOSE /\ B!CONNECT = CONNECT
  /\ B!LISTEN = LISTEN /\ B!ACCEPT = ACCEPT /\ B!SEND = SEND /\ B!RECV = RECV
  /\ B!ADDR_NONE = ADDR_NONE /\ B!ADDR_IPV4 = ADDR_IPV4 /\ B!ADDR_IPV6 = ADDR_IPV6
  /\ B!GBRIDGE_HANDSHAKE = GBRIDGE_HANDSHAKE
  /\ B!GBRIDGE_CMD_NONE = GBRIDGE_CMD_NONE
  /\ B!GBRIDGE_CMD_DEBUG_LINE = GBRIDGE_CMD_DEBUG_LINE
  /\ B!GBRIDGE_CMD_DATA = GBRIDGE_CMD_DATA
  /\ B!GBRIDGE_CMD_STREAM = GBRIDGE_CMD_STREAM
  /\ B!GBRIDGE_CMD_DATA_PC = GBRIDGE_CMD_DATA_PC
  /\ B!GBRIDGE_CMD_STREAM_PC = GBRIDGE_CMD_STREAM_PC
BY DEF B!OPEN, OPEN, B!CLOSE, CLOSE, B!CONNECT, CONNECT, B!LISTEN, LISTEN,
       B!ACCEPT, ACCEPT, B!SEND, SEND, B!RECV, RECV, B!ADDR_NONE, ADDR_NONE,
       B!ADDR_IPV4, ADDR_IPV4, B!ADDR_IPV6, ADDR_IPV6,
       B!GBRIDGE_HANDSHAKE, GBRIDGE_HANDSHAKE,
       B!GBRIDGE_CMD_NONE, GBRIDGE_CMD_NONE,
       B!GBRIDGE_CMD_DEBUG_LINE, GBRIDGE_CMD_DEBUG_LINE,
       B!GBRIDGE_CMD_DATA, GBRIDGE_CMD_DATA,
       B!GBRIDGE_CMD_STREAM, GBRIDGE_CMD_STREAM,
       B!GBRIDGE_CMD_DATA_PC, GBRIDGE_CMD_DATA_PC,
       B!GBRIDGE_CMD_STREAM_PC, GBRIDGE_CMD_STREAM_PC
-----------------------------------------------------------------------------
(***************************************************************************)
(* The state of the bridge has its type, whatever comes on the line.       *)
(***************************************************************************)
StreamStages == {"stream_cmd", "stream_size", "stream_buffer",
                 "stream_checksum", "socket_impl_send"}

\* How many bytes recv_data reads for a command or a length, and for a checksum.
Counts ==
  /\ bpc \in {"debug_line_length", "data_size", "stream_cmd"} => bcount = 1
  /\ bpc \in {"data_checksum", "stream_size", "stream_checksum"} => bcount = 2

\* While the stream of a SEND is received, the request is still there.
StreamOfSend ==
  bpc \in StreamStages => B!WellFormed(bdata) /\ bdata[1] = SEND

BridgeInv == B!BridgeTypeOK /\ Counts /\ StreamOfSend

LEMMA WellFormedHas ==
  ASSUME NEW request \in Seq(Byte), B!WellFormed(request)
  PROVE  Len(request) >= 2 /\ request[1] \in Op /\ request[2] \in Byte
         /\ (request[1] = RECV => Len(request) = 4)
<1>1. Len(After(request, 2)) >= 1 => Len(request) >= 2
  BY DEF After
<1>2. AddressRead(After(request, 2)) # 0 => Len(request) >= 2
  BY <1>1 DEF AddressRead
<1>3. Len(request) >= 2 /\ request[1] \in Op
  BY <1>2, SameWire, SameCodes
  DEF B!WellFormed, Op, OPEN, CLOSE, CONNECT, LISTEN, ACCEPT, SEND, RECV
<1>4. request[1] = RECV => Len(request) = 4
  BY SameCodes
  DEF B!WellFormed, Op, OPEN, CLOSE, CONNECT, LISTEN, ACCEPT, SEND, RECV
<1>5. QED
  BY <1>3, <1>4

\* What a socket function returns fits its reply.
\* What follows the code of the operation in its reply.
ReplyArguments(op, r, addr) ==
  CASE op = CLOSE -> <<>>
    [] op = CONNECT -> <<Unsigned(r, 8)>>
    [] op = SEND -> Be16(Unsigned(r, 16))
    [] op = RECV -> Be16(Unsigned(r, 16)) \o AddressWrite(addr)
    [] OTHER -> <<r>>

LEMMA ReplyPayloadIs ==
  \A op, r, addr :
    B!ReplyPayload(op, r, addr) = <<op>> \o ReplyArguments(op, r, addr)
BY SameWire
DEF B!ReplyPayload, ReplyArguments, B!CLOSE, CLOSE, B!CONNECT, CONNECT,
    B!SEND, SEND, B!RECV, RECV

LEMMA ResultsAre ==
  ASSUME NEW op \in Op, NEW r \in B!Results(op)
  PROVE  /\ op = CLOSE => r = 0
         /\ op = CONNECT => r \in {-1, 0, 1}
         /\ op = SEND => r \in {-1, 0} \cup 1..512
         /\ op = RECV => r \in {-2, -1, 0} \cup 1..512
                         /\ (r > 0 => r <= FromBe16(bdata[3], bdata[4]))
         /\ op \in {OPEN, LISTEN, ACCEPT} => r \in {0, 1}
         /\ r \in Int
<1>1. op = CLOSE => r = 0
  BY DEF B!Results, B!CLOSE, CLOSE, B!CONNECT, CONNECT, B!SEND, SEND,
     B!RECV, RECV
<1>2. op = CONNECT => r \in {-1, 0, 1}
  BY DEF B!Results, B!CLOSE, CLOSE, B!CONNECT, CONNECT, B!SEND, SEND,
     B!RECV, RECV
<1>3. op = SEND => r \in {-1, 0} \cup SocketLengths
  BY DEF B!Results, B!CLOSE, CLOSE, B!CONNECT, CONNECT, B!SEND, SEND,
     B!RECV, RECV
<1>4. op = RECV => r \in {-2, -1, 0} \cup
        {n \in SocketLengths : n <= FromBe16(bdata[3], bdata[4])}
  BY SameWire DEF B!Results, B!CLOSE, CLOSE, B!CONNECT, CONNECT, B!SEND, SEND,
     B!RECV, RECV
<1>5. op \in {OPEN, LISTEN, ACCEPT} => r \in {0, 1}
  BY DEF B!Results, B!CLOSE, CLOSE, B!CONNECT, CONNECT, B!SEND, SEND,
     B!RECV, RECV, OPEN, LISTEN, ACCEPT
<1>6. SocketLengths \subseteq 1..512
  BY LinkAssumption DEF LinkAssumption
<1>8. op = SEND => r \in {-1, 0} \cup 1..512
  BY <1>3, <1>6
<1>9. op = RECV => r \in {-2, -1, 0} \cup 1..512
                   /\ (r > 0 => r <= FromBe16(bdata[3], bdata[4]))
  <2>1. HAVE op = RECV
  <2>2. CASE r \in {-2, -1, 0}
    BY <2>2
  <2>3. CASE r \in SocketLengths /\ r <= FromBe16(bdata[3], bdata[4])
    BY <1>6, <2>3
  <2>4. QED
    BY <1>4, <2>1, <2>2, <2>3
<1>10. r \in Int
  <2>1. op \in {OPEN, LISTEN, ACCEPT} \/ op \in {CLOSE, CONNECT, SEND, RECV}
    BY DEF Op
  <2>2. CASE op \in {OPEN, LISTEN, ACCEPT}
    BY <1>5, <2>2
  <2>3. CASE op \in {CLOSE, CONNECT}
    BY <1>1, <1>2, <2>3
  <2>4. CASE op \in {SEND, RECV}
    BY <1>8, <1>9, <2>4
  <2>5. QED
    BY <2>1, <2>2, <2>3, <2>4
<1>11. QED
  BY <1>1, <1>2, <1>5, <1>8, <1>9, <1>10

\* What a socket function returns fits its reply.
LEMMA ReplyType ==
  ASSUME NEW op \in Op, NEW r \in B!Results(op), NEW addr \in B!Senders(op, r)
  PROVE  /\ B!ReplyPayload(op, r, addr) \in Seq(Byte)
         /\ Len(B!ReplyPayload(op, r, addr)) <= 22
<1>1. r \in Int
  BY ResultsAre
<1> DEFINE body == ReplyArguments(op, r, addr)
<1>2. SUFFICES body \in Seq(Byte) /\ Len(body) <= 21
  <2>1. op \in Byte
    BY DEF Op, Byte, OPEN, CLOSE, CONNECT, LISTEN, ACCEPT, SEND, RECV
  <2>2. body \in Seq(Byte) => Len(body) \in Nat
    OBVIOUS
  <2> HIDE DEF body
  <2>3. B!ReplyPayload(op, r, addr) = <<op>> \o body
    BY ReplyPayloadIs DEF body
  <2>4. body \in Seq(Byte) =>
          <<op>> \o body \in Seq(Byte) /\ Len(<<op>> \o body) = 1 + Len(body)
    BY <2>1, OneThenRest
  <2>5. QED
    BY <2>2, <2>3, <2>4
<1> HIDE DEF body
<1>3. CASE op = CLOSE
  <2>1. body = <<>>
    BY <1>3 DEF body, ReplyArguments, CLOSE, CONNECT, SEND, RECV
  <2>2. <<>> \in Seq(Byte) /\ Len(<<>>) <= 21
    OBVIOUS
  <2>3. QED
    BY <2>1, <2>2
<1>4. CASE op = CONNECT
  <2> DEFINE n == Unsigned(r, 8)
  <2>1. body = <<n>>
    BY <1>4 DEF body, ReplyArguments, CLOSE, CONNECT, SEND, RECV
  <2>2. n \in Byte
    BY <1>4, ResultsAre DEF Unsigned, Byte
  <2> HIDE DEF n
  <2>3. <<n>> \in Seq(Byte) /\ Len(<<n>>) <= 21
    BY <2>2
  <2>4. QED
    BY <2>1, <2>3
<1>5. CASE op = SEND
  <2>1. body = Be16(Unsigned(r, 16))
    BY <1>5 DEF body, ReplyArguments, CLOSE, CONNECT, SEND, RECV
  <2>2. Unsigned(r, 16) \in Int
    BY <1>1 DEF Unsigned
  <2>3. Be16(Unsigned(r, 16)) \in Seq(Byte) /\ Len(Be16(Unsigned(r, 16))) = 2
    BY <2>2, Be16Type
  <2>4. 2 <= 21
    OBVIOUS
  <2>5. QED
    BY <2>1, <2>3, <2>4
<1>6. CASE op = RECV
  <2> DEFINE u == Be16(Unsigned(r, 16))
             v == AddressWrite(addr)
  <2>1. body = u \o v
    BY <1>6 DEF body, ReplyArguments, CLOSE, CONNECT, SEND, RECV
  <2>2. Unsigned(r, 16) \in Int
    BY <1>1 DEF Unsigned
  <2>3. addr \in 0..2
    BY SameCodes DEF B!Senders, ADDR_NONE, ADDR_IPV4, ADDR_IPV6
  <2>4. v \in Seq(Byte) /\ (Len(v) = 7 \/ Len(v) = 19 \/ Len(v) = 1)
    BY <2>3, AddressIs
  <2>5. u \in Seq(Byte) /\ Len(u) = 2
    BY <2>2, Be16Type
  <2> HIDE DEF u, v
  <2>6. u \o v \in Seq(Byte) /\ Len(u \o v) = Len(u) + Len(v)
    BY <2>4, <2>5, TakeDrop
  <2>7. Len(u \o v) <= 21
    <3>1. CASE Len(v) = 7
      BY <2>5, <2>6, <3>1
    <3>2. CASE Len(v) = 1
      BY <2>5, <2>6, <3>2
    <3>3. CASE Len(v) = 19
      BY <2>5, <2>6, <3>3
    <3>4. QED
      BY <2>4, <3>1, <3>2, <3>3
  <2>8. QED
    BY <2>1, <2>6, <2>7
<1>7. CASE op \in {OPEN, LISTEN, ACCEPT}
  <2>1. body = <<r>>
    BY <1>7
    DEF body, ReplyArguments, OPEN, CLOSE, CONNECT, LISTEN, ACCEPT, SEND, RECV
  <2>2. r \in Byte
    BY <1>7, ResultsAre DEF Byte
  <2>3. <<r>> \in Seq(Byte) /\ Len(<<r>>) <= 21
    BY <2>2
  <2>4. QED
    BY <2>1, <2>3
<1>8. QED
  BY <1>3, <1>4, <1>5, <1>6, <1>7 DEF Op
-----------------------------------------------------------------------------
BridgeOK == BridgeInv /\ toPC \in Seq(Byte) /\ toDev \in Seq(Byte)

LEMMA BridgeReads ==
  ASSUME toPC \in Seq(Byte), NEW n \in Nat, B!Reads(n)
  PROVE  /\ toPC' \in Seq(Byte)
         /\ SubSeq(toPC, 1, n) \in Seq(Byte)
         /\ n >= 1 => Head(toPC) \in Byte /\ Head(toPC) = toPC[1]
         /\ n >= 2 => toPC[1] \in Byte /\ toPC[2] \in Byte
<1>1. Len(toPC) >= n /\ toPC' = After(toPC, n)
  BY SameWire DEF B!Reads
<1>2. After(toPC, n) \in Seq(Byte)
  BY <1>1, AfterType
<1>3. QED
  BY <1>1, <1>2

LEMMA BridgeWrites ==
  ASSUME toDev \in Seq(Byte), NEW bytes \in Seq(Byte), B!Writes(bytes)
  PROVE  toDev' = toDev \o bytes /\ toDev' \in Seq(Byte)
BY DEF B!Writes

LEMMA ReplyByte ==
  ASSUME NEW cmd \in 0..127
  PROVE  <<Reply(cmd)>> \in Seq(Byte)
<1>1. Reply(cmd) \in Byte
  BY DEF Reply, Byte
<1>2. QED
  BY <1>1

\* gbridge_init of the bridge.
LEMMA BridgeInitPreserves ==
  ASSUME BridgeInv, B!GbridgeInit,
         bpc' \in {"gbridge_loop", "gbridge_prot_ma_loop", "wait_cmd"},
         UNCHANGED <<bcount, bwait_for, bstream, bres, sockets>>
  PROVE  BridgeInv'
<1>1. B!BridgeTypeOK'
  <2>1. 0 \in 0..3 /\ <<>> \in Seq(B!Byte)
    OBVIOUS
  <2>2. QED
    BY <2>1 DEF BridgeInv, B!BridgeTypeOK, B!GbridgeInit
<1>2. Counts' /\ StreamOfSend'
  BY DEF Counts, StreamOfSend, StreamStages
<1>3. QED
  BY <1>1, <1>2 DEF BridgeInv

LEMMA HandshakeKeepsType ==
  ASSUME BridgeOK, B!HandshakeSend \/ B!HandshakeByte \/ B!HandshakeTimesOut
  PROVE  BridgeOK'
<1>1. CASE B!HandshakeSend
  <2>1. GBRIDGE_HANDSHAKE \in Seq(Byte)
    BY DEF GBRIDGE_HANDSHAKE, Byte
  <2>2. toDev' \in Seq(Byte) /\ toPC' \in Seq(Byte)
    BY <1>1, <2>1, SameCodes, BridgeWrites DEF B!HandshakeSend, BridgeOK
  <2>3. BridgeInv'
    BY <1>1 DEF B!HandshakeSend, BridgeOK, BridgeInv, B!BridgeTypeOK,
       Counts, StreamOfSend, StreamStages, B!link, B!packet, B!handler
  <2>4. QED
    BY <2>2, <2>3 DEF BridgeOK
<1>2. CASE B!HandshakeByte
  <2>1. toDev' \in Seq(Byte) /\ toPC' \in Seq(Byte)
    BY <1>2, BridgeReads DEF B!HandshakeByte, BridgeOK
  <2>2. bconnected' \in BOOLEAN /\ bhandshake_progress' \in 0..3
    <3> DEFINE progress == IF Head(toPC) = B!GBRIDGE_HANDSHAKE[bhandshake_progress + 1]
                           THEN bhandshake_progress + 1
                           ELSE IF Head(toPC) = B!GBRIDGE_HANDSHAKE[1] THEN 1 ELSE 0
    <3>1. bhandshake_progress \in 0..3
      BY DEF BridgeOK, BridgeInv, B!BridgeTypeOK
    <3>2. progress \in 0..4
      BY <3>1
    <3>3. /\ bconnected' = (progress = Len(B!GBRIDGE_HANDSHAKE))
          /\ bhandshake_progress' = IF bconnected' THEN 0 ELSE progress
      BY <1>2 DEF B!HandshakeByte
    <3>4. Len(B!GBRIDGE_HANDSHAKE) = 4
      BY DEF B!GBRIDGE_HANDSHAKE
    <3> HIDE DEF progress
    <3>5. CASE progress = 4
      <4>1. bconnected' = TRUE
        BY <3>3, <3>4, <3>5
      <4>2. QED
        BY <3>3, <4>1
    <3>6. CASE progress \in 0..3
      <4>1. (progress = Len(B!GBRIDGE_HANDSHAKE)) = FALSE
        BY <3>4, <3>6
      <4>2. bconnected' = FALSE
        BY <3>3, <4>1
      <4>3. QED
        BY <3>3, <3>6, <4>2
    <3>7. QED
      BY <3>2, <3>5, <3>6
  <2>3. bpc' \in {"gbridge_loop", "handshake_read"}
    BY <1>2 DEF B!HandshakeByte
  <2>4. UNCHANGED <<bwaiting_cmd, bdata, bdata_ready, bwait_for, bstream, bres,
                    sockets, bcount>>
    BY <1>2 DEF B!HandshakeByte, B!packet, B!handler
  <2>5. BridgeInv'
    BY <2>2, <2>3, <2>4 DEF BridgeOK, BridgeInv, B!BridgeTypeOK, Counts, StreamOfSend, StreamStages
  <2>6. QED
    BY <2>1, <2>5 DEF BridgeOK
<1>3. CASE B!HandshakeTimesOut
  BY <1>3 DEF B!HandshakeTimesOut, BridgeOK, BridgeInv, B!BridgeTypeOK,
     Counts, StreamOfSend, StreamStages, B!link, B!packet, B!handler, B!wire
<1>4. QED
  BY <1>1, <1>2, <1>3

LEMMA BridgeLoopKeepsType ==
  ASSUME BridgeOK,
         \/ B!LoopIdle \/ B!PortError \/ B!RecvAck
         \/ B!RecvDebugLine \/ B!RecvData \/ B!RecvUnknown
  PROVE  BridgeOK'
<1>1. bpc \in {"gbridge_loop", "wait_cmd"}
  BY DEF B!LoopIdle, B!PortError, B!RecvAck, B!RecvDebugLine, B!RecvData,
     B!RecvUnknown, B!ReadsCommand, B!InGbridgeLoop
<1>2. toDev' \in Seq(Byte) /\ toPC' \in Seq(Byte)
  BY BridgeReads
  DEF BridgeOK, B!LoopIdle, B!PortError, B!RecvAck, B!RecvDebugLine, B!RecvData,
      B!RecvUnknown, B!ReadsCommand, B!wire
<1>3. CASE B!LoopIdle \/ B!PortError \/ B!RecvUnknown
  <2>1. Counts' /\ StreamOfSend'
    BY <1>1, <1>3 DEF B!LoopIdle, B!PortError, B!RecvUnknown, B!LoopReturns,
       Counts, StreamOfSend, StreamStages
  <2>2. B!BridgeTypeOK'
    BY <1>1, <1>3 DEF B!LoopIdle, B!PortError, B!RecvUnknown, B!ReadsCommand,
       B!LoopReturns, BridgeOK, BridgeInv, B!BridgeTypeOK, B!link, B!packet,
       B!handler
  <2>3. QED
    BY <1>2, <2>1, <2>2 DEF BridgeOK, BridgeInv
<1>4. CASE B!RecvAck
  <2>1. Counts' /\ StreamOfSend'
    BY <1>1, <1>4 DEF B!RecvAck, B!LoopReturns, Counts, StreamOfSend, StreamStages
  <2>2. B!BridgeTypeOK'
    BY <1>1, <1>4 DEF B!RecvAck, B!LoopReturns, BridgeOK, BridgeInv,
       B!BridgeTypeOK, B!packet, B!handler
  <2>3. QED
    BY <1>2, <2>1, <2>2 DEF BridgeOK, BridgeInv
<1>5. CASE B!RecvDebugLine \/ (B!RecvData /\ ~bdata_ready)
  <2>1. Counts' /\ StreamOfSend'
    BY <1>5 DEF B!RecvDebugLine, B!RecvData, B!Recv, Counts, StreamOfSend, StreamStages
  <2>2. B!BridgeTypeOK'
    BY <1>5 DEF B!RecvDebugLine, B!RecvData, B!Recv, B!ReadsCommand, BridgeOK,
       BridgeInv, B!BridgeTypeOK, B!link, B!packet, B!handler, B!Receiving,
       B!MaxStream
  <2>3. QED
    BY <1>2, <2>1, <2>2 DEF BridgeOK, BridgeInv
<1>6. CASE B!RecvData /\ bdata_ready
  <2>1. /\ B!GbridgeInit
        /\ bpc' \in {"gbridge_loop", "gbridge_prot_ma_loop", "wait_cmd"}
        /\ UNCHANGED <<bcount, bwait_for, bstream, bres, sockets>>
    BY <1>1, <1>6 DEF B!RecvData, B!LoopReturns, B!ReadsCommand, B!handler
  <2>2. QED
    BY <1>2, <2>1, BridgeInitPreserves DEF BridgeOK
<1>7. bdata_ready \in BOOLEAN
  BY DEF BridgeOK, BridgeInv, B!BridgeTypeOK
<1>8. QED
  BY <1>3, <1>4, <1>5, <1>6, <1>7

LEMMA RecvTimesOutKeepsType ==
  ASSUME BridgeOK, B!RecvTimesOut
  PROVE  BridgeOK'
<1>1. BridgeInv'
  BY BridgeInitPreserves DEF B!RecvTimesOut, BridgeOK, B!handler
<1>2. toPC' \in Seq(Byte)
  <2>1. PICK n \in 0..Len(toPC) : toPC' = After(toPC, n)
    BY SameWire DEF B!RecvTimesOut
  <2>2. QED
    BY <2>1, AfterType DEF BridgeOK
<1>3. QED
  BY <1>1, <1>2 DEF B!RecvTimesOut, BridgeOK

LEMMA ReceivingKeepsType ==
  ASSUME BridgeOK, B!DebugLineLength \/ B!DebugLineString \/ B!DataSize
                     \/ B!DataBuffer \/ B!DataChecksum
  PROVE  BridgeOK'
<1>1. bcount \in Nat
  BY DEF BridgeOK, BridgeInv, B!BridgeTypeOK, B!MaxStream
<1>2. B!Reads(bcount)
  BY DEF B!DebugLineLength, B!DebugLineString, B!DataSize, B!DataBuffer,
         B!DataChecksum, B!Received
<1>3. toPC' \in Seq(Byte) /\ SubSeq(toPC, 1, bcount) \in Seq(Byte)
  BY <1>1, <1>2, BridgeReads DEF BridgeOK
<1>4. \A cmd \in {2, 10, 12} : <<Reply(cmd)>> \in Seq(Byte)
  BY ReplyByte
<1>5. toDev' \in Seq(Byte)
  BY <1>4, BridgeWrites, SameWire
  DEF BridgeOK, B!DebugLineLength, B!DebugLineString, B!DataSize, B!DataBuffer,
      B!DataChecksum, B!GBRIDGE_CMD_DATA, B!GBRIDGE_CMD_DEBUG_LINE
<1>6. Counts' /\ StreamOfSend'
  BY DEF B!DebugLineLength, B!DebugLineString, B!DataSize, B!DataBuffer,
      B!DataChecksum, B!Recv, Counts, StreamOfSend, StreamStages
<1>7. CASE B!DebugLineLength \/ B!DataSize
  <2>1. bcount = 1
    BY <1>7 DEF B!DebugLineLength, B!DataSize, B!Received, BridgeOK, BridgeInv,
       Counts
  <2>2. Head(toPC) \in Byte
    BY <1>1, <1>2, <2>1, BridgeReads DEF BridgeOK
  <2>3. Head(toPC) \in 0..B!MaxStream
    BY <2>2 DEF Byte, B!MaxStream
  <2>4. B!BridgeTypeOK'
    BY <1>7, <2>3
    DEF B!DebugLineLength, B!DataSize, B!Recv, BridgeOK, BridgeInv,
        B!BridgeTypeOK, B!link, B!packet, B!handler, B!Receiving
  <2>5. QED
    BY <1>3, <1>5, <1>6, <2>4 DEF BridgeOK, BridgeInv
<1>8. CASE B!DebugLineString
  <2>1. B!BridgeTypeOK'
    BY <1>8 DEF B!DebugLineString, BridgeOK, BridgeInv, B!BridgeTypeOK, B!link,
       B!packet, B!handler
  <2>2. QED
    BY <1>3, <1>5, <1>6, <2>1 DEF BridgeOK, BridgeInv
<1>9. CASE B!DataBuffer
  <2>1. B!BridgeTypeOK'
    BY <1>3, <1>9, SameWire
    DEF B!DataBuffer, B!Recv, BridgeOK, BridgeInv, B!BridgeTypeOK, B!link,
        B!handler, B!Receiving, B!MaxStream
  <2>2. QED
    BY <1>3, <1>5, <1>6, <2>1 DEF BridgeOK, BridgeInv
<1>10. CASE B!DataChecksum
  <2>1. CASE B!GbridgeInit
    <3>1. BridgeInv'
      BY <1>10, <2>1, BridgeInitPreserves DEF B!DataChecksum, BridgeOK, B!handler
    <3>2. QED
      BY <1>3, <1>5, <3>1 DEF BridgeOK
  <2>2. CASE ~B!GbridgeInit
    <3>1. B!BridgeTypeOK'
      BY <1>10, <2>2
      DEF B!DataChecksum, BridgeOK, BridgeInv, B!BridgeTypeOK, B!link,
          B!handler
    <3>2. QED
      BY <1>3, <1>5, <1>6, <3>1 DEF BridgeOK, BridgeInv
  <2>3. QED
    BY <2>1, <2>2
<1>11. QED
  BY <1>7, <1>8, <1>9, <1>10

LEMMA StreamKeepsType ==
  ASSUME BridgeOK, B!StreamCommand \/ B!StreamSize \/ B!StreamBuffer
                     \/ B!StreamChecksum \/ B!RecvStream
  PROVE  BridgeOK'
<1>1. bcount \in Nat
  BY DEF BridgeOK, BridgeInv, B!BridgeTypeOK, B!MaxStream
<1>2. B!Reads(bcount) \/ B!RecvStream
  BY DEF B!StreamCommand, B!StreamSize, B!StreamBuffer, B!StreamChecksum,
         B!Received
<1>3. toPC' \in Seq(Byte) /\ (B!Reads(bcount) => SubSeq(toPC, 1, bcount) \in Seq(Byte))
  BY <1>1, <1>2, BridgeReads DEF BridgeOK, B!RecvStream, B!wire
<1>4. <<Reply(12)>> \in Seq(Byte)
  BY ReplyByte
<1>5. toDev' \in Seq(Byte)
  BY <1>4, BridgeWrites, SameWire
  DEF BridgeOK, B!StreamCommand, B!StreamSize, B!StreamBuffer,
      B!StreamChecksum, B!RecvStream, B!GBRIDGE_CMD_STREAM, B!wire
<1>6. bdata_ready \in BOOLEAN /\ UNCHANGED <<bwait_for, bres, sockets>>
  BY DEF BridgeOK, BridgeInv, B!BridgeTypeOK, B!StreamCommand, B!StreamSize,
     B!StreamBuffer, B!StreamChecksum, B!RecvStream, B!handler
<1>7. CASE (B!StreamCommand \/ B!StreamChecksum) /\ bpc' = "gbridge_loop"
  <2>1. B!GbridgeInit /\ UNCHANGED <<bcount, bstream>>
    BY <1>7 DEF B!StreamCommand, B!StreamChecksum, B!handler, B!Recv
  <2>2. QED
    BY <1>3, <1>5, <1>6, <1>7, <2>1, BridgeInitPreserves DEF BridgeOK
<1>8. CASE B!RecvStream
  <2>1. B!BridgeTypeOK'
    BY <1>8 DEF B!RecvStream, B!Recv, BridgeOK, BridgeInv, B!BridgeTypeOK,
       B!link, B!packet, B!handler, B!Receiving, B!MaxStream
  <2>2. Counts' /\ StreamOfSend'
    BY <1>8, SameCodes
    DEF B!RecvStream, B!Recv, Counts, StreamOfSend, B!packet, B!WellFormed
  <2>3. QED
    BY <1>3, <1>5, <2>1, <2>2 DEF BridgeOK, BridgeInv
<1>9. CASE B!StreamCommand /\ bpc' # "gbridge_loop"
  <2>1. B!BridgeTypeOK'
    BY <1>9 DEF B!StreamCommand, B!StreamFails, B!Recv, BridgeOK, BridgeInv, B!BridgeTypeOK,
       B!link, B!packet, B!handler, B!Receiving, B!MaxStream
  <2>2. Counts' /\ StreamOfSend'
    BY <1>9, SameCodes
    DEF B!StreamCommand, B!StreamFails, B!Recv, B!Received, BridgeOK, BridgeInv, Counts,
        StreamOfSend, StreamStages, B!packet, B!WellFormed
  <2>3. QED
    BY <1>3, <1>5, <2>1, <2>2 DEF BridgeOK, BridgeInv
<1>10. CASE B!StreamSize
  <2>1. bcount = 2 /\ B!Reads(bcount)
    BY <1>10 DEF B!StreamSize, B!Received, BridgeOK, BridgeInv, Counts
  <2>2. toPC[1] \in Byte /\ toPC[2] \in Byte
    BY <2>1, BridgeReads DEF BridgeOK
  <2>3. B!FromBe16(toPC[1], toPC[2]) \in Nat
    <3>1. \A hi, lo \in Byte : B!FromBe16(hi, lo) \in Nat
      BY DEF B!FromBe16, Byte
    <3>2. QED
      BY <2>2, <3>1
  <2> DEFINE size == B!FromBe16(toPC[1], toPC[2])
  <2>4. \/ size <= 512 /\ bcount' = size /\ bpc' = "stream_buffer" /\ UNCHANGED bdata_ready
        \/ bdata_ready' = FALSE /\ bpc' = "gbridge_loop" /\ UNCHANGED bcount
    BY <1>10 DEF B!StreamSize, B!StreamFails, B!Recv, B!MaxStream
  <2>5. UNCHANGED <<bconnected, bhandshake_progress, bwaiting_cmd, bdata, bstream>>
    BY <1>10 DEF B!StreamSize, B!link, B!handler
  <2> HIDE DEF size
  <2>6. bcount' \in 0..B!MaxStream
    <3>1. size \in Nat /\ bcount \in 0..512
      BY <2>3 DEF size, BridgeOK, BridgeInv, B!BridgeTypeOK, B!MaxStream
    <3>2. QED
      BY <2>4, <3>1 DEF B!MaxStream
  <2>7. B!BridgeTypeOK'
    <3>1. bpc' \in {"stream_buffer", "gbridge_loop"} /\ bdata_ready' \in BOOLEAN
      BY <1>6, <2>4
    <3>2. QED
      BY <1>6, <2>5, <2>6, <3>1
    DEF BridgeOK, BridgeInv, B!BridgeTypeOK, B!Receiving
  <2>8. Counts' /\ StreamOfSend'
    BY <1>10, <2>4, <2>5
    DEF B!StreamSize, B!Received, BridgeOK, BridgeInv, Counts,
        StreamOfSend, StreamStages, B!WellFormed
  <2>9. QED
    BY <1>3, <1>5, <2>7, <2>8 DEF BridgeOK, BridgeInv
<1>11. CASE B!StreamBuffer
  <2>1. B!BridgeTypeOK'
    BY <1>2, <1>3, <1>11, SameWire
    DEF B!StreamBuffer, B!Received, B!Recv, BridgeOK, BridgeInv,
        B!BridgeTypeOK, B!link, B!packet, B!Receiving, B!MaxStream
  <2>2. Counts' /\ StreamOfSend'
    BY <1>11
    DEF B!StreamBuffer, B!Recv, B!Received, BridgeOK, BridgeInv, Counts,
        StreamOfSend, StreamStages, B!packet, B!WellFormed
  <2>3. QED
    BY <1>3, <1>5, <2>1, <2>2 DEF BridgeOK, BridgeInv
<1>12. CASE B!StreamChecksum /\ bpc' # "gbridge_loop"
  <2>1. B!BridgeTypeOK'
    BY <1>12 DEF B!StreamChecksum, B!StreamFails, BridgeOK, BridgeInv, B!BridgeTypeOK,
       B!link, B!packet, B!handler, B!Receiving
  <2>2. Counts' /\ StreamOfSend'
    BY <1>12
    DEF B!StreamChecksum, B!StreamFails, B!Recv, B!Received, BridgeOK, BridgeInv, Counts,
        StreamOfSend, StreamStages, B!packet, B!WellFormed
  <2>3. QED
    BY <1>3, <1>5, <2>1, <2>2 DEF BridgeOK, BridgeInv
<1>13. QED
  BY <1>7, <1>8, <1>9, <1>10, <1>11, <1>12

LEMMA SocketCallKeepsType ==
  ASSUME BridgeOK, NEW r \in B!SocketValues, B!SocketCall(r)
  PROVE  BridgeOK'
<1>1. B!WellFormed(bdata) /\ bdata \in Seq(Byte)
  BY SameWire DEF B!SocketCall, B!AtSocketCall, BridgeOK, BridgeInv, StreamOfSend,
     StreamStages, B!BridgeTypeOK
<1>2. bdata[1] \in Op /\ bdata[2] \in Byte
  BY <1>1, WellFormedHas
<1>3. r \in B!Results(bdata[1])
  BY DEF B!SocketCall
<1>4. PICK addr \in B!Senders(bdata[1], r) :
        B!SendAndWait(B!GBRIDGE_CMD_DATA_PC,
                      B!DataFrame(B!GBRIDGE_CMD_DATA_PC,
                                  B!ReplyPayload(bdata[1], r, addr)))
  BY DEF B!SocketCall
<1> DEFINE reply == B!ReplyPayload(bdata[1], r, addr)
<1>5. reply \in Seq(Byte) /\ Len(reply) <= 255
  BY <1>2, <1>3, ReplyType
<1> HIDE DEF reply
<1>6. DataFrame(74, reply) \in Seq(Byte)
  <2>1. 74 \in Byte
    BY DEF Byte
  <2>2. QED
    BY <1>5, <2>1, DataFrameIs
<1>7. toDev' \in Seq(Byte)
  <2>1. B!Writes(DataFrame(74, reply))
    BY <1>4, SameWire DEF B!SendAndWait, B!GBRIDGE_CMD_DATA_PC, reply
  <2>2. QED
    BY <1>6, <2>1, BridgeWrites DEF BridgeOK
<1>8. sockets' \subseteq B!Byte
  BY <1>2, SameWire DEF B!SocketCall, BridgeOK, BridgeInv, B!BridgeTypeOK
<1>9. /\ bpc' = "wait_cmd" /\ bwait_for' = B!GBRIDGE_CMD_DATA_PC
      /\ bwaiting_cmd' = B!GBRIDGE_CMD_DATA_PC /\ bres' = r
      /\ UNCHANGED <<toPC, bconnected, bhandshake_progress, bdata, bdata_ready,
                     bstream, bcount>>
  BY <1>4 DEF B!SocketCall, B!SendAndWait, B!packet
<1>10. B!BridgeTypeOK'
  BY <1>8, <1>9 DEF BridgeOK, BridgeInv, B!BridgeTypeOK
<1>11. Counts' /\ StreamOfSend'
  BY <1>9 DEF Counts, StreamOfSend, StreamStages
<1>12. QED
  BY <1>7, <1>9, <1>10, <1>11 DEF BridgeOK, BridgeInv

LEMMA EndWaitStreamKeepsType ==
  ASSUME BridgeOK, B!EndWaitStream
  PROVE  BridgeOK'
<1>1. bres \in Nat
  BY LinkAssumption
  DEF LinkAssumption, B!EndWaitStream, BridgeOK, BridgeInv, B!BridgeTypeOK,
      B!SocketValues
<1>2. StreamFrame(76, Content(bres)) \in Seq(Byte)
  <2>1. 76 \in Byte
    BY DEF Byte
  <2>2. Content(bres) \in Seq(Byte)
    BY <1>1, ContentType
  <2>3. QED
    BY <2>1, <2>2, StreamFrameIs
<1>3. toDev' \in Seq(Byte)
  <2>1. B!Writes(StreamFrame(76, Content(bres)))
    BY SameWire DEF B!EndWaitStream, B!SendAndWait, B!GBRIDGE_CMD_STREAM_PC
  <2>2. QED
    BY <1>2, <2>1, BridgeWrites DEF BridgeOK
<1>4. /\ bpc' = "wait_cmd" /\ bwait_for' = B!GBRIDGE_CMD_STREAM_PC
      /\ bwaiting_cmd' = B!GBRIDGE_CMD_STREAM_PC
      /\ UNCHANGED <<toPC, bconnected, bhandshake_progress, bdata, bdata_ready,
                     bstream, bres, sockets, bcount>>
  BY DEF B!EndWaitStream, B!SendAndWait, B!packet
<1>5. B!BridgeTypeOK'
  BY <1>4 DEF BridgeOK, BridgeInv, B!BridgeTypeOK
<1>6. Counts' /\ StreamOfSend'
  BY <1>4 DEF Counts, StreamOfSend, StreamStages
<1>7. QED
  BY <1>3, <1>4, <1>5, <1>6 DEF BridgeOK, BridgeInv

LEMMA BridgeMainKeepsType ==
  ASSUME BridgeOK, B!ProtMaLoop \/ B!AssertFails \/ B!EndWait \/ B!MainEnds
  PROVE  BridgeOK'
<1>1. UNCHANGED wire
  BY DEF B!ProtMaLoop, B!AssertFails, B!EndWait, B!MainEnds, wire, B!wire
<1>2. bpc' \in {"gbridge_loop", "aborted", "closed"}
  BY DEF B!ProtMaLoop, B!AssertFails, B!EndWait, B!MainEnds
<1>3. B!BridgeTypeOK'
  BY <1>2
  DEF B!ProtMaLoop, B!AssertFails, B!EndWait, B!MainEnds, BridgeOK, BridgeInv,
      B!BridgeTypeOK, B!link, B!packet, B!handler
<1>4. Counts' /\ StreamOfSend'
  BY <1>2 DEF Counts, StreamOfSend, StreamStages
<1>5. QED
  BY <1>1, <1>3, <1>4 DEF BridgeOK, BridgeInv, wire

\* Every step of the bridge.
LEMMA BridgeKeepsType ==
  ASSUME BridgeOK,
         Bridge \/ B!RecvTimesOut \/ B!HandshakeTimesOut \/ B!PortError
  PROVE  BridgeOK'
BY HandshakeKeepsType, BridgeLoopKeepsType, RecvTimesOutKeepsType,
   ReceivingKeepsType, StreamKeepsType, SocketCallKeepsType,
   EndWaitStreamKeepsType, BridgeMainKeepsType
DEF Bridge, BridgeServes, BridgeOther
-----------------------------------------------------------------------------
(***************************************************************************)
(* Both ends together, with faults and restarts.                           *)
(***************************************************************************)
TypesInv ==
  /\ DeviceInv /\ BridgeOK
  /\ faults \in 0..MaxFaults /\ restarts \in 0..MaxRestarts

\* The device's variables alone.
LEMMA DeviceUntouched ==
  ASSUME DeviceInv, UNCHANGED deviceVars, toDev' \in Seq(Byte)
  PROVE  DeviceInv'
<1>1. UNCHANGED <<connected, handshake_progress, waiting_cmd, data_len, data,
                  data_size, data_ready, stream_max_size, stream_size, stream,
                  processing_cmd, processing_cmd_state, pc, wait_for, call,
                  res, ret, open, calls>>
  BY DEF deviceVars, link, packet, streaming, processing, caller
<1>2. DeviceTypeOK'
  BY <1>1 DEF DeviceInv, DeviceTypeOK, FlagsTypeOK, ReceiverTypeOK,
              CallerTypeOK
<1>3. Safe'
  BY <1>1
  DEF DeviceInv, Safe, DisconnectedIsIdle, OneWaiter, StreamBufferOwned,
      BuffersNotOverrun, StillAllowed, CannotReceive, Progress,
      CallerConnected
<1>4. QED
  BY <1>2, <1>3 DEF DeviceInv

LEMMA BridgeUntouched ==
  ASSUME BridgeOK, UNCHANGED bridgeVars, toDev' \in Seq(Byte), toPC' \in Seq(Byte)
  PROVE  BridgeOK'
<1>1. UNCHANGED <<bconnected, bhandshake_progress, bwaiting_cmd, bdata,
                  bdata_ready, bpc, bcount, bwait_for, bstream, bres, sockets>>
  BY DEF bridgeVars
<1>2. B!BridgeTypeOK'
  BY <1>1 DEF BridgeOK, BridgeInv, B!BridgeTypeOK
<1>3. Counts' /\ StreamOfSend'
  BY <1>1 DEF BridgeOK, BridgeInv, Counts, StreamOfSend, B!WellFormed
<1>4. QED
  BY <1>2, <1>3 DEF BridgeOK, BridgeInv

\* What the device writes are bytes.
LEMMA DeviceWrites ==
  ASSUME DeviceInv, toPC \in Seq(Byte), Device \/ Timeout
  PROVE  toPC' \in Seq(Byte)
<1>1. SUFFICES ASSUME ~UNCHANGED toPC
               PROVE  \E bytes \in Seq(Byte) : toPC' = toPC \o bytes
  <2>1. \A bytes \in Seq(Byte) : toPC \o bytes \in Seq(Byte)
    OBVIOUS
  <2>2. CASE toPC' = toPC
    BY <2>2
  <2>3. QED
    BY <2>1, <2>2
<1>2. \A cmd \in 0..127 : <<Reply(cmd)>> \in Seq(Byte)
  BY ReplyByte
<1>3. CASE Handshake
  <2>1. GBRIDGE_HANDSHAKE \in Seq(Byte) /\ <<>> \in Seq(Byte)
    BY DEF GBRIDGE_HANDSHAKE, Byte
  <2>2. QED
    BY <1>3, <2>1 DEF Handshake, Writes
<1>4. CASE RecvReset \/ RecvDataChecksum \/ RecvStreamChecksum
  <2>1. \E cmd \in {74, 76, 79} : toPC' = toPC \o <<Reply(cmd)>>
    BY <1>1, <1>4 DEF RecvReset, RecvDataChecksum, RecvStreamChecksum, Writes,
       GBRIDGE_CMD_DATA_PC, GBRIDGE_CMD_STREAM_PC, GBRIDGE_CMD_RESET
  <2>2. \A cmd \in {74, 76, 79} : cmd \in 0..127
    OBVIOUS
  <2>3. QED
    BY <1>2, <2>1, <2>2
<1>5. ASSUME NEW req \in Requests, StartCall(req)
      PROVE  \E bytes \in Seq(Byte) : toPC' = toPC \o bytes
  <2>1. req \in Requested
    BY DeviceAssumption DEF DeviceAssumption, Requested
  <2>2. DataFrame(10, Payload(req)) \in Seq(Byte)
    <3>1. 10 \in Byte
      BY DEF Byte
    <3>2. Payload(req) \in Seq(Byte) /\ Len(Payload(req)) <= 21
      BY <2>1, PayloadIs
    <3>3. Len(Payload(req)) <= 255
      BY <3>2
    <3>4. QED
      BY <3>1, <3>2, <3>3, DataFrameIs
  <2>3. toPC' = toPC \o DataFrame(10, Payload(req))
    BY <1>1, <1>5 DEF StartCall, Writes, GBRIDGE_CMD_DATA
  <2>4. QED
    BY <2>2, <2>3
<1>6. ASSUME NEW length \in DebugLines, DebugLine(length)
      PROVE  \E bytes \in Seq(Byte) : toPC' = toPC \o bytes
  <2>1. length \in Nat /\ length <= 255
    BY DeviceAssumption DEF DeviceAssumption, Byte
  <2>2. DebugFrame(Content(length)) \in Seq(Byte)
    BY <2>1, ContentType, DebugFrameIs
  <2>3. QED
    BY <1>6, <2>2 DEF DebugLine, Writes
<1>7. CASE EndSendData
  <2>1. call.size \in Nat
    BY RequestType, UintMax DEF DeviceInv, DeviceTypeOK, CallerTypeOK
  <2>2. StreamFrame(12, Content(call.size)) \in Seq(Byte)
    <3>1. 12 \in Byte
      BY DEF Byte
    <3>2. QED
      BY <2>1, <3>1, ContentType, StreamFrameIs
  <2>3. toPC' = toPC \o StreamFrame(12, Content(call.size))
    BY <1>1, <1>7 DEF EndSendData, Writes, GBRIDGE_CMD_STREAM
  <2>4. QED
    BY <2>2, <2>3
<1>8. CASE RecvAck \/ RecvCommand \/ LoopIdle \/ RecvDataLen \/ RecvDataByte
             \/ RecvStreamLen \/ RecvStreamByte \/ Timeout
  BY <1>1, <1>8 DEF RecvAck, RecvCommand, LoopIdle, RecvDataLen, RecvDataByte,
     RecvStreamLen, RecvStreamByte, Timeout, wire
<1>9. CASE BeginWait \/ EndDebugLine \/ EndSend \/ EndRecvData
             \/ EndRecvStream \/ MobileLoopReturns \/ ProtMaLoop
  BY <1>1, <1>9 DEF BeginWait, EndDebugLine, EndSend, EndRecvData,
     EndRecvStream, MobileLoopReturns, ProtMaLoop, wire
<1>10. QED
  BY <1>3, <1>4, <1>5, <1>6, <1>7, <1>8, <1>9
  DEF Device, DeviceSends, DeviceOther, GbridgeLoop

LEMMA DeviceStepKeepsType ==
  ASSUME TypesInv, Device \/ DeviceTimeout
  PROVE  TypesInv'
<1>1. UNCHANGED <<bridgeVars, faults, restarts>>
  BY DEF Device, DeviceTimeout
<1>2. DeviceInv'
  BY GbridgeLoopPreserves, StartCallPreserves, DebugLinePreserves,
     BeginWaitPreserves, WaitOverPreserves, EndRecvDataPreserves,
     EndRecvStreamPreserves, MainPreserves
  DEF Device, DeviceSends, DeviceOther, DeviceTimeout, TypesInv
<1>3. toPC' \in Seq(Byte) /\ toDev' \in Seq(Byte)
  BY <1>2, DeviceWrites DEF TypesInv, BridgeOK, DeviceInv, DeviceTimeout
<1>4. BridgeOK'
  BY <1>1, <1>3, BridgeUntouched DEF TypesInv
<1>5. QED
  BY <1>1, <1>2, <1>4 DEF TypesInv

LEMMA BridgeStepKeepsType ==
  ASSUME TypesInv, Bridge \/ BridgeTimeout \/ PortFails
  PROVE  TypesInv'
<1>1. BridgeOK'
  BY BridgeKeepsType DEF BridgeTimeout, PortFails, TypesInv
<1>2. UNCHANGED <<deviceVars, restarts>> /\ faults' \in 0..MaxFaults
  BY LinkAssumption
  DEF Bridge, BridgeTimeout, PortFails, Fault, TypesInv, LinkAssumption
<1>3. DeviceInv'
  BY <1>1, <1>2, DeviceUntouched DEF TypesInv, BridgeOK
<1>4. QED
  BY <1>1, <1>2, <1>3 DEF TypesInv

LEMMA LineStepKeepsType ==
  ASSUME TypesInv, LoseByte \/ DamageByte
  PROVE  TypesInv'
<1>1. UNCHANGED <<deviceVars, bridgeVars, restarts>> /\ faults' \in 0..MaxFaults
  BY LinkAssumption
  DEF LoseByte, DamageByte, Fault, TypesInv, LinkAssumption
<1>2. ASSUME NEW s \in Seq(Byte), NEW i \in 1..Len(s)
      PROVE  SeqsExt!RemoveAt(s, i) \in Seq(Byte)
  BY DEF SeqsExt!RemoveAt
<1>3. ASSUME NEW s \in Seq(Byte), NEW i \in 1..Len(s), NEW byte \in Noise
      PROVE  [s EXCEPT ![i] = byte] \in Seq(Byte)
  BY LinkAssumption, ExceptSeq DEF LinkAssumption
<1>4. toPC' \in Seq(Byte) /\ toDev' \in Seq(Byte)
  <2>1. toPC \in Seq(Byte) /\ toDev \in Seq(Byte)
    BY DEF TypesInv, BridgeOK
  <2>2. CASE LoseByte
    BY Zenon, <1>2, <2>1, <2>2 DEF LoseByte
  <2>3. CASE DamageByte
    BY Zenon, <1>3, <2>1, <2>3 DEF DamageByte
  <2>4. QED
    BY <2>2, <2>3
<1>5. QED
  BY <1>1, <1>4, DeviceUntouched, BridgeUntouched DEF TypesInv

\* The beginning of what was written.
LEMMA CutType ==
  ASSUME NEW s \in Seq(Byte), NEW n \in 0..Len(s)
  PROVE  SubSeq(s, 1, n) \in Seq(Byte)
OBVIOUS

LEMMA RestartKeepsType ==
  ASSUME TypesInv, RestartBridge
  PROVE  TypesInv'
<1>1. UNCHANGED <<deviceVars, faults>> /\ restarts' \in 0..MaxRestarts
  BY LinkAssumption DEF RestartBridge, TypesInv, LinkAssumption
<1>2. toPC' \in Seq(Byte) /\ toDev' \in Seq(Byte)
  <2>1. toPC \in Seq(Byte) /\ toDev \in Seq(Byte)
    BY DEF TypesInv, BridgeOK
  <2>2. \E n \in 0..Len(toPC) : toPC' = After(toPC, n)
    BY DEF RestartBridge
  <2>3. \E n \in 0..Len(toDev) : toDev' = SubSeq(toDev, 1, n)
    BY DEF RestartBridge
  <2>4. QED
    BY <2>1, <2>2, <2>3, AfterType, CutType
<1>3. BridgeInv'
  <2>1. /\ 0 \in 0..3 /\ 0 \in 0..512 /\ <<>> \in Seq(B!Byte)
        /\ 0 \in B!SocketValues /\ {} \subseteq B!Byte
    BY DEF B!SocketValues
  <2>2. B!BridgeTypeOK'
    BY <2>1, SameCodes DEF RestartBridge, B!BridgeTypeOK, B!MaxStream
  <2>3. Counts' /\ StreamOfSend'
    BY DEF RestartBridge, Counts, StreamOfSend, StreamStages
  <2>4. QED
    BY <2>2, <2>3 DEF BridgeInv
<1>4. DeviceInv'
  BY <1>1, <1>2, DeviceUntouched DEF TypesInv
<1>5. QED
  BY <1>1, <1>2, <1>3, <1>4 DEF TypesInv, BridgeOK

LEMMA ResetKeepsType ==
  ASSUME TypesInv, ResetDevice
  PROVE  TypesInv'
<1>1. UNCHANGED <<bridgeVars, faults, calls>> /\ restarts' \in 0..MaxRestarts
  BY LinkAssumption DEF ResetDevice, TypesInv, LinkAssumption
<1>2. toDev' \in Seq(Byte)
  <2>1. toDev \in Seq(Byte)
    BY DEF TypesInv, BridgeOK
  <2>2. \E n \in 0..Len(toDev) : toDev' = After(toDev, n)
    BY DEF ResetDevice
  <2>3. QED
    BY <2>1, <2>2, AfterType
<1>3. toPC' \in Seq(Byte)
  BY CutType DEF ResetDevice, TypesInv, BridgeOK
<1>4. FlagsTypeOK'
  BY DEF ResetDevice, FlagsTypeOK
<1>5. ReceiverTypeOK'
  BY UintMax DEF ResetDevice, ReceiverTypeOK, WaitCommands, Byte,
                 GBRIDGE_MAX_DATA_SIZE
<1>6. CallerTypeOK'
  <2>1. ret' \in [req : Requests \cup {NoCall}, replied : BOOLEAN, val : Int]
    BY DEF ResetDevice
  <2>2. QED
    BY <1>1, <2>1
    DEF ResetDevice, CallerTypeOK, WaitCommands, TypesInv, DeviceInv, DeviceTypeOK
<1>7. Safe'
  BY DEF ResetDevice, Safe, DisconnectedIsIdle, OneWaiter,
         StreamBufferOwned, BuffersNotOverrun, StillAllowed, Progress,
         CallerConnected, GBRIDGE_MAX_DATA_SIZE, GBRIDGE_CMD_NONE,
         GBRIDGE_CMD_DATA_PC, GBRIDGE_CMD_STREAM_PC
<1>8. BridgeOK'
  BY <1>1, <1>2, <1>3, BridgeUntouched DEF TypesInv
<1>9. QED
  BY <1>1, <1>2, <1>4, <1>5, <1>6, <1>7, <1>8 DEF TypesInv, DeviceInv, DeviceTypeOK

LEMMA InitTypes ==
  ASSUME Init
  PROVE  TypesInv
<1>1. DeviceInv
  BY InitDeviceInv DEF Init
<1>2. BridgeInv
  <2>1. /\ 0 \in 0..3 /\ 0 \in 0..512 /\ <<>> \in Seq(B!Byte)
        /\ 0 \in B!SocketValues /\ {} \subseteq B!Byte
    BY DEF B!SocketValues
  <2>2. B!BridgeTypeOK
    BY <2>1, SameCodes DEF Init, B!BridgeInit, B!BridgeTypeOK, B!MaxStream
  <2>3. Counts /\ StreamOfSend
    BY DEF Init, B!BridgeInit, Counts, StreamOfSend, StreamStages
  <2>4. QED
    BY <2>2, <2>3 DEF BridgeInv
<1>3. /\ toPC \in Seq(Byte) /\ toDev \in Seq(Byte)
      /\ faults \in 0..MaxFaults /\ restarts \in 0..MaxRestarts
  BY LinkAssumption DEF Init, LinkAssumption
<1>4. QED
  BY <1>1, <1>2, <1>3 DEF TypesInv, BridgeOK

\* Whatever is lost, damaged, late or restarted: the inductive invariant of the
\* device holds in the link, and every variable of both ends has its type.
THEOREM TypesHold == Spec => []TypesInv
<1>1. Init => TypesInv
  BY InitTypes
<1>2. TypesInv /\ [Next]_vars => TypesInv'
  <2>1. CASE UNCHANGED vars
    <3>1. UNCHANGED <<deviceVars, bridgeVars, wire, faults, restarts>>
      BY <2>1 DEF vars
    <3>2. QED
      BY <3>1, DeviceUntouched, BridgeUntouched DEF TypesInv, BridgeOK, wire
  <2>2. QED
    BY <2>1, DeviceStepKeepsType, BridgeStepKeepsType, LineStepKeepsType,
       RestartKeepsType, ResetKeepsType
    DEF Next
<1>3. QED
  BY <1>1, <1>2, PTL DEF Spec

\* gbridge.c, gbridge_prot_ma.c and main.c of both ends keep their state within
\* its types.
THEOREM LinkTypeCorrect == Spec => []LinkTypeOK
<1>1. TypesInv => LinkTypeOK
  BY DEF TypesInv, LinkTypeOK, DeviceInv, BridgeOK, BridgeInv
<1>2. QED
  BY <1>1, TypesHold, PTL
=============================================================================
