----------------------- MODULE GbridgeReliableProofs ------------------------
(***************************************************************************)
(* Theorems about the device and the bridge on a line that delivers what   *)
(* is written: until the first fault and the first restart, when calls may *)
(* time out at any moment, and a handshake is answered in time.            *)
(*                                                                         *)
(* The inductive invariant says where the conversation is.  It is in one   *)
(* of ten stages, and a stage says what the bridge is doing and has yet to *)
(* read (toPC), and, as long as the device is connected, what the device   *)
(* is doing and has yet to read (toDev); or it is lost, with the bridge.   *)
(* A device that has timed out is deaf: nothing it will ever read is a     *)
(* handshake.                                                              *)
(***************************************************************************)
EXTENDS GbridgeLinkProofs

\* What libmobile asks for can be carried: an address where one is needed, and
\* streams that fit the two stream buffers' lengths (the device's is a byte).
Fits ==
  \A req \in Requests :
    /\ req.op \in {OPEN, CONNECT} => req.addr # ADDR_NONE
    /\ req.op = SEND => req.size <= 512
    /\ req.op = RECV => req.size <= 255

Reliable == faults = 0 /\ restarts = 0
-----------------------------------------------------------------------------
(***************************************************************************)
(* The bridge.                                                             *)
(***************************************************************************)
HeardOf(n) == SubSeq(GBRIDGE_HANDSHAKE, 1, n)

\* The bridge waits for the last acknowledgement of its answer.
LastWait ==
  \/ bwait_for = GBRIDGE_CMD_STREAM_PC
  \/ bwait_for = GBRIDGE_CMD_DATA_PC /\ ~(bdata[1] = RECV /\ bres > 0)

\* It will read what comes next as a command, and bytes is what comes next.
BridgeRests(bytes) ==
  \/ /\ bpc = "handshake_read" /\ ~bconnected
     /\ bwaiting_cmd = GBRIDGE_CMD_NONE /\ ~bdata_ready
     /\ HeardOf(bhandshake_progress) \o toPC = GBRIDGE_HANDSHAKE \o bytes
  \/ /\ bpc \in {"gbridge_loop", "gbridge_prot_ma_loop"} /\ bconnected
     /\ bwaiting_cmd = GBRIDGE_CMD_NONE /\ ~bdata_ready
     /\ toPC = bytes
  \/ /\ bpc = "wait_cmd" /\ bconnected /\ LastWait
     /\ \/ bwaiting_cmd = GBRIDGE_CMD_NONE /\ toPC = bytes
        \/ bwaiting_cmd = bwait_for /\ toPC = <<Reply(bwait_for)>> \o bytes

BridgeListens == bconnected /\ bwaiting_cmd = GBRIDGE_CMD_NONE

BridgeInDebug(n) ==
  /\ BridgeListens /\ ~bdata_ready
  /\ \/ bpc = "debug_line_length" /\ toPC = <<n>> \o Content(n)
     \/ bpc = "debug_line_string" /\ bcount = n /\ toPC = Content(n)

BridgeInData(request) ==
  /\ BridgeListens /\ ~bdata_ready
  /\ \/ bpc = "data_size" /\ toPC = <<Len(request)>> \o Checked(request)
     \/ /\ bpc = "data_buffer" /\ bcount = Len(request)
        /\ toPC = Checked(request)
     \/ /\ bpc = "data_checksum" /\ bdata = request
        /\ toPC = Be16(ChecksumData(request))

\* It has the request, and has not executed it.
BridgeHas(request) == BridgeListens /\ bdata_ready /\ bdata = request

BridgeInStream(content) ==
  \/ /\ bpc = "stream_size"
     /\ toPC = Be16(Len(content)) \o Checked(content)
  \/ /\ bpc = "stream_buffer" /\ bcount = Len(content)
     /\ toPC = Checked(content)
  \/ /\ bpc = "stream_checksum" /\ bstream = content
     /\ toPC = Be16(ChecksumData(content))

\* It has given up: something it was reading did not come in time.
Gone == ~bconnected /\ bpc \in {"gbridge_loop", "closed"}

\* It has sent the answer cmd to the request, and waits for its acknowledgement.
BridgeWaits(cmd, request) ==
  /\ bconnected /\ bpc = "wait_cmd" /\ bwait_for = cmd /\ bdata = request
-----------------------------------------------------------------------------
(***************************************************************************)
(* The device.                                                             *)
(***************************************************************************)
Settled == processing_cmd = GBRIDGE_CMD_NONE /\ ~data_ready

DeviceIdle ==
  /\ pc \in {"mobile_loop", "gbridge_loop", "gbridge_prot_ma_loop"} /\ Settled

\* cmd is sent, and its acknowledgement not read; cmd is acknowledged.
Asked(cmd) ==
  /\ wait_for = cmd /\ Settled
  /\ pc = "wait_previous" \/ (pc = "wait_cmd" /\ waiting_cmd = cmd)
Told(cmd) ==
  /\ wait_for = cmd /\ Settled
  /\ pc = "wait_cmd" /\ waiting_cmd = GBRIDGE_CMD_NONE

Expects == pc = "recv_data_wait" /\ Settled

InReply(reply) ==
  /\ pc = "recv_data_wait" /\ ~data_ready
  /\ processing_cmd = GBRIDGE_CMD_DATA_PC
  /\ \/ /\ processing_cmd_state = 0
        /\ toDev = <<Len(reply)>> \o Checked(reply)
     \/ /\ processing_cmd_state = 1 /\ data_len = Len(reply)
        /\ Len(data) < Len(reply) /\ data \o toDev = Checked(reply)
     \/ /\ processing_cmd_state = 2 /\ data_size = Len(reply)
        /\ data = reply /\ toDev = Be16(ChecksumData(reply))

HasReply(reply) ==
  /\ pc = "recv_data_wait" /\ data_ready
  /\ processing_cmd = GBRIDGE_CMD_NONE
  /\ data = reply /\ data_size = Len(reply)

WantsStream(val) ==
  /\ pc = "recv_stream_wait" /\ Settled
  /\ stream_max_size # 0 /\ res = val

InAnswer(content) ==
  /\ pc = "recv_stream_wait" /\ ~data_ready
  /\ stream_max_size # 0 /\ res = Len(content)
  /\ processing_cmd = GBRIDGE_CMD_STREAM_PC
  /\ \/ /\ processing_cmd_state = 0
        /\ toDev = Be16(Len(content)) \o Checked(content)
     \/ /\ processing_cmd_state = 1 /\ stream_size = Len(content)
        /\ Len(stream) < Len(content) /\ stream \o toDev = Checked(content)
     \/ /\ processing_cmd_state = 2 /\ stream_size = Len(content)
        /\ stream = content /\ toDev = Be16(ChecksumData(content))

HasStream(val) ==
  /\ pc = "recv_stream_wait" /\ Settled
  /\ stream_max_size = 0 /\ res = val /\ stream = Content(val)
-----------------------------------------------------------------------------
(***************************************************************************)
(* The stages.                                                             *)
(***************************************************************************)
\* Nothing is asked of the bridge.
DeviceAtRest ==
  /\ open = sockets
  /\ \/ toDev = <<>> /\ (DeviceIdle \/ Told(GBRIDGE_CMD_DEBUG_LINE))
     \/ /\ toDev = <<Reply(GBRIDGE_CMD_DEBUG_LINE)>>
        /\ Asked(GBRIDGE_CMD_DEBUG_LINE)

Rest == BridgeRests(<<>>) /\ (connected => DeviceAtRest)

\* A debug line of n bytes is sent.
DeviceAtDebug ==
  open = sockets /\ toDev = <<>> /\ Asked(GBRIDGE_CMD_DEBUG_LINE)

BridgeAtDebug(n) == BridgeRests(DebugFrame(Content(n))) \/ BridgeInDebug(n)

Debug(n) == BridgeAtDebug(n) /\ (connected => DeviceAtDebug)

\* A request is sent that the bridge has not executed.
Pending(req) ==
  served = <<>> /\ (req.op = OPEN <=> req.conn \notin sockets)

BridgeAtData(req) ==
  /\ Pending(req)
  /\ \/ BridgeRests(DataFrame(GBRIDGE_CMD_DATA, Payload(req)))
     \/ BridgeInData(Payload(req))

DeviceAtData == open = sockets /\ toDev = <<>> /\ Asked(GBRIDGE_CMD_DATA)

Data(req) == BridgeAtData(req) /\ (connected => DeviceAtData)

\* The request is acknowledged.
BridgeAtGot(req) ==
  /\ toPC = <<>>
  /\ \/ /\ Pending(req) /\ BridgeHas(Payload(req))
        /\ bpc = "gbridge_prot_ma_loop" \/ (bpc = "stream_cmd" /\ req.op = SEND)
     \/ served = <<>> /\ req.op = SEND /\ Gone

DeviceAtGot(req) ==
  /\ Gone \/ open = sockets
  /\ \/ toDev = <<Reply(GBRIDGE_CMD_DATA)>> /\ Asked(GBRIDGE_CMD_DATA)
     \/ toDev = <<>> /\ Told(GBRIDGE_CMD_DATA)
     \/ toDev = <<>> /\ Expects /\ req.op # SEND

Got(req) == BridgeAtGot(req) /\ (connected => DeviceAtGot(req))

\* The stream of a SEND is sent.
BridgeAtStream(req) ==
  LET content == Content(req.size)
      frame == StreamFrame(GBRIDGE_CMD_STREAM, content)
  IN /\ req.op = SEND
     /\ \/ /\ Pending(req) /\ BridgeHas(Payload(req))
           /\ \/ bpc \in {"gbridge_prot_ma_loop", "stream_cmd"} /\ toPC = frame
              \/ BridgeInStream(content)
        \/ served = <<>> /\ Gone /\ toPC = frame

DeviceAtStream ==
  (Gone \/ open = sockets) /\ toDev = <<>> /\ Asked(GBRIDGE_CMD_STREAM)

SendsStream(req) == BridgeAtStream(req) /\ (connected => DeviceAtStream)

\* The stream is acknowledged.
BridgeAtCall(req) ==
  /\ req.op = SEND
  /\ Pending(req) /\ BridgeHas(Payload(req)) /\ bpc = "socket_impl_send"
  /\ bstream = Content(req.size) /\ toPC = <<>>

DeviceAtCall ==
  /\ open = sockets
  /\ \/ toDev = <<Reply(GBRIDGE_CMD_STREAM)>> /\ Asked(GBRIDGE_CMD_STREAM)
     \/ toDev = <<>> /\ (Told(GBRIDGE_CMD_STREAM) \/ Expects)

Call(req) == BridgeAtCall(req) /\ (connected => DeviceAtCall)

\* The request is executed, and has returned val.
Possible(req, val) ==
  /\ req.op = CLOSE => val = 0
  /\ req.op = CONNECT => val \in {-1, 0, 1}
  /\ req.op = SEND => val \in {-1, 0} \cup 1..512
  /\ req.op = RECV => val \in {-2, -1, 0} \cup 1..req.size
  /\ req.op \in {OPEN, LISTEN, ACCEPT} => val \in {0, 1}

Executed(req, val) ==
  /\ served = <<Rpc!Execution(req, val)>> /\ bres = val /\ Possible(req, val)

\* libmobile will know of the connections the bridge knows of.
WillAgree(req, val) ==
  sockets = IF req.op = OPEN /\ val = 1 THEN open \cup {req.conn}
            ELSE IF req.op = CLOSE THEN open \ {req.conn} ELSE open

Answers(req, val) ==
  {B!ReplyPayload(req.op, val, addr) : addr \in B!Senders(req.op, val)}

\* A stream follows the answer.
More(req, val) == req.op = RECV /\ val > 0

\* The answer is sent.
BridgeAtReplying(req) ==
  /\ BridgeWaits(GBRIDGE_CMD_DATA_PC, Payload(req))
  /\ bwaiting_cmd = GBRIDGE_CMD_DATA_PC /\ toPC = <<>>

LastCommand(req) == IF req.op = SEND THEN GBRIDGE_CMD_STREAM
                    ELSE GBRIDGE_CMD_DATA

DeviceWaits(cmd, reply) ==
  LET frame == DataFrame(GBRIDGE_CMD_DATA_PC, reply)
  IN \/ toDev = <<Reply(cmd)>> \o frame /\ Asked(cmd)
     \/ toDev = frame /\ (Told(cmd) \/ Expects)
     \/ InReply(reply)

DeviceAtReplying(req, val) ==
  /\ WillAgree(req, val)
  /\ \E reply \in Answers(req, val) : DeviceWaits(LastCommand(req), reply)

Replying(req, val) ==
  /\ Executed(req, val) /\ BridgeAtReplying(req)
  /\ connected => DeviceAtReplying(req, val)

\* The answer is acknowledged, and a stream will follow.
BridgeAtReplied(req) ==
  /\ BridgeWaits(GBRIDGE_CMD_DATA_PC, Payload(req))
  /\ \/ /\ bwaiting_cmd = GBRIDGE_CMD_DATA_PC
        /\ toPC = <<Reply(GBRIDGE_CMD_DATA_PC)>>
     \/ bwaiting_cmd = GBRIDGE_CMD_NONE /\ toPC = <<>>

Replies(req, val) == \E reply \in Answers(req, val) : HasReply(reply)

DeviceAtReplied(req, val) ==
  /\ WillAgree(req, val)
  /\ toDev = <<>> /\ (Replies(req, val) \/ WantsStream(val))

Replied(req, val) ==
  /\ Executed(req, val) /\ More(req, val) /\ BridgeAtReplied(req)
  /\ connected => DeviceAtReplied(req, val)

\* That stream is sent.
BridgeAtStreaming(req) ==
  /\ BridgeWaits(GBRIDGE_CMD_STREAM_PC, Payload(req))
  /\ bwaiting_cmd = GBRIDGE_CMD_STREAM_PC /\ toPC = <<>>

DeviceAtStreaming(req, val) ==
  /\ WillAgree(req, val)
  /\ \/ /\ toDev = StreamFrame(GBRIDGE_CMD_STREAM_PC, Content(val))
        /\ Replies(req, val) \/ WantsStream(val)
     \/ InAnswer(Content(val))

Streaming(req, val) ==
  /\ Executed(req, val) /\ More(req, val) /\ BridgeAtStreaming(req)
  /\ connected => DeviceAtStreaming(req, val)

\* Everything is acknowledged; the caller has not looked at it.
DeviceAtDone(req, val) ==
  /\ WillAgree(req, val) /\ toDev = <<>>
  /\ IF More(req, val) THEN HasStream(val) ELSE Replies(req, val)

Done(req, val) ==
  /\ Executed(req, val) /\ BridgeRests(<<>>)
  /\ connected => DeviceAtDone(req, val)

Asking(req) == Data(req) \/ Got(req) \/ SendsStream(req) \/ Call(req)
Answering(req, val) ==
  \/ Replying(req, val) \/ Replied(req, val) \/ Streaming(req, val)
  \/ Done(req, val)

Stage ==
  \/ Rest
  \/ \E n \in DebugLines : Debug(n)
  \/ \E req \in Requests :
       req = LastSent /\ (Asking(req) \/ \E val \in B!SocketValues : Answering(req, val))

\* The bridge gave up with bytes on their way, which it will not read.
Lost ==
  /\ Gone
  /\ connected =>
       /\ toDev = <<>>
       /\ \/ Asked(GBRIDGE_CMD_DEBUG_LINE) \/ Asked(GBRIDGE_CMD_DATA)
          \/ Asked(GBRIDGE_CMD_STREAM)

\* The device has not been connected yet.
Starting ==
  /\ ~connected
  /\ pc \in {"mobile_loop", "gbridge_loop", "gbridge_prot_ma_loop"}
  /\ sent = <<>> /\ served = <<>> /\ past = <<>>
  /\ open = {} /\ sockets = {} /\ toPC = <<>>
  /\ ~bconnected /\ bhandshake_progress = 0
  /\ bwaiting_cmd = GBRIDGE_CMD_NONE /\ ~bdata_ready
  /\ \/ bpc = "handshake" /\ handshake_progress = 0 /\ toDev = <<>>
     \/ /\ bpc = "handshake_read"
        /\ HeardOf(handshake_progress) \o toDev = GBRIDGE_HANDSHAKE

\* No handshake is to be found in these bytes.
Deaf(bytes) ==
  \A i \in 1..(Len(bytes) - 3) :
    ~(bytes[i] = 153 /\ bytes[i + 1] = 102 /\ bytes[i + 2] = 71
      /\ bytes[i + 3] = 66)

Muted ==
  /\ connected => handshake_progress = 0
  /\ Deaf(HeardOf(handshake_progress) \o toDev)
-----------------------------------------------------------------------------
\* A call is in progress where one is waited for, and is the last one sent.
InCall ==
  \/ pc \in {"recv_data_wait", "recv_stream_wait"}
  \/ /\ pc \in {"wait_previous", "wait_cmd"}
     /\ wait_for # GBRIDGE_CMD_DEBUG_LINE

CallerInv ==
  /\ InCall => call \in Requests /\ call = LastSent
  /\ ~InCall => call = NoCall
  /\ sent \in Seq(Requests)

\* What was executed before the last request was sent.
InOrder(executed, n) ==
  \E request \in [1..Len(executed) -> 1..n] :
    \A i \in 1..Len(executed) :
      /\ executed[i].op = sent[request[i]].op
      /\ executed[i].conn = sent[request[i]].conn
      /\ i > 1 => request[i] > request[i - 1]

Executions == {Rpc!Execution(req, val) : req \in Requests, val \in B!SocketValues}

HistoryInv ==
  /\ past \in Seq(Executions) /\ served \in Seq(Executions)
  /\ Len(served) <= 1
  /\ served # <<>> =>
       /\ sent # <<>>
       /\ served[1].op = LastSent.op /\ served[1].conn = LastSent.conn
  /\ InOrder(past, Len(sent) - 1)

StreamReturned ==
  call = NoCall /\ ret.replied /\ ret.req.op = RECV /\ ret.val > 0 =>
    stream = Content(ret.val)

\* When nobody is late, nobody gives up.
InTime ==
  Timely =>
    /\ Starting \/ (connected /\ ~Gone)
    /\ call = NoCall /\ sent # <<>> => ret.replied

Conversation ==
  /\ CallerInv /\ HistoryInv /\ StreamReturned /\ InTime
  /\ Starting \/ (Muted /\ (Stage \/ Lost))

LinkInv == TypesInv /\ (Reliable => Conversation)
-----------------------------------------------------------------------------
(***************************************************************************)
(* Requests and their answers.                                             *)
(***************************************************************************)
LEMMA RequestIs ==
  ASSUME Fits, NEW req \in Requests
  PROVE  /\ req \in Requested /\ req # NoCall
         /\ Payload(req) \in Seq(Byte) /\ Len(Payload(req)) \in 2..21
         /\ Payload(req)[1] = req.op /\ Payload(req)[2] = req.conn
         /\ B!WellFormed(Payload(req))
         /\ req.op = OPEN => Payload(req)[4] \in {ADDR_IPV4, ADDR_IPV6}
         /\ req.op = RECV =>
              FromBe16(Payload(req)[3], Payload(req)[4]) = req.size
         /\ req.size \in Nat
         /\ req.op = SEND => req.size <= 512
         /\ req.op = RECV => req.size <= 255
<1>1. req \in Requested
  BY DeviceAssumption DEF DeviceAssumption, Requested
<1>2. req # NoCall /\ req.op \in Op /\ req.addr \in 0..2
  BY <1>1 DEF Requested, NoCall, Op, OPEN, CLOSE, CONNECT, LISTEN, ACCEPT, SEND,
     RECV
<1> DEFINE bytes == Payload(req)
<1>3. /\ bytes \in Seq(Byte) /\ Len(bytes) >= 2 /\ Len(bytes) <= 21
      /\ bytes[1] = req.op /\ bytes[2] = req.conn
      /\ req.op = OPEN => Len(bytes) = 6 /\ bytes[4] = req.addr
      /\ req.op \in {CLOSE, LISTEN, ACCEPT} => Len(bytes) = 2
      /\ req.op \in {CONNECT, SEND} =>
           /\ After(bytes, 2) = AddressWrite(req.addr)
           /\ Len(bytes) = 2 + Len(AddressWrite(req.addr))
      /\ req.op = RECV =>
           /\ Len(bytes) = 4
           /\ FromBe16(bytes[3], bytes[4]) = req.size
  BY <1>1, PayloadIs
<1> HIDE DEF bytes
<1>4. Len(bytes) \in 2..21
  <2> DEFINE m == Len(bytes)
  <2>1. m \in Nat /\ m >= 2 /\ m <= 21
    BY <1>3
  <2> HIDE DEF m
  <2>2. m \in 2..21
    BY <2>1
  <2>3. QED
    BY <2>2 DEF m
<1>5. req.size \in Nat
  <2>1. req.size \in 0..UINT_MAX
    BY <1>1 DEF Requested
  <2>2. UINT_MAX \in Int
    BY DEF UINT_MAX
  <2>3. QED
    BY <2>1, <2>2
<1>6. req.op \in {OPEN, CONNECT} => req.addr \in {1, 2}
  BY <1>2 DEF Fits, ADDR_NONE
<1>7. B!WellFormed(bytes)
  <2>1. CASE req.op \in {CONNECT, SEND}
    <3> DEFINE n == Len(AddressWrite(req.addr))
    <3>1. AddressRead(After(bytes, 2)) = n /\ Len(bytes) = 2 + n
      BY <1>2, <1>3, <2>1, AddressIs
    <3>2. n = 7 \/ n = 19 \/ n = 1
      BY <1>2, AddressIs
    <3>3. req.op = CONNECT => n # 1
      <4>1. n = IF req.addr = 1 THEN 7 ELSE IF req.addr = 2 THEN 19 ELSE 1
        BY <1>2, AddressIs
      <4> HIDE DEF n
      <4>2. QED
        BY <1>6, <4>1
    <3> HIDE DEF n
    <3>4. n >= 1 /\ (req.op = CONNECT => n > 1)
      BY <3>2, <3>3
    <3>5. QED
      BY <1>3, <1>4, <2>1, <3>1, <3>4, SameWire, SameCodes
      DEF B!WellFormed, OPEN, CLOSE, CONNECT, LISTEN, ACCEPT, SEND, RECV
  <2>2. CASE req.op \in {OPEN, CLOSE, LISTEN, ACCEPT, RECV}
    BY <1>3, <1>4, <2>2, SameWire, SameCodes
    DEF B!WellFormed, OPEN, CLOSE, CONNECT, LISTEN, ACCEPT, SEND, RECV
  <2>3. QED
    BY <1>2, <2>1, <2>2 DEF Op
<1>8. QED
  BY <1>1, <1>2, <1>3, <1>4, <1>5, <1>6, <1>7
  DEF bytes, Fits, ADDR_IPV4, ADDR_IPV6

\* Every reply passes the caller's tests, and the caller reads from it what the
\* socket function returned.
LEMMA AnswerIs ==
  ASSUME Fits, NEW req \in Requests, NEW val \in Int, Possible(req, val),
         NEW reply \in Answers(req, val)
  PROVE  /\ reply \in Seq(Byte) /\ Len(reply) \in 1..22
         /\ GoodReply(req, reply)
         /\ ReplyValue(req, reply) = val
         /\ reply[1] \in 0..6
<1>1. PICK addr \in B!Senders(req.op, val) :
        reply = B!ReplyPayload(req.op, val, addr)
  BY DEF Answers
<1>2. req.op \in Op /\ addr \in 0..2
  BY RequestIs, SameCodes DEF B!Senders, ADDR_NONE, ADDR_IPV4, ADDR_IPV6, Requested
<1> DEFINE body == ReplyArguments(req.op, val, addr)
<1>3. reply = <<req.op>> \o body
  BY <1>1, ReplyPayloadIs
<1>4. req.op \in Byte /\ req.op \in 0..6
  BY <1>2 DEF Op, Byte, OPEN, CLOSE, CONNECT, LISTEN, ACCEPT, SEND, RECV
<1>5. ASSUME body \in Seq(Byte)
      PROVE  /\ reply \in Seq(Byte) /\ Len(reply) = 1 + Len(body)
             /\ reply[1] = req.op
             /\ \A i \in 1..Len(body) : reply[1 + i] = body[i]
             /\ After(reply, 1) = body
  <2> HIDE DEF body
  <2>1. <<req.op>> \o body \in Seq(Byte) /\ Len(<<req.op>> \o body) = 1 + Len(body)
        /\ After(<<req.op>> \o body, 1) = body
    BY <1>4, <1>5, OneThenRest
  <2>2. (<<req.op>> \o body)[1] = req.op
        /\ \A i \in 1..Len(body) : (<<req.op>> \o body)[1 + i] = body[i]
    BY <1>4, <1>5
  <2>3. QED
    BY <1>3, <2>1, <2>2
<1> HIDE DEF body
<1>6. CASE req.op = CLOSE
  <2>1. body = <<>>
    BY <1>6 DEF body, ReplyArguments, CLOSE, CONNECT, SEND, RECV
  <2>2. body \in Seq(Byte) /\ Len(body) = 0
    BY <2>1
  <2>3. val = 0
    BY <1>6 DEF Possible
  <2>4. QED
    BY <1>4, <1>5, <1>6, <2>2, <2>3
    DEF GoodReply, ReplyValue, OPEN, CLOSE, CONNECT, LISTEN, ACCEPT, SEND, RECV
<1>7. CASE req.op = CONNECT
  <2> DEFINE n == Unsigned(val, 8)
  <2>1. body = <<n>>
    BY <1>7 DEF body, ReplyArguments, CLOSE, CONNECT, SEND, RECV
  <2>2. n \in Byte /\ Signed(n, 8) = val
    BY <1>7 DEF Possible, Unsigned, Signed, Byte
  <2> HIDE DEF n
  <2>3. body \in Seq(Byte) /\ Len(body) = 1 /\ body[1] = n
    BY <2>1, <2>2
  <2>4. reply \in Seq(Byte) /\ Len(reply) = 2 /\ reply[1] = req.op /\ reply[2] = n
    <3>1. 1 \in 1..Len(body)
      BY <2>3
    <3>2. QED
      BY <1>5, <2>3, <3>1
  <2>5. QED
    BY <1>4, <1>7, <2>2, <2>4
    DEF GoodReply, ReplyValue, OPEN, CLOSE, CONNECT, LISTEN, ACCEPT, SEND, RECV
<1>8. CASE req.op \in {OPEN, LISTEN, ACCEPT}
  <2>1. body = <<val>>
    BY <1>8
    DEF body, ReplyArguments, OPEN, CLOSE, CONNECT, LISTEN, ACCEPT, SEND, RECV
  <2>2. val \in {0, 1} /\ val \in Byte
    BY <1>8 DEF Possible, Byte
  <2>3. body \in Seq(Byte) /\ Len(body) = 1 /\ body[1] = val
    BY <2>1, <2>2
  <2>4. reply \in Seq(Byte) /\ Len(reply) = 2 /\ reply[1] = req.op /\ reply[2] = val
    <3>1. 1 \in 1..Len(body)
      BY <2>3
    <3>2. QED
      BY <1>5, <2>3, <3>1
  <2>5. QED
    BY <1>4, <1>8, <2>2, <2>4
    DEF GoodReply, ReplyValue, OPEN, CLOSE, CONNECT, LISTEN, ACCEPT, SEND, RECV
<1>9. CASE req.op \in {SEND, RECV}
  <2> DEFINE u == Unsigned(val, 16)
             two == Be16(u)
             rest == IF req.op = RECV THEN AddressWrite(addr) ELSE <<>>
  <2>1. val \in -2..512
    <3>1. req.size \in Nat /\ (req.op = RECV => req.size <= 255)
      BY RequestIs
    <3>2. req.op = SEND \/ req.op = RECV
      BY <1>9
    <3>3. CASE req.op = SEND
      BY <3>3 DEF Possible
    <3>4. CASE req.op = RECV
      BY <3>1, <3>4 DEF Possible
    <3>5. QED
      BY <3>2, <3>3, <3>4
  <2>2. u \in 0..UINT_MAX /\ u \in Int /\ Signed(u, 16) = val
    <3>1. CASE val < 0
      <4>1. u = val + 65536
        BY <2>1, <3>1 DEF Unsigned
      <4> HIDE DEF u
      <4>2. u \in Int /\ u >= 65534 /\ u <= 65535
        BY <2>1, <3>1, <4>1
      <4>3. Signed(u, 16) = u - 65536
        BY <4>2 DEF Signed
      <4>4. u - 65536 = val
        BY <4>1
      <4>5. u \in 0..UINT_MAX
        BY <4>2, UintIs
      <4>6. QED
        BY <4>2, <4>3, <4>4, <4>5
    <3>2. CASE val >= 0
      <4>1. u = val
        BY <2>1, <3>2 DEF Unsigned
      <4> HIDE DEF u
      <4>2. u \in 0..512
        BY <2>1, <3>2, <4>1
      <4>3. Signed(u, 16) = u
        BY <4>2 DEF Signed
      <4>4. QED
        BY <4>1, <4>2, <4>3, UintIs
    <3>3. QED
      BY <2>1, <3>1, <3>2
  <2>3. two \in Seq(Byte) /\ Len(two) = 2
    BY <2>2, Be16Type
  <2>4. rest \in Seq(Byte) /\ Len(rest) \in {0, 1, 7, 19}
    <3>1. AddressWrite(addr) \in Seq(Byte) /\ Len(AddressWrite(addr)) \in {1, 7, 19}
      BY <1>2, AddressIs
    <3>2. <<>> \in Seq(Byte) /\ Len(<<>>) = 0
      OBVIOUS
    <3>3. QED
      BY <3>1, <3>2
  <2>5. body = two \o rest
    <3>1. two \o <<>> = two
      BY <2>3
    <3>2. req.op = RECV => body = two \o AddressWrite(addr)
      BY DEF body, ReplyArguments, CLOSE, CONNECT, SEND, RECV
    <3>3. req.op = SEND => body = two
      BY DEF body, ReplyArguments, CLOSE, CONNECT, SEND, RECV
    <3> HIDE DEF two
    <3>4. QED
      BY <1>9, <3>1, <3>2, <3>3 DEF SEND, RECV
  <2>6. /\ body \in Seq(Byte) /\ Len(body) = 2 + Len(rest)
        /\ FromBe16(body[1], body[2]) = u
        /\ After(body, 2) = rest
    BY <2>2, <2>4, <2>5, Be16Back
  <2>7. /\ reply \in Seq(Byte) /\ Len(reply) = 3 + Len(rest) /\ reply[1] = req.op
        /\ FromBe16(reply[2], reply[3]) = u
    <3>1. Len(rest) \in Nat
      BY <2>4
    <3> HIDE DEF u, rest
    <3>2. 1 \in 1..Len(body) /\ 2 \in 1..Len(body)
      BY <2>6, <3>1
    <3>3. QED
      BY <1>5, <2>6, <3>1, <3>2
  <2>8. After(reply, 3) = rest
    <3>1. After(After(reply, 1), 2) = rest
      BY <1>5, <2>6
    <3> HIDE DEF rest, u
    <3>2. After(After(reply, 1), 2) = After(reply, 3)
      BY <2>4, <2>7 DEF After
    <3>3. QED
      BY <3>1, <3>2
  <2>9. CASE req.op = SEND
    <3>1. Len(reply) = 3
      BY <2>7, <2>9 DEF SEND, RECV
    <3>2. GoodReply(req, reply)
      <4>1. reply[1] = req.op
        BY <2>7
      <4> HIDE DEF u, rest
      <4>2. QED
        BY <2>9, <3>1, <4>1 DEF GoodReply, CLOSE, SEND, RECV
    <3>3. ReplyValue(req, reply) = val
      <4> HIDE DEF u, rest
      <4>1. QED
        BY <2>2, <2>7, <2>9
        DEF ReplyValue, OPEN, CLOSE, CONNECT, LISTEN, ACCEPT, SEND
    <3> HIDE DEF u, rest
    <3>4. Len(reply) \in 1..22
      BY <3>1
    <3>5. reply \in Seq(Byte) /\ reply[1] \in 0..6
      BY <1>4, <2>7
    <3>6. QED
      BY <3>2, <3>3, <3>4, <3>5
  <2>10. CASE req.op = RECV
    <3>1. rest = AddressWrite(addr) /\ Len(rest) >= 1 /\ AddressRead(rest) = Len(rest)
      BY <1>2, <2>10, AddressIs
    <3> HIDE DEF u, rest
    <3>2. Len(rest) \in {1, 7, 19}
      BY <2>4, <3>1, SMTT(30)
    <3>3. Len(reply) \in {4, 10, 22} /\ Len(reply) = AddressRead(rest) + 3
          /\ AddressRead(rest) # 0
      <4>1. Len(reply) = 3 + Len(rest)
        BY <2>7
      <4> DEFINE m == Len(rest)
                 k == AddressRead(rest)
      <4>2. m \in {1, 7, 19} /\ k = m /\ Len(reply) = 3 + m
        BY <3>1, <3>2, <4>1
      <4> HIDE DEF m, k
      <4>3. QED
        BY <4>2 DEF k
    <3>4. GoodReply(req, reply)
      BY <2>7, <2>8, <2>10, <3>3 DEF GoodReply, CLOSE, SEND, RECV
    <3>5. ReplyValue(req, reply) = val
      BY <2>2, <2>7, <2>10
      DEF ReplyValue, OPEN, CLOSE, CONNECT, LISTEN, ACCEPT, RECV
    <3>6. Len(reply) \in 1..22
      BY <3>3
    <3>7. reply \in Seq(Byte) /\ reply[1] \in 0..6
      BY <1>4, <2>7
    <3>8. QED
      BY <3>4, <3>5, <3>6, <3>7
  <2>11. QED
    BY <1>9, <2>9, <2>10
<1>10. QED
  BY <1>2, <1>6, <1>7, <1>8, <1>9 DEF Op
-----------------------------------------------------------------------------
(***************************************************************************)
(* A step of one end, and what it leaves alone.                            *)
(***************************************************************************)
\* The device does not write: the bridge's half of a stage stays.
LEMMA DeviceMoves ==
  ASSUME Stage, UNCHANGED <<bridgeVars, toPC, history>>,
         connected' => connected,
         connected' =>
           /\ DeviceAtRest => DeviceAtRest'
           /\ DeviceAtDebug => DeviceAtDebug'
           /\ DeviceAtData => DeviceAtData'
           /\ DeviceAtStream => DeviceAtStream'
           /\ DeviceAtCall => DeviceAtCall',
         \A req \in Requests :
           connected' /\ req = LastSent =>
             /\ DeviceAtGot(req) => DeviceAtGot(req)'
             /\ \A val \in B!SocketValues :
                  Possible(req, val) =>
                    /\ DeviceAtReplying(req, val) => DeviceAtReplying(req, val)'
                    /\ More(req, val) =>
                         /\ DeviceAtReplied(req, val) => DeviceAtReplied(req, val)'
                         /\ DeviceAtStreaming(req, val) =>
                              DeviceAtStreaming(req, val)'
                    /\ DeviceAtDone(req, val) =>
                         DeviceAtDone(req, val)' \/ DeviceAtRest'
  PROVE  Stage'
<1>1. UNCHANGED <<bconnected, bhandshake_progress, bwaiting_cmd, bdata,
                  bdata_ready, bpc, bcount, bwait_for, bstream, bres, sockets,
                  toPC, sent, served>>
  BY DEF bridgeVars, history
<1>2. ASSUME NEW bytes PROVE BridgeRests(bytes) => BridgeRests(bytes)'
  BY <1>1 DEF BridgeRests, LastWait
<1>3. LastSent' = LastSent
  BY <1>1 DEF LastSent
<1>4. CASE Rest
  BY <1>2, <1>4 DEF Rest, Stage
<1>5. CASE \E n \in DebugLines : Debug(n)
  <2>1. PICK n \in DebugLines : Debug(n)
    BY <1>5
  <2>2. BridgeInDebug(n) => BridgeInDebug(n)'
    BY <1>1 DEF BridgeInDebug, BridgeListens
  <2>3. Debug(n)'
    BY <1>2, <2>1, <2>2 DEF Debug, BridgeAtDebug
  <2>4. QED
    BY <2>3 DEF Stage
<1>6. ASSUME NEW req \in Requests, req = LastSent, Asking(req)
      PROVE  Stage'
  <2>1. /\ Pending(req) => Pending(req)'
        /\ BridgeInData(Payload(req)) => BridgeInData(Payload(req))'
        /\ BridgeHas(Payload(req)) => BridgeHas(Payload(req))'
        /\ BridgeInStream(Content(req.size)) => BridgeInStream(Content(req.size))'
        /\ Gone => Gone'
    BY <1>1 DEF Pending, BridgeInData, BridgeListens, BridgeHas, BridgeInStream,
       Gone
  <2>2. /\ BridgeAtData(req) => BridgeAtData(req)'
        /\ BridgeAtGot(req) => BridgeAtGot(req)'
        /\ BridgeAtStream(req) => BridgeAtStream(req)'
        /\ BridgeAtCall(req) => BridgeAtCall(req)'
    BY <1>1, <1>2, <2>1
    DEF BridgeAtData, BridgeAtGot, BridgeAtStream, BridgeAtCall
  <2>3. Asking(req)'
    BY <1>6, <2>2 DEF Asking, Data, Got, SendsStream, Call
  <2>4. QED
    BY <1>3, <1>6, <2>3 DEF Stage
<1>7. ASSUME NEW req \in Requests, req = LastSent,
             NEW val \in B!SocketValues, Answering(req, val)
      PROVE  Stage'
  <2>1. Executed(req, val) /\ Executed(req, val)' /\ Possible(req, val)
    BY <1>1, <1>7 DEF Answering, Replying, Replied, Streaming, Done, Executed,
       Possible
  <2>2. /\ BridgeAtReplying(req) => BridgeAtReplying(req)'
        /\ BridgeAtReplied(req) => BridgeAtReplied(req)'
        /\ BridgeAtStreaming(req) => BridgeAtStreaming(req)'
    BY <1>1 DEF BridgeAtReplying, BridgeAtReplied, BridgeAtStreaming, BridgeWaits
  <2>3. Answering(req, val)' \/ Rest'
    BY <1>2, <1>7, <2>1, <2>2
    DEF Answering, Replying, Replied, Streaming, Done, Rest, More
  <2>4. QED
    BY <1>3, <1>7, <2>3 DEF Stage, B!SocketValues
<1>8. QED
  BY <1>4, <1>5, <1>6, <1>7 DEF Stage
-----------------------------------------------------------------------------
(***************************************************************************)
(* The steps of the device that do not write.                              *)
(***************************************************************************)
LEMMA BeginWaitKeeps ==
  ASSUME TypesInv, Stage, BeginWait, UNCHANGED <<bridgeVars, history>>
  PROVE  Stage'
<1>1. /\ pc = "wait_previous" /\ pc' = "wait_cmd" /\ waiting_cmd' = wait_for
      /\ connected' = connected
      /\ UNCHANGED <<toPC, toDev, processing_cmd, data_ready, wait_for, open>>
  BY DEF BeginWait, wire, processing, packet, caller
<1>2. UNCHANGED sockets
  BY DEF bridgeVars
<1>3. \A cmd : Asked(cmd) => Asked(cmd)'
  BY <1>1 DEF Asked, Settled
<1>4. /\ DeviceAtRest => DeviceAtRest'
      /\ DeviceAtDebug => DeviceAtDebug'
      /\ DeviceAtData => DeviceAtData'
  BY <1>1, <1>2, <1>3
  DEF DeviceAtRest, DeviceAtDebug, DeviceAtData, DeviceIdle, Told
<1>5. UNCHANGED <<bconnected, bpc>>
  BY DEF bridgeVars
<1>6. /\ DeviceAtStream => DeviceAtStream'
      /\ DeviceAtCall => DeviceAtCall'
  BY <1>1, <1>2, <1>3, <1>5
  DEF DeviceAtStream, DeviceAtCall, Told, Expects, Gone
<1>7. ASSUME NEW req PROVE DeviceAtGot(req) => DeviceAtGot(req)'
  BY <1>1, <1>2, <1>3, <1>5 DEF DeviceAtGot, Told, Expects, Gone
<1>8. ASSUME NEW req, NEW val
      PROVE  /\ DeviceAtReplying(req, val) => DeviceAtReplying(req, val)'
             /\ ~DeviceAtReplied(req, val) /\ ~DeviceAtStreaming(req, val)
             /\ ~DeviceAtDone(req, val)
  <2>1. ~WantsStream(val) /\ ~Replies(req, val) /\ ~InAnswer(Content(val))
        /\ ~HasStream(val)
    BY <1>1 DEF WantsStream, Replies, HasReply, InAnswer, HasStream
  <2>2. ASSUME NEW cmd, NEW reply, DeviceWaits(cmd, reply)
        PROVE  DeviceWaits(cmd, reply)'
    BY <1>1, <1>3, <2>2 DEF DeviceWaits, Told, Expects, InReply
  <2>3. WillAgree(req, val) => WillAgree(req, val)'
    BY <1>1, <1>2 DEF WillAgree
  <2>4. QED
    BY <2>1, <2>2, <2>3
    DEF DeviceAtReplying, DeviceAtReplied, DeviceAtStreaming, DeviceAtDone
<1>9. QED
  BY <1>1, <1>4, <1>6, <1>7, <1>8, DeviceMoves

\* What the device does where it is.
LEMMA OnlyAtRest ==
  ASSUME pc \in {"mobile_loop", "gbridge_loop", "gbridge_prot_ma_loop"}
  PROVE  /\ ~DeviceAtDebug /\ ~DeviceAtData /\ ~DeviceAtStream /\ ~DeviceAtCall
         /\ \A req : ~DeviceAtGot(req)
         /\ \A req, val :
              /\ ~DeviceAtReplying(req, val) /\ ~DeviceAtReplied(req, val)
              /\ ~DeviceAtStreaming(req, val) /\ ~DeviceAtDone(req, val)
         /\ DeviceAtRest <=> open = sockets /\ toDev = <<>> /\ Settled
<1>1. /\ \A cmd : ~Asked(cmd) /\ ~Told(cmd)
      /\ ~Expects
      /\ \A reply : ~InReply(reply) /\ ~HasReply(reply) /\ ~InAnswer(reply)
      /\ \A val : ~WantsStream(val) /\ ~HasStream(val)
  BY DEF Asked, Told, Expects, InReply, HasReply, InAnswer, WantsStream, HasStream
<1>2. /\ ~DeviceAtDebug /\ ~DeviceAtData /\ ~DeviceAtStream /\ ~DeviceAtCall
      /\ \A req : ~DeviceAtGot(req)
  BY <1>1 DEF DeviceAtDebug, DeviceAtData, DeviceAtStream, DeviceAtCall, DeviceAtGot
<1>3. \A req, val :
        /\ ~DeviceAtReplying(req, val) /\ ~DeviceAtReplied(req, val)
        /\ ~DeviceAtStreaming(req, val) /\ ~DeviceAtDone(req, val)
  BY <1>1 DEF DeviceAtReplying, DeviceAtReplied, DeviceAtStreaming, DeviceAtDone,
     DeviceWaits, Replies
<1>4. DeviceAtRest <=> open = sockets /\ toDev = <<>> /\ Settled
  BY <1>1 DEF DeviceAtRest, DeviceIdle
<1>5. QED
  BY <1>2, <1>3, <1>4

LEMMA IdleKeeps ==
  ASSUME TypesInv, Stage, LoopIdle \/ MobileLoopReturns \/ ProtMaLoop,
         UNCHANGED <<bridgeVars, history>>
  PROVE  Stage'
<1>1. /\ pc \in {"mobile_loop", "gbridge_loop", "gbridge_prot_ma_loop"}
      /\ pc' \in {"mobile_loop", "gbridge_loop", "gbridge_prot_ma_loop"}
      /\ UNCHANGED <<toPC, toDev, connected, processing_cmd, open>>
      /\ data_ready' \in {data_ready, FALSE}
  BY DEF LoopIdle, MobileLoopReturns, ProtMaLoop, LoopReturns, RecvDataDone,
     wire, link, processing, packet, caller
<1>2. DeviceAtRest => DeviceAtRest'
  BY <1>1 DEF DeviceAtRest, DeviceIdle, Settled, bridgeVars, Told, Asked
<1>3. QED
  BY <1>1, <1>2, OnlyAtRest, DeviceMoves

\* In wait_cmd, its command acknowledged.
LEMMA OnlyTold ==
  ASSUME pc = "wait_cmd", waiting_cmd # wait_for
  PROVE  /\ ~DeviceAtDebug /\ ~DeviceAtData /\ ~DeviceAtStream
         /\ DeviceAtRest <=>
              open = sockets /\ toDev = <<>> /\ Told(GBRIDGE_CMD_DEBUG_LINE)
         /\ DeviceAtCall <=>
              open = sockets /\ toDev = <<>> /\ Told(GBRIDGE_CMD_STREAM)
         /\ \A req : DeviceAtGot(req) <=>
              (Gone \/ open = sockets) /\ toDev = <<>> /\ Told(GBRIDGE_CMD_DATA)
         /\ \A req, val :
              /\ ~DeviceAtReplied(req, val)
              /\ ~DeviceAtStreaming(req, val) /\ ~DeviceAtDone(req, val)
              /\ DeviceAtReplying(req, val) <=>
                   WillAgree(req, val) /\ Told(LastCommand(req))
                   /\ \E reply \in Answers(req, val) :
                        toDev = DataFrame(GBRIDGE_CMD_DATA_PC, reply)
<1>1. /\ \A cmd : ~Asked(cmd)
      /\ ~Expects /\ ~DeviceIdle
      /\ \A reply : ~InReply(reply) /\ ~HasReply(reply) /\ ~InAnswer(reply)
      /\ \A val : ~WantsStream(val) /\ ~HasStream(val)
  BY DEF Asked, Expects, DeviceIdle, InReply, HasReply, InAnswer, WantsStream,
     HasStream
<1>2. /\ ~DeviceAtDebug /\ ~DeviceAtData /\ ~DeviceAtStream
      /\ DeviceAtRest <=>
           open = sockets /\ toDev = <<>> /\ Told(GBRIDGE_CMD_DEBUG_LINE)
      /\ DeviceAtCall <=>
           open = sockets /\ toDev = <<>> /\ Told(GBRIDGE_CMD_STREAM)
      /\ \A req : DeviceAtGot(req) <=>
           (Gone \/ open = sockets) /\ toDev = <<>> /\ Told(GBRIDGE_CMD_DATA)
  BY <1>1 DEF DeviceAtDebug, DeviceAtData, DeviceAtStream, DeviceAtCall,
     DeviceAtGot, DeviceAtRest
<1>3. ASSUME NEW req, NEW val
      PROVE  /\ ~DeviceAtReplied(req, val)
             /\ ~DeviceAtStreaming(req, val) /\ ~DeviceAtDone(req, val)
             /\ DeviceAtReplying(req, val) <=>
                  WillAgree(req, val) /\ Told(LastCommand(req))
                  /\ \E reply \in Answers(req, val) :
                       toDev = DataFrame(GBRIDGE_CMD_DATA_PC, reply)
  BY <1>1 DEF DeviceAtReplying, DeviceAtReplied, DeviceAtStreaming, DeviceAtDone,
     DeviceWaits, Replies
<1>4. QED
  BY <1>2, <1>3

LEMMA EndDebugLineKeeps ==
  ASSUME TypesInv, Stage, EndDebugLine, UNCHANGED <<bridgeVars, history>>
  PROVE  Stage'
<1>1. /\ pc = "wait_cmd" /\ waiting_cmd # wait_for
      /\ wait_for = GBRIDGE_CMD_DEBUG_LINE /\ pc' = "mobile_loop"
      /\ UNCHANGED <<toPC, toDev, connected, processing_cmd, data_ready, open>>
  BY DEF EndDebugLine, WaitOver, link, processing
<1>2. \A cmd \in {GBRIDGE_CMD_DATA, GBRIDGE_CMD_STREAM} : ~Told(cmd)
  BY <1>1 DEF Told, GBRIDGE_CMD_DEBUG_LINE, GBRIDGE_CMD_DATA, GBRIDGE_CMD_STREAM
<1>3. DeviceAtRest => DeviceAtRest'
  BY <1>1, OnlyTold DEF DeviceAtRest, DeviceIdle, Settled, bridgeVars, Told
<1>4. \A req : LastCommand(req) \in {GBRIDGE_CMD_DATA, GBRIDGE_CMD_STREAM}
  BY DEF LastCommand
<1>5. QED
  BY <1>1, <1>2, <1>3, <1>4, OnlyTold, DeviceMoves

LEMMA EndSendKeeps ==
  ASSUME TypesInv, CallerInv, Stage, EndSend, UNCHANGED <<bridgeVars, history>>
  PROVE  Stage'
<1>1. /\ pc = "wait_cmd" /\ waiting_cmd # wait_for
      /\ wait_for # GBRIDGE_CMD_DEBUG_LINE
      /\ ~(wait_for = GBRIDGE_CMD_DATA /\ call.op = SEND)
      /\ pc' = "recv_data_wait"
      /\ UNCHANGED <<toPC, toDev, connected, processing_cmd, data_ready, open>>
  BY DEF EndSend, WaitOver, link, processing
<1>2. call = LastSent /\ UNCHANGED <<sockets, bconnected, bpc>>
  BY <1>1 DEF CallerInv, InCall, bridgeVars
<1>3. \A cmd : Told(cmd) => Expects' /\ wait_for = cmd
  BY <1>1 DEF Told, Expects, Settled
<1>4. ~DeviceAtRest /\ (DeviceAtCall => DeviceAtCall')
  BY <1>1, <1>2, <1>3, OnlyTold DEF Told, DeviceAtCall
<1>5. ASSUME NEW req \in Requests, req = LastSent
      PROVE  DeviceAtGot(req) => DeviceAtGot(req)'
  BY <1>1, <1>2, <1>3, <1>5, OnlyTold DEF DeviceAtGot, Gone
<1>6. ASSUME NEW req, NEW val
      PROVE  DeviceAtReplying(req, val) => DeviceAtReplying(req, val)'
  BY <1>1, <1>2, <1>3, OnlyTold DEF DeviceAtReplying, DeviceWaits, WillAgree
<1>7. QED
  BY <1>1, <1>4, <1>5, <1>6, OnlyTold, DeviceMoves

LEMMA EndRecvDataKeeps ==
  ASSUME TypesInv, Fits, CallerInv, Stage, EndRecvData, connected,
         UNCHANGED <<bridgeVars, history>>
  PROVE  Stage'
<1>1. /\ pc = "recv_data_wait" /\ data_ready
      /\ UNCHANGED <<toPC, toDev, connected, processing_cmd>>
      /\ data_ready' = FALSE
  BY DEF EndRecvData, wire, link, processing, RecvDataDone, Fails
<1>2. call = LastSent /\ UNCHANGED sockets
  BY <1>1 DEF CallerInv, InCall, bridgeVars
<1>3. /\ \A cmd : ~Asked(cmd) /\ ~Told(cmd)
      /\ ~Expects /\ ~DeviceIdle
      /\ \A reply : ~InReply(reply) /\ ~InAnswer(reply)
      /\ \A val : ~WantsStream(val) /\ ~HasStream(val)
  BY <1>1
  DEF Asked, Told, Expects, DeviceIdle, InReply, InAnswer, WantsStream,
      HasStream, Settled
<1>4. /\ ~DeviceAtRest /\ ~DeviceAtDebug /\ ~DeviceAtData /\ ~DeviceAtStream
      /\ ~DeviceAtCall
      /\ \A req : ~DeviceAtGot(req)
      /\ \A req, val : ~DeviceAtReplying(req, val)
  BY <1>3 DEF DeviceAtRest, DeviceAtDebug, DeviceAtData, DeviceAtStream,
     DeviceAtCall, DeviceAtGot, DeviceAtReplying, DeviceWaits
<1>5. ASSUME NEW req \in Requests, req = LastSent,
             NEW val \in B!SocketValues, Possible(req, val), Replies(req, val)
      PROVE  /\ More(req, val) => WantsStream(val)' /\ open' = open
             /\ ~More(req, val) =>
                  /\ DeviceIdle'
                  /\ open' = IF req.op = OPEN /\ val = 1 THEN open \cup {req.conn}
                             ELSE IF req.op = CLOSE THEN open \ {req.conn}
                             ELSE open
  <2>1. PICK reply \in Answers(req, val) : HasReply(reply)
    BY <1>5 DEF Replies
  <2>2. val \in Int
    BY LinkAssumption, SameCodes DEF B!SocketValues, LinkAssumption
  <2>3. Received = reply
    BY <1>5, <2>1, <2>2, AnswerIs DEF Received, HasReply
  <2>4. GoodReply(call, Received) /\ ReplyValue(call, Received) = val
    BY <1>2, <1>5, <2>2, <2>3, AnswerIs
  <2>5. processing_cmd' = GBRIDGE_CMD_NONE /\ ~data_ready'
    BY <1>1, <2>1 DEF HasReply
  <2>6. CASE More(req, val)
    <3>1. /\ pc' = "recv_stream_wait" /\ res' = val /\ open' = open
          /\ stream_max_size' = call.size
      BY <1>2, <1>5, <2>4, <2>6 DEF EndRecvData, More
    <3>2. call.size # 0
      BY <1>2, <1>5, <2>2, <2>6, RequestIs DEF More, Possible, RECV
    <3>3. QED
      BY <2>5, <2>6, <3>1, <3>2 DEF WantsStream, Settled
  <2>7. CASE ~More(req, val)
    <3>1. Returns(call, TRUE, val)
      BY <1>2, <1>5, <2>4, <2>7 DEF EndRecvData, More
    <3>2. QED
      BY <1>2, <1>5, <2>5, <2>7, <3>1 DEF Returns, DeviceIdle, Settled
  <2>8. QED
    BY <2>6, <2>7
<1>6. ASSUME NEW req \in Requests, req = LastSent,
             NEW val \in B!SocketValues, Possible(req, val), More(req, val)
      PROVE  /\ DeviceAtReplied(req, val) => DeviceAtReplied(req, val)'
             /\ DeviceAtStreaming(req, val) => DeviceAtStreaming(req, val)'
             /\ ~DeviceAtDone(req, val)
  BY <1>1, <1>2, <1>3, <1>5, <1>6
  DEF DeviceAtReplied, DeviceAtStreaming, DeviceAtDone, WillAgree
<1>7. ASSUME NEW req \in Requests, req = LastSent,
             NEW val \in B!SocketValues, Possible(req, val), ~More(req, val)
      PROVE  DeviceAtDone(req, val) => DeviceAtRest'
  BY <1>1, <1>2, <1>3, <1>5, <1>7 DEF DeviceAtDone, DeviceAtRest, WillAgree
<1>8. QED
  BY <1>1, <1>4, <1>6, <1>7, DeviceMoves

\* In recv_stream_wait.
LEMMA OnlyWanted ==
  ASSUME pc = "recv_stream_wait"
  PROVE  /\ ~DeviceAtRest /\ ~DeviceAtDebug /\ ~DeviceAtData /\ ~DeviceAtStream
         /\ ~DeviceAtCall
         /\ \A req : ~DeviceAtGot(req)
         /\ \A req, val :
              /\ ~DeviceAtReplying(req, val) /\ ~Replies(req, val)
              /\ DeviceAtDone(req, val) =>
                   /\ WillAgree(req, val) /\ toDev = <<>>
                   /\ More(req, val) /\ HasStream(val)
<1>1. /\ \A cmd : ~Asked(cmd) /\ ~Told(cmd)
      /\ ~Expects /\ ~DeviceIdle
      /\ \A reply : ~InReply(reply) /\ ~HasReply(reply)
  BY DEF Asked, Told, Expects, DeviceIdle, InReply, HasReply
<1>2. /\ ~DeviceAtRest /\ ~DeviceAtDebug /\ ~DeviceAtData /\ ~DeviceAtStream
      /\ ~DeviceAtCall
      /\ \A req : ~DeviceAtGot(req)
  BY <1>1 DEF DeviceAtRest, DeviceAtDebug, DeviceAtData, DeviceAtStream,
     DeviceAtCall, DeviceAtGot
<1>3. \A req, val :
        /\ ~DeviceAtReplying(req, val) /\ ~Replies(req, val)
        /\ DeviceAtDone(req, val) =>
             /\ WillAgree(req, val) /\ toDev = <<>>
             /\ More(req, val) /\ HasStream(val)
  BY <1>1 DEF DeviceAtReplying, DeviceWaits, Replies, DeviceAtDone
<1>4. QED
  BY <1>2, <1>3

LEMMA EndRecvStreamKeeps ==
  ASSUME TypesInv, CallerInv, Stage, EndRecvStream, connected,
         UNCHANGED <<bridgeVars, history>>
  PROVE  Stage'
<1>1. /\ pc = "recv_stream_wait" /\ stream_max_size = 0
      /\ UNCHANGED <<toPC, toDev, connected, processing_cmd, data_ready>>
      /\ Returns(call, TRUE, res)
  BY DEF EndRecvStream, wire, link, processing, packet
<1>2. call = LastSent /\ UNCHANGED sockets
  BY <1>1 DEF CallerInv, InCall, bridgeVars
<1>3. \A val : ~WantsStream(val) /\ \A content : ~InAnswer(content)
  BY <1>1 DEF WantsStream, InAnswer
<1>4. \A req, val : ~DeviceAtReplied(req, val) /\ ~DeviceAtStreaming(req, val)
  BY <1>1, <1>3, OnlyWanted DEF DeviceAtReplied, DeviceAtStreaming
<1>5. ASSUME NEW req \in Requests, req = LastSent, NEW val, DeviceAtDone(req, val)
      PROVE  DeviceAtRest'
  <2>1. WillAgree(req, val) /\ toDev = <<>> /\ req.op = RECV /\ Settled
    BY <1>1, <1>5, OnlyWanted DEF More, HasStream
  <2>2. open' = open /\ pc' = "mobile_loop" /\ sockets = open
    BY <1>1, <1>2, <1>5, <2>1 DEF Returns, WillAgree, OPEN, CLOSE, RECV
  <2>3. QED
    BY <1>1, <1>2, <2>1, <2>2 DEF DeviceAtRest, DeviceIdle, Settled
<1>6. QED
  BY <1>1, <1>4, <1>5, OnlyWanted, DeviceMoves
-----------------------------------------------------------------------------
LEMMA SingleByte ==
  ASSUME NEW byte \in Byte
  PROVE  /\ <<byte>> \in Seq(Byte) /\ Len(<<byte>>) = 1
         /\ Head(<<byte>>) = byte /\ After(<<byte>>, 1) = <<>>
BY DEF After

LEMMA CommandType ==
  /\ \A cmd \in {GBRIDGE_CMD_DEBUG_LINE, GBRIDGE_CMD_DATA, GBRIDGE_CMD_STREAM,
                 GBRIDGE_CMD_DATA_PC, GBRIDGE_CMD_STREAM_PC} :
       /\ cmd \in Byte /\ cmd # GBRIDGE_CMD_NONE /\ Reply(cmd) \in Byte
       /\ cmd # GBRIDGE_CMD_RESET
  /\ \A req : LastCommand(req) \in {GBRIDGE_CMD_DATA, GBRIDGE_CMD_STREAM}
BY DEF GBRIDGE_CMD_DEBUG_LINE, GBRIDGE_CMD_DATA, GBRIDGE_CMD_STREAM,
   GBRIDGE_CMD_DATA_PC, GBRIDGE_CMD_STREAM_PC, GBRIDGE_CMD_NONE,
   GBRIDGE_CMD_RESET, Reply, Byte, LastCommand

LEMMA AnswerFrame ==
  ASSUME Fits, NEW req \in Requests, NEW val \in Int, Possible(req, val),
         NEW reply \in Answers(req, val)
  PROVE  /\ reply \in Seq(Byte) /\ Len(reply) \in 1..22
         /\ DataFrame(GBRIDGE_CMD_DATA_PC, reply) \in Seq(Byte)
         /\ DataFrame(GBRIDGE_CMD_DATA_PC, reply) =
              <<GBRIDGE_CMD_DATA_PC>> \o (<<Len(reply)>> \o Checked(reply))
         /\ Len(reply) \in Byte
         /\ <<Len(reply)>> \o Checked(reply) \in Seq(Byte)
         /\ Checked(reply) \in Seq(Byte)
<1>1. reply \in Seq(Byte) /\ Len(reply) \in 1..22
  BY AnswerIs
<1>2. Len(reply) <= 255
  <2> DEFINE m == Len(reply)
  <2>1. m \in 1..22
    BY <1>1
  <2> HIDE DEF m
  <2>2. m <= 255
    BY <2>1
  <2>3. QED
    BY <2>2 DEF m
<1>3. QED
  BY <1>1, <1>2, CommandType, DataFrameIs

LEMMA StreamedFrame ==
  ASSUME Fits, NEW req \in Requests, NEW val \in Int, Possible(req, val),
         More(req, val)
  PROVE  /\ val \in 1..255 /\ val <= req.size
         /\ Content(val) \in Seq(Byte) /\ Len(Content(val)) = val
         /\ StreamFrame(GBRIDGE_CMD_STREAM_PC, Content(val)) \in Seq(Byte)
         /\ StreamFrame(GBRIDGE_CMD_STREAM_PC, Content(val)) =
              <<GBRIDGE_CMD_STREAM_PC>> \o (Be16(val) \o Checked(Content(val)))
         /\ Be16(val) \o Checked(Content(val)) \in Seq(Byte)
         /\ Checked(Content(val)) \in Seq(Byte)
<1>1. val \in 1..255 /\ val <= req.size
  <2>1. req.op = RECV /\ val > 0
    BY DEF More
  <2>2. req.size \in Nat /\ req.size <= 255
    BY <2>1, RequestIs
  <2>3. val \in {-2, -1, 0} \cup 1..req.size
    BY <2>1 DEF Possible
  <2>4. QED
    BY <2>1, <2>2, <2>3
<1>2. Content(val) \in Seq(Byte) /\ Len(Content(val)) = val
  BY <1>1, ContentType
<1>3. QED
  BY <1>1, <1>2, CommandType, StreamFrameIs

LEMMA ValueType == B!SocketValues \subseteq Int
BY LinkAssumption DEF B!SocketValues, LinkAssumption

\* The device reads an acknowledgement in wait_cmd, and it is the one it waits
\* for.
LEMMA RecvAckKeeps ==
  ASSUME TypesInv, Fits, Stage, RecvAck, UNCHANGED <<bridgeVars, history>>
  PROVE  Stage'
<1>1. /\ waiting_cmd # GBRIDGE_CMD_NONE
      /\ toDev # <<>> /\ toDev' = After(toDev, 1)
      /\ waiting_cmd' = IF Head(toDev) = Reply(waiting_cmd)
                        THEN GBRIDGE_CMD_NONE ELSE waiting_cmd
      /\ UNCHANGED <<toPC, connected, processing_cmd, data_ready>>
  BY DEF RecvAck, ReadsCommand, Reads, processing, packet
<1>2. pc = "wait_cmd" /\ pc' = pc /\ UNCHANGED <<wait_for, open>>
      /\ wait_for = waiting_cmd
  BY <1>1 DEF RecvAck, ReadsCommand, LoopReturns, caller, TypesInv, DeviceInv,
     Safe, OneWaiter
<1>3. UNCHANGED <<sockets, bconnected, bpc>>
  BY DEF bridgeVars
<1>4. ASSUME NEW cmd PROVE Asked(cmd) /\ Head(toDev) = Reply(cmd) => Told(cmd)'
  BY <1>1, <1>2 DEF Asked, Told, Settled
<1>5. \A cmd : ~Told(cmd)
  BY <1>1 DEF Told
<1>6. ~Expects /\ (\A reply : ~InReply(reply) /\ ~InAnswer(reply))
      /\ ~DeviceIdle
      /\ (\A val : ~WantsStream(val) /\ ~HasStream(val))
      /\ (\A req, val : ~Replies(req, val))
  BY <1>2 DEF Expects, InReply, InAnswer, DeviceIdle, WantsStream, HasStream,
     Replies, HasReply
<1>7. /\ ~DeviceAtDebug /\ ~DeviceAtData /\ ~DeviceAtStream
      /\ \A req, val : /\ ~DeviceAtReplied(req, val) /\ ~DeviceAtStreaming(req, val)
                       /\ ~DeviceAtDone(req, val)
  BY <1>1, <1>6 DEF DeviceAtDebug, DeviceAtData, DeviceAtStream, DeviceAtReplied,
     DeviceAtStreaming, DeviceAtDone
<1>8. \A cmd \in {GBRIDGE_CMD_DEBUG_LINE, GBRIDGE_CMD_DATA, GBRIDGE_CMD_STREAM} :
        toDev = <<Reply(cmd)>> => Head(toDev) = Reply(cmd) /\ toDev' = <<>>
  BY <1>1, CommandType, SingleByte
<1>9. /\ DeviceAtRest => DeviceAtRest'
      /\ DeviceAtCall => DeviceAtCall'
      /\ \A req : DeviceAtGot(req) => DeviceAtGot(req)'
  BY <1>1, <1>2, <1>3, <1>4, <1>5, <1>6, <1>8
  DEF DeviceAtRest, DeviceAtCall, DeviceAtGot, Gone
<1>10. ASSUME NEW req \in Requests, NEW val \in B!SocketValues,
              Possible(req, val), DeviceAtReplying(req, val)
       PROVE  DeviceAtReplying(req, val)'
  <2> DEFINE cmd == LastCommand(req)
  <2>1. PICK reply \in Answers(req, val) : DeviceWaits(cmd, reply)
    BY <1>10 DEF DeviceAtReplying
  <2> DEFINE frame == DataFrame(GBRIDGE_CMD_DATA_PC, reply)
  <2>2. frame \in Seq(Byte) /\ Reply(cmd) \in Byte
    BY <1>10, ValueType, AnswerFrame, CommandType
  <2>3. toDev = <<Reply(cmd)>> \o frame /\ Asked(cmd)
    BY <1>5, <1>6, <2>1 DEF DeviceWaits
  <2> HIDE DEF frame, cmd
  <2>4. Head(toDev) = Reply(cmd) /\ toDev' = frame
    BY <1>1, <2>2, <2>3, OneThenRest
  <2>5. DeviceWaits(cmd, reply)'
    BY <1>4, <2>3, <2>4 DEF DeviceWaits, frame
  <2>6. WillAgree(req, val)'
    BY <1>2, <1>3, <1>10 DEF DeviceAtReplying, WillAgree
  <2>7. QED
    BY <2>5, <2>6 DEF DeviceAtReplying, cmd
<1>11. QED
  BY <1>1, <1>7, <1>9, <1>10, DeviceMoves

\* The only commands that come are the answer to a request, and its stream.
LEMMA CommandComes ==
  ASSUME TypesInv, ReadsCommand, waiting_cmd = GBRIDGE_CMD_NONE
  PROVE  /\ ~DeviceAtRest /\ ~DeviceAtDebug /\ ~DeviceAtData /\ ~DeviceAtStream
         /\ ~DeviceAtCall
         /\ \A req : ~DeviceAtGot(req)
         /\ \A req, val :
              /\ DeviceAtReplying(req, val) =>
                   \E reply \in Answers(req, val) :
                     toDev = DataFrame(GBRIDGE_CMD_DATA_PC, reply) /\ Expects
              /\ ~DeviceAtReplied(req, val)
              /\ DeviceAtStreaming(req, val) =>
                   /\ toDev = StreamFrame(GBRIDGE_CMD_STREAM_PC, Content(val))
                   /\ WantsStream(val)
              /\ ~DeviceAtDone(req, val)
<1>1. toDev # <<>> /\ InGbridgeLoop /\ processing_cmd = GBRIDGE_CMD_NONE
  BY DEF ReadsCommand, Reads
<1>2. /\ \A cmd \in {GBRIDGE_CMD_DEBUG_LINE, GBRIDGE_CMD_DATA,
                     GBRIDGE_CMD_STREAM} : ~Asked(cmd) /\ ~Told(cmd)
      /\ \A reply : ~InReply(reply) /\ ~HasReply(reply) /\ ~InAnswer(reply)
  BY <1>1, CommandType DEF InGbridgeLoop, Asked, Told, InReply, HasReply, InAnswer,
     GBRIDGE_CMD_NONE, GBRIDGE_CMD_DATA_PC, GBRIDGE_CMD_STREAM_PC
<1>3. /\ ~DeviceAtRest /\ ~DeviceAtDebug /\ ~DeviceAtData /\ ~DeviceAtStream
      /\ ~DeviceAtCall
      /\ \A req : ~DeviceAtGot(req)
  BY <1>1, <1>2 DEF DeviceAtRest, DeviceAtDebug, DeviceAtData, DeviceAtStream,
     DeviceAtCall, DeviceAtGot
<1>4. \A req : LastCommand(req) \in {GBRIDGE_CMD_DATA, GBRIDGE_CMD_STREAM}
  BY CommandType
<1>5. \A req, val :
        /\ DeviceAtReplying(req, val) =>
             \E reply \in Answers(req, val) :
               toDev = DataFrame(GBRIDGE_CMD_DATA_PC, reply) /\ Expects
        /\ ~DeviceAtReplied(req, val)
        /\ DeviceAtStreaming(req, val) =>
             /\ toDev = StreamFrame(GBRIDGE_CMD_STREAM_PC, Content(val))
             /\ WantsStream(val)
        /\ ~DeviceAtDone(req, val)
  BY <1>1, <1>2, <1>4 DEF DeviceAtReplying, DeviceWaits, DeviceAtReplied,
     DeviceAtStreaming, DeviceAtDone, Replies
<1>6. QED
  BY <1>3, <1>5
-----------------------------------------------------------------------------
\* Connected, the device is in one of these places.
LEMMA DevicePlaces ==
  ASSUME Stage, connected
  PROVE  \/ DeviceAtRest \/ DeviceAtDebug \/ DeviceAtData \/ DeviceAtStream
         \/ DeviceAtCall
         \/ \E req \in Requests :
              /\ req = LastSent
              /\ \/ DeviceAtGot(req)
                 \/ \E val \in B!SocketValues :
                      /\ Executed(req, val) /\ Possible(req, val)
                      /\ \/ DeviceAtReplying(req, val) \/ DeviceAtReplied(req, val)
                         \/ More(req, val) /\ DeviceAtStreaming(req, val)
                         \/ DeviceAtDone(req, val)
BY DEF Stage, Rest, Debug, Asking, Data, Got, SendsStream, Call, Answering,
   Replying, Replied, Streaming, Done, Executed

\* The bridge never asks for a reset.
LEMMA NoReset ==
  ASSUME TypesInv, Fits, Stage
  PROVE  ~RecvReset
<1>1. SUFFICES ASSUME RecvReset PROVE FALSE
  OBVIOUS
<1>2. ReadsCommand /\ waiting_cmd = GBRIDGE_CMD_NONE /\ connected
      /\ Head(toDev) = GBRIDGE_CMD_RESET
  BY <1>1 DEF RecvReset, ReadsCommand
<1>3. PICK req \in Requests, val \in B!SocketValues :
        /\ Possible(req, val)
        /\ DeviceAtReplying(req, val)
             \/ (More(req, val) /\ DeviceAtStreaming(req, val))
  BY <1>2, DevicePlaces, CommandComes
<1>4. Head(toDev) \in {GBRIDGE_CMD_DATA_PC, GBRIDGE_CMD_STREAM_PC}
  <2>1. CASE DeviceAtReplying(req, val)
    <3>1. PICK reply \in Answers(req, val) :
            toDev = DataFrame(GBRIDGE_CMD_DATA_PC, reply)
      BY <1>2, <2>1, CommandComes
    <3> DEFINE rest == <<Len(reply)>> \o Checked(reply)
    <3>2. toDev = <<GBRIDGE_CMD_DATA_PC>> \o rest /\ rest \in Seq(Byte)
      BY <1>3, <3>1, ValueType, AnswerFrame
    <3> HIDE DEF rest
    <3>3. QED
      BY <3>2, CommandType, OneThenRest
  <2>2. CASE More(req, val) /\ DeviceAtStreaming(req, val)
    <3>1. toDev = StreamFrame(GBRIDGE_CMD_STREAM_PC, Content(val))
      BY <1>2, <2>2, CommandComes
    <3>2. QED
      BY <1>3, <2>2, <3>1, ValueType, StreamedFrame, CommandType, OneThenRest
  <2>3. QED
    BY <1>3, <2>1, <2>2
<1>5. QED
  BY <1>2, <1>4, CommandType

LEMMA RecvCommandKeeps ==
  ASSUME TypesInv, Fits, Stage, RecvCommand, UNCHANGED <<bridgeVars, history>>
  PROVE  Stage' /\ connected'
<1>1. /\ ReadsCommand /\ waiting_cmd = GBRIDGE_CMD_NONE /\ connected
      /\ toDev # <<>> /\ toDev' = After(toDev, 1) /\ UNCHANGED toPC
  BY DEF RecvCommand, ReadsCommand, Reads
<1>2. UNCHANGED sockets
  BY DEF bridgeVars
<1>3. pc = "recv_data_wait" \/ pc = "recv_stream_wait" =>
        pc' = pc /\ UNCHANGED <<open, res>>
  BY <1>1 DEF ReadsCommand, LoopReturns, caller
<1>4. ASSUME NEW req \in Requests, NEW val \in B!SocketValues,
             Possible(req, val), DeviceAtReplying(req, val)
      PROVE  DeviceAtReplying(req, val)' /\ connected'
  <2>1. PICK reply \in Answers(req, val) :
          toDev = DataFrame(GBRIDGE_CMD_DATA_PC, reply) /\ Expects
    BY <1>1, <1>4, CommandComes
  <2> DEFINE rest == <<Len(reply)>> \o Checked(reply)
  <2>2. toDev = <<GBRIDGE_CMD_DATA_PC>> \o rest /\ rest \in Seq(Byte)
    BY <1>4, <2>1, ValueType, AnswerFrame
  <2> HIDE DEF rest
  <2>3. Head(toDev) = GBRIDGE_CMD_DATA_PC /\ toDev' = rest
    BY <1>1, <2>2, CommandType, OneThenRest
  <2>4. ~CannotReceive(Head(toDev))
    BY <2>1, <2>3
    DEF CannotReceive, Expects, Settled, GBRIDGE_CMD_DATA_PC, GBRIDGE_CMD_STREAM_PC
  <2>5. /\ processing_cmd' = GBRIDGE_CMD_DATA_PC /\ processing_cmd_state' = 0
        /\ UNCHANGED <<data_ready, connected>>
    BY <2>3, <2>4 DEF RecvCommand, packet, link
  <2>6. InReply(reply)'
    BY <1>3, <2>1, <2>3, <2>5 DEF InReply, Expects, Settled, rest
  <2>7. DeviceAtReplying(req, val)'
    BY <1>2, <1>3, <1>4, <2>1, <2>6
    DEF DeviceAtReplying, DeviceWaits, WillAgree, Expects
  <2>8. QED
    BY <1>1, <2>5, <2>7
<1>5. ASSUME NEW req \in Requests, NEW val \in B!SocketValues,
             Possible(req, val), More(req, val), DeviceAtStreaming(req, val)
      PROVE  DeviceAtStreaming(req, val)' /\ connected'
  <2>1. toDev = StreamFrame(GBRIDGE_CMD_STREAM_PC, Content(val)) /\ WantsStream(val)
    BY <1>1, <1>5, CommandComes
  <2> DEFINE rest == Be16(Len(Content(val))) \o Checked(Content(val))
  <2>2. toDev = <<GBRIDGE_CMD_STREAM_PC>> \o rest /\ rest \in Seq(Byte)
        /\ Len(Content(val)) = val
    BY <1>5, <2>1, ValueType, StreamedFrame
  <2> HIDE DEF rest
  <2>3. Head(toDev) = GBRIDGE_CMD_STREAM_PC /\ toDev' = rest
    BY <1>1, <2>2, CommandType, OneThenRest
  <2>4. ~CannotReceive(Head(toDev))
    BY <2>1, <2>3
    DEF CannotReceive, WantsStream, GBRIDGE_CMD_DATA_PC, GBRIDGE_CMD_STREAM_PC
  <2>5. /\ processing_cmd' = GBRIDGE_CMD_STREAM_PC /\ processing_cmd_state' = 0
        /\ UNCHANGED <<data_ready, stream_max_size, connected>>
    BY <2>3, <2>4 DEF RecvCommand, packet, streaming, link
  <2>6. InAnswer(Content(val))'
    BY <1>3, <2>1, <2>2, <2>3, <2>5 DEF InAnswer, WantsStream, Settled, rest
  <2>7. DeviceAtStreaming(req, val)'
    BY <1>2, <1>3, <1>5, <2>1, <2>6
    DEF DeviceAtStreaming, WillAgree, WantsStream
  <2>8. QED
    BY <1>1, <2>5, <2>7
<1>6. connected'
  BY <1>1, <1>4, <1>5, CommandComes, DevicePlaces
<1>7. Stage'
  BY <1>1, <1>4, <1>5, CommandComes, DeviceMoves
<1>8. QED
  BY <1>6, <1>7
-----------------------------------------------------------------------------
\* While the answer to a request (its stream) is being received.
LEMMA OnlyInReply ==
  ASSUME processing_cmd = GBRIDGE_CMD_DATA_PC
  PROVE  /\ ~DeviceAtRest /\ ~DeviceAtDebug /\ ~DeviceAtData /\ ~DeviceAtStream
         /\ ~DeviceAtCall
         /\ \A req : ~DeviceAtGot(req)
         /\ \A req, val :
              /\ DeviceAtReplying(req, val) =>
                   /\ WillAgree(req, val)
                   /\ \E reply \in Answers(req, val) : InReply(reply)
              /\ ~DeviceAtReplied(req, val) /\ ~DeviceAtStreaming(req, val)
              /\ ~DeviceAtDone(req, val)
<1>1. /\ \A cmd : ~Asked(cmd) /\ ~Told(cmd)
      /\ ~Expects /\ ~DeviceIdle
      /\ \A reply : ~HasReply(reply) /\ ~InAnswer(reply)
      /\ \A val : ~WantsStream(val) /\ ~HasStream(val)
  BY DEF Asked, Told, Expects, DeviceIdle, HasReply, InAnswer, WantsStream,
     HasStream, Settled, GBRIDGE_CMD_NONE, GBRIDGE_CMD_DATA_PC,
     GBRIDGE_CMD_STREAM_PC
<1>2. /\ ~DeviceAtRest /\ ~DeviceAtDebug /\ ~DeviceAtData /\ ~DeviceAtStream
      /\ ~DeviceAtCall
      /\ \A req : ~DeviceAtGot(req)
  BY <1>1 DEF DeviceAtRest, DeviceAtDebug, DeviceAtData, DeviceAtStream,
     DeviceAtCall, DeviceAtGot
<1>3. \A req, val :
        /\ DeviceAtReplying(req, val) =>
             /\ WillAgree(req, val)
             /\ \E reply \in Answers(req, val) : InReply(reply)
        /\ ~DeviceAtReplied(req, val) /\ ~DeviceAtStreaming(req, val)
        /\ ~DeviceAtDone(req, val)
  BY <1>1 DEF DeviceAtReplying, DeviceWaits, DeviceAtReplied, DeviceAtStreaming,
     DeviceAtDone, Replies
<1>4. QED
  BY <1>2, <1>3

LEMMA OnlyInAnswer ==
  ASSUME processing_cmd = GBRIDGE_CMD_STREAM_PC
  PROVE  /\ ~DeviceAtRest /\ ~DeviceAtDebug /\ ~DeviceAtData /\ ~DeviceAtStream
         /\ ~DeviceAtCall
         /\ \A req : ~DeviceAtGot(req)
         /\ \A req, val :
              /\ DeviceAtStreaming(req, val) =>
                   WillAgree(req, val) /\ InAnswer(Content(val))
              /\ ~DeviceAtReplying(req, val) /\ ~DeviceAtReplied(req, val)
              /\ ~DeviceAtDone(req, val)
<1>1. /\ \A cmd : ~Asked(cmd) /\ ~Told(cmd)
      /\ ~Expects /\ ~DeviceIdle
      /\ \A reply : ~HasReply(reply) /\ ~InReply(reply)
      /\ \A val : ~WantsStream(val) /\ ~HasStream(val)
  BY DEF Asked, Told, Expects, DeviceIdle, HasReply, InReply, WantsStream,
     HasStream, Settled, GBRIDGE_CMD_NONE, GBRIDGE_CMD_DATA_PC,
     GBRIDGE_CMD_STREAM_PC
<1>2. /\ ~DeviceAtRest /\ ~DeviceAtDebug /\ ~DeviceAtData /\ ~DeviceAtStream
      /\ ~DeviceAtCall
      /\ \A req : ~DeviceAtGot(req)
  BY <1>1 DEF DeviceAtRest, DeviceAtDebug, DeviceAtData, DeviceAtStream,
     DeviceAtCall, DeviceAtGot
<1>3. \A req, val :
        /\ DeviceAtStreaming(req, val) =>
             WillAgree(req, val) /\ InAnswer(Content(val))
        /\ ~DeviceAtReplying(req, val) /\ ~DeviceAtReplied(req, val)
        /\ ~DeviceAtDone(req, val)
  BY <1>1 DEF DeviceAtReplying, DeviceWaits, DeviceAtReplied, DeviceAtStreaming,
     DeviceAtDone, Replies
<1>4. QED
  BY <1>2, <1>3

\* A buffer that is being filled, and what is to come.
LEMMA Filled ==
  ASSUME NEW s \in Seq(Byte), NEW t \in Seq(Byte), NEW bytes \in Seq(Byte),
         s \o t = Checked(bytes), Len(s) < Len(bytes)
  PROVE  /\ Len(t) >= 1
         /\ Append(s, Head(t)) \in Seq(Byte)
         /\ Len(Append(s, Head(t))) = Len(s) + 1
         /\ Append(s, Head(t)) \o After(t, 1) = Checked(bytes)
         /\ Len(s) + 1 >= Len(bytes) =>
              /\ Append(s, Head(t)) = bytes
              /\ After(t, 1) = Be16(ChecksumData(bytes))
<1> DEFINE more == Append(s, Head(t))
           rest == After(t, 1)
           sum == Be16(ChecksumData(bytes))
<1>1. Len(t) >= 1
  <2>1. Len(s \o t) = Len(s) + Len(t)
    OBVIOUS
  <2>2. Len(Checked(bytes)) = Len(bytes) + 2
    BY CheckedType
  <2>3. QED
    BY <2>1, <2>2
<1>2. more \in Seq(Byte) /\ rest \in Seq(Byte) /\ more \o rest = Checked(bytes)
  BY <1>1, MoveByte
<1>3. Len(more) = Len(s) + 1
  OBVIOUS
<1> HIDE DEF more, rest
<1>4. ASSUME Len(s) + 1 >= Len(bytes)
      PROVE  more = bytes /\ rest = sum
  <2>1. Len(more) = Len(bytes)
    BY <1>3, <1>4
  <2>2. sum \in Seq(Byte) /\ more \o rest = bytes \o sum
    BY <1>2, CheckedType DEF Checked
  <2> HIDE DEF sum
  <2>3. QED
    BY <1>2, <2>1, <2>2, SameSplit
<1>5. QED
  BY <1>1, <1>2, <1>3, <1>4 DEF more, rest

LEMMA RecvDataLenKeeps ==
  ASSUME TypesInv, Fits, Stage, RecvDataLen, UNCHANGED <<bridgeVars, history>>
  PROVE  Stage' /\ connected'
<1>1. /\ processing_cmd = GBRIDGE_CMD_DATA_PC /\ processing_cmd_state = 0
      /\ toDev' = After(toDev, 1) /\ UNCHANGED toPC /\ connected
  BY DEF RecvDataLen, Processing, Reads
<1>2. UNCHANGED sockets
  BY DEF bridgeVars
<1>3. pc = "recv_data_wait" => pc' = pc /\ UNCHANGED open
  BY DEF RecvDataLen, Processing, LoopReturns, caller
<1>4. ASSUME NEW req \in Requests, NEW val \in B!SocketValues,
             Possible(req, val), DeviceAtReplying(req, val)
      PROVE  DeviceAtReplying(req, val)' /\ connected'
  <2>1. PICK reply \in Answers(req, val) : InReply(reply) /\ WillAgree(req, val)
    BY <1>1, <1>4, OnlyInReply
  <2>2. /\ reply \in Seq(Byte) /\ Len(reply) \in Byte /\ Len(reply) \in 1..22
        /\ Checked(reply) \in Seq(Byte)
    BY <1>4, ValueType, AnswerFrame
  <2> DEFINE len == Len(reply)
             rest == Checked(reply)
  <2>3. toDev = <<len>> \o rest
    BY <1>1, <2>1 DEF InReply
  <2>4. len \in Byte /\ len \in 1..22 /\ rest \in Seq(Byte)
    BY <2>2
  <2>5. Len(<<>>) = 0 /\ <<>> \o rest = rest
    BY <2>4
  <2> HIDE DEF len, rest
  <2>6. Head(toDev) = len /\ toDev' = rest
    BY <1>1, <2>3, <2>4, OneThenRest
  <2>7. len <= GBRIDGE_MAX_DATA_SIZE
    BY <2>4 DEF GBRIDGE_MAX_DATA_SIZE
  <2>8. /\ data_len' = len /\ data' = <<>> /\ processing_cmd_state' = 1
        /\ UNCHANGED <<processing_cmd, data_ready, connected>>
    BY <2>4, <2>6, <2>7 DEF RecvDataLen, GBRIDGE_MAX_DATA_SIZE, link
  <2>9. Len(data') < len /\ data' \o toDev' = rest
    BY <2>4, <2>5, <2>6, <2>8
  <2>10. InReply(reply)'
    BY <1>1, <1>3, <2>1, <2>8, <2>9 DEF InReply, len, rest
  <2>11. DeviceAtReplying(req, val)'
    BY <1>2, <1>3, <2>1, <2>10
    DEF DeviceAtReplying, DeviceWaits, WillAgree, InReply
  <2>12. QED
    BY <1>1, <2>8, <2>11
<1>5. connected'
  BY <1>1, <1>4, OnlyInReply, DevicePlaces
<1>6. Stage'
  BY <1>1, <1>4, OnlyInReply, DeviceMoves
<1>7. QED
  BY <1>5, <1>6

LEMMA RecvDataByteKeeps ==
  ASSUME TypesInv, Fits, Stage, RecvDataByte, UNCHANGED <<bridgeVars, history>>
  PROVE  Stage'
<1>1. /\ processing_cmd = GBRIDGE_CMD_DATA_PC /\ processing_cmd_state = 1
      /\ toDev' = After(toDev, 1) /\ UNCHANGED toPC /\ connected
      /\ data' = Append(data, Head(toDev))
      /\ UNCHANGED <<processing_cmd, data_len, data_ready>>
  BY DEF RecvDataByte, Processing, Reads
<1>2. UNCHANGED sockets
  BY DEF bridgeVars
<1>3. pc = "recv_data_wait" => pc' = pc /\ UNCHANGED open
  BY DEF RecvDataByte, Processing, LoopReturns, caller
<1>4. data \in Seq(Byte) /\ toDev \in Seq(Byte)
  BY DEF TypesInv, DeviceInv, DeviceTypeOK, ReceiverTypeOK
<1>5. ASSUME NEW req \in Requests, NEW val \in B!SocketValues,
             Possible(req, val), DeviceAtReplying(req, val)
      PROVE  DeviceAtReplying(req, val)'
  <2>1. PICK reply \in Answers(req, val) : InReply(reply) /\ WillAgree(req, val)
    BY <1>1, <1>5, OnlyInReply
  <2>2. reply \in Seq(Byte)
    BY <1>5, ValueType, AnswerFrame
  <2>3. /\ data_len = Len(reply) /\ Len(data) < Len(reply)
        /\ data \o toDev = Checked(reply)
        /\ pc = "recv_data_wait" /\ ~data_ready
    BY <1>1, <2>1 DEF InReply
  <2>4. /\ Len(data') = Len(data) + 1
        /\ data' \o toDev' = Checked(reply)
        /\ Len(data) + 1 >= Len(reply) =>
             data' = reply /\ toDev' = Be16(ChecksumData(reply))
    BY <1>1, <1>4, <2>2, <2>3, Filled
  <2>5. CASE Len(data) + 1 >= Len(reply)
    <3>1. processing_cmd_state' = 2 /\ data_size' = Len(reply)
      BY <2>3, <2>5 DEF RecvDataByte
    <3>2. InReply(reply)'
      BY <1>1, <1>3, <2>3, <2>4, <2>5, <3>1 DEF InReply
    <3>3. QED
      BY <1>2, <1>3, <2>1, <2>3, <3>2 DEF DeviceAtReplying, DeviceWaits, WillAgree
  <2>6. CASE ~(Len(data) + 1 >= Len(reply))
    <3>1. processing_cmd_state' = 1
      BY <2>3, <2>6 DEF RecvDataByte
    <3>2. Len(data') < Len(reply)
      BY <1>4, <2>2, <2>4, <2>6
    <3>3. InReply(reply)'
      BY <1>1, <1>3, <2>3, <2>4, <3>1, <3>2 DEF InReply
    <3>4. QED
      BY <1>2, <1>3, <2>1, <2>3, <3>3 DEF DeviceAtReplying, DeviceWaits, WillAgree
  <2>7. QED
    BY <2>5, <2>6
<1>6. QED
  BY <1>1, <1>5, OnlyInReply, DeviceMoves

\* The size of a short stream fits the device's byte.
LEMMA ShortSize ==
  ASSUME NEW n \in 0..255, NEW t \in Seq(Byte)
  PROVE  /\ StreamSize((Be16(n) \o t)[1], (Be16(n) \o t)[2]) = n
         /\ After(Be16(n) \o t, 2) = t
<1> DEFINE line == Be16(n) \o t
<1>1. n \in 0..UINT_MAX
  BY UintIs
<1>2. /\ line \in Seq(Byte) /\ Len(line) = 2 + Len(t)
      /\ FromBe16(line[1], line[2]) = n /\ After(line, 2) = t
  BY <1>1, Be16Back
<1> HIDE DEF line
<1>3. line[1] \in Byte /\ line[2] \in Byte
  BY <1>2
<1>4. ASSUME NEW hi \in Byte, NEW lo \in Byte, hi * 256 + lo = n
      PROVE  ((hi * 256) % 256) + lo = n
  <2>1. hi = 0 /\ lo = n
    BY <1>4 DEF Byte
  <2>2. QED
    BY <2>1
<1>5. StreamSize(line[1], line[2]) = n
  BY <1>2, <1>3, <1>4 DEF StreamSize, FromBe16
<1>6. QED
  BY <1>2, <1>5 DEF line

LEMMA RecvStreamLenKeeps ==
  ASSUME TypesInv, Fits, CallerInv, Stage, RecvStreamLen,
         UNCHANGED <<bridgeVars, history>>
  PROVE  Stage' /\ connected'
<1>1. /\ processing_cmd = GBRIDGE_CMD_STREAM_PC /\ processing_cmd_state = 0
      /\ toDev' = After(toDev, 2) /\ UNCHANGED toPC /\ connected
      /\ stream_size' = StreamSize(toDev[1], toDev[2])
  BY DEF RecvStreamLen, Processing, Reads
<1>2. UNCHANGED sockets
  BY DEF bridgeVars
<1>3. pc = "recv_stream_wait" => pc' = pc /\ UNCHANGED <<open, res>>
  BY DEF RecvStreamLen, Processing, LoopReturns, caller
<1>4. ASSUME NEW req \in Requests, req = LastSent, NEW val \in B!SocketValues,
             Possible(req, val), More(req, val), DeviceAtStreaming(req, val)
      PROVE  DeviceAtStreaming(req, val)' /\ connected'
  <2>1. WillAgree(req, val) /\ InAnswer(Content(val))
    BY <1>1, <1>4, OnlyInAnswer
  <2>2. /\ val \in 1..255 /\ val <= req.size /\ Len(Content(val)) = val
        /\ Checked(Content(val)) \in Seq(Byte)
    BY <1>4, ValueType, StreamedFrame
  <2> DEFINE rest == Checked(Content(val))
  <2>3. /\ toDev = Be16(val) \o rest /\ pc = "recv_stream_wait" /\ ~data_ready
        /\ stream_max_size # 0 /\ res = val
    BY <1>1, <2>1, <2>2 DEF InAnswer
  <2>4. rest \in Seq(Byte) /\ val \in 0..255
    BY <2>2
  <2>5. <<>> \o rest = rest /\ Len(<<>>) = 0
    BY <2>4
  <2> HIDE DEF rest
  <2>6. stream_size' = val /\ toDev' = rest
    BY <1>1, <2>3, <2>4, ShortSize
  <2>7. stream_max_size = req.size
    <3>1. stream_max_size = call.size
      BY <2>3 DEF TypesInv, DeviceInv, Safe, StreamBufferOwned
    <3>2. call = req
      BY <1>4, <2>3 DEF CallerInv, InCall
    <3>3. QED
      BY <3>1, <3>2
  <2>8. stream_size' <= stream_max_size
    BY <2>2, <2>6, <2>7
  <2>9. req.size \in Nat
    BY RequestIs
  <2>10. /\ stream' = <<>> /\ processing_cmd_state' = 1
         /\ UNCHANGED <<processing_cmd, stream_max_size, data_ready, connected>>
    BY <2>2, <2>6, <2>7, <2>8, <2>9 DEF RecvStreamLen, packet, link
  <2>11. Len(stream') < val /\ stream' \o toDev' = rest
    BY <2>2, <2>5, <2>6, <2>10
  <2>12. InAnswer(Content(val))'
    BY <1>1, <1>3, <2>2, <2>3, <2>6, <2>10, <2>11 DEF InAnswer, rest
  <2>13. DeviceAtStreaming(req, val)'
    BY <1>2, <1>3, <2>1, <2>3, <2>12 DEF DeviceAtStreaming, WillAgree
  <2>14. QED
    BY <1>1, <2>10, <2>13
<1>5. connected'
  BY <1>1, <1>4, OnlyInAnswer, DevicePlaces
<1>6. Stage'
  BY <1>1, <1>4, OnlyInAnswer, DeviceMoves
<1>7. QED
  BY <1>5, <1>6

LEMMA RecvStreamByteKeeps ==
  ASSUME TypesInv, Fits, Stage, RecvStreamByte, UNCHANGED <<bridgeVars, history>>
  PROVE  Stage'
<1>1. /\ processing_cmd = GBRIDGE_CMD_STREAM_PC /\ processing_cmd_state = 1
      /\ toDev' = After(toDev, 1) /\ UNCHANGED toPC /\ connected
      /\ stream' = Append(stream, Head(toDev))
      /\ UNCHANGED <<processing_cmd, stream_size, stream_max_size, data_ready>>
  BY DEF RecvStreamByte, Processing, Reads, packet
<1>2. UNCHANGED sockets
  BY DEF bridgeVars
<1>3. pc = "recv_stream_wait" => pc' = pc /\ UNCHANGED <<open, res>>
  BY DEF RecvStreamByte, Processing, LoopReturns, caller
<1>4. stream \in Seq(Byte) /\ toDev \in Seq(Byte)
  BY DEF TypesInv, DeviceInv, DeviceTypeOK, ReceiverTypeOK
<1>5. ASSUME NEW req \in Requests, NEW val \in B!SocketValues,
             Possible(req, val), More(req, val), DeviceAtStreaming(req, val)
      PROVE  DeviceAtStreaming(req, val)'
  <2> DEFINE content == Content(val)
  <2>1. WillAgree(req, val) /\ InAnswer(content)
    BY <1>1, <1>5, OnlyInAnswer
  <2>2. content \in Seq(Byte)
    BY <1>5, ValueType, StreamedFrame
  <2> HIDE DEF content
  <2>3. /\ stream_size = Len(content) /\ Len(stream) < Len(content)
        /\ stream \o toDev = Checked(content)
        /\ pc = "recv_stream_wait" /\ ~data_ready
        /\ stream_max_size # 0 /\ res = Len(content)
    BY <1>1, <2>1 DEF InAnswer
  <2>4. /\ Len(stream') = Len(stream) + 1
        /\ stream' \o toDev' = Checked(content)
        /\ Len(stream) + 1 >= Len(content) =>
             stream' = content /\ toDev' = Be16(ChecksumData(content))
    BY <1>1, <1>4, <2>2, <2>3, Filled
  <2>5. InAnswer(content)'
    <3>1. CASE Len(stream) + 1 >= Len(content)
      <4>1. processing_cmd_state' = 2
        BY <2>3, <3>1 DEF RecvStreamByte
      <4>2. QED
        BY <1>1, <1>3, <2>3, <2>4, <3>1, <4>1 DEF InAnswer
    <3>2. CASE ~(Len(stream) + 1 >= Len(content))
      <4>1. processing_cmd_state' = 1
        BY <2>3, <3>2 DEF RecvStreamByte
      <4>2. Len(stream') < Len(content)
        BY <1>4, <2>2, <2>4, <3>2
      <4>3. QED
        BY <1>1, <1>3, <2>3, <2>4, <4>1, <4>2 DEF InAnswer
    <3>3. QED
      BY <3>1, <3>2
  <2>6. QED
    BY <1>2, <1>3, <2>1, <2>3, <2>5 DEF DeviceAtStreaming, WillAgree, content
<1>6. QED
  BY <1>1, <1>5, OnlyInAnswer, DeviceMoves
-----------------------------------------------------------------------------
(***************************************************************************)
(* The steps of the device that write.                                     *)
(***************************************************************************)
LEMMA Prefix ==
  ASSUME NEW s \in Seq(Byte), NEW n \in 0..Len(s)
  PROVE  /\ SubSeq(s, 1, n) \in Seq(Byte) /\ Len(SubSeq(s, 1, n)) = n
         /\ \A i \in 1..n : SubSeq(s, 1, n)[i] = s[i]
OBVIOUS

\* What has been heard of a handshake.
LEMMA HeardIs ==
  /\ GBRIDGE_HANDSHAKE \in Seq(Byte) /\ Len(GBRIDGE_HANDSHAKE) = 4
  /\ \A n \in 0..4 :
       /\ HeardOf(n) \in Seq(Byte) /\ Len(HeardOf(n)) = n
       /\ \A i \in 1..n : HeardOf(n)[i] = GBRIDGE_HANDSHAKE[i]
  /\ HeardOf(0) = <<>>
<1>1. GBRIDGE_HANDSHAKE \in Seq(Byte) /\ Len(GBRIDGE_HANDSHAKE) = 4
  BY DEF GBRIDGE_HANDSHAKE, Byte
<1> DEFINE shake == GBRIDGE_HANDSHAKE
<1>2. shake \in Seq(Byte) /\ Len(shake) = 4
  BY <1>1
<1> HIDE DEF shake
<1>3. \A n \in 0..4 :
        /\ SubSeq(shake, 1, n) \in Seq(Byte) /\ Len(SubSeq(shake, 1, n)) = n
        /\ \A i \in 1..n : SubSeq(shake, 1, n)[i] = shake[i]
  BY <1>2, Prefix
<1>4. \A n : HeardOf(n) = SubSeq(shake, 1, n)
  BY DEF HeardOf, shake
<1>5. HeardOf(0) = <<>>
  <2>1. HeardOf(0) \in Seq(Byte) /\ Len(HeardOf(0)) = 0
    BY <1>3, <1>4
  <2>2. QED
    BY <2>1
<1>6. QED
  BY <1>1, <1>3, <1>4, <1>5 DEF shake

LEMMA WritesWhenRests ==
  ASSUME TypesInv, BridgeRests(<<>>), UNCHANGED bridgeVars,
         NEW bytes \in Seq(Byte), toPC' = toPC \o bytes
  PROVE  BridgeRests(bytes)'
<1>1. UNCHANGED <<bconnected, bhandshake_progress, bwaiting_cmd, bdata,
                  bdata_ready, bpc, bwait_for, bres>>
  BY DEF bridgeVars
<1>2. toPC \in Seq(Byte) /\ <<>> \in Seq(Byte) /\ <<>> \o bytes = bytes
  BY DEF TypesInv, BridgeOK
<1>3. CASE bpc = "handshake_read"
  <2> DEFINE heard == HeardOf(bhandshake_progress)
  <2>1. heard \in Seq(Byte)
    <3>1. bhandshake_progress \in 0..3
      BY DEF TypesInv, BridgeOK, BridgeInv, B!BridgeTypeOK
    <3>2. bhandshake_progress \in 0..4
      BY <3>1
    <3>3. HeardOf(bhandshake_progress) \in Seq(Byte)
      BY <3>2, HeardIs, Zenon
    <3>4. QED
      BY <3>3
  <2>2. heard \o toPC = GBRIDGE_HANDSHAKE
    <3>1. heard \o toPC = GBRIDGE_HANDSHAKE \o <<>>
      BY <1>3 DEF BridgeRests
    <3>2. GBRIDGE_HANDSHAKE \o <<>> = GBRIDGE_HANDSHAKE
      BY DEF GBRIDGE_HANDSHAKE
    <3>3. QED
      BY <3>1, <3>2
  <2>3. heard' = heard
    BY <1>1 DEF HeardOf
  <2> HIDE DEF heard
  <2>4. heard \o toPC' = GBRIDGE_HANDSHAKE \o bytes
    BY <1>2, <2>1, <2>2, TwoParts
  <2>5. QED
    BY <1>1, <1>3, <2>3, <2>4 DEF BridgeRests, heard
<1>4. CASE bpc \in {"gbridge_loop", "gbridge_prot_ma_loop"}
  BY <1>1, <1>2, <1>4 DEF BridgeRests
<1>5. CASE bpc = "wait_cmd"
  <2>1. LastWait' = LastWait
    BY <1>1 DEF LastWait
  <2>2. CASE bwaiting_cmd = GBRIDGE_CMD_NONE /\ toPC = <<>>
    BY <1>1, <1>2, <1>5, <2>1, <2>2 DEF BridgeRests
  <2>3. CASE bwaiting_cmd = bwait_for /\ toPC = <<Reply(bwait_for)>> \o <<>>
    <3>1. <<Reply(bwait_for)>> \o <<>> = <<Reply(bwait_for)>>
      OBVIOUS
    <3>2. toPC' = <<Reply(bwait_for)>> \o bytes
      BY <2>3, <3>1
    <3>3. QED
      BY <1>1, <1>5, <2>1, <2>3, <3>2 DEF BridgeRests
  <2>4. QED
    BY <1>5, <2>2, <2>3 DEF BridgeRests
<1>6. QED
  BY <1>3, <1>4, <1>5 DEF BridgeRests

LEMMA FramesAre ==
  /\ \A req \in Requests :
       Fits => DataFrame(GBRIDGE_CMD_DATA, Payload(req)) \in Seq(Byte)
  /\ \A n \in DebugLines : DebugFrame(Content(n)) \in Seq(Byte)
<1>1. ASSUME Fits, NEW req \in Requests
      PROVE  DataFrame(GBRIDGE_CMD_DATA, Payload(req)) \in Seq(Byte)
  <2> DEFINE m == Len(Payload(req))
  <2>1. m \in 2..21 /\ Payload(req) \in Seq(Byte)
    BY <1>1, RequestIs
  <2> HIDE DEF m
  <2>2. m <= 255
    BY <2>1
  <2>3. QED
    BY <2>1, <2>2, CommandType, DataFrameIs DEF m
<1>2. ASSUME NEW n \in DebugLines PROVE DebugFrame(Content(n)) \in Seq(Byte)
  <2>1. n \in Nat /\ n <= 255
    BY DeviceAssumption DEF DeviceAssumption, Byte
  <2>2. QED
    BY <2>1, ContentType, DebugFrameIs
<1>3. QED
  BY <1>1, <1>2

LEMMA StartCallKeeps ==
  ASSUME TypesInv, Fits, Stage, connected, NEW req \in Requests, StartCall(req),
         UNCHANGED bridgeVars,
         sent' = Append(sent, req), served' = <<>>, sent \in Seq(Requests)
  PROVE  Stage'
<1>1. /\ pc = "mobile_loop" /\ MayCall(req)
      /\ toPC' = toPC \o DataFrame(GBRIDGE_CMD_DATA, Payload(req))
      /\ pc' = "wait_previous" /\ wait_for' = GBRIDGE_CMD_DATA
      /\ UNCHANGED <<toDev, connected, processing_cmd, data_ready, open>>
  BY DEF StartCall, Writes, link, processing
<1>2. Rest
  BY <1>1, OnlyAtRest
  DEF Stage, Rest, Debug, Asking, Data, Got, SendsStream, Call, Answering,
      Replying, Replied, Streaming, Done
<1>3. open = sockets /\ toDev = <<>> /\ Settled
  BY <1>1, <1>2, OnlyAtRest DEF Rest
<1>4. BridgeRests(DataFrame(GBRIDGE_CMD_DATA, Payload(req)))'
  BY <1>1, <1>2, FramesAre, WritesWhenRests DEF Rest
<1>5. UNCHANGED sockets
  BY DEF bridgeVars
<1>6. Pending(req)'
  BY <1>1, <1>3, <1>5 DEF Pending, MayCall
<1>7. DeviceAtData'
  BY <1>1, <1>3, <1>5 DEF DeviceAtData, Asked, Settled
<1>8. LastSent' = req
  BY DEF LastSent
<1>9. Data(req)'
  BY <1>4, <1>6, <1>7 DEF Data, BridgeAtData
<1>10. QED
  BY <1>8, <1>9 DEF Stage, Asking

LEMMA DebugLineKeeps ==
  ASSUME TypesInv, Stage, NEW n \in DebugLines, DebugLine(n),
         UNCHANGED <<bridgeVars, history>>
  PROVE  Stage'
<1>1. /\ pc = "mobile_loop" /\ connected
      /\ toPC' = toPC \o DebugFrame(Content(n))
      /\ pc' = "wait_previous" /\ wait_for' = GBRIDGE_CMD_DEBUG_LINE
      /\ UNCHANGED <<toDev, connected, processing_cmd, data_ready, open>>
  BY DEF DebugLine, Writes, link, processing, packet
<1>2. Rest
  BY <1>1, OnlyAtRest
  DEF Stage, Rest, Debug, Asking, Data, Got, SendsStream, Call, Answering,
      Replying, Replied, Streaming, Done
<1>3. open = sockets /\ toDev = <<>> /\ Settled
  BY <1>1, <1>2, OnlyAtRest DEF Rest
<1>4. BridgeRests(DebugFrame(Content(n)))'
  BY <1>1, <1>2, FramesAre, WritesWhenRests DEF Rest
<1>5. DeviceAtDebug'
  BY <1>1, <1>3 DEF DeviceAtDebug, Asked, Settled, bridgeVars
<1>6. QED
  BY <1>4, <1>5 DEF Stage, Debug, BridgeAtDebug

LEMMA EndSendDataKeeps ==
  ASSUME TypesInv, Fits, CallerInv, Stage, EndSendData, connected,
         UNCHANGED <<bridgeVars, history>>
  PROVE  Stage'
<1>1. /\ pc = "wait_cmd" /\ waiting_cmd # wait_for
      /\ wait_for = GBRIDGE_CMD_DATA /\ call.op = SEND
      /\ toPC' = toPC \o StreamFrame(GBRIDGE_CMD_STREAM, Content(call.size))
      /\ pc' = "wait_previous" /\ wait_for' = GBRIDGE_CMD_STREAM
      /\ UNCHANGED <<toDev, connected, processing_cmd, data_ready, open>>
  BY DEF EndSendData, WaitOver, Writes, link, processing
<1>2. call \in Requests /\ call = LastSent /\ LastSent' = LastSent
  BY <1>1 DEF CallerInv, InCall, LastSent, history, GBRIDGE_CMD_DATA,
     GBRIDGE_CMD_DEBUG_LINE
<1>3. UNCHANGED <<bconnected, bwaiting_cmd, bdata, bdata_ready, bpc, sockets, served>>
  BY DEF bridgeVars, history
<1>4. ~Told(GBRIDGE_CMD_STREAM) /\ ~Told(GBRIDGE_CMD_DEBUG_LINE)
  BY <1>1 DEF Told, GBRIDGE_CMD_DATA, GBRIDGE_CMD_STREAM, GBRIDGE_CMD_DEBUG_LINE
<1>5. \A req, val : req = call => ~DeviceAtReplying(req, val)
  BY <1>1, <1>4, OnlyTold DEF LastCommand
<1>6. Got(call)
  BY <1>1, <1>2, <1>4, <1>5, OnlyTold
  DEF Stage, Rest, Debug, Asking, Data, Got, SendsStream, Call, Answering,
      Replying, Replied, Streaming, Done
<1>7. /\ BridgeAtGot(call)
      /\ (Gone \/ open = sockets) /\ toDev = <<>> /\ Told(GBRIDGE_CMD_DATA)
  BY <1>1, <1>6, OnlyTold DEF Got
<1> DEFINE req == call
           frame == StreamFrame(GBRIDGE_CMD_STREAM, Content(req.size))
<1>8. toPC' = frame
  <2>1. Content(req.size) \in Seq(Byte)
    <3>1. req.size \in Nat
      BY <1>2, RequestIs
    <3>2. QED
      BY <3>1, ContentType
  <2>2. frame \in Seq(Byte)
    BY <2>1, CommandType, StreamFrameIs
  <2>3. toPC = <<>>
    BY <1>7 DEF BridgeAtGot
  <2> HIDE DEF frame
  <2>4. <<>> \o frame = frame
    BY <2>2
  <2>5. QED
    BY <1>1, <2>3, <2>4 DEF frame
<1>9. ASSUME NEW r \in Requests, r = call, BridgeAtGot(r),
             toPC' = StreamFrame(GBRIDGE_CMD_STREAM, Content(r.size))
      PROVE  BridgeAtStream(r)'
  <2>1. /\ Pending(r) => Pending(r)'
        /\ BridgeHas(Payload(r)) => BridgeHas(Payload(r))'
        /\ Gone => Gone'
    BY <1>3 DEF Pending, BridgeHas, BridgeListens, Gone
  <2>2. r.op = SEND
    BY <1>1, <1>9
  <2>3. QED
    BY <1>3, <1>9, <2>1, <2>2 DEF BridgeAtGot, BridgeAtStream
<1>10. DeviceAtStream'
  BY <1>1, <1>3, <1>7 DEF DeviceAtStream, Asked, Told, Settled, Gone
<1>11. \E r \in Requests : r = LastSent' /\ SendsStream(r)'
  BY <1>2, <1>7, <1>8, <1>9, <1>10 DEF SendsStream
<1>12. QED
  BY <1>11 DEF Stage, Asking

\* Not connected, the device is in none of these places.
LEMMA Disconnected ==
  ASSUME Stage, UNCHANGED <<bridgeVars, toPC, history>>, ~connected'
  PROVE  Stage'
BY DeviceMoves

LEMMA ChecksumComes ==
  ASSUME NEW bytes \in Seq(Byte), toDev = Be16(ChecksumData(bytes))
  PROVE  /\ FromBe16(toDev[1], toDev[2]) = ChecksumData(bytes)
         /\ After(toDev, 2) = <<>>
<1>1. LET line == Be16(ChecksumData(bytes)) \o <<>>
      IN  /\ FromBe16(line[1], line[2]) = ChecksumData(bytes)
          /\ After(line, 2) = <<>>
  <2>1. <<>> \in Seq(Byte)
    OBVIOUS
  <2>2. QED
    BY <2>1, ChecksumRead
<1> DEFINE sum == Be16(ChecksumData(bytes))
<1>2. sum \in Seq(Byte)
  BY CheckedType
<1> HIDE DEF sum
<1>3. sum \o <<>> = sum
  BY <1>2
<1>4. QED
  BY <1>1, <1>3 DEF sum

LEMMA RecvDataChecksumKeeps ==
  ASSUME TypesInv, Fits, Stage, RecvDataChecksum,
         UNCHANGED <<bridgeVars, history>>
  PROVE  Stage' /\ connected'
<1>1. /\ processing_cmd = GBRIDGE_CMD_DATA_PC /\ processing_cmd_state = 2
      /\ toDev' = After(toDev, 2) /\ connected
  BY DEF RecvDataChecksum, Processing, Reads
<1>2. PICK req \in Requests, val \in B!SocketValues :
        req = LastSent /\ Replying(req, val) /\ DeviceAtReplying(req, val)
  BY <1>1, OnlyInReply
  DEF Stage, Rest, Debug, Asking, Data, Got, SendsStream, Call, Answering,
      Replying, Replied, Streaming, Done
<1>3. val \in Int /\ Possible(req, val) /\ Executed(req, val)
  BY <1>2, ValueType DEF Replying, Executed
<1>4. PICK reply \in Answers(req, val) : WillAgree(req, val) /\ InReply(reply)
  BY <1>1, <1>2, OnlyInReply
<1>5. reply \in Seq(Byte)
  BY <1>3, AnswerFrame
<1>6. /\ pc = "recv_data_wait" /\ ~data_ready
      /\ data_size = Len(reply) /\ data = reply
      /\ toDev = Be16(ChecksumData(reply))
  BY <1>1, <1>4 DEF InReply
<1>7. FromBe16(toDev[1], toDev[2]) = ChecksumData(Received) /\ toDev' = <<>>
  <2>1. SubSeq(reply, 1, Len(reply)) = reply
    BY <1>5
  <2>2. Received = reply
    BY <1>6, <2>1 DEF Received
  <2>3. QED
    BY <1>1, <1>5, <1>6, <2>2, ChecksumComes
<1>8. /\ data_ready' /\ processing_cmd' = GBRIDGE_CMD_NONE
      /\ toPC' = toPC \o <<Reply(GBRIDGE_CMD_DATA_PC)>>
      /\ UNCHANGED <<data, data_size, connected, pc, open>>
  BY <1>6, <1>7 DEF RecvDataChecksum, Processing, LoopReturns, Writes, link, caller
<1>9. /\ BridgeWaits(GBRIDGE_CMD_DATA_PC, Payload(req))
      /\ bwaiting_cmd = GBRIDGE_CMD_DATA_PC
      /\ toPC' = <<Reply(GBRIDGE_CMD_DATA_PC)>>
  <2>1. toPC = <<>>
    BY <1>2 DEF Replying, BridgeAtReplying
  <2>2. <<>> \o <<Reply(GBRIDGE_CMD_DATA_PC)>> = <<Reply(GBRIDGE_CMD_DATA_PC)>>
    OBVIOUS
  <2>3. QED
    BY <1>2, <1>8, <2>1, <2>2 DEF Replying, BridgeAtReplying
<1>10. UNCHANGED <<bconnected, bwaiting_cmd, bdata, bpc, bwait_for, bres, sockets,
                   served, sent>>
  BY DEF bridgeVars, history
<1>11. Executed(req, val)'
  BY <1>3, <1>10 DEF Executed, Possible
<1>12. WillAgree(req, val)' /\ Replies(req, val)'
  BY <1>4, <1>6, <1>8, <1>10 DEF WillAgree, Replies, HasReply
<1>13. CASE More(req, val)
  <2>1. BridgeAtReplied(req)'
    BY <1>9, <1>10 DEF BridgeAtReplied, BridgeWaits
  <2>2. DeviceAtReplied(req, val)'
    BY <1>7, <1>12 DEF DeviceAtReplied
  <2>3. Replied(req, val)'
    BY <1>11, <1>13, <2>1, <2>2 DEF Replied, More
  <2>4. QED
    BY <1>1, <1>2, <1>8, <1>10, <2>3 DEF Stage, Answering, LastSent
<1>14. CASE ~More(req, val)
  <2>1. LastWait'
    <3>1. bdata[1] = req.op
      BY <1>9, RequestIs DEF BridgeWaits
    <3>2. bres = val /\ bwait_for = GBRIDGE_CMD_DATA_PC
      BY <1>3, <1>9 DEF Executed, BridgeWaits
    <3>3. QED
      BY <1>10, <1>14, <3>1, <3>2 DEF LastWait, More
  <2>2. toPC' = <<Reply(GBRIDGE_CMD_DATA_PC)>> \o <<>>
    BY <1>9
  <2>3. BridgeRests(<<>>)'
    BY <1>9, <1>10, <2>1, <2>2 DEF BridgeRests, BridgeWaits
  <2>4. DeviceAtDone(req, val)'
    BY <1>7, <1>12, <1>14 DEF DeviceAtDone, More
  <2>5. Done(req, val)'
    BY <1>11, <2>3, <2>4 DEF Done
  <2>6. QED
    BY <1>1, <1>2, <1>8, <1>10, <2>5 DEF Stage, Answering, LastSent
<1>15. QED
  BY <1>13, <1>14

LEMMA RecvStreamChecksumKeeps ==
  ASSUME TypesInv, Fits, Stage, RecvStreamChecksum,
         UNCHANGED <<bridgeVars, history>>
  PROVE  Stage' /\ connected'
<1>1. /\ processing_cmd = GBRIDGE_CMD_STREAM_PC /\ processing_cmd_state = 2
      /\ toDev' = After(toDev, 2) /\ connected
  BY DEF RecvStreamChecksum, Processing, Reads
<1>2. PICK req \in Requests, val \in B!SocketValues :
        req = LastSent /\ Streaming(req, val) /\ DeviceAtStreaming(req, val)
  BY <1>1, OnlyInAnswer
  DEF Stage, Rest, Debug, Asking, Data, Got, SendsStream, Call, Answering,
      Replying, Replied, Streaming, Done
<1>3. val \in Int /\ Possible(req, val) /\ Executed(req, val) /\ More(req, val)
  BY <1>2, ValueType DEF Streaming, Executed
<1>4. WillAgree(req, val) /\ InAnswer(Content(val))
  BY <1>1, <1>2, OnlyInAnswer
<1>5. Content(val) \in Seq(Byte) /\ Len(Content(val)) = val
  BY <1>3, StreamedFrame
<1>6. /\ pc = "recv_stream_wait" /\ ~data_ready /\ res = val
      /\ stream_size = val /\ stream = Content(val)
      /\ toDev = Be16(ChecksumData(Content(val)))
  BY <1>1, <1>4, <1>5 DEF InAnswer
<1>7. FromBe16(toDev[1], toDev[2]) = ChecksumData(SubSeq(stream, 1, stream_size))
      /\ toDev' = <<>>
  <2> DEFINE content == Content(val)
  <2>1. content \in Seq(Byte) /\ Len(content) = val
    BY <1>5
  <2> HIDE DEF content
  <2>2. SubSeq(content, 1, val) = content
    BY <2>1
  <2>3. QED
    BY <1>1, <1>5, <1>6, <2>2, ChecksumComes DEF content
<1>8. /\ stream_max_size' = 0 /\ processing_cmd' = GBRIDGE_CMD_NONE
      /\ toPC' = toPC \o <<Reply(GBRIDGE_CMD_STREAM_PC)>>
      /\ UNCHANGED <<stream, data_ready, connected, pc, open, res>>
  BY <1>6, <1>7
  DEF RecvStreamChecksum, Processing, LoopReturns, Writes, link, caller, packet
<1>9. /\ BridgeWaits(GBRIDGE_CMD_STREAM_PC, Payload(req))
      /\ bwaiting_cmd = GBRIDGE_CMD_STREAM_PC
      /\ toPC' = <<Reply(GBRIDGE_CMD_STREAM_PC)>> \o <<>>
  <2>1. toPC = <<>>
    BY <1>2 DEF Streaming, BridgeAtStreaming
  <2>2. <<>> \o <<Reply(GBRIDGE_CMD_STREAM_PC)>> = <<Reply(GBRIDGE_CMD_STREAM_PC)>> \o <<>>
    OBVIOUS
  <2>3. QED
    BY <1>2, <1>8, <2>1, <2>2 DEF Streaming, BridgeAtStreaming
<1>10. UNCHANGED <<bconnected, bwaiting_cmd, bdata, bpc, bwait_for, bres, sockets,
                   served, sent>>
  BY DEF bridgeVars, history
<1>11. Executed(req, val)'
  BY <1>3, <1>10 DEF Executed, Possible
<1>12. WillAgree(req, val)' /\ HasStream(val)'
  BY <1>4, <1>6, <1>8, <1>10 DEF WillAgree, HasStream, Settled
<1>13. BridgeRests(<<>>)'
  BY <1>9, <1>10 DEF BridgeRests, BridgeWaits, LastWait
<1>14. Done(req, val)'
  BY <1>3, <1>7, <1>11, <1>12, <1>13 DEF Done, DeviceAtDone, More
<1>15. QED
  BY <1>1, <1>2, <1>8, <1>10, <1>14 DEF Stage, Answering, LastSent
-----------------------------------------------------------------------------
(***************************************************************************)
(* No handshake is to be found in what a connected bridge writes.          *)
(***************************************************************************)
LEMMA SuffixDeaf ==
  ASSUME NEW s \in Seq(Byte), NEW n \in 0..Len(s), Deaf(s)
  PROVE  Deaf(After(s, n))
<1> DEFINE t == After(s, n)
<1>1. Len(t) = Len(s) - n /\ \A i \in 1..(Len(s) - n) : t[i] = s[n + i]
  BY AfterType
<1> DEFINE m == Len(s)
<1>2. m \in Nat /\ n \in 0..m
  OBVIOUS
<1> HIDE DEF t, m
<1>3. ASSUME NEW i \in 1..(Len(t) - 3)
      PROVE  ~(t[i] = 153 /\ t[i + 1] = 102 /\ t[i + 2] = 71 /\ t[i + 3] = 66)
  <2>1. Len(t) = m - n
    BY <1>1 DEF m
  <2>2. /\ i \in 1..(m - n) /\ i + 1 \in 1..(m - n) /\ i + 2 \in 1..(m - n)
        /\ i + 3 \in 1..(m - n)
        /\ n + i \in 1..(m - 3) /\ n + (i + 1) = (n + i) + 1
        /\ n + (i + 2) = (n + i) + 2 /\ n + (i + 3) = (n + i) + 3
    BY <1>2, <2>1
  <2> DEFINE j == n + i
  <2>3. /\ t[i] = s[j] /\ t[i + 1] = s[j + 1]
        /\ t[i + 2] = s[j + 2] /\ t[i + 3] = s[j + 3]
    BY <1>1, <2>2 DEF m
  <2>4. j \in 1..(Len(s) - 3)
    BY <2>2 DEF m
  <2> HIDE DEF j
  <2>5. ~(s[j] = 153 /\ s[j + 1] = 102 /\ s[j + 2] = 71 /\ s[j + 3] = 66)
    BY <2>4 DEF Deaf
  <2>6. QED
    BY <2>3, <2>5
<1>4. QED
  BY <1>3 DEF Deaf, t

LEMMA JoinedDeaf ==
  ASSUME NEW s \in Seq(Byte), NEW t \in Seq(Byte), Deaf(s), Deaf(t),
         Len(t) >= 1, t[1] \notin {102, 71, 66}
  PROVE  Deaf(s \o t)
<1> DEFINE u == s \o t
           m == Len(s)
           k == Len(t)
<1>1. m \in Nat /\ k \in Nat /\ k >= 1 /\ Len(u) = m + k
  OBVIOUS
<1>2. /\ \A i \in 1..m : u[i] = s[i]
      /\ \A i \in (m + 1)..(m + k) : u[i] = t[i - m]
  OBVIOUS
<1> HIDE DEF u
<1>3. ASSUME NEW i \in 1..(Len(u) - 3),
             u[i] = 153, u[i + 1] = 102, u[i + 2] = 71, u[i + 3] = 66
      PROVE  FALSE
  <2>1. i \in Int /\ i >= 1 /\ i + 3 <= m + k
    <3> HIDE DEF m, k
    <3>1. QED
      BY <1>1, <1>3
  <2>2. CASE i + 3 <= m
    <3>1. /\ u[i] = s[i] /\ u[i + 1] = s[i + 1] /\ u[i + 2] = s[i + 2]
          /\ u[i + 3] = s[i + 3] /\ i \in 1..(m - 3)
      <4> HIDE DEF m, k
      <4>1. QED
        BY <1>1, <1>2, <2>1, <2>2
    <3>2. QED
      BY <1>3, <3>1 DEF Deaf
  <2>3. CASE i > m
    <3> DEFINE j == i - m
    <3>1. /\ j \in 1..(k - 3) /\ i = m + j
          /\ u[i] = t[j] /\ u[i + 1] = t[j + 1] /\ u[i + 2] = t[j + 2]
          /\ u[i + 3] = t[j + 3]
      <4> HIDE DEF m, k
      <4>1. /\ j \in Int /\ j >= 1 /\ j + 3 <= k
            /\ (i + 1) - m = j + 1 /\ (i + 2) - m = j + 2 /\ (i + 3) - m = j + 3
            /\ i \in (m + 1)..(m + k) /\ i + 1 \in (m + 1)..(m + k)
            /\ i + 2 \in (m + 1)..(m + k) /\ i + 3 \in (m + 1)..(m + k)
        BY <1>1, <2>1, <2>3
      <4>2. /\ u[i] = t[j] /\ u[i + 1] = t[(i + 1) - m]
            /\ u[i + 2] = t[(i + 2) - m] /\ u[i + 3] = t[(i + 3) - m]
        BY <1>2, <4>1
      <4>3. QED
        BY <1>1, <4>1, <4>2
    <3> HIDE DEF j
    <3>2. ~(t[j] = 153 /\ t[j + 1] = 102 /\ t[j + 2] = 71 /\ t[j + 3] = 66)
      BY <3>1, Zenon DEF Deaf
    <3>3. t[j] = 153
      BY <1>3, <3>1
    <3>4. t[j + 1] = 102
      BY <1>3, <3>1
    <3>5. t[j + 2] = 71
      BY <1>3, <3>1
    <3>6. t[j + 3] = 66
      BY <1>3, <3>1
    <3>7. QED
      BY <3>2, <3>3, <3>4, <3>5, <3>6, Zenon
  <2>4. CASE i <= m /\ m < i + 3
    <3>1. u[m + 1] = t[1]
      <4> HIDE DEF m, k
      <4>1. m + 1 \in (m + 1)..(m + k) /\ (m + 1) - m = 1
        BY <1>1
      <4>2. QED
        BY <1>2, <4>1
    <3>2. m = i \/ m = i + 1 \/ m = i + 2
      <4> HIDE DEF m, k
      <4>1. QED
        BY <1>1, <2>1, <2>4
    <3>3. u[m + 1] \in {102, 71, 66}
      <4> HIDE DEF m, k
      <4>1. m + 1 = i + 1 \/ m + 1 = i + 2 \/ m + 1 = i + 3
        BY <1>1, <2>1, <3>2
      <4>2. QED
        BY <1>3, <4>1
    <3>4. QED
      BY <3>1, <3>3
  <2>5. QED
    <3> HIDE DEF m, k
    <3>1. QED
      BY <1>1, <2>1, <2>2, <2>3, <2>4
<1>4. QED
  BY <1>3 DEF Deaf, u

\* What the bridge may add to what the device has not read.
Harmless(bytes) ==
  /\ bytes \in Seq(Byte) /\ Len(bytes) >= 1
  /\ bytes[1] \notin {102, 71, 66} /\ Deaf(bytes)

LEMMA AckHarmless ==
  \A cmd \in {GBRIDGE_CMD_DEBUG_LINE, GBRIDGE_CMD_DATA, GBRIDGE_CMD_STREAM} :
    Harmless(<<Reply(cmd)>>)
<1>1. ASSUME NEW cmd \in {GBRIDGE_CMD_DEBUG_LINE, GBRIDGE_CMD_DATA,
                          GBRIDGE_CMD_STREAM}
      PROVE  Harmless(<<Reply(cmd)>>)
  <2>1. Reply(cmd) \in Byte /\ Reply(cmd) \notin {102, 71, 66}
    BY DEF Reply, Byte, GBRIDGE_CMD_DEBUG_LINE, GBRIDGE_CMD_DATA, GBRIDGE_CMD_STREAM
  <2> DEFINE byte == Reply(cmd)
  <2> HIDE DEF byte
  <2>2. <<byte>> \in Seq(Byte) /\ Len(<<byte>>) = 1 /\ <<byte>>[1] = byte
    BY <2>1 DEF byte
  <2>3. Deaf(<<byte>>)
    BY <2>2 DEF Deaf
  <2>4. QED
    BY <2>1, <2>2, <2>3 DEF Harmless, byte
<1>2. QED
  BY <1>1

LEMMA BytesJoined ==
  ASSUME NEW s \in Seq(Byte), NEW t \in Seq(Byte)
  PROVE  /\ s \o t \in Seq(Byte) /\ Len(s \o t) = Len(s) + Len(t)
         /\ \A i \in 1..Len(s) : (s \o t)[i] = s[i]
         /\ \A i \in 1..Len(t) : (s \o t)[Len(s) + i] = t[i]
<1>1. s \o t \in Seq(Byte) /\ Len(s \o t) = Len(s) + Len(t)
  OBVIOUS
<1>2. \A i \in 1..Len(s) : (s \o t)[i] = s[i]
  OBVIOUS
<1>3. ASSUME NEW i \in 1..Len(t) PROVE (s \o t)[Len(s) + i] = t[i]
  OBVIOUS
<1>4. QED
  BY <1>1, <1>2, <1>3

\* The bytes of a frame, up to its checksum.
LEMMA FrameBytes ==
  ASSUME NEW head \in Seq(Byte), NEW body \in Seq(Byte), NEW sum \in Seq(Byte),
         Len(sum) = 2
  PROVE  /\ Len(head \o (body \o sum)) = Len(head) + Len(body) + 2
         /\ \A i \in 1..Len(head) : (head \o (body \o sum))[i] = head[i]
         /\ \A i \in 1..Len(body) :
              (head \o (body \o sum))[Len(head) + i] = body[i]
<1> DEFINE rest == body \o sum
<1>1. /\ rest \in Seq(Byte) /\ Len(rest) = Len(body) + 2
      /\ \A i \in 1..Len(body) : rest[i] = body[i]
  <2>1. /\ rest \in Seq(Byte) /\ Len(rest) = Len(body) + Len(sum)
        /\ \A i \in 1..Len(body) : rest[i] = body[i]
    BY BytesJoined, Zenon
  <2>2. QED
    BY <2>1
<1> HIDE DEF rest
<1> DEFINE frame == head \o rest
<1>2. /\ Len(frame) = Len(head) + Len(rest)
      /\ \A i \in 1..Len(head) : frame[i] = head[i]
      /\ \A i \in 1..Len(rest) : frame[Len(head) + i] = rest[i]
  BY <1>1, BytesJoined, Zenon
<1> HIDE DEF frame
<1> DEFINE m == Len(body)
<1>3. m \in Nat
  OBVIOUS
<1> HIDE DEF m
<1>4. \A i \in 1..m : i \in 1..(m + 2)
  BY <1>3
<1>5. QED
  BY <1>1, <1>2, <1>4 DEF frame, rest, m

LEMMA IPv4Bytes ==
  /\ AddressWrite(1) \in Seq(Byte) /\ Len(AddressWrite(1)) = 7
  /\ \A i \in 1..7 : AddressWrite(1)[i] \in {0, 1, 2, 80, 127}
<1> DEFINE address == <<1, 0, 80, 127, 0, 0, 1>>
<1>1. AddressWrite(1) = address
  BY DEF AddressWrite, ADDR_NONE, ADDR_IPV4, ADDR_IPV6
<1>2. address \in Seq(Byte) /\ Len(address) = 7
  BY DEF Byte
<1>3. \A i \in 1..7 : address[i] \in {0, 1, 2, 80, 127}
  OBVIOUS
<1> HIDE DEF address
<1>4. QED
  BY <1>1, <1>2, <1>3

LEMMA IPv6Bytes ==
  /\ AddressWrite(2) \in Seq(Byte) /\ Len(AddressWrite(2)) = 19
  /\ \A i \in 1..19 : AddressWrite(2)[i] \in {0, 1, 2, 80, 127}
<1>1. AddressWrite(2) \in Seq(Byte) /\ Len(AddressWrite(2)) = 19
  BY AddressIs
<1> DEFINE head == <<2, 0, 80>>
           host == [i \in 1..16 |-> i % 2]
<1>2. AddressWrite(2) = head \o host
  BY DEF AddressWrite, ADDR_NONE, ADDR_IPV4, ADDR_IPV6
<1>3. head \in Seq(Byte) /\ Len(head) = 3 /\ \A i \in 1..3 : head[i] \in {0, 2, 80}
  BY DEF Byte
<1>4. host \in Seq(Byte) /\ Len(host) = 16 /\ \A i \in 1..16 : host[i] \in {0, 1}
  <2>1. \A i \in 1..16 : i % 2 \in Byte /\ i % 2 \in {0, 1}
    BY DEF Byte
  <2>2. QED
    BY <2>1
<1> HIDE DEF head, host
<1>5. /\ \A i \in 1..Len(head) : (head \o host)[i] = head[i]
      /\ \A i \in 1..Len(host) : (head \o host)[Len(head) + i] = host[i]
  <2>1. head \in Seq(Byte) /\ host \in Seq(Byte)
    BY <1>3, <1>4
  <2>2. QED
    BY <2>1, BytesJoined, Zenon
<1>6. ASSUME NEW i \in 1..19
      PROVE  AddressWrite(2)[i] \in {0, 1, 2, 80, 127}
  <2>1. CASE i <= 3
    <3>1. i \in 1..3
      BY <2>1
    <3>2. (head \o host)[i] = head[i]
      BY <1>3, <1>5, <3>1
    <3>3. QED
      BY <1>2, <1>3, <3>1, <3>2
  <2>2. CASE i > 3
    <3>1. i - 3 \in 1..16 /\ 3 + (i - 3) = i
      BY <2>2
    <3>2. (head \o host)[3 + (i - 3)] = host[i - 3]
      BY <1>3, <1>4, <1>5, <3>1
    <3>3. QED
      BY <1>2, <1>4, <3>1, <3>2
  <2>3. QED
    BY <2>1, <2>2
<1>7. QED
  BY <1>1, <1>6

\* An answer is harmless: its only byte above 127 is its first argument.
LEMMA ReplyHarmless ==
  ASSUME Fits, NEW req \in Requests, NEW val \in Int, Possible(req, val),
         NEW reply \in Answers(req, val)
  PROVE  Harmless(DataFrame(GBRIDGE_CMD_DATA_PC, reply))
<1>1. reply \in Seq(Byte) /\ Len(reply) \in 1..22
  BY AnswerFrame
<1>2. ASSUME NEW k \in 1..(Len(reply) - 1)
      PROVE  ~(reply[k] = 153 /\ reply[k + 1] = 102)
  <2>1. PICK addr \in B!Senders(req.op, val) :
          reply = B!ReplyPayload(req.op, val, addr)
    BY DEF Answers
  <2>2. req.op \in Op /\ addr \in 0..2
    BY RequestIs, SameCodes DEF B!Senders, ADDR_NONE, ADDR_IPV4, ADDR_IPV6, Requested
  <2>3. reply = <<req.op>> \o ReplyArguments(req.op, val, addr)
    BY <2>1, ReplyPayloadIs
  <2>4. req.op \in Byte /\ req.op \in 0..6
    BY <2>2 DEF Op, Byte, OPEN, CLOSE, CONNECT, LISTEN, ACCEPT, SEND, RECV
  <2>5. reply[1] \in 0..6
    BY AnswerIs
  <2>6. CASE k = 1
    BY <2>5, <2>6
  <2>7. CASE k # 1 /\ req.op \notin {SEND, RECV}
    <3>1. Len(reply) <= 2
      <4>1. GoodReply(req, reply)
        BY AnswerIs
      <4>2. CASE req.op = CLOSE
        <5>1. Len(reply) = 1
          BY <4>1, <4>2 DEF GoodReply, CLOSE, SEND, RECV
        <5>2. QED
          BY <5>1
      <4>3. CASE req.op # CLOSE
        <5>1. Len(reply) = 2
          BY <2>7, <4>1, <4>3 DEF GoodReply, CLOSE, SEND, RECV
        <5>2. QED
          BY <5>1
      <4>4. QED
        BY <4>2, <4>3
    <3> DEFINE m == Len(reply)
    <3>2. m <= 2 /\ m \in Nat /\ k \in 1..(m - 1)
      BY <1>1, <3>1
    <3> HIDE DEF m
    <3>3. QED
      BY <2>7, <3>2
  <2>8. CASE k # 1 /\ req.op \in {SEND, RECV}
    <3> DEFINE u == Unsigned(val, 16)
               hi == (u \div 256) % 256
               lo == u % 256
               tail == IF req.op = RECV THEN AddressWrite(addr) ELSE <<>>
    <3>1. val \in -2..512
      <4>1. req.size \in Nat /\ (req.op = RECV => req.size <= 255)
        BY RequestIs
      <4>2. CASE req.op = SEND
        BY <4>2 DEF Possible
      <4>3. CASE req.op = RECV
        BY <4>1, <4>3 DEF Possible
      <4>4. QED
        BY <2>8, <4>2, <4>3
    <3>2. hi \in {0, 1, 2, 255} /\ hi \in Byte /\ lo \in Byte
      <4>1. u \in 0..512 \/ u = 65534 \/ u = 65535
        BY <3>1 DEF Unsigned
      <4> HIDE DEF u
      <4>2. u \in 0..512 => u \div 256 \in {0, 1, 2}
        OBVIOUS
      <4>3. u = 65534 \/ u = 65535 => u \div 256 = 255
        OBVIOUS
      <4> DEFINE q == u \div 256
      <4>4. q \in {0, 1, 2, 255}
        BY <4>1, <4>2, <4>3
      <4> HIDE DEF q
      <4>5. q % 256 = q
        BY <4>4
      <4>6. u % 256 \in 0..255
        <5>1. \A n \in Nat : n % 256 \in 0..255
          OBVIOUS
        <5>2. u \in Nat
          <6>1. CASE u \in 0..512
            BY <6>1
          <6>2. CASE u \in {65534, 65535}
            BY <6>2
          <6>3. QED
            BY <4>1, <6>1, <6>2
        <5>3. QED
          BY <5>1, <5>2
      <4>7. hi = q
        BY <4>5 DEF q
      <4> HIDE DEF hi
      <4>8. QED
        BY <4>4, <4>6, <4>7 DEF Byte
    <3>3. tail \in Seq(Byte) /\ Len(tail) \in {0, 1, 7, 19}
          /\ \A i \in 1..Len(tail) : tail[i] \in {0, 1, 2, 80, 127}
      <4>1. CASE req.op # RECV
        <5>1. tail = <<>> /\ <<>> \in Seq(Byte) /\ Len(tail) = 0
          BY <4>1
        <5> HIDE DEF tail
        <5>2. QED
          BY <5>1
      <4>2. CASE req.op = RECV /\ addr = 0
        <5>1. tail = <<0>>
          BY <4>2 DEF AddressWrite, ADDR_NONE, ADDR_IPV4, ADDR_IPV6
        <5>2. <<0>> \in Seq(Byte) /\ Len(<<0>>) = 1
              /\ \A i \in 1..1 : <<0>>[i] = 0
          BY DEF Byte
        <5>3. QED
          BY <5>1, <5>2
      <4>3. CASE req.op = RECV /\ addr = 1
        <5>1. tail = AddressWrite(1)
          BY <4>3
        <5> HIDE DEF tail
        <5>2. QED
          BY <5>1, IPv4Bytes
      <4>4. CASE req.op = RECV /\ addr = 2
        <5>1. tail = AddressWrite(2)
          BY <4>4
        <5> HIDE DEF tail
        <5>2. QED
          BY <5>1, IPv6Bytes
      <4>5. QED
        BY <2>2, <4>1, <4>2, <4>3, <4>4
    <3>4. reply = <<req.op>> \o (<<hi, lo>> \o tail)
      <4>1. <<hi, lo>> \o <<>> = <<hi, lo>>
        OBVIOUS
      <4> HIDE DEF hi, lo
      <4>2. ReplyArguments(req.op, val, addr) = <<hi, lo>> \o tail
        <5>1. req.op = RECV =>
                ReplyArguments(req.op, val, addr) = <<hi, lo>> \o AddressWrite(addr)
          BY DEF ReplyArguments, CLOSE, CONNECT, SEND, RECV, Be16, hi, lo
        <5>2. req.op = SEND =>
                ReplyArguments(req.op, val, addr) = <<hi, lo>>
          BY DEF ReplyArguments, CLOSE, CONNECT, SEND, RECV, Be16, hi, lo
        <5>3. QED
          BY <2>8, <4>1, <5>1, <5>2 DEF SEND, RECV
      <4>3. QED
        BY <2>3, <4>2
    <3> HIDE DEF u, hi, lo, tail
    <3>5. <<hi, lo>> \o tail \in Seq(Byte)
          /\ Len(<<hi, lo>> \o tail) = 2 + Len(tail)
          /\ (<<hi, lo>> \o tail)[1] = hi
          /\ \A i \in 1..Len(tail) : (<<hi, lo>> \o tail)[2 + i] = tail[i]
      BY <3>2, <3>3, PrefixOfTwo
    <3> DEFINE body == <<hi, lo>> \o tail
               m == Len(tail)
    <3>6. body \in Seq(Byte) /\ Len(body) = 2 + m /\ m \in {0, 1, 7, 19}
          /\ body[1] = hi /\ \A i \in 1..m : body[2 + i] \in {0, 1, 2, 80, 127}
      BY <3>3, <3>5
    <3> HIDE DEF body
    <3>7. /\ Len(reply) = 3 + m
          /\ reply[2] = hi
          /\ \A i \in 1..m : reply[3 + i] \in {0, 1, 2, 80, 127}
      <4>1. <<req.op>> \in Seq(Byte) /\ Len(<<req.op>>) = 1
        BY <2>4
      <4> DEFINE one == <<req.op>>
      <4>2. one \in Seq(Byte) /\ Len(one) = 1 /\ reply = one \o body
        BY <3>4, <4>1 DEF body
      <4> HIDE DEF one
      <4>9. one \in Seq(Byte) /\ body \in Seq(Byte)
        BY <3>6, <4>2
      <4>8. Len(one \o body) = Len(one) + Len(body)
            /\ \A i \in 1..Len(body) : (one \o body)[Len(one) + i] = body[i]
        BY <4>9, BytesJoined, Zenon
      <4>3. Len(reply) = Len(one) + Len(body)
            /\ \A i \in 1..Len(body) : reply[Len(one) + i] = body[i]
        BY <4>2, <4>8
      <4> HIDE DEF m
      <4>4. 1 \in 1..Len(body) /\ 1 + 1 = 2
            /\ \A i \in 1..m : 2 + i \in 1..Len(body) /\ 1 + (2 + i) = 3 + i
        BY <3>6
      <4>5. \A i \in 1..m : reply[1 + (2 + i)] = body[2 + i]
        BY <4>2, <4>3, <4>4
      <4>6. reply[1 + 1] = body[1]
        BY <4>2, <4>3, <4>4
      <4>7. QED
        BY <3>6, <4>2, <4>3, <4>4, <4>5, <4>6
    <3>8. CASE k = 2
      BY <3>2, <3>7, <3>8
    <3>9. CASE k >= 3
      <4> HIDE DEF m
      <4>1. k + 1 = 3 + (k - 2) /\ k - 2 \in 1..m
        BY <3>6, <3>7, <3>9
      <4>2. reply[k + 1] \in {0, 1, 2, 80, 127}
        BY <3>7, <4>1
      <4>3. QED
        BY <4>2
    <3>10. QED
      BY <2>8, <3>8, <3>9
  <2>9. QED
    BY <2>6, <2>7, <2>8
<1>3. QED
  <2> DEFINE m == Len(reply)
             head == <<GBRIDGE_CMD_DATA_PC, m>>
             sum == Be16(ChecksumData(reply))
             frame == head \o (reply \o sum)
  <2>1. m \in 1..22 /\ m \in Byte
    BY <1>1, SMTT(30) DEF Byte
  <2>2. sum \in Seq(Byte) /\ Len(sum) = 2
    BY <1>1, CheckedType
  <2>3. DataFrame(GBRIDGE_CMD_DATA_PC, reply) = frame
    <3>1. head \in Seq(Byte)
      <4> HIDE DEF m
      <4>1. QED
        BY <2>1 DEF GBRIDGE_CMD_DATA_PC, Byte
    <3>2. DataFrame(GBRIDGE_CMD_DATA_PC, reply) = (head \o reply) \o sum
      BY DEF DataFrame
    <3> HIDE DEF head, sum
    <3>3. QED
      BY <1>1, <2>2, <3>1, <3>2, TwoParts
  <2>4. head \in Seq(Byte) /\ Len(head) = 2 /\ head[1] = 74 /\ head[2] = m
    <3> HIDE DEF m
    <3>1. QED
      BY <2>1 DEF GBRIDGE_CMD_DATA_PC, Byte
  <2> HIDE DEF head, sum
  <2>5. /\ Len(frame) = Len(head) + Len(reply) + 2
        /\ \A i \in 1..Len(head) : frame[i] = head[i]
        /\ \A i \in 1..Len(reply) : frame[Len(head) + i] = reply[i]
    <3>1. head \in Seq(Byte) /\ reply \in Seq(Byte) /\ sum \in Seq(Byte)
          /\ Len(sum) = 2
      BY <1>1, <2>2, <2>4
    <3>2. /\ Len(head \o (reply \o sum)) = Len(head) + Len(reply) + 2
          /\ \A i \in 1..Len(head) : (head \o (reply \o sum))[i] = head[i]
          /\ \A i \in 1..Len(reply) :
               (head \o (reply \o sum))[Len(head) + i] = reply[i]
      BY <3>1, FrameBytes
    <3>3. QED
      BY <3>2
  <2>6. frame \in Seq(Byte)
    BY <1>1, <2>3, AnswerFrame
  <2> HIDE DEF frame
  <2>7. Len(frame) = m + 4 /\ frame[1] = 74 /\ frame[2] = m
        /\ \A i \in 1..m : frame[2 + i] = reply[i]
    <3> HIDE DEF m
    <3>1. 1 \in 1..2 /\ 2 \in 1..2 /\ 2 + m + 2 = m + 4
      BY <2>1
    <3>2. QED
      BY <2>4, <2>5, <3>1 DEF m
  <2>8. ASSUME NEW i \in 1..(Len(frame) - 3), frame[i] = 153, frame[i + 1] = 102
        PROVE  FALSE
    <3> HIDE DEF m
    <3>1. i # 1 /\ i # 2
      BY <2>1, <2>7, <2>8
    <3> DEFINE k == i - 2
    <3>2. k \in 1..(m - 1) /\ 2 + k = i /\ 2 + (k + 1) = i + 1
          /\ k \in 1..m /\ k + 1 \in 1..m
      BY <2>1, <2>7, <3>1
    <3> HIDE DEF k
    <3>3. frame[2 + k] = reply[k] /\ frame[2 + (k + 1)] = reply[k + 1]
      BY <2>7, <3>2
    <3>4. reply[k] = 153 /\ reply[k + 1] = 102
      BY <2>8, <3>2, <3>3
    <3>5. QED
      BY <1>2, <3>2, <3>4 DEF m
  <2>9. Deaf(frame)
    BY <2>8 DEF Deaf
  <2>10. Len(frame) >= 1
    <3> HIDE DEF m
    <3>1. QED
      BY <2>1, <2>7
  <2>11. QED
    BY <2>3, <2>6, <2>7, <2>9, <2>10 DEF Harmless

\* So is a short stream: its bytes count up from 1.
LEMMA StreamHarmless ==
  ASSUME NEW n \in 1..255
  PROVE  Harmless(StreamFrame(GBRIDGE_CMD_STREAM_PC, Content(n)))
<1> DEFINE content == Content(n)
           head == <<GBRIDGE_CMD_STREAM_PC>> \o <<0, n>>
           sum == Be16(ChecksumData(content))
           frame == head \o (content \o sum)
<1>1. content \in Seq(Byte) /\ Len(content) = n
  BY ContentType
<1>2. \A i \in 1..n : content[i] = i
  <2>1. \A i \in 1..n : i % 256 = i
    OBVIOUS
  <2>2. QED
    BY <2>1 DEF Content
<1>3. /\ head \in Seq(Byte) /\ Len(head) = 3
      /\ head[1] = 76 /\ head[2] = 0 /\ head[3] = n
  <2> DEFINE one == <<GBRIDGE_CMD_STREAM_PC>>
             two == <<0, n>>
  <2>1. one \in Seq(Byte) /\ Len(one) = 1 /\ one[1] = 76
    BY DEF GBRIDGE_CMD_STREAM_PC, Byte
  <2>2. two \in Seq(Byte) /\ Len(two) = 2 /\ two[1] = 0 /\ two[2] = n
    BY DEF Byte
  <2> HIDE DEF one, two
  <2>3. /\ one \o two \in Seq(Byte) /\ Len(one \o two) = Len(one) + Len(two)
        /\ \A i \in 1..Len(one) : (one \o two)[i] = one[i]
        /\ \A i \in 1..Len(two) : (one \o two)[Len(one) + i] = two[i]
    <3>1. one \in Seq(Byte) /\ two \in Seq(Byte)
      BY <2>1, <2>2
    <3>2. QED
      BY <3>1, BytesJoined, Zenon
  <2>4. /\ (one \o two)[1] = one[1] /\ (one \o two)[1 + 1] = two[1]
        /\ (one \o two)[1 + 2] = two[2]
    <3>1. 1 \in 1..1 /\ 1 \in 1..2 /\ 2 \in 1..2
      OBVIOUS
    <3>2. QED
      BY <2>1, <2>2, <2>3, <3>1
  <2>5. QED
    BY <2>1, <2>2, <2>3, <2>4 DEF one, two
<1>4. Be16(n) = <<0, n>>
  <2>1. n \div 256 = 0 /\ n % 256 = n
    OBVIOUS
  <2>2. 0 % 256 = 0
    OBVIOUS
  <2>3. QED
    BY <2>1, <2>2 DEF Be16
<1>5. sum \in Seq(Byte) /\ Len(sum) = 2
  BY <1>1, CheckedType
<1>6. StreamFrame(GBRIDGE_CMD_STREAM_PC, content) = frame
  <2>1. <<GBRIDGE_CMD_STREAM_PC>> \o <<0, n>> = head
    OBVIOUS
  <2>2. StreamFrame(GBRIDGE_CMD_STREAM_PC, content) =
          ((<<GBRIDGE_CMD_STREAM_PC>> \o <<0, n>>) \o content) \o sum
    BY <1>1, <1>4 DEF StreamFrame
  <2> HIDE DEF head, content, sum
  <2>3. (head \o content) \o sum = head \o (content \o sum)
    BY <1>1, <1>3, <1>5, TwoParts
  <2>4. QED
    BY <2>1, <2>2, <2>3
<1> HIDE DEF content, sum, head
<1>7. /\ Len(frame) = n + 5
      /\ frame[1] = 76 /\ frame[2] = 0 /\ frame[3] = n
      /\ \A i \in 1..n : frame[3 + i] = i
  <2>1. /\ Len(head \o (content \o sum)) = Len(head) + Len(content) + 2
        /\ \A i \in 1..Len(head) : (head \o (content \o sum))[i] = head[i]
        /\ \A i \in 1..Len(content) :
             (head \o (content \o sum))[Len(head) + i] = content[i]
    <3>1. head \in Seq(Byte) /\ content \in Seq(Byte) /\ sum \in Seq(Byte)
          /\ Len(sum) = 2
      BY <1>1, <1>3, <1>5
    <3>2. QED
      BY <3>1, FrameBytes
  <2> HIDE DEF frame
  <2>2. Len(head) = 3 /\ Len(content) = n /\ frame = head \o (content \o sum)
    BY <1>1, <1>3 DEF frame
  <2>4. /\ Len(frame) = 3 + n + 2
        /\ \A i \in 1..3 : frame[i] = head[i]
        /\ \A i \in 1..n : frame[3 + i] = content[i]
    BY <2>1, <2>2
  <2>5. /\ frame[1] = 76 /\ frame[2] = 0 /\ frame[3] = n
    <3>1. frame[1] = head[1] /\ frame[2] = head[2] /\ frame[3] = head[3]
      BY <2>4
    <3>2. QED
      BY <1>3, <3>1
  <2>6. Len(frame) = n + 5 /\ \A i \in 1..n : frame[3 + i] = i
    BY <1>2, <2>4
  <2>7. QED
    BY <2>5, <2>6
<1>8. frame \in Seq(Byte)
  BY <1>1, <1>6, CommandType, StreamFrameIs
<1> HIDE DEF frame
<1>9. ASSUME NEW i \in 1..(Len(frame) - 3), frame[i] = 153, frame[i + 1] = 102
      PROVE  FALSE
  <2>1. i # 1 /\ i # 2
    BY <1>7, <1>9
  <2>2. i # 3
    <3>1. i = 3 => frame[i + 1] = 1
      BY <1>7
    <3>2. QED
      BY <1>9, <3>1
  <2> DEFINE k == i - 3
  <2>3. k \in 1..(n - 1) /\ 3 + k = i /\ 3 + (k + 1) = i + 1
        /\ k \in 1..n /\ k + 1 \in 1..n
    BY <1>7, <2>1, <2>2
  <2> HIDE DEF k
  <2>4. frame[3 + k] = k /\ frame[3 + (k + 1)] = k + 1
    BY <1>7, <2>3
  <2>5. k = 153 /\ k + 1 = 102
    BY <1>9, <2>3, <2>4
  <2>6. QED
    BY <2>5
<1>10. Deaf(frame)
  BY <1>9 DEF Deaf
<1>11. QED
  BY <1>6, <1>7, <1>8, <1>10 DEF Harmless, content
-----------------------------------------------------------------------------
(***************************************************************************)
(* A device that has given up does not hear of the bridge any more.        *)
(***************************************************************************)
LEMMA OneMore ==
  ASSUME NEW s \in Seq(Byte), NEW n \in 0..(Len(s) - 1)
  PROVE  Append(SubSeq(s, 1, n), s[n + 1]) = SubSeq(s, 1, n + 1)
OBVIOUS

LEMMA HeardMore ==
  \A n \in 0..3 :
    Append(HeardOf(n), GBRIDGE_HANDSHAKE[n + 1]) = HeardOf(n + 1)
<1> DEFINE shake == GBRIDGE_HANDSHAKE
<1>1. shake \in Seq(Byte) /\ Len(shake) = 4
  BY HeardIs
<1> HIDE DEF shake
<1>2. \A n \in 0..3 :
        Append(SubSeq(shake, 1, n), shake[n + 1]) = SubSeq(shake, 1, n + 1)
  BY <1>1, OneMore
<1>3. QED
  BY <1>2 DEF shake, HeardOf

LEMMA StillDeaf ==
  ASSUME TypesInv, Muted
  PROVE  /\ toDev \in Seq(Byte) /\ handshake_progress \in 0..3
         /\ HeardOf(handshake_progress) \in Seq(Byte)
         /\ Len(HeardOf(handshake_progress)) = handshake_progress
         /\ Deaf(toDev)
<1>1. toDev \in Seq(Byte) /\ handshake_progress \in 0..3
  BY DEF TypesInv, DeviceInv, DeviceTypeOK, ReceiverTypeOK
<1> DEFINE p == handshake_progress
           heard == HeardOf(p)
<1>2. heard \in Seq(Byte) /\ Len(heard) = p
  <2>1. p \in 0..4
    BY <1>1
  <2>2. QED
    BY <2>1, HeardIs, Zenon
<1>3. Deaf(heard \o toDev)
  BY DEF Muted
<1> HIDE DEF p, heard
<1>4. After(heard \o toDev, Len(heard)) = toDev
  BY <1>1, <1>2, TakeDrop
<1>5. heard \o toDev \in Seq(Byte) /\ Len(heard) \in 0..Len(heard \o toDev)
  BY <1>1, <1>2
<1>6. Deaf(toDev)
  BY <1>3, <1>4, <1>5, SuffixDeaf
<1>7. QED
  BY <1>1, <1>2, <1>6 DEF p, heard

LEMMA NothingHeard ==
  ASSUME NEW bytes \in Seq(Byte), Deaf(bytes), toDev' = bytes,
         handshake_progress' = 0
  PROVE  Muted'
<1>1. HeardOf(0) = <<>> /\ <<>> \o bytes = bytes
  BY HeardIs
<1>2. QED
  BY <1>1 DEF Muted, HeardOf

LEMMA MutedReads ==
  ASSUME TypesInv, Muted, NEW n \in 0..2, n <= Len(toDev),
         toDev' = After(toDev, n), handshake_progress' = 0
  PROVE  Muted'
<1>1. n \in 0..Len(toDev)
  BY StillDeaf
<1>2. After(toDev, n) \in Seq(Byte)
  BY <1>1, StillDeaf, AfterType
<1>3. Deaf(After(toDev, n))
  BY <1>1, StillDeaf, SuffixDeaf
<1>4. QED
  BY <1>2, <1>3, NothingHeard

LEMMA MutedStays ==
  ASSUME TypesInv, Muted, UNCHANGED toDev,
         \/ handshake_progress' = 0
         \/ UNCHANGED handshake_progress /\ (connected' => connected)
  PROVE  Muted'
<1>1. CASE handshake_progress' = 0
  BY <1>1, StillDeaf, NothingHeard
<1>2. CASE UNCHANGED handshake_progress /\ (connected' => connected)
  BY <1>2 DEF Muted, HeardOf
<1>3. QED
  BY <1>1, <1>2

LEMMA MutedAdds ==
  ASSUME TypesInv, Muted, NEW bytes, Harmless(bytes), toDev' = toDev \o bytes,
         UNCHANGED <<connected, handshake_progress>>
  PROVE  Muted'
<1> DEFINE heard == HeardOf(handshake_progress)
<1>1. heard \in Seq(Byte) /\ toDev \in Seq(Byte) /\ Deaf(heard \o toDev)
  BY StillDeaf DEF Muted
<1>2. heard' = heard
  BY DEF HeardOf
<1> HIDE DEF heard
<1>3. /\ bytes \in Seq(Byte) /\ heard \o toDev \in Seq(Byte)
      /\ (heard \o toDev) \o bytes = heard \o (toDev \o bytes)
  <2>1. bytes \in Seq(Byte)
    BY DEF Harmless
  <2>2. heard \in Seq(Byte) /\ toDev \in Seq(Byte)
    BY <1>1
  <2>3. QED
    BY <2>1, <2>2, TwoParts
<1>4. Deaf((heard \o toDev) \o bytes)
  BY <1>1, <1>3, JoinedDeaf DEF Harmless
<1>5. Deaf(heard' \o toDev')
  BY <1>2, <1>3, <1>4
<1>6. QED
  BY <1>5 DEF Muted, heard

LEMMA HandshakeFails ==
  ASSUME TypesInv, Muted, Handshake
  PROVE  Muted' /\ ~connected' /\ UNCHANGED toPC
<1> DEFINE p == handshake_progress
           heard == HeardOf(p)
           c == Head(toDev)
           rest == After(toDev, 1)
<1>1. p \in 0..3 /\ toDev \in Seq(Byte) /\ heard \in Seq(Byte) /\ Len(heard) = p
      /\ Deaf(toDev) /\ Deaf(heard \o toDev)
  BY StillDeaf DEF Muted
<1>2. Len(toDev) >= 1 /\ toDev' = rest
  BY DEF Handshake, Reads
<1>3. c \in Byte /\ c = toDev[1] /\ Append(heard, c) \o rest = heard \o toDev
      /\ rest \in Seq(Byte) /\ <<c>> \o rest = toDev
  <2>1. Append(heard, c) \o rest = heard \o toDev /\ rest \in Seq(Byte)
    BY <1>1, <1>2, MoveByte
  <2>2. Append(<<>>, c) \o rest = <<>> \o toDev
    <3>1. <<>> \in Seq(Byte)
      OBVIOUS
    <3>2. QED
      BY <1>1, <1>2, <3>1, MoveByte
  <2>3. Append(<<>>, c) = <<c>> /\ <<>> \o toDev = toDev
    BY <1>1
  <2>4. c \in Byte /\ c = toDev[1]
    BY <1>1, <1>2
  <2>5. QED
    BY <2>1, <2>2, <2>3, <2>4
<1> HIDE DEF p, heard, c, rest
<1>4. ~(p = 3 /\ c = 66)
  <2>1. SUFFICES ASSUME p = 3, c = 66 PROVE FALSE
    OBVIOUS
  <2> DEFINE u == heard \o toDev
  <2>2. /\ Len(u) = Len(heard) + Len(toDev)
        /\ \A i \in 1..Len(heard) : u[i] = heard[i]
        /\ \A i \in 1..Len(toDev) : u[Len(heard) + i] = toDev[i]
    BY <1>1, BytesJoined
  <2>3. heard[1] = 153 /\ heard[2] = 102 /\ heard[3] = 71
    <3>1. \A i \in 1..3 : HeardOf(3)[i] = GBRIDGE_HANDSHAKE[i]
      <4>1. 3 \in 0..4
        OBVIOUS
      <4>2. QED
        BY <4>1, HeardIs, Zenon
    <3>2. heard = HeardOf(3)
      BY <2>1 DEF heard
    <3>3. QED
      BY <3>1, <3>2 DEF GBRIDGE_HANDSHAKE
  <2> HIDE DEF u
  <2>4. u[1] = 153 /\ u[1 + 1] = 102 /\ u[1 + 2] = 71 /\ u[1 + 3] = 66
    <3>1. Len(heard) = 3 /\ 1 \in 1..3 /\ 2 \in 1..3 /\ 3 \in 1..3
          /\ 1 \in 1..Len(toDev)
      BY <1>1, <1>2, <2>1
    <3>2. u[1] = heard[1] /\ u[2] = heard[2] /\ u[3] = heard[3]
          /\ u[3 + 1] = toDev[1]
      BY <2>2, <3>1
    <3>3. QED
      BY <1>3, <2>1, <2>3, <3>2
  <2>5. 1 \in 1..(Len(u) - 3)
    BY <1>1, <1>2, <2>1, <2>2
  <2>6. Deaf(u)
    BY <1>1 DEF u
  <2>7. ASSUME NEW i \in 1..(Len(u) - 3)
        PROVE  ~(u[i] = 153 /\ u[i + 1] = 102 /\ u[i + 2] = 71 /\ u[i + 3] = 66)
    BY <2>6 DEF Deaf
  <2>8. QED
    BY <2>4, <2>5, <2>7
<1>5. /\ ~connected' /\ toPC' = toPC \o <<>>
      /\ handshake_progress' = IF c = GBRIDGE_HANDSHAKE[p + 1] THEN p + 1
                               ELSE IF c = GBRIDGE_HANDSHAKE[1] THEN 1 ELSE 0
  <2>1. ~(c = GBRIDGE_HANDSHAKE[p + 1] /\ p + 1 = Len(GBRIDGE_HANDSHAKE))
    <3>1. Len(GBRIDGE_HANDSHAKE) = 4 /\ GBRIDGE_HANDSHAKE[4] = 66
      BY DEF GBRIDGE_HANDSHAKE
    <3>2. p + 1 = 4 => p = 3
      BY <1>1
    <3>3. QED
      BY <1>4, <3>1, <3>2
  <2>2. QED
    BY <2>1 DEF Handshake, Writes, p, c
<1>6. UNCHANGED toPC
  BY <1>5 DEF TypesInv, BridgeOK
<1>7. CASE c = GBRIDGE_HANDSHAKE[p + 1]
  <2>1. Append(heard, c) = HeardOf(p + 1)
    BY <1>1, <1>7, HeardMore DEF heard
  <2>2. Deaf(HeardOf(p + 1) \o rest)
    BY <1>1, <1>3, <2>1
  <2>3. QED
    BY <1>2, <1>5, <1>6, <1>7, <2>2 DEF Muted, HeardOf
<1>8. CASE c # GBRIDGE_HANDSHAKE[p + 1] /\ c = GBRIDGE_HANDSHAKE[1]
  <2>1. <<c>> = HeardOf(1)
    <3>1. Append(HeardOf(0), GBRIDGE_HANDSHAKE[0 + 1]) = HeardOf(0 + 1)
      BY HeardMore
    <3>2. HeardOf(0) = <<>> /\ Append(<<>>, c) = <<c>> /\ 0 + 1 = 1
      BY HeardIs
    <3>3. QED
      BY <1>8, <3>1, <3>2
  <2>2. Deaf(HeardOf(1) \o rest)
    BY <1>1, <1>3, <2>1
  <2>3. QED
    BY <1>2, <1>5, <1>6, <1>8, <2>2 DEF Muted, HeardOf
<1>9. CASE c # GBRIDGE_HANDSHAKE[p + 1] /\ c # GBRIDGE_HANDSHAKE[1]
  <2>1. handshake_progress' = 0
    BY <1>5, <1>9
  <2>2. Muted'
    BY <1>2, <2>1, MutedReads DEF rest
  <2>3. QED
    BY <1>5, <1>6, <2>2
<1>10. QED
  BY <1>7, <1>8, <1>9
-----------------------------------------------------------------------------
(***************************************************************************)
(* Every step of the device.                                               *)
(***************************************************************************)
LEMMA DeviceStaysMuted ==
  ASSUME TypesInv, Muted, Device \/ Timeout
  PROVE  Muted'
<1>1. connected => handshake_progress = 0
  BY DEF Muted
<1>2. CASE Handshake
  BY <1>2, HandshakeFails
<1>3. CASE RecvAck
  BY <1>1, <1>3, MutedReads DEF RecvAck, ReadsCommand, Reads
<1>4. CASE RecvReset
  BY <1>4, MutedReads DEF RecvReset, ReadsCommand, Reads, GbridgeInit
<1>5. CASE RecvCommand
  <2>1. connected /\ Len(toDev) >= 1 /\ toDev' = After(toDev, 1)
    BY <1>5 DEF RecvCommand, ReadsCommand, Reads
  <2>2. handshake_progress' = 0
    BY <1>1, <1>5, <2>1 DEF RecvCommand, GbridgeInit, link
  <2>3. QED
    BY <2>1, <2>2, MutedReads
<1>6. CASE LoopIdle
  BY <1>6, MutedStays DEF LoopIdle, link, wire
<1>7. CASE RecvDataLen
  <2>1. connected /\ Len(toDev) >= 1 /\ toDev' = After(toDev, 1)
    BY <1>7 DEF RecvDataLen, Processing, Reads
  <2>2. handshake_progress' = 0
    BY <1>1, <1>7, <2>1 DEF RecvDataLen, GbridgeInit, link
  <2>3. QED
    BY <2>1, <2>2, MutedReads
<1>8. CASE RecvDataByte
  BY <1>1, <1>8, MutedReads DEF RecvDataByte, Processing, Reads, link
<1>9. CASE RecvDataChecksum
  <2>1. connected /\ Len(toDev) >= 2 /\ toDev' = After(toDev, 2)
    BY <1>9 DEF RecvDataChecksum, Processing, Reads
  <2>2. handshake_progress' = 0
    BY <1>1, <1>9, <2>1 DEF RecvDataChecksum, GbridgeInit, link
  <2>3. QED
    BY <2>1, <2>2, MutedReads
<1>10. CASE RecvStreamLen
  <2>1. connected /\ Len(toDev) >= 2 /\ toDev' = After(toDev, 2)
    BY <1>10 DEF RecvStreamLen, Processing, Reads
  <2>2. handshake_progress' = 0
    BY <1>1, <1>10, <2>1 DEF RecvStreamLen, GbridgeInit, link
  <2>3. QED
    BY <2>1, <2>2, MutedReads
<1>11. CASE RecvStreamByte
  BY <1>1, <1>11, MutedReads DEF RecvStreamByte, Processing, Reads, link
<1>12. CASE RecvStreamChecksum
  <2>1. connected /\ Len(toDev) >= 2 /\ toDev' = After(toDev, 2)
    BY <1>12 DEF RecvStreamChecksum, Processing, Reads
  <2>2. handshake_progress' = 0
    BY <1>1, <1>12, <2>1 DEF RecvStreamChecksum, GbridgeInit, link
  <2>3. QED
    BY <2>1, <2>2, MutedReads
<1>13. CASE Timeout
  BY <1>13, MutedStays DEF Timeout, GbridgeInit, wire
<1>14. CASE DeviceSends
  BY <1>14, MutedStays DEF DeviceSends, StartCall, link
<1>15. CASE \E length \in DebugLines : DebugLine(length)
  BY <1>15, MutedStays DEF DebugLine, link
<1>16. CASE BeginWait \/ EndDebugLine \/ EndSendData \/ EndSend
  BY <1>16, MutedStays
  DEF BeginWait, EndDebugLine, EndSendData, EndSend, WaitOver, link, wire
<1>17. CASE EndRecvData \/ EndRecvStream \/ MobileLoopReturns \/ ProtMaLoop
  <2>1. UNCHANGED <<link, wire>>
    BY <1>17, Zenon DEF EndRecvData, EndRecvStream, MobileLoopReturns, ProtMaLoop
  <2>2. QED
    BY <2>1, MutedStays DEF link, wire
<1>18. QED
  BY <1>2, <1>3, <1>4, <1>5, <1>6, <1>7, <1>8, <1>9, <1>10, <1>11, <1>12, <1>13,
     <1>14, <1>15, <1>16, <1>17
  DEF Device, DeviceOther, GbridgeLoop

\* A device that is not connected only loses what it had.
LEMMA StaysDisconnected ==
  ASSUME TypesInv, Muted, ~connected, Device \/ Timeout
  PROVE  ~connected' /\ UNCHANGED <<toPC, history>>
<1>1. ~Timeout /\ (UNCHANGED history \/ DeviceSends)
  BY DEF Timeout, Device, DeviceOther
<1>2. CASE DeviceSends
  <2>1. PICK req \in Requests : StartCall(req) /\ UNCHANGED history
    BY <1>2 DEF DeviceSends
  <2>2. UNCHANGED <<toPC, connected>>
    BY <2>1 DEF StartCall, link
  <2>3. QED
    BY <2>1, <2>2
<1>3. CASE Handshake
  BY <1>1, <1>3, HandshakeFails DEF DeviceSends
<1>4. CASE DeviceOther /\ ~Handshake
  <2>1. UNCHANGED history
    BY <1>4 DEF DeviceOther
  <2>2. CASE LoopIdle
    BY <2>1, <2>2 DEF LoopIdle, wire, link
  <2>3. CASE BeginWait \/ EndDebugLine \/ EndSendData \/ EndSend
    BY <2>1, <2>3
    DEF BeginWait, EndDebugLine, EndSendData, EndSend, WaitOver, wire, link
  <2>4. CASE EndRecvData \/ EndRecvStream \/ MobileLoopReturns \/ ProtMaLoop
    <3>1. UNCHANGED <<link, wire>>
      BY <2>4, Zenon DEF EndRecvData, EndRecvStream, MobileLoopReturns, ProtMaLoop
    <3>2. QED
      BY <2>1, <3>1 DEF link, wire
  <2>5. QED
    BY <1>4, <2>2, <2>3, <2>4
    DEF DeviceOther, GbridgeLoop, DebugLine, RecvAck, RecvReset, RecvCommand,
        ReadsCommand, RecvDataLen, RecvDataByte, RecvDataChecksum, RecvStreamLen,
        RecvStreamByte, RecvStreamChecksum, Processing
<1>5. QED
  BY <1>1, <1>2, <1>3, <1>4 DEF Device

LEMMA DeviceKeepsStage ==
  ASSUME TypesInv, Fits, CallerInv, Muted, Stage, Device \/ Timeout,
         UNCHANGED bridgeVars, DeviceSends \/ UNCHANGED history
  PROVE  Stage'
<1>1. CASE ~connected
  BY <1>1, StaysDisconnected, Disconnected
<1>2. CASE connected /\ ~DeviceSends
  <2>1. UNCHANGED history
    BY <1>2
  <2>2. CASE Timeout
    BY <2>1, <2>2, Disconnected DEF Timeout, GbridgeInit, wire
  <2>3. CASE \E length \in DebugLines : DebugLine(length)
    BY <2>1, <2>3, DebugLineKeeps
  <2>4. CASE BeginWait \/ EndDebugLine \/ EndSendData \/ EndSend
    BY <1>2, <2>1, <2>4, BeginWaitKeeps, EndDebugLineKeeps, EndSendDataKeeps,
       EndSendKeeps
  <2>5. CASE EndRecvData \/ EndRecvStream \/ MobileLoopReturns \/ ProtMaLoop
    BY <1>2, <2>1, <2>5, EndRecvDataKeeps, EndRecvStreamKeeps, IdleKeeps
  <2>6. CASE GbridgeLoop
    <3>1. ~Handshake /\ ~RecvReset
      BY <1>2, NoReset DEF Handshake
    <3>2. QED
      BY <2>1, <2>6, <3>1, RecvAckKeeps, RecvCommandKeeps, IdleKeeps,
         RecvDataLenKeeps, RecvDataByteKeeps, RecvDataChecksumKeeps,
         RecvStreamLenKeeps, RecvStreamByteKeeps, RecvStreamChecksumKeeps
      DEF GbridgeLoop
  <2>7. QED
    BY <1>2, <2>2, <2>3, <2>4, <2>5, <2>6 DEF Device, DeviceOther
<1>3. CASE connected /\ DeviceSends
  <2>1. PICK req \in Requests :
          /\ StartCall(req)
          /\ sent' = Append(sent, req) /\ served' = <<>>
    BY <1>3 DEF DeviceSends
  <2>2. QED
    BY <1>3, <2>1, StartCallKeeps DEF CallerInv
<1>4. QED
  BY <1>1, <1>2, <1>3
-----------------------------------------------------------------------------
(***************************************************************************)
(* The steps of the bridge that only read.                                 *)
(***************************************************************************)
\* The bridge does not write and executes nothing: the device's half of a stage
\* stays, and what the bridge knows of it.
LEMMA BridgeMoves ==
  ASSUME Stage, UNCHANGED <<deviceVars, toDev, history, bres>>,
         Gone => Gone', ~Gone => UNCHANGED sockets,
         BridgeRests(<<>>) => BridgeRests(<<>>)',
         \A n \in DebugLines : BridgeAtDebug(n) => BridgeAtDebug(n)',
         \A req \in Requests :
           /\ BridgeAtData(req) => BridgeAtData(req)'
           /\ BridgeAtGot(req) => BridgeAtGot(req)'
           /\ BridgeAtStream(req) => BridgeAtStream(req)'
           /\ BridgeAtCall(req) => BridgeAtCall(req)'
           /\ BridgeAtReplying(req) => BridgeAtReplying(req)'
           /\ \A val \in B!SocketValues :
                Executed(req, val) /\ More(req, val) /\ BridgeAtReplied(req) =>
                  BridgeAtReplied(req)'
           /\ BridgeAtStreaming(req) => BridgeAtStreaming(req)'
  PROVE  Stage'
<1>1. /\ UNCHANGED <<connected, handshake_progress, waiting_cmd, data_len, data,
                     data_size, data_ready, stream_max_size, stream_size, stream,
                     processing_cmd, processing_cmd_state, wait_for, call, res,
                     open, pc>>
      /\ UNCHANGED <<sent, served, toDev, bres>>
  BY DEF deviceVars, link, packet, streaming, processing, caller, history
<1>2. LastSent' = LastSent
  BY <1>1 DEF LastSent
<1>3. \A bytes : BridgeRests(bytes) => ~Gone
  BY DEF BridgeRests, Gone
<1>4. \A n : BridgeAtDebug(n) => ~Gone
  BY <1>3 DEF BridgeAtDebug, BridgeInDebug, BridgeListens, Gone
<1>5. \A req : BridgeAtData(req) \/ BridgeAtCall(req) => ~Gone
  BY <1>3
  DEF BridgeAtData, BridgeInData, BridgeAtCall, BridgeHas, BridgeListens, Gone
<1>6. \A req : BridgeAtReplying(req) \/ BridgeAtReplied(req)
                 \/ BridgeAtStreaming(req) => ~Gone
  BY DEF BridgeAtReplying, BridgeAtReplied, BridgeAtStreaming, BridgeWaits, Gone
<1>7. \A cmd : Asked(cmd)' = Asked(cmd) /\ Told(cmd)' = Told(cmd)
  BY <1>1 DEF Asked, Told, Settled
<1>8. Expects' = Expects /\ DeviceIdle' = DeviceIdle
  BY <1>1 DEF Expects, DeviceIdle, Settled
<1>9. CASE Rest
  <2>1. UNCHANGED sockets
    BY <1>3, <1>9 DEF Rest
  <2>2. DeviceAtRest => DeviceAtRest'
    BY <1>1, <1>7, <1>8, <2>1 DEF DeviceAtRest
  <2>3. QED
    BY <1>1, <1>9, <2>2 DEF Rest, Stage
<1>10. CASE \E n \in DebugLines : Debug(n)
  <2>1. PICK n \in DebugLines : Debug(n)
    BY <1>10
  <2>2. UNCHANGED sockets
    BY <1>4, <2>1 DEF Debug
  <2>3. DeviceAtDebug => DeviceAtDebug'
    BY <1>1, <1>7, <2>2 DEF DeviceAtDebug
  <2>4. Debug(n)'
    BY <1>1, <2>1, <2>3 DEF Debug
  <2>5. QED
    BY <2>4 DEF Stage
<1>11. ASSUME NEW req \in Requests, req = LastSent, Asking(req)
       PROVE  Stage'
  <2>1. CASE Data(req)
    <3>1. UNCHANGED sockets
      BY <1>5, <2>1 DEF Data
    <3>2. Data(req)'
      BY <1>1, <1>7, <2>1, <3>1 DEF Data, DeviceAtData
    <3>3. QED
      BY <1>2, <1>11, <3>2 DEF Stage, Asking
  <2>2. CASE Got(req)
    <3>1. DeviceAtGot(req) => DeviceAtGot(req)'
      BY <1>1, <1>7, <1>8 DEF DeviceAtGot
    <3>2. Got(req)'
      BY <1>1, <2>2, <3>1 DEF Got
    <3>3. QED
      BY <1>2, <1>11, <3>2 DEF Stage, Asking
  <2>3. CASE SendsStream(req)
    <3>1. DeviceAtStream => DeviceAtStream'
      BY <1>1, <1>7 DEF DeviceAtStream
    <3>2. SendsStream(req)'
      BY <1>1, <2>3, <3>1 DEF SendsStream
    <3>3. QED
      BY <1>2, <1>11, <3>2 DEF Stage, Asking
  <2>4. CASE Call(req)
    <3>1. UNCHANGED sockets
      BY <1>5, <2>4 DEF Call
    <3>2. Call(req)'
      BY <1>1, <1>7, <1>8, <2>4, <3>1 DEF Call, DeviceAtCall
    <3>3. QED
      BY <1>2, <1>11, <3>2 DEF Stage, Asking
  <2>5. QED
    BY <1>11, <2>1, <2>2, <2>3, <2>4 DEF Asking
<1>12. ASSUME NEW req \in Requests, req = LastSent,
              NEW val \in B!SocketValues, Answering(req, val)
       PROVE  Stage'
  <2>1. UNCHANGED sockets
    BY <1>3, <1>6, <1>12 DEF Answering, Replying, Replied, Streaming, Done
  <2>2. Executed(req, val) /\ Executed(req, val)'
    BY <1>1, <1>12
    DEF Answering, Replying, Replied, Streaming, Done, Executed, Possible
  <2>3. WillAgree(req, val)' = WillAgree(req, val)
    BY <1>1, <2>1 DEF WillAgree
  <2>4. \A reply : InReply(reply)' = InReply(reply) /\ HasReply(reply)' = HasReply(reply)
    BY <1>1 DEF InReply, HasReply
  <2>5. /\ \A content : InAnswer(content)' = InAnswer(content)
        /\ WantsStream(val)' = WantsStream(val) /\ HasStream(val)' = HasStream(val)
    BY <1>1 DEF InAnswer, WantsStream, HasStream, Settled
  <2>6. Replies(req, val)' = Replies(req, val)
    BY <2>4 DEF Replies
  <2>7. DeviceAtReplying(req, val) => DeviceAtReplying(req, val)'
    BY <1>1, <1>7, <1>8, <2>3, <2>4 DEF DeviceAtReplying, DeviceWaits
  <2>8. /\ DeviceAtReplied(req, val) => DeviceAtReplied(req, val)'
        /\ DeviceAtStreaming(req, val) => DeviceAtStreaming(req, val)'
        /\ DeviceAtDone(req, val) => DeviceAtDone(req, val)'
    BY <1>1, <2>3, <2>5, <2>6
    DEF DeviceAtReplied, DeviceAtStreaming, DeviceAtDone
  <2>9. Answering(req, val)'
    BY <1>1, <1>12, <2>2, <2>7, <2>8
    DEF Answering, Replying, Replied, Streaming, Done, More
  <2>10. QED
    BY <1>2, <1>12, <2>9 DEF Stage, B!SocketValues
<1>13. QED
  BY <1>9, <1>10, <1>11, <1>12 DEF Stage

LEMMA RestMoves ==
  ASSUME Fits, Stage, UNCHANGED <<deviceVars, toDev, history, bres, sockets>>, ~Gone,
         \A bytes \in Seq(Byte) : BridgeRests(bytes) => BridgeRests(bytes)',
         \A n \in DebugLines : ~BridgeInDebug(n),
         \A req \in Requests :
           /\ ~BridgeInData(Payload(req))
           /\ ~BridgeAtGot(req) /\ ~BridgeAtStream(req) /\ ~BridgeAtCall(req)
           /\ BridgeAtReplying(req) => BridgeAtReplying(req)'
           /\ \A val \in B!SocketValues :
                Executed(req, val) /\ More(req, val) /\ BridgeAtReplied(req) =>
                  BridgeAtReplied(req)'
           /\ BridgeAtStreaming(req) => BridgeAtStreaming(req)'
  PROVE  Stage'
<1>1. BridgeRests(<<>>) => BridgeRests(<<>>)'
  <2>1. <<>> \in Seq(Byte)
    OBVIOUS
  <2>2. QED
    BY <2>1
<1>2. ASSUME NEW n \in DebugLines, BridgeAtDebug(n) PROVE BridgeAtDebug(n)'
  <2>1. BridgeRests(DebugFrame(Content(n))) /\ DebugFrame(Content(n)) \in Seq(Byte)
    BY <1>2, FramesAre DEF BridgeAtDebug
  <2>2. QED
    BY <2>1 DEF BridgeAtDebug
<1>3. ASSUME NEW req \in Requests, BridgeAtData(req) PROVE BridgeAtData(req)'
  <2> DEFINE frame == DataFrame(GBRIDGE_CMD_DATA, Payload(req))
  <2>1. BridgeRests(frame) /\ Pending(req) /\ frame \in Seq(Byte)
    BY <1>3, FramesAre DEF BridgeAtData
  <2>2. Pending(req)'
    BY <2>1 DEF Pending, history
  <2>3. QED
    BY <2>1, <2>2 DEF BridgeAtData
<1>4. QED
  BY <1>1, <1>2, <1>3, BridgeMoves

LEMMA BridgeKnows ==
  ASSUME TypesInv
  PROVE  /\ toPC \in Seq(Byte) /\ toDev \in Seq(Byte) /\ bhandshake_progress \in 0..3
         /\ bdata \in Seq(Byte) /\ bstream \in Seq(Byte)
         /\ Counts
BY SameWire DEF TypesInv, BridgeOK, BridgeInv, B!BridgeTypeOK

LEMMA HandshakeByteKeeps ==
  ASSUME TypesInv, Fits, Stage, B!HandshakeByte,
         UNCHANGED <<deviceVars, history>>
  PROVE  Stage'
<1> DEFINE p == bhandshake_progress
           heard == HeardOf(p)
           c == Head(toPC)
           rest == After(toPC, 1)
<1>1. /\ bpc = "handshake_read" /\ Len(toPC) >= 1 /\ toPC' = rest
      /\ LET progress == IF c = GBRIDGE_HANDSHAKE[p + 1] THEN p + 1
                         ELSE IF c = GBRIDGE_HANDSHAKE[1] THEN 1 ELSE 0
         IN /\ bconnected' = (progress = Len(GBRIDGE_HANDSHAKE))
            /\ bhandshake_progress' = IF bconnected' THEN 0 ELSE progress
      /\ bpc' = IF bconnected' THEN "gbridge_loop" ELSE bpc
      /\ UNCHANGED <<toDev, bwaiting_cmd, bdata_ready, bres, sockets>>
  BY SameWire, SameCodes DEF B!HandshakeByte, B!Reads, B!packet, B!handler
<1>2. /\ p \in 0..3 /\ toPC \in Seq(Byte) /\ heard \in Seq(Byte) /\ Len(heard) = p
  <2>1. p \in 0..3 /\ p \in 0..4 /\ toPC \in Seq(Byte)
    BY BridgeKnows
  <2>2. heard \in Seq(Byte) /\ Len(heard) = p
    BY <2>1, HeardIs, Zenon
  <2>3. QED
    BY <2>1, <2>2
<1>3. /\ c \in Byte /\ Append(heard, c) \o rest = heard \o toPC
      /\ Append(heard, c) \in Seq(Byte) /\ rest \in Seq(Byte)
      /\ Len(Append(heard, c)) = p + 1 /\ Append(heard, c)[p + 1] = c
  <2>1. Append(heard, c) \o rest = heard \o toPC /\ rest \in Seq(Byte)
        /\ Append(heard, c) \in Seq(Byte)
    BY <1>1, <1>2, MoveByte
  <2>2. c \in Byte
    BY <1>1, <1>2
  <2> HIDE DEF heard, c
  <2>3. Len(Append(heard, c)) = p + 1 /\ Append(heard, c)[p + 1] = c
    BY <1>2, <2>2
  <2>4. QED
    BY <2>1, <2>2, <2>3
<1>4. ASSUME NEW bytes \in Seq(Byte), BridgeRests(bytes)
      PROVE  BridgeRests(bytes)'
  <2>1. /\ ~bconnected /\ bwaiting_cmd = GBRIDGE_CMD_NONE /\ ~bdata_ready
        /\ heard \o toPC = GBRIDGE_HANDSHAKE \o bytes
    BY <1>1, <1>4 DEF BridgeRests
  <2> HIDE DEF c, p
  <2> DEFINE shake == GBRIDGE_HANDSHAKE
             more == Append(heard, c)
  <2>2. shake \in Seq(Byte) /\ Len(shake) = 4
    BY HeardIs
  <2>3. more = HeardOf(p + 1) <=> c = shake[p + 1]
    <3>1. Append(heard, shake[p + 1]) = HeardOf(p + 1)
      BY <1>2, HeardMore
    <3>2. more[p + 1] = c /\ Append(heard, shake[p + 1])[p + 1] = shake[p + 1]
      <4> HIDE DEF heard, shake, p, c
      <4>1. shake[p + 1] \in Byte
        <5>1. p + 1 \in 1..4
          BY <1>2
        <5>2. shake \in Seq(Byte) /\ p + 1 \in 1..Len(shake)
          BY <2>2, <5>1
        <5>3. QED
          BY <5>2
      <4>2. QED
        BY <1>2, <1>3, <4>1
    <3>3. QED
      BY <3>1, <3>2
  <2> HIDE DEF shake, heard, c, rest, p
  <2>4. c = shake[p + 1]
    <3>1. more \o rest = shake \o bytes
      BY <1>3, <2>1 DEF shake
    <3>2. (more \o rest)[p + 1] = more[p + 1]
      <4>1. p + 1 \in 1..Len(more)
        BY <1>2, <1>3
      <4>2. QED
        BY <1>3, <4>1, BytesJoined
    <3>3. (shake \o bytes)[p + 1] = shake[p + 1]
      <4>1. p + 1 \in 1..Len(shake)
        BY <1>2, <2>2
      <4>2. QED
        BY <2>2, <4>1, BytesJoined
    <3>4. QED
      BY <1>3, <3>1, <3>2, <3>3
  <2>5. HeardOf(p + 1) \o toPC' = shake \o bytes
    BY <1>1, <1>3, <2>1, <2>3, <2>4 DEF shake
  <2>6. CASE p = 3
    <3>1. bconnected' /\ bpc' = "gbridge_loop"
      <4>1. p + 1 = Len(shake)
        BY <2>2, <2>6
      <4>2. QED
        BY <1>1, <2>4, <4>1 DEF shake, c, p
    <3>2. more \in Seq(Byte) /\ Len(more) = 4 /\ more \o rest = shake \o bytes
      BY <1>3, <2>1, <2>6 DEF shake
    <3>3. rest = bytes
      <4> HIDE DEF more
      <4>1. QED
        BY <1>3, <2>2, <3>2, SameSplit
    <3>4. QED
      BY <1>1, <2>1, <3>1, <3>3 DEF BridgeRests
  <2>7. CASE p # 3
    <3>1. p + 1 # 4
      BY <1>2, <2>7
    <3>2. ~bconnected' /\ bhandshake_progress' = p + 1 /\ bpc' = bpc
      BY <1>1, <2>2, <2>4, <3>1 DEF shake, c, p
    <3>3. QED
      BY <1>1, <2>1, <2>5, <3>2 DEF BridgeRests, shake
  <2>8. QED
    BY <2>6, <2>7
<1>5. /\ ~Gone /\ \A n : ~BridgeInDebug(n)
      /\ \A req : /\ ~BridgeInData(Payload(req))
                  /\ ~BridgeAtGot(req) /\ ~BridgeAtStream(req) /\ ~BridgeAtCall(req)
                  /\ ~BridgeAtReplying(req) /\ ~BridgeAtReplied(req)
                  /\ ~BridgeAtStreaming(req)
  BY <1>1
  DEF Gone, BridgeInDebug, BridgeInData, BridgeAtGot, BridgeAtStream, BridgeInStream,
      BridgeAtCall, BridgeAtReplying, BridgeAtReplied, BridgeAtStreaming, BridgeWaits
<1>6. QED
  BY <1>1, <1>4, <1>5, RestMoves

LEMMA BridgeIdleKeeps ==
  ASSUME TypesInv, Fits, Stage, B!LoopIdle \/ B!ProtMaLoop,
         UNCHANGED <<deviceVars, history>>
  PROVE  Stage'
<1>1. /\ UNCHANGED <<toPC, toDev, bconnected, bwaiting_cmd, bres, sockets, bwait_for>>
      /\ \/ bpc = "gbridge_loop" /\ bconnected /\ bpc' = "gbridge_prot_ma_loop"
            /\ UNCHANGED bdata_ready
         \/ /\ bpc = "gbridge_prot_ma_loop" /\ bpc' = "gbridge_loop"
            /\ ~bdata_ready \/ ~B!WellFormed(bdata)
            /\ bdata_ready' = FALSE
  BY DEF B!LoopIdle, B!ProtMaLoop, B!InGbridgeLoop, B!LoopReturns, B!wire, B!link,
     B!packet, B!handler
<1>2. ASSUME NEW bytes \in Seq(Byte), BridgeRests(bytes)
      PROVE  BridgeRests(bytes)'
  BY <1>1, <1>2 DEF BridgeRests
<1>3. \A req \in Requests : bpc = "gbridge_prot_ma_loop" => ~BridgeHas(Payload(req))
  BY <1>1, RequestIs DEF BridgeHas
<1>4. /\ ~Gone /\ \A n : ~BridgeInDebug(n)
      /\ \A req \in Requests :
           /\ ~BridgeInData(Payload(req))
           /\ ~BridgeAtGot(req) /\ ~BridgeAtStream(req) /\ ~BridgeAtCall(req)
           /\ ~BridgeAtReplying(req) /\ ~BridgeAtReplied(req)
           /\ ~BridgeAtStreaming(req)
  BY <1>1, <1>3
  DEF Gone, BridgeInDebug, BridgeInData, BridgeAtGot, BridgeAtStream, BridgeInStream,
      BridgeAtCall, BridgeAtReplying, BridgeAtReplied, BridgeAtStreaming, BridgeWaits
<1>5. QED
  BY <1>1, <1>2, <1>4, RestMoves

\* The bridge reads an acknowledgement, and it is the one it waits for.
LEMMA BridgeAckKeeps ==
  ASSUME TypesInv, Fits, Stage, B!RecvAck, UNCHANGED <<deviceVars, history>>
  PROVE  Stage'
<1>1. /\ bconnected /\ Len(toPC) >= 1 /\ toPC' = After(toPC, 1)
      /\ bpc = "gbridge_loop" \/ (bpc = "wait_cmd" /\ bwaiting_cmd = bwait_for)
      /\ bwaiting_cmd # GBRIDGE_CMD_NONE
      /\ bwaiting_cmd' = IF Head(toPC) = Reply(bwaiting_cmd)
                         THEN GBRIDGE_CMD_NONE ELSE bwaiting_cmd
      /\ bpc = "wait_cmd" => bpc' = bpc
      /\ UNCHANGED <<toDev, bconnected, bdata, bdata_ready, bwait_for, bres, sockets>>
  BY SameWire, SameCodes
  DEF B!RecvAck, B!InGbridgeLoop, B!Reads, B!LoopReturns, B!packet, B!handler
<1>2. toPC \in Seq(Byte) /\ toPC # <<>>
  BY <1>1, BridgeKnows
<1>3. ASSUME NEW cmd \in {GBRIDGE_CMD_DATA_PC, GBRIDGE_CMD_STREAM_PC},
             NEW bytes \in Seq(Byte), bwaiting_cmd = cmd,
             toPC = <<Reply(cmd)>> \o bytes
      PROVE  bwaiting_cmd' = GBRIDGE_CMD_NONE /\ toPC' = bytes
  <2>1. Reply(cmd) \in Byte
    BY CommandType
  <2>2. Head(toPC) = Reply(cmd) /\ After(toPC, 1) = bytes
    BY <1>3, <2>1, OneThenRest
  <2>3. QED
    BY <1>1, <1>3, <2>2
<1>4. ASSUME NEW bytes \in Seq(Byte), BridgeRests(bytes)
      PROVE  BridgeRests(bytes)'
  <2>1. /\ bpc = "wait_cmd" /\ LastWait
        /\ bwaiting_cmd = bwait_for /\ toPC = <<Reply(bwait_for)>> \o bytes
    BY <1>1, <1>4 DEF BridgeRests
  <2>2. bwaiting_cmd' = GBRIDGE_CMD_NONE /\ toPC' = bytes
    BY <1>3, <2>1 DEF LastWait
  <2>3. QED
    BY <1>1, <2>1, <2>2 DEF BridgeRests, LastWait
<1>5. ASSUME NEW req \in Requests, BridgeAtReplied(req)
      PROVE  BridgeAtReplied(req)'
  <2>1. /\ bwaiting_cmd = GBRIDGE_CMD_DATA_PC /\ bpc = "wait_cmd"
        /\ toPC = <<Reply(GBRIDGE_CMD_DATA_PC)>>
    BY <1>1, <1>5 DEF BridgeAtReplied, BridgeWaits
  <2>2. <<Reply(GBRIDGE_CMD_DATA_PC)>> = <<Reply(GBRIDGE_CMD_DATA_PC)>> \o <<>>
        /\ <<>> \in Seq(Byte)
    OBVIOUS
  <2>3. bwaiting_cmd' = GBRIDGE_CMD_NONE /\ toPC' = <<>>
    BY <1>3, <2>1, <2>2
  <2>4. QED
    BY <1>1, <1>5, <2>1, <2>3 DEF BridgeAtReplied, BridgeWaits
<1>6. /\ ~Gone /\ \A n : ~BridgeInDebug(n)
      /\ \A req \in Requests :
           /\ ~BridgeInData(Payload(req))
           /\ ~BridgeAtGot(req) /\ ~BridgeAtStream(req) /\ ~BridgeAtCall(req)
           /\ ~BridgeAtReplying(req) /\ ~BridgeAtStreaming(req)
  BY <1>1, <1>2
  DEF Gone, BridgeInDebug, BridgeInData, BridgeAtGot, BridgeAtStream, BridgeInStream,
      BridgeAtCall, BridgeAtReplying, BridgeAtStreaming, BridgeWaits, BridgeHas
<1>7. QED
  BY <1>1, <1>4, <1>5, <1>6, RestMoves

LEMMA EndWaitKeeps ==
  ASSUME TypesInv, Fits, Stage, B!EndWait, UNCHANGED <<deviceVars, history>>
  PROVE  Stage'
<1>1. /\ bpc = "wait_cmd" /\ bwaiting_cmd # bwait_for
      /\ ~(bwait_for = GBRIDGE_CMD_DATA_PC /\ bdata[1] = RECV /\ bres > 0)
      /\ ~bdata_ready' /\ bpc' = "gbridge_loop"
      /\ UNCHANGED <<toPC, toDev, bconnected, bwaiting_cmd, bres, sockets>>
  BY SameWire, SameCodes DEF B!EndWait, B!wire, B!link, B!handler
<1>2. ASSUME NEW bytes \in Seq(Byte), BridgeRests(bytes)
      PROVE  BridgeRests(bytes)'
  BY <1>1, <1>2 DEF BridgeRests
<1>3. \A req \in Requests, val \in B!SocketValues :
        ~(Executed(req, val) /\ More(req, val) /\ BridgeAtReplied(req))
  BY <1>1, RequestIs DEF Executed, More, BridgeAtReplied, BridgeWaits
<1>4. /\ ~Gone /\ \A n : ~BridgeInDebug(n)
      /\ \A req \in Requests :
           /\ ~BridgeInData(Payload(req))
           /\ ~BridgeAtGot(req) /\ ~BridgeAtStream(req) /\ ~BridgeAtCall(req)
           /\ ~BridgeAtReplying(req) /\ ~BridgeAtStreaming(req)
  BY <1>1
  DEF Gone, BridgeInDebug, BridgeInData, BridgeAtGot, BridgeAtStream, BridgeInStream,
      BridgeAtCall, BridgeAtReplying, BridgeAtStreaming, BridgeWaits
<1>5. QED
  BY <1>1, <1>2, <1>3, <1>4, RestMoves
-----------------------------------------------------------------------------
\* The bridge is in one of these places.
LEMMA BridgePlaces ==
  ASSUME Stage
  PROVE  \/ BridgeRests(<<>>)
         \/ \E n \in DebugLines : BridgeAtDebug(n)
         \/ \E req \in Requests :
              \/ BridgeAtData(req) \/ BridgeAtGot(req) \/ BridgeAtStream(req)
              \/ BridgeAtCall(req) \/ BridgeAtReplying(req)
              \/ BridgeAtReplied(req) \/ BridgeAtStreaming(req)
BY DEF Stage, Rest, Debug, Asking, Data, Got, SendsStream, Call, Answering,
   Replying, Replied, Streaming, Done

\* Where it reads a command, and what the command may be.
LEMMA CommandRead ==
  ASSUME TypesInv, Fits, B!ReadsCommand
  PROVE  /\ bconnected /\ bwaiting_cmd = GBRIDGE_CMD_NONE
         /\ Len(toPC) >= 1 /\ toPC' = After(toPC, 1)
         /\ ~Gone /\ ~BridgeRests(<<>>)
         /\ \A n \in DebugLines : BridgeAtDebug(n) =>
              /\ bpc = "gbridge_loop" /\ ~bdata_ready
              /\ Head(toPC) = GBRIDGE_CMD_DEBUG_LINE
              /\ After(toPC, 1) = <<n>> \o Content(n)
         /\ \A req \in Requests :
              /\ BridgeAtData(req) =>
                   /\ bpc = "gbridge_loop" /\ ~bdata_ready
                   /\ Head(toPC) = GBRIDGE_CMD_DATA
                   /\ After(toPC, 1) = <<Len(Payload(req))>> \o Checked(Payload(req))
              /\ ~BridgeAtGot(req) /\ ~BridgeAtStream(req) /\ ~BridgeAtCall(req)
              /\ ~BridgeAtReplying(req) /\ ~BridgeAtReplied(req)
              /\ ~BridgeAtStreaming(req)
<1>1. /\ bconnected /\ bwaiting_cmd = GBRIDGE_CMD_NONE
      /\ Len(toPC) >= 1 /\ toPC' = After(toPC, 1)
      /\ bpc = "gbridge_loop" \/ (bpc = "wait_cmd" /\ bwaiting_cmd = bwait_for)
  BY SameWire, SameCodes DEF B!ReadsCommand, B!InGbridgeLoop, B!Reads
<1>2. toPC # <<>>
  BY <1>1, BridgeKnows
<1>3. ASSUME NEW bytes, BridgeRests(bytes)
      PROVE  bpc = "gbridge_loop" /\ ~bdata_ready /\ toPC = bytes
  BY <1>1, <1>3 DEF BridgeRests, LastWait, GBRIDGE_CMD_NONE, GBRIDGE_CMD_STREAM_PC,
     GBRIDGE_CMD_DATA_PC
<1>4. ~BridgeRests(<<>>)
  BY <1>2, <1>3
<1>5. ASSUME NEW n \in DebugLines, BridgeAtDebug(n)
      PROVE  /\ bpc = "gbridge_loop" /\ ~bdata_ready
             /\ Head(toPC) = GBRIDGE_CMD_DEBUG_LINE
             /\ After(toPC, 1) = <<n>> \o Content(n)
  <2>1. ~BridgeInDebug(n)
    BY <1>1 DEF BridgeInDebug
  <2>2. bpc = "gbridge_loop" /\ ~bdata_ready /\ toPC = DebugFrame(Content(n))
    BY <1>3, <1>5, <2>1 DEF BridgeAtDebug
  <2>3. n \in Nat /\ n <= 255
    BY DeviceAssumption DEF DeviceAssumption, Byte
  <2>4. Content(n) \in Seq(Byte) /\ Len(Content(n)) = n
    BY <2>3, ContentType
  <2> DEFINE rest == <<n>> \o Content(n)
  <2>5. toPC = <<GBRIDGE_CMD_DEBUG_LINE>> \o rest /\ rest \in Seq(Byte)
    BY <2>2, <2>3, <2>4, DebugFrameIs
  <2> HIDE DEF rest
  <2>6. Head(toPC) = GBRIDGE_CMD_DEBUG_LINE /\ After(toPC, 1) = rest
    BY <2>5, CommandType, OneThenRest
  <2>7. QED
    BY <2>2, <2>6 DEF rest
<1>6. ASSUME NEW req \in Requests, BridgeAtData(req)
      PROVE  /\ bpc = "gbridge_loop" /\ ~bdata_ready
             /\ Head(toPC) = GBRIDGE_CMD_DATA
             /\ After(toPC, 1) = <<Len(Payload(req))>> \o Checked(Payload(req))
  <2>1. ~BridgeInData(Payload(req))
    BY <1>1 DEF BridgeInData
  <2>2. /\ bpc = "gbridge_loop" /\ ~bdata_ready
        /\ toPC = DataFrame(GBRIDGE_CMD_DATA, Payload(req))
    BY <1>3, <1>6, <2>1 DEF BridgeAtData
  <2> DEFINE m == Len(Payload(req))
             rest == <<m>> \o Checked(Payload(req))
  <2>3. Payload(req) \in Seq(Byte) /\ m <= 255
    <3>1. m \in 2..21 /\ Payload(req) \in Seq(Byte)
      BY RequestIs
    <3> HIDE DEF m
    <3>2. QED
      BY <3>1
  <2>4. toPC = <<GBRIDGE_CMD_DATA>> \o rest /\ rest \in Seq(Byte)
    BY <2>2, <2>3, CommandType, DataFrameIs
  <2> HIDE DEF rest
  <2>5. Head(toPC) = GBRIDGE_CMD_DATA /\ After(toPC, 1) = rest
    BY <2>4, CommandType, OneThenRest
  <2>6. QED
    BY <2>2, <2>5 DEF rest
<1>7. \A req \in Requests :
        /\ ~BridgeAtGot(req) /\ ~BridgeAtStream(req) /\ ~BridgeAtCall(req)
        /\ ~BridgeAtReplying(req) /\ ~BridgeAtReplied(req) /\ ~BridgeAtStreaming(req)
  BY <1>1
  DEF BridgeAtGot, BridgeAtStream, BridgeInStream, BridgeAtCall, BridgeAtReplying,
      BridgeAtReplied, BridgeAtStreaming, BridgeWaits, BridgeHas, Gone,
      GBRIDGE_CMD_NONE, GBRIDGE_CMD_STREAM_PC, GBRIDGE_CMD_DATA_PC
<1>8. ~Gone
  BY <1>1 DEF Gone
<1>9. QED
  BY <1>1, <1>4, <1>5, <1>6, <1>7, <1>8

LEMMA NothingUnknown ==
  ASSUME TypesInv, Fits, Stage
  PROVE  ~B!RecvUnknown
<1>1. SUFFICES ASSUME B!RecvUnknown PROVE FALSE
  OBVIOUS
<1>2. /\ B!ReadsCommand
      /\ Head(toPC) \notin {GBRIDGE_CMD_DEBUG_LINE, GBRIDGE_CMD_DATA}
  BY <1>1, SameCodes DEF B!RecvUnknown
<1>3. QED
  BY <1>2, CommandRead, BridgePlaces

LEMMA RecvDebugLineKeeps ==
  ASSUME TypesInv, Fits, Stage, B!RecvDebugLine, UNCHANGED <<deviceVars, history>>
  PROVE  Stage'
<1>1. /\ B!ReadsCommand /\ Head(toPC) = GBRIDGE_CMD_DEBUG_LINE
      /\ bpc' = "debug_line_length"
      /\ UNCHANGED <<toDev, bconnected, bwaiting_cmd, bdata_ready, bres, sockets>>
  BY SameCodes
  DEF B!RecvDebugLine, B!ReadsCommand, B!Recv, B!link, B!packet, B!handler
<1>2. ASSUME NEW n \in DebugLines, BridgeAtDebug(n) PROVE BridgeAtDebug(n)'
  BY <1>1, <1>2, CommandRead DEF BridgeAtDebug, BridgeInDebug, BridgeListens
<1>3. ASSUME NEW req \in Requests, BridgeAtData(req) PROVE FALSE
  <2>1. Head(toPC) = GBRIDGE_CMD_DATA
    BY <1>1, <1>3, CommandRead
  <2>2. QED
    BY <1>1, <2>1 DEF GBRIDGE_CMD_DATA, GBRIDGE_CMD_DEBUG_LINE
<1>4. QED
  BY <1>1, <1>2, <1>3, CommandRead, BridgeMoves

LEMMA BridgeRecvDataKeeps ==
  ASSUME TypesInv, Fits, Stage, B!RecvData, UNCHANGED <<deviceVars, history>>
  PROVE  Stage'
<1>1. B!ReadsCommand /\ Head(toPC) = GBRIDGE_CMD_DATA
  BY SameCodes DEF B!RecvData
<1>2. ASSUME NEW n \in DebugLines, BridgeAtDebug(n) PROVE FALSE
  <2>1. Head(toPC) = GBRIDGE_CMD_DEBUG_LINE
    BY <1>1, <1>2, CommandRead
  <2>2. QED
    BY <1>1, <2>1 DEF GBRIDGE_CMD_DATA, GBRIDGE_CMD_DEBUG_LINE
<1>3. ~bdata_ready
  BY <1>1, <1>2, CommandRead, BridgePlaces
<1>4. /\ bpc' = "data_size"
      /\ UNCHANGED <<toDev, bconnected, bwaiting_cmd, bdata_ready, bres, sockets>>
  BY <1>1, <1>3 DEF B!RecvData, B!ReadsCommand, B!Recv, B!link, B!packet, B!handler
<1>5. ASSUME NEW req \in Requests, BridgeAtData(req) PROVE BridgeAtData(req)'
  <2>1. Pending(req)'
    BY <1>4, <1>5 DEF BridgeAtData, Pending, history
  <2>2. toPC' = <<Len(Payload(req))>> \o Checked(Payload(req))
    BY <1>1, <1>5, CommandRead
  <2>3. QED
    BY <1>1, <1>3, <1>4, <2>1, <2>2, CommandRead
    DEF BridgeAtData, BridgeInData, BridgeListens
<1>6. QED
  BY <1>1, <1>2, <1>4, <1>5, CommandRead, BridgeMoves

LEMMA DebugLineLengthKeeps ==
  ASSUME TypesInv, Fits, Stage, B!DebugLineLength, UNCHANGED <<deviceVars, history>>
  PROVE  Stage'
<1>1. /\ bpc = "debug_line_length" /\ Len(toPC) >= bcount
      /\ toPC' = After(toPC, bcount)
      /\ bpc' = "debug_line_string" /\ bcount' = Head(toPC)
      /\ UNCHANGED <<toDev, bconnected, bwaiting_cmd, bdata_ready, bres, sockets>>
  BY SameWire
  DEF B!DebugLineLength, B!Received, B!Reads, B!Recv, B!link, B!packet, B!handler
<1>2. bcount = 1
  BY <1>1, BridgeKnows DEF Counts
<1>3. ASSUME NEW n \in DebugLines, BridgeAtDebug(n) PROVE BridgeAtDebug(n)'
  <2>1. BridgeInDebug(n) /\ toPC = <<n>> \o Content(n)
    BY <1>1, <1>3 DEF BridgeAtDebug, BridgeRests, BridgeInDebug
  <2>2. n \in Byte /\ n \in Nat
    BY DeviceAssumption DEF DeviceAssumption, Byte
  <2>3. Head(toPC) = n /\ After(toPC, 1) = Content(n)
    BY <2>1, <2>2, ContentType, OneThenRest
  <2>4. QED
    BY <1>1, <1>2, <2>1, <2>3 DEF BridgeAtDebug, BridgeInDebug, BridgeListens
<1>4. /\ ~Gone /\ ~BridgeRests(<<>>)
      /\ \A req \in Requests :
           /\ ~BridgeAtData(req) /\ ~BridgeAtGot(req) /\ ~BridgeAtStream(req)
           /\ ~BridgeAtCall(req) /\ ~BridgeAtReplying(req) /\ ~BridgeAtReplied(req)
           /\ ~BridgeAtStreaming(req)
  BY <1>1
  DEF Gone, BridgeRests, BridgeAtData, BridgeInData, BridgeAtGot, BridgeAtStream,
      BridgeInStream, BridgeAtCall, BridgeAtReplying, BridgeAtReplied,
      BridgeAtStreaming, BridgeWaits
<1>5. QED
  BY <1>1, <1>3, <1>4, BridgeMoves

LEMMA DataSizeKeeps ==
  ASSUME TypesInv, Fits, Stage, B!DataSize \/ B!DataBuffer,
         UNCHANGED <<deviceVars, history>>
  PROVE  Stage'
<1>1. /\ Len(toPC) >= bcount /\ toPC' = After(toPC, bcount)
      /\ \/ bpc = "data_size" /\ bpc' = "data_buffer" /\ bcount' = Head(toPC)
         \/ /\ bpc = "data_buffer" /\ bpc' = "data_checksum"
            /\ bdata' = SubSeq(toPC, 1, bcount)
      /\ UNCHANGED <<toDev, bconnected, bwaiting_cmd, bdata_ready, bres, sockets>>
  BY SameWire
  DEF B!DataSize, B!DataBuffer, B!Received, B!Reads, B!Recv, B!link, B!packet,
      B!handler
<1>2. bpc = "data_size" => bcount = 1
  BY BridgeKnows DEF Counts
<1>3. ASSUME NEW req \in Requests, BridgeAtData(req) PROVE BridgeAtData(req)'
  <2>1. BridgeInData(Payload(req)) /\ Pending(req)
    BY <1>1, <1>3 DEF BridgeAtData, BridgeRests
  <2>2. Pending(req)'
    BY <1>1, <2>1 DEF Pending, history
  <2> DEFINE request == Payload(req)
             m == Len(request)
  <2>3. request \in Seq(Byte) /\ m \in Byte
    <3>1. request \in Seq(Byte) /\ m \in 2..21
      BY RequestIs
    <3> HIDE DEF m
    <3>2. QED
      BY <3>1 DEF Byte
  <2>4. Checked(request) \in Seq(Byte) /\ SubSeq(Checked(request), 1, m) = request
        /\ After(Checked(request), m) = Be16(ChecksumData(request))
    BY <2>3, CheckedType
  <2>5. CASE bpc = "data_size"
    <3>1. toPC = <<m>> \o Checked(request)
      BY <2>1, <2>5 DEF BridgeInData
    <3> HIDE DEF m
    <3>2. Head(toPC) = m /\ After(toPC, 1) = Checked(request)
      BY <2>3, <2>4, <3>1, OneThenRest
    <3>3. BridgeInData(request)'
      BY <1>1, <1>2, <2>1, <2>5, <3>2 DEF BridgeInData, BridgeListens, m
    <3>4. QED
      BY <2>2, <3>3 DEF BridgeAtData
  <2>6. CASE bpc = "data_buffer"
    <3>1. bcount = m /\ toPC = Checked(request)
      BY <2>1, <2>6 DEF BridgeInData
    <3>2. bdata' = request /\ toPC' = Be16(ChecksumData(request))
      BY <1>1, <2>4, <2>6, <3>1
    <3>3. BridgeInData(request)'
      BY <1>1, <2>1, <2>6, <3>2 DEF BridgeInData, BridgeListens
    <3>4. QED
      BY <2>2, <3>3 DEF BridgeAtData
  <2>7. QED
    BY <1>1, <2>5, <2>6
<1>4. /\ ~Gone /\ ~BridgeRests(<<>>) /\ \A n : ~BridgeAtDebug(n)
      /\ \A req \in Requests :
           /\ ~BridgeAtGot(req) /\ ~BridgeAtStream(req)
           /\ ~BridgeAtCall(req) /\ ~BridgeAtReplying(req) /\ ~BridgeAtReplied(req)
           /\ ~BridgeAtStreaming(req)
  BY <1>1
  DEF Gone, BridgeRests, BridgeAtDebug, BridgeInDebug, BridgeAtGot, BridgeAtStream,
      BridgeInStream, BridgeAtCall, BridgeAtReplying, BridgeAtReplied,
      BridgeAtStreaming, BridgeWaits
<1>5. QED
  BY <1>1, <1>3, <1>4, BridgeMoves
-----------------------------------------------------------------------------
\* What a SEND is followed by.
LEMMA SentStream ==
  ASSUME Fits, NEW req \in Requests, req.op = SEND
  PROVE  /\ req.size \in 0..512 /\ req.size \in 0..UINT_MAX
         /\ Content(req.size) \in Seq(Byte) /\ Len(Content(req.size)) = req.size
         /\ Checked(Content(req.size)) \in Seq(Byte)
         /\ Be16(req.size) \o Checked(Content(req.size)) \in Seq(Byte)
         /\ StreamFrame(GBRIDGE_CMD_STREAM, Content(req.size)) =
              <<GBRIDGE_CMD_STREAM>> \o (Be16(req.size) \o Checked(Content(req.size)))
<1>1. req.size \in Nat /\ req.size <= 512
  BY RequestIs
<1>2. req.size \in 0..512 /\ req.size \in 0..UINT_MAX
  BY <1>1, UintIs
<1>3. Content(req.size) \in Seq(Byte) /\ Len(Content(req.size)) = req.size
  BY <1>1, ContentType
<1>4. QED
  BY <1>2, <1>3, CommandType, StreamFrameIs

\* When the request of a SEND is in, it expects the stream.
LEMMA RecvStreamKeeps ==
  ASSUME TypesInv, Fits, Stage, B!RecvStream, UNCHANGED <<deviceVars, history>>
  PROVE  Stage'
<1>1. /\ bpc = "gbridge_prot_ma_loop" /\ bdata_ready /\ bdata[1] = SEND
      /\ bpc' = "stream_cmd"
      /\ UNCHANGED <<toPC, toDev, bconnected, bwaiting_cmd, bdata, bdata_ready,
                     bres, sockets>>
  BY SameCodes DEF B!RecvStream, B!Recv, B!wire, B!link, B!packet, B!handler
<1>2. ASSUME NEW req \in Requests, BridgeHas(Payload(req))
      PROVE  req.op = SEND /\ BridgeHas(Payload(req))'
  BY <1>1, <1>2, RequestIs DEF BridgeHas, BridgeListens
<1>3. ASSUME NEW req \in Requests, Pending(req) PROVE Pending(req)'
  BY <1>1, <1>3 DEF Pending, history
<1>4. ASSUME NEW req \in Requests, BridgeAtGot(req) PROVE BridgeAtGot(req)'
  BY <1>1, <1>2, <1>3, <1>4 DEF BridgeAtGot, Gone
<1>5. ASSUME NEW req \in Requests, BridgeAtStream(req) PROVE BridgeAtStream(req)'
  BY <1>1, <1>2, <1>3, <1>5 DEF BridgeAtStream, BridgeInStream, Gone
<1>6. /\ ~Gone /\ \A bytes : ~BridgeRests(bytes)
      /\ \A n : ~BridgeInDebug(n)
      /\ \A req \in Requests :
           /\ ~BridgeInData(Payload(req)) /\ ~BridgeAtCall(req)
           /\ ~BridgeAtReplying(req) /\ ~BridgeAtReplied(req)
           /\ ~BridgeAtStreaming(req)
  BY <1>1
  DEF Gone, BridgeRests, BridgeInDebug, BridgeInData, BridgeAtCall,
      BridgeAtReplying, BridgeAtReplied, BridgeAtStreaming, BridgeWaits
<1>7. /\ \A n : ~BridgeAtDebug(n)
      /\ \A req \in Requests : ~BridgeAtData(req)
  BY <1>6 DEF BridgeAtDebug, BridgeAtData
<1>8. QED
  BY <1>1, <1>4, <1>5, <1>6, <1>7, BridgeMoves

\* In these places it reads the stream of a SEND, or waits for it.
LEMMA OnlyStream ==
  ASSUME bpc \in {"stream_cmd", "stream_size", "stream_buffer", "stream_checksum"}
  PROVE  /\ ~Gone /\ ~BridgeRests(<<>>)
         /\ \A n : ~BridgeAtDebug(n)
         /\ \A req \in Requests :
              /\ ~BridgeAtData(req) /\ ~BridgeAtCall(req)
              /\ ~BridgeAtReplying(req) /\ ~BridgeAtReplied(req)
              /\ ~BridgeAtStreaming(req)
              /\ BridgeAtGot(req) => bpc = "stream_cmd" /\ toPC = <<>>
BY DEF Gone, BridgeRests, BridgeAtDebug, BridgeInDebug, BridgeAtData, BridgeInData,
       BridgeAtGot, BridgeAtCall, BridgeAtReplying, BridgeAtReplied,
       BridgeAtStreaming, BridgeWaits

LEMMA StreamCommandKeeps ==
  ASSUME TypesInv, Fits, Stage, B!StreamCommand, UNCHANGED <<deviceVars, history>>
  PROVE  Stage' /\ UNCHANGED bconnected
<1>1. bpc = "stream_cmd" /\ bcount = 1 /\ Len(toPC) >= bcount /\ toPC' = After(toPC, bcount)
  BY SameWire, BridgeKnows DEF B!StreamCommand, B!Received, B!Reads, Counts
<1>2. toPC # <<>>
  BY <1>1
<1>3. /\ ~Gone /\ ~BridgeRests(<<>>)
      /\ \A n : ~BridgeAtDebug(n)
      /\ \A req \in Requests :
           /\ ~BridgeAtData(req) /\ ~BridgeAtGot(req) /\ ~BridgeAtCall(req)
           /\ ~BridgeAtReplying(req) /\ ~BridgeAtReplied(req)
           /\ ~BridgeAtStreaming(req)
  BY <1>1, <1>2, OnlyStream
<1>4. ASSUME NEW req \in Requests, BridgeAtStream(req)
      PROVE  /\ Head(toPC) = GBRIDGE_CMD_STREAM
             /\ toPC' = Be16(Len(Content(req.size))) \o Checked(Content(req.size))
  <2>1. req.op = SEND /\ toPC = StreamFrame(GBRIDGE_CMD_STREAM, Content(req.size))
    BY <1>1, <1>3, <1>4 DEF BridgeAtStream, BridgeInStream
  <2> DEFINE rest == Be16(req.size) \o Checked(Content(req.size))
  <2>2. toPC = <<GBRIDGE_CMD_STREAM>> \o rest /\ rest \in Seq(Byte)
    BY <2>1, SentStream
  <2> HIDE DEF rest
  <2>3. Head(toPC) = GBRIDGE_CMD_STREAM /\ After(toPC, 1) = rest
    BY <2>2, CommandType, OneThenRest
  <2>4. Len(Content(req.size)) = req.size
    BY <2>1, SentStream
  <2>5. QED
    BY <1>1, <2>3, <2>4 DEF rest
<1>5. Head(toPC) = GBRIDGE_CMD_STREAM
  BY <1>3, <1>4, BridgePlaces
<1>6. /\ bpc' = "stream_size"
      /\ UNCHANGED <<toDev, bconnected, bwaiting_cmd, bdata, bdata_ready, bres, sockets>>
  BY <1>5, SameCodes DEF B!StreamCommand, B!Recv, B!link, B!packet, B!handler
<1>7. ASSUME NEW req \in Requests, BridgeAtStream(req) PROVE BridgeAtStream(req)'
  <2>1. req.op = SEND /\ Pending(req) /\ BridgeHas(Payload(req))
    BY <1>3, <1>7 DEF BridgeAtStream
  <2>2. Pending(req)' /\ BridgeHas(Payload(req))'
    BY <1>6, <2>1 DEF Pending, BridgeHas, BridgeListens, history
  <2>3. toPC' = Be16(Len(Content(req.size))) \o Checked(Content(req.size))
    BY <1>4, <1>7
  <2>4. BridgeInStream(Content(req.size))'
    BY <1>6, <2>3 DEF BridgeInStream
  <2>5. QED
    BY <2>1, <2>2, <2>4 DEF BridgeAtStream
<1>8. QED
  BY <1>3, <1>6, <1>7, BridgeMoves

LEMMA StreamSizeKeeps ==
  ASSUME TypesInv, Fits, Stage, B!StreamSize, UNCHANGED <<deviceVars, history>>
  PROVE  Stage'
<1>1. bpc = "stream_size" /\ bcount = 2 /\ Len(toPC) >= bcount /\ toPC' = After(toPC, bcount)
  BY SameWire, BridgeKnows DEF B!StreamSize, B!Received, B!Reads, Counts
<1>2. /\ ~Gone /\ ~BridgeRests(<<>>)
      /\ \A n : ~BridgeAtDebug(n)
      /\ \A req \in Requests :
           /\ ~BridgeAtData(req) /\ ~BridgeAtGot(req) /\ ~BridgeAtCall(req)
           /\ ~BridgeAtReplying(req) /\ ~BridgeAtReplied(req)
           /\ ~BridgeAtStreaming(req)
  BY <1>1, OnlyStream
<1>3. ASSUME NEW req \in Requests, BridgeAtStream(req)
      PROVE  /\ req.op = SEND /\ Pending(req) /\ BridgeHas(Payload(req))
             /\ FromBe16(toPC[1], toPC[2]) = Len(Content(req.size))
             /\ FromBe16(toPC[1], toPC[2]) \in 0..512
             /\ toPC' = Checked(Content(req.size))
  <2>1. /\ req.op = SEND /\ Pending(req) /\ BridgeHas(Payload(req))
        /\ toPC = Be16(Len(Content(req.size))) \o Checked(Content(req.size))
    BY <1>1, <1>2, <1>3 DEF BridgeAtStream, BridgeInStream
  <2>2. /\ req.size \in 0..512 /\ req.size \in 0..UINT_MAX
        /\ Checked(Content(req.size)) \in Seq(Byte)
        /\ Len(Content(req.size)) = req.size
    BY <2>1, SentStream
  <2>3. toPC = Be16(req.size) \o Checked(Content(req.size))
    BY <2>1, <2>2
  <2>4. /\ FromBe16(toPC[1], toPC[2]) = req.size
        /\ After(toPC, 2) = Checked(Content(req.size))
    BY <2>2, <2>3, Be16Back
  <2>5. toPC' = Checked(Content(req.size))
    BY <1>1, <2>4
  <2>6. QED
    BY <2>1, <2>2, <2>4, <2>5
<1>4. FromBe16(toPC[1], toPC[2]) \in 0..512
  BY <1>2, <1>3, BridgePlaces
<1>5. /\ bpc' = "stream_buffer" /\ bcount' = FromBe16(toPC[1], toPC[2])
      /\ UNCHANGED <<toDev, bconnected, bwaiting_cmd, bdata, bdata_ready, bres, sockets>>
  <2> DEFINE size == FromBe16(toPC[1], toPC[2])
  <2>1. B!FromBe16(toPC[1], toPC[2]) = size
    BY SameWire
  <2> HIDE DEF size
  <2>2. size \in 0..512
    BY <1>4 DEF size
  <2>3. ~(size > 512)
    BY <2>2
  <2>4. bpc' = "stream_buffer" /\ bcount' = size /\ UNCHANGED bdata_ready
    BY <2>1, <2>3 DEF B!StreamSize, B!MaxStream, B!Recv
  <2>5. UNCHANGED <<toDev, bconnected, bwaiting_cmd, bdata, bres, sockets>>
    BY DEF B!StreamSize, B!link, B!handler
  <2>6. QED
    BY <2>4, <2>5 DEF size
<1>6. ASSUME NEW req \in Requests, BridgeAtStream(req) PROVE BridgeAtStream(req)'
  <2>1. /\ req.op = SEND /\ Pending(req) /\ BridgeHas(Payload(req))
        /\ bcount' = Len(Content(req.size)) /\ toPC' = Checked(Content(req.size))
    BY <1>3, <1>5, <1>6
  <2>2. Pending(req)' /\ BridgeHas(Payload(req))'
    BY <1>5, <2>1 DEF Pending, BridgeHas, BridgeListens, history
  <2>3. BridgeInStream(Content(req.size))'
    BY <1>5, <2>1 DEF BridgeInStream
  <2>4. QED
    BY <2>1, <2>2, <2>3 DEF BridgeAtStream
<1>7. QED
  BY <1>2, <1>5, <1>6, BridgeMoves

LEMMA StreamBufferKeeps ==
  ASSUME TypesInv, Fits, Stage, B!StreamBuffer, UNCHANGED <<deviceVars, history>>
  PROVE  Stage'
<1>1. /\ bpc = "stream_buffer" /\ bpc' = "stream_checksum"
      /\ toPC' = After(toPC, bcount) /\ bstream' = SubSeq(toPC, 1, bcount)
      /\ UNCHANGED <<toDev, bconnected, bwaiting_cmd, bdata, bdata_ready, bres, sockets>>
  BY SameWire DEF B!StreamBuffer, B!Received, B!Reads, B!Recv, B!link, B!packet
<1>2. /\ ~Gone /\ ~BridgeRests(<<>>)
      /\ \A n : ~BridgeAtDebug(n)
      /\ \A req \in Requests :
           /\ ~BridgeAtData(req) /\ ~BridgeAtGot(req) /\ ~BridgeAtCall(req)
           /\ ~BridgeAtReplying(req) /\ ~BridgeAtReplied(req)
           /\ ~BridgeAtStreaming(req)
  BY <1>1, OnlyStream
<1>3. ASSUME NEW req \in Requests, BridgeAtStream(req) PROVE BridgeAtStream(req)'
  <2>1. /\ req.op = SEND /\ Pending(req) /\ BridgeHas(Payload(req))
        /\ bcount = Len(Content(req.size)) /\ toPC = Checked(Content(req.size))
    BY <1>1, <1>2, <1>3 DEF BridgeAtStream, BridgeInStream
  <2>2. Content(req.size) \in Seq(Byte)
    BY <2>1, SentStream
  <2>3. /\ bstream' = Content(req.size)
        /\ toPC' = Be16(ChecksumData(Content(req.size)))
    BY <1>1, <2>1, <2>2, CheckedType
  <2>4. Pending(req)' /\ BridgeHas(Payload(req))'
    BY <1>1, <2>1 DEF Pending, BridgeHas, BridgeListens, history
  <2>5. BridgeInStream(Content(req.size))'
    BY <1>1, <2>3 DEF BridgeInStream
  <2>6. QED
    BY <2>1, <2>4, <2>5 DEF BridgeAtStream
<1>4. QED
  BY <1>1, <1>2, <1>3, BridgeMoves
-----------------------------------------------------------------------------
\* What is asked of the sockets.
LEMMA CalledWith ==
  ASSUME TypesInv, Fits, Stage, B!AtSocketCall
  PROVE  \E req \in Requests :
           /\ req = LastSent /\ Pending(req) /\ bdata = Payload(req)
           /\ \/ req.op # SEND /\ Got(req) /\ ~Gone
              \/ req.op = SEND /\ Call(req) /\ bstream = Content(req.size)
<1>1. bpc = "socket_impl_send"
      \/ (bpc = "gbridge_prot_ma_loop" /\ bdata_ready /\ bdata[1] # SEND)
  BY SameCodes DEF B!AtSocketCall
<1>2. ~BridgeRests(<<>>) /\ (\A n \in DebugLines : ~Debug(n)) /\ ~Gone
  BY <1>1 DEF BridgeRests, Debug, BridgeAtDebug, BridgeInDebug, Gone
<1>3. \A req \in Requests :
        /\ ~BridgeAtData(req)
        /\ ~BridgeAtReplying(req) /\ ~BridgeAtReplied(req) /\ ~BridgeAtStreaming(req)
  BY <1>1 DEF BridgeRests, BridgeAtData, BridgeInData, BridgeAtReplying,
     BridgeAtReplied, BridgeAtStreaming, BridgeWaits
<1>4. PICK req \in Requests :
        req = LastSent /\ (Got(req) \/ SendsStream(req) \/ Call(req))
  BY <1>2, <1>3
  DEF Stage, Rest, Asking, Answering, Data, Replying, Replied, Streaming, Done
<1>5. Payload(req)[1] = req.op
  BY RequestIs
<1>6. ~BridgeAtStream(req)
  BY <1>1, <1>2, <1>5 DEF BridgeAtStream, BridgeInStream, BridgeHas
<1>7. CASE Got(req)
  <2>1. /\ Pending(req) /\ bdata = Payload(req)
        /\ bpc = "gbridge_prot_ma_loop" \/ bpc = "stream_cmd"
    BY <1>2, <1>7 DEF Got, BridgeAtGot, BridgeHas
  <2>2. req.op # SEND
    BY <1>1, <1>5, <2>1
  <2>3. QED
    BY <1>2, <1>4, <1>7, <2>1, <2>2
<1>8. CASE Call(req)
  BY <1>4, <1>8 DEF Call, BridgeAtCall, BridgeHas
<1>9. QED
  BY <1>4, <1>6, <1>7, <1>8 DEF SendsStream

LEMMA AssertHolds ==
  ASSUME TypesInv, Fits, Stage, B!AtSocketCall
  PROVE  B!Asserted(bdata[1], bdata[2])
<1>1. PICK req \in Requests : Pending(req) /\ bdata = Payload(req)
  BY CalledWith
<1>2. /\ bdata[1] = req.op /\ bdata[2] = req.conn
      /\ req.op = OPEN => bdata[4] \in {ADDR_IPV4, ADDR_IPV6}
  BY <1>1, RequestIs
<1>3. QED
  BY <1>1, <1>2, SameCodes DEF B!Asserted, Pending

LEMMA NoAssertFails ==
  ASSUME TypesInv, Fits, Stage
  PROVE  ~B!AssertFails
BY AssertHolds DEF B!AssertFails

LEMMA NoHandshakeAgain ==
  ASSUME TypesInv, Fits, Stage
  PROVE  ~B!HandshakeSend /\ ~(B!HandshakeTimesOut /\ toPC = <<>>)
<1>1. ASSUME bpc = "handshake" \/ (bpc = "handshake_read" /\ toPC = <<>>)
      PROVE  FALSE
  <2>1. /\ \A n : ~BridgeInDebug(n)
        /\ \A req \in Requests :
             /\ ~BridgeInData(Payload(req))
             /\ ~BridgeAtGot(req) /\ ~BridgeAtStream(req) /\ ~BridgeAtCall(req)
             /\ ~BridgeAtReplying(req) /\ ~BridgeAtReplied(req)
             /\ ~BridgeAtStreaming(req)
    BY <1>1
    DEF BridgeInDebug, BridgeInData, BridgeAtGot, BridgeAtStream, BridgeInStream, Gone,
        BridgeAtCall, BridgeAtReplying, BridgeAtReplied, BridgeAtStreaming, BridgeWaits
  <2>2. ASSUME NEW bytes \in Seq(Byte), BridgeRests(bytes) PROVE FALSE
    <3>1. /\ toPC = <<>>
          /\ HeardOf(bhandshake_progress) \o toPC = GBRIDGE_HANDSHAKE \o bytes
      BY <1>1, <2>2 DEF BridgeRests
    <3>2. bhandshake_progress \in 0..3 /\ bhandshake_progress \in 0..4
      BY BridgeKnows
    <3>3. /\ HeardOf(bhandshake_progress) \in Seq(Byte)
          /\ Len(HeardOf(bhandshake_progress)) = bhandshake_progress
      BY <3>2, HeardIs, Zenon
    <3>4. Len(HeardOf(bhandshake_progress) \o toPC) = bhandshake_progress + 0
      BY <3>1, <3>3, TakeDrop
    <3>5. Len(GBRIDGE_HANDSHAKE \o bytes) = 4 + Len(bytes)
      <4>1. GBRIDGE_HANDSHAKE \in Seq(Byte) /\ Len(GBRIDGE_HANDSHAKE) = 4
        BY HeardIs, Zenon
      <4>2. Len(GBRIDGE_HANDSHAKE \o bytes) = Len(GBRIDGE_HANDSHAKE) + Len(bytes)
        BY <2>2, <4>1, TakeDrop, Zenon
      <4>3. QED
        BY <4>1, <4>2
    <3> DEFINE m == Len(bytes)
    <3>6. m \in Nat
      BY <2>2
    <3>7. bhandshake_progress + 0 = 4 + m
      BY <3>1, <3>4, <3>5
    <3> HIDE DEF m
    <3>8. QED
      BY <3>2, <3>6, <3>7
  <2>3. QED
    <3>1. /\ <<>> \in Seq(Byte)
          /\ \A n \in DebugLines : DebugFrame(Content(n)) \in Seq(Byte)
          /\ \A req \in Requests : DataFrame(GBRIDGE_CMD_DATA, Payload(req)) \in Seq(Byte)
      BY FramesAre
    <3>2. /\ ~BridgeRests(<<>>) /\ \A n \in DebugLines : ~BridgeAtDebug(n)
          /\ \A req \in Requests : ~BridgeAtData(req)
      BY <2>1, <2>2, <3>1 DEF BridgeAtDebug, BridgeAtData
    <3>3. QED
      BY <2>1, <3>2, BridgePlaces
<1>2. QED
  BY <1>1 DEF B!HandshakeSend, B!HandshakeTimesOut

LEMMA MainEndsKeeps ==
  ASSUME TypesInv, Fits, Stage, B!MainEnds, UNCHANGED <<deviceVars, history>>
  PROVE  Stage'
<1>1. /\ bpc = "gbridge_loop" /\ ~bconnected /\ bpc' = "closed" /\ ~bconnected'
      /\ UNCHANGED <<toPC, toDev, bres>>
  BY DEF B!MainEnds, B!wire, B!link
<1>2. Gone /\ Gone'
  BY <1>1 DEF Gone
<1>3. /\ ~BridgeRests(<<>>)
      /\ \A n : ~BridgeAtDebug(n)
      /\ \A req \in Requests :
           /\ ~BridgeAtData(req) /\ ~BridgeAtCall(req)
           /\ ~BridgeAtReplying(req) /\ ~BridgeAtReplied(req)
           /\ ~BridgeAtStreaming(req)
  BY <1>1
  DEF BridgeRests, BridgeAtDebug, BridgeInDebug, BridgeAtData, BridgeInData,
      BridgeListens, BridgeAtCall, BridgeHas, BridgeAtReplying, BridgeAtReplied,
      BridgeAtStreaming, BridgeWaits
<1>4. ASSUME NEW req \in Requests, BridgeAtGot(req) PROVE BridgeAtGot(req)'
  BY <1>1, <1>2, <1>4 DEF BridgeAtGot, BridgeHas, BridgeListens, history
<1>5. ASSUME NEW req \in Requests, BridgeAtStream(req) PROVE BridgeAtStream(req)'
  BY <1>1, <1>2, <1>5 DEF BridgeAtStream, BridgeHas, BridgeListens, history
<1>6. QED
  BY <1>1, <1>2, <1>3, <1>4, <1>5, BridgeMoves
-----------------------------------------------------------------------------
\* What the bridge has begun to read comes to its end, unless it is the stream of
\* a SEND that the device has not sent yet.
LEMMA EnoughComes ==
  ASSUME TypesInv, Fits, bpc \in B!Receiving, Len(toPC) < bcount
  PROVE  /\ ~BridgeRests(<<>>) /\ ~Gone
         /\ \A n \in DebugLines : ~BridgeAtDebug(n)
         /\ \A req \in Requests :
              /\ ~BridgeAtData(req) /\ ~BridgeAtStream(req) /\ ~BridgeAtCall(req)
              /\ ~BridgeAtReplying(req) /\ ~BridgeAtReplied(req)
              /\ ~BridgeAtStreaming(req)
<1>1. /\ bpc \in {"debug_line_length", "debug_line_string",
                  "data_size", "data_buffer", "data_checksum",
                  "stream_cmd", "stream_size", "stream_buffer", "stream_checksum"}
      /\ Counts
  BY BridgeKnows DEF B!Receiving
<1>2. /\ ~Gone /\ \A bytes : ~BridgeRests(bytes)
      /\ \A req \in Requests :
           /\ ~BridgeAtCall(req) /\ ~BridgeAtReplying(req) /\ ~BridgeAtReplied(req)
           /\ ~BridgeAtStreaming(req)
  BY <1>1 DEF Gone, BridgeRests, BridgeAtCall, BridgeAtReplying, BridgeAtReplied,
     BridgeAtStreaming, BridgeWaits
<1>3. ASSUME NEW bytes \in Seq(Byte), toPC = Checked(bytes), bcount = Len(bytes)
      PROVE  FALSE
  <2>1. Len(toPC) = Len(bytes) + 2
    BY <1>3, CheckedType
  <2> DEFINE m == Len(bytes)
  <2>2. m \in Nat /\ m + 2 < m
    BY <1>3, <2>1
  <2> HIDE DEF m
  <2>3. QED
    BY <2>2
<1>4. ASSUME NEW bytes \in Seq(Byte), toPC = Be16(ChecksumData(bytes)), bcount = 2
      PROVE  FALSE
  <2>1. Len(toPC) = 2
    BY <1>4, CheckedType
  <2>2. QED
    BY <1>4, <2>1
<1>5. ASSUME NEW byte \in Byte, NEW bytes \in Seq(Byte), toPC = <<byte>> \o bytes,
             bcount = 1
      PROVE  FALSE
  <2>1. Len(toPC) = 1 + Len(bytes)
    BY <1>5, OneThenRest
  <2> DEFINE m == Len(bytes)
  <2>2. m \in Nat /\ 1 + m < 1
    BY <1>5, <2>1
  <2> HIDE DEF m
  <2>3. QED
    BY <2>2
<1>6. ASSUME NEW n \in DebugLines, BridgeAtDebug(n) PROVE FALSE
  <2>1. BridgeInDebug(n)
    BY <1>2, <1>6 DEF BridgeAtDebug
  <2>2. n \in Byte /\ n \in Nat
    BY DeviceAssumption DEF DeviceAssumption, Byte
  <2>3. Content(n) \in Seq(Byte) /\ Len(Content(n)) = n
    BY <2>2, ContentType
  <2>4. CASE bpc = "debug_line_length"
    <3>1. bcount = 1 /\ toPC = <<n>> \o Content(n)
      BY <1>1, <2>1, <2>4 DEF BridgeInDebug, Counts
    <3>2. QED
      BY <1>5, <2>2, <2>3, <3>1
  <2>5. CASE bpc = "debug_line_string"
    <3>1. bcount = n /\ toPC = Content(n)
      BY <2>1, <2>5 DEF BridgeInDebug
    <3>2. QED
      BY <2>2, <2>3, <3>1
  <2>6. QED
    BY <2>1, <2>4, <2>5 DEF BridgeInDebug
<1>7. ASSUME NEW req \in Requests, BridgeAtData(req) PROVE FALSE
  <2>1. BridgeInData(Payload(req))
    BY <1>2, <1>7 DEF BridgeAtData
  <2> DEFINE m == Len(Payload(req))
  <2>2. Payload(req) \in Seq(Byte) /\ m \in Byte
    <3>1. Payload(req) \in Seq(Byte) /\ m \in 2..21
      BY RequestIs
    <3> HIDE DEF m
    <3>2. QED
      BY <3>1 DEF Byte
  <2>3. Checked(Payload(req)) \in Seq(Byte)
    BY <2>2, CheckedType
  <2>4. CASE bpc = "data_size"
    <3>1. bcount = 1 /\ toPC = <<m>> \o Checked(Payload(req))
      BY <1>1, <2>1, <2>4 DEF BridgeInData, Counts
    <3> HIDE DEF m
    <3>2. QED
      BY <1>5, <2>2, <2>3, <3>1
  <2>5. CASE bpc = "data_buffer"
    BY <1>3, <2>1, <2>2, <2>5 DEF BridgeInData
  <2>6. CASE bpc = "data_checksum"
    BY <1>1, <1>4, <2>1, <2>2, <2>6 DEF BridgeInData, Counts
  <2>7. QED
    BY <2>1, <2>4, <2>5, <2>6 DEF BridgeInData
<1>8. ASSUME NEW req \in Requests, BridgeAtStream(req) PROVE FALSE
  <2>1. /\ req.op = SEND
        /\ \/ bpc = "stream_cmd"
              /\ toPC = StreamFrame(GBRIDGE_CMD_STREAM, Content(req.size))
           \/ BridgeInStream(Content(req.size))
    BY <1>1, <1>2, <1>8 DEF BridgeAtStream
  <2> DEFINE n == req.size
             rest == Be16(n) \o Checked(Content(n))
  <2>2. /\ n \in 0..UINT_MAX /\ Content(n) \in Seq(Byte) /\ Len(Content(n)) = n
        /\ Checked(Content(n)) \in Seq(Byte) /\ rest \in Seq(Byte)
        /\ StreamFrame(GBRIDGE_CMD_STREAM, Content(n)) = <<GBRIDGE_CMD_STREAM>> \o rest
    BY <2>1, SentStream
  <2>3. CASE bpc = "stream_cmd"
    <3>1. bcount = 1 /\ toPC = <<GBRIDGE_CMD_STREAM>> \o rest
      BY <1>1, <2>1, <2>2, <2>3 DEF BridgeInStream, Counts
    <3> HIDE DEF rest
    <3>2. QED
      BY <1>5, <2>2, <3>1, CommandType
  <2>4. CASE bpc = "stream_size"
    <3>1. bcount = 2 /\ toPC = rest
      BY <1>1, <2>1, <2>2, <2>4 DEF BridgeInStream, Counts
    <3>2. Len(rest) = 2 + Len(Checked(Content(n)))
      BY <2>2, Be16Back
    <3> DEFINE m == Len(Checked(Content(n)))
    <3>3. m \in Nat
      BY <2>2
    <3>4. 2 + m < 2
      BY <3>1, <3>2
    <3> HIDE DEF m
    <3>5. QED
      BY <3>3, <3>4
  <2>5. CASE bpc = "stream_buffer"
    BY <1>3, <2>1, <2>2, <2>5 DEF BridgeInStream
  <2>6. CASE bpc = "stream_checksum"
    BY <1>1, <1>4, <2>1, <2>2, <2>6 DEF BridgeInStream, Counts
  <2>7. QED
    BY <2>1, <2>3, <2>4, <2>5, <2>6 DEF BridgeInStream
<1>9. QED
  BY <1>2, <1>6, <1>7, <1>8
-----------------------------------------------------------------------------
(***************************************************************************)
(* The steps of the bridge that write, and bring the next stage.           *)
(***************************************************************************)
LEMMA DeviceSame ==
  ASSUME UNCHANGED deviceVars
  PROVE  UNCHANGED <<connected, handshake_progress, waiting_cmd,
                     processing_cmd, processing_cmd_state,
                     data_len, data, data_size, data_ready,
                     stream_max_size, stream_size, stream,
                     pc, wait_for, call, res, ret, open, calls>>
BY DEF deviceVars, link, packet, streaming, processing, caller

LEMMA AfterAll ==
  ASSUME NEW bytes \in Seq(Byte)
  PROVE  After(bytes, Len(bytes)) = <<>>
<1> DEFINE m == Len(bytes)
<1>1. m \in Nat /\ m \in 0..m
  OBVIOUS
<1>2. Len(After(bytes, m)) = m - m /\ After(bytes, m) \in Seq(Byte)
  BY <1>1, AfterType
<1> HIDE DEF m
<1>3. m - m = 0
  BY <1>1
<1>4. After(bytes, m) = <<>>
  BY <1>2, <1>3
<1>5. QED
  BY <1>4 DEF m

LEMMA ChecksumAlone ==
  ASSUME NEW bytes \in Seq(Byte), NEW line, line = Be16(ChecksumData(bytes))
  PROVE  /\ FromBe16(line[1], line[2]) = ChecksumData(bytes)
         /\ After(line, 2) = <<>>
<1>1. /\ Be16(ChecksumData(bytes)) \in Seq(Byte)
      /\ Len(Be16(ChecksumData(bytes))) = 2
  BY CheckedType
<1>2. Be16(ChecksumData(bytes)) \o <<>> = Be16(ChecksumData(bytes)) /\ <<>> \in Seq(Byte)
  BY <1>1
<1>3. /\ FromBe16((Be16(ChecksumData(bytes)) \o <<>>)[1],
                  (Be16(ChecksumData(bytes)) \o <<>>)[2]) = ChecksumData(bytes)
      /\ After(Be16(ChecksumData(bytes)) \o <<>>, 2) = <<>>
  BY <1>2, ChecksumRead, Zenon
<1>4. QED
  BY <1>2, <1>3

LEMMA BridgeDebugLineStringKeeps ==
  ASSUME TypesInv, Fits, Stage, B!DebugLineString,
         UNCHANGED <<deviceVars, history>>
  PROVE  Stage'
<1>1. /\ bpc = "debug_line_string" /\ toPC' = After(toPC, bcount)
      /\ toDev' = toDev \o <<Reply(GBRIDGE_CMD_DEBUG_LINE)>>
      /\ bpc' = "gbridge_prot_ma_loop"
      /\ UNCHANGED <<bconnected, bwaiting_cmd, bdata_ready, sockets>>
  BY SameWire, SameCodes
  DEF B!DebugLineString, B!Received, B!Reads, B!Writes, B!link, B!packet, B!handler
<1>2. /\ ~BridgeRests(<<>>)
      /\ \A req \in Requests :
           /\ ~BridgeAtData(req) /\ ~BridgeAtGot(req) /\ ~BridgeAtStream(req)
           /\ ~BridgeAtCall(req) /\ ~BridgeAtReplying(req) /\ ~BridgeAtReplied(req)
           /\ ~BridgeAtStreaming(req)
  BY <1>1
  DEF Gone, BridgeRests, BridgeAtData, BridgeInData, BridgeAtGot, BridgeAtStream,
      BridgeInStream, BridgeAtCall, BridgeAtReplying, BridgeAtReplied,
      BridgeAtStreaming, BridgeWaits
<1>3. PICK n \in DebugLines : Debug(n)
  BY <1>2 DEF Stage, Rest, Asking, Data, Got, SendsStream, Call, Answering,
     Replying, Replied, Streaming, Done
<1>4. BridgeListens /\ ~bdata_ready /\ bcount = n /\ toPC = Content(n)
  BY <1>1, <1>3 DEF Debug, BridgeAtDebug, BridgeRests, BridgeInDebug
<1>5. toPC' = <<>>
  <2>1. n \in Nat
    BY DeviceAssumption DEF DeviceAssumption, Byte
  <2>2. Content(n) \in Seq(Byte) /\ Len(Content(n)) = n
    BY <2>1, ContentType
  <2>3. QED
    BY <1>1, <1>4, <2>2, AfterAll
<1>6. BridgeRests(<<>>)'
  BY <1>1, <1>4, <1>5 DEF BridgeRests, BridgeListens
<1>7. ASSUME connected' PROVE DeviceAtRest'
  <2>1. DeviceAtDebug
    BY <1>3, <1>7, DeviceSame DEF Debug
  <2>2. toDev' = <<Reply(GBRIDGE_CMD_DEBUG_LINE)>>
    BY <1>1, <2>1 DEF DeviceAtDebug
  <2>3. QED
    BY <1>1, <2>1, <2>2, DeviceSame DEF DeviceAtDebug, DeviceAtRest, Asked, Settled
<1>8. QED
  BY <1>6, <1>7 DEF Stage, Rest

LEMMA DataChecksumKeeps ==
  ASSUME TypesInv, Fits, Stage, B!DataChecksum, UNCHANGED <<deviceVars, history>>
  PROVE  Stage'
<1>1. /\ bpc = "data_checksum" /\ bcount = 2 /\ toPC' = After(toPC, bcount)
      /\ bpc' = "gbridge_prot_ma_loop" /\ UNCHANGED sockets
  BY BridgeKnows, SameWire
  DEF B!DataChecksum, B!Received, B!Reads, B!handler, Counts
<1>2. /\ ~BridgeRests(<<>>) /\ ~Gone /\ \A n : ~BridgeAtDebug(n)
      /\ \A req \in Requests :
           /\ ~BridgeAtGot(req) /\ ~BridgeAtStream(req)
           /\ ~BridgeAtCall(req) /\ ~BridgeAtReplying(req) /\ ~BridgeAtReplied(req)
           /\ ~BridgeAtStreaming(req)
  BY <1>1
  DEF Gone, BridgeRests, BridgeAtDebug, BridgeInDebug, BridgeAtGot, BridgeAtStream,
      BridgeInStream, BridgeAtCall, BridgeAtReplying, BridgeAtReplied,
      BridgeAtStreaming, BridgeWaits
<1>3. PICK req \in Requests : req = LastSent /\ Data(req)
  BY <1>2 DEF Stage, Rest, Debug, Asking, Got, SendsStream, Call, Answering,
     Replying, Replied, Streaming, Done
<1>4. /\ Pending(req) /\ BridgeListens /\ bdata = Payload(req)
      /\ toPC = Be16(ChecksumData(Payload(req)))
  BY <1>1, <1>3 DEF Data, BridgeAtData, BridgeRests, BridgeInData
<1>5. Payload(req) \in Seq(Byte)
  BY RequestIs
<1>6. FromBe16(toPC[1], toPC[2]) = ChecksumData(bdata) /\ toPC' = <<>>
  BY <1>1, <1>4, <1>5, ChecksumAlone
<1>7. /\ bdata_ready' = TRUE
      /\ toDev' = toDev \o <<Reply(GBRIDGE_CMD_DATA)>>
      /\ UNCHANGED <<bconnected, bwaiting_cmd, bdata>>
  BY <1>6, SameWire, SameCodes DEF B!DataChecksum, B!Writes, B!link
<1>8. Pending(req)' /\ BridgeHas(Payload(req))'
  BY <1>1, <1>4, <1>7 DEF Pending, BridgeHas, BridgeListens, history
<1>9. BridgeAtGot(req)'
  BY <1>1, <1>6, <1>8 DEF BridgeAtGot
<1>10. ASSUME connected' PROVE DeviceAtGot(req)'
  <2>1. DeviceAtData
    BY <1>3, <1>10, DeviceSame DEF Data
  <2>2. toDev' = <<Reply(GBRIDGE_CMD_DATA)>>
    BY <1>7, <2>1 DEF DeviceAtData
  <2>3. QED
    BY <1>1, <2>1, <2>2, DeviceSame DEF DeviceAtData, DeviceAtGot, Asked, Settled
<1>11. req = LastSent'
  BY <1>3 DEF LastSent, history
<1>12. QED
  BY <1>9, <1>10, <1>11 DEF Stage, Asking, Got

LEMMA StreamChecksumKeeps ==
  ASSUME TypesInv, Fits, Stage, B!StreamChecksum, UNCHANGED <<deviceVars, history>>
  PROVE  Stage' /\ UNCHANGED bconnected
<1>1. /\ bpc = "stream_checksum" /\ bcount = 2 /\ toPC' = After(toPC, bcount)
      /\ UNCHANGED <<sockets, bstream>>
  BY BridgeKnows, SameWire
  DEF B!StreamChecksum, B!Received, B!Reads, B!handler, Counts
<1>2. /\ ~Gone /\ ~BridgeRests(<<>>)
      /\ \A n : ~BridgeAtDebug(n)
      /\ \A req \in Requests :
           /\ ~BridgeAtData(req) /\ ~BridgeAtGot(req) /\ ~BridgeAtCall(req)
           /\ ~BridgeAtReplying(req) /\ ~BridgeAtReplied(req)
           /\ ~BridgeAtStreaming(req)
  BY <1>1, OnlyStream
<1>3. PICK req \in Requests : req = LastSent /\ SendsStream(req)
  BY <1>2 DEF Stage, Rest, Debug, Asking, Data, Got, Call, Answering,
     Replying, Replied, Streaming, Done
<1>4. /\ req.op = SEND /\ Pending(req) /\ BridgeHas(Payload(req))
      /\ bstream = Content(req.size)
      /\ toPC = Be16(ChecksumData(Content(req.size)))
  BY <1>1, <1>2, <1>3 DEF SendsStream, BridgeAtStream, BridgeInStream
<1>5. Content(req.size) \in Seq(Byte)
  BY <1>4, SentStream
<1>6. FromBe16(toPC[1], toPC[2]) = ChecksumData(bstream) /\ toPC' = <<>>
  BY <1>1, <1>4, <1>5, ChecksumAlone
<1>7. /\ bpc' = "socket_impl_send"
      /\ toDev' = toDev \o <<Reply(GBRIDGE_CMD_STREAM)>>
      /\ UNCHANGED <<bconnected, bwaiting_cmd, bdata, bdata_ready>>
  BY <1>6, SameWire, SameCodes DEF B!StreamChecksum, B!Writes, B!link, B!packet
<1>8. Pending(req)' /\ BridgeHas(Payload(req))'
  BY <1>1, <1>4, <1>7 DEF Pending, BridgeHas, BridgeListens, history
<1>9. BridgeAtCall(req)'
  BY <1>1, <1>4, <1>6, <1>7, <1>8 DEF BridgeAtCall
<1>10. ASSUME connected' PROVE DeviceAtCall'
  <2>1. DeviceAtStream
    BY <1>3, <1>10, DeviceSame DEF SendsStream
  <2>2. toDev' = <<Reply(GBRIDGE_CMD_STREAM)>>
    BY <1>7, <2>1 DEF DeviceAtStream
  <2>3. QED
    BY <1>1, <1>2, <2>1, <2>2, DeviceSame DEF DeviceAtStream, DeviceAtCall, Asked, Settled
<1>11. req = LastSent'
  BY <1>3 DEF LastSent, history
<1>12. QED
  BY <1>7, <1>9, <1>10, <1>11 DEF Stage, Asking, Call

\* The bridge sends the stream that follows an answer.
LEMMA StreamFollows ==
  ASSUME TypesInv, Fits, Stage, B!EndWaitStream
  PROVE  \E req \in Requests, val \in B!SocketValues :
           /\ req = LastSent /\ Replied(req, val) /\ bres = val
           /\ bconnected /\ bdata = Payload(req) /\ toPC = <<>>
<1>1. /\ bpc = "wait_cmd" /\ bwaiting_cmd # bwait_for
      /\ bwait_for = GBRIDGE_CMD_DATA_PC /\ bdata[1] = RECV /\ bres > 0
  BY SameCodes DEF B!EndWaitStream
<1>2. GBRIDGE_CMD_DATA_PC # GBRIDGE_CMD_STREAM_PC
  BY DEF GBRIDGE_CMD_DATA_PC, GBRIDGE_CMD_STREAM_PC
<1>3. /\ ~Gone /\ \A bytes : ~BridgeRests(bytes)
      /\ \A n : ~BridgeInDebug(n)
      /\ \A req \in Requests :
           /\ ~BridgeInData(Payload(req))
           /\ ~BridgeAtGot(req) /\ ~BridgeAtStream(req) /\ ~BridgeAtCall(req)
           /\ ~BridgeAtReplying(req) /\ ~BridgeAtStreaming(req)
  BY <1>1, <1>2
  DEF Gone, BridgeRests, LastWait, BridgeInDebug, BridgeInData, BridgeAtGot,
      BridgeAtStream, BridgeInStream, BridgeAtCall, BridgeAtReplying,
      BridgeAtStreaming, BridgeWaits
<1>4. PICK req \in Requests, val \in B!SocketValues :
        req = LastSent /\ Replied(req, val)
  BY <1>3
  DEF Stage, Rest, Debug, BridgeAtDebug, Asking, Data, BridgeAtData, Got,
      SendsStream, Call, Answering, Replying, Streaming, Done
<1>5. bres = val /\ bconnected /\ bdata = Payload(req) /\ toPC = <<>>
  BY <1>1, <1>4 DEF Replied, BridgeAtReplied, BridgeWaits, Executed
<1>6. QED
  BY <1>4, <1>5

LEMMA EndWaitStreamKeeps ==
  ASSUME TypesInv, Fits, Stage, B!EndWaitStream, UNCHANGED <<deviceVars, history>>
  PROVE  Stage'
<1>1. /\ bpc = "wait_cmd" /\ bwaiting_cmd # bwait_for
      /\ bwait_for = GBRIDGE_CMD_DATA_PC /\ bdata[1] = RECV /\ bres > 0
      /\ toDev' = toDev \o StreamFrame(GBRIDGE_CMD_STREAM_PC, Content(bres))
      /\ bpc' = "wait_cmd" /\ bwait_for' = GBRIDGE_CMD_STREAM_PC
      /\ bwaiting_cmd' = GBRIDGE_CMD_STREAM_PC
      /\ UNCHANGED <<toPC, bconnected, bdata, bres, sockets>>
  BY SameWire, SameCodes
  DEF B!EndWaitStream, B!SendAndWait, B!Writes, B!packet
<1>2. PICK req \in Requests, val \in B!SocketValues :
        /\ req = LastSent /\ Replied(req, val) /\ bres = val
        /\ bconnected /\ bdata = Payload(req) /\ toPC = <<>>
  BY StreamFollows
<1>3. Executed(req, val) /\ More(req, val)
  BY <1>2 DEF Replied
<1>4. Executed(req, val)' /\ BridgeAtStreaming(req)' /\ req = LastSent'
  BY <1>1, <1>2, <1>3
  DEF Executed, BridgeAtStreaming, BridgeWaits, LastSent, history
<1>5. ASSUME connected' PROVE DeviceAtStreaming(req, val)'
  <2>1. DeviceAtReplied(req, val)
    BY <1>2, <1>5, DeviceSame DEF Replied
  <2>2. StreamFrame(GBRIDGE_CMD_STREAM_PC, Content(val)) \in Seq(Byte)
    BY <1>3, ValueType, StreamedFrame DEF Executed
  <2>3. toDev' = StreamFrame(GBRIDGE_CMD_STREAM_PC, Content(val))
    BY <1>1, <1>2, <2>1, <2>2 DEF DeviceAtReplied
  <2>4. WillAgree(req, val)'
    BY <1>1, <2>1, DeviceSame DEF DeviceAtReplied, WillAgree
  <2>5. Replies(req, val)' \/ WantsStream(val)'
    BY <2>1, DeviceSame
    DEF DeviceAtReplied, Replies, HasReply, WantsStream, Settled
  <2>6. QED
    BY <2>3, <2>4, <2>5 DEF DeviceAtStreaming
<1>6. Streaming(req, val)'
  BY <1>3, <1>4, <1>5 DEF Streaming, More
<1>7. QED
  BY <1>4, <1>6 DEF Stage, Answering
\* The socket call returns r, and the answer is sent.
LEMMA CallPossible ==
  ASSUME Fits, NEW req \in Requests, bdata = Payload(req),
         NEW r \in B!Results(req.op)
  PROVE  Possible(req, r)
<1>1. req.op \in Op
  <2>1. req \in Requested
    BY RequestIs
  <2>2. QED
    BY <2>1 DEF Requested
<1>2. /\ req.op = CLOSE => r = 0
      /\ req.op = CONNECT => r \in {-1, 0, 1}
      /\ req.op = SEND => r \in {-1, 0} \cup 1..512
      /\ req.op = RECV => r \in {-2, -1, 0} \cup 1..512
                          /\ (r > 0 => r <= FromBe16(bdata[3], bdata[4]))
      /\ req.op \in {OPEN, LISTEN, ACCEPT} => r \in {0, 1}
  BY <1>1, ResultsAre
<1>3. req.op = RECV => FromBe16(bdata[3], bdata[4]) = req.size /\ req.size \in Nat
  BY RequestIs
<1>4. req.op = RECV => r \in {-2, -1, 0} \cup 1..req.size
  BY <1>2, <1>3
<1>5. QED
  BY <1>2, <1>4 DEF Possible

LEMMA SocketCallKeeps ==
  ASSUME TypesInv, Fits, Stage, NEW r \in B!SocketValues, B!SocketCall(r),
         served' = Append(served, [op |-> bdata[1], conn |-> bdata[2], val |-> r]),
         UNCHANGED <<deviceVars, sent>>
  PROVE  Stage'
<1>1. PICK req \in Requests :
        /\ req = LastSent /\ Pending(req) /\ bdata = Payload(req)
        /\ \/ req.op # SEND /\ Got(req) /\ ~Gone
           \/ req.op = SEND /\ Call(req)
  BY CalledWith DEF B!SocketCall
<1>2. bdata[1] = req.op /\ bdata[2] = req.conn
  BY <1>1, RequestIs
<1>3. /\ r \in B!Results(req.op)
      /\ sockets' = IF req.op = OPEN /\ r = 1 THEN sockets \cup {req.conn}
                    ELSE IF req.op = CLOSE THEN sockets \ {req.conn} ELSE sockets
      /\ bpc' = "wait_cmd" /\ bwait_for' = GBRIDGE_CMD_DATA_PC
      /\ bwaiting_cmd' = GBRIDGE_CMD_DATA_PC /\ bres' = r
      /\ UNCHANGED <<toPC, bconnected, bdata>>
  BY <1>2, SameCodes DEF B!SocketCall, B!SendAndWait, B!packet
<1>4. PICK addr \in B!Senders(req.op, r) :
        toDev' = toDev \o DataFrame(GBRIDGE_CMD_DATA_PC, B!ReplyPayload(req.op, r, addr))
  BY <1>2, SameCodes, SameWire DEF B!SocketCall, B!SendAndWait, B!Writes
<1>5. Possible(req, r) /\ r \in Int
  BY <1>1, <1>3, CallPossible, ValueType
<1>6. Executed(req, r)'
  <2>1. served' = <<[op |-> req.op, conn |-> req.conn, val |-> r]>>
    BY <1>1, <1>2 DEF Pending
  <2>2. QED
    BY <1>3, <1>5, <2>1 DEF Executed, Rpc!Execution
<1>7. BridgeAtReplying(req)'
  BY <1>1, <1>3
  DEF BridgeAtReplying, BridgeWaits, Got, BridgeAtGot, Call, BridgeAtCall,
      BridgeHas, BridgeListens
<1>8. ASSUME connected' PROVE DeviceAtReplying(req, r)'
  <2> DEFINE reply == B!ReplyPayload(req.op, r, addr)
             frame == DataFrame(GBRIDGE_CMD_DATA_PC, reply)
  <2>1. reply \in Answers(req, r)
    BY <1>4 DEF Answers
  <2>2. frame \in Seq(Byte)
    BY <1>5, <2>1, AnswerFrame
  <2>3. toDev' = toDev \o frame
    BY <1>4
  <2> HIDE DEF frame, reply
  <2>4. <<>> \o frame = frame
    BY <2>2
  <2>5. \A cmd : (Asked(cmd) => Asked(cmd)') /\ (Told(cmd) => Told(cmd)')
    BY DeviceSame DEF Asked, Told, Settled
  <2>6. Expects => Expects'
    BY DeviceSame DEF Expects, Settled
  <2>7. CASE req.op # SEND /\ Got(req) /\ ~Gone
    <3>1. /\ open = sockets
          /\ \/ toDev = <<Reply(GBRIDGE_CMD_DATA)>> /\ Asked(GBRIDGE_CMD_DATA)
             \/ toDev = <<>> /\ (Told(GBRIDGE_CMD_DATA) \/ Expects)
      BY <1>8, <2>7, DeviceSame DEF Got, DeviceAtGot
    <3>2. LastCommand(req) = GBRIDGE_CMD_DATA
      BY <2>7 DEF LastCommand
    <3>3. WillAgree(req, r)'
      BY <1>3, <3>1, DeviceSame DEF WillAgree
    <3>4. \/ /\ toDev' = <<Reply(GBRIDGE_CMD_DATA)>> \o frame
             /\ Asked(GBRIDGE_CMD_DATA)'
          \/ toDev' = frame /\ (Told(GBRIDGE_CMD_DATA)' \/ Expects')
      BY <2>3, <2>4, <2>5, <2>6, <3>1
    <3>5. DeviceWaits(LastCommand(req), reply)'
      BY <3>2, <3>4 DEF DeviceWaits, frame
    <3>6. QED
      BY <2>1, <3>3, <3>5 DEF DeviceAtReplying, Answers
  <2>8. CASE req.op = SEND /\ Call(req)
    <3>1. /\ open = sockets
          /\ \/ toDev = <<Reply(GBRIDGE_CMD_STREAM)>> /\ Asked(GBRIDGE_CMD_STREAM)
             \/ toDev = <<>> /\ (Told(GBRIDGE_CMD_STREAM) \/ Expects)
      BY <1>8, <2>8, DeviceSame DEF Call, DeviceAtCall
    <3>2. LastCommand(req) = GBRIDGE_CMD_STREAM
      BY <2>8 DEF LastCommand
    <3>3. WillAgree(req, r)'
      BY <1>3, <3>1, DeviceSame DEF WillAgree
    <3>4. \/ /\ toDev' = <<Reply(GBRIDGE_CMD_STREAM)>> \o frame
             /\ Asked(GBRIDGE_CMD_STREAM)'
          \/ toDev' = frame /\ (Told(GBRIDGE_CMD_STREAM)' \/ Expects')
      BY <2>3, <2>4, <2>5, <2>6, <3>1
    <3>5. DeviceWaits(LastCommand(req), reply)'
      BY <3>2, <3>4 DEF DeviceWaits, frame
    <3>6. QED
      BY <2>1, <3>3, <3>5 DEF DeviceAtReplying, Answers
  <2>9. QED
    BY <1>1, <2>7, <2>8
<1>9. req = LastSent'
  BY <1>1 DEF LastSent
<1>10. QED
  BY <1>6, <1>7, <1>8, <1>9 DEF Stage, Answering, Replying
-----------------------------------------------------------------------------
\* The rest does not come in time: the bridge gives up.
LEMMA RecvTimesOutKeeps ==
  ASSUME TypesInv, Fits, Stage, B!RecvTimesOut, UNCHANGED <<deviceVars, history>>
  PROVE  Stage' \/ Lost'
<1>1. PICK k \in 0..Len(toPC) :
        /\ bpc \in B!Receiving /\ k < bcount /\ toPC' = After(toPC, k)
        /\ ~bconnected' /\ bpc' = "gbridge_loop"
        /\ UNCHANGED <<toDev, bres, sockets>>
  BY SameWire DEF B!RecvTimesOut, B!GbridgeInit, B!handler
<1>2. /\ ~Gone /\ \A bytes : ~BridgeRests(bytes)
      /\ \A req \in Requests :
           /\ ~BridgeAtCall(req) /\ ~BridgeAtReplying(req) /\ ~BridgeAtReplied(req)
           /\ ~BridgeAtStreaming(req)
  BY <1>1
  DEF B!Receiving, Gone, BridgeRests, BridgeAtCall, BridgeAtReplying, BridgeAtReplied,
      BridgeAtStreaming, BridgeWaits
<1>3. Gone'
  BY <1>1 DEF Gone
<1>4. ASSUME connected => toDev = <<>> /\ (\/ Asked(GBRIDGE_CMD_DEBUG_LINE)
                                           \/ Asked(GBRIDGE_CMD_DATA)
                                           \/ Asked(GBRIDGE_CMD_STREAM))
      PROVE  Lost'
  BY <1>1, <1>3, <1>4, DeviceSame DEF Lost, Asked, Settled
<1>5. ASSUME NEW n \in DebugLines, Debug(n) PROVE Lost'
  BY <1>4, <1>5 DEF Debug, DeviceAtDebug
<1>6. ASSUME NEW req \in Requests, Data(req) PROVE Lost'
  BY <1>4, <1>6 DEF Data, DeviceAtData
<1>7. ASSUME NEW req \in Requests, SendsStream(req) PROVE Lost'
  BY <1>4, <1>7 DEF SendsStream, DeviceAtStream
<1>8. ASSUME NEW req \in Requests, req = LastSent, Got(req) PROVE Stage'
  <2>1. BridgeAtGot(req) /\ toPC = <<>> /\ served = <<>> /\ req.op = SEND
    <3>1. bpc # "gbridge_prot_ma_loop"
      BY <1>1 DEF B!Receiving
    <3>2. QED
      BY <1>2, <1>8, <3>1 DEF Got, BridgeAtGot, Pending
  <2>2. toPC' = <<>>
    <3>1. k \in 0..0
      BY <1>1, <2>1
    <3>2. k = 0
      BY <3>1
    <3>3. After(<<>>, 0) = <<>>
      BY DEF After
    <3>4. QED
      BY <1>1, <2>1, <3>2, <3>3
  <2>3. BridgeAtGot(req)'
    BY <1>3, <2>1, <2>2 DEF BridgeAtGot, history
  <2>4. DeviceAtGot(req)' \/ ~connected'
    BY <1>1, <1>3, <1>8, DeviceSame
    DEF Got, DeviceAtGot, Asked, Told, Expects, Settled
  <2>5. req = LastSent'
    BY <1>8 DEF LastSent, history
  <2>6. QED
    BY <2>3, <2>4, <2>5 DEF Stage, Asking, Got
<1>9. QED
  BY <1>2, <1>5, <1>6, <1>7, <1>8
  DEF Stage, Rest, Asking, Answering, Call, Replying, Replied, Streaming, Done

LEMMA BridgeKeepsStage ==
  ASSUME TypesInv, Fits, Stage,
         Bridge, UNCHANGED deviceVars
  PROVE  Stage'
<1>1. CASE BridgeServes
  <2>1. PICK r \in B!SocketValues :
          /\ B!SocketCall(r)
          /\ served' = Append(served, [op |-> bdata[1], conn |-> bdata[2], val |-> r])
          /\ UNCHANGED sent
    BY <1>1 DEF BridgeServes
  <2>2. QED
    BY <2>1, SocketCallKeeps
<1>2. CASE BridgeOther
  <2>1. UNCHANGED <<deviceVars, history>>
    BY <1>2 DEF BridgeOther
  <2>2. CASE B!HandshakeSend \/ B!AssertFails \/ B!RecvUnknown
    BY <2>2, NoHandshakeAgain, NoAssertFails, NothingUnknown
  <2>3. CASE B!HandshakeByte
    BY <2>1, <2>3, HandshakeByteKeeps
  <2>4. CASE B!LoopIdle \/ B!ProtMaLoop
    BY <2>1, <2>4, BridgeIdleKeeps
  <2>5. CASE B!RecvAck
    BY <2>1, <2>5, BridgeAckKeeps
  <2>6. CASE B!RecvDebugLine
    BY <2>1, <2>6, RecvDebugLineKeeps
  <2>7. CASE B!RecvData
    BY <2>1, <2>7, BridgeRecvDataKeeps
  <2>8. CASE B!DebugLineLength
    BY <2>1, <2>8, DebugLineLengthKeeps
  <2>9. CASE B!DebugLineString
    BY <2>1, <2>9, BridgeDebugLineStringKeeps
  <2>10. CASE B!DataSize \/ B!DataBuffer
    BY <2>1, <2>10, DataSizeKeeps
  <2>11. CASE B!DataChecksum
    BY <2>1, <2>11, DataChecksumKeeps
  <2>12. CASE B!StreamCommand
    BY <2>1, <2>12, StreamCommandKeeps
  <2>13. CASE B!StreamSize
    BY <2>1, <2>13, StreamSizeKeeps
  <2>14. CASE B!StreamBuffer
    BY <2>1, <2>14, StreamBufferKeeps
  <2>15. CASE B!StreamChecksum
    BY <2>1, <2>15, StreamChecksumKeeps
  <2>16. CASE B!RecvStream
    BY <2>1, <2>16, RecvStreamKeeps
  <2>17. CASE B!EndWaitStream
    BY <2>1, <2>17, EndWaitStreamKeeps
  <2>18. CASE B!EndWait
    BY <2>1, <2>18, EndWaitKeeps
  <2>19. CASE B!MainEnds
    BY <2>1, <2>19, MainEndsKeeps
  <2>20. QED
    BY <1>2, <2>2, <2>3, <2>4, <2>5, <2>6, <2>7, <2>8, <2>9, <2>10, <2>11, <2>12,
       <2>13, <2>14, <2>15, <2>16, <2>17, <2>18, <2>19
    DEF BridgeOther
<1>3. QED
  BY <1>1, <1>2 DEF Bridge
\* Nothing that the bridge writes is a handshake any more.
LEMMA AnswerSent ==
  ASSUME TypesInv, Fits, Stage, NEW r \in B!SocketValues, B!SocketCall(r)
  PROVE  \E req \in Requests : \E reply \in Answers(req, r) :
           /\ Possible(req, r) /\ r \in Int
           /\ toDev' = toDev \o DataFrame(GBRIDGE_CMD_DATA_PC, reply)
<1>1. PICK req \in Requests : bdata = Payload(req)
  BY CalledWith DEF B!SocketCall
<1>2. bdata[1] = req.op
  BY <1>1, RequestIs
<1>3. r \in B!Results(req.op)
  BY <1>2, SameCodes DEF B!SocketCall
<1>4. PICK addr \in B!Senders(req.op, r) :
        toDev' = toDev \o DataFrame(GBRIDGE_CMD_DATA_PC, B!ReplyPayload(req.op, r, addr))
  BY <1>2, SameCodes, SameWire DEF B!SocketCall, B!SendAndWait, B!Writes
<1>5. Possible(req, r) /\ r \in Int
  BY <1>1, <1>3, CallPossible, ValueType
<1>6. B!ReplyPayload(req.op, r, addr) \in Answers(req, r)
  BY DEF Answers
<1>7. QED
  BY <1>4, <1>5, <1>6

LEMMA BridgeKeepsMuted ==
  ASSUME TypesInv, Fits, Stage, Muted, UNCHANGED deviceVars,
         Bridge \/ B!RecvTimesOut
  PROVE  Muted'
<1>1. UNCHANGED <<connected, handshake_progress>>
  BY DeviceSame
<1>2. CASE UNCHANGED toDev
  BY <1>1, <1>2, MutedStays
<1>3. ASSUME NEW bytes, Harmless(bytes), toDev' = toDev \o bytes PROVE Muted'
  BY <1>1, <1>3, MutedAdds
<1>4. CASE BridgeServes
  <2>1. PICK r \in B!SocketValues : B!SocketCall(r)
    BY <1>4 DEF BridgeServes
  <2>2. PICK req \in Requests : \E reply \in Answers(req, r) :
          /\ Possible(req, r) /\ r \in Int
          /\ toDev' = toDev \o DataFrame(GBRIDGE_CMD_DATA_PC, reply)
    BY <2>1, AnswerSent
  <2>3. PICK reply \in Answers(req, r) :
          toDev' = toDev \o DataFrame(GBRIDGE_CMD_DATA_PC, reply)
    BY <2>2
  <2>4. Harmless(DataFrame(GBRIDGE_CMD_DATA_PC, reply))
    BY <2>2, ReplyHarmless
  <2>5. QED
    BY <1>3, <2>3, <2>4
<1>5. CASE B!EndWaitStream
  <2>1. PICK req \in Requests, val \in B!SocketValues :
          Replied(req, val) /\ bres = val
    BY <1>5, StreamFollows
  <2>2. val \in 1..255
    BY <2>1, ValueType, StreamedFrame DEF Replied, Executed
  <2>3. toDev' = toDev \o StreamFrame(GBRIDGE_CMD_STREAM_PC, Content(val))
    BY <1>5, <2>1, SameWire, SameCodes DEF B!EndWaitStream, B!SendAndWait, B!Writes
  <2>4. QED
    BY <1>3, <2>2, <2>3, StreamHarmless
<1>6. CASE B!DebugLineString \/ B!DataChecksum \/ B!StreamChecksum
  <2>1. \/ UNCHANGED toDev
        \/ \E cmd \in {GBRIDGE_CMD_DEBUG_LINE, GBRIDGE_CMD_DATA, GBRIDGE_CMD_STREAM} :
             toDev' = toDev \o <<Reply(cmd)>>
    BY <1>6, SameWire, SameCodes
    DEF B!DebugLineString, B!DataChecksum, B!StreamChecksum, B!Writes
  <2>2. QED
    BY <1>2, <1>3, <2>1, AckHarmless
<1>7. CASE B!HandshakeSend
  BY <1>7, NoHandshakeAgain
<1>8. CASE \/ BridgeOther /\ ~B!HandshakeSend /\ ~B!DebugLineString /\ ~B!DataChecksum
              /\ ~B!StreamChecksum /\ ~B!EndWaitStream
           \/ B!RecvTimesOut
  <2>1. UNCHANGED toDev
    BY <1>8
    DEF BridgeOther, B!HandshakeByte, B!LoopIdle, B!RecvAck, B!RecvDebugLine,
        B!RecvData, B!RecvUnknown, B!ReadsCommand, B!DebugLineLength, B!DataSize,
        B!DataBuffer, B!StreamCommand, B!StreamSize, B!StreamBuffer, B!ProtMaLoop,
        B!RecvStream, B!AssertFails, B!EndWait, B!MainEnds, B!RecvTimesOut, B!wire
  <2>2. QED
    BY <1>2, <2>1
<1>9. QED
  BY <1>4, <1>5, <1>6, <1>7, <1>8 DEF Bridge

\* The bridge gives up by a timeout only.
LEMMA BridgeStays ==
  ASSUME TypesInv, Fits, Stage, ~Gone, Bridge, UNCHANGED deviceVars
  PROVE  ~Gone'
<1>1. bconnected \/ bpc = "handshake_read"
  BY BridgePlaces
  DEF BridgeRests, BridgeAtDebug, BridgeInDebug, BridgeAtData, BridgeInData,
      BridgeAtGot, BridgeAtStream, BridgeAtCall, BridgeHas, BridgeListens,
      BridgeAtReplying, BridgeAtReplied, BridgeAtStreaming, BridgeWaits
<1>2. CASE BridgeServes
  BY <1>2 DEF BridgeServes, B!SocketCall, B!SendAndWait, Gone
<1>3. CASE BridgeOther
  <2>1. UNCHANGED <<deviceVars, history>>
    BY <1>3 DEF BridgeOther
  <2>2. CASE B!HandshakeSend \/ B!AssertFails \/ B!RecvUnknown
    BY <2>2, NoHandshakeAgain, NoAssertFails, NothingUnknown
  <2>3. CASE B!HandshakeByte
    BY <2>3 DEF B!HandshakeByte, Gone
  <2>4. CASE B!StreamCommand \/ B!StreamChecksum
    <3>1. bconnected'
      BY <1>1, <2>1, <2>4, StreamCommandKeeps, StreamChecksumKeeps
      DEF B!StreamCommand, B!StreamChecksum, B!Received
    <3>2. QED
      BY <3>1 DEF Gone
  <2>5. CASE B!RecvData
    BY <1>1, <2>5
    DEF B!RecvData, B!ReadsCommand, B!InGbridgeLoop, B!Recv, B!LoopReturns, B!link, Gone
  <2>6. CASE B!DataChecksum
    BY <2>6 DEF B!DataChecksum, Gone
  <2>7. CASE B!MainEnds
    BY <1>1, <2>7 DEF B!MainEnds, Gone
  <2>8. CASE \/ B!LoopIdle \/ B!RecvAck \/ B!RecvDebugLine \/ B!DebugLineLength
             \/ B!DebugLineString \/ B!DataSize \/ B!DataBuffer
             \/ B!StreamSize \/ B!StreamBuffer \/ B!ProtMaLoop \/ B!RecvStream
             \/ B!EndWaitStream \/ B!EndWait
    <3>1. UNCHANGED bconnected /\ bpc # "handshake_read"
      BY <2>8
      DEF B!LoopIdle, B!RecvAck, B!RecvDebugLine, B!ReadsCommand, B!InGbridgeLoop,
          B!DebugLineLength, B!DebugLineString, B!DataSize, B!DataBuffer, B!Received,
          B!StreamSize, B!StreamBuffer, B!ProtMaLoop, B!RecvStream, B!EndWaitStream,
          B!EndWait, B!link
    <3>2. QED
      BY <1>1, <3>1 DEF Gone
  <2>9. QED
    BY <1>3, <2>2, <2>3, <2>4, <2>5, <2>6, <2>7, <2>8 DEF BridgeOther
<1>4. QED
  BY <1>2, <1>3 DEF Bridge
-----------------------------------------------------------------------------
(***************************************************************************)
(* The call in progress.                                                   *)
(***************************************************************************)
LEMMA SameLastSent ==
  ASSUME UNCHANGED sent
  PROVE  LastSent' = LastSent
BY DEF LastSent

LEMMA NewLastSent ==
  ASSUME sent \in Seq(Requests), NEW req \in Requests, sent' = Append(sent, req)
  PROVE  sent' \in Seq(Requests) /\ LastSent' = req /\ Len(sent') = Len(sent) + 1
<1>1. Append(sent, req) \in Seq(Requests) /\ Len(Append(sent, req)) = Len(sent) + 1
  OBVIOUS
<1>2. Append(sent, req)[Len(sent) + 1] = req /\ Append(sent, req) # <<>>
  OBVIOUS
<1>3. QED
  BY <1>1, <1>2 DEF LastSent

LEMMA CallerGoesOn ==
  ASSUME TypesInv, CallerInv, UNCHANGED <<caller, history>>,
         pc' = pc \/ (pc = "gbridge_loop" /\ pc' = "gbridge_prot_ma_loop")
  PROVE  CallerInv'
<1>1. UNCHANGED <<wait_for, call, sent>>
  BY DEF caller, history
<1>2. InCall' <=> InCall
  BY <1>1 DEF InCall
<1>3. QED
  BY <1>1, <1>2, SameLastSent DEF CallerInv

LEMMA CallerKept ==
  ASSUME TypesInv, CallerInv, Device \/ (Timeout /\ UNCHANGED history)
  PROVE  CallerInv'
<1>1. CASE GbridgeLoop /\ UNCHANGED history
  BY <1>1, CallerGoesOn
  DEF GbridgeLoop, Handshake, RecvAck, RecvReset, RecvCommand, ReadsCommand, LoopIdle,
      RecvDataLen, RecvDataByte, RecvDataChecksum, RecvStreamLen, RecvStreamByte,
      RecvStreamChecksum, Processing, LoopReturns
<1>2. CASE Timeout /\ UNCHANGED history
  BY <1>2, CallerGoesOn DEF Timeout, LoopReturns
<1>3. CASE DeviceSends
  <2>1. PICK req \in Requests :
          /\ StartCall(req)
          /\ \/ connected /\ sent' = Append(sent, req)
             \/ ~connected /\ UNCHANGED history
    BY <1>3 DEF DeviceSends
  <2>2. CASE connected /\ sent' = Append(sent, req)
    <3>1. pc' = "wait_previous" /\ wait_for' = GBRIDGE_CMD_DATA /\ call' = req
      BY <2>1, <2>2 DEF StartCall
    <3>2. InCall'
      BY <3>1 DEF InCall, GBRIDGE_CMD_DATA, GBRIDGE_CMD_DEBUG_LINE
    <3>3. QED
      BY <2>2, <3>1, <3>2, NewLastSent DEF CallerInv
  <2>3. CASE ~connected /\ UNCHANGED history
    <3>1. pc' = "mobile_loop" /\ call' = NoCall
      BY <2>1, <2>3 DEF StartCall, Fails, Returns
    <3>2. UNCHANGED sent
      BY <2>3 DEF history
    <3>3. QED
      BY <3>1, <3>2 DEF CallerInv, InCall
  <2>4. QED
    BY <2>1, <2>2, <2>3
<1>4. CASE (\E n \in DebugLines : DebugLine(n)) /\ UNCHANGED history
  <2>1. pc = "mobile_loop" /\ pc' = "wait_previous" /\ UNCHANGED <<call, sent>>
        /\ wait_for' = GBRIDGE_CMD_DEBUG_LINE
    BY <1>4 DEF DebugLine, history
  <2>2. QED
    BY <2>1 DEF CallerInv, InCall
<1>5. CASE (BeginWait \/ EndSend) /\ UNCHANGED history
  <2>1. UNCHANGED <<wait_for, call, sent>>
    BY <1>5 DEF BeginWait, EndSend, caller, history
  <2>2. InCall' <=> InCall
    BY <1>5, <2>1 DEF InCall, BeginWait, EndSend, WaitOver
  <2>3. QED
    BY <2>1, <2>2, SameLastSent DEF CallerInv
<1>6. CASE EndDebugLine /\ UNCHANGED history
  BY <1>6 DEF EndDebugLine, WaitOver, CallerInv, InCall, history
<1>7. CASE EndSendData /\ UNCHANGED history
  <2>1. UNCHANGED sent /\ InCall
    BY <1>7
    DEF EndSendData, WaitOver, InCall, history, GBRIDGE_CMD_DATA, GBRIDGE_CMD_DEBUG_LINE
  <2>2. CASE UNCHANGED call /\ pc' = "wait_previous" /\ wait_for' = GBRIDGE_CMD_STREAM
    <3>1. InCall'
      BY <2>2 DEF InCall, GBRIDGE_CMD_STREAM, GBRIDGE_CMD_DEBUG_LINE
    <3>2. QED
      BY <2>1, <2>2, <3>1, SameLastSent DEF CallerInv
  <2>3. CASE pc' = "mobile_loop" /\ call' = NoCall
    BY <2>1, <2>3 DEF CallerInv, InCall
  <2>4. QED
    BY <1>7, <2>2, <2>3 DEF EndSendData, Fails, Returns
<1>8. CASE EndRecvData /\ UNCHANGED history
  <2>1. UNCHANGED sent /\ InCall
    BY <1>8 DEF EndRecvData, InCall, history
  <2>2. CASE UNCHANGED call /\ pc' = "recv_stream_wait"
    BY <2>1, <2>2, SameLastSent DEF CallerInv, InCall
  <2>3. CASE pc' = "mobile_loop" /\ call' = NoCall
    BY <2>1, <2>3 DEF CallerInv, InCall
  <2>4. QED
    BY <1>8, <2>2, <2>3 DEF EndRecvData, Fails, Returns
<1>9. CASE EndRecvStream /\ UNCHANGED history
  BY <1>9 DEF EndRecvStream, Returns, CallerInv, InCall, history
<1>10. CASE (MobileLoopReturns \/ ProtMaLoop) /\ UNCHANGED history
  BY <1>10 DEF MobileLoopReturns, ProtMaLoop, CallerInv, InCall, history, caller
<1>11. QED
  BY <1>1, <1>2, <1>3, <1>4, <1>5, <1>6, <1>7, <1>8, <1>9, <1>10
  DEF Device, DeviceOther
-----------------------------------------------------------------------------
(***************************************************************************)
(* Before the device is connected.                                         *)
(***************************************************************************)
\* The next byte of a handshake of which n bytes have been heard.
LEMMA HeardNext ==
  ASSUME NEW n \in 0..3, NEW line \in Seq(Byte),
         HeardOf(n) \o line = GBRIDGE_HANDSHAKE
  PROVE  /\ Len(line) = 4 - n /\ Head(line) = GBRIDGE_HANDSHAKE[n + 1]
         /\ HeardOf(n + 1) \o After(line, 1) = GBRIDGE_HANDSHAKE
         /\ n = 3 => After(line, 1) = <<>>
<1> DEFINE heard == HeardOf(n)
           shake == GBRIDGE_HANDSHAKE
           more == HeardOf(n + 1)
           rest == After(line, 1)
<1>1. shake \in Seq(Byte) /\ Len(shake) = 4
  BY HeardIs
<1>2. heard \in Seq(Byte) /\ Len(heard) = n
  <2>1. n \in 0..4
    OBVIOUS
  <2>2. QED
    BY <2>1, HeardIs, Zenon
<1>3. Append(heard, shake[n + 1]) = more
  BY HeardMore
<1>4. heard \o line = shake
  OBVIOUS
<1> HIDE DEF heard, shake, more, rest
<1>5. Len(line) = 4 - n
  <2>1. Len(heard \o line) = Len(heard) + Len(line)
    BY <1>2, BytesJoined
  <2>2. 4 = n + Len(line)
    BY <1>1, <1>2, <1>4, <2>1
  <2> DEFINE m == Len(line)
  <2>3. m \in Nat /\ 4 = n + m
    BY <2>2
  <2> HIDE DEF m
  <2>4. m = 4 - n
    BY <2>3
  <2>5. QED
    BY <2>4 DEF m
<1>6. line[1] = shake[n + 1] /\ Head(line) = line[1]
  <2>1. 1 \in 1..Len(line)
    BY <1>5
  <2>2. (heard \o line)[Len(heard) + 1] = line[1]
    BY <1>2, <2>1, BytesJoined
  <2>3. Head(line) = line[1]
    BY <2>1
  <2>4. QED
    BY <1>2, <1>4, <2>2, <2>3
<1>7. Append(heard, Head(line)) \o rest = heard \o line
  <2>1. Len(line) >= 1
    <3>1. 4 - n >= 1
      OBVIOUS
    <3>2. QED
      BY <1>5, <3>1
  <2>2. QED
    BY <1>2, <2>1, MoveByte DEF rest
<1>8. more \o rest = shake
  BY <1>3, <1>4, <1>6, <1>7
<1>9. n = 3 => rest = <<>>
  <2>1. HAVE n = 3
  <2>2. After(line, Len(line)) = <<>>
    BY AfterAll
  <2>3. QED
    BY <1>5, <2>1, <2>2 DEF rest
<1>10. QED
  BY <1>5, <1>6, <1>8, <1>9 DEF shake, more, rest

LEMMA DeviceStarts ==
  ASSUME TypesInv, Starting, Device \/ Timeout, UNCHANGED bridgeVars
  PROVE  (Starting \/ (Muted /\ Rest /\ connected /\ ~Gone /\ sent = <<>>))'
<1>1. UNCHANGED <<bconnected, bhandshake_progress, bwaiting_cmd, bdata_ready, bpc,
                  sockets>>
  BY DEF bridgeVars
<1>2. /\ toDev \in Seq(Byte) /\ handshake_progress \in 0..3
      /\ processing_cmd = GBRIDGE_CMD_NONE /\ waiting_cmd = GBRIDGE_CMD_NONE
      /\ ~data_ready
  BY DEF TypesInv, DeviceInv, DeviceTypeOK, ReceiverTypeOK, Safe, DisconnectedIsIdle,
         Starting
<1>3. CASE /\ UNCHANGED <<connected, handshake_progress, wire, history, open>>
           /\ pc' \in {"mobile_loop", "gbridge_loop", "gbridge_prot_ma_loop"}
  BY <1>1, <1>3 DEF Starting, wire, history
<1>4. CASE Handshake /\ UNCHANGED history
  <2>1. /\ bpc = "handshake_read" /\ pc = "gbridge_loop"
        /\ HeardOf(handshake_progress) \o toDev = GBRIDGE_HANDSHAKE
    BY <1>2, <1>4 DEF Starting, Handshake, Reads, InGbridgeLoop
  <2>2. /\ Len(toDev) = 4 - handshake_progress
        /\ Head(toDev) = GBRIDGE_HANDSHAKE[handshake_progress + 1]
        /\ HeardOf(handshake_progress + 1) \o After(toDev, 1) = GBRIDGE_HANDSHAKE
        /\ handshake_progress = 3 => After(toDev, 1) = <<>>
    BY <1>2, <2>1, HeardNext
  <2>3. /\ toDev' = After(toDev, 1) /\ pc' = "gbridge_prot_ma_loop"
        /\ UNCHANGED <<waiting_cmd, processing_cmd, data_ready, open, sent, served, past>>
    BY <1>4, <2>1
    DEF Handshake, Reads, LoopReturns, processing, packet, caller, history
  <2>7. Len(GBRIDGE_HANDSHAKE) = 4
    BY HeardIs
  <2>4. CASE handshake_progress < 3
    <3>1. /\ ~connected' /\ handshake_progress' = handshake_progress + 1
          /\ toPC' = toPC \o <<>>
      <4>1. handshake_progress + 1 # Len(GBRIDGE_HANDSHAKE)
        BY <1>2, <2>4, <2>7
      <4>2. QED
        BY <1>4, <2>2, <4>1 DEF Handshake, Writes
    <3>2. toPC' = <<>>
      BY <3>1 DEF Starting
    <3>3. QED
      BY <1>1, <2>1, <2>2, <2>3, <3>1, <3>2 DEF Starting
  <2>5. CASE handshake_progress = 3
    <3>1. /\ connected' /\ handshake_progress' = 0
          /\ toPC' = toPC \o GBRIDGE_HANDSHAKE
      <4>1. handshake_progress + 1 = Len(GBRIDGE_HANDSHAKE)
        BY <2>5, <2>7
      <4>2. QED
        BY <1>4, <2>2, <4>1 DEF Handshake, Writes
    <3>2. toDev' = <<>>
      BY <2>2, <2>3, <2>5
    <3>3. /\ <<>> \o GBRIDGE_HANDSHAKE = GBRIDGE_HANDSHAKE
          /\ GBRIDGE_HANDSHAKE \o <<>> = GBRIDGE_HANDSHAKE
          /\ HeardOf(0) = <<>>
      BY HeardIs
    <3>4. toPC' = GBRIDGE_HANDSHAKE
      BY <3>1, <3>3 DEF Starting
    <3>5. BridgeRests(<<>>)'
      <4>1. /\ bpc' = "handshake_read" /\ ~bconnected' /\ bhandshake_progress' = 0
            /\ bwaiting_cmd' = GBRIDGE_CMD_NONE /\ ~bdata_ready'
        BY <1>1, <2>1 DEF Starting
      <4>2. HeardOf(0) \o GBRIDGE_HANDSHAKE = GBRIDGE_HANDSHAKE \o <<>>
        BY <3>3
      <4>3. QED
        BY <3>4, <4>1, <4>2 DEF BridgeRests
    <3>6. DeviceAtRest'
      BY <1>1, <1>2, <2>3, <3>2
      DEF DeviceAtRest, DeviceIdle, Settled, Starting
    <3>7. Muted'
      <4>1. <<>> \in Seq(Byte) /\ Deaf(<<>>)
        BY DEF Deaf
      <4>2. QED
        BY <3>1, <3>2, <4>1, NothingHeard
    <3>8. ~Gone' /\ sent' = <<>>
      BY <1>1, <2>1, <2>3 DEF Gone, Starting
    <3>9. QED
      BY <3>1, <3>5, <3>6, <3>7, <3>8 DEF Rest
  <2>6. QED
    BY <1>2, <2>4, <2>5
<1>5. CASE DeviceSends
  <2>1. PICK req \in Requests :
          StartCall(req) /\ Fails(req) /\ UNCHANGED <<toPC, history>>
    BY <1>5 DEF DeviceSends, StartCall, Starting
  <2>2. /\ UNCHANGED <<connected, handshake_progress, wire, history>>
        /\ pc' = "mobile_loop"
    BY <2>1 DEF StartCall, Fails, Returns, link, wire
  <2>3. open' = open
    <3>1. open' = IF req.op = OPEN /\ ErrorValue(req.op) = 1 THEN open \cup {req.conn}
                  ELSE IF req.op = CLOSE THEN open \ {req.conn} ELSE open
      BY <2>1 DEF Fails, Returns
    <3>2. ~(req.op = OPEN /\ ErrorValue(req.op) = 1)
      BY DEF ErrorValue
    <3>3. open = {}
      BY DEF Starting
    <3>4. QED
      BY <3>1, <3>2, <3>3
  <2>4. QED
    BY <1>3, <2>2, <2>3
<1>6. CASE (LoopIdle \/ MobileLoopReturns \/ ProtMaLoop) /\ UNCHANGED history
  <2>1. UNCHANGED <<link, wire, caller>>
    BY <1>6 DEF LoopIdle, MobileLoopReturns, ProtMaLoop, LoopReturns
  <2>2. pc' \in {"mobile_loop", "gbridge_loop", "gbridge_prot_ma_loop"}
    BY <1>6 DEF LoopIdle, MobileLoopReturns, ProtMaLoop, LoopReturns
  <2>3. UNCHANGED <<connected, handshake_progress, open>>
    BY <2>1 DEF link, caller
  <2>4. QED
    BY <1>3, <1>6, <2>1, <2>2, <2>3
<1>7. ~(\E n \in DebugLines : DebugLine(n)) /\ ~BeginWait /\ ~EndDebugLine
      /\ ~EndSendData /\ ~EndSend /\ ~EndRecvData /\ ~EndRecvStream /\ ~Timeout
  BY DEF DebugLine, BeginWait, EndDebugLine, EndSendData, EndSend, WaitOver,
         EndRecvData, EndRecvStream, Timeout, Starting
<1>8. GbridgeLoop => Handshake \/ LoopIdle
  BY DEF GbridgeLoop, RecvAck, RecvReset, RecvCommand, ReadsCommand, RecvDataLen,
         RecvDataByte, RecvDataChecksum, RecvStreamLen, RecvStreamByte,
         RecvStreamChecksum, Processing, Starting
<1>9. QED
  BY <1>4, <1>5, <1>6, <1>7, <1>8 DEF Device, DeviceOther

LEMMA BridgeStarts ==
  ASSUME TypesInv, Starting, Bridge \/ BridgeTimeout, MaxLate = 0
  PROVE  Starting' /\ UNCHANGED history
<1>1. /\ UNCHANGED <<connected, handshake_progress, pc, open>>
      /\ handshake_progress \in 0..3 /\ toDev \in Seq(Byte)
  BY DeviceSame DEF Bridge, BridgeTimeout, TypesInv, DeviceInv, DeviceTypeOK, ReceiverTypeOK
<1>2. B!HandshakeSend /\ UNCHANGED history
  <2>1. ~B!HandshakeTimesOut \/ ~BridgeTimeout
    <3>1. SUFFICES ASSUME B!HandshakeTimesOut, BridgeTimeout PROVE FALSE
      OBVIOUS
    <3>2. Len(toDev) <= 0 /\ bpc = "handshake_read"
      BY <3>1 DEF BridgeTimeout, B!HandshakeTimesOut, B!RecvTimesOut, B!Receiving
    <3>3. HeardOf(handshake_progress) \o toDev = GBRIDGE_HANDSHAKE
      BY <3>2 DEF Starting
    <3>4. Len(toDev) = 4 - handshake_progress
      BY <1>1, <3>3, HeardNext
    <3>5. QED
      BY <1>1, <3>2, <3>4
  <2>2. ~B!RecvTimesOut /\ ~B!HandshakeByte
    BY DEF Starting, B!RecvTimesOut, B!Receiving, B!HandshakeByte, B!Reads
  <2>3. ~BridgeServes
    BY DEF Starting, BridgeServes, B!SocketCall, B!AtSocketCall
  <2>4. BridgeOther => B!HandshakeSend /\ UNCHANGED history
    BY <2>2
    DEF Starting, BridgeOther, B!LoopIdle, B!RecvAck, B!RecvDebugLine, B!RecvData,
        B!RecvUnknown, B!ReadsCommand, B!InGbridgeLoop, B!DebugLineLength,
        B!DebugLineString, B!DataSize, B!DataBuffer, B!DataChecksum,
        B!StreamCommand, B!StreamSize, B!StreamBuffer, B!StreamChecksum, B!Received,
        B!ProtMaLoop, B!RecvStream, B!AssertFails, B!AtSocketCall,
        B!EndWaitStream, B!EndWait, B!MainEnds
  <2>5. QED
    BY <2>1, <2>2, <2>3, <2>4 DEF Bridge, BridgeTimeout
<1>3. /\ bpc = "handshake" /\ toDev' = toDev \o GBRIDGE_HANDSHAKE
      /\ bpc' = "handshake_read"
      /\ UNCHANGED <<toPC, bconnected, bhandshake_progress, bwaiting_cmd, bdata_ready,
                     sockets>>
  BY <1>2, SameCodes DEF B!HandshakeSend, B!Writes, B!link, B!packet, B!handler
<1>4. handshake_progress = 0 /\ toDev = <<>>
  BY <1>3 DEF Starting
<1>5. HeardOf(0) \o toDev' = GBRIDGE_HANDSHAKE
  <2>1. /\ <<>> \o GBRIDGE_HANDSHAKE = GBRIDGE_HANDSHAKE /\ HeardOf(0) = <<>>
    BY HeardIs
  <2>2. QED
    BY <1>3, <1>4, <2>1
<1>6. HeardOf(handshake_progress') \o toDev' = GBRIDGE_HANDSHAKE
  BY <1>1, <1>4, <1>5
<1>7. QED
  BY <1>1, <1>2, <1>3, <1>6 DEF Starting, history
-----------------------------------------------------------------------------
(***************************************************************************)
(* What has been executed.                                                 *)
(***************************************************************************)
LEMMA Joined ==
  ASSUME NEW S, NEW s \in Seq(S), NEW t \in Seq(S)
  PROVE  /\ Len(s \o t) = Len(s) + Len(t)
         /\ \A i \in 1..Len(s) : (s \o t)[i] = s[i]
         /\ \A i \in 1..Len(t) : (s \o t)[Len(s) + i] = t[i]
OBVIOUS

LEMMA ServedInOrder ==
  ASSUME HistoryInv, sent \in Seq(Requests)
  PROVE  InOrder(past \o served, Len(sent))
<1> DEFINE m == Len(past)
           n == Len(sent)
           executed == past \o served
<1>1. /\ past \in Seq(Executions) /\ served \in Seq(Executions)
      /\ m \in Nat /\ n \in Nat /\ Len(served) \in {0, 1}
  <2>1. past \in Seq(Executions) /\ served \in Seq(Executions) /\ Len(served) <= 1
    BY DEF HistoryInv
  <2>2. m \in Nat /\ n \in Nat /\ Len(served) \in Nat
    BY <2>1
  <2> DEFINE k == Len(served)
  <2>3. k \in Nat /\ k <= 1
    BY <2>1, <2>2
  <2> HIDE DEF k
  <2>4. k = 0 \/ k = 1
    BY <2>3
  <2>5. QED
    BY <2>1, <2>2, <2>4 DEF k
<1>2. PICK request \in [1..m -> 1..(n - 1)] :
        \A i \in 1..m :
          /\ past[i].op = sent[request[i]].op
          /\ past[i].conn = sent[request[i]].conn
          /\ i > 1 => request[i] > request[i - 1]
  BY DEF HistoryInv, InOrder
<1>3. CASE Len(served) = 0
  <2>1. executed = past
    BY <1>1, <1>3
  <2>2. request \in [1..m -> 1..n]
    BY <1>1, <1>2
  <2>3. \E f \in [1..m -> 1..n] : \A i \in 1..m :
          /\ past[i].op = sent[f[i]].op /\ past[i].conn = sent[f[i]].conn
          /\ i > 1 => f[i] > f[i - 1]
    BY <1>2, <2>2
  <2>4. InOrder(past, n)
    BY <2>3, Zenon DEF InOrder
  <2>5. QED
    BY <2>1, <2>4
<1>4. CASE Len(served) = 1
  <2>1. /\ Len(executed) = m + 1 /\ executed[m + 1] = served[1]
        /\ \A i \in 1..m : executed[i] = past[i]
    <3>1. past \in Seq(Executions) /\ served \in Seq(Executions)
      BY <1>1
    <3>2. /\ Len(past \o served) = Len(past) + Len(served)
          /\ \A i \in 1..Len(past) : (past \o served)[i] = past[i]
          /\ \A i \in 1..Len(served) :
               (past \o served)[Len(past) + i] = served[i]
      <4>1. Len(past \o served) = Len(past) + Len(served)
        BY <3>1, Joined
      <4>2. \A i \in 1..Len(past) : (past \o served)[i] = past[i]
        BY <3>1, Joined
      <4>3. \A i \in 1..Len(served) :
              (past \o served)[Len(past) + i] = served[i]
        BY <3>1, Joined
      <4>4. QED
        BY <4>1, <4>2, <4>3
    <3>3. 1 \in 1..Len(served)
      BY <1>4
    <3>4. (past \o served)[Len(past) + 1] = served[1]
      BY <3>2, <3>3
    <3>5. QED
      BY <1>4, <3>2, <3>4
  <2>2. /\ n >= 1 /\ served[1].op = sent[n].op /\ served[1].conn = sent[n].conn
    <3>1. served # <<>>
      BY <1>4
    <3>2. sent # <<>> /\ served[1].op = LastSent.op /\ served[1].conn = LastSent.conn
      BY <3>1 DEF HistoryInv
    <3>3. n >= 1
      BY <3>2
    <3>4. QED
      BY <3>2, <3>3 DEF LastSent
  <2> DEFINE all == [i \in 1..(m + 1) |-> IF i = m + 1 THEN n ELSE request[i]]
  <2> HIDE DEF m, n, executed
  <2>3. all \in [1..(m + 1) -> 1..n]
    BY <1>1, <1>2, <2>2
  <2>4. ASSUME NEW i \in 1..(m + 1)
        PROVE  /\ executed[i].op = sent[all[i]].op
               /\ executed[i].conn = sent[all[i]].conn
               /\ i > 1 => all[i] > all[i - 1]
    <3>1. CASE i = m + 1
      <4>1. all[i] = n
        BY <3>1
      <4>2. i > 1 => all[i] > all[i - 1]
        <5>1. HAVE i > 1
        <5>2. i - 1 \in 1..m /\ i - 1 # m + 1 /\ i - 1 \in 1..(m + 1)
          BY <1>1, <3>1, <5>1
        <5>3. all[i - 1] = request[i - 1] /\ request[i - 1] \in 1..(n - 1)
          BY <1>2, <5>2
        <5>4. QED
          BY <1>1, <4>1, <5>3
      <4>3. QED
        BY <2>1, <2>2, <3>1, <4>1, <4>2
    <3>2. CASE i # m + 1
      <4>1. i \in 1..m
        BY <1>1, <3>2
      <4>2. all[i] = request[i] /\ executed[i] = past[i]
        BY <2>1, <3>2, <4>1
      <4>3. i > 1 => all[i] > all[i - 1]
        <5>1. HAVE i > 1
        <5>2. i - 1 # m + 1 /\ i - 1 \in 1..(m + 1)
          BY <1>1, <4>1, <5>1
        <5>3. all[i - 1] = request[i - 1]
          BY <5>2
        <5>4. QED
          BY <1>2, <4>1, <4>2, <5>1, <5>3
      <4>4. QED
        BY <1>2, <4>1, <4>2, <4>3
    <3>3. QED
      BY <3>1, <3>2
  <2> HIDE DEF all
  <2>5. QED
    BY <2>1, <2>3, <2>4 DEF InOrder, executed, n
<1>5. QED
  BY <1>1, <1>3, <1>4

LEMMA SendsInOrder ==
  ASSUME HistoryInv, sent \in Seq(Requests), NEW req \in Requests,
         sent' = Append(sent, req), served' = <<>>, past' = past \o served
  PROVE  HistoryInv'
<1> DEFINE n == Len(sent)
           executed == past \o served
<1>1. /\ past \in Seq(Executions) /\ served \in Seq(Executions)
      /\ executed \in Seq(Executions)
  BY DEF HistoryInv
<1>2. PICK request \in [1..Len(executed) -> 1..n] :
        \A i \in 1..Len(executed) :
          /\ executed[i].op = sent[request[i]].op
          /\ executed[i].conn = sent[request[i]].conn
          /\ i > 1 => request[i] > request[i - 1]
  BY ServedInOrder DEF InOrder
<1>3. n \in Nat /\ Len(sent') - 1 = n /\ \A j \in 1..n : sent'[j] = sent[j]
  OBVIOUS
<1>4. \A i \in 1..Len(executed) : sent'[request[i]] = sent[request[i]]
  BY <1>2, <1>3
<1>5. past' = executed
  OBVIOUS
<1> HIDE DEF n, executed
<1>6. InOrder(past, Len(sent) - 1)'
  <2>1. /\ request \in [1..Len(past') -> 1..(Len(sent') - 1)]
        /\ \A i \in 1..Len(past') :
             /\ past'[i].op = sent'[request[i]].op
             /\ past'[i].conn = sent'[request[i]].conn
             /\ i > 1 => request[i] > request[i - 1]
    BY <1>2, <1>3, <1>4, <1>5
  <2>2. QED
    BY <2>1 DEF InOrder
<1>7. <<>> \in Seq(Executions) /\ Len(<<>>) = 0
  OBVIOUS
<1>8. QED
  BY <1>1, <1>5, <1>6, <1>7 DEF HistoryInv

LEMMA ServesInOrder ==
  ASSUME HistoryInv, served = <<>>, NEW req \in Requests, req = LastSent,
         req # NoCall, NEW val \in B!SocketValues,
         served' = <<Rpc!Execution(req, val)>>, UNCHANGED <<sent, past>>
  PROVE  HistoryInv'
<1> DEFINE one == Rpc!Execution(req, val)
<1>1. one \in Executions /\ one.op = req.op /\ one.conn = req.conn
  BY DEF Executions, Rpc!Execution
<1> HIDE DEF one
<1>2. served' = <<one>>
  BY DEF one
<1>3. <<one>> \in Seq(Executions) /\ Len(<<one>>) = 1 /\ <<one>>[1] = one
  BY <1>1
<1>4. sent # <<>> /\ LastSent' = LastSent
  BY DEF LastSent
<1>5. InOrder(past, Len(sent) - 1)'
  <2>1. InOrder(past, Len(sent) - 1)
    BY DEF HistoryInv
  <2>2. past' = past /\ sent' = sent
    OBVIOUS
  <2>3. PICK f \in [1..Len(past) -> 1..(Len(sent) - 1)] :
          \A i \in 1..Len(past) :
            /\ past[i].op = sent[f[i]].op /\ past[i].conn = sent[f[i]].conn
            /\ i > 1 => f[i] > f[i - 1]
    BY <2>1 DEF InOrder
  <2>4. f \in [1..Len(past') -> 1..(Len(sent') - 1)]
    BY <2>2
  <2>5. \A i \in 1..Len(past') :
          /\ past'[i].op = sent'[f[i]].op /\ past'[i].conn = sent'[f[i]].conn
          /\ i > 1 => f[i] > f[i - 1]
    BY <2>2, <2>3
  <2>6. QED
    BY <2>4, <2>5 DEF InOrder
<1>6. QED
  BY <1>1, <1>2, <1>3, <1>4, <1>5 DEF HistoryInv

LEMMA HistorySame ==
  ASSUME HistoryInv, UNCHANGED history
  PROVE  HistoryInv'
BY SameLastSent DEF HistoryInv, InOrder, history

LEMMA DeviceKeepsHistory ==
  ASSUME HistoryInv, CallerInv, Device
  PROVE  HistoryInv'
<1>1. CASE UNCHANGED history
  BY <1>1, HistorySame
<1>2. CASE ~UNCHANGED history
  <2>1. PICK req \in Requests :
          sent' = Append(sent, req) /\ served' = <<>> /\ past' = past \o served
    BY <1>2 DEF Device, DeviceSends, DeviceOther
  <2>2. QED
    BY <2>1, SendsInOrder DEF CallerInv
<1>3. QED
  BY <1>1, <1>2

\* The request that is executed is the last one, for the first time.
LEMMA ServesLast ==
  ASSUME TypesInv, Fits, Stage, NEW r \in B!SocketValues, B!SocketCall(r),
         served' = Append(served, [op |-> bdata[1], conn |-> bdata[2], val |-> r])
  PROVE  \E req \in Requests :
           /\ req = LastSent /\ req # NoCall /\ served = <<>>
           /\ served' = <<Rpc!Execution(req, r)>>
<1>1. PICK req \in Requests : req = LastSent /\ Pending(req) /\ bdata = Payload(req)
  BY CalledWith DEF B!SocketCall
<1>2. req # NoCall /\ bdata[1] = req.op /\ bdata[2] = req.conn
  BY <1>1, RequestIs
<1>3. served = <<>>
  BY <1>1 DEF Pending
<1>4. served' = Append(<<>>, Rpc!Execution(req, r))
  BY <1>2, <1>3 DEF Rpc!Execution
<1>5. QED
  BY <1>1, <1>2, <1>3, <1>4

LEMMA BridgeKeepsHistory ==
  ASSUME TypesInv, Fits, Stage, HistoryInv, Bridge
  PROVE  HistoryInv'
<1>1. CASE BridgeServes
  <2>1. PICK r \in B!SocketValues :
          /\ B!SocketCall(r)
          /\ served' = Append(served, [op |-> bdata[1], conn |-> bdata[2], val |-> r])
          /\ UNCHANGED <<sent, past>>
    BY <1>1 DEF BridgeServes
  <2>2. PICK req \in Requests :
          /\ req = LastSent /\ req # NoCall /\ served = <<>>
          /\ served' = <<Rpc!Execution(req, r)>>
    BY <2>1, ServesLast
  <2>3. QED
    BY <2>1, <2>2, ServesInOrder
<1>2. CASE BridgeOther
  BY <1>2, HistorySame DEF BridgeOther
<1>3. QED
  BY <1>1, <1>2 DEF Bridge
-----------------------------------------------------------------------------
(***************************************************************************)
(* The stream of a RECV.                                                   *)
(***************************************************************************)
LEMMA ReturnedSame ==
  ASSUME StreamReturned, UNCHANGED <<stream, call, ret>>
  PROVE  StreamReturned'
BY DEF StreamReturned

LEMMA AnswerReturns ==
  ASSUME Stage, connected, EndRecvStream
  PROVE  \E req \in Requests, val \in B!SocketValues :
           /\ req = LastSent /\ Executed(req, val) /\ WillAgree(req, val)
           /\ More(req, val) /\ HasStream(val)
<1>1. pc = "recv_stream_wait" /\ stream_max_size = 0
  BY DEF EndRecvStream
<1>2. PICK req \in Requests :
        /\ req = LastSent
        /\ \E val \in B!SocketValues :
             /\ Executed(req, val)
             /\ \/ DeviceAtReplying(req, val) \/ DeviceAtReplied(req, val)
                \/ More(req, val) /\ DeviceAtStreaming(req, val)
                \/ DeviceAtDone(req, val)
  BY <1>1, DevicePlaces, OnlyWanted
<1>3. PICK val \in B!SocketValues :
        /\ Executed(req, val)
        /\ \/ DeviceAtReplying(req, val) \/ DeviceAtReplied(req, val)
           \/ More(req, val) /\ DeviceAtStreaming(req, val)
           \/ DeviceAtDone(req, val)
  BY <1>2
<1>4. ~DeviceAtReplying(req, val) /\ ~Replies(req, val)
  BY <1>1, OnlyWanted
<1>5. ~DeviceAtReplied(req, val) /\ ~DeviceAtStreaming(req, val)
  BY <1>1, <1>4 DEF DeviceAtReplied, DeviceAtStreaming, WantsStream, InAnswer
<1>6. WillAgree(req, val) /\ More(req, val) /\ HasStream(val)
  BY <1>1, <1>3, <1>4, <1>5, OnlyWanted
<1>7. QED
  BY <1>2, <1>3, <1>6

LEMMA StreamKept ==
  ASSUME TypesInv, Fits, CallerInv, StreamReturned, connected => Stage,
         Device \/ Timeout
  PROVE  StreamReturned'
<1>1. CASE UNCHANGED <<stream, call, ret>>
  BY <1>1, ReturnedSame
<1>2. CASE call' # NoCall
  BY <1>2 DEF StreamReturned
<1>3. CASE ~ret'.replied
  BY <1>3 DEF StreamReturned
<1>4. InCall => call # NoCall
  BY RequestIs DEF CallerInv
<1>5. CASE RecvStreamLen \/ RecvStreamByte
  <2>1. processing_cmd = GBRIDGE_CMD_STREAM_PC /\ UNCHANGED call
    BY <1>5 DEF RecvStreamLen, RecvStreamByte, Processing, LoopReturns, caller
  <2>2. stream_max_size # 0
    BY <2>1
    DEF TypesInv, DeviceInv, Safe, StillAllowed, CannotReceive,
        GBRIDGE_CMD_STREAM_PC, GBRIDGE_CMD_NONE
  <2>3. pc = "recv_stream_wait"
    BY <2>2 DEF TypesInv, DeviceInv, Safe, StreamBufferOwned
  <2>4. QED
    BY <1>2, <1>4, <2>1, <2>3 DEF InCall
<1>6. CASE DeviceSends
  <2>1. PICK req \in Requests : StartCall(req)
    BY <1>6 DEF DeviceSends
  <2>2. call' = req \/ ~ret'.replied
    BY <2>1 DEF StartCall, Fails, Returns
  <2>3. req # NoCall
    BY RequestIs
  <2>4. QED
    BY <1>2, <1>3, <2>2, <2>3
<1>7. CASE EndSendData
  <2>1. UNCHANGED <<stream, call, ret>> \/ ~ret'.replied
    BY <1>7 DEF EndSendData, WaitOver, Fails, Returns, streaming
  <2>2. QED
    BY <1>1, <1>3, <2>1
<1>8. CASE EndRecvData
  <2> DEFINE val == ReplyValue(call, Received)
  <2>1. \/ ~ret'.replied
        \/ ret' = [req |-> call, replied |-> TRUE, val |-> val]
           /\ ~(call.op = RECV /\ val > 0)
        \/ UNCHANGED call
    BY <1>8 DEF EndRecvData, Fails, Returns
  <2> HIDE DEF val
  <2>2. CASE ret' = [req |-> call, replied |-> TRUE, val |-> val]
             /\ ~(call.op = RECV /\ val > 0)
    BY <2>2 DEF StreamReturned
  <2>3. CASE UNCHANGED call
    BY <1>2, <1>4, <1>8, <2>3 DEF InCall, EndRecvData
  <2>4. QED
    BY <1>3, <2>1, <2>2, <2>3
<1>9. CASE EndRecvStream
  <2>1. CASE ~connected
    BY <1>3, <1>9, <2>1 DEF EndRecvStream, Returns, FlagsTypeOK
  <2>2. CASE connected
    <3>1. PICK val \in B!SocketValues : HasStream(val)
      BY <1>9, <2>2, AnswerReturns
    <3>2. stream' = stream /\ ret' = [req |-> call, replied |-> connected, val |-> res]
      BY <1>9, <2>2 DEF EndRecvStream, Returns, streaming
    <3>3. QED
      BY <3>1, <3>2 DEF HasStream, StreamReturned
  <2>3. QED
    BY <2>1, <2>2
<1>10. CASE \/ Timeout \/ \E n \in DebugLines : DebugLine(n)
            \/ BeginWait \/ EndDebugLine \/ EndSend \/ MobileLoopReturns \/ ProtMaLoop
  <2>1. UNCHANGED <<stream, call, ret>>
    BY <1>10
    DEF Timeout, GbridgeInit, LoopReturns, DebugLine, BeginWait, EndDebugLine, EndSend,
        WaitOver, MobileLoopReturns, ProtMaLoop, caller, streaming
  <2>2. QED
    BY <1>1, <2>1
<1>11. CASE GbridgeLoop /\ ~RecvStreamLen /\ ~RecvStreamByte
  <2>1. UNCHANGED <<stream, caller>>
    BY <1>11
    DEF GbridgeLoop, Handshake, RecvAck, RecvReset, RecvCommand, ReadsCommand, LoopIdle,
        RecvDataLen, RecvDataByte, RecvDataChecksum, RecvStreamChecksum,
        Processing, LoopReturns, GbridgeInit, streaming
  <2>2. QED
    BY <1>1, <2>1 DEF caller
<1>12. QED
  BY <1>5, <1>6, <1>7, <1>8, <1>9, <1>10, <1>11 DEF Device, DeviceOther
-----------------------------------------------------------------------------
(***************************************************************************)
(* Nobody is late.                                                         *)
(***************************************************************************)
\* The call finds the answer to its own request.
LEMMA AnswerComes ==
  ASSUME TypesInv, Fits, CallerInv, Stage, EndRecvData, connected
  PROVE  \E req \in Requests, val \in B!SocketValues :
           /\ req = LastSent /\ call = req /\ Executed(req, val)
           /\ WillAgree(req, val)
           /\ \/ More(req, val) /\ UNCHANGED <<call, ret, open>>
              \/ ~More(req, val) /\ Returns(call, TRUE, val)
<1>1. pc = "recv_data_wait" /\ data_ready
  BY DEF EndRecvData
<1>2. call = LastSent
  BY <1>1 DEF CallerInv, InCall
<1>3. /\ \A cmd : ~Asked(cmd) /\ ~Told(cmd)
      /\ ~Expects /\ ~DeviceIdle
      /\ \A reply : ~InReply(reply) /\ ~InAnswer(reply)
      /\ \A val : ~WantsStream(val) /\ ~HasStream(val)
  BY <1>1
  DEF Asked, Told, Expects, DeviceIdle, InReply, InAnswer, WantsStream,
      HasStream, Settled
<1>4. /\ ~DeviceAtRest /\ ~DeviceAtDebug /\ ~DeviceAtData /\ ~DeviceAtStream
      /\ ~DeviceAtCall
      /\ \A req : ~DeviceAtGot(req)
      /\ \A req, val : ~DeviceAtReplying(req, val)
  BY <1>3 DEF DeviceAtRest, DeviceAtDebug, DeviceAtData, DeviceAtStream,
     DeviceAtCall, DeviceAtGot, DeviceAtReplying, DeviceWaits
<1>5. PICK req \in Requests :
        /\ req = LastSent
        /\ \E val \in B!SocketValues :
             /\ Executed(req, val) /\ Possible(req, val)
             /\ \/ DeviceAtReplied(req, val)
                \/ More(req, val) /\ DeviceAtStreaming(req, val)
                \/ DeviceAtDone(req, val)
  BY <1>4, DevicePlaces
<1>6. PICK val \in B!SocketValues :
        /\ Executed(req, val) /\ Possible(req, val)
        /\ \/ DeviceAtReplied(req, val)
           \/ More(req, val) /\ DeviceAtStreaming(req, val)
           \/ DeviceAtDone(req, val)
  BY <1>5
<1>7. WillAgree(req, val) /\ Replies(req, val)
  BY <1>3, <1>6 DEF DeviceAtReplied, DeviceAtStreaming, DeviceAtDone
<1>8. PICK reply \in Answers(req, val) : HasReply(reply)
  BY <1>7 DEF Replies
<1>9. val \in Int
  BY ValueType
<1>10. Received = reply
  BY <1>6, <1>8, <1>9, AnswerIs DEF Received, HasReply
<1>11. call = req /\ GoodReply(call, Received) /\ ReplyValue(call, Received) = val
  BY <1>2, <1>5, <1>6, <1>9, <1>10, AnswerIs
<1>12. CASE More(req, val)
  <2>1. UNCHANGED <<call, ret, open>>
    BY <1>11, <1>12 DEF EndRecvData, More
  <2>2. QED
    BY <1>5, <1>6, <1>7, <1>11, <1>12, <2>1
<1>13. CASE ~More(req, val)
  <2>1. Returns(call, TRUE, val)
    BY <1>11, <1>13 DEF EndRecvData, More
  <2>2. QED
    BY <1>5, <1>6, <1>7, <1>11, <1>13, <2>1
<1>14. QED
  BY <1>12, <1>13

\* The device gives up by a timeout only.
LEMMA DeviceStays ==
  ASSUME TypesInv, Fits, CallerInv, Stage, connected, Device
  PROVE  connected'
<1>1. CASE DeviceSends
  BY <1>1 DEF DeviceSends, StartCall, link
<1>2. CASE DeviceOther
  <2>1. UNCHANGED <<bridgeVars, history>>
    BY <1>2 DEF Device, DeviceOther
  <2>2. CASE RecvCommand \/ RecvDataLen \/ RecvDataChecksum
    BY <2>1, <2>2, RecvCommandKeeps, RecvDataLenKeeps, RecvDataChecksumKeeps
  <2>3. CASE RecvStreamLen \/ RecvStreamChecksum
    BY <2>1, <2>3, RecvStreamLenKeeps, RecvStreamChecksumKeeps
  <2>4. CASE RecvAck \/ RecvDataByte \/ RecvStreamByte \/ LoopIdle
    BY <2>4 DEF RecvAck, RecvDataByte, RecvStreamByte, LoopIdle, link
  <2>5. CASE \/ \E n \in DebugLines : DebugLine(n)
             \/ BeginWait \/ EndDebugLine \/ EndSendData \/ EndSend
    BY <2>5 DEF DebugLine, BeginWait, EndDebugLine, EndSendData, EndSend, WaitOver, link
  <2>6. CASE EndRecvData \/ EndRecvStream \/ MobileLoopReturns \/ ProtMaLoop
    <3>1. UNCHANGED link
      BY <2>6, Zenon DEF EndRecvData, EndRecvStream, MobileLoopReturns, ProtMaLoop
    <3>2. QED
      BY <3>1 DEF link
  <2>7. ~Handshake /\ ~RecvReset
    BY NoReset DEF Handshake
  <2>8. QED
    BY <1>2, <2>2, <2>3, <2>4, <2>5, <2>6, <2>7 DEF DeviceOther, GbridgeLoop
<1>3. QED
  BY <1>1, <1>2 DEF Device

\* While both are connected, every call is answered.
LEMMA CallAnswered ==
  ASSUME TypesInv, Fits, CallerInv, Stage, connected, Device,
         call = NoCall /\ sent # <<>> => ret.replied
  PROVE  call' = NoCall /\ sent' # <<>> => ret'.replied
<1>1. CASE UNCHANGED <<call, ret, sent>>
  BY <1>1
<1>2. CASE DeviceSends
  <2>1. PICK req \in Requests : call' = req
    BY <1>2 DEF DeviceSends, StartCall
  <2>2. QED
    BY <2>1, RequestIs
<1>3. CASE EndSendData
  <2>1. UNCHANGED <<call, ret>>
    BY <1>3 DEF EndSendData
  <2>2. InCall
    BY <1>3 DEF EndSendData, WaitOver, InCall, GBRIDGE_CMD_DATA, GBRIDGE_CMD_DEBUG_LINE
  <2>3. QED
    BY <2>1, <2>2, RequestIs DEF CallerInv
<1>4. CASE EndRecvData
  <2>1. UNCHANGED call \/ (\E val : Returns(call, TRUE, val))
    BY <1>4, AnswerComes
  <2>2. CASE UNCHANGED call
    <3>1. call # NoCall
      BY <1>4, RequestIs DEF EndRecvData, CallerInv, InCall
    <3>2. QED
      BY <2>2, <3>1
  <2>3. CASE \E val : Returns(call, TRUE, val)
    BY <2>3 DEF Returns
  <2>4. QED
    BY <2>1, <2>2, <2>3
<1>5. CASE EndRecvStream
  BY <1>5 DEF EndRecvStream, Returns
<1>6. CASE DeviceOther /\ ~EndSendData /\ ~EndRecvData /\ ~EndRecvStream
  <2>1. UNCHANGED <<call, ret>>
    <3>1. CASE GbridgeLoop
      <4>1. LoopReturns
        BY <3>1
        DEF GbridgeLoop, Handshake, RecvAck, RecvReset, RecvCommand, ReadsCommand,
            LoopIdle, RecvDataLen, RecvDataByte, RecvDataChecksum, RecvStreamLen,
            RecvStreamByte, RecvStreamChecksum, Processing
      <4>2. QED
        BY <4>1 DEF LoopReturns, caller
    <3>2. CASE ~GbridgeLoop
      BY <1>6, <3>2
      DEF DeviceOther, DebugLine, BeginWait, EndDebugLine, EndSend, WaitOver,
          MobileLoopReturns, ProtMaLoop, caller
    <3>3. QED
      BY <3>1, <3>2
  <2>2. QED
    BY <1>1, <1>6, <2>1 DEF DeviceOther, history
<1>7. QED
  BY <1>2, <1>3, <1>4, <1>5, <1>6 DEF Device
\* No command is on its way to the bridge.
LEMMA NothingToRead ==
  ASSUME TypesInv, toPC = <<>>, NEW cmd \in Byte, NEW rest \in Seq(Byte)
  PROVE  ~BridgeRests(<<cmd>> \o rest)
<1> DEFINE frame == <<cmd>> \o rest
           heard == HeardOf(bhandshake_progress)
           shake == GBRIDGE_HANDSHAKE
           n == Len(frame)
<1>1. frame \in Seq(Byte) /\ n \in Nat /\ n = 1 + Len(rest)
  BY OneThenRest
<1>2. heard \in Seq(Byte) /\ Len(heard) <= 3 /\ shake \in Seq(Byte) /\ Len(shake) = 4
  <2>1. bhandshake_progress \in 0..3
    BY BridgeKnows
  <2>2. bhandshake_progress \in 0..4 /\ bhandshake_progress <= 3
    BY <2>1
  <2>3. heard \in Seq(Byte) /\ Len(heard) = bhandshake_progress
    BY <2>2, HeardIs, Zenon
  <2>4. QED
    BY <2>2, <2>3, HeardIs
<1>3. n >= 1
  <2> DEFINE k == Len(rest)
  <2>1. k \in Nat /\ n = 1 + k
    BY <1>1
  <2> HIDE DEF k, n
  <2>2. QED
    BY <2>1
<1>4. toPC # frame
  BY <1>3
<1> HIDE DEF frame, heard, shake
<1>5. heard \o toPC # shake \o frame
  <2>1. Len(heard \o toPC) = Len(heard)
    BY <1>2
  <2>2. Len(shake \o frame) = 4 + n
    <3>1. Len(shake \o frame) = Len(shake) + Len(frame)
      BY <1>1, <1>2, BytesJoined, Zenon
    <3>2. QED
      BY <1>2, <3>1
  <2> HIDE DEF n
  <2>3. QED
    BY <1>1, <1>2, <2>1, <2>2
<1>6. toPC # <<Reply(bwait_for)>> \o frame
  <2>1. <<Reply(bwait_for)>> \o frame # <<>>
    BY <1>1
  <2>2. QED
    BY <2>1
<1>7. QED
  BY <1>4, <1>5, <1>6 DEF BridgeRests, frame, heard, shake

LEMMA NothingComes ==
  ASSUME TypesInv, Fits, toPC = <<>>, B!Blocked, ~Gone
  PROVE  /\ \A n \in DebugLines : ~BridgeAtDebug(n)
         /\ \A req \in Requests : ~BridgeAtData(req) /\ ~BridgeAtStream(req)
<1>1. CASE bpc \in B!Receiving /\ bcount > 0
  <2>1. Len(toPC) < bcount
    BY <1>1
  <2>2. QED
    BY <1>1, <2>1, EnoughComes
<1>2. CASE \/ bpc \in {"handshake_read", "closed", "aborted"}
           \/ bpc \in {"gbridge_loop", "wait_cmd"}
  <2>1. ASSUME NEW n \in DebugLines PROVE ~BridgeAtDebug(n)
    <3>1. n \in Nat /\ n <= 255
      BY DeviceAssumption DEF DeviceAssumption, Byte
    <3>2. Content(n) \in Seq(Byte) /\ Len(Content(n)) = n
      BY <3>1, ContentType
    <3> DEFINE rest == <<n>> \o Content(n)
    <3>3. DebugFrame(Content(n)) = <<GBRIDGE_CMD_DEBUG_LINE>> \o rest /\ rest \in Seq(Byte)
      BY <3>1, <3>2, DebugFrameIs
    <3> HIDE DEF rest
    <3>4. ~BridgeRests(DebugFrame(Content(n)))
      BY <3>3, NothingToRead, CommandType
    <3>5. QED
      BY <1>2, <3>4 DEF BridgeAtDebug, BridgeInDebug
  <2>2. ASSUME NEW req \in Requests PROVE ~BridgeAtData(req)
    <3> DEFINE m == Len(Payload(req))
               rest == <<m>> \o Checked(Payload(req))
    <3>1. Payload(req) \in Seq(Byte) /\ m <= 255
      <4>1. m \in 2..21 /\ Payload(req) \in Seq(Byte)
        BY RequestIs
      <4> HIDE DEF m
      <4>2. QED
        BY <4>1
    <3>2. DataFrame(GBRIDGE_CMD_DATA, Payload(req)) = <<GBRIDGE_CMD_DATA>> \o rest
          /\ rest \in Seq(Byte)
      BY <3>1, CommandType, DataFrameIs
    <3> HIDE DEF rest
    <3>3. ~BridgeRests(DataFrame(GBRIDGE_CMD_DATA, Payload(req)))
      BY <3>2, NothingToRead, CommandType
    <3>4. QED
      BY <1>2, <3>3 DEF BridgeAtData, BridgeInData
  <2>3. ASSUME NEW req \in Requests PROVE ~BridgeAtStream(req)
    BY <1>2 DEF BridgeAtStream, BridgeInStream
  <2>4. QED
    BY <2>1, <2>2, <2>3
<1>3. QED
  BY <1>1, <1>2 DEF B!Blocked, B!InGbridgeLoop

\* When nothing is on its way and nobody is about to send, nobody waits for
\* anything but a new call.
LEMMA NobodyWaits ==
  ASSUME TypesInv, Fits, Stage, connected, ~Gone, Quiet
  PROVE  ~Timeout /\ ~B!RecvTimesOut
<1>1. /\ toPC = <<>> /\ toDev = <<>> /\ B!Blocked
      /\ InGbridgeLoop \/ pc \in {"mobile_loop", "gbridge_prot_ma_loop"}
  BY DEF Quiet
<1>2. /\ \A n \in DebugLines : ~Debug(n)
      /\ \A req \in Requests : ~Data(req) /\ ~SendsStream(req)
  BY <1>1, NothingComes DEF Debug, Data, SendsStream
<1>3. ASSUME Timeout PROVE FALSE
  <2>1. InGbridgeLoop /\ (processing_cmd # GBRIDGE_CMD_NONE \/ waiting_cmd # GBRIDGE_CMD_NONE)
    BY <1>3 DEF Timeout
  <2>2. CASE processing_cmd = GBRIDGE_CMD_DATA_PC
    <3>1. PICK req \in Requests, val \in B!SocketValues :
            Executed(req, val) /\ Possible(req, val) /\ DeviceAtReplying(req, val)
      BY <2>2, DevicePlaces, OnlyInReply
    <3>2. PICK reply \in Answers(req, val) : InReply(reply)
      BY <2>2, <3>1, OnlyInReply
    <3>3. reply \in Seq(Byte) /\ Checked(reply) \in Seq(Byte)
          /\ Len(Checked(reply)) = Len(reply) + 2 /\ Len(Be16(ChecksumData(reply))) = 2
          /\ <<Len(reply)>> \o Checked(reply) # <<>>
      <4>1. reply \in Seq(Byte) /\ val \in Int /\ Len(reply) \in Byte
        BY <3>1, ValueType, AnswerFrame
      <4>2. Checked(reply) \in Seq(Byte) /\ Len(Checked(reply)) = Len(reply) + 2
            /\ Len(Be16(ChecksumData(reply))) = 2
        BY <4>1, CheckedType
      <4> DEFINE line == <<Len(reply)>> \o Checked(reply)
                 k == Len(Checked(reply))
      <4>3. Len(line) = 1 + k /\ k \in Nat
        BY <4>1, <4>2, OneThenRest
      <4> HIDE DEF k, line
      <4>4. Len(line) # 0
        BY <4>3
      <4>5. line # <<>>
        BY <4>4
      <4>6. QED
        BY <4>1, <4>2, <4>5 DEF line
    <3>4. /\ processing_cmd_state = 1 /\ Len(data) < Len(reply)
          /\ data \o toDev = Checked(reply)
      <4>1. toDev # <<Len(reply)>> \o Checked(reply)
        BY <1>1, <3>3
      <4>2. toDev # Be16(ChecksumData(reply))
        <5>1. Len(<<>>) = 0 /\ Len(Be16(ChecksumData(reply))) = 2
          BY <3>3
        <5> DEFINE sum == Be16(ChecksumData(reply))
        <5> HIDE DEF sum
        <5>2. Len(sum) = 2
          BY <5>1 DEF sum
        <5>3. sum # <<>>
          BY <5>1, <5>2
        <5>4. QED
          BY <1>1, <5>3 DEF sum
      <4>3. QED
        BY <3>2, <4>1, <4>2 DEF InReply
    <3>5. data \in Seq(Byte) /\ data \o toDev = data
      BY <1>1 DEF TypesInv, DeviceInv, DeviceTypeOK, ReceiverTypeOK
    <3> DEFINE m == Len(reply)
    <3>6. m \in Nat /\ m + 2 < m
      BY <3>3, <3>4, <3>5
    <3> HIDE DEF m
    <3>7. QED
      BY <3>6
  <2>3. CASE processing_cmd = GBRIDGE_CMD_STREAM_PC
    <3>1. PICK req \in Requests, val \in B!SocketValues :
            /\ Executed(req, val) /\ Possible(req, val)
            /\ More(req, val) /\ DeviceAtStreaming(req, val)
      BY <2>3, DevicePlaces, OnlyInAnswer
    <3> DEFINE content == Content(val)
    <3>2. InAnswer(content)
      BY <2>3, <3>1, OnlyInAnswer
    <3>3. content \in Seq(Byte) /\ Checked(content) \in Seq(Byte)
          /\ Len(Checked(content)) = Len(content) + 2 /\ Len(Be16(ChecksumData(content))) = 2
          /\ Be16(Len(content)) \o Checked(content) # <<>>
      <4>1. content \in Seq(Byte) /\ val \in Int /\ val \in 1..255 /\ Len(content) = val
        BY <3>1, ValueType, StreamedFrame
      <4>2. Checked(content) \in Seq(Byte) /\ Len(Checked(content)) = Len(content) + 2
            /\ Len(Be16(ChecksumData(content))) = 2
        BY <4>1, CheckedType
      <4>3. Len(content) \in 0..UINT_MAX
        BY <4>1, UintIs
      <4> DEFINE line == Be16(Len(content)) \o Checked(content)
                 k == Len(Checked(content))
      <4>4. Len(line) = 2 + k /\ k \in Nat
        BY <4>2, <4>3, Be16Back
      <4> HIDE DEF k, line
      <4>5. Len(line) # 0
        BY <4>4
      <4>6. line # <<>>
        BY <4>5
      <4>7. QED
        BY <4>1, <4>2, <4>6 DEF line
    <3> HIDE DEF content
    <3>4. /\ processing_cmd_state = 1 /\ Len(stream) < Len(content)
          /\ stream \o toDev = Checked(content)
      <4>1. toDev # Be16(Len(content)) \o Checked(content)
        BY <1>1, <3>3
      <4>2. toDev # Be16(ChecksumData(content))
        <5>1. Len(<<>>) = 0 /\ Len(Be16(ChecksumData(content))) = 2
          BY <3>3
        <5> DEFINE sum == Be16(ChecksumData(content))
        <5> HIDE DEF sum
        <5>2. Len(sum) = 2
          BY <5>1 DEF sum
        <5>3. sum # <<>>
          BY <5>1, <5>2
        <5>4. QED
          BY <1>1, <5>3 DEF sum
      <4>3. QED
        BY <3>2, <4>1, <4>2 DEF InAnswer
    <3>5. stream \in Seq(Byte) /\ stream \o toDev = stream
      BY <1>1 DEF TypesInv, DeviceInv, DeviceTypeOK, ReceiverTypeOK
    <3> DEFINE m == Len(content)
    <3>6. m \in Nat /\ m + 2 < m
      BY <3>3, <3>4, <3>5
    <3> HIDE DEF m
    <3>7. QED
      BY <3>6
  <2>4. CASE waiting_cmd # GBRIDGE_CMD_NONE
    <3>1. pc = "wait_cmd" /\ wait_for = waiting_cmd
      BY <2>4 DEF TypesInv, DeviceInv, Safe, OneWaiter
    <3>2. /\ \A cmd : ~Told(cmd)
          /\ ~Expects /\ ~DeviceIdle
          /\ \A reply : ~InReply(reply) /\ ~InAnswer(reply) /\ ~HasReply(reply)
          /\ \A val : ~WantsStream(val) /\ ~HasStream(val)
      BY <2>4, <3>1
      DEF Told, Expects, DeviceIdle, InReply, InAnswer, HasReply, WantsStream, HasStream
    <3>3. \A cmd : toDev # <<Reply(cmd)>>
      BY <1>1
    <3>4. /\ ~Rest /\ \A req \in Requests : ~Got(req) /\ ~Call(req)
      BY <3>2, <3>3
      DEF Rest, DeviceAtRest, Got, DeviceAtGot, Call, DeviceAtCall
    <3>5. ASSUME NEW req \in Requests, NEW val \in B!SocketValues, Answering(req, val)
          PROVE  FALSE
      <4>1. \A reply : ~HasReply(reply)
        BY <3>2
      <4>2. ~DeviceAtReplied(req, val) /\ ~DeviceAtStreaming(req, val) /\ ~DeviceAtDone(req, val)
        BY <3>2, <4>1 DEF DeviceAtReplied, DeviceAtStreaming, DeviceAtDone, Replies
      <4>3. Possible(req, val) /\ Executed(req, val) /\ DeviceAtReplying(req, val)
        BY <3>5, <4>2 DEF Answering, Replying, Replied, Streaming, Done, Executed
      <4>4. PICK reply \in Answers(req, val) : DeviceWaits(LastCommand(req), reply)
        BY <4>3 DEF DeviceAtReplying
      <4> DEFINE frame == DataFrame(GBRIDGE_CMD_DATA_PC, reply)
                 ack == Reply(LastCommand(req))
      <4>5. frame \in Seq(Byte) /\ ack \in Byte
        BY <4>3, ValueType, AnswerFrame, CommandType
      <4>6. toDev = <<ack>> \o frame
        BY <3>2, <4>4 DEF DeviceWaits
      <4> HIDE DEF frame, ack
      <4>7. Len(<<ack>> \o frame) = 1 + Len(frame) /\ Len(frame) \in Nat
        BY <4>5, OneThenRest
      <4> DEFINE k == Len(frame)
      <4>8. k \in Nat /\ 0 = 1 + k
        BY <1>1, <4>6, <4>7
      <4> HIDE DEF k
      <4>9. QED
        BY <4>8
    <3>6. QED
      BY <1>2, <3>4, <3>5 DEF Stage, Asking
  <2>5. processing_cmd \in {GBRIDGE_CMD_NONE, GBRIDGE_CMD_DATA_PC, GBRIDGE_CMD_STREAM_PC}
    BY DEF TypesInv, DeviceInv, DeviceTypeOK, ReceiverTypeOK
  <2>6. QED
    BY <2>1, <2>2, <2>3, <2>4, <2>5
<1>4. ASSUME B!RecvTimesOut PROVE FALSE
  <2>1. bpc \in B!Receiving /\ Len(toPC) < bcount
    <3>1. PICK n \in 0..Len(toPC) : bpc \in B!Receiving /\ n < bcount
      BY <1>4 DEF B!RecvTimesOut
    <3>2. Len(toPC) = 0
      BY <1>1
    <3>3. n \in 0..0
      BY <3>1, <3>2
    <3>4. n = Len(toPC)
      BY <3>2, <3>3
    <3>5. QED
      BY <3>1, <3>4
  <2>2. /\ ~Rest
        /\ \A req \in Requests :
             /\ ~Call(req)
             /\ \A val \in B!SocketValues : ~Answering(req, val)
    BY <2>1, EnoughComes
    DEF Rest, Call, Answering, Replying, Replied, Streaming, Done
  <2>3. PICK req \in Requests : Got(req)
    BY <1>2, <2>2 DEF Stage, Asking
  <2>4. bpc = "stream_cmd" /\ req.op = SEND
    BY <2>1, <2>3 DEF Got, BridgeAtGot, B!Receiving
  <2>5. Told(GBRIDGE_CMD_DATA)
    <3>1. toDev # <<Reply(GBRIDGE_CMD_DATA)>>
      BY <1>1
    <3>2. QED
      BY <2>3, <2>4, <3>1 DEF Got, DeviceAtGot
  <2>6. ~InGbridgeLoop
    BY <2>5 DEF Told, InGbridgeLoop, GBRIDGE_CMD_DATA, GBRIDGE_CMD_NONE
  <2>7. QED
    BY <1>1, <2>5, <2>6 DEF Told
<1>5. QED
  BY <1>3, <1>4
-----------------------------------------------------------------------------
(***************************************************************************)
(* The bridge has given up with bytes on their way.                        *)
(***************************************************************************)
LEMMA LostBridge ==
  ASSUME Lost, Bridge \/ BridgeTimeout
  PROVE  /\ Lost' /\ UNCHANGED <<deviceVars, history, toDev>>
         /\ Gone' /\ ~BridgeServes
<1>1. ~bconnected /\ bpc \in {"gbridge_loop", "closed"}
  BY DEF Lost, Gone
<1>2. ~BridgeServes
  BY <1>1 DEF BridgeServes, B!SocketCall, B!AtSocketCall
<1>3. ~BridgeTimeout
  BY <1>1 DEF BridgeTimeout, B!RecvTimesOut, B!HandshakeTimesOut, B!Receiving
<1>4. B!MainEnds /\ UNCHANGED history
  BY <1>1, <1>2, <1>3
  DEF Bridge, BridgeOther, B!HandshakeSend, B!HandshakeByte, B!LoopIdle, B!RecvAck,
      B!RecvDebugLine, B!RecvData, B!RecvUnknown, B!ReadsCommand, B!InGbridgeLoop,
      B!DebugLineLength, B!DebugLineString, B!DataSize, B!DataBuffer, B!DataChecksum,
      B!StreamCommand, B!StreamSize, B!StreamBuffer, B!StreamChecksum, B!Received,
      B!ProtMaLoop, B!RecvStream, B!AssertFails, B!AtSocketCall, B!EndWaitStream,
      B!EndWait
<1>5. UNCHANGED deviceVars /\ UNCHANGED toDev /\ Gone'
  BY <1>1, <1>3, <1>4 DEF Bridge, B!MainEnds, B!wire, B!link, Gone
<1>6. Lost'
  BY <1>5, DeviceSame DEF Lost, Asked, Settled
<1>7. QED
  BY <1>2, <1>4, <1>5, <1>6

LEMMA LostDevice ==
  ASSUME TypesInv, Lost, connected, Device \/ Timeout
  PROVE  (BeginWait /\ UNCHANGED history) \/ Timeout
<1>1. /\ toDev = <<>> /\ processing_cmd = GBRIDGE_CMD_NONE
      /\ \/ pc = "wait_previous" \/ (pc = "wait_cmd" /\ waiting_cmd = wait_for)
  BY DEF Lost, Asked, Settled
<1>2. ~Reads(1) /\ ~Reads(2)
  BY <1>1 DEF Reads
<1>3. ~GbridgeLoop
  BY <1>1, <1>2
  DEF GbridgeLoop, Handshake, RecvAck, RecvReset, RecvCommand, ReadsCommand, LoopIdle,
      RecvDataLen, RecvDataByte, RecvDataChecksum, RecvStreamLen, RecvStreamByte,
      RecvStreamChecksum
<1>4. ~DeviceSends
  BY <1>1 DEF DeviceSends, StartCall
<1>5. /\ \A n : ~DebugLine(n)
      /\ ~EndDebugLine /\ ~EndSendData /\ ~EndSend
      /\ ~EndRecvData /\ ~EndRecvStream /\ ~MobileLoopReturns /\ ~ProtMaLoop
  BY <1>1
  DEF DebugLine, EndDebugLine, EndSendData, EndSend, WaitOver, EndRecvData,
      EndRecvStream, MobileLoopReturns, ProtMaLoop
<1>6. QED
  BY <1>3, <1>4, <1>5 DEF Device, DeviceOther

\* The device waits for an acknowledgement until it gives up too.
LEMMA LostStays ==
  ASSUME TypesInv, Fits, CallerInv, StreamReturned, Muted, Lost, Device \/ Timeout,
         UNCHANGED bridgeVars
  PROVE  Lost' /\ StreamReturned'
<1>1. Gone'
  BY DEF Lost, Gone, bridgeVars
<1>2. CASE ~connected
  <2>1. ~connected'
    BY <1>2, StaysDisconnected
  <2>2. StreamReturned'
    BY <1>2, StreamKept
  <2>3. QED
    BY <1>1, <2>1, <2>2 DEF Lost
<1>3. CASE connected /\ BeginWait
  <2>1. UNCHANGED <<stream, call, ret, wait_for, toDev, processing_cmd, data_ready>>
        /\ pc' = "wait_cmd" /\ waiting_cmd' = wait_for
    BY <1>3 DEF BeginWait, streaming, caller, wire, processing, packet
  <2>2. Lost'
    BY <1>1, <1>3, <2>1 DEF Lost, Asked, Settled
  <2>3. QED
    BY <2>1, <2>2, ReturnedSame
<1>4. CASE connected /\ Timeout
  <2>1. UNCHANGED <<stream, call, ret>> /\ ~connected'
    BY <1>4 DEF Timeout, GbridgeInit, LoopReturns, caller
  <2>2. QED
    BY <1>1, <2>1, ReturnedSame DEF Lost
<1>5. QED
  BY <1>2, <1>3, <1>4, LostDevice
-----------------------------------------------------------------------------
(***************************************************************************)
(* Every step keeps the conversation going.                                *)
(***************************************************************************)
LEMMA DeviceKeepsConversation ==
  ASSUME TypesInv, Fits, Conversation, Device
  PROVE  Conversation'
<1>1. CallerInv /\ HistoryInv /\ StreamReturned /\ InTime
  BY DEF Conversation
<1>2. Starting \/ (Muted /\ (Stage \/ Lost))
  BY DEF Conversation
<1>3. UNCHANGED bridgeVars /\ (DeviceSends \/ UNCHANGED history)
  BY DEF Device, DeviceOther
<1>4. CallerInv' /\ HistoryInv'
  BY <1>1, CallerKept, DeviceKeepsHistory
<1>5. Starting \/ Stage => StreamReturned'
  BY <1>1, StreamKept DEF Starting
<1>6. CASE Starting
  <2>1. (Starting \/ (Muted /\ Rest /\ connected /\ ~Gone /\ sent = <<>>))'
    BY <1>3, <1>6, DeviceStarts
  <2>2. (Starting \/ (Muted /\ Stage))'
    BY <2>1 DEF Stage
  <2>3. InTime'
    BY <2>1 DEF InTime, Starting
  <2>4. QED
    BY <1>4, <1>5, <1>6, <2>2, <2>3 DEF Conversation
<1>7. CASE Muted /\ Stage /\ ~Starting
  <2>1. Muted' /\ Stage'
    BY <1>1, <1>3, <1>7, DeviceStaysMuted, DeviceKeepsStage
  <2>2. InTime'
    <3>1. ASSUME Timely
          PROVE  /\ connected' /\ ~Gone'
                 /\ call' = NoCall /\ sent' # <<>> => ret'.replied
      <4>1. connected /\ ~Gone /\ (call = NoCall /\ sent # <<>> => ret.replied)
        BY <1>1, <1>7, <3>1 DEF InTime
      <4>2. connected'
        BY <1>1, <1>7, <4>1, DeviceStays
      <4>3. ~Gone'
        BY <1>3, <4>1 DEF Gone, bridgeVars
      <4>4. call' = NoCall /\ sent' # <<>> => ret'.replied
        BY <1>1, <1>7, <4>1, CallAnswered
      <4>5. QED
        BY <4>2, <4>3, <4>4
    <3>2. QED
      BY <3>1 DEF InTime
  <2>3. QED
    BY <1>4, <1>5, <1>7, <2>1, <2>2 DEF Conversation
<1>8. CASE Muted /\ Lost /\ ~Starting
  <2>1. Muted' /\ Lost' /\ StreamReturned'
    BY <1>1, <1>3, <1>8, DeviceStaysMuted, LostStays
  <2>2. ~Timely
    BY <1>1, <1>8 DEF InTime, Lost
  <2>3. QED
    BY <1>4, <2>1, <2>2 DEF Conversation, InTime
<1>9. QED
  BY <1>2, <1>6, <1>7, <1>8

LEMMA LateDeviceKeepsConversation ==
  ASSUME TypesInv, Fits, Conversation, DeviceTimeout
  PROVE  Conversation'
<1>1. CallerInv /\ HistoryInv /\ StreamReturned /\ InTime
  BY DEF Conversation
<1>2. Timeout /\ connected /\ UNCHANGED bridgeVars /\ UNCHANGED history
  BY DEF DeviceTimeout, Timeout
<1>3. Muted /\ (Stage \/ Lost) /\ ~Starting
  BY <1>2 DEF Conversation, Starting
<1>4. CallerInv' /\ HistoryInv' /\ Muted'
  BY <1>1, <1>2, <1>3, CallerKept, HistorySame, DeviceStaysMuted
<1>5. CASE Stage
  <2>1. Stage' /\ StreamReturned'
    BY <1>1, <1>2, <1>3, <1>5, StreamKept, DeviceKeepsStage
  <2>2. ~Timely
    BY <1>1, <1>2, <1>3, <1>5, NobodyWaits DEF InTime, DeviceTimeout
  <2>3. QED
    BY <1>4, <2>1, <2>2 DEF Conversation, InTime
<1>6. CASE Lost
  <2>1. Lost' /\ StreamReturned'
    BY <1>1, <1>2, <1>3, <1>6, LostStays
  <2>2. ~Timely
    BY <1>1, <1>3, <1>6 DEF InTime, Lost
  <2>3. QED
    BY <1>4, <2>1, <2>2 DEF Conversation, InTime
<1>7. QED
  BY <1>3, <1>5, <1>6

LEMMA CallerUntouched ==
  ASSUME CallerInv, UNCHANGED deviceVars, UNCHANGED sent
  PROVE  CallerInv'
<1>1. UNCHANGED <<pc, wait_for, call>>
  BY DeviceSame
<1>2. QED
  BY <1>1, SameLastSent DEF CallerInv, InCall

LEMMA BridgeKeepsConversation ==
  ASSUME TypesInv, Fits, MaxLate = 0, Conversation, Bridge
  PROVE  Conversation'
<1>1. CallerInv /\ HistoryInv /\ StreamReturned /\ InTime
  BY DEF Conversation
<1>2. UNCHANGED deviceVars /\ UNCHANGED sent
  BY DEF Bridge, BridgeServes, BridgeOther, history
<1>3. CallerInv' /\ StreamReturned' /\ UNCHANGED <<connected, call, ret>>
  BY <1>1, <1>2, CallerUntouched, ReturnedSame, DeviceSame
<1>4. CASE Starting
  <2>1. Starting' /\ UNCHANGED history
    BY <1>4, BridgeStarts
  <2>2. HistoryInv'
    BY <1>1, <2>1, HistorySame
  <2>3. InTime'
    BY <2>1 DEF InTime, Starting
  <2>4. QED
    BY <1>3, <2>1, <2>2, <2>3 DEF Conversation
<1>5. CASE Muted /\ Stage /\ ~Starting
  <2>1. Muted' /\ Stage' /\ HistoryInv'
    BY <1>1, <1>2, <1>5, BridgeKeepsMuted, BridgeKeepsStage, BridgeKeepsHistory
  <2>2. ~Gone => ~Gone'
    BY <1>2, <1>5, BridgeStays
  <2>3. InTime'
    BY <1>1, <1>2, <1>3, <1>5, <2>2 DEF InTime
  <2>4. QED
    BY <1>3, <2>1, <2>3 DEF Conversation
<1>6. CASE Muted /\ Lost /\ ~Starting
  <2>1. Lost' /\ UNCHANGED history /\ UNCHANGED toDev
    BY <1>6, LostBridge
  <2>2. Muted' /\ HistoryInv'
    BY <1>1, <1>2, <1>6, <2>1, HistorySame, MutedStays, DeviceSame
  <2>3. ~Timely
    BY <1>1, <1>6 DEF InTime, Lost
  <2>4. QED
    BY <1>3, <2>1, <2>2, <2>3 DEF Conversation, InTime
<1>7. QED
  BY <1>4, <1>5, <1>6 DEF Conversation

LEMMA LateBridgeKeepsConversation ==
  ASSUME TypesInv, Fits, MaxLate = 0, Conversation, BridgeTimeout
  PROVE  Conversation'
<1>1. CallerInv /\ HistoryInv /\ StreamReturned /\ InTime
  BY DEF Conversation
<1>2. UNCHANGED deviceVars /\ UNCHANGED sent /\ UNCHANGED history
  BY DEF BridgeTimeout, history
<1>3. CallerInv' /\ StreamReturned' /\ HistoryInv' /\ UNCHANGED <<connected, call, ret>>
  BY <1>1, <1>2, CallerUntouched, ReturnedSame, HistorySame, DeviceSame
<1>4. CASE Starting
  <2>1. Starting'
    BY <1>4, BridgeStarts
  <2>2. InTime'
    BY <2>1 DEF InTime, Starting
  <2>3. QED
    BY <1>3, <2>1, <2>2 DEF Conversation
<1>5. CASE Muted /\ Stage /\ ~Starting
  <2>1. ~B!HandshakeTimesOut
    <3>1. B!HandshakeTimesOut => toPC # <<>>
      BY <1>5, NoHandshakeAgain
    <3>2. toPC # <<>> => ~(Len(toDev) + Len(toPC) <= MaxLate)
      <4>1. /\ Len(toDev) \in Nat /\ Len(toPC) \in Nat
            /\ toPC # <<>> => Len(toPC) # 0
        BY DEF TypesInv, BridgeOK
      <4>2. \A m, n \in Nat : m + n <= 0 => n = 0
        OBVIOUS
      <4>3. QED
        BY <4>1, <4>2
    <3>3. ASSUME B!HandshakeTimesOut PROVE FALSE
      <4>1. ~B!RecvTimesOut
        BY <3>3 DEF B!HandshakeTimesOut, B!RecvTimesOut, B!Receiving
      <4>2. QED
        BY <3>1, <3>2, <3>3, <4>1 DEF BridgeTimeout
    <3>4. QED
      BY <3>3
  <2>2. B!RecvTimesOut
    BY <2>1 DEF BridgeTimeout
  <2>3. Muted' /\ (Stage' \/ Lost')
    BY <1>2, <1>5, <2>2, BridgeKeepsMuted, RecvTimesOutKeeps
  <2>4. ~Timely
    BY <1>1, <1>5, <2>2, NobodyWaits DEF InTime, BridgeTimeout
  <2>5. QED
    BY <1>3, <2>3, <2>4 DEF Conversation, InTime
<1>6. CASE Lost
  BY <1>6 DEF Lost, Gone, BridgeTimeout, B!RecvTimesOut, B!HandshakeTimesOut, B!Receiving
<1>7. QED
  BY <1>4, <1>5, <1>6 DEF Conversation

\* Init is the beginning of a conversation.
LEMMA ConversationStarts ==
  ASSUME Init
  PROVE  Conversation
<1>1. Starting
  BY SameCodes DEF Init, DeviceInit, B!BridgeInit, Starting
<1>2. CallerInv
  BY DEF Init, DeviceInit, CallerInv, InCall
<1>3. HistoryInv
  <2>1. <<>> \in Seq(Executions) /\ Len(<<>>) = 0
    OBVIOUS
  <2>2. InOrder(<<>>, -1)
    <3> DEFINE none == [i \in {} |-> 0]
    <3>1. 1..Len(<<>>) = {}
      BY <2>1
    <3>2. none \in [{} -> 1..(-1)]
      OBVIOUS
    <3>3. none \in [1..Len(<<>>) -> 1..(-1)] /\ \A i \in 1..Len(<<>>) : FALSE
      BY <3>1, <3>2
    <3> HIDE DEF none
    <3>4. QED
      BY <3>3, Zenon DEF InOrder
  <2>3. QED
    BY <2>1, <2>2 DEF Init, HistoryInv
<1>4. StreamReturned
  BY DEF Init, DeviceInit, StreamReturned
<1>5. InTime
  BY <1>1 DEF Init, InTime
<1>6. QED
  BY <1>1, <1>2, <1>3, <1>4, <1>5 DEF Conversation

LEMMA ConversationPauses ==
  ASSUME Conversation, UNCHANGED vars
  PROVE  Conversation'
<1>1. UNCHANGED <<deviceVars, bridgeVars, wire, history>>
  BY DEF vars
<1>2. UNCHANGED <<toPC, toDev, sent, served, past>>
  BY <1>1 DEF wire, history
<1>3. UNCHANGED <<connected, handshake_progress, waiting_cmd, processing_cmd,
                  processing_cmd_state, data_len, data, data_size, data_ready,
                  stream_max_size, stream_size, stream,
                  pc, wait_for, call, res, ret, open>>
  BY <1>1, DeviceSame
<1>4. UNCHANGED <<bconnected, bhandshake_progress, bwaiting_cmd, bdata, bdata_ready,
                  bpc, bcount, bwait_for, bstream, bres, sockets>>
  BY <1>1 DEF bridgeVars
<1>5. CallerInv' /\ HistoryInv' /\ StreamReturned'
  BY <1>1, <1>2, <1>3, CallerUntouched, HistorySame, ReturnedSame DEF Conversation
<1>6. Starting => Starting'
  BY <1>2, <1>3, <1>4 DEF Starting
<1>7. Starting' => Starting
  BY <1>2, <1>3, <1>4 DEF Starting
<1>8. Muted => Muted'
  BY <1>2, <1>3 DEF Muted
<1>9. Stage => Stage'
  <2>1. HAVE Stage
  <2>2. /\ DeviceAtRest => DeviceAtRest'
        /\ DeviceAtDebug => DeviceAtDebug'
        /\ DeviceAtData => DeviceAtData'
        /\ DeviceAtStream => DeviceAtStream'
        /\ DeviceAtCall => DeviceAtCall'
    BY <1>2, <1>3, <1>4
    DEF DeviceAtRest, DeviceAtDebug, DeviceAtData, DeviceAtStream, DeviceAtCall,
        DeviceIdle, Settled, Asked, Told, Expects, Gone
  <2>3. ASSUME NEW req \in Requests PROVE DeviceAtGot(req) => DeviceAtGot(req)'
    BY <1>2, <1>3, <1>4 DEF DeviceAtGot, Settled, Asked, Told, Expects, Gone
  <2>4. ASSUME NEW req \in Requests, NEW val \in B!SocketValues
        PROVE  /\ WillAgree(req, val) => WillAgree(req, val)'
               /\ Replies(req, val) => Replies(req, val)'
               /\ WantsStream(val) => WantsStream(val)'
               /\ InAnswer(Content(val)) => InAnswer(Content(val))'
               /\ HasStream(val) => HasStream(val)'
    BY <1>2, <1>3, <1>4
    DEF WillAgree, Replies, HasReply, WantsStream, Settled, InAnswer, HasStream
  <2>5. ASSUME NEW req \in Requests, NEW val \in B!SocketValues
        PROVE  DeviceAtReplying(req, val) => DeviceAtReplying(req, val)'
    <3>1. ASSUME NEW reply, DeviceWaits(LastCommand(req), reply)
          PROVE  DeviceWaits(LastCommand(req), reply)'
      BY <1>2, <1>3, <3>1 DEF DeviceWaits, Settled, Asked, Told, Expects, InReply
    <3>2. QED
      BY <2>4, <3>1, Zenon DEF DeviceAtReplying
  <2>6. ASSUME NEW req \in Requests, NEW val \in B!SocketValues
        PROVE  /\ DeviceAtReplied(req, val) => DeviceAtReplied(req, val)'
               /\ DeviceAtStreaming(req, val) => DeviceAtStreaming(req, val)'
               /\ DeviceAtDone(req, val) => DeviceAtDone(req, val)'
    BY <1>2, <2>4 DEF DeviceAtReplied, DeviceAtStreaming, DeviceAtDone
  <2>7. QED
    BY <1>1, <1>2, <1>3, <2>1, <2>2, <2>3, <2>5, <2>6, DeviceMoves
<1>10. Gone' => Gone
  BY <1>4 DEF Gone
<1>11. InTime'
  BY <1>2, <1>3, <1>6, <1>10 DEF Conversation, InTime
<1>12. Lost => Lost'
  BY <1>2, <1>3, <1>4 DEF Lost, Gone, Asked, Settled
<1>13. QED
  BY <1>5, <1>6, <1>8, <1>9, <1>11, <1>12 DEF Conversation

\* A fault and a restart are counted: before them, the line was reliable.
LEMMA ConversationGoesOn ==
  ASSUME TypesInv, Fits, MaxLate = 0, Reliable => Conversation, [Next]_vars
  PROVE  Reliable' => Conversation'
<1>1. HAVE Reliable'
<1>2. faults \in Nat /\ restarts \in Nat
  BY LinkAssumption DEF TypesInv, LinkAssumption
<1>3. ~LoseByte /\ ~DamageByte /\ ~PortFails /\ ~RestartBridge /\ ~ResetDevice
  BY <1>1, <1>2
  DEF Reliable, LoseByte, DamageByte, PortFails, Fault, RestartBridge, ResetDevice
<1>4. CASE Device \/ Bridge \/ DeviceTimeout \/ BridgeTimeout
  <2>1. UNCHANGED <<faults, restarts>>
    BY <1>4 DEF Device, Bridge, DeviceTimeout, BridgeTimeout
  <2>2. Conversation
    BY <1>1, <2>1 DEF Reliable
  <2>3. QED
    BY <1>4, <2>2, DeviceKeepsConversation, BridgeKeepsConversation,
       LateDeviceKeepsConversation, LateBridgeKeepsConversation
<1>5. CASE UNCHANGED vars
  <2>1. Conversation
    BY <1>1, <1>5 DEF Reliable, vars
  <2>2. QED
    BY <1>5, <2>1, ConversationPauses
<1>6. QED
  BY <1>3, <1>4, <1>5 DEF Next

\* The two ends of gbridge.c are always at the same point of the same
\* conversation, or one of them has left it for good, until the first fault or
\* restart.  Any call may time out at any moment, while what it waits for is on its
\* way; only a handshake is answered in time (MaxLate = 0).
THEOREM LinkInvHolds ==
  ASSUME Fits, MaxLate = 0
  PROVE  Spec => []LinkInv
<1>1. Init => (Reliable => Conversation)
  BY ConversationStarts
<1>2. TypesInv /\ (Reliable => Conversation) /\ [Next]_vars =>
        (Reliable => Conversation)'
  BY ConversationGoesOn
<1>3. TypesInv /\ (Reliable => Conversation) => LinkInv
  BY DEF LinkInv
<1>4. QED
  BY <1>1, <1>2, <1>3, TypesHold, PTL DEF Spec
-----------------------------------------------------------------------------
(***************************************************************************)
(* What libmobile and the sockets see of it.                               *)
(***************************************************************************)
\* In all of the following MaxLate = 0 stands for handshakes that are answered in
\* time, and Reliable for a line that loses nothing between ends that are not
\* restarted; any call may time out at any moment (unless Timely is assumed too).
\* gbridge_prot_ma.c, both: between calls, libmobile and the bridge agree on
\* which connections are open.
THEOREM SocketsAgree ==
  ASSUME Fits, MaxLate = 0
  PROVE  Spec => [](Reliable => SocketAgreement)
<1>1. ASSUME LinkInv PROVE Reliable => SocketAgreement
  <2>1. SUFFICES ASSUME Reliable, connected, bconnected, call = NoCall
                 PROVE  open = sockets
    BY DEF SocketAgreement
  <2>2. Conversation
    BY <1>1, <2>1 DEF LinkInv
  <2>3. Stage /\ ~InCall
    BY <2>1, <2>2, RequestIs DEF Conversation, Starting, CallerInv, Lost, Gone
  <2>4. /\ ~Asked(GBRIDGE_CMD_DATA) /\ ~Asked(GBRIDGE_CMD_STREAM)
        /\ ~Told(GBRIDGE_CMD_DATA) /\ ~Told(GBRIDGE_CMD_STREAM)
    BY <2>3
    DEF InCall, Asked, Told, GBRIDGE_CMD_DATA, GBRIDGE_CMD_STREAM,
        GBRIDGE_CMD_DEBUG_LINE
  <2>5. /\ ~Expects
        /\ \A reply : ~InReply(reply) /\ ~InAnswer(reply) /\ ~HasReply(reply)
        /\ \A val : ~WantsStream(val) /\ ~HasStream(val)
    BY <2>3
    DEF InCall, Expects, InReply, InAnswer, HasReply, WantsStream, HasStream
  <2>6. /\ ~DeviceAtData /\ ~DeviceAtStream /\ ~DeviceAtCall
        /\ \A req : ~DeviceAtGot(req)
    BY <2>4, <2>5 DEF DeviceAtData, DeviceAtStream, DeviceAtCall, DeviceAtGot
  <2>7. ASSUME NEW req, NEW val
        PROVE  /\ ~DeviceAtReplying(req, val) /\ ~DeviceAtReplied(req, val)
               /\ ~DeviceAtStreaming(req, val) /\ ~DeviceAtDone(req, val)
    BY <2>4, <2>5
    DEF DeviceAtReplying, DeviceWaits, LastCommand, DeviceAtReplied,
        DeviceAtStreaming, DeviceAtDone, Replies
  <2>8. QED
    BY <2>1, <2>3, <2>6, <2>7, DevicePlaces DEF DeviceAtRest, DeviceAtDebug
<1>2. QED
  BY <1>1, LinkInvHolds, PTL

\* socket_impl.c: its assertions hold.
THEOREM AssertionsHold ==
  ASSUME Fits, MaxLate = 0
  PROVE  Spec => [](Reliable => AssertsHold)
<1>1. ASSUME LinkInv PROVE Reliable => AssertsHold
  <2>1. SUFFICES ASSUME Reliable, B!AtSocketCall
                 PROVE  B!Asserted(bdata[1], bdata[2])
    BY DEF AssertsHold
  <2>2. TypesInv /\ Conversation
    BY <1>1, <2>1 DEF LinkInv
  <2>3. Stage
    BY <2>1, <2>2 DEF Conversation, Starting, Lost, Gone, B!AtSocketCall
  <2>4. QED
    BY <2>1, <2>2, <2>3, AssertHolds
<1>2. QED
  BY <1>1, LinkInvHolds, PTL

\* gbridge.c: a request or stream that is handed over is one that was sent.
THEOREM NothingDamaged ==
  ASSUME Fits, MaxLate = 0
  PROVE  Spec => [](Reliable => ArrivesIntact)
<1>1. ASSUME LinkInv PROVE Reliable => ArrivesIntact
  <2>1. HAVE Reliable
  <2>2. TypesInv /\ Conversation
    BY <1>1, <2>1 DEF LinkInv
  <2>3. ASSUME B!AtSocketCall
        PROVE  \E i \in 1..Len(sent) :
                 /\ bdata = Payload(sent[i])
                 /\ sent[i].op = SEND => bstream = Content(sent[i].size)
    <3>1. Stage
      BY <2>2, <2>3 DEF Conversation, Starting, Lost, Gone, B!AtSocketCall
    <3>2. PICK req \in Requests :
            /\ req = LastSent /\ bdata = Payload(req)
            /\ req.op = SEND => bstream = Content(req.size)
      BY <2>2, <2>3, <3>1, CalledWith
    <3>3. sent # <<>> /\ req = sent[Len(sent)]
      BY <3>2, RequestIs DEF LastSent
    <3>4. sent \in Seq(Requests)
      BY <2>2 DEF Conversation, CallerInv
    <3>5. Len(sent) \in 1..Len(sent)
      BY <3>3, <3>4
    <3>6. QED
      BY <3>2, <3>3, <3>5
  <2>4. StreamReturned
    BY <2>2 DEF Conversation
  <2>5. QED
    BY <2>3, <2>4 DEF ArrivesIntact, StreamReturned
<1>2. QED
  BY <1>1, LinkInvHolds, PTL

\* gbridge_prot_ma.c, the bridge's: each request is executed at most once, in
\* the order they were made.
THEOREM ServedOnceInOrder ==
  ASSUME Fits, MaxLate = 0
  PROVE  Spec => [](Reliable => AtMostOnceInOrder)
<1>1. ASSUME LinkInv PROVE Reliable => AtMostOnceInOrder
  <2>1. HAVE Reliable
  <2>2. HistoryInv /\ sent \in Seq(Requests)
    BY <1>1, <2>1 DEF LinkInv, Conversation, CallerInv
  <2>3. InOrder(past \o served, Len(sent))
    BY <2>2, ServedInOrder
  <2>4. QED
    BY <2>3, Zenon DEF AtMostOnceInOrder, InOrder
<1>2. QED
  BY <1>1, LinkInvHolds, PTL

\* gbridge.c, both: when nobody is late, every request that is sent is answered.
THEOREM AllAnswered ==
  ASSUME Fits, MaxLate = 0, Timely
  PROVE  Spec => [](Reliable => Answered)
<1>1. ASSUME LinkInv PROVE Reliable => Answered
  <2>1. HAVE Reliable
  <2>2. InTime
    BY <1>1, <2>1 DEF LinkInv, Conversation
  <2>3. QED
    BY <2>2 DEF InTime, Answered, LastSent
<1>2. QED
  BY <1>1, LinkInvHolds, PTL
-----------------------------------------------------------------------------
(***************************************************************************)
(* The conversation implements remote calls.                               *)
(***************************************************************************)
Returned == [req |-> ret.req, replied |-> ret.replied,
             val |-> IF ret.replied THEN ret.val ELSE 0]

LEMMA RpcStutters ==
  ASSUME UNCHANGED <<history, call, ret>>
  PROVE  UNCHANGED Rpc!vars
<1>1. UNCHANGED <<sent, served>>
  BY DEF history
<1>2. LastSent' = LastSent
  BY <1>1, SameLastSent
<1>3. QED
  BY <1>1, <1>2 DEF Rpc!vars

\* The call in progress returns.
LEMMA CallEnds ==
  ASSUME Fits, CallerInv, InCall, UNCHANGED history,
         NEW replied, NEW val, Returns(call, replied, val)
  PROVE  /\ replied = FALSE => Rpc!GiveUp
         /\ replied = TRUE /\ served # <<>> /\ served[1].val = val => Rpc!Answer
<1>1. call # NoCall /\ call = LastSent /\ call' = NoCall
  BY RequestIs, DeviceAssumption DEF CallerInv, Returns, DeviceAssumption, NoCall, Op
<1>2. ret' = [req |-> call, replied |-> replied, val |-> val]
  BY DEF Returns
<1>3. UNCHANGED served /\ LastSent' = LastSent
  BY SameLastSent DEF history
<1>4. CASE replied = FALSE
  <2>1. Returned' = Rpc!Failure(LastSent)
    BY <1>1, <1>2, <1>4 DEF Returned, Rpc!Failure
  <2>2. QED
    BY <1>1, <1>3, <1>4, <2>1 DEF Rpc!GiveUp, Returned
<1>5. CASE replied = TRUE /\ served # <<>> /\ served[1].val = val
  <2>1. Returned' = [req |-> LastSent, replied |-> TRUE, val |-> served[1].val]
    BY <1>1, <1>2, <1>5 DEF Returned
  <2>2. QED
    BY <1>1, <1>3, <1>5, <2>1 DEF Rpc!Answer, Returned
<1>6. QED
  BY <1>4, <1>5

LEMMA SendsRpc ==
  ASSUME Fits, CallerInv, DeviceSends
  PROVE  \E req \in Requests : Rpc!Send(req) \/ Rpc!Refuse(req)
<1>1. PICK req \in Requests :
        /\ StartCall(req)
        /\ \/ /\ connected
              /\ sent' = Append(sent, req)
              /\ served' = <<>>
           \/ ~connected /\ UNCHANGED history
  BY DEF DeviceSends
<1>2. call = NoCall
  BY <1>1 DEF StartCall, CallerInv, InCall
<1>3. req # NoCall
  BY RequestIs DEF NoCall
<1>4. CASE connected /\ sent' = Append(sent, req) /\ served' = <<>>
  <2>1. call' = req /\ UNCHANGED ret
    BY <1>1, <1>4 DEF StartCall
  <2>2. LastSent' = req
    BY <1>4, NewLastSent DEF CallerInv
  <2>3. Rpc!Send(req)
    BY <1>2, <1>3, <1>4, <2>1, <2>2 DEF Rpc!Send
  <2>4. QED
    BY <2>3
<1>5. CASE ~connected /\ UNCHANGED history
  <2>1. /\ call' = NoCall
        /\ ret' = [req |-> req, replied |-> FALSE, val |-> ErrorValue(req.op)]
    BY <1>1, <1>5 DEF StartCall, Fails, Returns
  <2>2. UNCHANGED served /\ LastSent' = LastSent
    BY <1>5, SameLastSent DEF history
  <2>3. Rpc!Refuse(req)
    BY <1>2, <2>1, <2>2 DEF Rpc!Refuse, Rpc!Failure
  <2>4. QED
    BY <2>3
<1>6. QED
  BY <1>1, <1>4, <1>5

LEMMA DeviceRpc ==
  ASSUME TypesInv, Fits, Conversation, Device
  PROVE  [Rpc!Next]_(Rpc!vars)
<1>1. CallerInv /\ (connected => Stage \/ Lost)
  BY DEF Conversation, Starting
<1>2. connected /\ (EndRecvData \/ EndRecvStream) => Stage
  BY <1>1 DEF Lost, Asked, EndRecvData, EndRecvStream
<1>3. CASE DeviceSends
  BY <1>1, <1>3, SendsRpc DEF Rpc!Next
<1>4. CASE EndSendData /\ UNCHANGED history
  <2>1. CASE connected
    BY <1>4, <2>1, RpcStutters DEF EndSendData
  <2>2. CASE ~connected
    <3>1. InCall
      BY <1>4
      DEF EndSendData, WaitOver, InCall, GBRIDGE_CMD_DATA, GBRIDGE_CMD_DEBUG_LINE
    <3>2. Fails(call)
      BY <1>4, <2>2 DEF EndSendData
    <3>3. Returns(call, FALSE, ErrorValue(call.op))
      BY <3>2 DEF Fails
    <3>4. QED
      BY <1>1, <1>4, <3>1, <3>3, CallEnds DEF Rpc!Next
  <2>3. QED
    BY <2>1, <2>2
<1>5. CASE EndRecvData /\ UNCHANGED history
  <2>1. InCall
    BY <1>5 DEF EndRecvData, InCall
  <2>2. CASE ~connected
    <3>1. Returns(call, FALSE, ErrorValue(call.op))
      BY <1>5, <2>2 DEF EndRecvData, Fails
    <3>2. QED
      BY <1>1, <1>5, <2>1, <3>1, CallEnds DEF Rpc!Next
  <2>3. CASE connected
    <3>1. PICK req \in Requests, val \in B!SocketValues :
            /\ Executed(req, val)
            /\ UNCHANGED <<call, ret>> \/ Returns(call, TRUE, val)
      BY <1>1, <1>2, <1>5, <2>3, AnswerComes
    <3>2. CASE UNCHANGED <<call, ret>>
      BY <1>5, <3>2, RpcStutters
    <3>3. CASE Returns(call, TRUE, val)
      <4>1. served # <<>> /\ served[1].val = val
        BY <3>1 DEF Executed, Rpc!Execution
      <4>2. QED
        BY <1>1, <1>5, <2>1, <3>3, <4>1, CallEnds DEF Rpc!Next
    <3>4. QED
      BY <3>1, <3>2, <3>3
  <2>4. QED
    BY <2>2, <2>3
<1>6. CASE EndRecvStream /\ UNCHANGED history
  <2>1. InCall /\ Returns(call, connected, IF connected THEN res ELSE -1)
    BY <1>6 DEF EndRecvStream, InCall
  <2>2. CASE connected = FALSE
    BY <1>1, <1>6, <2>1, <2>2, CallEnds DEF Rpc!Next
  <2>3. CASE connected = TRUE
    <3>1. PICK req \in Requests, val \in B!SocketValues :
            Executed(req, val) /\ HasStream(val)
      BY <1>1, <1>2, <1>6, <2>3, AnswerReturns
    <3>2. served # <<>> /\ served[1].val = res
      BY <3>1 DEF Executed, Rpc!Execution, HasStream
    <3>3. Returns(call, TRUE, res)
      BY <2>1, <2>3
    <3>4. QED
      BY <1>1, <1>6, <2>1, <3>2, <3>3, CallEnds DEF Rpc!Next
  <2>4. connected \in BOOLEAN
    BY DEF TypesInv, DeviceInv, DeviceTypeOK, FlagsTypeOK
  <2>5. QED
    BY <2>2, <2>3, <2>4
<1>7. CASE DeviceOther /\ ~EndSendData /\ ~EndRecvData /\ ~EndRecvStream
  <2>1. UNCHANGED <<call, ret>>
    <3>1. CASE GbridgeLoop
      <4>1. LoopReturns
        BY <3>1
        DEF GbridgeLoop, Handshake, RecvAck, RecvReset, RecvCommand, ReadsCommand,
            LoopIdle, RecvDataLen, RecvDataByte, RecvDataChecksum, RecvStreamLen,
            RecvStreamByte, RecvStreamChecksum, Processing
      <4>2. QED
        BY <4>1 DEF LoopReturns, caller
    <3>2. CASE ~GbridgeLoop
      BY <1>7, <3>2
      DEF DeviceOther, DebugLine, BeginWait, EndDebugLine, EndSend, WaitOver,
          MobileLoopReturns, ProtMaLoop, caller
    <3>3. QED
      BY <3>1, <3>2
  <2>2. QED
    BY <1>7, <2>1, RpcStutters DEF DeviceOther
<1>8. QED
  BY <1>3, <1>4, <1>5, <1>6, <1>7 DEF Device, DeviceOther

LEMMA BridgeRpc ==
  ASSUME TypesInv, Fits, MaxLate = 0, Conversation, Bridge
  PROVE  [Rpc!Next]_(Rpc!vars)
<1>1. UNCHANGED <<call, ret>>
  BY DeviceSame DEF Bridge
<1>2. CASE UNCHANGED history
  BY <1>1, <1>2, RpcStutters
<1>3. CASE Stage /\ BridgeServes
  <2>1. PICK r \in B!SocketValues :
          /\ B!SocketCall(r)
          /\ served' = Append(served, [op |-> bdata[1], conn |-> bdata[2], val |-> r])
          /\ UNCHANGED <<sent, past>>
    BY <1>3 DEF BridgeServes
  <2>2. PICK req \in Requests :
          /\ req = LastSent /\ req # NoCall /\ served = <<>>
          /\ served' = <<Rpc!Execution(req, r)>>
    BY <1>3, <2>1, ServesLast
  <2>3. LastSent' = LastSent
    BY <2>1, SameLastSent
  <2>4. Rpc!Execute(r)
    BY <1>1, <2>2, <2>3 DEF Rpc!Execute
  <2>5. QED
    BY <2>4 DEF Rpc!Next
<1>4. Lost => ~BridgeServes
  BY LostBridge
<1>5. QED
  BY <1>2, <1>3, <1>4, BridgeStarts DEF Conversation, Bridge, BridgeOther

LEMMA StepRpc ==
  ASSUME LinkInv, Fits, MaxLate = 0, Reliable, Reliable', [Next]_vars
  PROVE  [Rpc!Next]_(Rpc!vars)
<1>1. TypesInv /\ Conversation
  BY DEF LinkInv
<1>2. ~LoseByte /\ ~DamageByte /\ ~PortFails /\ ~RestartBridge /\ ~ResetDevice
  BY DEF Reliable, LoseByte, DamageByte, PortFails, Fault, RestartBridge, ResetDevice
<1>3. CASE DeviceTimeout \/ BridgeTimeout
  <2>1. UNCHANGED <<call, ret, history>>
    BY <1>3, DeviceSame DEF DeviceTimeout, Timeout, LoopReturns, caller, BridgeTimeout
  <2>2. QED
    BY <2>1, RpcStutters
<1>4. CASE UNCHANGED vars
  <2>1. UNCHANGED <<call, ret, history>>
    BY <1>4, DeviceSame DEF vars
  <2>2. QED
    BY <2>1, RpcStutters
<1>5. QED
  BY <1>1, <1>2, <1>3, <1>4, DeviceRpc, BridgeRpc DEF Next

\* gbridge_prot_ma.c, both: the socket calls of the device are remote calls of
\* the bridge's socket functions, on a line that stays reliable and with
\* handshakes that are answered in time.
THEOREM RpcImplemented ==
  ASSUME Fits, MaxLate = 0
  PROVE  Spec /\ []Reliable => ImplementsRpc
<1>1. Init => Rpc!Init
  <2>1. SUFFICES ASSUME Init PROVE Rpc!Init
    OBVIOUS
  <2>2. /\ sent = <<>> /\ served = <<>> /\ call = NoCall
        /\ ret = [req |-> NoCall, replied |-> FALSE, val |-> 0]
    BY <2>1 DEF Init, DeviceInit
  <2>3. QED
    BY <2>2 DEF Rpc!Init, Rpc!Failure, LastSent
<1>2. LinkInv /\ Reliable /\ Reliable' /\ [Next]_vars => [Rpc!Next]_(Rpc!vars)
  BY StepRpc
<1>3. QED
  BY <1>1, <1>2, LinkInvHolds, PTL DEF Spec, ImplementsRpc, Rpc!Spec
=============================================================================
