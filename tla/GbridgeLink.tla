---------------------------- MODULE GbridgeLink ----------------------------
(***************************************************************************)
(* The device and the bridge at the two ends of the serial line, with what *)
(* can go wrong between them: bytes lost or damaged, peers that answer too *)
(* late, a port that fails, an end that is stopped and started again.      *)
(***************************************************************************)
EXTENDS GbridgeDevice
SeqsExt == INSTANCE SequencesExt

CONSTANTS
  SocketLengths,  \* the lengths a socket may send or receive at once
  Noise,          \* what a damaged byte may become
  MaxFaults,      \* bound: bytes lost or damaged, and port errors
  MaxRestarts,    \* bound: restarts of the bridge and resets of the device
  MaxLate,        \* assumed: when the bridge gives up on a handshake, at most
                  \* so many bytes are on their way; 0: answered in time, or lost
  Timely          \* TRUE: nobody is late; FALSE: a timeout may always happen

VARIABLES
  \* the bridge's variables
  bconnected, bhandshake_progress, bwaiting_cmd, bdata, bdata_ready, bpc,
  bcount, bwait_for, bstream, bres, sockets,
  faults, restarts,  \* count, up to their bounds
  sent,              \* history: the requests sent
  served,            \* history: what was executed since the last one
  past               \* history: what was executed before

B == INSTANCE GbridgeBridge WITH
       connected <- bconnected, handshake_progress <- bhandshake_progress,
       waiting_cmd <- bwaiting_cmd, data <- bdata, data_ready <- bdata_ready,
       pc <- bpc, count <- bcount, wait_for <- bwait_for, stream <- bstream,
       res <- bres

ASSUME LinkAssumption ==
  /\ SocketLengths \subseteq 1..512 /\ Noise \subseteq Byte
  /\ MaxFaults \in Nat /\ MaxRestarts \in Nat /\ MaxLate \in Nat
  /\ Timely \in BOOLEAN

bridgeVars == <<bconnected, bhandshake_progress, bwaiting_cmd, bdata,
                bdata_ready, bpc, bcount, bwait_for, bstream, bres, sockets>>
history == <<sent, served, past>>
vars == <<deviceVars, bridgeVars, wire, faults, restarts, history>>

Init ==
  /\ DeviceInit /\ B!BridgeInit
  /\ toPC = <<>> /\ toDev = <<>>
  /\ faults = 0 /\ restarts = 0
  /\ sent = <<>> /\ served = <<>> /\ past = <<>>
-----------------------------------------------------------------------------
\* A request is sent.
DeviceSends ==
  \E req \in Requests :
    /\ StartCall(req)
    /\ \/ /\ connected
          /\ sent' = Append(sent, req)
          /\ served' = <<>> /\ past' = past \o served
       \/ ~connected /\ UNCHANGED history

DeviceOther ==
  /\ \/ GbridgeLoop
     \/ \E length \in DebugLines : DebugLine(length)
     \/ BeginWait \/ EndDebugLine \/ EndSendData \/ EndSend
     \/ EndRecvData \/ EndRecvStream
     \/ MobileLoopReturns \/ ProtMaLoop
  /\ UNCHANGED history

Device ==
  /\ DeviceSends \/ DeviceOther
  /\ UNCHANGED <<bridgeVars, faults, restarts>>

\* A request is executed.
BridgeServes ==
  \E r \in B!SocketValues :
    /\ B!SocketCall(r)
    /\ served' = Append(served, [op |-> bdata[1], conn |-> bdata[2], val |-> r])
    /\ UNCHANGED <<sent, past>>

BridgeOther ==
  /\ \/ B!HandshakeSend \/ B!HandshakeByte
     \/ B!LoopIdle \/ B!RecvAck \/ B!RecvDebugLine \/ B!RecvData
     \/ B!RecvUnknown \/ B!DebugLineLength \/ B!DebugLineString
     \/ B!DataSize \/ B!DataBuffer \/ B!DataChecksum
     \/ B!StreamCommand \/ B!StreamSize \/ B!StreamBuffer \/ B!StreamChecksum
     \/ B!ProtMaLoop \/ B!RecvStream \/ B!AssertFails
     \/ B!EndWaitStream \/ B!EndWait \/ B!MainEnds
  /\ UNCHANGED history

Bridge ==
  /\ BridgeServes \/ BridgeOther
  /\ UNCHANGED <<deviceVars, faults, restarts>>

\* Nothing is on its way and nobody is about to send: both ends wait for bytes
\* (the device also while libmobile has nothing to ask).
Quiet ==
  /\ toPC = <<>> /\ toDev = <<>>
  /\ B!Blocked
  /\ InGbridgeLoop \/ pc \in {"mobile_loop", "gbridge_prot_ma_loop"}

DeviceTimeout ==
  /\ ~Timely \/ Quiet
  /\ Timeout
  /\ UNCHANGED <<bridgeVars, faults, restarts, history>>

BridgeTimeout ==
  /\ ~Timely \/ Quiet
  /\ \/ B!RecvTimesOut
     \/ B!HandshakeTimesOut /\ Len(toDev) + Len(toPC) <= MaxLate
  /\ UNCHANGED <<deviceVars, faults, restarts, history>>
-----------------------------------------------------------------------------
Fault == faults < MaxFaults /\ faults' = faults + 1

\* A byte is lost: a line error, or a full receive ring (serial_receive).
LoseByte ==
  /\ Fault
  /\ \/ \E i \in 1..Len(toPC) : toPC' = SeqsExt!RemoveAt(toPC, i) /\ UNCHANGED toDev
     \/ \E i \in 1..Len(toDev) : toDev' = SeqsExt!RemoveAt(toDev, i) /\ UNCHANGED toPC
  /\ UNCHANGED <<deviceVars, bridgeVars, restarts, history>>

\* A byte is damaged: there is no parity bit to tell.
DamageByte ==
  /\ Fault
  /\ \E byte \in Noise :
       \/ \E i \in 1..Len(toPC) :
            toPC' = [toPC EXCEPT ![i] = byte] /\ UNCHANGED toDev
       \/ \E i \in 1..Len(toDev) :
            toDev' = [toDev EXCEPT ![i] = byte] /\ UNCHANGED toPC
  /\ UNCHANGED <<deviceVars, bridgeVars, restarts, history>>

PortFails ==
  /\ Fault
  /\ B!PortError
  /\ UNCHANGED <<deviceVars, restarts, history>>

\* The bridge is stopped, at any point, and started again.  Its sockets are
\* closed with the process; what has come for it is lost, and the end of what
\* it was writing.
RestartBridge ==
  /\ restarts < MaxRestarts /\ restarts' = restarts + 1
  /\ bconnected' = FALSE /\ bhandshake_progress' = 0
  /\ bwaiting_cmd' = GBRIDGE_CMD_NONE
  /\ bdata' = <<>> /\ bdata_ready' = FALSE
  /\ bpc' = "handshake" /\ bcount' = 0 /\ bwait_for' = GBRIDGE_CMD_NONE
  /\ bstream' = <<>> /\ bres' = 0 /\ sockets' = {}
  /\ \E n \in 0..Len(toPC) : toPC' = After(toPC, n)
  /\ \E n \in 0..Len(toDev) : toDev' = SubSeq(toDev, 1, n)
  /\ UNCHANGED <<deviceVars, faults, history>>

\* The device is reset, at any point; libmobile starts afresh.  What is in its
\* rings is lost: what it has received, and the end of what it was sending.
ResetDevice ==
  /\ restarts < MaxRestarts /\ restarts' = restarts + 1
  /\ connected' = FALSE /\ handshake_progress' = 0
  /\ waiting_cmd' = GBRIDGE_CMD_NONE
  /\ processing_cmd' = GBRIDGE_CMD_NONE /\ processing_cmd_state' = 0
  /\ data_len' = 0 /\ data' = <<>> /\ data_size' = 0 /\ data_ready' = FALSE
  /\ stream_max_size' = 0 /\ stream_size' = 0 /\ stream' = <<>>
  /\ pc' = "mobile_loop" /\ wait_for' = GBRIDGE_CMD_NONE
  /\ call' = NoCall /\ res' = 0 /\ open' = {}
  /\ \E n \in 0..Len(toDev) : toDev' = After(toDev, n)
  /\ \E n \in 0..Len(toPC) : toPC' = SubSeq(toPC, 1, n)
  /\ ret' = [req |-> NoCall, replied |-> FALSE, val |-> 0]
  /\ UNCHANGED <<calls, bridgeVars, faults, history>>

Next ==
  \/ Device \/ Bridge \/ DeviceTimeout \/ BridgeTimeout
  \/ LoseByte \/ DamageByte \/ PortFails
  \/ RestartBridge \/ ResetDevice

Spec == Init /\ [][Next]_vars

\* main's loop on the device runs for ever, and the bridge is a process that
\* the operating system schedules.
FairSpec == Spec /\ WF_vars(Device) /\ WF_vars(Bridge)

\* The clock of the device and that of the bridge's port run as well.
LiveSpec == FairSpec /\ WF_vars(DeviceTimeout) /\ WF_vars(BridgeTimeout)
-----------------------------------------------------------------------------
\* The state of both ends has its type.
LinkTypeOK ==
  /\ DeviceTypeOK /\ B!BridgeTypeOK
  /\ toPC \in Seq(Byte) /\ toDev \in Seq(Byte)
  /\ faults \in 0..MaxFaults /\ restarts \in 0..MaxRestarts

LastSent == IF sent = <<>> THEN NoCall ELSE sent[Len(sent)]

\* Remote calls implement SockRpc.
Rpc == INSTANCE SockRpc WITH
         NoRequest <- NoCall, Values <- B!SocketValues,
         sent <- LastSent, waiting <- call # NoCall,
         returned <- [req |-> ret.req, replied |-> ret.replied,
                      val |-> IF ret.replied THEN ret.val ELSE 0]

\* mobile_impl_sock_* over the link: executed at most once, answered with the
\* value of that execution, never with that of an earlier call, whatever is
\* lost or damaged on the line and whichever call times out; the handshake has
\* to be answered in time (MaxLate).
ImplementsRpc == Rpc!Spec

\* Even a bridge that is restarted, and may find old requests on the line,
\* executes each request at most once, in the order they were made, and
\* nothing that was not asked for.
AtMostOnceInOrder ==
  LET executed == past \o served IN
  \E request \in [1..Len(executed) -> 1..Len(sent)] :
    \A i \in 1..Len(executed) :
      /\ executed[i].op = sent[request[i]].op
      /\ executed[i].conn = sent[request[i]].conn
      /\ i > 1 => request[i] > request[i - 1]

\* Between calls, both connected, libmobile and the bridge agree on which
\* connections are open: a call that failed half-way, executed but not
\* answered, has cost the device its connection to the bridge.
SocketAgreement ==
  connected /\ bconnected /\ call = NoCall => open = sockets

\* socket_impl.c: "assert(state->sockets[conn] == -1)" when one is opened and
\* "assert(state->sockets[conn] != -1)" when one is used or closed.
AssertsHold == B!AtSocketCall => B!Asserted(bdata[1], bdata[2])

\* What is handed over was sent, from its first to its last byte: to the
\* socket functions a request that libmobile made and the stream of a SEND, to
\* libmobile the stream of a RECV.
ArrivesIntact ==
  /\ B!AtSocketCall =>
       \E i \in 1..Len(sent) :
         /\ bdata = Payload(sent[i])
         /\ sent[i].op = SEND => bstream = Content(sent[i].size)
  /\ call = NoCall /\ ret.replied /\ ret.req.op = RECV /\ ret.val > 0 =>
       stream = Content(ret.val)

\* On a line that loses nothing, and with peers that answer in time, a
\* request that was sent is answered.  gbridge.c: "Receive a stream packet
\* into a buffer with a given size".
Answered ==
  call = NoCall /\ LastSent # NoCall /\ ret.req = LastSent => ret.replied

\* On such a line every socket call returns to libmobile.
CallReturns == (call # NoCall) ~> (call = NoCall)

\* After the last fault, a bridge that looks for the device and a device that
\* knows it has no bridge find each other, whatever bytes restarts and losses have
\* left on the line to the device, or half read: the bridge repeats its handshake.
\* Three cases are left out, in which they do not: the reply of a device that
\* was reset since is still on the line, and convinces the bridge; the bridge was
\* connected when the device was reset; the device believes itself connected, and
\* has nothing to ask.
Reconnects ==
  (/\ restarts = MaxRestarts /\ faults = MaxFaults /\ ~connected /\ toPC = <<>>
   /\ bpc \in {"handshake", "handshake_read"})
  ~> (connected /\ bconnected)
=============================================================================
