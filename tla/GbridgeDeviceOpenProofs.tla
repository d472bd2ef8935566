---------------------- MODULE GbridgeDeviceOpenProofs -----------------------
(***************************************************************************)
(* Theorems about the device on a line that carries anything: for all      *)
(* requests, all lengths of debug lines, all inputs, any number of calls.  *)
(***************************************************************************)
EXTENDS GbridgeDeviceOpen, GbridgeDeviceProofs

LEMMA EnvironmentPreserves ==
  ASSUME DeviceInv, Environment \/ UNCHANGED vars
  PROVE  DeviceInv'
<1>1. toDev' \in Seq(Byte)
  BY InputsAssumption DEF Environment, DeviceInv, vars, wire
<1>2. UNCHANGED <<connected, handshake_progress, waiting_cmd, data_len, data,
                  data_size, data_ready, stream_max_size, stream_size, stream,
                  processing_cmd, processing_cmd_state, pc, wait_for, call,
                  res, ret, open, calls>>
  BY DEF Environment, vars, deviceVars, link, packet, streaming, processing,
         caller
<1>3. DeviceTypeOK'
  BY <1>2 DEF DeviceInv, DeviceTypeOK, FlagsTypeOK, ReceiverTypeOK,
              CallerTypeOK
<1>4. Safe'
  BY <1>2
  DEF DeviceInv, Safe, DisconnectedIsIdle, OneWaiter, StreamBufferOwned,
      BuffersNotOverrun, StillAllowed, CannotReceive, Progress,
      CallerConnected
<1>5. QED
  BY <1>1, <1>3, <1>4 DEF DeviceInv
-----------------------------------------------------------------------------
\* Whatever arrives on the line, in whatever order, cut short or repeated:
\* every state of the device satisfies the inductive invariant.
THEOREM DeviceInvariant == Spec => []DeviceInv
<1>1. Init => DeviceInv
  BY InitDeviceInv DEF Init
<1>2. DeviceInv /\ [Next]_vars => DeviceInv'
  BY GbridgeLoopPreserves, StartCallPreserves, DebugLinePreserves,
     BeginWaitPreserves, WaitOverPreserves, EndRecvDataPreserves,
     EndRecvStreamPreserves, MainPreserves, EnvironmentPreserves
  DEF Next, DeviceStep
<1>3. QED
  BY <1>1, <1>2, PTL DEF Spec

\* gbridge.c and gbridge_prot_ma.c keep their state within its types.
THEOREM DeviceTypeCorrect == Spec => []DeviceTypeOK
<1>1. DeviceInv => DeviceTypeOK
  BY DEF DeviceInv
<1>2. QED
  BY <1>1, DeviceInvariant, PTL

\* gbridge_init, the only way to lose the connection, leaves nothing that a
\* waiting loop of the device could wait for.
THEOREM DisconnectedIsIdleHolds == Spec => []DisconnectedIsIdle
<1>1. DeviceInv => DisconnectedIsIdle
  BY DEF DeviceInv, Safe
<1>2. QED
  BY <1>1, DeviceInvariant, PTL

\* wait_cmd is not entered while another wait_cmd is waiting.
THEOREM OneWaiterHolds == Spec => []OneWaiter
<1>1. DeviceInv => OneWaiter
  BY DEF DeviceInv, Safe
<1>2. QED
  BY <1>1, DeviceInvariant, PTL

\* recv_cmd_stream_pc writes only to the buffer of the blocked caller.
THEOREM StreamBufferOwnedHolds == Spec => []StreamBufferOwned
<1>1. DeviceInv => StreamBufferOwned
  BY DEF DeviceInv, Safe
<1>2. QED
  BY <1>1, DeviceInvariant, PTL

\* recv_cmd_data_pc and recv_cmd_stream_pc write within their buffers for
\* every length the line can announce.
THEOREM BuffersNotOverrunHolds == Spec => []BuffersNotOverrun
<1>1. DeviceInv => BuffersNotOverrun
  BY DEF DeviceInv, Safe
<1>2. QED
  BY <1>1, DeviceInvariant, PTL

\* A packet that was received is left alone until its caller has read it.
THEOREM StillAllowedHolds == Spec => []StillAllowed
<1>1. DeviceInv => StillAllowed
  BY DEF DeviceInv, Safe
<1>2. QED
  BY <1>1, DeviceInvariant, PTL
=============================================================================
