------------------------- MODULE GbridgeDeviceOpen -------------------------
(***************************************************************************)
(* The device alone, on a serial line that carries anything: what holds    *)
(* here holds whatever the bridge, the cable or another program on the     *)
(* port sends.  The environment writes one of Inputs when the line to the  *)
(* device is silent, and takes what the device wrote.                      *)
(***************************************************************************)
EXTENDS GbridgeDevice

CONSTANT Inputs  \* the byte sequences the environment may write

ASSUME InputsAssumption == Inputs \subseteq Seq(Byte)

vars == <<deviceVars, wire>>

Init == DeviceInit /\ toPC = <<>> /\ toDev = <<>>

Environment ==
  /\ toDev = <<>>
  /\ \E bytes \in Inputs : toDev' = bytes
  /\ toPC' = <<>>
  /\ UNCHANGED deviceVars

Next == DeviceStep \/ Timeout \/ Environment

Spec == Init /\ [][Next]_vars

\* main's loop runs for ever and the timer interrupt keeps counting.
FairSpec == Spec /\ WF_vars(DeviceStep) /\ WF_vars(Timeout)

\* Every wait_cmd call returns, whatever the line carries: "This function
\* blocks until the relay confirms this, or a timeout occurs."
WaitCmdReturns == (pc = "wait_cmd") ~> (pc # "wait_cmd")
=============================================================================
