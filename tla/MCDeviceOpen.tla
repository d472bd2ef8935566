---------------------------- MODULE MCDeviceOpen ----------------------------
(***************************************************************************)
(* Instance of GbridgeDeviceOpen: one connection, the operations that      *)
(* reach every state of the device, and inputs that are right, wrong, cut  *)
(* short, repeated, late and out of place.                                 *)
(***************************************************************************)
EXTENDS GbridgeDeviceOpen

Request(op, size) == [op |-> op, conn |-> 0, addr |-> ADDR_IPV4, size |-> size]

MCRequests == {Request(OPEN, 0), Request(RECV, 2), Request(SEND, 1)}

Good(payload) == DataFrame(GBRIDGE_CMD_DATA_PC, payload)
GoodStream(bytes) == StreamFrame(GBRIDGE_CMD_STREAM_PC, bytes)

MCInputs ==
  { GBRIDGE_HANDSHAKE, <<153, 153, 102, 0>>,
    <<GBRIDGE_CMD_RESET>>,
    <<Reply(GBRIDGE_CMD_DATA)>>, <<Reply(GBRIDGE_CMD_STREAM)>>,
    <<Reply(GBRIDGE_CMD_DEBUG_LINE)>>,
    Good(<<OPEN, 1>>), Good(<<SEND, 0, 1>>),
    Good(<<RECV, 0, 2, ADDR_NONE>>), Good(<<>>),
    <<GBRIDGE_CMD_DATA_PC, 129>>, <<GBRIDGE_CMD_DATA_PC, 1, 1, 0, 0>>,
    GoodStream(<<7, 8>>), GoodStream(<<>>),
    <<GBRIDGE_CMD_STREAM_PC, 0, 3>>, <<GBRIDGE_CMD_STREAM_PC, 0, 1>> }
=============================================================================
