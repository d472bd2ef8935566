------------------------------- MODULE MCLink -------------------------------
(***************************************************************************)
(* Instances of GbridgeLink.                                               *)
(***************************************************************************)
EXTENDS GbridgeLink

Request(op, size) == [op |-> op, conn |-> 0, addr |-> ADDR_IPV4, size |-> size]

AllRequests ==
  {Request(op, 0) : op \in {OPEN, CLOSE, CONNECT, LISTEN, ACCEPT}}
    \cup {Request(SEND, 2), Request(RECV, 2)}

FewRequests ==
  {Request(OPEN, 0), Request(CLOSE, 0), Request(SEND, 1), Request(RECV, 2)}

BigRequests == {Request(OPEN, 0), Request(RECV, 300)}
=============================================================================
