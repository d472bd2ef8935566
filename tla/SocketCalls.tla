---------------------------- MODULE SocketCalls -----------------------------
(***************************************************************************)
(* What gbridge_prot_ma.c relies on when it calls a socket_impl function,  *)
(* and what GbridgeBridge takes for granted: it returns one of a few       *)
(* values, a connection is open from the socket_impl_open that returned    *)
(* true to the next socket_impl_close, and no other function changes that. *)
(***************************************************************************)
EXTENDS Integers

CONSTANTS Calls, NoCall   \* records [op, conn, size, ...]

VARIABLES
  open,     \* the connections with sockets[conn] # -1
  call,     \* the call that runs
  returned  \* the value of the last one

vars == <<open, call, returned>>

Results(c) ==
  CASE c.op = "close" -> {0}
    [] c.op = "connect" -> {-1, 0, 1}
    [] c.op = "send" -> -1..c.size
    [] c.op = "recv" -> -2..c.size
    [] OTHER -> {0, 1}

Init == open = {} /\ call = NoCall /\ returned = 0

Begin(c) ==
  /\ call = NoCall
  /\ c.conn \in open <=> c.op # "open"
  /\ call' = c /\ returned' = 0
  /\ UNCHANGED open

End ==
  /\ call # NoCall
  /\ call' = NoCall
  /\ returned' \in Results(call)
  /\ open' = CASE call.op = "open" /\ returned' = 1 -> open \cup {call.conn}
               [] call.op = "close" -> open \ {call.conn}
               [] OTHER -> open

Next == End \/ \E c \in Calls : Begin(c)

Spec == Init /\ [][Next]_vars
=============================================================================
