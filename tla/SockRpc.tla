------------------------------ MODULE SockRpc ------------------------------
(***************************************************************************)
(* What libmobile may rely on when it calls a mobile_impl_sock_* function: *)
(* the bridge executes the request at most once, never on account of an    *)
(* earlier one, and the value returned is that of this execution; a call   *)
(* that fails may or may not have been executed.  There is no other way to *)
(* learn of an execution, and a request that is overtaken by the next one  *)
(* is never executed any more.                                             *)
(***************************************************************************)
EXTENDS Integers, Sequences

CONSTANTS Requests, NoRequest, Values

VARIABLES
  sent,      \* the last request sent
  served,    \* its executions: at most one
  waiting,   \* its caller waits
  returned   \* what the last call that ended returned

vars == <<sent, served, waiting, returned>>

Execution(req, val) == [op |-> req.op, conn |-> req.conn, val |-> val]
Failure(req) == [req |-> req, replied |-> FALSE, val |-> 0]

Init ==
  /\ sent = NoRequest /\ served = <<>>
  /\ waiting = FALSE /\ returned = Failure(NoRequest)

Send(req) ==
  /\ ~waiting
  /\ sent' = req /\ served' = <<>> /\ waiting' = TRUE
  /\ UNCHANGED returned

\* The caller may have given up, but has sent nothing since.
Execute(val) ==
  /\ sent # NoRequest /\ served = <<>>
  /\ served' = <<Execution(sent, val)>>
  /\ UNCHANGED <<sent, waiting, returned>>

Answer ==
  /\ waiting /\ served # <<>>
  /\ waiting' = FALSE
  /\ returned' = [req |-> sent, replied |-> TRUE, val |-> served[1].val]
  /\ UNCHANGED <<sent, served>>

GiveUp ==
  /\ waiting
  /\ waiting' = FALSE /\ returned' = Failure(sent)
  /\ UNCHANGED <<sent, served>>

\* Not connected: the request is not even sent.
Refuse(req) ==
  /\ ~waiting
  /\ returned' = Failure(req)
  /\ UNCHANGED <<sent, served, waiting>>

Next ==
  \/ \E req \in Requests : Send(req) \/ Refuse(req)
  \/ \E val \in Values : Execute(val)
  \/ Answer \/ GiveUp

Spec == Init /\ [][Next]_vars
=============================================================================
