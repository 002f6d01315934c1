--------------------------- MODULE MessageChannel ---------------------------
(***************************************************************************)
(* What the socket library promises the code above it (Socket.h: sendMsg,  *)
(* processMsg), with the byte stream hidden: one direction of a connection *)
(* is a queue of whole messages.  A message is accepted once, delivered at *)
(* most once, whole, in the order of acceptance; when the connection is    *)
(* severed what was still queued is lost, and nothing of it ever turns up  *)
(* on the next connection.                                                 *)
(***************************************************************************)
EXTENDS Naturals, Sequences

CONSTANT Messages       \* whole messages, each sent at most once

VARIABLES up,           \* the receiving end is connected
          pending,      \* accepted on this connection and not yet delivered
          delivered     \* everything handed to processMsg, over all connections

vars == <<up, pending, delivered>>

Init == /\ up = TRUE
        /\ pending = <<>>
        /\ delivered = <<>>

Accept(m) == /\ up
             /\ pending' = Append(pending, m)
             /\ UNCHANGED <<up, delivered>>

\* One call of processMsg hands over a batch: the n oldest pending messages.
Deliver == \E n \in 1..Len(pending) :
             /\ up
             /\ delivered' = delivered \o SubSeq(pending, 1, n)
             /\ pending' = SubSeq(pending, n + 1, Len(pending))
             /\ UNCHANGED up

Sever == /\ up
         /\ up' = FALSE
         /\ pending' = <<>>
         /\ UNCHANGED delivered

Restore == /\ ~up
           /\ up' = TRUE
           /\ UNCHANGED <<pending, delivered>>

Next == \/ \E m \in Messages : Accept(m)
        \/ Deliver \/ Sever \/ Restore

\* A pending message does not wait for ever: it is delivered, or the
\* connection is given up.
Spec == Init /\ [][Next]_vars /\ WF_vars(Deliver \/ (pending # <<>> /\ Sever))
=============================================================================
