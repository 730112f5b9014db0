------------------------------- MODULE MsgFifo -------------------------------
(***************************************************************************)
(* What a one-way connection between two machines promises its users: the  *)
(* messages handed to SocketHelper::AsyncWrite by the threads of one       *)
(* machine are handled by the other one once each, in the order of the     *)
(* calls.                                                                  *)
(***************************************************************************)
EXTENDS Sequences

CONSTANT Msg
VARIABLES queue,      \* messages accepted and not yet handled
          delivered   \* messages handled by the peer

Init == queue = <<>> /\ delivered = <<>>

Send(m) == queue' = Append(queue, m) /\ UNCHANGED delivered

Deliver ==
    /\ queue # <<>>
    /\ queue' = Tail(queue) /\ delivered' = Append(delivered, Head(queue))

Next == (\E m \in Msg : Send(m)) \/ Deliver

Spec == Init /\ [][Next]_<<queue, delivered>>

=============================================================================
