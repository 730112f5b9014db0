------------------------------ MODULE Transfer ------------------------------
(***************************************************************************)
(* What Transport promises (oneflow/core/transport/transport.h): the k-th  *)
(* Send and the k-th Receive of a channel make a pair; once both are       *)
(* called the data is moved, once, and then each side's callback runs,     *)
(* once.                                                                   *)
(***************************************************************************)
EXTENDS Naturals, Sequences, Functions

CONSTANT Channel
VARIABLES
    sent, recvd,   \* calls of Send and Receive, by channel
    moved,         \* <<c, k, j>>: the memory of Send k was copied to that of Receive j
    slog, rlog     \* callbacks of Send and of Receive, in the order they ran

vars == <<sent, recvd, moved, slog, rlog>>

Init ==
    /\ sent = [c \in Channel |-> 0] /\ recvd = [c \in Channel |-> 0]
    /\ moved = {}
    /\ slog = [c \in Channel |-> <<>>] /\ rlog = [c \in Channel |-> <<>>]

Send(c) == sent' = [sent EXCEPT ![c] = @ + 1] /\ UNCHANGED <<recvd, moved, slog, rlog>>
Receive(c) == recvd' = [recvd EXCEPT ![c] = @ + 1] /\ UNCHANGED <<sent, moved, slog, rlog>>

Move(c, k) ==
    /\ k <= sent[c] /\ k <= recvd[c] /\ <<c, k, k>> \notin moved
    /\ moved' = moved \cup {<<c, k, k>>}
    /\ UNCHANGED <<sent, recvd, slog, rlog>>

SendDone(c, k) ==
    /\ <<c, k, k>> \in moved /\ k \notin Range(slog[c])
    /\ slog' = [slog EXCEPT ![c] = Append(@, k)]
    /\ UNCHANGED <<sent, recvd, moved, rlog>>

ReceiveDone(c, k) ==
    /\ <<c, k, k>> \in moved /\ k \notin Range(rlog[c])
    /\ rlog' = [rlog EXCEPT ![c] = Append(@, k)]
    /\ UNCHANGED <<sent, recvd, moved, slog>>

Next == \E c \in Channel :
    \/ Send(c) \/ Receive(c)
    \/ \E k \in 1 .. sent[c] : Move(c, k) \/ SendDone(c, k) \/ ReceiveDone(c, k)

Spec == Init /\ [][Next]_vars

=============================================================================
