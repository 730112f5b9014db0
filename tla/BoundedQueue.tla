---------------------------- MODULE BoundedQueue ----------------------------
(***************************************************************************)
(* What a Buffer (oneflow/core/common/buffer.h) promises the threads that  *)
(* share it: a queue of at most MaxLen items that every call takes effect  *)
(* on at one moment.  Once it is closed nothing is added any more, and     *)
(* what is left can still be taken.                                        *)
(***************************************************************************)
EXTENDS Naturals, Sequences

CONSTANTS Thread, Item, MaxLen
VARIABLES queue, closed,
          result   \* the last return: thread, status and item

vars == <<queue, closed, result>>

None == "none"
Returns(t, status, x) == result' = <<t, status, x>>

Init == queue = <<>> /\ closed = FALSE /\ result = <<>>

Push(t, x) ==
    /\ ~closed /\ Len(queue) < MaxLen
    /\ queue' = Append(queue, x) /\ Returns(t, "success", x) /\ UNCHANGED closed

Take(t) ==
    /\ queue # <<>>
    /\ queue' = Tail(queue) /\ Returns(t, "success", Head(queue)) /\ UNCHANGED closed

\* A Push, or a Pull that finds nothing.
Refused(t) == closed /\ Returns(t, "closed", None) /\ UNCHANGED <<queue, closed>>

\* TryReceive.
Nothing(t) == queue = <<>> /\ ~closed /\ Returns(t, "empty", None) /\ UNCHANGED <<queue, closed>>

Close(t) == closed' = TRUE /\ Returns(t, "success", None) /\ UNCHANGED queue

Next ==
    \E t \in Thread : \/ Take(t) \/ Refused(t) \/ Nothing(t) \/ Close(t)
                     \/ \E x \in Item : Push(t, x)

Spec == Init /\ [][Next]_vars

=============================================================================
