------------------------------- MODULE Buffer -------------------------------
(***************************************************************************)
(* Buffer<T> (oneflow/core/common/buffer.h): a bounded queue that any      *)
(* number of threads push to and pull from.  All of them wait on the one   *)
(* condition variable cond_; Push notifies a single thread of it, Pull and *)
(* TryReceive notify all.                                                  *)
(*                                                                         *)
(* A call holds the mutex from its start to its end or to its wait, so it  *)
(* is one step; waiting threads are in asleep, and a thread that has been  *)
(* notified takes the mutex again in a later step, in competition with new *)
(* calls.  A wait may also end without a notification.                     *)
(***************************************************************************)
EXTENDS Naturals, Sequences, FiniteSets

CONSTANTS
    Thread, Item,
    MaxLen      \* max_len_

ASSUME BufferAssumption == IsFiniteSet(Thread) /\ MaxLen \in Nat

VARIABLES
    queue,      \* queue_
    closed,     \* is_closed_
    asleep,     \* the threads that wait on cond_
    call,       \* the call a thread is in
    item,       \* the item of a thread's Push
    result      \* the last return of all: its thread, status and item

vars == <<queue, closed, asleep, call, item, result>>

None == "none"

Init ==
    /\ queue = <<>> /\ closed = FALSE /\ asleep = {}
    /\ call = [t \in Thread |-> None] /\ item = [t \in Thread |-> None]
    /\ result = <<>>

\* A thread calls Push(x), Pull, TryReceive or Close; it does not have the mutex yet.
Enter(t, c, x) ==
    /\ call[t] = None
    /\ call' = [call EXCEPT ![t] = c] /\ item' = [item EXCEPT ![t] = x]
    /\ UNCHANGED <<queue, closed, asleep, result>>

Runs(t, c) == call[t] = c /\ t \notin asleep
Return(t, status, x) ==
    /\ call' = [call EXCEPT ![t] = None] /\ item' = [item EXCEPT ![t] = None]
    /\ result' = <<t, status, x>>

\* cond_.notify_one() and cond_.notify_all().
NotifyOne == IF asleep = {} THEN asleep' = {} ELSE \E t \in asleep : asleep' = asleep \ {t}
NotifyAll == asleep' = {}

\* cond_.wait(lock, pred) with a predicate that does not hold.
Wait(t) == asleep' = asleep \cup {t} /\ UNCHANGED <<queue, closed, call, item, result>>

SpuriousWakeup(t) ==
    /\ t \in asleep /\ asleep' = asleep \ {t}
    /\ UNCHANGED <<queue, closed, call, item, result>>

-----------------------------------------------------------------------------
PushReady_OneTooMany == Len(queue) <= MaxLen \/ closed
PushReady == Len(queue) < MaxLen \/ closed
PullReady == queue # <<>> \/ closed

Push_NotifyIfEmpty(t) ==
    /\ Runs(t, "Push")
    /\ \/ ~PushReady /\ Wait(t)
       \/ closed /\ Return(t, "closed", None) /\ UNCHANGED <<queue, closed, asleep>>
       \/ /\ PushReady /\ ~closed
          /\ queue' = Append(queue, item[t]) /\ Return(t, "success", item[t])
          /\ IF queue = <<>> THEN NotifyOne ELSE UNCHANGED asleep
          /\ UNCHANGED closed

Push(t) ==
    /\ Runs(t, "Push")
    /\ \/ ~PushReady /\ Wait(t)
       \/ closed /\ Return(t, "closed", None) /\ UNCHANGED <<queue, closed, asleep>>
       \/ /\ PushReady /\ ~closed
          /\ queue' = Append(queue, item[t]) /\ Return(t, "success", item[t])
          /\ NotifyOne /\ UNCHANGED closed

\* The end of Pull and of TryReceive.
Take(t) ==
    /\ queue # <<>>
    /\ queue' = Tail(queue) /\ Return(t, "success", Head(queue))
    /\ IF Len(queue') < MaxLen THEN NotifyAll ELSE UNCHANGED asleep
    /\ UNCHANGED closed

Pull_ClosedFirst(t) ==
    /\ Runs(t, "Pull")
    /\ \/ ~PullReady /\ Wait(t)
       \/ closed /\ Return(t, "empty", None) /\ UNCHANGED <<queue, closed, asleep>>
       \/ ~closed /\ Take(t)

Pull(t) ==
    /\ Runs(t, "Pull")
    /\ \/ ~PullReady /\ Wait(t)
       \/ PullReady /\ queue = <<>> /\ Return(t, "closed", None) /\ UNCHANGED <<queue, closed, asleep>>
       \/ Take(t)

TryReceive(t) ==
    /\ Runs(t, "TryReceive")
    /\ \/ /\ queue = <<>> /\ Return(t, IF closed THEN "closed" ELSE "empty", None)
          /\ UNCHANGED <<queue, closed, asleep>>
       \/ Take(t)

Close(t) ==
    /\ Runs(t, "Close")
    /\ closed' = TRUE /\ NotifyAll
    /\ Return(t, "success", None) /\ UNCHANGED queue

Next == \E t \in Thread :
    \/ Push(t) \/ Pull(t) \/ TryReceive(t) \/ Close(t) \/ SpuriousWakeup(t)
    \/ \E x \in Item : Enter(t, "Push", x)
    \/ \E c \in {"Pull", "TryReceive", "Close"} : Enter(t, c, None)

Spec == Init /\ [][Next]_vars

-----------------------------------------------------------------------------
TypeOK ==
    /\ queue \in Seq(Item) /\ Len(queue) <= MaxLen /\ closed \in BOOLEAN
    /\ call \in [Thread -> {None, "Push", "Pull", "TryReceive", "Close"}]
    /\ asleep \subseteq {t \in Thread : call[t] \in {"Push", "Pull"}}
    /\ \A t \in Thread : call[t] = "Push" => item[t] \in Item
    /\ item \in [Thread -> Item \cup {None}]

Awake(c) == {t \in Thread : call[t] = c /\ t \notin asleep}

(***************************************************************************)
(* Nobody sleeps in vain, although Push notifies one thread of a condition *)
(* that pushers and pullers share.  Nobody waits on a closed buffer; a     *)
(* thread that waits in Push finds the buffer full, so the notification of *)
(* a Push always reaches a thread in Pull; and while a thread waits in     *)
(* Pull there are at least as many others on their way to the items as     *)
(* there are items.                                                        *)
(***************************************************************************)
NobodySleepsInVain ==
    /\ closed => asleep = {}
    /\ \A t \in asleep :
         /\ call[t] = "Push" => Len(queue) = MaxLen
         /\ call[t] = "Pull" => Len(queue) <= Cardinality(Awake("Pull"))

(***************************************************************************)
(* A Buffer is a BoundedQueue: the waiting and notifying have no effect of *)
(* their own, and each call takes effect at one moment between its start   *)
(* and its end.                                                            *)
(***************************************************************************)
Abstract == INSTANCE BoundedQueue
ImplementsQueue == Abstract!Spec

=============================================================================
