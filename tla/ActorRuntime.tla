---------------------------- MODULE ActorRuntime ----------------------------
(***************************************************************************)
(* The actors of the lazy runtime on one machine: the protocol by which    *)
(* they pass registers from producer to consumers and back, and by which   *)
(* they end (class Actor with NaiveActor and WaitAndSendIdsActor, the      *)
(* actor threads, the message bus and the callbacks of the streams).       *)
(*                                                                         *)
(* A regst message passes a register on to a consumer or returns it to     *)
(* its producer.  An eord message says that a descriptor ends: it follows  *)
(* the last register.  A queue is a sequence of batches; the messages of   *)
(* a batch are those the code sends in a loop over a hash map, in any      *)
(* order.                                                                  *)
(***************************************************************************)
EXTENDS Integers, Sequences, FiniteSets

CONSTANTS
    Actor, Desc, Thread,
    Producer,    \* the actor that produces a descriptor
    Consumers,   \* the set of actors that consume it
    Num,         \* register_num of a descriptor
    Inplace,     \* <<in, out>> for an out that is written in the memory of in
    MemBlock,    \* mem_block_id of a descriptor
    ThrdOf,      \* the thread of an actor
    Polled,      \* the threads whose stream has a poller thread for callbacks
    SyncLaunch,  \* the actors with is_kernel_launch_synchronized_
    LocalQueue,  \* local_msg_queue_enabled_
    MaxPieces    \* bound: job instances pushed before the client closes

Consumed(a) == {d \in Desc : a \in Consumers[d]}
Produced(a) == {d \in Desc : Producer[d] = a}
Source == {a \in Actor : Consumed(a) = {}}

\* inplace_consumed_rs_ and naive_consumed_rs_; inplace_regst_desc_id_out2in_.
InplaceConsumed(a) == {d \in Consumed(a) : \E o \in Produced(a) : <<d, o>> \in Inplace}
NaiveConsumed(a) == Consumed(a) \ InplaceConsumed(a)
IsInplaceOut(d) == \E i \in Desc : <<i, d>> \in Inplace
InOf(d) == CHOOSE i \in Desc : <<i, d>> \in Inplace

\* inplace_in_ids_with_no_out_consumed_
InWithNoOutConsumed(a) ==
    {d \in InplaceConsumed(a) :
        \E o \in Produced(a) : <<d, o>> \in Inplace /\ Consumers[o] = {}}

Regst == UNION {{d} \X (1 .. Num[d]) : d \in Desc}
Place(r) == <<MemBlock[r[1]], r[2]>>

RegstMsg(src, dst, r) == [type |-> "regst", src |-> src, dst |-> dst, regst |-> r]
EordMsg(dst, d) == [type |-> "eord", dst |-> dst, desc |-> d]
StartMsg(dst) == [type |-> "start", dst |-> dst]
Msg ==
    [type : {"regst"}, src : Actor, dst : Actor, regst : Regst]
        \cup [type : {"eord"}, dst : Actor, desc : Desc]
        \cup [type : {"start"}, dst : Actor]

ASSUME PlanAssumption ==
    /\ IsFiniteSet(Actor) /\ IsFiniteSet(Desc)
    /\ Producer \in [Desc -> Actor] /\ Consumers \in [Desc -> SUBSET Actor]
    /\ Num \in [Desc -> Nat \ {0}]
    /\ ThrdOf \in [Actor -> Thread] /\ Polled \subseteq Thread /\ SyncLaunch \subseteq Actor
    /\ LocalQueue \in BOOLEAN /\ MaxPieces \in Nat
    /\ \A d \in Desc : Producer[d] \notin Consumers[d]
    \* Inplace is found among descriptors with one register, see
    \* intra_job_mem_sharing_util.cpp 104 and 593 and plan_util.cpp 842.
    /\ \A d, e \in Desc : <<d, e>> \in Inplace =>
           /\ Producer[e] \in Consumers[d] /\ Num[d] = 1 /\ Num[e] = 1
           /\ MemBlock[d] = MemBlock[e]
           /\ \A f \in Desc : <<f, e>> \in Inplace => f = d

VARIABLES
    msgChannel,  \* msg_channel_ of a thread
    local,       \* local_msg_queue_ of a thread
    callbacks,   \* messages of the callbacks added to a thread's stream
    running,     \* the actor whose ActUntilFail a thread is in, if any
    handler,     \* msg_handler_ of an actor; "gone" once it is deleted
    readable,    \* naive_consumed_rs_ and inplace_consumed_rs_
    writeable,   \* naive_produced_rs_ and inplace_produced_rs_
    reading,     \* produced_regst2reading_cnt_
    eord,        \* eord_regst_desc_ids_: the consumed descriptors that ended
    queued,      \* sync_msg_queue_ and async_msg_queue_ of an actor
    open,        \* buffer_status_ of a source is kBufferStatusSuccess
    actCnt,      \* history: acts that passed on a result (act_cnt_)
    mem          \* history: the act whose result a piece of memory holds

vars == <<msgChannel, local, callbacks, running, handler, readable, writeable, reading, eord,
          queued, open, actCnt, mem>>
threadVars == <<msgChannel, local, callbacks, running>>

None == "none"

-----------------------------------------------------------------------------
(***************************************************************************)
(* Sending.                                                                *)
(***************************************************************************)
\* EnqueueActorMsg on the actor thread itself, and from another thread.
EnqueueSelf(t, batch) ==
    IF batch = {} THEN UNCHANGED <<msgChannel, local>>
    ELSE IF LocalQueue
         THEN local' = [local EXCEPT ![t] = Append(@, batch)] /\ UNCHANGED msgChannel
         ELSE msgChannel' = [msgChannel EXCEPT ![t] = Append(@, batch)] /\ UNCHANGED local

\* Mutated: the queue is not tested for emptiness before it is sent.
WithCallback_Always(cbs, batch) == Append(cbs, batch)

\* AddCallback: the callback is run by the poller of the stream, in order, or
\* at once by the actor thread when the stream has none.
WithCallback(cbs, batch) == IF batch = {} THEN cbs ELSE Append(cbs, batch)

IsSyncMsg(a, m) == a \in SyncLaunch /\ ThrdOf[m.dst] = ThrdOf[a]

\* AsyncSendQueuedMsg
AsyncSendQueuedMsg(a, msgs) ==
    LET t == ThrdOf[a]
        sync == {m \in msgs : IsSyncMsg(a, m)}
    IN  /\ EnqueueSelf(t, sync)
        /\ callbacks' = [callbacks EXCEPT ![t] = WithCallback(@, msgs \ sync)]
        /\ queued' = [queued EXCEPT ![a] = {}]

\* Mutated: the newest callback is run first.
RunCallback_Last(t) ==
    /\ callbacks[t] # <<>>
    /\ \E m \in callbacks[t][Len(callbacks[t])] :
        LET dst == ThrdOf[m.dst]
            n == Len(callbacks[t])
            rest == callbacks[t][n] \ {m}
        IN  /\ callbacks' = [callbacks EXCEPT ![t] =
                  IF rest = {} THEN SubSeq(@, 1, n - 1) ELSE [@ EXCEPT ![n] = rest]]
            /\ IF t \notin Polled /\ dst = t
               THEN EnqueueSelf(t, {m})
               ELSE msgChannel' = [msgChannel EXCEPT ![dst] = Append(@, {m})] /\ UNCHANGED local
    /\ UNCHANGED <<running, handler, readable, writeable, reading, eord, queued, open, actCnt, mem>>

\* One SendMsg of the oldest callback of a stream.  Without a poller the
\* actor thread runs it, and goes on when no callback is left.
RunCallback(t) ==
    /\ callbacks[t] # <<>>
    /\ \E m \in Head(callbacks[t]) :
        LET dst == ThrdOf[m.dst]
            rest == Head(callbacks[t]) \ {m}
        IN  /\ callbacks' = [callbacks EXCEPT ![t] =
                  IF rest = {} THEN Tail(@) ELSE <<rest>> \o Tail(@)]
            /\ IF t \notin Polled /\ dst = t
               THEN EnqueueSelf(t, {m})
               ELSE msgChannel' = [msgChannel EXCEPT ![dst] = Append(@, {m})] /\ UNCHANGED local
    /\ UNCHANGED <<running, handler, readable, writeable, reading, eord, queued, open, actCnt, mem>>

\* The actor thread may take its next step.
ThreadFree(t) == t \in Polled \/ callbacks[t] = <<>>

-----------------------------------------------------------------------------
(***************************************************************************)
(* Register slots.                                                         *)
(***************************************************************************)
\* IsCurSlotReady of the consumed and of the produced slots.
IsReadReady(a) ==
    /\ \A d \in Consumed(a) : readable[a][d] # <<>>
    /\ a \in Source => open[a]
IsWriteReady(a) == \A d \in Produced(a) : writeable[d] # <<>>

\* available_regst_desc_cnt() == 0 for both consumed slots.
NoneReadable(a) == \A d \in Consumed(a) : readable[a][d] = <<>>

\* total_reading_cnt_ == 0 and remaining_eord_cnt_ == 0
AllReturned(a, rd) == \A r \in Regst : Producer[r[1]] = a => rd[r] = 0
AllEnded(a, ended) == ended = Consumed(a)

Init ==
    /\ msgChannel = [t \in Thread |->
           LET starts == {StartMsg(a) : a \in {b \in Source : ThrdOf[b] = t}}
           IN  IF starts = {} THEN <<>> ELSE <<starts>>]
    /\ local = [t \in Thread |-> <<>>]
    /\ callbacks = [t \in Thread |-> <<>>]
    /\ running = [t \in Thread |-> None]
    /\ handler = [a \in Actor |-> IF a \in Source THEN "waitToStart" ELSE "normal"]
    /\ readable = [a \in Actor |-> [d \in Desc |-> <<>>]]
    /\ writeable = [d \in Desc |-> [i \in 1 .. Num[d] |-> <<d, i>>]]
    /\ reading = [r \in Regst |-> 0]
    /\ eord = [a \in Actor |-> {}]
    /\ queued = [a \in Actor |-> {}]
    /\ open = [a \in Actor |-> TRUE]
    /\ actCnt = [a \in Actor |-> 0]
    /\ mem = [p \in {Place(r) : r \in Regst} |-> 0]

-----------------------------------------------------------------------------
(***************************************************************************)
(* The message handlers.                                                   *)
(***************************************************************************)
\* Mutated: the channel is read although the local queue is not empty.
ReceiveMany_First(t) ==
    /\ running[t] = None /\ ThreadFree(t) /\ msgChannel[t] # <<>>
    /\ local' = [local EXCEPT ![t] = msgChannel[t] \o @]
    /\ msgChannel' = [msgChannel EXCEPT ![t] = <<>>]
    /\ UNCHANGED <<callbacks, running, handler, readable, writeable, reading, eord, queued, open,
                   actCnt, mem>>

\* PollMsgChannel: the thread refills its local queue only when it is empty.
ReceiveMany(t) ==
    /\ running[t] = None /\ ThreadFree(t) /\ local[t] = <<>> /\ msgChannel[t] # <<>>
    /\ local' = [local EXCEPT ![t] = msgChannel[t]]
    /\ msgChannel' = [msgChannel EXCEPT ![t] = <<>>]
    /\ UNCHANGED <<callbacks, running, handler, readable, writeable, reading, eord, queued, open,
                   actCnt, mem>>

\* The messages that may be next, and the local queue without the one taken.
Nexts(t) ==
    IF running[t] = None /\ ThreadFree(t) /\ local[t] # <<>> THEN Head(local[t]) ELSE {}
Popped(t, m) ==
    LET rest == Head(local[t]) \ {m}
    IN  [local EXCEPT ![t] = IF rest = {} THEN Tail(@) ELSE <<rest>> \o Tail(@)]

\* The messages of AsyncSendEORDMsgForAllProducedRegstDesc.
EordMsgs(a) == UNION {{EordMsg(c, d) : c \in Consumers[d]} : d \in Produced(a)}

\* Mutated: the slots are not looked at; registers with consumers are forgotten.
Halts_NotEmpty(a, ended) == IF Consumed(a) # {} THEN ended # {} ELSE ~open[a]
MayLeave_NotReturned(a, ended, rd) == AllEnded(a, ended)

\* The end of HandlerNormal: whether it halts, and the handler it leaves.
Halts(a, ended) ==
    IF Consumed(a) # {} THEN ended # {} /\ NoneReadable(a) ELSE ~open[a]
MayLeave(a, ended, rd) == AllEnded(a, ended) /\ AllReturned(a, rd)
HandlerAfter(a, ended) ==
    IF ~Halts(a, ended) THEN "normal"
    ELSE IF MayLeave(a, ended, reading) THEN "gone" ELSE "zombie"

\* HandlerWaitToStart, and HandlerNormal of kStart up to ActUntilFail.
HandleStart(t) ==
    /\ \E m \in Nexts(t) :
        /\ m.type = "start" /\ handler[m.dst] = "waitToStart"
        /\ local' = Popped(t, m)
        /\ handler' = [handler EXCEPT ![m.dst] = "normal"]
        /\ running' = [running EXCEPT ![t] = m.dst]
    /\ UNCHANGED <<msgChannel, callbacks, readable, writeable, reading, eord, queued, open, actCnt,
                   mem>>

\* HandlerNormal of an eord.
HandleEord(t) ==
    /\ \E m \in Nexts(t) :
        LET a == m.dst
            ended == eord[a] \cup {m.desc}
        IN  /\ m.type = "eord" /\ handler[a] = "normal" /\ m.desc \notin eord[a]
            /\ local' = Popped(t, m)
            /\ eord' = [eord EXCEPT ![a] = ended]
            /\ handler' = [handler EXCEPT ![a] = HandlerAfter(a, ended)]
            /\ callbacks' = IF Halts(a, ended)
                            THEN [callbacks EXCEPT ![t] = WithCallback(@, EordMsgs(a))]
                            ELSE callbacks
    /\ UNCHANGED <<msgChannel, running, readable, writeable, reading, queued, open, actCnt, mem>>

\* Mutated: the first consumer makes the register writeable.
TryUpdtStateAsProducedRegst_First(a, r) ==
    LET d == r[1]
        first == reading[r] = Cardinality(Consumers[d])
        in == InOf(d)
    IN  /\ reading[r] >= 1
        /\ reading' = [reading EXCEPT ![r] = @ - 1]
        /\ writeable' = IF first THEN [writeable EXCEPT ![d] = Append(@, r)] ELSE writeable
        /\ IF first /\ IsInplaceOut(d)
           THEN /\ readable[a][in] # <<>>
                /\ queued' = [queued EXCEPT ![a] =
                      @ \cup {RegstMsg(a, Producer[in], Head(readable[a][in]))}]
                /\ readable' = [readable EXCEPT ![a][in] = Tail(@)]
           ELSE UNCHANGED <<queued, readable>>

\* TryUpdtStateAsProducedRegst: the last consumer makes a register writeable,
\* and the register whose memory it shares goes back to its own producer.
TryUpdtStateAsProducedRegst(a, r) ==
    LET d == r[1]
        last == reading[r] = 1
        in == InOf(d)
    IN  /\ reading[r] >= 1
        /\ reading' = [reading EXCEPT ![r] = @ - 1]
        /\ writeable' = IF last THEN [writeable EXCEPT ![d] = Append(@, r)] ELSE writeable
        /\ IF last /\ IsInplaceOut(d)
           THEN /\ readable[a][in] # <<>>
                /\ queued' = [queued EXCEPT ![a] =
                      @ \cup {RegstMsg(a, Producer[in], Head(readable[a][in]))}]
                /\ readable' = [readable EXCEPT ![a][in] = Tail(@)]
           ELSE UNCHANGED <<queued, readable>>

\* HandlerNormal of a register, up to ActUntilFail.
HandleRegst(t) ==
    /\ \E m \in Nexts(t) :
        LET a == m.dst
            d == m.regst[1]
        IN  /\ m.type = "regst" /\ handler[a] = "normal"
            /\ local' = Popped(t, m)
            /\ running' = [running EXCEPT ![t] = a]
            /\ IF d \in Consumed(a)
               THEN /\ readable' = [readable EXCEPT ![a][d] = Append(@, m.regst)]
                    /\ UNCHANGED <<writeable, reading, queued>>
               ELSE TryUpdtStateAsProducedRegst(a, m.regst)
    /\ UNCHANGED <<msgChannel, callbacks, handler, eord, open, actCnt, mem>>

\* HandlerZombie.  A consumed register would fail a check in TryPopFrontRegst.
HandleZombie(t) ==
    /\ \E m \in Nexts(t) :
        LET a == m.dst
        IN  /\ handler[a] = "zombie"
            /\ local' = Popped(t, m)
            /\ \/ /\ m.type = "eord"
                  /\ eord' = [eord EXCEPT ![a] = @ \cup {m.desc}]
                  /\ UNCHANGED <<readable, writeable, reading, queued>>
               \/ /\ m.type = "regst" /\ m.regst[1] \in Produced(a)
                  /\ TryUpdtStateAsProducedRegst(a, m.regst)
                  /\ UNCHANGED eord
            /\ handler' = IF MayLeave(a, eord'[a], reading')
                          THEN [handler EXCEPT ![a] = "gone"] ELSE handler
    /\ UNCHANGED <<msgChannel, callbacks, running, open, actCnt, mem>>

-----------------------------------------------------------------------------
(***************************************************************************)
(* ActUntilFail: one turn of its loop, and its end with that of the        *)
(* handler.                                                                *)
(***************************************************************************)
\* The registers that an act takes, those it hands back, those it passes on.
Fronts(a) == {Head(writeable[d]) : d \in Produced(a)}
HandedBack(a) == NaiveConsumed(a) \cup InWithNoOutConsumed(a)
PassedOn(a) == {d \in Produced(a) : Consumers[d] # {}}

ActMsgs(a) ==
    UNION {{RegstMsg(a, c, Head(writeable[d])) : c \in Consumers[d]} : d \in PassedOn(a)}
        \cup {RegstMsg(a, Producer[d], Head(readable[a][d])) : d \in HandedBack(a)}

\* A turn of the loop.  The kernel of a source waits for a job instance.
ActOnce(t) ==
    LET a == running[t]
        passed == {Head(writeable[d]) : d \in PassedOn(a)}
    IN  /\ a # None /\ ThreadFree(t)
        /\ IsReadReady(a) /\ IsWriteReady(a)
        /\ a \in Source => actCnt[a] < MaxPieces
        /\ \A r \in passed : reading[r] = 0
        /\ actCnt' = [actCnt EXCEPT ![a] = @ + 1]
        /\ mem' = [p \in DOMAIN mem |->
              IF \E r \in Fronts(a) : Place(r) = p THEN actCnt[a] + 1 ELSE mem[p]]
        /\ reading' = [r \in Regst |->
              IF r \in passed THEN Cardinality(Consumers[r[1]]) ELSE reading[r]]
        /\ writeable' = [d \in Desc |->
              IF d \in PassedOn(a) THEN Tail(writeable[d]) ELSE writeable[d]]
        /\ readable' = [readable EXCEPT ![a] =
              [d \in Desc |-> IF d \in HandedBack(a) THEN Tail(@[d]) ELSE @[d]]]
        /\ AsyncSendQueuedMsg(a, queued[a] \cup ActMsgs(a))
        /\ UNCHANGED <<running, handler, eord, open>>

\* The turn in which the kernel of a source finds the buffer closed.
ActClosed(t) ==
    LET a == running[t]
    IN  /\ a \in Source /\ ThreadFree(t)
        /\ IsReadReady(a) /\ IsWriteReady(a)
        /\ open' = [open EXCEPT ![a] = FALSE]
        /\ UNCHANGED <<threadVars, handler, readable, writeable, reading, eord, queued, actCnt, mem>>

\* Mutated: what is queued is not sent.
ActFail_NoSend(t) ==
    LET a == running[t]
        ends == IF Halts(a, eord[a]) THEN EordMsgs(a) ELSE {}
    IN  /\ a # None /\ ThreadFree(t)
        /\ ~(IsReadReady(a) /\ IsWriteReady(a))
        /\ callbacks' = [callbacks EXCEPT ![t] = WithCallback(@, ends)]
        /\ handler' = [handler EXCEPT ![a] = HandlerAfter(a, eord[a])]
        /\ running' = [running EXCEPT ![t] = None]
        /\ UNCHANGED <<msgChannel, local, queued, readable, writeable, reading, eord, open, actCnt, mem>>

\* The loop ends; what is queued is sent before the eords of a handler that halts.
ActFail(t) ==
    LET a == running[t]
        sync == {m \in queued[a] : IsSyncMsg(a, m)}
        ends == IF Halts(a, eord[a]) THEN EordMsgs(a) ELSE {}
    IN  /\ a # None /\ ThreadFree(t)
        /\ ~(IsReadReady(a) /\ IsWriteReady(a))
        /\ EnqueueSelf(t, sync)
        /\ callbacks' = [callbacks EXCEPT ![t] = WithCallback(WithCallback(@, queued[a] \ sync), ends)]
        /\ queued' = [queued EXCEPT ![a] = {}]
        /\ handler' = [handler EXCEPT ![a] = HandlerAfter(a, eord[a])]
        /\ running' = [running EXCEPT ![t] = None]
        /\ UNCHANGED <<readable, writeable, reading, eord, open, actCnt, mem>>

\* Every actor is deleted and every message was delivered.
AllGone == \A a \in Actor : handler[a] = "gone"
Finished ==
    /\ AllGone
    /\ \A t \in Thread : local[t] = <<>> /\ msgChannel[t] = <<>> /\ callbacks[t] = <<>>
    /\ UNCHANGED vars

ThreadStep(t) ==
    \/ ReceiveMany(t) \/ HandleStart(t) \/ HandleEord(t) \/ HandleRegst(t) \/ HandleZombie(t)
    \/ ActOnce(t) \/ ActClosed(t) \/ ActFail(t)

Next ==
    \/ \E t \in Thread : ThreadStep(t) \/ RunCallback(t)
    \/ Finished

Spec == Init /\ [][Next]_vars

\* Actor threads and pollers run; a kernel ends, and so does the client's job.
FairSpec ==
    Spec /\ \A t \in Thread : WF_vars(ThreadStep(t)) /\ WF_vars(RunCallback(t))

-----------------------------------------------------------------------------
(***************************************************************************)
(* Properties.                                                             *)
(***************************************************************************)
Queues(t) == local[t] \o msgChannel[t] \o callbacks[t]
InFlight == UNION {UNION {Queues(t)[i] : i \in 1 .. Len(Queues(t))} : t \in Thread}
Copies(m) ==
    Cardinality({x \in UNION {{t} \X (1 .. Len(Queues(t))) : t \in Thread} : m \in Queues(x[1])[x[2]]})

\* The variables have their types.
TypeOK ==
    /\ \A q \in {msgChannel, local, callbacks} : q \in [Thread -> Seq((SUBSET Msg) \ {{}})]
    /\ running \in [Thread -> Actor \cup {None}]
    /\ handler \in [Actor -> {"waitToStart", "normal", "zombie", "gone"}]
    /\ readable \in [Actor -> [Desc -> Seq(Regst)]]
    /\ writeable \in [Desc -> Seq(Regst)]
    /\ reading \in [Regst -> Nat]
    /\ eord \in [Actor -> SUBSET Desc]
    /\ queued \in [Actor -> SUBSET Msg]
    /\ open \in [Actor -> BOOLEAN]
    /\ actCnt \in [Actor -> Nat]
    /\ mem \in [{Place(r) : r \in Regst} -> Nat]

\* How often register r is on its way to consumer c, at c, or on its way back.
Tokens(r, c) ==
    LET d == r[1]
        p == Producer[d]
    IN  Copies(RegstMsg(p, c, r)) + Copies(RegstMsg(c, p, r))
        + Cardinality({i \in 1 .. Len(readable[c][d]) : readable[c][d][i] = r})
        + Cardinality(queued[c] \cap {RegstMsg(c, p, r)})

\* The reading count of a register (HandleRegstToConsumer, TryUpdtStateAs-
\* ProducedRegst) is the number of consumers that it is with or on its way to
\* or from, never twice with one; and its producer writes it again only when
\* there is none.
RegstCredit ==
    \A r \in Regst :
        /\ \A c \in Consumers[r[1]] : Tokens(r, c) <= 1
        /\ reading[r] = Cardinality({c \in Consumers[r[1]] : Tokens(r, c) = 1})
        /\ (\E i \in 1 .. Len(writeable[r[1]]) : writeable[r[1]][i] = r) <=> reading[r] = 0

\* What a consumer holds is what it reads next: the registers in its slots hold,
\* in memory, the results of the producer's acts in order, from the one the
\* consumer is to act on.  (An inplace input stays until its output is back.)
PiecesInOrder ==
    \A a \in Actor : \A d \in Consumed(a) : \A i \in 1 .. Len(readable[a][d]) :
        LET acted == d \in InplaceConsumed(a) /\ \E o \in Produced(a) :
                         <<d, o>> \in Inplace /\ writeable[o] = <<>>
        IN  mem[Place(readable[a][d][i])] = actCnt[a] + i - (IF acted THEN 1 ELSE 0)

\* An actor is deleted only when no message can reach it any more, so that
\* PollMsgChannel finds the actor of every message.
NoOrphanMessage == \A m \in InFlight : handler[m.dst] # "gone"

\* An eord is received after the last register of its descriptor: no register
\* is behind it on the way to the consumer, and it is sent once.
EordAfterRegsts ==
    \A a \in Actor : \A d \in eord[a] :
        /\ EordMsg(a, d) \notin InFlight
        /\ \A r \in Regst : r[1] = d => RegstMsg(Producer[d], a, r) \notin InFlight

\* An actor halts when it has acted on every piece that its producers made,
\* although it does so on the first eord it receives.
HaltAfterAllPieces ==
    \A a \in Actor : handler[a] \in {"zombie", "gone"} =>
        \A d \in Consumed(a) : actCnt[a] = actCnt[Producer[d]]

\* Every job ends: all actors are deleted, and Runtime's destructor returns.
Termination == <>AllGone

=============================================================================
