----------------------------- MODULE ThreadPool -----------------------------
(***************************************************************************)
(* The compute ThreadPool (oneflow/core/thread/thread_pool.cpp) with its   *)
(* one Channel (common/channel.h) per worker thread, and the parallel loop *)
(* MultiThreadLoop (thread/thread_manager.h) that splits an index range    *)
(* with a BalancedSplitter over the workers and waits on a BlockingCounter *)
(* until all of them have run.  The splitter and the counter are locals of *)
(* the loop: the workers hold references to them.                          *)
(*                                                                         *)
(* A client thread runs the loops of its Program one after the other.  The *)
(* body of a loop has no steps of its own here: done counts how often it   *)
(* was called for each index of the client's last loop.                    *)
(***************************************************************************)
EXTENDS Integers, Sequences, FiniteSets

CONSTANTS
    Client,
    ThreadNum,  \* threads_.size()
    Program,    \* for each client, its loops: work_num and limit_thread_num
    CntMod      \* work_cnt_ is a size_t: it counts modulo CntMod

Loop == [n : Nat, limit : Int]
Worker == 0 .. ThreadNum - 1

ASSUME PoolAssumption ==
    /\ ThreadNum \in Nat \ {0} /\ CntMod \in Nat \ {0}
    /\ Program \in [Client -> Seq(Loop)]

VARIABLES
    queue,      \* queue_ of each worker's channel
    closed,     \* is_closed_ of each channel
    asleep,     \* the workers that wait on cond_ of their channel
    wpc,        \* where a worker is
    job,        \* the work it has taken: the client whose loop it is, and range_id
    workCnt,    \* work_cnt_
    cpc,        \* where a client is
    todo,       \* the loops it has still to call
    loop,       \* work_num and thread_num of its last loop
    range,      \* range_id
    chan,       \* cur_chan_idx
    cnt,        \* cnt_val_ of its BlockingCounter
    mtx,        \* who holds mtx_ of its BlockingCounter
    done,       \* how often the body has run for each index
    pool,       \* the pool: "up", "close" and "join" in its destructor, "gone"
    victim      \* the worker the destructor is at

workers == <<queue, closed, asleep, wpc, job>>
clients == <<workCnt, cpc, todo, loop, range, chan, cnt, mtx, done>>
vars == <<workers, clients, pool, victim>>

Nobody == -1

-----------------------------------------------------------------------------
\* BalancedSplitter(total, parts): At(i).begin(), At(i).end() and GetRangeIndexForVal(v).
Begin(total, parts, i) ==
    LET size == total \div parts
        big  == total % parts
    IN  IF i < big THEN (size + 1) * i ELSE (size + 1) * big + size * (i - big)

End_NoRemainder(total, parts, i) == Begin(total, parts, i) + total \div parts

End(total, parts, i) ==
    LET size == total \div parts
        big  == total % parts
    IN  Begin(total, parts, i) + IF i < big THEN size + 1 ELSE size

Part(total, parts, i) == Begin(total, parts, i) .. End(total, parts, i) - 1

RangeIndex(total, parts, v) ==
    LET size == total \div parts
        big  == total % parts
        base == (size + 1) * big
    IN  IF v < base THEN v \div (size + 1) ELSE big + (v - base) \div size

-----------------------------------------------------------------------------
Init ==
    /\ queue = [w \in Worker |-> <<>>] /\ closed = [w \in Worker |-> FALSE] /\ asleep = {}
    /\ wpc = [w \in Worker |-> "receive"] /\ job = [w \in Worker |-> <<>>]
    /\ workCnt = 0
    /\ cpc = [c \in Client |-> "idle"] /\ todo = Program
    /\ loop = [c \in Client |-> [n |-> 0, threads |-> 1]]
    /\ range = [c \in Client |-> 0] /\ chan = [c \in Client |-> 0]
    /\ cnt = [c \in Client |-> 0] /\ mtx = [c \in Client |-> Nobody]
    /\ done = [c \in Client |-> <<>>]
    /\ pool = "up" /\ victim = 0

Least(a, b) == IF a < b THEN a ELSE b

\* thread_num of a loop.
Threads(l) == Least(l.n, IF l.limit > 0 THEN Least(ThreadNum, l.limit) ELSE ThreadNum)

\* MultiThreadLoop up to its first AddWork, or all of it where the client runs the loop itself.
Start(c) ==
    LET l == Head(todo[c])
        alone == l.n = 0 \/ pool = "gone" \/ l.limit = 0
    IN  /\ cpc[c] = "idle" /\ todo[c] # <<>> /\ pool \in {"up", "gone"}
        /\ todo' = [todo EXCEPT ![c] = Tail(todo[c])]
        /\ done' = [done EXCEPT ![c] = [i \in 0 .. l.n - 1 |-> IF alone THEN 1 ELSE 0]]
        /\ IF alone THEN UNCHANGED <<cpc, loop, range, cnt>>
           ELSE /\ cpc' = [cpc EXCEPT ![c] = "add"]
                /\ loop' = [loop EXCEPT ![c] = [n |-> l.n, threads |-> Threads(l)]]
                /\ range' = [range EXCEPT ![c] = 0]
                /\ cnt' = [cnt EXCEPT ![c] = Threads(l)]
        /\ UNCHANGED <<workers, workCnt, chan, mtx, pool, victim>>

Choose_FromOne(c) ==
    /\ cpc[c] = "add"
    /\ chan' = [chan EXCEPT ![c] = (workCnt % ThreadNum) + 1] /\ workCnt' = (workCnt + 1) % CntMod
    /\ cpc' = [cpc EXCEPT ![c] = "send"]
    /\ UNCHANGED <<workers, todo, loop, range, cnt, mtx, done, pool, victim>>

\* AddWork: the choice of the channel.
Choose(c) ==
    /\ cpc[c] = "add"
    /\ chan' = [chan EXCEPT ![c] = workCnt % ThreadNum] /\ workCnt' = (workCnt + 1) % CntMod
    /\ cpc' = [cpc EXCEPT ![c] = "send"]
    /\ UNCHANGED <<workers, todo, loop, range, cnt, mtx, done, pool, victim>>

AfterSend(c) == IF range[c] + 1 < loop[c].threads THEN "add" ELSE "wait"

Send_EmptyAfterPush(c) ==
    LET w == chan[c] IN
    /\ cpc[c] = "send"
    /\ queue' = [queue EXCEPT ![w] = Append(queue[w], <<c, range[c]>>)]
    /\ cpc' = [cpc EXCEPT ![c] = IF queue'[w] = <<>> THEN "notify" ELSE AfterSend(c)]
    /\ range' = [range EXCEPT ![c] = range[c] + 1]
    /\ UNCHANGED <<closed, asleep, wpc, job, workCnt, todo, loop, chan, cnt, mtx, done, pool, victim>>

\* Channel::Send, its part under the lock.  AddWork does not look at what it returns.
Send(c) ==
    LET w == chan[c] IN
    /\ cpc[c] = "send"
    /\ queue' = IF closed[w] THEN queue ELSE [queue EXCEPT ![w] = Append(queue[w], <<c, range[c]>>)]
    /\ cpc' = [cpc EXCEPT ![c] = IF ~closed[w] /\ queue[w] = <<>> THEN "notify" ELSE AfterSend(c)]
    /\ range' = [range EXCEPT ![c] = range[c] + 1]
    /\ UNCHANGED <<closed, asleep, wpc, job, workCnt, todo, loop, chan, cnt, mtx, done, pool, victim>>

\* The end of Channel::Send: notify_one after the lock is released.
Notify(c) ==
    /\ cpc[c] = "notify"
    /\ asleep' = asleep \ {chan[c]}
    /\ cpc' = [cpc EXCEPT ![c] = IF range[c] < loop[c].threads THEN "add" ELSE "wait"]
    /\ UNCHANGED <<queue, closed, wpc, job, workCnt, todo, loop, range, chan, cnt, mtx, done, pool, victim>>

\* BlockingCounter::WaitUntilCntEqualZero takes mtx_ and looks at cnt_val_.
Wait(c) ==
    /\ cpc[c] = "wait" /\ mtx[c] = Nobody
    /\ cpc' = [cpc EXCEPT ![c] = IF cnt[c] = 0 THEN "idle" ELSE "asleep"]
    /\ UNCHANGED <<workers, workCnt, todo, loop, range, chan, cnt, mtx, done, pool, victim>>

\* wait_for runs into its timeout, or wakes up for nothing: WaitForever looks again.
Timeout(c) ==
    /\ cpc[c] = "asleep"
    /\ cpc' = [cpc EXCEPT ![c] = "wait"]
    /\ UNCHANGED <<workers, workCnt, todo, loop, range, chan, cnt, mtx, done, pool, victim>>

-----------------------------------------------------------------------------
\* Channel::Receive of the worker loop.
Receive(w) ==
    /\ wpc[w] = "receive" /\ w \notin asleep
    /\ \/ /\ queue[w] = <<>> /\ ~closed[w]
          /\ asleep' = asleep \cup {w} /\ UNCHANGED <<queue, wpc, job>>
       \/ /\ queue[w] = <<>> /\ closed[w]
          /\ wpc' = [wpc EXCEPT ![w] = "exited"] /\ UNCHANGED <<queue, asleep, job>>
       \/ /\ queue[w] # <<>>
          /\ job' = [job EXCEPT ![w] = Head(queue[w])] /\ queue' = [queue EXCEPT ![w] = Tail(queue[w])]
          /\ wpc' = [wpc EXCEPT ![w] = "work"] /\ UNCHANGED asleep
    /\ UNCHANGED <<closed, clients, pool, victim>>

SpuriousWakeup(w) ==
    /\ w \in asleep /\ asleep' = asleep \ {w}
    /\ UNCHANGED <<queue, closed, wpc, job, clients, pool, victim>>

\* The body for every index of the range.
Work(w) ==
    LET c == job[w][1]
        part == Part(loop[c].n, loop[c].threads, job[w][2])
    IN  /\ wpc[w] = "work"
        /\ done' = [done EXCEPT ![c] = [i \in DOMAIN done[c] |-> done[c][i] + IF i \in part THEN 1 ELSE 0]]
        /\ wpc' = [wpc EXCEPT ![w] = "decrease"]
        /\ UNCHANGED <<queue, closed, asleep, job, workCnt, cpc, todo, loop, range, chan, cnt, mtx, pool, victim>>

Decrease_Unlocked(w) ==
    LET c == job[w][1] IN
    /\ wpc[w] = "decrease" /\ mtx[c] = Nobody
    /\ cnt' = [cnt EXCEPT ![c] = cnt[c] - 1]
    /\ wpc' = [wpc EXCEPT ![w] = IF cnt[c] = 1 THEN "notify" ELSE "unlock"]
    /\ UNCHANGED <<queue, closed, asleep, job, workCnt, cpc, todo, loop, range, chan, mtx, done, pool, victim>>

\* BlockingCounter::Decrease: take mtx_ and count, notify at zero, release mtx_.
Decrease(w) ==
    LET c == job[w][1] IN
    /\ wpc[w] = "decrease" /\ mtx[c] = Nobody
    /\ cnt' = [cnt EXCEPT ![c] = cnt[c] - 1] /\ mtx' = [mtx EXCEPT ![c] = w]
    /\ wpc' = [wpc EXCEPT ![w] = IF cnt[c] = 1 THEN "notify" ELSE "unlock"]
    /\ UNCHANGED <<queue, closed, asleep, job, workCnt, cpc, todo, loop, range, chan, done, pool, victim>>

NotifyAtZero_Lost(w) ==
    /\ wpc[w] = "notify"
    /\ wpc' = [wpc EXCEPT ![w] = "unlock"]
    /\ UNCHANGED <<queue, closed, asleep, job, clients, pool, victim>>

NotifyAtZero(w) ==
    LET c == job[w][1] IN
    /\ wpc[w] = "notify"
    /\ cpc' = [cpc EXCEPT ![c] = IF cpc[c] = "asleep" THEN "wait" ELSE cpc[c]]
    /\ wpc' = [wpc EXCEPT ![w] = "unlock"]
    /\ UNCHANGED <<queue, closed, asleep, job, workCnt, todo, loop, range, chan, cnt, mtx, done, pool, victim>>

Unlock(w) ==
    /\ wpc[w] = "unlock"
    /\ mtx' = [mtx EXCEPT ![job[w][1]] = Nobody]
    /\ wpc' = [wpc EXCEPT ![w] = "receive"] /\ job' = [job EXCEPT ![w] = <<>>]
    /\ UNCHANGED <<queue, closed, asleep, workCnt, cpc, todo, loop, range, chan, cnt, done, pool, victim>>

-----------------------------------------------------------------------------
\* ~ThreadPool: closes one channel after the other and joins its thread.  The
\* environment's scope deletes the pool when no kernel runs any more.
Destroy ==
    /\ pool = "up" /\ \A c \in Client : cpc[c] = "idle"
    /\ pool' = "close" /\ victim' = 0
    /\ UNCHANGED <<workers, clients>>

Close ==
    /\ pool = "close"
    /\ closed' = [closed EXCEPT ![victim] = TRUE] /\ asleep' = asleep \ {victim}
    /\ pool' = "join"
    /\ UNCHANGED <<queue, wpc, job, clients, victim>>

Join ==
    /\ pool = "join" /\ wpc[victim] = "exited"
    /\ IF victim + 1 < ThreadNum THEN pool' = "close" /\ victim' = victim + 1
                                 ELSE pool' = "gone" /\ UNCHANGED victim
    /\ UNCHANGED <<workers, clients>>

ClientStep(c) == Start(c) \/ Choose(c) \/ Send(c) \/ Notify(c) \/ Wait(c)
WorkerStep(w) == Receive(w) \/ Work(w) \/ Decrease(w) \/ NotifyAtZero(w) \/ Unlock(w)

Next ==
    \/ \E c \in Client : ClientStep(c) \/ Timeout(c)
    \/ \E w \in Worker : WorkerStep(w) \/ SpuriousWakeup(w)
    \/ Destroy \/ Close \/ Join

Spec == Init /\ [][Next]_vars

\* Every thread that can run does run in the end; a timeout is not relied on.
FairSpec ==
    /\ Spec
    /\ \A c \in Client : WF_vars(ClientStep(c))
    /\ \A w \in Worker : WF_vars(WorkerStep(w))
    /\ WF_vars(Close \/ Join)

-----------------------------------------------------------------------------
Works == Client \X (0 .. ThreadNum - 1)

TypeOK ==
    /\ queue \in [Worker -> Seq(Works)] /\ closed \in [Worker -> BOOLEAN] /\ asleep \subseteq Worker
    /\ wpc \in [Worker -> {"receive", "work", "decrease", "notify", "unlock", "exited"}]
    /\ job \in [Worker -> Works \cup {<<>>}]
    /\ workCnt \in 0 .. CntMod - 1
    /\ cpc \in [Client -> {"idle", "add", "send", "notify", "wait", "asleep"}]
    /\ todo \in [Client -> Seq(Loop)]
    /\ loop \in [Client -> [n : Nat, threads : 1 .. ThreadNum]]
    /\ range \in [Client -> 0 .. ThreadNum] /\ cnt \in [Client -> 0 .. ThreadNum]
    /\ chan \in [Client -> Worker]
    /\ mtx \in [Client -> Worker \cup {Nobody}]
    /\ DOMAIN done = Client
    /\ pool \in {"up", "close", "join", "gone"} /\ victim \in Worker

(***************************************************************************)
(* No work is left lying: Send notifies only when it found the queue empty *)
(* and only after it released the lock, and still a worker that sleeps on  *)
(* a channel with work in it is about to be woken by the client that sent  *)
(* the first of it.  Nobody sleeps on a closed channel.                    *)
(***************************************************************************)
NoLostWork ==
    \A w \in asleep :
      /\ ~closed[w]
      /\ queue[w] # <<>> => \E c \in Client : cpc[c] = "notify" /\ chan[c] = w

(***************************************************************************)
(* The splitter and the counter of a loop live on the client's stack.  A   *)
(* worker that holds references to them, or will take a work that does,    *)
(* finds the client still in MultiThreadLoop: Decrease notifies before it  *)
(* releases mtx_, so the client cannot leave under it.                     *)
(***************************************************************************)
InLoop(c) == cpc[c] # "idle"
LocalsAlive ==
    /\ \A w \in Worker : job[w] # <<>> => InLoop(job[w][1])
    /\ \A w \in Worker : \A k \in DOMAIN queue[w] : InLoop(queue[w][k][1])

(***************************************************************************)
(* When MultiThreadLoop returns, the body has run exactly once for every   *)
(* index, however the ranges were split and spread over the channels.      *)
(***************************************************************************)
OnceOnReturn ==
    \A c \in Client : cpc[c] = "idle" => \A i \in DOMAIN done[c] : done[c][i] = 1

(***************************************************************************)
(* Every MultiThreadLoop returns, and so does ~ThreadPool, without the     *)
(* help of a timeout.                                                      *)
(***************************************************************************)
CallsReturn ==
    /\ \A c \in Client : InLoop(c) ~> ~InLoop(c)
    /\ pool = "close" ~> pool = "gone"

=============================================================================
