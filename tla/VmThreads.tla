------------------------------ MODULE VmThreads -----------------------------
(***************************************************************************)
(* The threads of the eager virtual machine                                *)
(* (oneflow/core/vm/virtual_machine.cpp): clients that submit instructions *)
(* and probes, the scheduler thread (ScheduleLoop) and the worker threads  *)
(* (WorkerLoop), which sleep on Notifiers, and their shutdown.             *)
(*                                                                         *)
(* Instructions are numbered in the order in which they are received.  The *)
(* engine is reduced to what its lists show to other threads: VmEngine     *)
(* models the dependence graph, here every instruction handled is ready.   *)
(***************************************************************************)
EXTENDS Integers, Sequences, FiniteSets

CONSTANTS
    Client,      \* threads that call into VirtualMachine
    Worker,      \* vm::ThreadCtx objects, each with its worker thread
    Sched,       \* kind of an instruction that runs on the scheduler thread
    Barrier,     \* kind of a barrier instruction
    Programs,    \* Client -> sequence of calls
    Closer,      \* the client that calls CloseVMThreads, after the others are done
    HighWaterMark, LowWaterMark,
    Window,      \* ONEFLOW_VM_PENDING_HANDLE_WINDOW_SIZE
    MaxInstr,    \* instructions of all the programs together
    Timeouts     \* clients whose waits may exceed ONEFLOW_TIMEOUT_SECONDS

Instr == 1 .. MaxInstr
Kind == Worker \cup {Sched, Barrier}

(***************************************************************************)
(* A call: Receive(list), CurrentRankSync, CreateStream, ShrinkAllMem or   *)
(* CloseVMThreads.                                                         *)
(***************************************************************************)
Call == [op : {"receive"}, list : Seq(Kind)] \cup [op : {"sync", "create", "shrink", "close"}]

ASSUME ProgramsAssumption ==
    /\ Programs \in [Client -> Seq(Call)]
    /\ Closer \in Client
    /\ \A c \in Client : \A k \in 1 .. Len(Programs[c]) :
         Programs[c][k].op = "close" => c = Closer
ASSUME MarksAssumption ==
    /\ HighWaterMark \in Nat /\ LowWaterMark \in Nat
    /\ Window \in Nat \ {0} /\ MaxInstr \in Nat /\ Timeouts \subseteq Client

VARIABLES
    pc, ip,        \* where each client is: step within its call, index of its call
    oldEmpty,      \* what MoveFrom returned to the client
    lastErased,    \* last_total_erased of the client's wait predicate
    recvd,         \* instructions linked into pending_instruction_list_ so far
    psize,         \* size_ of pending_instruction_list_, also read without its mutex
    mutex,         \* the client that holds pending_instruction_mutex_, or {}
    moved,         \* instructions moved to local_pending_instruction_list_
    handled,       \* instructions that left the local list
    kind, cb,      \* of a received instruction: its kind, the call its barrier wakes
    st,            \* where the instruction is
    probes,        \* probe_list_
    localProbes,   \* local_probe_list_
    fired,         \* BlockingCounters that have been decreased to zero
    spc, sdst,     \* where the scheduler is; the worker it is about to notify
    drain,         \* ScheduleLoop has left its wait loop
    wpc,           \* where each worker is
    pendNtf, workNtf,  \* pending_notifier_ and ThreadCtx::notifier_
    closed         \* threads_closed_

clientVars == <<pc, ip, oldEmpty, lastErased>>
listVars == <<recvd, psize, mutex, moved, handled, kind, cb>>
probeVars == <<probes, localProbes, fired>>
schedVars == <<spc, sdst, drain>>
vars == <<clientVars, listVars, st, probeVars, schedVars, wpc, pendNtf, workNtf, closed>>

-----------------------------------------------------------------------------
(***************************************************************************)
(* Notifier (oneflow/core/common/notifier.cpp).                            *)
(***************************************************************************)
NewNotifier == [cnt |-> 0, closed |-> FALSE]
Notify(nf) == IF nf.closed THEN nf ELSE [nf EXCEPT !.cnt = @ + 1]
Close(nf) == [nf EXCEPT !.closed = TRUE]

\* WaitAndClearNotifiedCnt returns; it succeeds if there was a notification.
CanReturn(nf) == nf.cnt > 0 \/ nf.closed
WaitSucceeds(nf) == nf.cnt > 0
Cleared_NoReset(nf) == nf
Cleared(nf) == [nf EXCEPT !.cnt = 0]

-----------------------------------------------------------------------------
CurCall(c) == Programs[c][ip[c]]
\* The BlockingCounters of a call: the one of the high water mark and its own.
LowId(c) == <<c, ip[c], "low">>
OpId(c) == <<c, ip[c], "op">>

\* CurrentRankSync submits a barrier with a callback, ControlSync also a GlobalSync.
InstrList(c) ==
    CASE CurCall(c).op = "receive" -> CurCall(c).list
      [] CurCall(c).op = "sync" -> <<Barrier>>
      [] OTHER -> <<Barrier, Barrier>>

Station == {"none", "ready", "queued", "taken", "done", "erased", "barrier"}
Lively == {i \in Instr : st[i] \notin {"none", "erased"}}
Erased == Cardinality({i \in Instr : st[i] = "erased"})
\* Streams with a running instruction are on the active_stream_list_.
Active == {i \in Instr : st[i] \in {"queued", "taken", "done"}}
Flying == psize + (moved - handled) + Cardinality(Lively)

Init ==
    /\ pc = [c \in Client |-> "idle"] /\ ip = [c \in Client |-> 1]
    /\ oldEmpty = [c \in Client |-> FALSE] /\ lastErased = [c \in Client |-> 0]
    /\ recvd = 0 /\ psize = 0 /\ mutex = {} /\ moved = 0 /\ handled = 0
    /\ kind = [i \in Instr |-> Sched] /\ cb = [i \in Instr |-> <<>>]
    /\ st = [i \in Instr |-> "none"]
    /\ probes = {} /\ localProbes = {} /\ fired = {}
    /\ spc = "wait" /\ sdst = {} /\ drain = FALSE
    /\ wpc = [w \in Worker |-> "wait"]
    /\ pendNtf = NewNotifier /\ workNtf = [w \in Worker |-> NewNotifier]
    /\ closed = FALSE

-----------------------------------------------------------------------------
(***************************************************************************)
(* Clients.                                                                *)
(***************************************************************************)
Goto(c, p) == pc' = [pc EXCEPT ![c] = p] /\ UNCHANGED <<ip, lastErased>>
HasCall(c) == pc[c] = "idle" /\ ip[c] <= Len(Programs[c])
EndCall(c) ==
    /\ pc' = [pc EXCEPT ![c] = "idle"] /\ ip' = [ip EXCEPT ![c] = @ + 1]
    /\ lastErased' = [lastErased EXCEPT ![c] = 0]

\* bc->WaitUntilCntEqualZero with a fresh GetPredicatorNoMoreInstructionsFinished.
StartWait(c, p) ==
    /\ pc' = [pc EXCEPT ![c] = p] /\ ip' = ip
    /\ lastErased' = [lastErased EXCEPT ![c] = Erased]

\* Other clients are done when the environment is shut down.
MayClose(c) == CurCall(c).op = "close" =>
    \A d \in Client \ {c} : pc[d] = "idle" /\ ip[d] > Len(Programs[d])

(***************************************************************************)
(* Receive (also under the two syncs): flying_instruction_cnt is the sum of  *)
(* four counters read one after the other without a lock while the         *)
(* scheduler moves instructions from one to the next, so a batch may be    *)
(* missed or counted twice.                                                *)
(***************************************************************************)
ReceiveBegin(c) ==
    /\ HasCall(c) /\ ~closed /\ CurCall(c).op \in {"receive", "sync", "close"}
    /\ MayClose(c)
    /\ \/ Goto(c, "link") /\ UNCHANGED probes
       \/ /\ Flying + (moved - handled) > HighWaterMark
          /\ probes' = probes \cup {LowId(c)}
          /\ Goto(c, "probeNotify")
    /\ UNCHANGED <<oldEmpty, listVars, st, localProbes, fired, schedVars, wpc,
                   pendNtf, workNtf, closed>>

\* CreateStream and ShrinkAllMem insert a probe (BlockingRunProbeFunc).
InsertProbe(c) ==
    /\ HasCall(c) /\ ~closed /\ CurCall(c).op \in {"create", "shrink"}
    /\ probes' = probes \cup {OpId(c)}
    /\ Goto(c, "probeNotify")
    /\ UNCHANGED <<oldEmpty, listVars, st, localProbes, fired, schedVars, wpc,
                   pendNtf, workNtf, closed>>

NotifyProbe(c) ==
    /\ pc[c] = "probeNotify"
    /\ pendNtf' = Notify(pendNtf)
    /\ StartWait(c, "probeWait")
    /\ UNCHANGED <<oldEmpty, listVars, st, probeVars, schedVars, wpc, workNtf, closed>>

\* bc->WaitUntilCntEqualZero returns.
ProbeReturn(c) ==
    /\ pc[c] = "probeWait"
    /\ \/ LowId(c) \in fired /\ Goto(c, "link")
       \/ OpId(c) \in fired /\ EndCall(c)
    /\ UNCHANGED <<oldEmpty, listVars, st, probeVars, schedVars, wpc,
                   pendNtf, workNtf, closed>>

(***************************************************************************)
(* MutexedList::MoveFrom under pending_instruction_mutex_: the containers  *)
(* are linked first, size_ is updated last.                                *)
(***************************************************************************)
OldListEmpty_AfterMove(c) == recvd + Len(InstrList(c)) = moved
OldListEmpty(c) == recvd = moved

Link(c) ==
    /\ pc[c] = "link" /\ mutex = {}
    /\ mutex' = {c}
    /\ LET list == InstrList(c) IN
       /\ recvd' = recvd + Len(list)
       /\ kind' = [i \in Instr |-> IF i - recvd \in 1 .. Len(list) THEN list[i - recvd] ELSE kind[i]]
       /\ cb' = IF CurCall(c).op = "receive" THEN cb ELSE [cb EXCEPT ![recvd + Len(list)] = OpId(c)]
    /\ oldEmpty' = [oldEmpty EXCEPT ![c] = OldListEmpty(c)]
    /\ Goto(c, "size")
    /\ UNCHANGED <<psize, moved, handled, st, probeVars, schedVars, wpc,
                   pendNtf, workNtf, closed>>

AfterReceive(c) == IF CurCall(c).op = "receive" THEN EndCall(c) ELSE StartWait(c, "syncWait")

SetSize(c) ==
    /\ pc[c] = "size"
    /\ psize' = recvd - moved /\ mutex' = {}
    /\ IF oldEmpty[c] THEN Goto(c, "notify") ELSE AfterReceive(c)
    /\ oldEmpty' = [oldEmpty EXCEPT ![c] = FALSE]
    /\ UNCHANGED <<recvd, moved, handled, kind, cb, st, probeVars, schedVars, wpc,
                   pendNtf, workNtf, closed>>

\* Receive: the old pending list was empty.
NotifyPending(c) ==
    /\ pc[c] = "notify"
    /\ pendNtf' = Notify(pendNtf)
    /\ AfterReceive(c)
    /\ UNCHANGED <<oldEmpty, listVars, st, probeVars, schedVars, wpc, workNtf, closed>>

\* ControlSync returns; CloseVMThreads goes on to pending_notifier_.Close().
SyncReturn(c) ==
    /\ pc[c] = "syncWait" /\ OpId(c) \in fired
    /\ IF CurCall(c).op = "close" THEN Goto(c, "join") /\ pendNtf' = Close(pendNtf)
                                  ELSE EndCall(c) /\ pendNtf' = pendNtf
    /\ UNCHANGED <<oldEmpty, listVars, st, probeVars, schedVars, wpc, workNtf, closed>>
\* schedule_thread_.join() returns.
JoinReturn(c) ==
    /\ pc[c] = "join" /\ spc = "stopped"
    /\ closed' = TRUE
    /\ EndCall(c)
    /\ UNCHANGED <<oldEmpty, listVars, st, probeVars, schedVars, wpc, pendNtf, workNtf>>

(***************************************************************************)
(* After CloseVMThreads a call schedules in the client's own thread until  *)
(* the engine is empty (RunInCurrentThread, NotifyOrRunScheduler); it      *)
(* fails if the engine was not empty, and so does a second close.          *)
(***************************************************************************)
EngineEmpty == psize = 0 /\ moved = handled /\ Lively = {}
ProbesEmpty == probes = {} /\ localProbes = {}
SchedulerEmpty == EngineEmpty /\ recvd = moved /\ ProbesEmpty

RunInCurrentThread(c) ==
    /\ HasCall(c) /\ closed
    /\ IF CurCall(c).op \in {"receive", "sync"} /\ SchedulerEmpty
       THEN /\ recvd' = recvd + Len(InstrList(c)) /\ moved' = recvd' /\ handled' = recvd'
            /\ st' = [i \in Instr |-> IF i - recvd \in 1 .. Len(InstrList(c)) THEN "erased" ELSE st[i]]
       ELSE UNCHANGED <<recvd, moved, handled, st>>
    /\ EndCall(c)
    /\ UNCHANGED <<oldEmpty, psize, mutex, kind, cb, probeVars, schedVars, wpc,
                   pendNtf, workNtf, closed>>

(***************************************************************************)
(* A wait lasted ONEFLOW_TIMEOUT_SECONDS.  The predicate of                *)
(* GetPredicatorNoMoreInstructionsFinished lets it go on if instructions   *)
(* were erased since it was last asked, otherwise the call fails with an   *)
(* error; CloseVMThreads then aborts the process.  The probe or barrier    *)
(* stays where it is.                                                      *)
(***************************************************************************)
Timeout(c) ==
    /\ c \in Timeouts
    /\ pc[c] \in {"probeWait", "syncWait"} /\ {LowId(c), OpId(c)} \cap fired = {}
    /\ IF lastErased[c] # Erased THEN StartWait(c, pc[c])
       ELSE IF CurCall(c).op = "close" THEN Goto(c, "aborted") ELSE EndCall(c)
    /\ UNCHANGED <<oldEmpty, listVars, st, probeVars, schedVars, wpc, pendNtf, workNtf, closed>>

ClientStep(c) ==
    \/ ReceiveBegin(c) \/ InsertProbe(c) \/ NotifyProbe(c) \/ ProbeReturn(c)
    \/ Link(c) \/ SetSize(c) \/ NotifyPending(c) \/ SyncReturn(c) \/ JoinReturn(c)
    \/ RunInCurrentThread(c)

-----------------------------------------------------------------------------
(***************************************************************************)
(* The scheduler thread: ScheduleLoop and one pass of Schedule.            *)
(***************************************************************************)
SGoto(p) == spc' = p
SchedQuiet == UNCHANGED <<clientVars, sdst, wpc, closed>>

SchedWait ==
    /\ spc = "wait" /\ CanReturn(pendNtf)
    /\ pendNtf' = Cleared(pendNtf)
    /\ drain' = ~WaitSucceeds(pendNtf)
    /\ SGoto("release")
    /\ SchedQuiet /\ UNCHANGED <<listVars, st, probeVars, workNtf>>

ReleaseFinished ==
    /\ spc = "release"
    /\ st' = [i \in Instr |-> IF st[i] = "done" THEN "erased" ELSE st[i]]
    /\ SGoto("barrier")
    /\ SchedQuiet /\ UNCHANGED <<listVars, probeVars, drain, pendNtf, workNtf>>

\* The first barrier runs if it is at the front of the lively list.
RunnableBarriers_AnyFront ==
    {i \in Lively : st[i] = "barrier" /\ \A j \in Lively : st[j] = "barrier" => i <= j}
RunnableBarriers == {i \in Lively : st[i] = "barrier" /\ \A j \in Lively : i <= j}

\* Its callback wakes its client.
RunBarrier ==
    /\ spc = "barrier"
    /\ st' = [i \in Instr |-> IF i \in RunnableBarriers THEN "erased" ELSE st[i]]
    /\ fired' = fired \cup {cb[i] : i \in {j \in RunnableBarriers : cb[j] # <<>>}}
    /\ SGoto("pending")
    /\ SchedQuiet /\ UNCHANGED <<listVars, probes, localProbes, drain, pendNtf, workNtf>>

(***************************************************************************)
(* The local list is handled, up to the window; if it was empty and the    *)
(* size read without the mutex is not zero, the pending list is moved to   *)
(* it first, under the mutex.                                              *)
(***************************************************************************)
\* MoveToDstBack ends with Clear, which resets size_.
SizeAfter_NoClear(move) == psize
SizeAfter(move) == IF move THEN 0 ELSE psize

HandlePending ==
    /\ spc = "pending"
    /\ LET move == moved = handled /\ psize > 0
           local == IF move THEN recvd ELSE moved
           upto == IF local > handled + Window THEN handled + Window ELSE local
       IN /\ move => mutex = {}
          /\ moved' = local /\ psize' = SizeAfter(move)
          /\ handled' = upto
          /\ st' = [i \in Instr |-> IF i > handled /\ i <= upto
                                    THEN IF kind[i] = Barrier THEN "barrier" ELSE "ready"
                                    ELSE st[i]]
    /\ SGoto("dispatch")
    /\ SchedQuiet /\ UNCHANGED <<recvd, mutex, kind, cb, probeVars, drain, pendNtf, workNtf>>

FirstReady(i) == st[i] = "ready" /\ \A j \in Instr : st[j] = "ready" => i <= j

\* DispatchInstruction: run it here, or push it on the worker's list ...
DispatchInstruction(i) ==
    /\ spc = "dispatch" /\ FirstReady(i)
    /\ IF kind[i] = Sched
       THEN st' = [st EXCEPT ![i] = "done"] /\ UNCHANGED <<spc, sdst>>
       ELSE st' = [st EXCEPT ![i] = "queued"] /\ SGoto("notifyWorker") /\ sdst' = {kind[i]}
    /\ UNCHANGED <<clientVars, listVars, probeVars, drain, wpc, pendNtf, workNtf, closed>>

\* ... and notify it.
OnWorkerLoadPending_IfWaiting(w) == IF wpc[w] = "wait" THEN Notify(workNtf[w]) ELSE workNtf[w]
OnWorkerLoadPending(w) == Notify(workNtf[w])

NotifyWorker ==
    /\ spc = "notifyWorker"
    /\ workNtf' = [w \in Worker |-> IF w \in sdst THEN OnWorkerLoadPending(w) ELSE workNtf[w]]
    /\ SGoto("dispatch") /\ sdst' = {}
    /\ UNCHANGED <<clientVars, listVars, st, probeVars, drain, wpc, pendNtf, closed>>

DispatchEnd ==
    /\ spc = "dispatch" /\ \A i \in Instr : st[i] # "ready"
    /\ SGoto("probe")
    /\ SchedQuiet /\ UNCHANGED <<listVars, st, probeVars, drain, pendNtf, workNtf>>

(***************************************************************************)
(* HandleLocalProbe runs the local probes and erases those that return     *)
(* true; new probes are fetched only when there is no local one.           *)
(***************************************************************************)
ProbeHolds(p) ==
    CASE p[3] = "low" -> Flying <= LowWaterMark
      [] Programs[p[1]][p[2]].op = "shrink" -> Active = {}
      [] OTHER -> TRUE

HandleProbes ==
    /\ spc = "probe"
    /\ LET local == IF localProbes = {} THEN probes ELSE localProbes
           held == {p \in local : ProbeHolds(p)}
       IN /\ probes' = IF localProbes = {} THEN {} ELSE probes
          /\ localProbes' = local \ held
          /\ fired' = fired \cup held
    /\ SGoto("check")
    /\ SchedQuiet /\ UNCHANGED <<listVars, st, drain, pendNtf, workNtf>>

\* SchedulerThreadUnsafeEmpty reads the pending list, later the probe list.
CheckEmpty ==
    /\ spc = "check" /\ ~drain
    /\ SGoto(IF EngineEmpty THEN "checkProbe" ELSE "release")
    /\ SchedQuiet /\ UNCHANGED <<listVars, st, probeVars, drain, pendNtf, workNtf>>

CheckProbes ==
    /\ spc = "checkProbe"
    /\ SGoto(IF ProbesEmpty THEN "expire" ELSE "release")
    /\ SchedQuiet /\ UNCHANGED <<listVars, st, probeVars, drain, pendNtf, workNtf>>

\* kWorkingMicroseconds have passed or not.
KeepWorking ==
    /\ spc = "expire" /\ SGoto("release")
    /\ SchedQuiet /\ UNCHANGED <<listVars, st, probeVars, drain, pendNtf, workNtf>>
GoToSleep ==
    /\ spc = "expire" /\ SGoto("wait")
    /\ SchedQuiet /\ UNCHANGED <<listVars, st, probeVars, drain, pendNtf, workNtf>>

\* ScheduleUntilVMEmpty after the notifier was closed: SchedulerEmpty takes the mutexes.
DrainCheck ==
    /\ spc = "check" /\ drain /\ mutex = {}
    /\ SGoto(IF SchedulerEmpty THEN "closeWorkers" ELSE "release")
    /\ SchedQuiet /\ UNCHANGED <<listVars, st, probeVars, drain, pendNtf, workNtf>>

CloseWorkerThreads ==
    /\ spc = "closeWorkers"
    /\ workNtf' = [w \in Worker |-> Close(workNtf[w])]
    /\ SGoto("join")
    /\ SchedQuiet /\ UNCHANGED <<listVars, st, probeVars, drain, pendNtf>>

JoinWorkers ==
    /\ spc = "join" /\ \A w \in Worker : wpc[w] = "exited"
    /\ SGoto("stopped")
    /\ SchedQuiet /\ UNCHANGED <<listVars, st, probeVars, drain, pendNtf, workNtf>>

SchedStep ==
    \/ SchedWait \/ ReleaseFinished \/ RunBarrier \/ HandlePending
    \/ (\E i \in Instr : DispatchInstruction(i)) \/ NotifyWorker \/ DispatchEnd
    \/ HandleProbes \/ CheckEmpty \/ CheckProbes \/ KeepWorking \/ GoToSleep
    \/ DrainCheck \/ CloseWorkerThreads \/ JoinWorkers

-----------------------------------------------------------------------------
(***************************************************************************)
(* WorkerLoop and ThreadCtx::TryReceiveAndRun.                             *)
(***************************************************************************)
WGoto(w, p) == wpc' = [wpc EXCEPT ![w] = p]
WorkerQuiet == UNCHANGED <<clientVars, listVars, probeVars, schedVars, pendNtf, closed>>
OnWorker(w, s) == {i \in Instr : kind[i] = w /\ st[i] = s}

WorkerWait(w) ==
    /\ wpc[w] = "wait" /\ CanReturn(workNtf[w])
    /\ workNtf' = [workNtf EXCEPT ![w] = Cleared(@)]
    /\ WGoto(w, IF WaitSucceeds(workNtf[w]) THEN "recv" ELSE "exited")
    /\ WorkerQuiet /\ UNCHANGED st

WorkerReceive(w) ==
    /\ wpc[w] = "recv"
    /\ st' = [i \in Instr |-> IF i \in OnWorker(w, "queued") THEN "taken" ELSE st[i]]
    /\ WGoto(w, IF OnWorker(w, "queued") = {} THEN "expire" ELSE "run")
    /\ WorkerQuiet /\ UNCHANGED workNtf

WorkerRun(w, i) ==
    /\ wpc[w] = "run" /\ i \in OnWorker(w, "taken") /\ \A j \in OnWorker(w, "taken") : i <= j
    /\ st' = [st EXCEPT ![i] = "done"]
    /\ WGoto(w, IF OnWorker(w, "taken") = {i} THEN "recv" ELSE "run")
    /\ WorkerQuiet /\ UNCHANGED workNtf

\* kExpireMicroseconds without an instruction have passed or not.
WorkerYield(w) ==
    /\ wpc[w] = "expire" /\ WGoto(w, "recv")
    /\ WorkerQuiet /\ UNCHANGED <<st, workNtf>>
WorkerSleep(w) ==
    /\ wpc[w] = "expire" /\ WGoto(w, "wait")
    /\ WorkerQuiet /\ UNCHANGED <<st, workNtf>>

WorkerStep(w) ==
    \/ WorkerWait(w) \/ WorkerReceive(w) \/ (\E i \in Instr : WorkerRun(w, i))
    \/ WorkerYield(w) \/ WorkerSleep(w)

Aborted == \E c \in Client : pc[c] = "aborted"

Next ==
    /\ ~Aborted
    /\ \/ \E c \in Client : ClientStep(c) \/ Timeout(c)
       \/ SchedStep
       \/ \E w \in Worker : WorkerStep(w)

Spec == Init /\ [][Next]_vars

\* Threads run; the clock of the two busy loops runs.
Fairness ==
    /\ \A c \in Client : WF_vars(ClientStep(c))
    /\ WF_vars(SchedStep) /\ SF_vars(GoToSleep)
    /\ \A w \in Worker : WF_vars(WorkerStep(w)) /\ SF_vars(WorkerSleep(w))

FairSpec == Spec /\ Fairness

-----------------------------------------------------------------------------
TypeOK ==
    /\ pc \in [Client -> {"idle", "probeNotify", "probeWait", "link", "size", "notify",
                          "syncWait", "join", "aborted"}]
    /\ ip \in [Client -> Nat \ {0}]
    /\ oldEmpty \in [Client -> BOOLEAN] /\ lastErased \in [Client -> Nat]
    /\ recvd \in Nat /\ moved \in 0 .. recvd /\ handled \in 0 .. moved
    /\ psize \in 0 .. recvd - moved /\ mutex \in SUBSET Client
    /\ kind \in [Instr -> Kind] /\ st \in [Instr -> Station]
    /\ sdst \in SUBSET Worker /\ drain \in BOOLEAN /\ closed \in BOOLEAN
    /\ spc \in {"wait", "release", "barrier", "pending", "dispatch", "notifyWorker", "probe",
                "check", "checkProbe", "expire", "closeWorkers", "join", "stopped"}
    /\ wpc \in [Worker -> {"wait", "recv", "run", "expire", "exited"}]
    /\ pendNtf \in [cnt : Nat, closed : BOOLEAN]
    /\ workNtf \in [Worker -> [cnt : Nat, closed : BOOLEAN]]

(***************************************************************************)
(* The scheduler never sleeps on work.  It decides to sleep on sizes read  *)
(* without a lock, and Receive notifies it only when the pending list was  *)
(* empty; yet whenever it waits without a notification, everything else    *)
(* is finished, and instructions or probes that have arrived since come    *)
(* from a call that is still about to notify it ("the pending instructions *)
(* will get handled in the next iteration", ScheduleLoop).                 *)
(***************************************************************************)
NoLostWakeup ==
    spc = "wait" /\ pendNtf.cnt = 0 =>
        /\ moved = handled /\ Lively = {} /\ localProbes = {}
        /\ recvd > moved => \E c \in Client : \/ pc[c] = "notify"
                                              \/ pc[c] = "size" /\ oldEmpty[c]
        /\ probes # {} => \E c \in Client : pc[c] = "probeNotify"

(***************************************************************************)
(* A worker never sleeps on, nor exits before, an instruction on its list: *)
(* DispatchInstruction pushes before it notifies, and CloseWorkerThreads   *)
(* closes the notifiers only when the engine is empty.                     *)
(***************************************************************************)
NoLostWorkerWakeup ==
    \A w \in Worker :
        wpc[w] = "exited" \/ (wpc[w] = "wait" /\ workNtf[w].cnt = 0) =>
            /\ OnWorker(w, "taken") = {}
            /\ OnWorker(w, "queued") = {} \/ (wpc[w] = "wait" /\ sdst = {w})

(***************************************************************************)
(* A sync that has returned (or may return) saw everything received before *)
(* its barrier finished and erased, from whatever client it came.          *)
(***************************************************************************)
SyncAfterAll ==
    \A i \in Instr : cb[i] \in fired => \A j \in Instr : j < i => st[j] = "erased"

(***************************************************************************)
(* Every call returns: no client waits for ever for a barrier, a probe,    *)
(* the low water mark or the end of the threads.                           *)
(***************************************************************************)
CallsReturn == <>[](\A c \in Client : pc[c] = "idle" /\ ip[c] > Len(Programs[c]))

(***************************************************************************)
(* "thread_ctx_ptr may be used after timout" (CreateThreadCtx): a probe    *)
(* can run after the call that inserted it has failed.  The probe of       *)
(* CreateStream refers to a local variable of the call by reference, so    *)
(* the call must still be under way when the probe runs.                   *)
(***************************************************************************)
ProbeWithinCall ==
    [][\A p \in fired' \ fired :
         p[3] = "op" /\ Programs[p[1]][p[2]].op = "create" => ip[p[1]] = p[2]]_vars

=============================================================================
