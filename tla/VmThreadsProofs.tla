-------------------------- MODULE VmThreadsProofs ---------------------------
(***************************************************************************)
(* Proofs about VmThreads: types, the scheduler and the workers never      *)
(* sleep on work, and a sync returns after all that precedes it, for every *)
(* set of clients, programs and workers and all water marks.               *)
(***************************************************************************)
EXTENDS VmThreads, FiniteSetTheorems, TLAPS

\* A client that is within a call has one, and the step fits the call.
CallsOK ==
    \A c \in Client :
        /\ pc[c] # "idle" => ip[c] \in 1 .. Len(Programs[c])
        /\ pc[c] = "syncWait" => CurCall(c).op # "receive"
        /\ pc[c] \in {"join", "aborted"} => CurCall(c).op = "close"

\* What an instruction's place says about its number and its kind.
ListOK ==
    \A i \in Instr :
        /\ st[i] = "none" <=> i > handled
        /\ st[i] \in {"ready", "queued", "taken", "done"} => kind[i] # Barrier

\* size_ lags behind the containers only while the mutex is held.
MutexOK ==
    /\ \A c \in Client : pc[c] = "size" => mutex = {c} /\ (psize = 0 => oldEmpty[c])
    /\ mutex # {} => \E c \in Client : pc[c] = "size"
    /\ mutex = {} => psize = recvd - moved

\* Once the pending notifier is closed no client is about to notify.
CloseOK ==
    /\ pc[Closer] # "idle" /\ CurCall(Closer).op = "close" =>
           \A d \in Client \ {Closer} : pc[d] = "idle" /\ ip[d] > Len(Programs[d])
    /\ pendNtf.closed =>
           /\ \A d \in Client \ {Closer} : pc[d] = "idle" /\ ip[d] > Len(Programs[d])
           /\ pc[Closer] = "join" \/ (pc[Closer] = "idle" /\ closed)
    /\ closed => spc = "stopped"

\* Clients that are about to notify the scheduler of instructions.
Owes(c) == pc[c] = "notify" \/ (pc[c] = "size" /\ oldEmpty[c])

\* From its check of emptiness to its wait the scheduler leaves nothing behind.
SleepOK ==
    /\ spc \in {"checkProbe", "expire", "wait"} =>
           /\ moved = handled /\ Lively = {}
           /\ recvd > moved => pendNtf.cnt > 0 \/ \E c \in Client : Owes(c)
    /\ spc \in {"expire", "wait"} =>
           /\ localProbes = {}
           /\ probes # {} => pendNtf.cnt > 0 \/ \E c \in Client : pc[c] = "probeNotify"

\* From its last look at its list to its wait a worker leaves nothing behind.
WorkOK ==
    /\ spc \in {"closeWorkers", "join", "stopped"} => Lively = {}
    /\ \A w \in Worker :
        /\ wpc[w] # "run" => OnWorker(w, "taken") = {}
        /\ wpc[w] \in {"expire", "wait"} /\ workNtf[w].cnt = 0 =>
               OnWorker(w, "queued") = {} \/ (spc = "notifyWorker" /\ sdst = {w})
        /\ wpc[w] = "exited" => workNtf[w].closed
        /\ workNtf[w].closed => spc \in {"join", "stopped"}

IInv == TypeOK /\ CallsOK /\ ListOK /\ MutexOK /\ CloseOK /\ SleepOK /\ WorkOK

-----------------------------------------------------------------------------
(***************************************************************************)
(* Facts about calls, counts and the frames of the three kinds of thread.  *)
(***************************************************************************)
LEMMA CallFacts ==
  ASSUME NEW c \in Client, NEW k \in 1 .. Len(Programs[c])
  PROVE  /\ Programs[c][k].op \in {"receive", "sync", "create", "shrink", "close"}
         /\ Programs[c][k].op = "receive" => Programs[c][k].list \in Seq(Kind)
         /\ Programs[c][k].op = "close" => c = Closer
  <1>1. Programs[c][k] \in Call
    BY ProgramsAssumption
  <1> QED
    BY Zenon, <1>1, ProgramsAssumption DEF Call

\* The instruction list of a call is a sequence of kinds.
LEMMA ListFacts ==
  ASSUME NEW c \in Client, ip[c] \in 1 .. Len(Programs[c])
  PROVE  InstrList(c) \in Seq(Kind)
  <1>1. <<Barrier>> \in Seq(Kind) /\ <<Barrier, Barrier>> \in Seq(Kind)
    BY DEF Kind
  <1> QED
    BY Zenon, <1>1, CallFacts DEF InstrList, CurCall

\* total_erased_instruction_cnt is a number.
LEMMA ErasedFacts ==
  Erased \in Nat
  <1>1. IsFiniteSet(Instr)
    BY MarksAssumption, FS_Interval DEF Instr
  <1>2. IsFiniteSet({i \in Instr : st[i] = "erased"})
    BY <1>1, FS_Subset, SMTT(30)
  <1> QED
    BY Zenon, <1>2, FS_CardinalityType DEF Erased

\* What a step of the scheduler thread leaves alone.
LEMMA SchedFrame ==
  ASSUME SchedStep
  PROVE  UNCHANGED <<clientVars, recvd, mutex, kind, cb, wpc, closed>>
  <1>1. CASE SchedWait \/ ReleaseFinished \/ RunBarrier \/ HandlePending
    BY Zenon, <1>1 DEF SchedWait, ReleaseFinished, RunBarrier, HandlePending, SchedQuiet, listVars
  <1>2. CASE (\E i \in Instr : DispatchInstruction(i)) \/ NotifyWorker \/ DispatchEnd \/ HandleProbes
    BY Zenon, <1>2 DEF DispatchInstruction, NotifyWorker, DispatchEnd, HandleProbes, SchedQuiet, listVars
  <1>3. CASE CheckEmpty \/ CheckProbes \/ KeepWorking \/ GoToSleep
    BY Zenon, <1>3 DEF CheckEmpty, CheckProbes, KeepWorking, GoToSleep, SchedQuiet, listVars
  <1>4. CASE DrainCheck \/ CloseWorkerThreads \/ JoinWorkers
    BY Zenon, <1>4 DEF DrainCheck, CloseWorkerThreads, JoinWorkers, SchedQuiet, listVars
  <1> QED
    BY Zenon, <1>1, <1>2, <1>3, <1>4 DEF SchedStep

\* What a step of a worker thread leaves alone.
LEMMA WorkerFrame ==
  ASSUME NEW w \in Worker, WorkerStep(w)
  PROVE  UNCHANGED <<clientVars, listVars, probeVars, schedVars, pendNtf, closed>>
  BY Zenon DEF WorkerStep, WorkerQuiet, WorkerWait, WorkerReceive, WorkerRun, WorkerYield, WorkerSleep

\* What a step of a client leaves alone.
LEMMA ClientFrame ==
  ASSUME NEW c \in Client, ClientStep(c) \/ Timeout(c)
  PROVE  UNCHANGED <<localProbes, fired, schedVars, wpc, workNtf>>
  <1>1. CASE ReceiveBegin(c) \/ InsertProbe(c) \/ NotifyProbe(c) \/ ProbeReturn(c)
    BY Zenon, <1>1 DEF ReceiveBegin, InsertProbe, NotifyProbe, ProbeReturn, probeVars
  <1>2. CASE Link(c) \/ SetSize(c) \/ NotifyPending(c) \/ SyncReturn(c)
    BY Zenon, <1>2 DEF Link, SetSize, NotifyPending, SyncReturn, probeVars
  <1>3. CASE JoinReturn(c) \/ RunInCurrentThread(c) \/ Timeout(c)
    BY Zenon, <1>3 DEF JoinReturn, RunInCurrentThread, Timeout, probeVars
  <1> QED
    BY Zenon, <1>1, <1>2, <1>3 DEF ClientStep

\* A client moves no other client, and itself at most to its next call.
LEMMA ClientMoves ==
  ASSUME TypeOK, NEW c \in Client, ClientStep(c) \/ Timeout(c)
  PROVE  /\ \A d \in Client \ {c} : pc'[d] = pc[d] /\ ip'[d] = ip[d]
         /\ ip'[c] = ip[c] \/ (pc'[c] = "idle" /\ ip'[c] = ip[c] + 1)
  <1>1. \/ UNCHANGED <<pc, ip>>
        \/ ip' = ip /\ \E q : pc' = [pc EXCEPT ![c] = q]
        \/ pc' = [pc EXCEPT ![c] = "idle"] /\ ip' = [ip EXCEPT ![c] = @ + 1]
    <2> HIDE DEF TypeOK
    <2> USE DEF Goto, EndCall, StartWait
    <2>1. CASE ReceiveBegin(c) \/ InsertProbe(c) \/ NotifyProbe(c) \/ ProbeReturn(c)
      BY Zenon, <2>1 DEF ReceiveBegin, InsertProbe, NotifyProbe, ProbeReturn
    <2>2. CASE Link(c) \/ SetSize(c) \/ NotifyPending(c)
      BY Zenon, <2>2 DEF Link, SetSize, NotifyPending, AfterReceive
    <2>3. CASE SyncReturn(c) \/ JoinReturn(c) \/ RunInCurrentThread(c) \/ Timeout(c)
      BY Zenon, <2>3 DEF SyncReturn, JoinReturn, RunInCurrentThread, Timeout
    <2> HIDE DEF Goto, EndCall, StartWait
    <2> QED
      BY Zenon, <2>1, <2>2, <2>3 DEF ClientStep
  <1>2. pc \in [Client -> {"idle", "probeNotify", "probeWait", "link", "size", "notify",
                          "syncWait", "join", "aborted"}] /\ ip \in [Client -> Nat \ {0}]
    BY Zenon DEF TypeOK
  <1> HIDE DEF TypeOK
  <1> QED
    BY Zenon, <1>1, <1>2

\* The invariant holds initially.
LEMMA InvInit ==
  ASSUME Init
  PROVE  IInv
  <1> USE DEF Init
  <1>1. TypeOK
    <2>1. NewNotifier \in [cnt : Nat, closed : BOOLEAN]
      BY Zenon DEF NewNotifier
    <2>2. kind \in [Instr -> Kind] /\ st \in [Instr -> Station]
      BY Zenon DEF Kind, Station
    <2>3. /\ ip \in [Client -> Nat \ {0}] /\ lastErased \in [Client -> Nat]
          /\ recvd \in Nat /\ moved \in 0 .. recvd /\ handled \in 0 .. moved
          /\ psize \in 0 .. recvd - moved
      OBVIOUS
    <2>4. /\ pc \in [Client -> {"idle", "probeNotify", "probeWait", "link", "size", "notify",
                                "syncWait", "join", "aborted"}]
          /\ wpc \in [Worker -> {"wait", "recv", "run", "expire", "exited"}]
          /\ workNtf \in [Worker -> [cnt : Nat, closed : BOOLEAN]]
      BY Zenon, <2>1
    <2>5. oldEmpty \in [Client -> BOOLEAN] /\ drain \in BOOLEAN /\ closed \in BOOLEAN
      BY Zenon
    <2> QED
      BY Zenon, <2>1, <2>2, <2>3, <2>4, <2>5 DEF TypeOK
  <1>2. CallsOK /\ ListOK /\ MutexOK /\ CloseOK
    BY MarksAssumption, ProgramsAssumption DEF CallsOK, ListOK, MutexOK, CloseOK, Instr, NewNotifier
  <1>3. SleepOK /\ WorkOK
    BY Zenon DEF SleepOK, WorkOK, Lively, OnWorker, NewNotifier
  <1> QED
    BY Zenon, <1>1, <1>2, <1>3 DEF IInv

\* What Notify, Close and the clearing of a Notifier do.
LEMMA NotifierFacts ==
  ASSUME NEW nf \in [cnt : Nat, closed : BOOLEAN]
  PROVE  /\ Notify(nf) \in [cnt : Nat, closed : BOOLEAN] /\ Notify(nf).closed = nf.closed
         /\ Notify(nf).cnt >= nf.cnt /\ (~nf.closed => Notify(nf).cnt > 0)
         /\ Close(nf) \in [cnt : Nat, closed : BOOLEAN] /\ Close(nf).closed /\ Close(nf).cnt = nf.cnt
         /\ Cleared(nf) \in [cnt : Nat, closed : BOOLEAN] /\ Cleared(nf).closed = nf.closed
         /\ Cleared(nf).cnt = 0
  <1>1. Notify(nf) \in [cnt : Nat, closed : BOOLEAN] /\ Notify(nf).closed = nf.closed
    BY DEF Notify
  <1>2. Notify(nf).cnt >= nf.cnt /\ (~nf.closed => Notify(nf).cnt > 0)
    BY DEF Notify
  <1>3. Close(nf) \in [cnt : Nat, closed : BOOLEAN] /\ Close(nf).closed /\ Close(nf).cnt = nf.cnt
    BY Zenon DEF Close
  <1>4. /\ Cleared(nf) \in [cnt : Nat, closed : BOOLEAN] /\ Cleared(nf).closed = nf.closed
        /\ Cleared(nf).cnt = 0
    BY Zenon DEF Cleared
  <1> QED
    BY Zenon, <1>1, <1>2, <1>3, <1>4

-----------------------------------------------------------------------------
(***************************************************************************)
(* Types.                                                                  *)
(***************************************************************************)
LEMMA ClientTypes ==
  ASSUME IInv, NEW c \in Client, ClientStep(c) \/ Timeout(c)
  PROVE  TypeOK'
  <1> DEFINE P == {"idle", "probeNotify", "probeWait", "link", "size", "notify",
                   "syncWait", "join", "aborted"}
  <1> TypeOK
    BY Zenon DEF IInv
  <1>0. /\ pc \in [Client -> P] /\ ip \in [Client -> Nat \ {0}] /\ lastErased \in [Client -> Nat]
        /\ recvd \in Nat /\ moved \in 0 .. recvd /\ handled \in 0 .. moved
        /\ psize \in 0 .. recvd - moved /\ mutex \in SUBSET Client
        /\ kind \in [Instr -> Kind] /\ st \in [Instr -> Station]
        /\ pendNtf \in [cnt : Nat, closed : BOOLEAN]
    BY Zenon DEF TypeOK
  <1>a. EndCall(c) \/ \E p \in P : Goto(c, p) \/ StartWait(c, p)
    <2>1. CASE ReceiveBegin(c) \/ InsertProbe(c) \/ NotifyProbe(c) \/ ProbeReturn(c)
      BY Zenon, <2>1 DEF ReceiveBegin, InsertProbe, NotifyProbe, ProbeReturn
    <2>2. CASE Link(c) \/ SetSize(c) \/ NotifyPending(c)
      BY Zenon, <2>2 DEF Link, SetSize, NotifyPending, AfterReceive
    <2>3. CASE SyncReturn(c) \/ JoinReturn(c) \/ RunInCurrentThread(c)
      BY Zenon, <2>3 DEF SyncReturn, JoinReturn, RunInCurrentThread
    <2>4. CASE Timeout(c)
      <3>1. pc[c] \in P
        BY Zenon, <1>0
      <3> QED
        BY Zenon, <2>4, <3>1 DEF Timeout
    <2> QED
      BY Zenon, <2>1, <2>2, <2>3, <2>4 DEF ClientStep
  <1>b. pc' \in [Client -> P] /\ ip' \in [Client -> Nat \ {0}] /\ lastErased' \in [Client -> Nat]
    BY <1>0, <1>a, ErasedFacts DEF EndCall, Goto, StartWait
  <1>c. UNCHANGED <<sdst, drain, spc, wpc, workNtf>>
    BY Zenon, ClientFrame DEF schedVars
  <1> HIDE DEF P
  <1>1. CASE ReceiveBegin(c) \/ InsertProbe(c) \/ ProbeReturn(c) \/ Timeout(c)
    <2>1. UNCHANGED <<oldEmpty, listVars, st, pendNtf, closed>>
      BY Zenon, <1>1 DEF ReceiveBegin, InsertProbe, ProbeReturn, Timeout
    <2> QED
      BY Zenon, <1>b, <1>c, <2>1 DEF TypeOK, listVars, P
  <1>2. CASE NotifyProbe(c) \/ NotifyPending(c) \/ SyncReturn(c)
    <2>1. UNCHANGED <<oldEmpty, listVars, st, closed>>
      BY Zenon, <1>2 DEF NotifyProbe, NotifyPending, SyncReturn
    <2>2. pendNtf' \in {pendNtf, Notify(pendNtf), Close(pendNtf)}
      BY Zenon, <1>2 DEF NotifyProbe, NotifyPending, SyncReturn
    <2>3. pendNtf' \in [cnt : Nat, closed : BOOLEAN]
      BY <1>0, <2>2, NotifierFacts
    <2> QED
      BY Zenon, <1>b, <1>c, <2>1, <2>3 DEF TypeOK, listVars, P
  <1>3. CASE Link(c)
    <2>1. InstrList(c) \in Seq(Kind)
      BY <1>3, ListFacts, Zenon DEF IInv, Link, CallsOK
    <2>2. kind' \in [Instr -> Kind]
      BY <1>0, <1>3, <2>1, MarksAssumption DEF Link, Instr
    <2>3. oldEmpty' \in [Client -> BOOLEAN]
      BY <1>3, Zenon DEF TypeOK, Link, OldListEmpty
    <2>4. recvd' \in Nat /\ moved' \in 0 .. recvd' /\ psize' \in 0 .. recvd' - moved'
      BY <1>0, <1>3, <2>1 DEF Link
    <2>5. UNCHANGED <<moved, handled, st, pendNtf, closed>> /\ mutex' \in SUBSET Client
      BY Zenon, <1>3 DEF Link
    <2> QED
      BY Zenon, <1>b, <1>c, <2>2, <2>3, <2>4, <2>5 DEF TypeOK, P
  <1>4. CASE SetSize(c)
    <2>1. oldEmpty' \in [Client -> BOOLEAN]
      BY <1>4, Zenon DEF TypeOK, SetSize
    <2>2. psize' \in 0 .. recvd' - moved' /\ mutex' \in SUBSET Client
      BY <1>0, <1>4 DEF SetSize
    <2>3. UNCHANGED <<recvd, moved, handled, kind, st, pendNtf, closed>>
      BY Zenon, <1>4 DEF SetSize
    <2> QED
      BY Zenon, <1>b, <1>c, <2>1, <2>2, <2>3 DEF TypeOK, P
  <1>5. CASE JoinReturn(c)
    <2>1. UNCHANGED <<oldEmpty, listVars, st, pendNtf>> /\ closed' \in BOOLEAN
      BY Zenon, <1>5 DEF JoinReturn
    <2> QED
      BY Zenon, <1>b, <1>c, <2>1 DEF TypeOK, listVars, P
  <1>6. CASE RunInCurrentThread(c)
    <2>1. InstrList(c) \in Seq(Kind)
      BY <1>0, <1>6, ListFacts DEF RunInCurrentThread, HasCall
    <2>2. st' \in [Instr -> Station]
      BY <1>0, <1>6, SMTT(30) DEF RunInCurrentThread, Station
    <2>3. /\ recvd' \in Nat /\ moved' \in 0 .. recvd' /\ handled' \in 0 .. moved'
          /\ psize' \in 0 .. recvd' - moved'
      BY SMTT(30), <1>0, <1>6, <2>1 DEF RunInCurrentThread, SchedulerEmpty, EngineEmpty
    <2>4. UNCHANGED <<oldEmpty, mutex, kind, pendNtf, closed>>
      BY Zenon, <1>6 DEF RunInCurrentThread
    <2> QED
      BY Zenon, <1>b, <1>c, <2>2, <2>3, <2>4 DEF TypeOK, P
  <1> QED
    BY <1>1, <1>2, <1>3, <1>4, <1>5, <1>6, Zenon DEF ClientStep

\* A step of the scheduler thread keeps the types.
LEMMA SchedTypes ==
  ASSUME IInv, SchedStep
  PROVE  TypeOK'
  <1> TypeOK
    BY Zenon DEF IInv
  <1> USE DEF TypeOK, clientVars, listVars, probeVars, schedVars, SchedQuiet, SGoto
  <1>1. CASE SchedWait
    BY SMTT(30), <1>1, NotifierFacts DEF SchedWait
  <1>2. CASE ReleaseFinished
    BY SMTT(30), <1>2 DEF ReleaseFinished, Station
  <1>2a. CASE RunBarrier
    BY SMTT(30), <1>2a DEF RunBarrier, Station
  <1>3. CASE HandlePending
    <2>1. st' \in [Instr -> Station]
      BY Zenon, <1>3 DEF HandlePending, Station
    <2> QED
      <3>1. mutex = {} => psize = recvd - moved
        BY Zenon DEF IInv, MutexOK
      <3> QED
        BY <1>3, <2>1, <3>1, MarksAssumption DEF HandlePending, SizeAfter
  <1>4. CASE \E i \in Instr : DispatchInstruction(i)
    <2> PICK i \in Instr : DispatchInstruction(i)
      BY SMTT(30), <1>4
    <2>1. kind[i] # Sched => kind[i] \in Worker
      <3> HIDE DEF clientVars, listVars, probeVars, schedVars, SchedQuiet, SGoto
      <3>1. st[i] = "ready"
        BY Zenon DEF DispatchInstruction, FirstReady
      <3>2. kind[i] # Barrier
        BY Zenon, <3>1 DEF IInv, ListOK
      <3> QED
        BY Zenon, <3>2 DEF Kind
    <2> QED
      BY <2>1 DEF DispatchInstruction, Station
  <1>5. CASE NotifyWorker
    BY SMTT(30), <1>5, NotifierFacts DEF NotifyWorker, OnWorkerLoadPending
  <1>5a. CASE CloseWorkerThreads
    BY SMTT(30), <1>5a, NotifierFacts DEF CloseWorkerThreads
  <1>6. CASE DispatchEnd
    BY <1>6, SMTT(30) DEF DispatchEnd
  <1>6a. CASE HandleProbes
    BY <1>6a, SMTT(30) DEF HandleProbes
  <1>7. CASE CheckEmpty \/ CheckProbes \/ KeepWorking
    BY Zenon, <1>7 DEF CheckEmpty, CheckProbes, KeepWorking
  <1>7a. CASE GoToSleep \/ DrainCheck \/ JoinWorkers
    BY Zenon, <1>7a DEF GoToSleep, DrainCheck, JoinWorkers
  <1> HIDE DEF TypeOK, clientVars, listVars, probeVars, schedVars, SchedQuiet, SGoto
  <1> QED
    BY <1>1, <1>2, <1>2a, <1>3, <1>4, <1>5, <1>5a, <1>6, <1>6a, <1>7, <1>7a, Zenon DEF SchedStep

\* A step of a worker thread keeps the types.
LEMMA WorkerTypes ==
  ASSUME IInv, NEW w \in Worker, WorkerStep(w)
  PROVE  TypeOK'
  <1> TypeOK
    BY Zenon DEF IInv
  <1>0. /\ wpc \in [Worker -> {"wait", "recv", "run", "expire", "exited"}]
        /\ st \in [Instr -> Station] /\ workNtf \in [Worker -> [cnt : Nat, closed : BOOLEAN]]
    BY Zenon DEF TypeOK
  <1>1. wpc' \in [Worker -> {"wait", "recv", "run", "expire", "exited"}]
    BY <1>0, SMTT(30) DEF WGoto, WorkerStep, WorkerWait, WorkerReceive, WorkerRun, WorkerYield, WorkerSleep
  <1>2. st' \in [Instr -> Station]
    BY <1>0, SMTT(30) DEF WorkerStep, WorkerWait, WorkerReceive, WorkerRun, WorkerYield, WorkerSleep, Station
  <1>3. workNtf' \in [Worker -> [cnt : Nat, closed : BOOLEAN]]
    BY <1>0, NotifierFacts, SMTT(30) DEF WorkerStep, WorkerWait, WorkerReceive, WorkerRun, WorkerYield, WorkerSleep
  <1> QED
    BY SMTT(30), <1>1, <1>2, <1>3, WorkerFrame DEF TypeOK, clientVars, listVars, probeVars, schedVars

-----------------------------------------------------------------------------
(***************************************************************************)
(* What the calls and the lists maintain.                                  *)
(***************************************************************************)
LEMMA CallsStep ==
  ASSUME IInv, Next
  PROVE  CallsOK'
  <1> TypeOK /\ CallsOK
    BY Zenon DEF IInv
  <1>0. /\ pc \in [Client -> {"idle", "probeNotify", "probeWait", "link", "size", "notify",
                             "syncWait", "join", "aborted"}]
        /\ ip \in [Client -> Nat \ {0}]
    BY Zenon DEF TypeOK
  <1>1. ASSUME NEW c \in Client, ClientStep(c) \/ Timeout(c) PROVE CallsOK'
    <2>1. /\ \A d \in Client \ {c} : pc'[d] = pc[d] /\ ip'[d] = ip[d]
          /\ pc'[c] = "idle" \/ ip'[c] = ip[c]
      BY Zenon, <1>1, ClientMoves
    <2>2. pc'[c] # "idle" => ip[c] \in 1 .. Len(Programs[c])
      <3>1. HasCall(c) => ip[c] \in 1 .. Len(Programs[c])
        BY SMTT(30), <1>0, ProgramsAssumption DEF HasCall
      <3> QED
        BY ZenonT(30), <1>1, <3>1 DEF CallsOK, ClientStep, ReceiveBegin, InsertProbe, NotifyProbe, ProbeReturn,
             Link, SetSize, NotifyPending, SyncReturn, JoinReturn, RunInCurrentThread, Timeout
    <2>3. /\ pc'[c] = "syncWait" => CurCall(c).op # "receive"
          /\ pc'[c] \in {"join", "aborted"} => CurCall(c).op = "close"
      <3> USE DEF Goto, EndCall, StartWait
      <3>1. CASE ReceiveBegin(c) \/ InsertProbe(c) \/ NotifyProbe(c) \/ ProbeReturn(c)
        BY SMTT(30), <1>0, <3>1 DEF ReceiveBegin, InsertProbe, NotifyProbe, ProbeReturn
      <3>2. CASE Link(c) \/ SetSize(c) \/ NotifyPending(c)
        BY SMTT(30), <1>0, <3>2 DEF Link, SetSize, NotifyPending, AfterReceive
      <3>3. CASE SyncReturn(c) \/ JoinReturn(c) \/ RunInCurrentThread(c)
        BY SMTT(30), <1>0, <3>3 DEF SyncReturn, JoinReturn, RunInCurrentThread
      <3>4. CASE Timeout(c)
        BY SMTT(30), <1>0, <3>4 DEF Timeout, CallsOK
      <3> HIDE DEF Goto, EndCall, StartWait
      <3> QED
        BY Zenon, <1>1, <3>1, <3>2, <3>3, <3>4 DEF ClientStep
    <2> QED
      BY Zenon, <2>1, <2>2, <2>3 DEF CurCall, CallsOK
  <1>2. CASE SchedStep
    BY Zenon, <1>2, SchedFrame DEF clientVars, CurCall, CallsOK
  <1>3. ASSUME NEW w \in Worker, WorkerStep(w) PROVE CallsOK'
    BY Zenon, <1>3, WorkerFrame DEF clientVars, CurCall, CallsOK
  <1> QED
    BY <1>1, <1>2, <1>3, Zenon DEF Next

\* Every step preserves ListOK.
LEMMA ListStep ==
  ASSUME IInv, Next
  PROVE  ListOK'
  <1> TypeOK /\ ListOK
    BY Zenon DEF IInv
  <1>0. /\ recvd \in Nat /\ moved \in 0 .. recvd /\ handled \in 0 .. moved
        /\ kind \in [Instr -> Kind] /\ st \in [Instr -> Station]
    BY Zenon DEF TypeOK
  <1> USE DEF ListOK
  <1>1. ASSUME NEW c \in Client, Link(c) PROVE ListOK'
    <2>1. \A i \in Instr : st[i] # "none" => kind'[i] = kind[i]
      <3>1. InstrList(c) \in Seq(Kind)
        BY Zenon, <1>1, ListFacts DEF Link, IInv, CallsOK
      <3> QED
        BY SMTT(30), <1>0, <1>1, <3>1, MarksAssumption DEF Link, Instr
    <2> QED
      BY SMTT(30), <1>1, <2>1 DEF Link
  <1>2. ASSUME NEW c \in Client, RunInCurrentThread(c) PROVE ListOK'
    <2>1. InstrList(c) \in Seq(Kind)
      <3>1. ip \in [Client -> Nat \ {0}]
        BY Zenon DEF TypeOK
      <3> QED
        BY SMTT(30), <1>2, <3>1, ListFacts DEF RunInCurrentThread, HasCall
    <2> QED
      BY SMTT(30), <1>0, <1>2, <2>1, MarksAssumption DEF RunInCurrentThread, SchedulerEmpty, EngineEmpty, Instr
  <1>3. ASSUME NEW c \in Client, ClientStep(c) \/ Timeout(c), ~Link(c), ~RunInCurrentThread(c)
        PROVE  ListOK'
    BY ZenonT(30), <1>3 DEF ClientStep, ReceiveBegin, InsertProbe, NotifyProbe, ProbeReturn, SetSize,
         NotifyPending, SyncReturn, JoinReturn, Timeout, listVars
  <1>4. CASE HandlePending
    BY SMTT(30), <1>0, <1>4, MarksAssumption DEF HandlePending, Instr
  <1>5. CASE \E i \in Instr : DispatchInstruction(i)
    BY SMTT(30), <1>0, <1>5 DEF DispatchInstruction, FirstReady, listVars
  <1>6. CASE ReleaseFinished \/ RunBarrier
    <2>1. UNCHANGED <<handled, kind>>
      BY Zenon, <1>6 DEF ReleaseFinished, RunBarrier, listVars
    <2>2. \A i \in Instr : st'[i] = st[i] \/ (st[i] \in {"done", "barrier"} /\ st'[i] = "erased")
      <3> HIDE DEF ListOK
      <3> QED
        BY SMTT(30), <1>6 DEF ReleaseFinished, RunBarrier, RunnableBarriers
    <2> QED
      BY Zenon, <2>1, <2>2
  <1>7. CASE SchedWait \/ NotifyWorker \/ DispatchEnd \/ HandleProbes \/ CheckEmpty \/ CheckProbes
               \/ KeepWorking \/ GoToSleep \/ DrainCheck \/ CloseWorkerThreads \/ JoinWorkers
    BY Zenon, <1>7 DEF SchedWait, NotifyWorker, DispatchEnd, HandleProbes, CheckEmpty, CheckProbes,
         KeepWorking, GoToSleep, DrainCheck, CloseWorkerThreads, JoinWorkers, listVars
  <1>8. ASSUME NEW w \in Worker, WorkerStep(w) PROVE ListOK'
    <2>1. UNCHANGED <<handled, kind>>
      BY Zenon, <1>8, WorkerFrame DEF listVars
    <2> QED
      BY Zenon, <1>0, <1>8, <2>1 DEF WorkerStep, WorkerWait, WorkerReceive, WorkerRun, WorkerYield, WorkerSleep,
           OnWorker
  <1> HIDE DEF ListOK
  <1> QED
    BY Zenon, <1>1, <1>2, <1>3, <1>4, <1>5, <1>6, <1>7, <1>8 DEF Next, SchedStep

\* Every step preserves MutexOK.
LEMMA MutexStep ==
  ASSUME IInv, Next
  PROVE  MutexOK'
  <1> TypeOK /\ MutexOK
    BY Zenon DEF IInv
  <1>0. /\ pc \in [Client -> {"idle", "probeNotify", "probeWait", "link", "size", "notify",
                             "syncWait", "join", "aborted"}]
        /\ ip \in [Client -> Nat \ {0}] /\ oldEmpty \in [Client -> BOOLEAN]
        /\ recvd \in Nat /\ moved \in 0 .. recvd /\ psize \in 0 .. recvd - moved
    BY Zenon DEF TypeOK
  <1> USE DEF MutexOK
  <1>1. ASSUME NEW c \in Client, Link(c) PROVE MutexOK'
    <2>1. \A d \in Client : pc[d] # "size"
      BY Zenon, <1>1 DEF Link
    <2>2. \A d \in Client : pc'[d] = "size" <=> d = c
      BY Zenon, <1>0, <1>1, <2>1 DEF Link, Goto
    <2>3. psize = 0 => oldEmpty'[c]
      <3>1. psize = 0 => recvd = moved
        BY <1>0, <1>1 DEF Link
      <3>2. oldEmpty'[c] = (recvd = moved)
        BY <1>0, <1>1, Zenon DEF Link, OldListEmpty
      <3> QED
        BY Zenon, <3>1, <3>2
    <2> QED
      BY SMTT(30), <1>1, <2>2, <2>3 DEF Link
  <1>2. ASSUME NEW c \in Client, SetSize(c) PROVE MutexOK'
    <2>1. \A d \in Client : pc'[d] # "size"
      <3>1. \E q \in {"notify", "idle", "syncWait"} : pc' = [pc EXCEPT ![c] = q]
        BY Zenon, <1>2 DEF SetSize, Goto, AfterReceive, EndCall, StartWait
      <3>2. \A d \in Client : pc[d] = "size" => d = c
        BY Zenon, <1>2 DEF SetSize
      <3> QED
        BY Zenon, <1>0, <3>1, <3>2
    <2> QED
      <3>1. mutex' = {} /\ psize' = recvd' - moved'
        BY Zenon, <1>2 DEF SetSize
      <3> QED
        BY Zenon, <2>1, <3>1
  <1>3. ASSUME NEW c \in Client, RunInCurrentThread(c) PROVE MutexOK'
    <2>1. \A d \in Client : pc'[d] = pc[d]
      BY Zenon, <1>0, <1>3 DEF RunInCurrentThread, EndCall, HasCall
    <2>2. recvd' - moved' = recvd - moved
      BY <1>0, <1>3, ListFacts DEF RunInCurrentThread, HasCall, SchedulerEmpty
    <2> QED
      BY Zenon, <1>3, <2>1, <2>2 DEF RunInCurrentThread
  <1>4. ASSUME NEW c \in Client, ClientStep(c) \/ Timeout(c),
               ~Link(c), ~SetSize(c), ~RunInCurrentThread(c)
        PROVE  MutexOK'
    <2>1. UNCHANGED <<mutex, oldEmpty, psize, recvd, moved>>
      BY ZenonT(30), <1>4 DEF ClientStep, ReceiveBegin, InsertProbe, NotifyProbe, ProbeReturn,
           NotifyPending, SyncReturn, JoinReturn, Timeout, listVars
    <2>2. \A d \in Client : pc'[d] = "size" <=> pc[d] = "size"
      <3> USE DEF Goto, EndCall, StartWait
      <3> HIDE DEF MutexOK
      <3>1. CASE ReceiveBegin(c) \/ InsertProbe(c)
        BY SMTT(30), <1>0, <3>1 DEF ReceiveBegin, InsertProbe, HasCall
      <3>2. CASE NotifyProbe(c) \/ ProbeReturn(c)
        BY SMTT(30), <1>0, <3>2 DEF NotifyProbe, ProbeReturn
      <3>3. CASE NotifyPending(c) \/ SyncReturn(c) \/ JoinReturn(c)
        BY SMTT(30), <1>0, <3>3 DEF NotifyPending, AfterReceive, SyncReturn, JoinReturn
      <3>4. CASE Timeout(c)
        BY SMTT(30), <1>0, <3>4 DEF Timeout
      <3> HIDE DEF Goto, EndCall, StartWait
      <3> QED
        BY Zenon, <1>4, <3>1, <3>2, <3>3, <3>4 DEF ClientStep
    <2> QED
      BY SMTT(30), <2>1, <2>2
  <1>5. CASE SchedStep
    <2>1. UNCHANGED <<pc, oldEmpty, recvd, mutex>>
      BY Zenon, <1>5, SchedFrame DEF clientVars
    <2>2. CASE HandlePending
      <3>1. \/ UNCHANGED <<psize, moved>>
            \/ psize # 0 /\ mutex = {} /\ psize' = 0 /\ moved' = recvd
        <4> HIDE DEF MutexOK
        <4> QED
          BY <1>0, <2>2 DEF HandlePending, SizeAfter
      <3>2. CASE UNCHANGED <<psize, moved>>
        BY Zenon, <2>1, <3>2
      <3>3. CASE mutex = {} /\ psize' = 0 /\ moved' = recvd
        BY SMTT(30), <1>0, <2>1, <3>3
      <3> QED
        BY Zenon, <3>1, <3>2, <3>3
    <2>3. CASE ~HandlePending
      BY ZenonT(30), <1>5, <2>1, <2>3 DEF SchedStep, SchedWait, ReleaseFinished, RunBarrier, DispatchInstruction,
           NotifyWorker, DispatchEnd, HandleProbes, CheckEmpty, CheckProbes, KeepWorking, GoToSleep,
           DrainCheck, CloseWorkerThreads, JoinWorkers, listVars
    <2> QED
      BY Zenon, <2>2, <2>3
  <1>6. ASSUME NEW w \in Worker, WorkerStep(w) PROVE MutexOK'
    BY Zenon, <1>6, WorkerFrame DEF clientVars, listVars
  <1> HIDE DEF MutexOK
  <1> QED
    BY Zenon, <1>1, <1>2, <1>3, <1>4, <1>5, <1>6 DEF Next

-----------------------------------------------------------------------------

\* Every step preserves CloseOK.
LEMMA CloseStep ==
  ASSUME IInv, Next
  PROVE  CloseOK'
  <1> TypeOK /\ CallsOK /\ CloseOK
    BY Zenon DEF IInv
  <1>t. /\ pc \in [Client -> {"idle", "probeNotify", "probeWait", "link", "size", "notify",
                             "syncWait", "join", "aborted"}]
        /\ ip \in [Client -> Nat \ {0}] /\ pendNtf \in [cnt : Nat, closed : BOOLEAN]
    BY Zenon DEF TypeOK
  <1>c. Closer \in Client /\ \A d \in Client : Len(Programs[d]) \in Nat
    BY ProgramsAssumption
  <1>1. ASSUME NEW c \in Client, ReceiveBegin(c) \/ InsertProbe(c) PROVE CloseOK'
    <2>1. ~pendNtf.closed /\ UNCHANGED <<pendNtf, closed, spc, ip>>
      <3>1. UNCHANGED <<pendNtf, closed, spc, ip>>
        BY Zenon, <1>1 DEF ReceiveBegin, InsertProbe, Goto, schedVars
      <3>2. ~closed /\ pc[c] = "idle" /\ ip[c] <= Len(Programs[c])
        BY Zenon, <1>1 DEF ReceiveBegin, InsertProbe, HasCall
      <3>3. ~(ip[c] > Len(Programs[c]))
        <4>1. Len(Programs[c]) \in Nat /\ ip[c] \in Nat
          BY SMTT(30), <1>t, <1>c
        <4> QED
          BY <3>2, <4>1
      <3> QED
        BY Zenon, <1>c, <3>1, <3>2, <3>3 DEF CloseOK
    <2>2. CASE c = Closer
      <3>1. pc'[c] # "idle" /\ UNCHANGED ip /\ \A d \in Client \ {c} : pc'[d] = pc[d]
        BY SMTT(30), <1>t, <1>1 DEF ReceiveBegin, InsertProbe, Goto
      <3>2. CurCall(c).op = "close" => \A d \in Client \ {c} : pc[d] = "idle" /\ ip[d] > Len(Programs[d])
        BY Zenon, <1>1 DEF ReceiveBegin, InsertProbe, MayClose
      <3> QED
        BY Zenon, <2>1, <2>2, <3>1, <3>2 DEF CloseOK, CurCall
    <2>3. CASE c # Closer
      <3>1. pc[Closer] # "idle" => CurCall(Closer).op # "close"
        <4>1. ~(ip[c] > Len(Programs[c]))
          BY SMTT(30), <1>t, <1>c, <1>1 DEF ReceiveBegin, InsertProbe, HasCall
        <4> QED
          BY Zenon, <2>3, <4>1 DEF CloseOK
      <3>2. pc'[Closer] = pc[Closer] /\ CurCall(Closer)' = CurCall(Closer)
        BY SMTT(30), <1>t, <1>1, <1>c, <2>1, <2>3 DEF ReceiveBegin, InsertProbe, Goto, CurCall
      <3> QED
        BY Zenon, <2>1, <3>1, <3>2 DEF CloseOK
    <2> QED
      BY Zenon, <2>2, <2>3
  <1>2. ASSUME NEW c \in Client, SyncReturn(c), CurCall(c).op = "close" PROVE CloseOK'
    <2>1. c = Closer
      BY Zenon, <1>2, CallFacts DEF SyncReturn, CallsOK, CurCall
    <2> QED
      BY <1>t, <1>2, <2>1, NotifierFacts DEF SyncReturn, Goto, CloseOK, CurCall, schedVars
  <1>3. ASSUME NEW c \in Client, JoinReturn(c) PROVE CloseOK'
    <2>1. c = Closer
      BY Zenon, <1>3, CallFacts DEF JoinReturn, CallsOK, CurCall
    <2> QED
      BY Zenon, <1>t, <1>3, <2>1 DEF JoinReturn, EndCall, CloseOK, CurCall, schedVars
  <1>4. ASSUME NEW c \in Client, RunInCurrentThread(c) PROVE CloseOK'
    <2>1. \A d \in Client : pc'[d] = pc[d]
      BY Zenon, <1>t, <1>4 DEF RunInCurrentThread, EndCall, HasCall
    <2>2. \A d \in Client : ip'[d] = IF d = c THEN ip[d] + 1 ELSE ip[d]
      BY Zenon, <1>t, <1>4 DEF RunInCurrentThread, EndCall
    <2>3. UNCHANGED <<pendNtf, closed, spc>> /\ closed
      BY Zenon, <1>4 DEF RunInCurrentThread, schedVars
    <2>4. CASE c # Closer
      <3>1. \A d \in Client : ip[d] > Len(Programs[d]) => ip'[d] > Len(Programs[d])
        <4> SUFFICES ASSUME NEW d \in Client, ip[d] > Len(Programs[d])
                     PROVE  ip'[d] > Len(Programs[d])
          OBVIOUS
        <4>1. Len(Programs[d]) \in Nat /\ ip[d] \in Nat
          BY Zenon, <1>t, <1>c
        <4>2. ip'[d] = ip[d] \/ ip'[d] = ip[d] + 1
          BY Zenon, <2>2
        <4> QED
          BY <4>1, <4>2
      <3>2. ip'[Closer] = ip[Closer]
        BY SMTT(30), <1>c, <2>2, <2>4
      <3> QED
        BY Zenon, <1>c, <2>1, <2>3, <3>1, <3>2 DEF CloseOK, CurCall
    <2>5. CASE c = Closer
      <3>1. pc'[Closer] = "idle" /\ \A d \in Client \ {Closer} : pc'[d] = pc[d] /\ ip'[d] = ip[d]
        BY SMTT(30), <1>c, <1>4, <2>1, <2>2, <2>5 DEF RunInCurrentThread, HasCall
      <3> QED
        BY Zenon, <1>c, <2>1, <2>3, <3>1 DEF CloseOK
    <2> QED
      BY Zenon, <2>4, <2>5
  <1>5. ASSUME NEW c \in Client, ClientStep(c) \/ Timeout(c), ~ReceiveBegin(c), ~InsertProbe(c),
               ~(SyncReturn(c) /\ CurCall(c).op = "close"), ~JoinReturn(c), ~RunInCurrentThread(c)
        PROVE  CloseOK'
    <2>1. UNCHANGED <<closed, spc>> /\ pendNtf'.closed = pendNtf.closed
      <3>1. UNCHANGED <<closed, spc>> /\ (pendNtf' = pendNtf \/ pendNtf' = Notify(pendNtf))
        BY ZenonT(30), <1>5 DEF ClientStep, Timeout, NotifyProbe, ProbeReturn, Link, SetSize,
             NotifyPending, SyncReturn, schedVars
      <3> QED
        BY <1>t, <3>1, NotifierFacts
    <2>2. pc[c] \notin {"idle", "join"}
      BY ZenonT(30), <1>5 DEF ClientStep, Timeout, NotifyProbe, ProbeReturn, Link, SetSize, NotifyPending,
           SyncReturn
    <2>3. ~pendNtf.closed
      BY Zenon, <1>c, <2>2 DEF CloseOK
    <2>4. /\ \A d \in Client \ {c} : pc'[d] = pc[d] /\ ip'[d] = ip[d]
          /\ pc'[c] = "idle" \/ ip'[c] = ip[c]
      BY Zenon, <1>5, ClientMoves
    <2>5. CASE c = Closer
      <3>1. pc'[c] # "idle" => CurCall(c)' = CurCall(c)
        BY Zenon, <2>4 DEF CurCall
      <3> QED
        BY Zenon, <2>1, <2>2, <2>3, <2>4, <2>5, <3>1 DEF CloseOK
    <2>6. CASE c # Closer
      <3>1. pc[Closer] # "idle" => CurCall(Closer).op # "close"
        BY Zenon, <1>c, <2>2, <2>6 DEF CloseOK
      <3>2. pc'[Closer] = pc[Closer] /\ CurCall(Closer)' = CurCall(Closer)
        BY Zenon, <1>c, <2>4, <2>6 DEF CurCall
      <3> QED
        BY Zenon, <1>c, <2>1, <2>3, <3>1, <3>2 DEF CloseOK
    <2> QED
      BY Zenon, <2>5, <2>6
  <1>6. CASE SchedStep
    <2>1. UNCHANGED <<pc, ip, closed>>
      BY Zenon, <1>6, SchedFrame DEF clientVars
    <2>2. pendNtf'.closed = pendNtf.closed
      <3>1. pendNtf' = pendNtf \/ pendNtf' = Cleared(pendNtf)
        BY ZenonT(30), <1>6 DEF SchedStep, SchedWait, ReleaseFinished, RunBarrier, HandlePending,
             DispatchInstruction, NotifyWorker, DispatchEnd, HandleProbes, CheckEmpty, CheckProbes,
             KeepWorking, GoToSleep, DrainCheck, CloseWorkerThreads, JoinWorkers
      <3> QED
        BY <1>t, <3>1, NotifierFacts
    <2>3. spc # "stopped"
      BY ZenonT(30), <1>6 DEF SchedStep, SchedWait, ReleaseFinished, RunBarrier, HandlePending,
           DispatchInstruction, NotifyWorker, DispatchEnd, HandleProbes, CheckEmpty, CheckProbes,
           KeepWorking, GoToSleep, DrainCheck, CloseWorkerThreads, JoinWorkers
    <2> QED
      BY Zenon, <2>1, <2>2, <2>3 DEF CloseOK, CurCall
  <1>7. ASSUME NEW w \in Worker, WorkerStep(w) PROVE CloseOK'
    BY Zenon, <1>7, WorkerFrame DEF clientVars, schedVars, CloseOK, CurCall
  <1> QED
    BY Zenon, <1>1, <1>2, <1>3, <1>4, <1>5, <1>6, <1>7 DEF Next

-----------------------------------------------------------------------------
(***************************************************************************)
(* The scheduler.  A client cannot take away what keeps it awake: whoever  *)
(* owes a notification delivers it, since the notifier is still open.      *)
(***************************************************************************)
LEMMA ClientKeepsAwake ==
  ASSUME IInv, NEW c \in Client, ClientStep(c) \/ Timeout(c)
  PROVE  /\ pendNtf.cnt > 0 => pendNtf'.cnt > 0
         /\ Owes(c) => pendNtf'.cnt > 0 \/ Owes(c)'
         /\ pc[c] = "probeNotify" => pendNtf'.cnt > 0 \/ pc'[c] = "probeNotify"
         /\ \A d \in Client \ {c} : Owes(d)' = Owes(d) /\ (pc'[d] = "probeNotify" <=> pc[d] = "probeNotify")
  <1> TypeOK /\ CloseOK
    BY Zenon DEF IInv
  <1>t. /\ pc \in [Client -> {"idle", "probeNotify", "probeWait", "link", "size", "notify",
                             "syncWait", "join", "aborted"}]
        /\ oldEmpty \in [Client -> BOOLEAN] /\ pendNtf \in [cnt : Nat, closed : BOOLEAN]
    BY Zenon DEF TypeOK
  <1>1. pendNtf' = pendNtf \/ pendNtf' = Notify(pendNtf) \/ pendNtf' = Close(pendNtf)
    BY Zenon DEF ClientStep, ReceiveBegin, InsertProbe, NotifyProbe, ProbeReturn, Link, SetSize,
         NotifyPending, SyncReturn, JoinReturn, RunInCurrentThread, Timeout
  <1>2. pendNtf.cnt > 0 => pendNtf'.cnt > 0
    BY <1>t, <1>1, NotifierFacts
  <1>3. pc[c] \in {"notify", "probeNotify"} => ~pendNtf.closed
    BY Zenon, ProgramsAssumption DEF CloseOK
  <1>4. ASSUME pc[c] \in {"notify", "probeNotify"} PROVE pendNtf'.cnt > 0
    <2>1. pendNtf' = Notify(pendNtf)
      BY ZenonT(30), <1>4 DEF ClientStep, ReceiveBegin, InsertProbe, NotifyProbe, ProbeReturn, Link, SetSize,
           NotifyPending, SyncReturn, JoinReturn, RunInCurrentThread, Timeout, HasCall
    <2> QED
      BY Zenon, <1>t, <1>3, <1>4, <2>1, NotifierFacts
  <1>5. ASSUME pc[c] = "size", oldEmpty[c] PROVE Owes(c)'
    <2>1. SetSize(c)
      BY ZenonT(30), <1>5 DEF ClientStep, ReceiveBegin, InsertProbe, NotifyProbe, ProbeReturn, Link,
           NotifyPending, SyncReturn, JoinReturn, RunInCurrentThread, Timeout, HasCall
    <2> QED
      BY SMTT(30), <1>t, <1>5, <2>1 DEF SetSize, Goto, Owes
  <1>6. \A d \in Client \ {c} : oldEmpty'[d] = oldEmpty[d]
    BY ZenonT(30), <1>t DEF ClientStep, ReceiveBegin, InsertProbe, NotifyProbe, ProbeReturn, Link, SetSize,
         NotifyPending, SyncReturn, JoinReturn, RunInCurrentThread, Timeout
  <1>7. \A d \in Client \ {c} : pc'[d] = pc[d]
    BY Zenon, ClientMoves
  <1> QED
    BY ZenonT(30), <1>2, <1>4, <1>5, <1>6, <1>7 DEF Owes

\* Every step preserves SleepOK: the scheduler does not fall asleep on work.
LEMMA SleepStep ==
  ASSUME IInv, Next
  PROVE  SleepOK'
  <1> TypeOK /\ MutexOK /\ CloseOK /\ SleepOK
    BY Zenon DEF IInv
  <1>t. /\ recvd \in Nat /\ moved \in 0 .. recvd /\ psize \in 0 .. recvd - moved
        /\ st \in [Instr -> Station] /\ pendNtf \in [cnt : Nat, closed : BOOLEAN]
        /\ oldEmpty \in [Client -> BOOLEAN]
        /\ pc \in [Client -> {"idle", "probeNotify", "probeWait", "link", "size", "notify",
                             "syncWait", "join", "aborted"}]
    BY Zenon DEF TypeOK
  <1>1. ASSUME NEW c \in Client, ClientStep(c) \/ Timeout(c),
               spc \in {"checkProbe", "expire", "wait"}
        PROVE  SleepOK'
    <2>1. UNCHANGED <<spc, localProbes>>
      BY Zenon, <1>1, ClientFrame DEF schedVars
    <2>2. ~closed
      BY Zenon, <1>1 DEF CloseOK
    <2>3. UNCHANGED <<moved, handled, st>>
      BY ZenonT(30), <1>1, <2>2 DEF ClientStep, ReceiveBegin, InsertProbe, NotifyProbe, ProbeReturn, Link, SetSize,
           NotifyPending, SyncReturn, JoinReturn, RunInCurrentThread, Timeout, listVars
    <2>4. recvd' > moved => pendNtf'.cnt > 0 \/ \E d \in Client : Owes(d)'
      <3>1. CASE recvd > moved
        BY ZenonT(30), <1>1, <3>1, ClientKeepsAwake DEF SleepOK
      <3>2. CASE recvd = moved /\ Link(c)
        BY Zenon, <1>t, <3>2 DEF Link, Goto, Owes, OldListEmpty
      <3>3. CASE ~Link(c)
        <4>1. recvd' = recvd
          BY ZenonT(30), <1>1, <2>2, <3>3 DEF ClientStep, ReceiveBegin, InsertProbe, NotifyProbe, ProbeReturn,
               SetSize, NotifyPending, SyncReturn, JoinReturn, RunInCurrentThread, Timeout, listVars
        <4> QED
          BY Zenon, <3>1, <4>1
      <3> QED
        BY <1>t, <3>1, <3>2, <3>3
    <2>5. spc # "checkProbe" /\ probes' # {} =>
             pendNtf'.cnt > 0 \/ \E d \in Client : pc'[d] = "probeNotify"
      <3>1. probes' = probes \/ pc'[c] = "probeNotify"
        BY ZenonT(30), <1>t, <1>1 DEF ClientStep, ReceiveBegin, InsertProbe, NotifyProbe, ProbeReturn, Link, SetSize,
             NotifyPending, SyncReturn, JoinReturn, RunInCurrentThread, Timeout, probeVars, Goto
      <3> QED
        BY ZenonT(30), <1>1, <3>1, ClientKeepsAwake DEF SleepOK
    <2> QED
      BY ZenonT(30), <1>1, <2>1, <2>3, <2>4, <2>5 DEF SleepOK, Lively
  <1>2. ASSUME NEW c \in Client, ClientStep(c) \/ Timeout(c),
               spc \notin {"checkProbe", "expire", "wait"}
        PROVE  SleepOK'
    BY Zenon, <1>2, ClientFrame DEF schedVars, SleepOK
  <1>3. CASE CheckEmpty
    <2>1. UNCHANGED <<recvd, psize, mutex, moved, handled, pc, oldEmpty, st, pendNtf>>
      BY Zenon, <1>3 DEF CheckEmpty, SchedQuiet, clientVars, listVars
    <2>2. spc' = "release" \/ (spc' = "checkProbe" /\ EngineEmpty)
      BY Zenon, <1>3 DEF CheckEmpty, SGoto
    <2>3. psize = 0 /\ recvd > moved => \E c \in Client : pc[c] = "size" /\ oldEmpty[c]
      BY <1>t DEF MutexOK
    <2> QED
      BY ZenonT(30), <2>1, <2>2, <2>3 DEF SleepOK, EngineEmpty, Lively, Owes
  <1>4. CASE CheckProbes
    <2>1. UNCHANGED <<recvd, moved, handled, pc, oldEmpty, st, pendNtf, probes, localProbes>>
      BY Zenon, <1>4 DEF CheckProbes, SchedQuiet, clientVars, listVars, probeVars
    <2>2. spc = "checkProbe" /\ (spc' = "release" \/ (spc' = "expire" /\ probes = {} /\ localProbes = {}))
      BY Zenon, <1>4 DEF CheckProbes, SGoto, ProbesEmpty
    <2> QED
      BY ZenonT(30), <2>1, <2>2 DEF SleepOK, Lively, Owes
  <1>5. CASE GoToSleep
    <2>1. UNCHANGED <<recvd, moved, handled, pc, oldEmpty, st, pendNtf, probes, localProbes>>
      BY Zenon, <1>5 DEF GoToSleep, SchedQuiet, clientVars, listVars, probeVars
    <2>2. spc = "expire" /\ spc' = "wait"
      BY Zenon, <1>5 DEF GoToSleep, SGoto
    <2> QED
      BY ZenonT(30), <2>1, <2>2 DEF SleepOK, Lively, Owes
  <1>6. CASE SchedStep /\ ~CheckEmpty /\ ~CheckProbes /\ ~GoToSleep
    <2>1. spc' \notin {"checkProbe", "expire", "wait"}
      BY ZenonT(30), <1>6 DEF SchedStep, SGoto, SchedWait, ReleaseFinished, RunBarrier, HandlePending,
           DispatchInstruction, NotifyWorker, DispatchEnd, HandleProbes,
           KeepWorking, DrainCheck, CloseWorkerThreads, JoinWorkers
    <2> QED
      BY Zenon, <2>1 DEF SleepOK
  <1>7. ASSUME NEW w \in Worker, WorkerStep(w) PROVE SleepOK'
    <2>1. UNCHANGED <<clientVars, listVars, probeVars, schedVars, pendNtf>>
      BY Zenon, <1>7, WorkerFrame
    <2>2. Lively = {} => Lively' = {}
      BY SMTT(30), <1>t, <1>7 DEF WorkerStep, WorkerWait, WorkerReceive, WorkerRun, WorkerYield, WorkerSleep, Lively,
           OnWorker
    <2> QED
      BY ZenonT(30), <2>1, <2>2 DEF SleepOK, Owes, clientVars, listVars, probeVars, schedVars
  <1> QED
    BY Zenon, <1>1, <1>2, <1>3, <1>4, <1>5, <1>6, <1>7 DEF Next

-----------------------------------------------------------------------------
(***************************************************************************)
(* The workers.                                                            *)
(***************************************************************************)
LEMMA WorkStep ==
  ASSUME IInv, Next
  PROVE  WorkOK'
  <1> TypeOK /\ CallsOK /\ ListOK /\ WorkOK
    BY Zenon DEF IInv
  <1>t. /\ recvd \in Nat /\ moved \in 0 .. recvd /\ handled \in 0 .. moved
        /\ kind \in [Instr -> Kind] /\ st \in [Instr -> Station] /\ sdst \in SUBSET Worker
        /\ wpc \in [Worker -> {"wait", "recv", "run", "expire", "exited"}]
        /\ workNtf \in [Worker -> [cnt : Nat, closed : BOOLEAN]]
    BY Zenon DEF TypeOK
  <1>1. ASSUME NEW c \in Client, ClientStep(c) \/ Timeout(c) PROVE WorkOK'
    <2>1. UNCHANGED <<spc, sdst, wpc, workNtf>>
      BY Zenon, <1>1, ClientFrame DEF schedVars
    <2>2. /\ Lively = {} => Lively' = {}
          /\ \A w \in Worker : \A s \in {"queued", "taken"} : OnWorker(w, s)' = OnWorker(w, s)
      <3>1. CASE Link(c)
        <4>1. \A i \in Instr : st[i] # "none" => kind'[i] = kind[i]
          <5>1. InstrList(c) \in Seq(Kind)
            BY Zenon, <3>1, ListFacts DEF Link, CallsOK
          <5> QED
            BY SMTT(30), <1>t, <3>1, <5>1, MarksAssumption DEF Link, Instr, ListOK
        <4>2. st' = st
          BY Zenon, <3>1 DEF Link
        <4> QED
          BY SMTT(30), <4>1, <4>2 DEF Lively, OnWorker
      <3>2. CASE RunInCurrentThread(c)
        <4>1. CASE st' = st
          BY Zenon, <3>2, <4>1 DEF RunInCurrentThread, Lively, OnWorker
        <4>2. CASE SchedulerEmpty
          BY SMTT(30), <1>t, <3>2, <4>2 DEF RunInCurrentThread, SchedulerEmpty, EngineEmpty, Lively, OnWorker
        <4> QED
          BY Zenon, <3>2, <4>1, <4>2 DEF RunInCurrentThread
      <3>3. CASE ~Link(c) /\ ~RunInCurrentThread(c)
        <4>1. UNCHANGED <<st, kind>>
          BY ZenonT(30), <1>1, <3>3 DEF ClientStep, ReceiveBegin, InsertProbe, NotifyProbe, ProbeReturn, SetSize,
               NotifyPending, SyncReturn, JoinReturn, Timeout, listVars
        <4> QED
          BY Zenon, <4>1 DEF Lively, OnWorker
      <3> QED
        BY Zenon, <3>1, <3>2, <3>3
    <2> QED
      BY ZenonT(30), <2>1, <2>2 DEF WorkOK
  <1>2. CASE \E i \in Instr : DispatchInstruction(i)
    <2> PICK i \in Instr : DispatchInstruction(i)
      BY Zenon, <1>2
    <2>1. /\ UNCHANGED <<wpc, workNtf, kind>> /\ st[i] = "ready"
          /\ spc = "dispatch" /\ spc' \in {"dispatch", "notifyWorker"}
          /\ \/ st' = [st EXCEPT ![i] = "done"]
             \/ st' = [st EXCEPT ![i] = "queued"] /\ spc' = "notifyWorker" /\ sdst' = {kind[i]}
      BY Zenon DEF DispatchInstruction, FirstReady, listVars, SGoto
    <2>2. \A w \in Worker :
             /\ OnWorker(w, "taken")' = OnWorker(w, "taken")
             /\ OnWorker(w, "queued")' = OnWorker(w, "queued") \/ (spc' = "notifyWorker" /\ sdst' = {w})
      BY SMTT(30), <1>t, <2>1 DEF OnWorker
    <2> QED
      BY ZenonT(30), <2>1, <2>2 DEF WorkOK
  <1>3. CASE NotifyWorker
    <2>1. \A w \in Worker : ~workNtf[w].closed
      BY Zenon, <1>3 DEF NotifyWorker, WorkOK
    <2>2. \A w \in Worker : /\ workNtf'[w].closed = workNtf[w].closed
                            /\ w \in sdst => workNtf'[w].cnt > 0
                            /\ w \notin sdst => workNtf'[w] = workNtf[w]
      BY SMTT(30), <1>t, <1>3, <2>1, NotifierFacts DEF NotifyWorker, OnWorkerLoadPending
    <2>3. \A w \in Worker : \A s \in {"queued", "taken"} : OnWorker(w, s)' = OnWorker(w, s)
      BY Zenon, <1>3 DEF NotifyWorker, OnWorker, listVars
    <2>4. spc = "notifyWorker" /\ spc' = "dispatch" /\ UNCHANGED wpc
      BY Zenon, <1>3 DEF NotifyWorker, SGoto
    <2> QED
      BY SMTT(30), <1>t, <2>1, <2>2, <2>3, <2>4 DEF WorkOK
  <1>4. CASE CloseWorkerThreads
    <2>1. \A w \in Worker : workNtf'[w].closed /\ workNtf'[w].cnt = workNtf[w].cnt
      BY SMTT(30), <1>t, <1>4, NotifierFacts DEF CloseWorkerThreads
    <2>2. Lively' = {} /\ \A w \in Worker : \A s \in {"queued", "taken"} : OnWorker(w, s)' = {}
      <3>1. UNCHANGED <<st, kind>>
        BY Zenon, <1>4 DEF CloseWorkerThreads, listVars
      <3>2. Lively = {}
        BY Zenon, <1>4 DEF CloseWorkerThreads, WorkOK
      <3> QED
        BY Zenon, <3>1, <3>2 DEF Lively, OnWorker
    <2> QED
      BY Zenon, <1>4, <2>1, <2>2 DEF CloseWorkerThreads, SGoto, WorkOK
  <1>5. CASE SchedStep /\ ~(\E i \in Instr : DispatchInstruction(i)) /\ ~NotifyWorker
               /\ ~CloseWorkerThreads
    <2>1. UNCHANGED <<wpc, workNtf, kind>> /\ spc # "notifyWorker"
      BY ZenonT(30), <1>5, SchedFrame DEF SchedStep, SchedWait, ReleaseFinished, RunBarrier, HandlePending,
           DispatchEnd, HandleProbes, CheckEmpty, CheckProbes, KeepWorking, GoToSleep,
           DrainCheck, JoinWorkers
    <2>2. \A s \in {"queued", "taken"} : \A i \in Instr : st'[i] = s <=> st[i] = s
      <3>1. CASE HandlePending
        BY SMTT(30), <1>t, <3>1, MarksAssumption DEF HandlePending, ListOK, Instr
      <3>2. CASE ReleaseFinished \/ RunBarrier
        BY SMTT(30), <3>2 DEF ReleaseFinished, RunBarrier, RunnableBarriers
      <3>3. CASE UNCHANGED st
        BY Zenon, <3>3
      <3> QED
        BY ZenonT(30), <1>5, <3>1, <3>2, <3>3 DEF SchedStep, SchedWait, DispatchEnd, HandleProbes, CheckEmpty,
             CheckProbes, KeepWorking, GoToSleep, DrainCheck, JoinWorkers
    <2>3. \A w \in Worker : \A s \in {"queued", "taken"} : OnWorker(w, s)' = OnWorker(w, s)
      BY SMTT(30), <2>1, <2>2 DEF OnWorker
    <2>4. spc' \in {"closeWorkers", "join", "stopped"} => Lively' = {}
      <3>1. CASE DrainCheck
        BY Zenon, <3>1 DEF DrainCheck, SGoto, SchedulerEmpty, EngineEmpty, Lively
      <3>2. CASE JoinWorkers
        BY Zenon, <3>2 DEF JoinWorkers, WorkOK, Lively
      <3> QED
        BY ZenonT(30), <1>5, <3>1, <3>2 DEF SchedStep, SGoto, SchedWait, ReleaseFinished, RunBarrier, HandlePending,
             DispatchEnd, HandleProbes, CheckEmpty, CheckProbes, KeepWorking, GoToSleep
    <2>5. spc \in {"join", "stopped"} => spc' \in {"join", "stopped"}
      BY ZenonT(30), <1>5 DEF SchedStep, SGoto, SchedWait, ReleaseFinished, RunBarrier, HandlePending,
             DispatchEnd, HandleProbes, CheckEmpty, CheckProbes, KeepWorking, GoToSleep,
             DrainCheck, JoinWorkers
    <2> QED
      BY ZenonT(30), <2>1, <2>3, <2>4, <2>5 DEF WorkOK
  <1>6. ASSUME NEW w \in Worker, WorkerStep(w) PROVE WorkOK'
    <2> USE DEF WGoto
    <2>1. UNCHANGED <<spc, sdst, kind>>
      BY Zenon, <1>6, WorkerFrame DEF listVars, schedVars
    <2>2. Lively = {} => Lively' = {}
      BY SMTT(30), <1>t, <1>6 DEF WorkerStep, WorkerWait, WorkerReceive, WorkerRun, WorkerYield, WorkerSleep, Lively,
           OnWorker
    <2>3. ASSUME NEW v \in Worker, v # w
          PROVE  /\ wpc'[v] = wpc[v] /\ workNtf'[v] = workNtf[v]
                 /\ \A s \in {"queued", "taken"} : OnWorker(v, s)' = OnWorker(v, s)
      BY SMTT(30), <1>t, <1>6, <2>1, <2>3 DEF WorkerStep, WorkerWait, WorkerReceive, WorkerRun, WorkerYield, WorkerSleep,
           OnWorker
    <2>4. workNtf'[w].closed = workNtf[w].closed
      BY SMTT(30), <1>t, <1>6, NotifierFacts DEF WorkerStep, WorkerWait, WorkerReceive, WorkerRun, WorkerYield,
           WorkerSleep
    <2>5. wpc'[w] # "run" => OnWorker(w, "taken")' = {}
      BY SMTT(30), <1>t, <1>6, <2>1 DEF WorkerStep, WorkerWait, WorkerReceive, WorkerRun, WorkerYield, WorkerSleep,
           OnWorker, WorkOK
    <2>6. wpc'[w] \in {"expire", "wait"} /\ workNtf'[w].cnt = 0 =>
             OnWorker(w, "queued")' = {} \/ (spc' = "notifyWorker" /\ sdst' = {w})
      BY SMTT(30), <1>t, <1>6, <2>1 DEF WorkerStep, WorkerWait, WorkerReceive, WorkerRun, WorkerYield, WorkerSleep,
           OnWorker, WorkOK
    <2>7. wpc'[w] = "exited" => workNtf[w].closed
      BY SMTT(30), <1>t, <1>6 DEF WorkerStep, WorkerWait, WorkerReceive, WorkerRun, WorkerYield, WorkerSleep,
           CanReturn, WaitSucceeds, WorkOK
    <2>8. ASSUME NEW v \in Worker
          PROVE  /\ wpc'[v] # "run" => OnWorker(v, "taken")' = {}
                 /\ wpc'[v] \in {"expire", "wait"} /\ workNtf'[v].cnt = 0 =>
                        OnWorker(v, "queued")' = {} \/ (spc' = "notifyWorker" /\ sdst' = {v})
                 /\ wpc'[v] = "exited" => workNtf'[v].closed
                 /\ workNtf'[v].closed => spc' \in {"join", "stopped"}
      <3>1. CASE v = w
        BY Zenon, <2>1, <2>4, <2>5, <2>6, <2>7, <3>1 DEF WorkOK
      <3>2. CASE v # w
        BY Zenon, <2>1, <2>3, <3>2 DEF WorkOK
      <3> QED
        BY Zenon, <3>1, <3>2
    <2> QED
      BY Zenon, <2>1, <2>2, <2>8 DEF WorkOK
  <1> QED
    BY Zenon, <1>1, <1>2, <1>3, <1>4, <1>5, <1>6 DEF Next

-----------------------------------------------------------------------------
(***************************************************************************)
(* The conjunction above is an inductive invariant of the threads of       *)
(* virtual_machine.cpp.                                                    *)
(***************************************************************************)
THEOREM Invariance == Spec => []IInv
  <1>1. Init => IInv
    BY Zenon, InvInit
  <1>2. IInv /\ [Next]_vars => IInv'
    <2>1. CASE Next
      <3>1. ASSUME IInv PROVE TypeOK'
        BY Zenon, <2>1, <3>1, ClientTypes, SchedTypes, WorkerTypes DEF Next
      <3> QED
        BY Zenon, <2>1, <3>1, CallsStep, ListStep, MutexStep, CloseStep, SleepStep, WorkStep DEF IInv
    <2>2. ASSUME IInv, UNCHANGED vars PROVE IInv'
      <3> USE <2>2
      <3>0. /\ UNCHANGED <<pc, ip, oldEmpty, lastErased, recvd, psize, mutex, moved, handled, kind, cb>>
            /\ UNCHANGED <<st, probes, localProbes, fired, spc, sdst, drain, wpc, pendNtf, workNtf, closed>>
        BY Zenon DEF vars, clientVars, listVars, probeVars, schedVars
      <3>1. TypeOK'
        BY Zenon, <3>0 DEF IInv, TypeOK
      <3>2. CallsOK' /\ ListOK' /\ CloseOK'
        BY Zenon, <3>0 DEF IInv, CallsOK, ListOK, CloseOK, CurCall
      <3>3. MutexOK' /\ SleepOK'
        BY ZenonT(30), <3>0 DEF IInv, MutexOK, SleepOK, Owes, Lively
      <3>4. WorkOK'
        BY ZenonT(30), <3>0 DEF IInv, WorkOK, OnWorker, Lively
      <3> QED
        BY Zenon, <3>1, <3>2, <3>3, <3>4 DEF IInv
    <2> QED
      BY Zenon, <2>1, <2>2
  <1> QED
    BY <1>1, <1>2, PTL DEF Spec

(***************************************************************************)
(* Every reachable state is well typed; in particular size_ never exceeds  *)
(* what is on the pending list (MutexedList, read without its mutex).      *)
(***************************************************************************)
THEOREM TypeCorrect == Spec => []TypeOK
  <1>1. IInv => TypeOK
    BY Zenon DEF IInv
  <1> QED
    BY <1>1, Invariance, PTL

(***************************************************************************)
(* The scheduler never waits while an instruction or a probe is left that  *)
(* nobody will tell it of: the racy reads of SchedulerThreadUnsafeEmpty    *)
(* are safe, for any number of clients.                                    *)
(***************************************************************************)
THEOREM SchedulerAwake == Spec => []NoLostWakeup
  <1>1. IInv => NoLostWakeup
    <2>1. ASSUME IInv PROVE SleepOK /\ pendNtf \in [cnt : Nat, closed : BOOLEAN]
      BY Zenon, <2>1 DEF IInv, TypeOK
    <2> QED
      BY <2>1 DEF SleepOK, NoLostWakeup, Owes
  <1> QED
    BY <1>1, Invariance, PTL

(***************************************************************************)
(* A worker thread never waits, nor exits, with an instruction on its list *)
(* that DispatchInstruction will not notify it of.                         *)
(***************************************************************************)
THEOREM WorkersAwake == Spec => []NoLostWorkerWakeup
  <1>1. IInv => NoLostWorkerWakeup
    <2>1. ASSUME IInv PROVE WorkOK /\ kind \in [Instr -> Kind] /\ st \in [Instr -> Station]
      BY Zenon, <2>1 DEF IInv, TypeOK
    <2> QED
      BY Zenon, <2>1 DEF WorkOK, NoLostWorkerWakeup, OnWorker, Lively
  <1> QED
    BY <1>1, Invariance, PTL

-----------------------------------------------------------------------------

(***************************************************************************)
(* Syncs.  A probe is that of the low water mark, or of a call that only   *)
(* inserts a probe; a callback belongs to a sync and to one instruction.   *)
(***************************************************************************)
IsProbe(p) ==
    \E c \in Client, k \in Nat \ {0} :
        \/ p = <<c, k, "low">> /\ Programs[c][k].op \in {"receive", "sync", "close"}
        \/ p = <<c, k, "op">> /\ Programs[c][k].op \in {"create", "shrink"}

OpsOK ==
    \A c \in Client : pc[c] \in {"link", "size", "notify", "syncWait"} =>
        CurCall(c).op \in {"receive", "sync", "close"}

Linked == {"size", "notify", "syncWait", "join", "aborted"}

CallbacksOK ==
    /\ \A i \in Instr : cb[i] # <<>> =>
        /\ i <= recvd
        /\ \E c \in Client, k \in Nat \ {0} :
              /\ cb[i] = <<c, k, "op">> /\ Programs[c][k].op \in {"sync", "close"}
              /\ k <= ip[c] /\ (k = ip[c] => pc[c] \in Linked)
    /\ \A i, j \in Instr : cb[i] = cb[j] /\ cb[i] # <<>> => i = j

\* Only callbacks and probes decrease a counter.
FiredOK ==
    /\ \A p \in probes \cup localProbes : IsProbe(p)
    /\ \A p \in fired : IsProbe(p) \/ (p # <<>> /\ \E i \in Instr : cb[i] = p)

SyncInv == OpsOK /\ CallbacksOK /\ FiredOK /\ SyncAfterAll

\* A callback is no probe, and the callback of a call that has not linked is new.
LEMMA CallbackFacts ==
  ASSUME TypeOK, SyncInv
  PROVE  /\ \A i \in Instr : ~IsProbe(cb[i])
         /\ \A c \in Client : pc[c] = "link" /\ CurCall(c).op # "receive" =>
                OpId(c) \notin fired /\ \A i \in Instr : cb[i] # OpId(c)
  <1>1. ASSUME NEW i \in Instr, IsProbe(cb[i]) PROVE FALSE
    <2>1. PICK c \in Client, k \in Nat \ {0} :
             \/ cb[i] = <<c, k, "low">> /\ Programs[c][k].op \in {"receive", "sync", "close"}
             \/ cb[i] = <<c, k, "op">> /\ Programs[c][k].op \in {"create", "shrink"}
      BY Zenon, <1>1 DEF IsProbe
    <2>2. cb[i] # <<>>
      <3>1. <<c, k, "low">> # <<>> /\ <<c, k, "op">> # <<>>
        OBVIOUS
      <3> QED
        BY Zenon, <2>1, <3>1
    <2>3. PICK d \in Client, l \in Nat \ {0} :
             cb[i] = <<d, l, "op">> /\ Programs[d][l].op \in {"sync", "close"}
      BY Zenon, <2>2 DEF SyncInv, CallbacksOK
    <2>4. ~(cb[i] = <<c, k, "low">>)
      BY <2>3
    <2>5. c = d /\ k = l
      BY <2>1, <2>3, <2>4
    <2> QED
      BY Zenon, <2>1, <2>3, <2>4, <2>5
  <1>2. ASSUME NEW c \in Client, pc[c] = "link", CurCall(c).op # "receive"
        PROVE  OpId(c) \notin fired /\ \A i \in Instr : cb[i] # OpId(c)
    <2>1. ASSUME NEW i \in Instr, cb[i] = OpId(c) PROVE FALSE
      <3>1. cb[i] # <<>>
        BY <2>1 DEF OpId
      <3>2. PICK d \in Client, k \in Nat \ {0} : cb[i] = <<d, k, "op">> /\ (k = ip[d] => pc[d] \in Linked)
        BY Zenon, <3>1 DEF SyncInv, CallbacksOK
      <3>3. c = d /\ ip[c] = k
        BY <2>1, <3>2 DEF OpId
      <3> QED
        BY Zenon, <1>2, <3>2, <3>3 DEF Linked
    <2>2. ASSUME IsProbe(OpId(c)) PROVE FALSE
      <3>1. PICK d \in Client, k \in Nat \ {0} :
               \/ OpId(c) = <<d, k, "low">>
               \/ OpId(c) = <<d, k, "op">> /\ Programs[d][k].op \in {"create", "shrink"}
        BY Zenon, <2>2 DEF IsProbe
      <3>2. ~(OpId(c) = <<d, k, "low">>)
        BY Zenon DEF OpId
      <3>3. c = d /\ ip[c] = k
        BY Zenon, <3>1, <3>2 DEF OpId
      <3>4. CurCall(c).op \in {"receive", "sync", "close"}
        BY Zenon, <1>2 DEF SyncInv, OpsOK
      <3> QED
        BY Zenon, <3>1, <3>2, <3>3, <3>4 DEF CurCall
    <2> QED
      BY Zenon, <2>1, <2>2 DEF SyncInv, FiredOK
  <1> QED
    BY Zenon, <1>1, <1>2

\* Every step preserves OpsOK.
LEMMA OpsStep ==
  ASSUME IInv, SyncInv, Next
  PROVE  OpsOK'
  <1> TypeOK
    BY Zenon DEF IInv
  <1>t. /\ pc \in [Client -> {"idle", "probeNotify", "probeWait", "link", "size", "notify",
                             "syncWait", "join", "aborted"}]
        /\ ip \in [Client -> Nat \ {0}]
    BY Zenon DEF TypeOK
  <1> USE DEF CurCall, SyncInv
  <1>1. ASSUME NEW c \in Client, ClientStep(c) \/ Timeout(c) PROVE OpsOK'
    <2>1. /\ \A d \in Client \ {c} : pc'[d] = pc[d] /\ ip'[d] = ip[d]
          /\ pc'[c] = "idle" \/ ip'[c] = ip[c]
      BY Zenon, <1>1, ClientMoves
    <2>2. LowId(c) \in fired => CurCall(c).op \in {"receive", "sync", "close"}
      <3> SUFFICES ASSUME LowId(c) \in fired
                   PROVE  CurCall(c).op \in {"receive", "sync", "close"}
        OBVIOUS
      <3>1. LowId(c)[1] = c /\ LowId(c)[2] = ip[c] /\ LowId(c)[3] = "low"
        BY Zenon, <1>t DEF LowId
      <3>2. ASSUME NEW i \in Instr, cb[i] = LowId(c), LowId(c) # <<>> PROVE FALSE
        BY <1>t, <3>1, <3>2 DEF SyncInv, CallbacksOK
      <3>3. IsProbe(LowId(c))
        BY SMTT(30), <1>t, <3>2 DEF SyncInv, FiredOK
      <3> QED
        BY <1>t, <3>1, <3>3 DEF IsProbe
    <2>3. pc'[c] \in {"link", "size", "notify", "syncWait"} =>
             CurCall(c).op \in {"receive", "sync", "close"}
      <3> USE DEF Goto, EndCall, StartWait, SyncInv, OpsOK
      <3>1. CASE ReceiveBegin(c) \/ InsertProbe(c) \/ NotifyProbe(c)
        BY Zenon, <1>t, <3>1 DEF ReceiveBegin, InsertProbe, NotifyProbe
      <3>2. CASE ProbeReturn(c)
        BY SMTT(30), <1>t, <3>2, <2>2 DEF ProbeReturn
      <3>3. CASE Link(c) \/ SetSize(c) \/ NotifyPending(c)
        BY SMTT(30), <1>t, <3>3 DEF Link, SetSize, NotifyPending, AfterReceive
      <3>4. CASE SyncReturn(c) \/ JoinReturn(c) \/ RunInCurrentThread(c) \/ Timeout(c)
        BY Zenon, <1>t, <3>4 DEF SyncReturn, JoinReturn, RunInCurrentThread, Timeout
      <3> QED
        BY Zenon, <1>1, <3>1, <3>2, <3>3, <3>4 DEF ClientStep
    <2> QED
      BY Zenon, <1>t, <2>1, <2>3 DEF SyncInv, OpsOK
  <1>2. CASE SchedStep
    BY Zenon, <1>2, SchedFrame DEF clientVars, SyncInv, OpsOK
  <1>3. ASSUME NEW w \in Worker, WorkerStep(w) PROVE OpsOK'
    BY Zenon, <1>3, WorkerFrame DEF clientVars, SyncInv, OpsOK
  <1> QED
    BY Zenon, <1>1, <1>2, <1>3 DEF Next

\* Calls only move forward.
LEMMA LinkedKept ==
  ASSUME IInv, Next
  PROVE  /\ recvd' \in Nat /\ recvd' >= recvd
         /\ \A c \in Client : ip'[c] >= ip[c] /\ (ip'[c] = ip[c] /\ pc[c] \in Linked => pc'[c] \in Linked)
  <1> TypeOK /\ CallsOK
    BY Zenon DEF IInv
  <1>t. /\ pc \in [Client -> {"idle", "probeNotify", "probeWait", "link", "size", "notify",
                             "syncWait", "join", "aborted"}]
        /\ ip \in [Client -> Nat \ {0}] /\ recvd \in Nat
    BY Zenon DEF TypeOK
  <1>1. ASSUME NEW c \in Client, ClientStep(c) \/ Timeout(c)
        PROVE  /\ \A d \in Client : ip'[d] >= ip[d] /\ (ip'[d] = ip[d] /\ pc[d] \in Linked => pc'[d] \in Linked)
               /\ recvd' \in Nat /\ recvd' >= recvd
    <2>1. \A d \in Client \ {c} : pc'[d] = pc[d] /\ ip'[d] = ip[d]
      BY Zenon, <1>1, ClientMoves
    <2>2. ip'[c] >= ip[c]
      BY <1>t, <1>1, ClientMoves
    <2>3. ip'[c] = ip[c] /\ pc[c] \in Linked => pc'[c] \in Linked
      <3> USE DEF Goto, EndCall, StartWait, Linked
      <3>1. CASE ReceiveBegin(c) \/ InsertProbe(c) \/ NotifyProbe(c) \/ ProbeReturn(c)
        BY SMTT(30), <1>t, <3>1 DEF ReceiveBegin, InsertProbe, NotifyProbe, ProbeReturn, HasCall
      <3>2. CASE Link(c) \/ SetSize(c) \/ NotifyPending(c)
        BY SMTT(30), <1>t, <3>2 DEF Link, SetSize, NotifyPending, AfterReceive
      <3>3. CASE SyncReturn(c) \/ JoinReturn(c) \/ RunInCurrentThread(c) \/ Timeout(c)
        BY <1>t, <3>3 DEF SyncReturn, JoinReturn, RunInCurrentThread, HasCall, Timeout
      <3> QED
        BY Zenon, <1>1, <3>1, <3>2, <3>3 DEF ClientStep
    <2>4. recvd' \in Nat /\ recvd' >= recvd
      <3>1. HasCall(c) \/ pc[c] = "link" => InstrList(c) \in Seq(Kind)
        BY SMTT(30), <1>t, ListFacts DEF CallsOK, HasCall
      <3>2. \/ recvd' = recvd
            \/ (HasCall(c) \/ pc[c] = "link") /\ recvd' = recvd + Len(InstrList(c))
        BY ZenonT(30), <1>1 DEF ClientStep, ReceiveBegin, InsertProbe, NotifyProbe, ProbeReturn, Link, SetSize,
             NotifyPending, SyncReturn, JoinReturn, RunInCurrentThread, Timeout, listVars
      <3> QED
        BY <1>t, <3>1, <3>2
    <2> QED
      BY SMTT(30), <1>t, <2>1, <2>2, <2>3, <2>4
  <1>2. CASE SchedStep
    <2>1. UNCHANGED <<pc, ip, recvd>>
      BY Zenon, <1>2, SchedFrame DEF clientVars
    <2> QED
      BY <1>t, <2>1
  <1>3. ASSUME NEW w \in Worker, WorkerStep(w) PROVE UNCHANGED <<pc, ip, recvd>>
    BY Zenon, <1>3, WorkerFrame DEF clientVars, listVars
  <1> QED
    BY <1>t, <1>1, <1>2, <1>3 DEF Next

\* Every step preserves CallbacksOK.
LEMMA CallbacksStep ==
  ASSUME IInv, SyncInv, Next
  PROVE  CallbacksOK'
  <1> TypeOK /\ CallsOK
    BY Zenon DEF IInv
  <1>t. /\ pc \in [Client -> {"idle", "probeNotify", "probeWait", "link", "size", "notify",
                             "syncWait", "join", "aborted"}]
        /\ ip \in [Client -> Nat \ {0}] /\ recvd \in Nat
    BY Zenon DEF TypeOK
  <1> USE DEF SyncInv
  <1>1. ASSUME NEW i \in Instr, cb[i] # <<>>, cb'[i] = cb[i]
        PROVE  /\ i <= recvd'
               /\ \E c \in Client, k \in Nat \ {0} :
                     /\ cb'[i] = <<c, k, "op">> /\ Programs[c][k].op \in {"sync", "close"}
                     /\ k <= ip'[c] /\ (k = ip'[c] => pc'[c] \in Linked)
    <2>1. PICK c \in Client, k \in Nat \ {0} :
             /\ cb[i] = <<c, k, "op">> /\ Programs[c][k].op \in {"sync", "close"}
             /\ k <= ip[c] /\ (k = ip[c] => pc[c] \in Linked)
      BY SMTT(30), <1>t, <1>1 DEF CallbacksOK
    <2>2. ip'[c] \in Nat /\ ip[c] \in Nat
      <3>1. TypeOK'
        BY Zenon, ClientTypes, SchedTypes, WorkerTypes DEF Next
      <3>2. ip' \in [Client -> Nat \ {0}]
        BY Zenon, <3>1 DEF TypeOK
      <3> QED
        BY Zenon, <1>t, <3>2
    <2>3. k <= ip'[c] /\ (k = ip'[c] => pc'[c] \in Linked)
      <3>1. ip'[c] >= ip[c] /\ (ip'[c] = ip[c] /\ pc[c] \in Linked => pc'[c] \in Linked)
        BY SMTT(30), <1>t, LinkedKept
      <3> HIDE DEF SyncInv
      <3> QED
        BY SMTT(30), <1>t, <2>1, <2>2, <3>1
    <2>4. i <= recvd'
      BY SMTT(30), <1>t, <1>1, LinkedKept, MarksAssumption DEF CallbacksOK, Instr
    <2> QED
      BY SMTT(30), <1>t, <1>1, <2>1, <2>3, <2>4
  <1>2. CASE UNCHANGED cb
    BY Zenon, <1>1, <1>2 DEF CallbacksOK
  <1>3. ASSUME NEW c \in Client, Link(c), CurCall(c).op # "receive" PROVE CallbacksOK'
    <2> DEFINE n == recvd + Len(InstrList(c))
    <2>1. InstrList(c) \in Seq(Kind) /\ ip[c] \in 1 .. Len(Programs[c])
      BY Zenon, <1>t, <1>3, ListFacts DEF Link, CallsOK
    <2>2. InstrList(c) \in {<<Barrier>>, <<Barrier, Barrier>>}
      BY SMTT(30), <1>t, <1>3, <2>1, CallFacts DEF InstrList, CurCall
    <2>3. n > recvd /\ n = recvd'
      <3>1. Len(InstrList(c)) \in {1, 2}
        BY <2>2
      <3>2. recvd' = n
        BY Zenon, <1>3 DEF Link
      <3>3. recvd \in Nat
        BY Zenon, <1>t
      <3> HIDE DEF SyncInv
      <3> QED
        BY <3>1, <3>2, <3>3
    <2>4. /\ \A i \in Instr : i # n => cb'[i] = cb[i]
          /\ n \in Instr => cb'[n] \in {OpId(c), cb[n]}
      BY SMTT(30), <1>t, <1>3 DEF Link
    <2>5. /\ OpId(c) = <<c, ip[c], "op">> /\ Programs[c][ip[c]].op \in {"sync", "close"}
          /\ ip'[c] = ip[c] /\ pc'[c] \in Linked
      <3>1. pc[c] = "link" /\ pc' = [pc EXCEPT ![c] = "size"] /\ ip' = ip
        BY Zenon, <1>3 DEF Link, Goto
      <3>2. CurCall(c).op \in {"receive", "sync", "close"}
        BY Zenon, <3>1 DEF OpsOK
      <3> QED
        BY Zenon, <1>t, <1>3, <3>1, <3>2 DEF Linked, OpId, CurCall
    <2>6. \A i \in Instr : cb[i] # OpId(c)
      BY Zenon, <1>3, CallbackFacts DEF Link
    <2>7. ASSUME NEW i \in Instr, cb'[i] # <<>>
          PROVE  /\ i <= recvd'
                 /\ \E d \in Client, k \in Nat \ {0} :
                       /\ cb'[i] = <<d, k, "op">> /\ Programs[d][k].op \in {"sync", "close"}
                       /\ k <= ip'[d] /\ (k = ip'[d] => pc'[d] \in Linked)
      <3>1. CASE cb'[i] = cb[i]
        BY Zenon, <1>1, <2>7, <3>1
      <3>2. CASE i = n /\ cb'[i] = OpId(c)
        <4>1. cb'[i] = <<c, ip[c], "op">> /\ ip[c] <= ip'[c]
          BY SMTT(30), <1>t, <2>5, <3>2
        <4> QED
          BY SMTT(30), <1>t, <2>3, <2>5, <3>2, <4>1
      <3> QED
        BY Zenon, <1>t, <2>4, <3>1, <3>2
    <2>8. \A i, j \in Instr : cb'[i] = cb'[j] /\ cb'[i] # <<>> => i = j
      <3> SUFFICES ASSUME NEW i \in Instr, NEW j \in Instr, cb'[i] = cb'[j], cb'[i] # <<>>, i # j
                   PROVE  FALSE
        OBVIOUS
      <3>1. CASE cb'[i] = cb[i] /\ cb'[j] = cb[j]
        BY Zenon, <3>1 DEF CallbacksOK
      <3>2. CASE i = n /\ cb'[i] = OpId(c)
        BY SMTT(30), <1>t, <2>4, <2>6, <3>2
      <3>3. CASE j = n /\ cb'[j] = OpId(c)
        BY Zenon, <2>4, <2>6, <3>3
      <3> QED
        BY SMTT(30), <1>t, <2>4, <3>1, <3>2, <3>3
    <2> QED
      BY Zenon, <2>7, <2>8 DEF CallbacksOK
  <1>4. UNCHANGED cb \/ \E c \in Client : Link(c) /\ CurCall(c).op # "receive"
    <2>1. ASSUME NEW c \in Client, ClientStep(c) \/ Timeout(c)
          PROVE  UNCHANGED cb \/ (Link(c) /\ CurCall(c).op # "receive")
      BY ZenonT(30), <2>1 DEF ClientStep, ReceiveBegin, InsertProbe, NotifyProbe, ProbeReturn, Link, SetSize,
           NotifyPending, SyncReturn, JoinReturn, RunInCurrentThread, Timeout, listVars
    <2>2. ASSUME NEW w \in Worker, WorkerStep(w) PROVE UNCHANGED cb
      BY Zenon, <2>2, WorkerFrame DEF listVars
    <2> QED
      BY Zenon, <2>1, <2>2, SchedFrame DEF Next
  <1> QED
    BY SMTT(30), <1>t, <1>2, <1>3, <1>4

\* Every step preserves FiredOK.
LEMMA FiredStep ==
  ASSUME IInv, SyncInv, Next
  PROVE  FiredOK'
  <1> TypeOK /\ CallsOK
    BY Zenon DEF IInv
  <1>t. /\ ip \in [Client -> Nat \ {0}] /\ recvd \in Nat
    BY Zenon DEF TypeOK
  <1> USE DEF SyncInv
  <1>1. ASSUME NEW i \in Instr, cb[i] # <<>> PROVE cb'[i] = cb[i]
    <2>1. i <= recvd
      BY Zenon, <1>t, <1>1 DEF CallbacksOK
    <2>2. ASSUME NEW c \in Client, ClientStep(c) \/ Timeout(c) PROVE cb'[i] = cb[i]
      <3>1. CASE Link(c)
        <4>1. InstrList(c) \in Seq(Kind) /\ ip[c] \in 1 .. Len(Programs[c])
          BY Zenon, <1>t, <3>1, ListFacts DEF Link, CallsOK
        <4>2. CurCall(c).op # "receive" => Len(InstrList(c)) \in {1, 2}
          BY Zenon, <1>t, <4>1, CallFacts DEF InstrList, CurCall
        <4>3. CurCall(c).op # "receive" => recvd + Len(InstrList(c)) # i
          <5>1. recvd \in Nat /\ i \in Nat
            BY <1>t, MarksAssumption DEF Instr
          <5>2. \A r, k \in Nat : k <= r => r + 1 # k /\ r + 2 # k
            OBVIOUS
          <5> QED
            BY Zenon, <2>1, <4>2, <5>1, <5>2
        <4> QED
          BY SMTT(30), <1>t, <3>1, <4>3 DEF Link
      <3>2. CASE ~Link(c)
        BY ZenonT(30), <2>2, <3>2 DEF ClientStep, ReceiveBegin, InsertProbe, NotifyProbe, ProbeReturn, SetSize,
             NotifyPending, SyncReturn, JoinReturn, RunInCurrentThread, Timeout, listVars
      <3> QED
        BY Zenon, <3>1, <3>2
    <2>3. ASSUME NEW w \in Worker, WorkerStep(w) PROVE UNCHANGED cb
      BY Zenon, <2>3, WorkerFrame DEF listVars
    <2> QED
      BY Zenon, <2>2, <2>3, SchedFrame DEF Next
  <1>2. \A p \in fired : IsProbe(p) \/ (p # <<>> /\ \E i \in Instr : cb'[i] = p)
    BY ZenonT(30), <1>1 DEF FiredOK
  <1>3. ASSUME NEW c \in Client, ClientStep(c) \/ Timeout(c) PROVE FiredOK'
    <2>1. UNCHANGED <<localProbes, fired>>
      BY Zenon, <1>3, ClientFrame
    <2>2. \A p \in probes' : p \in probes \/ IsProbe(p)
      <3>1. CASE ReceiveBegin(c)
        <4>1. CurCall(c).op \in {"receive", "sync", "close"} /\ \A p \in probes' : p \in probes \/ p = LowId(c)
          BY Zenon, <3>1 DEF ReceiveBegin
        <4> QED
          BY Zenon, <1>t, <4>1 DEF LowId, CurCall, IsProbe
      <3>2. CASE InsertProbe(c)
        <4>1. CurCall(c).op \in {"create", "shrink"} /\ \A p \in probes' : p \in probes \/ p = OpId(c)
          BY Zenon, <3>2 DEF InsertProbe
        <4> QED
          BY Zenon, <1>t, <4>1 DEF OpId, CurCall, IsProbe
      <3> QED
        BY ZenonT(30), <1>3, <3>1, <3>2 DEF ClientStep, NotifyProbe, ProbeReturn, Link, SetSize,
             NotifyPending, SyncReturn, JoinReturn, RunInCurrentThread, Timeout, probeVars
    <2> QED
      BY Zenon, <1>t, <1>2, <2>1, <2>2 DEF FiredOK
  <1>4. CASE HandleProbes
    <2>1. /\ UNCHANGED cb
          /\ \A p \in probes' \cup localProbes' : p \in probes \cup localProbes
          /\ \A p \in fired' : p \in fired \/ p \in probes \cup localProbes
      BY Zenon, <1>4 DEF HandleProbes, listVars
    <2> QED
      BY Zenon, <2>1 DEF FiredOK
  <1>5. CASE RunBarrier
    <2>1. UNCHANGED <<probes, localProbes, cb>>
      BY SMTT(30), <1>t, <1>5 DEF RunBarrier, listVars
    <2>2. \A p \in fired' : p \in fired \/ (p # <<>> /\ \E i \in Instr : cb[i] = p)
      BY Zenon, <1>t, <1>5 DEF RunBarrier, RunnableBarriers, Lively
    <2> QED
      BY SMTT(30), <1>t, <2>1, <2>2 DEF FiredOK
  <1>6. CASE SchedStep /\ ~HandleProbes /\ ~RunBarrier
    <2>1. UNCHANGED <<probes, localProbes, fired>>
      BY ZenonT(30), <1>6 DEF SchedStep, SchedWait, ReleaseFinished, HandlePending, DispatchInstruction,
           NotifyWorker, DispatchEnd, CheckEmpty, CheckProbes, KeepWorking, GoToSleep, DrainCheck,
           CloseWorkerThreads, JoinWorkers, probeVars
    <2> QED
      BY SMTT(30), <1>t, <1>2, <2>1 DEF FiredOK
  <1>7. ASSUME NEW w \in Worker, WorkerStep(w) PROVE FiredOK'
    BY Zenon, <1>2, <1>7, WorkerFrame DEF FiredOK, probeVars
  <1> QED
    BY Zenon, <1>3, <1>4, <1>5, <1>6, <1>7 DEF Next

\* Every step preserves SyncAfterAll.
LEMMA SyncStep ==
  ASSUME IInv, SyncInv, Next
  PROVE  SyncAfterAll'
  <1> TypeOK /\ ListOK
    BY Zenon DEF IInv
  <1>t. /\ handled \in Nat /\ st \in [Instr -> Station]
    BY DEF TypeOK
  <1> USE DEF SyncInv
  <1>1. ASSUME NEW j \in Instr, st[j] = "erased" PROVE st'[j] = "erased"
    <2>1. ASSUME NEW c \in Client, ClientStep(c) \/ Timeout(c) PROVE st'[j] = "erased"
      BY ZenonT(30), <1>1, <2>1 DEF ClientStep, ReceiveBegin, InsertProbe, NotifyProbe, ProbeReturn, Link, SetSize,
           NotifyPending, SyncReturn, JoinReturn, RunInCurrentThread, Timeout
    <2>2. CASE HandlePending
      BY SMTT(30), <1>t, <1>1, <2>2, MarksAssumption DEF HandlePending, ListOK, Instr
    <2>3. CASE SchedStep /\ ~HandlePending
      <3>1. CASE ReleaseFinished \/ RunBarrier
        BY Zenon, <1>1, <3>1 DEF ReleaseFinished, RunBarrier
      <3>2. CASE \E i \in Instr : DispatchInstruction(i)
        BY Zenon, <1>t, <1>1, <3>2 DEF DispatchInstruction, FirstReady
      <3> QED
        BY ZenonT(30), <1>1, <2>3, <3>1, <3>2 DEF SchedStep, SchedWait, NotifyWorker, DispatchEnd, HandleProbes,
             CheckEmpty, CheckProbes, KeepWorking, GoToSleep, DrainCheck, CloseWorkerThreads, JoinWorkers
    <2>4. ASSUME NEW w \in Worker, WorkerStep(w) PROVE st'[j] = "erased"
      <3> HIDE DEF SyncInv
      <3> QED
        BY Zenon, <1>t, <1>1, <2>4 DEF WorkerStep, WorkerWait, WorkerReceive, WorkerRun, WorkerYield, WorkerSleep,
           OnWorker
    <2> QED
      BY Zenon, <2>1, <2>2, <2>3, <2>4 DEF Next
  <1>2. ASSUME NEW i \in Instr, cb'[i] \in fired' PROVE \A j \in Instr : j < i => st'[j] = "erased"
    <2>1. CASE cb'[i] = cb[i] /\ cb[i] \in fired
      BY SMTT(30), <1>t, <1>1, <2>1 DEF SyncAfterAll
    <2>2. CASE cb'[i] # cb[i]
      <3>1. PICK c \in Client : Link(c)
        <4>1. ASSUME NEW c \in Client, ClientStep(c) \/ Timeout(c), ~Link(c) PROVE UNCHANGED cb
          BY ZenonT(30), <4>1 DEF ClientStep, ReceiveBegin, InsertProbe, NotifyProbe, ProbeReturn, SetSize,
               NotifyPending, SyncReturn, JoinReturn, RunInCurrentThread, Timeout, listVars
        <4>2. ASSUME NEW w \in Worker, WorkerStep(w) PROVE UNCHANGED cb
          BY Zenon, <4>2, WorkerFrame DEF listVars
        <4> QED
          BY Zenon, <2>2, <4>1, <4>2, SchedFrame DEF Next
      <3>2. cb'[i] = OpId(c) /\ CurCall(c).op # "receive" /\ pc[c] = "link" /\ fired' = fired
        <4>1. /\ cb' = IF CurCall(c).op = "receive" THEN cb ELSE [cb EXCEPT ![recvd + Len(InstrList(c))] = OpId(c)]
              /\ pc[c] = "link" /\ fired' = fired
          BY Zenon, <3>1 DEF Link, probeVars
        <4> QED
          BY <2>2, <4>1
      <3> QED
        BY Zenon, <1>2, <3>2, CallbackFacts
    <2>3. CASE cb'[i] = cb[i] /\ cb[i] \notin fired /\ HandleProbes
      <3>1. \A p \in fired' \ fired : IsProbe(p)
        BY Zenon, <1>t, <2>3 DEF HandleProbes, FiredOK
      <3> QED
        BY Zenon, <1>2, <2>3, <3>1, CallbackFacts
    <2>4. CASE cb'[i] = cb[i] /\ cb[i] \notin fired /\ RunBarrier
      <3>1. PICK b \in RunnableBarriers : cb[b] # <<>> /\ cb[b] = cb[i]
        <4>1. fired' = fired \cup {cb[k] : k \in {j \in RunnableBarriers : cb[j] # <<>>}}
          BY Zenon, <2>4 DEF RunBarrier
        <4>2. cb[i] \in fired' /\ cb[i] \notin fired
          BY Zenon, <1>2, <2>4
        <4>3. cb[i] \in {cb[k] : k \in {j \in RunnableBarriers : cb[j] # <<>>}}
          BY Zenon, <4>1, <4>2
        <4> QED
          BY Zenon, <4>3
      <3>2. b = i
        BY Zenon, <1>t, <3>1 DEF CallbacksOK, RunnableBarriers, Lively
      <3>3. ASSUME NEW j \in Instr, j < i PROVE st[j] = "erased"
        <4>1. st[j] \in {"none", "erased"}
          BY SMTT(30), <1>t, <3>1, <3>2, <3>3, MarksAssumption DEF RunnableBarriers, Lively, Instr
        <4>2. ~(i > handled)
          BY Zenon, <1>t, <3>1, <3>2 DEF RunnableBarriers, Lively, ListOK
        <4>3. ~(j > handled)
          BY SMTT(30), <1>t, <3>3, <4>2, MarksAssumption DEF Instr
        <4> QED
          BY SMTT(30), <1>t, <4>1, <4>3 DEF ListOK
      <3> QED
        BY SMTT(30), <1>t, <1>1, <3>3
    <2>5. cb'[i] \in fired \/ HandleProbes \/ RunBarrier
      <3>1. ASSUME NEW c \in Client, ClientStep(c) \/ Timeout(c) PROVE fired' = fired
        BY Zenon, <3>1, ClientFrame
      <3>2. ASSUME NEW w \in Worker, WorkerStep(w) PROVE fired' = fired
        BY Zenon, <3>2, WorkerFrame DEF probeVars
      <3>3. CASE SchedStep /\ ~HandleProbes /\ ~RunBarrier
        BY ZenonT(30), <1>2, <3>3 DEF SchedStep, SchedWait, ReleaseFinished, HandlePending, DispatchInstruction,
             NotifyWorker, DispatchEnd, CheckEmpty, CheckProbes, KeepWorking, GoToSleep, DrainCheck,
             CloseWorkerThreads, JoinWorkers, probeVars
      <3> QED
        BY Zenon, <1>2, <3>1, <3>2, <3>3 DEF Next
    <2> QED
      BY Zenon, <2>1, <2>2, <2>3, <2>4, <2>5
  <1> QED
    BY Zenon, <1>t, <1>2 DEF SyncAfterAll

(***************************************************************************)
(* When the callback of a sync's barrier has run, every instruction that   *)
(* any client handed over before it has been erased (CurrentRankSync,      *)
(* ControlSync), also if other waits have timed out.                       *)
(***************************************************************************)
THEOREM SyncComplete == Spec => []SyncAfterAll
  <1>1. Init => SyncInv
    BY ZenonT(40) DEF Init, SyncInv, OpsOK, CallbacksOK, FiredOK, SyncAfterAll
  <1>2. IInv /\ SyncInv /\ [Next]_vars => SyncInv'
    <2>1. CASE Next
      BY Zenon, <2>1, OpsStep, CallbacksStep, FiredStep, SyncStep DEF SyncInv
    <2>2. CASE UNCHANGED vars
      <3>1. UNCHANGED <<pc, ip, recvd, cb, st, probes, localProbes, fired>>
        BY Zenon, <2>2 DEF vars, clientVars, listVars, probeVars
      <3>2. OpsOK' = OpsOK /\ SyncAfterAll' = SyncAfterAll
        BY Zenon, <3>1 DEF OpsOK, CurCall, SyncAfterAll
      <3>3. CallbacksOK' = CallbacksOK
        BY <3>1 DEF CallbacksOK
      <3>4. FiredOK' = FiredOK
        BY Zenon, <3>1 DEF FiredOK
      <3> QED
        BY Zenon, <3>2, <3>3, <3>4 DEF SyncInv
    <2> QED
      BY Zenon, <2>1, <2>2
  <1>3. SyncInv => SyncAfterAll
    BY Zenon DEF SyncInv
  <1>4. Spec => []SyncInv
    BY <1>1, <1>2, Invariance, PTL DEF Spec
  <1> QED
    BY <1>3, <1>4, PTL

=============================================================================
