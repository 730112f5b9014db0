------------------------------ MODULE VmEngine ------------------------------
(***************************************************************************)
(* The scheduling core of the eager virtual machine                        *)
(* (oneflow/core/vm/virtual_machine_engine.cpp).  A client submits         *)
(* instructions in program order; the scheduler thread repeats             *)
(* VirtualMachineEngine::Schedule, which turns the pending instructions    *)
(* into a dependence graph and dispatches them; worker threads run what    *)
(* is dispatched to them; the device reports completion.                   *)
(*                                                                         *)
(* Instructions are the numbers 1..N of the program prog.  The engine      *)
(* works on nodes: a node is one instruction or a fused run of consecutive *)
(* ones, and it is named by its last member.                               *)
(***************************************************************************)
EXTENDS Integers, FiniteSets

CONSTANTS
    N,            \* number of instructions of the program
    Stream,       \* vm::Stream objects; s is also its schedule_local_dep_object
    Thread,       \* vm::ThreadCtx objects
    Dep,          \* vm::Dependence objects of tensors
    ThreadOf,     \* Stream -> Thread
    SchedThread,  \* threads whose streams run on the scheduler thread
    Window,       \* ONEFLOW_VM_PENDING_HANDLE_WINDOW_SIZE
    Programs      \* the programs a client may submit

Instr == 1 .. N
Obj == Dep \cup Stream

(***************************************************************************)
(* What the engine asks of an instruction policy: its stream, the          *)
(* Prescheduleable override ("wait" is StreamWait, "fastRelease" is        *)
(* FastReleaseTensor), the fuse type, whether it has a                     *)
(* stream_sequential_dependence, its output and its input dependences.     *)
(***************************************************************************)
Kind == {"op", "wait", "fastRelease", "barrier"}
FuseType == {"no", "any", "tail"}
Descriptor == [stream : Stream, kind : Kind, fuse : FuseType, seq : BOOLEAN,
               out : SUBSET Dep, in : SUBSET Dep]

\* Barrier policies have no dependence; only op policies can be fused.
WellFormed(d) == /\ d.kind = "barrier" => d.out = {} /\ d.in = {} /\ ~d.seq
                 /\ d.kind # "op" => d.fuse = "no"

ASSUME NAssumption == N \in Nat /\ Window \in Nat \ {0}
ASSUME ThreadAssumption == ThreadOf \in [Stream -> Thread] /\ SchedThread \subseteq Thread
ASSUME ProgramsAssumption ==
    /\ Programs \subseteq [Instr -> Descriptor]
    /\ \A p \in Programs : \A i \in Instr : WellFormed(p[i])

VARIABLES
    prog,     \* the program, fixed at the start
    recvd,    \* instructions 1..recvd were moved to pending_instruction_list_
    moved,    \* 1..moved were moved to local_pending_instruction_list_
    handled,  \* 1..handled left the local list through HandleLocalPending
    node,     \* node[i]: the node instruction i is part of, 0 before it is handled
    st,       \* st[i]: where instruction i is on its way
    macc,     \* macc[d]: nodes with a mutable access in the access list of d
    cacc,     \* cacc[d]: nodes with a const access in the access list of d
    edges,    \* InstructionEdges, as <<src, dst>>
    tick,     \* tick[n]: position at which n was pushed on the ready list
    clock,    \* number of pushes on the ready list
    phase,    \* where Schedule is
    visit,    \* streams ReleaseFinishedInstructions still has to look at
    budget,   \* rest of the pending window of this pass
    limit,    \* tmp_ready_instruction_list holds the ready nodes up to this tick
    cur,      \* the node whose out edges are being walked
    todo      \* destinations of cur that are still to be walked

vars == <<prog, recvd, moved, handled, node, st, macc, cacc, edges, tick,
          clock, phase, visit, budget, limit, cur, todo>>
clientVars == <<prog, recvd>>
listVars == <<moved, handled, node>>
accVars == <<macc, cacc>>

(***************************************************************************)
(* The stations of an instruction: not handled; on the lively list only;   *)
(* on the ready list; on its stream's running list and its thread's worker *)
(* list; computed; reported done; released; on the barrier list.           *)
(***************************************************************************)
Status == {"idle", "waiting", "ready", "dispatched", "launched", "done", "released", "barrier"}

\* dispatched_instruction_hook_ is one hook for the ready and the running list.
Linked(n) == st[n] \in {"ready", "dispatched", "launched", "done"}
Running(n) == st[n] \in {"dispatched", "launched", "done"}
Computed(i) == st[i] \in {"launched", "done", "released"}
Lively(n) == st[n] \notin {"idle", "released"}

Nodes == {i \in Instr : node[i] = i}
StreamOf(i) == prog[i].stream
ThreadFor(i) == ThreadOf[StreamOf(i)]

\* Dependences written and read by one instruction, in ConsumeDependences' terms.
Writes(i) == prog[i].out \cup (IF prog[i].seq THEN {StreamOf(i)} ELSE {})
Reads(i) == prog[i].in
Accesses(i) == Writes(i) \cup Reads(i)

-----------------------------------------------------------------------------
(***************************************************************************)
(* InstructionPolicy::Prescheduleable and its two overrides.               *)
(***************************************************************************)
Prescheduleable_NoFastRelease(x, y) ==
    IF prog[y].kind = "wait" THEN ThreadFor(x) = ThreadFor(y) ELSE StreamOf(x) = StreamOf(y)

Prescheduleable_WaitAnyThread(x, y) ==
    CASE prog[y].kind = "fastRelease" -> FALSE
      [] prog[y].kind = "wait" -> TRUE
      [] OTHER -> StreamOf(x) = StreamOf(y)

Prescheduleable(x, y) ==
    CASE prog[y].kind = "fastRelease" -> FALSE
      [] prog[y].kind = "wait" -> ThreadFor(x) = ThreadFor(y)
      [] OTHER -> StreamOf(x) = StreamOf(y)

EdgeDispatchable(x, y) == Prescheduleable(x, y) /\ Linked(x)

\* Dispatchable(y) when the in-edges of y are those of E.
DispatchableIn(y, E) ==
    /\ ~Linked(y)
    /\ \A x \in Instr : <<x, y>> \in E => EdgeDispatchable(x, y)

\* All the members of node n go to station v.
Move(n, v) == [i \in Instr |-> IF node[i] = n THEN v ELSE st[i]]

\* mut_ready_instruction_list()->PushBack(y), if ok.
PushReady(y, ok) ==
    IF ok THEN /\ st' = Move(y, "ready")
               /\ tick' = [tick EXCEPT ![y] = clock + 1]
               /\ clock' = clock + 1
          ELSE UNCHANGED <<st, tick, clock>>

-----------------------------------------------------------------------------
Init ==
    /\ prog \in Programs
    /\ recvd = 0 /\ moved = 0 /\ handled = 0
    /\ node = [i \in Instr |-> 0]
    /\ st = [i \in Instr |-> "idle"]
    /\ macc = [d \in Obj |-> {}] /\ cacc = [d \in Obj |-> {}]
    /\ edges = {}
    /\ tick = [i \in Instr |-> 0] /\ clock = 0
    /\ phase = "release" /\ visit = {}
    /\ budget = 0 /\ limit = 0 /\ cur = 0 /\ todo = {}

(***************************************************************************)
(* VirtualMachineEngine::Receive: a client moves a list of instructions to *)
(* pending_instruction_list_ under its mutex.                              *)
(***************************************************************************)
Receive ==
    /\ \E n \in recvd + 1 .. N : recvd' = n
    /\ UNCHANGED <<prog, listVars, st, accVars, edges, tick, clock, phase,
                   visit, budget, limit, cur, todo>>

(***************************************************************************)
(* ReleaseFinishedInstructions: the head of a stream's running list is     *)
(* released when it has no in-edge and its status is done.                 *)
(***************************************************************************)
RunningHead(s, n) ==
    /\ n \in Nodes /\ Running(n) /\ StreamOf(n) = s
    /\ \A m \in Nodes : Running(m) /\ StreamOf(m) = s => tick[n] <= tick[m]

Releasable_DoneOnly(n) == st[n] = "done"
Releasable(n) == st[n] = "done" /\ \A x \in Instr : <<x, n>> \notin edges

ActiveStreams == {s \in Stream : \E n \in Nodes : Running(n) /\ StreamOf(n) = s}

\* ReleaseInstruction drops the accesses of n, then walks its out edges.
ReleaseBegin(n) ==
    /\ phase = "release" /\ StreamOf(n) \in visit
    /\ RunningHead(StreamOf(n), n) /\ Releasable(n)
    /\ macc' = [d \in Obj |-> macc[d] \ {n}]
    /\ cacc' = [d \in Obj |-> cacc[d] \ {n}]
    /\ cur' = n /\ todo' = {y \in Instr : <<n, y>> \in edges}
    /\ phase' = "releasing"
    /\ UNCHANGED <<clientVars, listVars, st, edges, tick, clock, visit, budget, limit>>

\* The out edges are walked in the order they were made: destinations ascend.
NextDst(y) == y \in todo /\ \A z \in todo : y <= z

ReleaseEdge_NoPush(y) ==
    /\ phase = "releasing" /\ NextDst(y)
    /\ edges' = edges \ {<<cur, y>>}
    /\ todo' = todo \ {y}
    /\ UNCHANGED <<clientVars, listVars, accVars, st, tick, clock, phase, visit,
                   budget, limit, cur>>

ReleaseEdge(y) ==
    /\ phase = "releasing" /\ NextDst(y)
    /\ edges' = edges \ {<<cur, y>>}
    /\ PushReady(y, DispatchableIn(y, edges \ {<<cur, y>>}))
    /\ todo' = todo \ {y}
    /\ UNCHANGED <<clientVars, listVars, accVars, phase, visit, budget, limit, cur>>

\* running_instruction_list Erase, LivelyInstructionListErase.
ReleaseEnd ==
    /\ phase = "releasing" /\ todo = {}
    /\ st' = Move(cur, "released")
    /\ phase' = "release" /\ cur' = 0
    /\ UNCHANGED <<clientVars, listVars, accVars, edges, tick, clock, visit,
                   budget, limit, todo>>

\* The head of stream s is not finished (or there is none): the next stream.
LeaveStream(s) ==
    /\ phase = "release" /\ s \in visit
    /\ \A n \in Instr : RunningHead(s, n) => ~Releasable(n)
    /\ visit' = visit \ {s}
    /\ UNCHANGED <<clientVars, listVars, st, accVars, edges, tick, clock, phase,
                   budget, limit, cur, todo>>

(***************************************************************************)
(* TryRunBarrierInstruction: the first barrier runs when it is the first   *)
(* lively instruction; then local_pending takes over the pending list if   *)
(* it is empty.                                                            *)
(***************************************************************************)
FirstLively_BarriersOnly(n) ==
    n \in Nodes /\ Lively(n) /\ \A m \in Nodes : st[m] = "barrier" => n <= m
FirstLively_Alone(n) == n \in Nodes /\ Lively(n) /\ \A m \in Nodes : Lively(m) => n = m
FirstLively(n) == n \in Nodes /\ Lively(n) /\ \A m \in Nodes : Lively(m) => n <= m

TryRunBarrierInstruction ==
    /\ phase = "release" /\ visit = {}
    /\ st' = [i \in Instr |-> IF st[i] = "barrier" /\ FirstLively(i) THEN "released" ELSE st[i]]
    /\ phase' = "pending"
    /\ moved' = IF handled = moved THEN recvd ELSE moved
    /\ budget' = Window
    /\ UNCHANGED <<clientVars, handled, node, accVars, edges, tick, clock,
                   visit, limit, cur, todo>>

(***************************************************************************)
(* FetchAndTryFusePendingInstructions: the next node is the longest run    *)
(* handled+1..n of instructions that fuse, inside the window.              *)
(***************************************************************************)
FusableBetween(type, i, prev) ==
    /\ prog[i].fuse = type /\ prog[i].seq
    /\ StreamOf(i) = StreamOf(prev) /\ prog[prev].seq

FusableRun(n) ==
    \A i \in handled + 1 .. n :
        \/ FusableBetween("any", i, handled + 1)
        \/ i = n /\ FusableBetween("tail", i, handled + 1)

InWindow_Unbounded(n) == n \in handled + 1 .. moved
InWindow(n) == n \in handled + 1 .. moved /\ n - handled <= budget

NextNode(n) ==
    /\ InWindow(n)
    /\ n = handled + 1 \/ FusableRun(n)
    /\ \A m \in Instr : InWindow(m) /\ FusableRun(m) => m <= n

\* FuseInstructionPolicy joins the dependences of its members.
NodeWrites(n) == UNION {Writes(i) : i \in handled + 1 .. n}
NodeReads(n) == UNION {Reads(i) : i \in handled + 1 .. n}

(***************************************************************************)
(* ConsumeDependences.  An access list is appended to in instruction       *)
(* order, the mutable access of a node before its const access, so the two *)
(* sets macc[d] and cacc[d] determine it.  A write connects from every     *)
(* access and takes them off the list; a read, after the writes, connects  *)
(* from the first access if that is mutable.                               *)
(***************************************************************************)
FirstIsMutable(d, x) ==
    x \in macc[d] /\ \A z \in macc[d] \cup cacc[d] : x <= z

Sources(n) ==
    {x \in Instr :
        \/ \E d \in NodeWrites(n) : x \in macc[d] \cup cacc[d]
        \/ \E d \in NodeReads(n) \ NodeWrites(n) : FirstIsMutable(d, x)}

\* TryConnectInstruction adds no edge when EdgeDispatchable already holds.
NewEdges(n) == {<<x, n>> : x \in {z \in Sources(n) : ~EdgeDispatchable(z, n)}}

ConsumeDependences_KeepAccesses(n) ==
    /\ edges' = edges \cup NewEdges(n)
    /\ macc' = [d \in Obj |-> macc[d] \cup (IF d \in NodeWrites(n) THEN {n} ELSE {})]
    /\ cacc' = [d \in Obj |-> cacc[d] \cup (IF d \in NodeReads(n) THEN {n} ELSE {})]

ConsumeDependences(n) ==
    /\ edges' = edges \cup NewEdges(n)
    /\ macc' = [d \in Obj |-> IF d \in NodeWrites(n) THEN {n} ELSE macc[d]]
    /\ cacc' = [d \in Obj |->
                  (IF d \in NodeWrites(n) THEN {} ELSE cacc[d])
                  \cup (IF d \in NodeReads(n) THEN {n} ELSE {})]

Enter(n, v) == [i \in Instr |-> IF i \in handled + 1 .. n THEN v ELSE st[i]]

\* One iteration of HandleLocalPending.
HandleLocalPending(n) ==
    /\ phase = "pending" /\ NextNode(n)
    /\ handled' = n /\ budget' = budget - (n - handled)
    /\ node' = [i \in Instr |-> IF i \in handled + 1 .. n THEN n ELSE node[i]]
    /\ IF prog[n].kind = "barrier"
         THEN /\ st' = Enter(n, "barrier")
              /\ UNCHANGED <<accVars, edges, tick, clock>>
         ELSE /\ ConsumeDependences(n)
              /\ IF NewEdges(n) = {}
                   THEN /\ st' = Enter(n, "ready")
                        /\ tick' = [tick EXCEPT ![n] = clock + 1]
                        /\ clock' = clock + 1
                   ELSE /\ st' = Enter(n, "waiting")
                        /\ UNCHANGED <<tick, clock>>
    /\ UNCHANGED <<clientVars, moved, phase, visit, limit, cur, todo>>

\* The window is used up or the local list is empty: the ready list becomes
\* tmp_ready_instruction_list.
PendingEnd ==
    /\ phase = "pending"
    /\ budget = 0 \/ handled = moved
    /\ phase' = "dispatch" /\ limit' = clock /\ budget' = 0
    /\ UNCHANGED <<clientVars, listVars, st, accVars, edges, tick, clock,
                   visit, cur, todo>>

(***************************************************************************)
(* DispatchAndPrescheduleInstructions: dispatch the first node of          *)
(* tmp_ready_instruction_list, then walk its out edges for nodes that can  *)
(* be prescheduled.  A stream on the scheduler thread runs the node at     *)
(* once; any other hands it to the worker list of its thread.              *)
(***************************************************************************)
DispatchInstruction(n) ==
    /\ phase = "dispatch" /\ n \in Nodes /\ st[n] = "ready" /\ tick[n] <= limit
    /\ \A m \in Nodes : st[m] = "ready" => tick[n] <= tick[m]
    /\ st' = Move(n, IF ThreadFor(n) \in SchedThread THEN "launched" ELSE "dispatched")
    /\ cur' = n /\ todo' = {y \in Instr : <<n, y>> \in edges}
    /\ phase' = "prescheduling"
    /\ UNCHANGED <<clientVars, listVars, accVars, edges, tick, clock, visit, budget, limit>>

PrescheduleEdge_NoPush(y) ==
    /\ phase = "prescheduling" /\ NextDst(y)
    /\ todo' = todo \ {y}
    /\ UNCHANGED <<clientVars, listVars, accVars, st, tick, clock, edges, phase,
                   visit, budget, limit, cur>>

PrescheduleEdge(y) ==
    /\ phase = "prescheduling" /\ NextDst(y)
    /\ PushReady(y, DispatchableIn(y, edges))
    /\ todo' = todo \ {y}
    /\ UNCHANGED <<clientVars, listVars, accVars, edges, phase, visit, budget, limit, cur>>

PrescheduleEnd ==
    /\ phase = "prescheduling" /\ todo = {}
    /\ phase' = "dispatch" /\ cur' = 0
    /\ UNCHANGED <<clientVars, listVars, st, accVars, edges, tick, clock, visit,
                   budget, limit, todo>>

\* tmp_ready_instruction_list is empty: Schedule returns and is called again.
DispatchEnd ==
    /\ phase = "dispatch"
    /\ \A n \in Nodes : st[n] = "ready" => tick[n] > limit
    /\ phase' = "release" /\ visit' = ActiveStreams /\ limit' = 0
    /\ UNCHANGED <<clientVars, listVars, st, accVars, edges, tick, clock,
                   budget, cur, todo>>

-----------------------------------------------------------------------------
(***************************************************************************)
(* ThreadCtx::TryReceiveAndRun: worker t runs the next node of its list.   *)
(***************************************************************************)
WorkerHead(t, n) ==
    /\ n \in Nodes /\ st[n] = "dispatched" /\ ThreadFor(n) = t
    /\ \A m \in Nodes : st[m] = "dispatched" /\ ThreadFor(m) = t => tick[n] <= tick[m]

TryReceiveAndRun(t) ==
    \E n \in Instr :
      /\ WorkerHead(t, n)
      /\ st' = Move(n, "launched")
      /\ UNCHANGED <<clientVars, listVars, accVars, edges, tick, clock, phase,
                     visit, budget, limit, cur, todo>>

(***************************************************************************)
(* The device reports the completion of a launched node (StreamPolicy::    *)
(* QueryInstructionStatusDone turns true), in any order between streams.   *)
(***************************************************************************)
Done(n) ==
    /\ n \in Nodes /\ st[n] = "launched"
    /\ st' = Move(n, "done")
    /\ UNCHANGED <<clientVars, listVars, accVars, edges, tick, clock, phase,
                   visit, budget, limit, cur, todo>>

Schedule ==
    \/ \E n \in Instr : ReleaseBegin(n)
    \/ \E y \in Instr : ReleaseEdge(y)
    \/ ReleaseEnd
    \/ \E s \in Stream : LeaveStream(s)
    \/ TryRunBarrierInstruction
    \/ \E n \in Instr : HandleLocalPending(n)
    \/ PendingEnd
    \/ \E n \in Instr : DispatchInstruction(n)
    \/ \E y \in Instr : PrescheduleEdge(y)
    \/ PrescheduleEnd
    \/ DispatchEnd

Next ==
    \/ Receive
    \/ Schedule
    \/ \E t \in Thread : TryReceiveAndRun(t)
    \/ \E n \in Instr : Done(n)

Spec == Init /\ [][Next]_vars

\* The scheduler busy-loops, workers drain their lists, devices finish.
Fairness ==
    /\ WF_vars(Schedule)
    /\ \A t \in Thread : WF_vars(TryReceiveAndRun(t))
    /\ \A n \in Instr : WF_vars(Done(n))

FairSpec == Spec /\ Fairness

-----------------------------------------------------------------------------
TypeOK ==
    /\ prog \in [Instr -> Descriptor]
    /\ recvd \in 0 .. N /\ moved \in 0 .. recvd /\ handled \in 0 .. moved
    /\ node \in [Instr -> 0 .. N]
    /\ st \in [Instr -> Status]
    /\ macc \in [Obj -> SUBSET Instr] /\ cacc \in [Obj -> SUBSET Instr]
    /\ edges \in SUBSET (Instr \X Instr)
    /\ tick \in [Instr -> Nat] /\ clock \in Nat
    /\ phase \in {"release", "releasing", "pending", "dispatch", "prescheduling"}
    /\ visit \in SUBSET Stream
    /\ budget \in Nat /\ limit \in Nat
    /\ cur \in 0 .. N /\ todo \in SUBSET Instr

\* Two instructions conflict when one writes a dependence the other accesses.
Conflict(i, j) ==
    \/ Writes(i) \cap Accesses(j) # {}
    \/ Accesses(i) \cap Writes(j) # {}

(***************************************************************************)
(* Conflicting instructions are computed in program order, although        *)
(* ConnectInstructionsByWrite forgets the accesses it connects from and    *)
(* TryConnectInstruction leaves out the edge from a node that is already   *)
(* dispatched to the same stream (or, for StreamWait, the same thread).    *)
(***************************************************************************)
ComputeInProgramOrder ==
    \A i, j \in Instr : i < j /\ Conflict(i, j) /\ Computed(j) => Computed(i)

(***************************************************************************)
(* FastReleaseTensor frees the tensor's memory in Prepare, that is when it *)
(* is dispatched: every earlier instruction that accesses the tensor has   *)
(* been computed by then, also one it has no edge from.                    *)
(***************************************************************************)
FastReleaseAfterAccesses ==
    \A i, j \in Instr :
        /\ i < j /\ Conflict(i, j)
        /\ prog[j].kind = "fastRelease" /\ (Running(j) \/ Computed(j))
        => Computed(i)

(***************************************************************************)
(* "Barrier instructions are run after all previous lively instructions"   *)
(* (virtual_machine_engine.cpp): a barrier that ran finds every earlier    *)
(* instruction released, fused or not, whatever later ones have done.      *)
(***************************************************************************)
BarrierAfterAll ==
    \A i, j \in Instr :
        i < j /\ prog[j].kind = "barrier" /\ st[j] = "released" => st[i] = "released"

(***************************************************************************)
(* A waiting node that has become dispatchable is never forgotten: one of  *)
(* its in-edges comes from a node whose out edges are still to be walked,  *)
(* by DispatchAndPrescheduleInstructions or by the walk under way.         *)
(***************************************************************************)
NoMissedDispatch ==
    \A y \in Nodes :
        st[y] = "waiting" /\ DispatchableIn(y, edges) =>
            \E x \in Instr :
                /\ <<x, y>> \in edges
                /\ st[x] = "ready" \/ (x = cur /\ y \in todo)

(***************************************************************************)
(* DeleteStatusAndCheckEdges aborts the process on an edge of a released   *)
(* instruction ("unerased edge"): edges only join lively nodes.            *)
(***************************************************************************)
NoUnerasedEdge ==
    \A x, y \in Instr : <<x, y>> \in edges => Lively(x) /\ Lively(y)

(***************************************************************************)
(* ConnectInstructionsByRead only looks at the first access of a list.     *)
(* That is enough because a mutable access is never behind another access. *)
(***************************************************************************)
MutableAccessFirst ==
    \A d \in Obj : \A w \in macc[d] : \A z \in macc[d] \cup cacc[d] : w <= z

(***************************************************************************)
(* Whatever a client has submitted is eventually released: the comment in  *)
(* Schedule says "All instructions will get handled eventually".           *)
(***************************************************************************)
EventuallyReleased == \A i \in Instr : recvd >= i ~> st[i] = "released"

=============================================================================
