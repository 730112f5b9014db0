# Verification of the OneFlow runtime

TLA+ models of the concurrent core of OneFlow, the TLC configurations that check
them on small instances, and TLAPS proofs that hold for every value of the
constants. Paths below are relative to `src/oneflow/core/` unless they start with
`src/`.

OneFlow executes tensor programs in two ways. In *eager* mode each operation
becomes an instruction of a virtual machine (`vm/`), which finds the dependences
between instructions and runs them on worker threads and devices. In *lazy* mode a
whole graph is compiled to a plan of *actors* (`lazy/actor/`), which pass registers
to each other by messages. Both runtimes have to keep results independent of the
order in which threads and devices happen to run; this is what the models are
about. What an operation computes is left out everywhere.

## 1. Modules

| module | models | proofs |
|---|---|---|
| `VmEngine` | `VirtualMachineEngine`: fusion, dependences, dispatch, prescheduling, release, barriers | `VmEngineInv`, `VmEngineMoves`, `VmEngineSteps`, `VmEngineHandle`, `VmEngineProofs` |
| `VmThreads` | `VirtualMachine`: clients, scheduler and worker threads, notifiers, probes, water marks, shutdown, timeouts | `VmThreadsInv`, `VmThreadsProofs`, `VmThreadsSync` |
| `ActorRuntime` | `Actor`, actor threads, message bus and stream callbacks on one machine | none yet |
| `MCVmEngine`, `MCVmThreads`, `MCActorRuntime` | the instances TLC checks | |

`VmEngine` and `VmThreads` describe one system from two sides. `VmEngine` has the
full dependence graph and takes for granted that the scheduler goes on calling
`Schedule`; `VmThreads` shows that it does, with the graph reduced to "every handled
instruction is ready", which is what the other threads can see of it. Definitions
whose name has a suffix (`EdgeDispatchable_AnyStream`) are faulty variants of the
definition they precede. They are not part of a specification; substituting one for
the correct definition must violate a property, which shows that the property
depends on that piece of the code.

### 1.1 VmEngine

*State.* The program `prog` is a sequence of instructions, each with its stream, its
kind (ordinary, `StreamWait`, `FastReleaseTensor`, barrier), its fuse type and the
dependence objects it writes and reads. `recvd >= moved >= handled` are the ends of
the pending, the local pending and the handled part of the program. `node[i]` is the
node (a single instruction, or a fused run named by its last member) instruction `i`
is in, `st[i]` the list it is on. `macc`, `cacc` are the access lists of the objects,
`edges` the `InstructionEdge`s. `tick` and `clock` give the ready list its order; a
worker's list and a stream's running list are the nodes of a status in this order.
`phase`, `visit`, `budget`, `limit`, `cur`, `todo` are where `Schedule` is.

*Actions.*

| action | code in `vm/` |
|---|---|
| `Receive` | `Receive` |
| `ReleaseBegin`, `ReleaseEdge`, `ReleaseEnd`, `LeaveStream` | `ReleaseFinishedInstructions`, `ReleaseInstruction` |
| `TryRunBarrierInstruction` | the same |
| `HandleLocalPending` | `HandleLocalPending`, `FetchAndTryFusePendingInstructions`, `ConsumeDependences` |
| `DispatchInstruction`, `PrescheduleEdge`, `PrescheduleEnd` | `DispatchAndPrescheduleInstructions`, `DispatchInstruction` |
| `PendingEnd`, `DispatchEnd` | the ends of the sections of `Schedule` |
| `TryReceiveAndRun` | a worker, `ThreadCtx::TryReceiveAndRun` |
| `Done` | a device, seen through `QueryInstructionStatusDone` |

The walk over the out edges of a node is one step per edge, because workers and
devices go on meanwhile. The order of edges in a walk is free. `CHECK`s that abort
the process are not guards: the properties say that they cannot fail.

### 1.2 VmThreads

*State.* Each client has a program of calls and a position in it (`ip`, `pc`). The
pending list is `recvd`, `psize`, `mutex`: `psize` is the `size_` that
`MutexedList` keeps and other threads read without the mutex, so that it may lag
behind the list itself. `probes`/`localProbes` are the probe lists, `fired` the
`BlockingCounter`s that reached zero. `spc`, `wpc` say where the scheduler
and the workers are, `pendNtf`, `workNtf` are the `Notifier`s.

*Actions* follow `VirtualMachine::Receive` (water mark, link, size, notify),
`CurrentRankSync`, `CreateStream`, `ShrinkAllMem`, `CloseVMThreads`,
`ScheduleLoop`, `WorkerLoop` and `RunInCurrentThread`, split wherever another thread
can come between. A wait may time out (`Timeout`) when `Timeouts` is set: the
predicate gives up only if no instruction was erased since the last look
(`lastErased`).

*Abstractions.* A release step erases all finished instructions at once. Inserting a
probe is one step. Several clients may be inside `CreateStream` at the same time,
which the code's mutex forbids: the model has more behaviours. Lookup of an existing
stream, the forked process and the client's interpreter lock are left out.

### 1.3 ActorRuntime

*State.* A plan is given by constants: actors, register descriptors with producer,
consumers and number of registers, inplace pairs, threads. Each thread has a channel
(`msgChannel`), a local queue (`local`), and its stream's callbacks (`callbacks`);
each actor a handler, its slots (`readable`, `writeable`), reading counts, ended
inputs (`eord`), queued messages. `actCnt` and `mem` are history: how often an actor
has acted, and the act whose result each piece of memory holds.

*Actions.* `ReceiveMany` (`Thread::PollMsgChannel`), `HandleStart`, `HandleEord`,
`HandleRegst` (`HandlerNormal`), `HandleZombie`, `ActOnce`, `ActClosed`, `ActFail`
(`ActUntilFail` and the end of the handler), `RunCallback`
(the poller thread, or the actor thread itself for streams without one). `Finished`
is the stuttering end of a plan whose actors are all deleted.

*Abstractions.* Queues hold batches: messages that the code sends in one loop over a
hash map may be delivered in any order. A batch sent synchronously is enqueued in
one step. A stream without poller runs its callbacks before the thread's next step.
Plans have no control registers and no customized registers, and inplace pairs have
one register each, as the compiler guarantees
(`job/intra_job_mem_sharing_util.cpp:104`).

## 2. What is checked

Properties are invariants unless marked.

**Engine**, run `vm_engine` (`MCVmEngine.cfg`): every program of three instructions
out of 13 descriptors on four streams, two worker threads and the scheduler thread,
one tensor, window 2. The descriptors cover reads and writes with and without
sequential dependence, fusable ones, event records, waits, fast releases, a barrier.
Three instructions are enough for a dependence that is carried by a third
instruction, for a fused pair with a neighbour, for a window that ends inside a
fusable run, and for two edges into one node.
- `ComputeInProgramOrder`: of two conflicting instructions the first is computed first, also where no edge joins them.
- `FastReleaseAfterAccesses`: memory freed at dispatch has no earlier user left.
- `BarrierAfterAll`: a barrier runs when everything before it has been released.
- `NoMissedDispatch`: a waiting node that has become dispatchable will be looked at.
- `NoUnerasedEdge`: edges join living nodes, so `DeleteStatusAndCheckEdges` cannot abort.
- `MutableAccessFirst`: a write is first in its access list, which reads rely on.
- `TypeOK`.

Run `vm_engine_live` checks the temporal property `EventuallyReleased` under
fairness.

**Threads**, run `vm_threads`: two clients, one worker, high water mark 1; submit,
create a stream, sync, close, submit after close.
- `NoLostWakeup`: a scheduler that waits unnotified has nothing to do, or somebody is about to notify it.
- `NoLostWorkerWakeup`: the same for workers, which also do not exit early.
- `SyncAfterAll`: when a sync may return, everything received before it is erased.
- `TypeOK`.

Run `vm_threads_live` checks `CallsReturn` (temporal): every call returns, also
those above the high water mark and the close. Run `vm_threads_timeout` repeats
`NoLostWakeup` and `SyncAfterAll` with waits that give up. Run `vm_threads_probe`
shows a defect, see section 5.

Two clients are enough for one of them to find the list non-empty and not notify;
the water mark 1 is reached by the first list of two instructions.

**Actors**, runs `actor_chain` (a pipeline with an inplace actor, a descriptor of two
registers, synchronous and callback messages, three threads) and `actor_join` (a
diamond whose join has an inplace input), three pieces each, so that every register
is used again.
- `RegstCredit`: a register's reading count is the number of consumers it is with, or on its way to or from; it is writeable exactly when there is none.
- `PiecesInOrder`: what a consumer holds is, in memory, the piece it acts on next.
- `NoOrphanMessage`: a deleted actor has no message on its way to it.
- `EordAfterRegsts`: the end of a descriptor is received behind its last register.
- `HaltAfterAllPieces`: an actor that halts (on the first of several EORDs) has acted on all pieces.
- `TypeOK` (run `actor_chain`).

Run `actor_live` checks `Termination` (temporal): once the client closes the job all
actors are deleted.

Distinct states: `vm_engine` 967,489, `vm_engine_live` 72,532, `vm_threads` 615,128,
`vm_threads_live` 254,625, `vm_threads_timeout` 476,697, `actor_chain` 31,624, `actor_join` 147,600,
`actor_live` 19,404.

### Bounds

`N` and `MaxInstr` (instructions), `Window` (pending window), `HighWaterMark`,
`MaxPieces` (pieces before the client closes) are constants of the
specifications; nothing else is bounded. The lengths of queues and the number of
probes are bounded by these.

### Fairness

- Engine: weak fairness of the scheduler's step (`Schedule` is called in a loop,
  shown to go on by `VmThreads`), of each worker, and of the completion of each
  launched node (devices finish).
- Threads: weak fairness of each client, the scheduler and each worker, as the
  operating system gives; strong fairness of the two steps that end a busy loop
  after `kExpireMicroseconds` / `kWorkingMicroseconds`, since the clock advances and the
  loop cannot be repeated for ever without work.
- Actors: weak fairness of each thread and each poller. A client that closes the job
  is implied by the bound on pieces.

`vm_threads*` and `actor_live` do not check deadlock: the system stops when the
clients' programs are done.

## 3. What is proved

All theorems are checked by TLAPS without unproved steps, for every number of
instructions, streams, threads, objects and clients, every program and every window.

| theorem | module | states |
|---|---|---|
| `TypeCorrect` | `VmEngineInv` | `TypeOK` |
| `ProgramOrder` | `VmEngineProofs` | `ComputeInProgramOrder` |
| `FastReleaseSafe` | `VmEngineProofs` | `FastReleaseAfterAccesses` |
| `BarriersSeparate` | `VmEngineProofs` | `BarrierAfterAll` |
| `DispatchComplete` | `VmEngineProofs` | `NoMissedDispatch` |
| `GraphConsistent` | `VmEngineProofs` | `NoUnerasedEdge`, `MutableAccessFirst` |
| `TypeCorrect` | `VmThreadsProofs` | `TypeOK` |
| `SchedulerAwake` | `VmThreadsProofs` | `NoLostWakeup` |
| `WorkersAwake` | `VmThreadsProofs` | `NoLostWorkerWakeup` |
| `SyncComplete` | `VmThreadsSync` | `SyncAfterAll` |

**Assumptions.** Engine: `N` is a number, the window is positive, every stream has a
thread, a barrier has no dependences, only ordinary instructions are fusable.
Threads: clients call one of five operations, only the closer closes, marks
are numbers, the window is positive. In the model the closer calls `CloseVMThreads` after the
other clients have finished: the code does not synchronise `threads_closed_` with other
callers and so relies on this. TLC evaluates the assumptions on every run.

**The argument for the engine.** `ComputeInProgramOrder` is not inductive: nothing in
it says why a later instruction has not overtaken an earlier one. The invariant
`IInv` (`VmEngineInv`) names the three reasons (`Behind`): the earlier node has been
computed, an edge holds the later one back, or both are queued on one thread and
the earlier is ahead. The code also forgets accesses: a write erases the accesses it
connects from. So the reason may lie with a third node that conflicts with the earlier
instruction and *stands* for it (`Stands`, `Ordered`), and `Covered` says
that an unfinished access is on its list or has a later write there. `TicketsOK`
gives the FIFO order of ready, running and worker lists. `EdgesOK` adds that an edge
into a queued node comes from the same thread's queue, and never goes into a fast release.
`HandleLocalPending` is the hard step, since it creates a node out of
several instructions and connects it with everything: `VmEngineHandle` is its proof.
`VmEngineMoves` has the lemmas on what a change of status preserves, `VmEngineSteps`
the release and prescheduling steps, `VmEngineProofs` the rest.

**The argument for the threads.** `NoLostWakeup` speaks only of a waiting scheduler;
the invariant `SleepOK` says the same, less at each step, from the moment the scheduler checks for emptiness.
What it needs is that the size read without the mutex is wrong only while some client is
inside the mutex and, if the size is still 0, going to notify (`MutexOK`); and that once
the notifier has been closed nobody notifies (`CloseOK`). `WorkOK` is the
same for workers. `SyncAfterAll` needs that a callback belongs to one instruction and
fires only from a barrier (`CallbacksOK`, `FiredOK` in `VmThreadsSync`).

**Only model-checked.** The temporal properties (`EventuallyReleased`, `CallsReturn`,
`Termination`) depend on fairness, which is outside the prover's reach. Nothing is proved of
`ActorRuntime` yet; `RegstCredit` counts messages in queues and needs a formulation
by position first.

## 4. Inventory

The parts of the system that hold state, what they do, and what makes them hard. Parts
without a module name are not modelled yet or not at all; `PROJECT.json` gives the
reason for each, and the hazards with their lines.

**VM engine** (`vm/virtual_machine_engine.cpp`). *State:* pending, lively, ready and
barrier lists, per-stream running lists, per-object access lists, edges. *Operations:*
`Receive`, `Schedule`. *Interacts* with clients (pending list), workers (their lists),
devices (status queries). *Hard:* edges left out or satisfied early because a queue
already orders two instructions; accesses forgotten by later writes; fused nodes; a
status that changes during a walk. *Properties:* section 2. Module `VmEngine`.

**VM threads** (`vm/virtual_machine.cpp`, `common/notifier.cpp`,
`intrusive/mutexed_list.h`). *State:* notifiers, probe lists, sizes read without a lock,
`threads_closed_`. *Operations:* receive, sync, stream creation, shrinking, closing, the two
loops. *Hard:* lost wake-ups, waits that time out, back pressure from the thread
that is filled. Module `VmThreads`.

**Streams and synchronisation** (`framework/instructions_builder.cpp`,
`vm/stream_wait_instruction_policy.cpp`, `vm/ep_*`). *State:* the last stream of each tensor,
events. *Operations:* `SoftSyncStream`, `StreamWait`, `RecordEvent`. *Hard:* the
choice is made when the instruction is built. *Property to state:* device order of
conflicting operations follows program order, given `ComputeInProgramOrder`.

**Critical sections and lazy jobs in the VM** (`vm/critical_section_*`,
`vm/lazy_job_instruction_policy.h`). *State:* end event records, buffers of the job. *Hard:* an event is
initialised by an actor or by `Finish`. *Property to state:* each record is
initialised once, and a critical section ends after the last access.

**VM allocator** (`vm/bin_allocator.h`, `memory/chunk_manager.cpp`). *State:* blocks, pieces,
bins. *Operations:* allocate, deallocate, shrink. *Property to state:* pieces partition
blocks, free neighbours are merged, a free piece is in the bin of its size.

**Actors** (`lazy/actor/actor.cpp`, `register_slot.cpp`, `thread/thread.cpp`). *State:* slots,
reading counts, handler, queues. *Operations:* the handlers and acting. *Hard:* two
ways for messages, inplace registers, ends. Module `ActorRuntime`.

**LightActor** (`lazy/actor/light_actor.cpp`). The same protocol with one state per
register descriptor. *Property to state:* it refines the protocol of `ActorRuntime`, and
no callback outlives its actor.

**Specialised actors** (`lazy/actor/*_actor.cpp`): repeat, unpack, pack, accumulate, case and esac,
reentrant lock, input-wise. *Property to state:* how many pieces go out for how many that come in.

**Communication between machines** (`lazy/actor/actor_message_bus.cpp`,
`copy_comm_net_actor.cpp`, `comm_network/`). *State:* sequence numbers, waiting lists of reads.
*Hard:* messages out of order, reads that finish before they are registered.
*Property to state:* registers are consumed in sequence and none is lost at the end.

**Transport** (`transport/transport.cpp`). *State:* status per token on two
machines. *Hard:* Send message and Receive race; status used after the unlock.
*Property to state:* exactly one read per token pair; both callbacks run once.

**Control plane** (`control/rpc_server.cpp`, `rpc_client.cpp`, bootstrap). *State:* barriers,
locks, key-value pairs, pending calls. *Property to state:* a barrier releases a set of
distinct ranks; a lock is done once.

**Collective boxing** (`job/collective_boxing/`). *State:* current job and group, ready
requests. *Property to state:* all ranks launch groups in one order, and no request is left.

**Runtime lifecycle** (`job/runtime.cpp`, `thread/thread_manager.cpp`,
`job/runtime_context.cpp`). *State:* counters, threads. *Hard:* counters created after a barrier,
threads reused between plans. *Property to state:* a thread stops when it has no actor.

**Blocking primitives** (`common/channel.h`, `buffer.h`, `blocking_counter.cpp`). *Hard:* one
condition for two kinds of waiters, notification only of the first item. *Property
to state:* nobody waits while the condition holds.

**Not planned:** the graph compiler (`job/`, `graph/`, `job_rewriter/`, `auto_parallel/`,
`boxing/`, `operator/`), autograd and dispatch (`autograd/`, `framework/`, `functional/`,
`eager/`), Python bindings (`src/oneflow/api`), devices, kernels and user operators (`ep/`,
`kernel/`, `ndarray/`, `cuda/`, `src/oneflow/user`), embedding tables, shared memory,
persistence, profiling, records, MLIR (`src/oneflow/ir`), extensions. They are sequential, numeric,
generated, or input and output; what the runtime sees of them, an arbitrary program or plan, is a
parameter of the models.

Hazards that `PROJECT.json` does not list yet, kept here for the modules to come: a source whose buffer is
closed still sends its control registers (`lazy/actor/actor.cpp:468`); running counters are created after the
session barrier (`job/runtime.cpp:104`) in a map without a lock (`job/runtime_context.cpp:20`); two clients in
`RunInCurrentThread` after the close (`vm/virtual_machine.cpp:308`); `threads_closed_` read without
synchronisation (`:261`); sequence numbers drawn under a lock and sent after it
(`lazy/actor/actor_message_bus.cpp:29`); a transport status filled after the unlock (`transport/transport.cpp:185`);
`WaitUntilDone` of an unknown lock (`control/rpc_server.cpp:119`); finished locks cached by the client
(`control/rpc_client.cpp:73`); a channel that notifies one receiver of the first item only
(`common/channel.h:52`); bin numbers at powers of two (`vm/bin_allocator.h:96`) and a block read after it was erased
from its map (`:373`).

## 5. Findings

`vm_threads_probe` checks `ProbeWithinCall` and finds it violated. `CreateStream`
(`vm/virtual_machine.cpp:477`) inserts a probe that captures its local variable
`vm_stream` by reference and waits for it. If the wait gives up after a timeout the call returns, and the
scheduler later runs the probe with a reference to a variable that is gone. The neighbouring
`CreateThreadCtx` keeps its variable alive for this reason: "thread_ctx_ptr may be used after timout."
(`vm/virtual_machine.cpp:428`).

## 6. Plan

In the order of importance. Modules that are to be proved about use functions and quantifiers
rather than recursion.

1. `ActorRuntime`: an inductive invariant by position instead of count, `TypeOK` and
   `RegstCredit` proved; then control registers.
2. `LightActor`, with `ActorRuntime`'s register protocol as an abstract specification that both refine.
3. `CommNet`: message bus sequence numbers, reads and callbacks, `CopyCommNetActor`; two machines,
   reordered messages. Runs for order and for the end of a stream of registers.
4. `Transport`: two machines, two tokens, a token used again; proved for any tokens.
5. `StaticGroupCoordinator`: two ranks, two jobs, two groups; launch order across ranks.
6. `ControlPlane`: barrier, lock and key-value handlers, three ranks, repeated calls.
7. `BlockingPrimitives`: channel, buffer, counter with explicit waiting sets; no lost wake-up, proved for any number of threads.
8. An abstract `InOrderExecution` (instructions take effect one at a time, non-conflicting ones in any
   order) that `VmEngine` refines; then device order on top of it (`SoftSyncStream`).
9. Runtime lifecycle with several plans, critical sections, specialised actors.
10. The allocator as an algorithm against a reference definition.
