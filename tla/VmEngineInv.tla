---------------------------- MODULE VmEngineInv -----------------------------
(***************************************************************************)
(* Type correctness of VmEngine, its inductive invariant, the facts that   *)
(* follow from it, and what several actions share: a node that moves one   *)
(* step forward along the lists, a node pushed to the ready list, and the  *)
(* steps that leave the lists alone all preserve the invariant. So does    *)
(* HandleLocalPending, the action that adds a node with its accesses and   *)
(* in-edges to the instruction graph.                                      *)
(***************************************************************************)
EXTENDS VmEngine, TLAPS

-----------------------------------------------------------------------------
(***************************************************************************)
(* The inductive invariant.  Its parts speak of the nodes (fused runs) the *)
(* program has been cut into, the order of the ready list, the access      *)
(* lists, the edges, and what orders two conflicting instructions.         *)
(***************************************************************************)

\* Nodes are runs of handled instructions of one stream; the members of a node
\* share its status.
NodesOK ==
    /\ \A i \in Instr : i <= handled =>
          /\ node[i] \in Instr /\ i <= node[i] /\ node[i] <= handled
          /\ node[node[i]] = node[i] /\ st[i] = st[node[i]] /\ st[i] # "idle"
          /\ StreamOf(i) = StreamOf(node[i]) /\ prog[i].kind = prog[node[i]].kind
          /\ i # node[i] => prog[i].kind = "op"
    /\ \A i \in Instr : i > handled => node[i] = 0 /\ st[i] = "idle" /\ tick[i] = 0
    /\ \A i, j \in Instr : i < j /\ j <= handled => node[i] = node[j] \/ node[i] < j

BarriersOK ==
    \A i \in Instr : /\ st[i] = "barrier" => prog[i].kind = "barrier"
                     /\ prog[i].kind = "barrier" => st[i] \in {"idle", "barrier", "released"}

\* Tickets are handed out once, in increasing order, to nodes that become ready,
\* and nodes leave the ready list in the order of their tickets.
TicketsOK ==
    /\ \A i \in Instr : tick[i] <= clock
    /\ \A i \in Nodes : Linked(i) => tick[i] > 0
    /\ \A i \in Instr : tick[i] > 0 => i \in Nodes /\ (Linked(i) \/ st[i] = "released")
    /\ \A i, j \in Instr : tick[i] = tick[j] /\ tick[i] > 0 => i = j
    /\ \A k, j \in Instr : tick[k] > 0 /\ tick[k] < tick[j] /\ st[j] # "ready"
                            => st[k] # "ready"

SchedulerThreadOK == \A i \in Instr : st[i] = "dispatched" => ThreadFor(i) \notin SchedThread

\* A node on an access list is a node in flight with such an access.
AccessesOK ==
    \A d \in Obj : \A x \in macc[d] \cup cacc[d] :
        /\ x \in Nodes /\ Lively(x) /\ st[x] # "barrier"
        /\ phase = "releasing" => x # cur
        /\ x \in macc[d] => \E i \in Instr : node[i] = x /\ d \in Writes(i)

\* An access that left its list is finished or stands behind a later write.
Covered ==
    \A i \in Instr, d \in Obj : i <= handled /\ ~Computed(i) =>
        /\ d \in Writes(i) => node[i] \in macc[d] \/ \E k \in macc[d] : k > node[i]
        /\ d \in Reads(i) => node[i] \in cacc[d] \/ \E k \in macc[d] : k > node[i]

\* k is ahead of n in the queue of their common thread.
Ahead(k, n) ==
    tick[k] > 0 /\ ThreadFor(k) = ThreadFor(n) /\ (tick[n] = 0 \/ tick[k] < tick[n])

EdgesOK ==
    \A x, y \in Instr : <<x, y>> \in edges =>
        /\ x \in Nodes /\ y \in Nodes /\ x < y
        /\ Lively(x) /\ Lively(y) /\ st[x] # "barrier" /\ st[y] # "barrier"
        /\ Linked(y) => Ahead(x, y) /\ prog[y].kind # "fastRelease"

\* The walk over the out edges of cur.
WalkOK ==
    /\ phase = "releasing" =>
          /\ cur \in Nodes /\ st[cur] = "done"
          /\ \A x \in Instr : <<x, cur>> \notin edges /\ (<<cur, x>> \in edges <=> x \in todo)
    /\ phase = "prescheduling" =>
          /\ cur \in Nodes /\ Running(cur)
          /\ \A y \in todo : <<cur, y>> \in edges
    /\ phase \notin {"releasing", "prescheduling"} => todo = {}

\* What keeps n behind k: k is computed, or an edge, or the queue of the thread.
Behind(k, n) ==
    \/ Computed(k)
    \/ <<k, n>> \in edges
    \/ Ahead(k, n) /\ prog[n].kind # "fastRelease"

\* Node k is that of i or has a member that follows and conflicts with i.
Stands(k, i) ==
    \/ k = node[i]
    \/ \E c \in Instr : node[c] = k /\ i < c /\ Conflict(i, c)

\* Of two conflicting instructions the later is behind the node of the earlier, or
\* behind a node that stands for it.
Ordered ==
    \A i, j \in Instr : i < j /\ j <= handled /\ Conflict(i, j) /\ node[i] # node[j] =>
        \E k \in Nodes : k < node[j] /\ Stands(k, i) /\ Behind(k, node[j])

IInv ==
    /\ TypeOK /\ prog \in Programs
    /\ NodesOK /\ BarriersOK /\ TicketsOK /\ SchedulerThreadOK
    /\ AccessesOK /\ Covered /\ MutableAccessFirst /\ EdgesOK /\ WalkOK /\ Ordered
    /\ ComputeInProgramOrder /\ FastReleaseAfterAccesses /\ BarrierAfterAll
    /\ NoMissedDispatch

-----------------------------------------------------------------------------
\* The initial state is well typed.
LEMMA TypeInit == Init => TypeOK
  <1> SUFFICES ASSUME Init PROVE TypeOK
    OBVIOUS
  <1>1. prog \in [Instr -> Descriptor]
    BY Zenon, ProgramsAssumption DEF Init
  <1> QED
    BY <1>1, NAssumption DEF Init, TypeOK, Instr, Status

\* Pushing a node on the ready list keeps the types.
LEMMA PushReadyType ==
  ASSUME TypeOK, NEW y \in Instr, NEW ok \in BOOLEAN, PushReady(y, ok)
  PROVE  st' \in [Instr -> Status] /\ tick' \in [Instr -> Nat] /\ clock' \in Nat
  BY DEF TypeOK, PushReady, Move, Status

\* ConsumeDependences keeps the types of the access lists and the edges.
LEMMA ConsumeType ==
  ASSUME TypeOK, NEW n \in Instr, ConsumeDependences(n)
  PROVE  /\ edges' \in SUBSET (Instr \X Instr)
         /\ macc' \in [Obj -> SUBSET Instr] /\ cacc' \in [Obj -> SUBSET Instr]
  <1>1. NewEdges(n) \in SUBSET (Instr \X Instr)
    BY DEF NewEdges, Sources
  <1>2. edges' \in SUBSET (Instr \X Instr)
    BY Zenon, <1>1 DEF TypeOK, ConsumeDependences
  <1>3. macc' \in [Obj -> SUBSET Instr]
    BY Zenon DEF TypeOK, ConsumeDependences
  <1>4. cacc' \in [Obj -> SUBSET Instr]
    BY Zenon DEF TypeOK, ConsumeDependences
  <1> QED
    BY Zenon, <1>2, <1>3, <1>4

\* Every step keeps the types.
LEMMA TypeStep == TypeOK /\ [Next]_vars => TypeOK'
  <1> SUFFICES ASSUME TypeOK, [Next]_vars PROVE TypeOK'
    OBVIOUS
  <1> USE NAssumption
  <1>1. CASE Receive
    BY <1>1 DEF TypeOK, Receive, listVars, accVars
  <1>2. ASSUME NEW n \in Instr, ReleaseBegin(n) PROVE TypeOK'
    <2>1. macc' \in [Obj -> SUBSET Instr] /\ cacc' \in [Obj -> SUBSET Instr]
      BY Zenon, <1>2 DEF TypeOK, ReleaseBegin
    <2>2. cur' \in 0 .. N /\ todo' \in SUBSET Instr
      BY <1>2 DEF ReleaseBegin, Instr
    <2> QED
      BY Zenon, <1>2, <2>1, <2>2 DEF TypeOK, ReleaseBegin, clientVars, listVars
  <1>3. ASSUME NEW y \in Instr, ReleaseEdge(y) PROVE TypeOK'
    <2>1. st' \in [Instr -> Status] /\ tick' \in [Instr -> Nat] /\ clock' \in Nat
      BY <1>3, PushReadyType, Zenon DEF ReleaseEdge, DispatchableIn
    <2> QED
      BY Zenon, <1>3, <2>1 DEF TypeOK, ReleaseEdge, clientVars, listVars, accVars
  <1>4. CASE ReleaseEnd
    BY <1>4 DEF TypeOK, ReleaseEnd, Move, Status, clientVars, listVars, accVars
  <1>5. ASSUME NEW s \in Stream, LeaveStream(s) PROVE TypeOK'
    BY Zenon, <1>5 DEF TypeOK, LeaveStream, clientVars, listVars, accVars
  <1>6. CASE TryRunBarrierInstruction
    BY <1>6 DEF TypeOK, TryRunBarrierInstruction, Status, clientVars, accVars
  <1>7. ASSUME NEW n \in Instr, HandleLocalPending(n) PROVE TypeOK'
    <2>1. handled' \in 0 .. moved /\ budget' \in Nat /\ n \in 0 .. N
      BY <1>7 DEF TypeOK, HandleLocalPending, NextNode, InWindow, Instr
    <2>2. node' \in [Instr -> 0 .. N]
      BY Zenon, <1>7, <2>1 DEF TypeOK, HandleLocalPending
    <2>3. st' \in [Instr -> Status] /\ tick' \in [Instr -> Nat] /\ clock' \in Nat
      BY <1>7 DEF TypeOK, HandleLocalPending, Enter, Status
    <2>4. /\ edges' \in SUBSET (Instr \X Instr)
          /\ macc' \in [Obj -> SUBSET Instr] /\ cacc' \in [Obj -> SUBSET Instr]
      <3>1. CASE prog[n].kind = "barrier"
        BY Zenon, <1>7, <3>1 DEF TypeOK, HandleLocalPending, accVars
      <3>2. CASE prog[n].kind # "barrier"
        BY Zenon, <1>7, <3>2, ConsumeType DEF HandleLocalPending
      <3> QED
        BY Zenon, <3>1, <3>2
    <2> QED
      BY Zenon, <1>7, <2>1, <2>2, <2>3, <2>4 DEF TypeOK, HandleLocalPending, clientVars
  <1>8. CASE PendingEnd
    BY Zenon, <1>8 DEF TypeOK, PendingEnd, clientVars, listVars, accVars
  <1>9. ASSUME NEW n \in Instr, DispatchInstruction(n) PROVE TypeOK'
    <2>1. cur' \in 0 .. N /\ todo' \in SUBSET Instr
      BY <1>9 DEF DispatchInstruction, Instr
    <2>2. st' \in [Instr -> Status]
      BY Zenon, <1>9 DEF TypeOK, DispatchInstruction, Move, Status
    <2> QED
      BY Zenon, <1>9, <2>1, <2>2 DEF TypeOK, DispatchInstruction, clientVars, listVars, accVars
  <1>10. ASSUME NEW y \in Instr, PrescheduleEdge(y) PROVE TypeOK'
    <2>1. st' \in [Instr -> Status] /\ tick' \in [Instr -> Nat] /\ clock' \in Nat
      BY <1>10, PushReadyType, Zenon DEF PrescheduleEdge, DispatchableIn
    <2> QED
      BY Zenon, <1>10, <2>1 DEF TypeOK, PrescheduleEdge, clientVars, listVars, accVars
  <1>11. CASE PrescheduleEnd
    BY <1>11 DEF TypeOK, PrescheduleEnd, clientVars, listVars, accVars
  <1>12. CASE DispatchEnd
    <2>1. ActiveStreams \in SUBSET Stream
      BY Zenon DEF ActiveStreams
    <2> QED
      BY Zenon, <1>12, <2>1 DEF TypeOK, DispatchEnd, clientVars, listVars, accVars
  <1>13. ASSUME NEW t \in Thread, TryReceiveAndRun(t) PROVE TypeOK'
    BY ZenonT(40), <1>13 DEF TypeOK, TryReceiveAndRun, Move, Status, clientVars, listVars, accVars
  <1>14. ASSUME NEW n \in Instr, Done(n) PROVE TypeOK'
    BY Zenon, <1>14 DEF TypeOK, Done, Move, Status, clientVars, listVars, accVars
  <1>15. CASE UNCHANGED vars
    BY Zenon, <1>15 DEF TypeOK, vars
  <1> QED
    BY Zenon, <1>1, <1>2, <1>3, <1>4, <1>5, <1>6, <1>7, <1>8, <1>9, <1>10, <1>11, <1>12,
       <1>13, <1>14, <1>15 DEF Next, Schedule

(***************************************************************************)
(* Every reachable state of the engine is well typed; in particular the    *)
(* pending window is never overdrawn and the three list positions stay in  *)
(* order (FetchAndTryFusePendingInstructions, Receive).                    *)
(***************************************************************************)
THEOREM TypeCorrect == Spec => []TypeOK
  BY TypeInit, TypeStep, PTL DEF Spec

-----------------------------------------------------------------------------
(***************************************************************************)
(* Facts used in several places.                                           *)
(***************************************************************************)
LEMMA BarrierNoAccess ==
  ASSUME prog \in Programs, NEW i \in Instr, prog[i].kind = "barrier"
  PROVE  Writes(i) = {} /\ Reads(i) = {} /\ Accesses(i) = {}
  BY Zenon, ProgramsAssumption DEF WellFormed, Writes, Reads, Accesses

\* Instructions access objects.
LEMMA AccessObj ==
  ASSUME TypeOK, NEW i \in Instr
  PROVE  Writes(i) \subseteq Obj /\ Reads(i) \subseteq Obj
  <1>1. prog[i] \in Descriptor
    BY Zenon DEF TypeOK
  <1> QED
    BY Zenon, <1>1 DEF Descriptor, Writes, Reads, StreamOf, Obj

\* Only instructions of one thread are prescheduled.
LEMMA PreschedSameThread ==
  ASSUME NEW x \in Instr, NEW y \in Instr, Prescheduleable(x, y)
  PROVE  ThreadFor(x) = ThreadFor(y) /\ prog[y].kind # "fastRelease"
  BY Zenon DEF Prescheduleable, ThreadFor

\* Positions in the program are numbers.
LEMMA HandledNat ==
  ASSUME TypeOK
  PROVE  handled \in Nat /\ moved \in Nat /\ \A i \in Instr : i \in Nat \ {0}
  BY NAssumption DEF TypeOK, Instr

\* A node is a handled instruction that stands for itself.
LEMMA NodeFacts ==
  ASSUME TypeOK, NodesOK, NEW n \in Nodes
  PROVE  n \in Instr /\ n <= handled /\ node[n] = n /\ st[n] # "idle"
  BY NAssumption DEF TypeOK, NodesOK, Nodes, Instr

\* A member of a node shares its status and its stream.
LEMMA MemberFacts ==
  ASSUME TypeOK, NodesOK, NEW n \in Nodes, NEW i \in Instr, node[i] = n
  PROVE  i <= handled /\ st[i] = st[n] /\ i <= n /\ StreamOf(i) = StreamOf(n)
  <1>1. node[i] # 0
    BY NodeFacts, NAssumption DEF Instr
  <1>2. i <= handled
    BY <1>1, NAssumption DEF NodesOK, Instr, TypeOK
  <1> QED
    BY Zenon, <1>2 DEF NodesOK

\* A node that is linked has a ticket.
LEMMA TicketFacts ==
  ASSUME TypeOK, TicketsOK, NEW n \in Nodes, Linked(n)
  PROVE  tick[n] \in Nat /\ clock \in Nat /\ tick[n] > 0 /\ tick[n] <= clock
  BY Zenon DEF TypeOK, TicketsOK, Nodes

\* All that n is behind is computed, so the instructions n conflicts with are.
LEMMA BehindComputed ==
  ASSUME IInv, NEW n \in Nodes, Linked(n),
         \A k \in Nodes : Ahead(k, n) /\ prog[n].kind # "fastRelease" => Computed(k),
         NEW i \in Instr, NEW j \in Instr,
         i < j, node[j] = n, Conflict(i, j), node[i] # n
  PROVE  Computed(i)
  <1>1. n \in Instr /\ n <= handled /\ node[n] = n
    BY Zenon, NodeFacts DEF IInv
  <1>2. j <= handled
    BY <1>1, NAssumption DEF IInv, NodesOK, Instr, TypeOK
  <1>3. PICK k \in Nodes : k < n /\ Stands(k, i) /\ Behind(k, n)
    BY Zenon, <1>2 DEF IInv, Ordered
  <1>4. k \in Instr /\ node[k] = k /\ k <= handled
    BY Zenon, NodeFacts DEF IInv
  <1>5. Computed(k)
    <2>1. CASE <<k, n>> \in edges
      BY Zenon, <2>1, <1>1, <1>4 DEF IInv, EdgesOK
    <2> QED
      BY Zenon, <1>3, <2>1 DEF Behind
  <1>6. CASE k = node[i]
    <2>1. i <= handled
      BY <1>2, NAssumption DEF Instr, IInv, TypeOK
    <2> QED
      BY Zenon, <1>5, <1>6, <2>1 DEF IInv, NodesOK, Computed
  <1>7. CASE k # node[i]
    <2>1. PICK c \in Instr : node[c] = k /\ i < c /\ Conflict(i, c)
      BY Zenon, <1>3, <1>7 DEF Stands
    <2>2. c <= handled
      BY <2>1, <1>4, NAssumption DEF IInv, NodesOK, Instr, TypeOK
    <2>3. Computed(c)
      BY Zenon, <1>5, <2>1, <2>2 DEF IInv, NodesOK, Computed
    <2> QED
      BY Zenon, <2>1, <2>3 DEF IInv, ComputeInProgramOrder
  <1> QED
    BY Zenon, <1>6, <1>7

\* The invariant holds initially.
LEMMA InvInit == Init => IInv
  <1> SUFFICES ASSUME Init PROVE IInv
    OBVIOUS
  <1>1. TypeOK
    BY Zenon, TypeInit
  <1>2. NodesOK /\ BarriersOK /\ TicketsOK
    BY NAssumption DEF Init, NodesOK, BarriersOK, TicketsOK, Nodes, Linked, Instr
  <1>3. SchedulerThreadOK /\ AccessesOK /\ Covered /\ MutableAccessFirst
    BY NAssumption DEF Init, SchedulerThreadOK, AccessesOK, Covered, MutableAccessFirst, Instr
  <1>4. EdgesOK /\ WalkOK /\ Ordered
    BY Zenon, NAssumption DEF Init, EdgesOK, WalkOK, Ordered, Instr
  <1>5. ComputeInProgramOrder /\ FastReleaseAfterAccesses /\ BarrierAfterAll
    BY Zenon DEF Init, ComputeInProgramOrder, FastReleaseAfterAccesses, BarrierAfterAll, Computed, Running
  <1>6. NoMissedDispatch
    BY Zenon DEF Init, NoMissedDispatch, Nodes
  <1> QED
    BY Zenon, <1>1, <1>2, <1>3, <1>4, <1>5, <1>6 DEF IInv, Init

\* Ordered only needs that what holds a node behind another keeps doing so.
LEMMA OrderedKept ==
  ASSUME NodesOK, Ordered, UNCHANGED <<prog, handled, node>>,
         \A k, m \in Instr : Behind(k, m) => Behind(k, m)'
  PROVE  Ordered'
  <1> SUFFICES ASSUME NEW i \in Instr, NEW j \in Instr, i < j, j <= handled,
                      Conflict(i, j)', node[i] # node[j]
               PROVE  (\E k \in Nodes : k < node[j] /\ Stands(k, i) /\ Behind(k, node[j]))'
    BY Zenon DEF Ordered
  <1>1. PICK k \in Nodes : k < node[j] /\ Stands(k, i) /\ Behind(k, node[j])
    BY Zenon DEF Ordered, Conflict, Accesses, Writes, Reads, StreamOf
  <1>2. k \in Instr /\ node[j] \in Instr
    BY SMTT(30) DEF Nodes, NodesOK
  <1>3. Stands(k, i)'
    BY ZenonT(40), <1>1 DEF Stands, Conflict, Accesses, Writes, Reads, StreamOf
  <1> QED
    BY Zenon, <1>1, <1>2, <1>3 DEF Nodes

(***************************************************************************)

-----------------------------------------------------------------------------
(* A linked node n moves on along its lists: dispatched, computed, done.   *)
(***************************************************************************)
LEMMA ForwardMove ==
  ASSUME IInv, TypeOK', NEW n \in Nodes, Linked(n),
         NEW v \in {"dispatched", "launched", "done"}, st' = Move(n, v),
         UNCHANGED <<prog, handled, node, macc, cacc, edges, tick, clock>>,
         v = "dispatched" => st[n] = "ready" /\ ThreadFor(n) \notin SchedThread,
         st[n] = "ready" => \A m \in Nodes : st[m] = "ready" => tick[n] <= tick[m],
         v # "dispatched" /\ ~Computed(n) => \A k \in Nodes : Ahead(k, n) => Computed(k)
  PROVE  /\ NodesOK' /\ BarriersOK' /\ TicketsOK' /\ SchedulerThreadOK'
         /\ Covered' /\ MutableAccessFirst' /\ EdgesOK' /\ Ordered'
         /\ ComputeInProgramOrder' /\ FastReleaseAfterAccesses' /\ BarrierAfterAll'
  <1>1. n \in Instr /\ n <= handled /\ node[n] = n
    BY Zenon, NodeFacts DEF IInv
  <1>2. \A i \in Instr : st'[i] = IF node[i] = n THEN v ELSE st[i]
    BY Zenon DEF Move
  <1>3. \A i \in Instr : node[i] = n => i <= handled /\ st[i] = st[n]
    BY Zenon, MemberFacts DEF IInv
  <1>4. \A i \in Instr : Computed(i) => Computed(i)'
    BY Zenon, <1>2, <1>3 DEF Computed, Linked
  <1>5. NodesOK'
    BY <1>1, <1>2, <1>3 DEF IInv, NodesOK, StreamOf
  <1>6. BarriersOK'
    BY Zenon, <1>2, <1>3 DEF IInv, BarriersOK, Linked
  <1>7. TicketsOK'
    <2>1. \A i \in Instr : tick[i] > 0 => st'[i] = (IF i = n THEN v ELSE st[i])
      BY Zenon, <1>2, <1>1 DEF IInv, TicketsOK, Nodes
    <2>2. \A k, j \in Instr : tick[k] > 0 /\ tick[k] < tick[j] /\ st'[j] # "ready" => st'[k] # "ready"
      <3> SUFFICES ASSUME NEW k \in Instr, NEW j \in Instr, tick[k] > 0, tick[k] < tick[j],
                          st'[j] # "ready", st'[k] = "ready"
                   PROVE  FALSE
        OBVIOUS
      <3>1. k # n /\ st[k] = "ready" /\ k \in Nodes
        BY Zenon, <2>1 DEF IInv, TicketsOK
      <3>2. tick[j] > 0
        BY DEF IInv, TypeOK
      <3>3. CASE j = n
        BY <3>1, <3>3 DEF IInv, TicketsOK, TypeOK
      <3>4. CASE j # n
        BY Zenon, <3>1, <3>2, <3>4, <2>1 DEF IInv, TicketsOK
      <3> QED
        BY Zenon, <3>3, <3>4
    <2> QED
      BY <1>1, <1>2, <1>3, <2>1, <2>2 DEF IInv, TicketsOK, Nodes, Linked
  <1>8. SchedulerThreadOK'
    BY <1>2, <1>3, <1>1 DEF IInv, SchedulerThreadOK, ThreadFor, StreamOf, NodesOK
  <1>9. Covered'
    BY Zenon, <1>4 DEF IInv, Covered, Writes, Reads, StreamOf
  <1>10. MutableAccessFirst'
    BY Zenon DEF IInv, MutableAccessFirst
  <1>11. EdgesOK'
    BY <1>2, <1>1 DEF IInv, EdgesOK, Nodes, Lively, Linked, Ahead, ThreadFor, StreamOf
  <1>12. Ordered'
    <2>1. \A k, m \in Instr : Behind(k, m) => Behind(k, m)'
      BY Zenon, <1>4 DEF Behind, Ahead, ThreadFor, StreamOf
    <2> QED
      BY Zenon, <2>1, OrderedKept DEF IInv
  <1>13. ComputeInProgramOrder'
    <2> SUFFICES ASSUME NEW i \in Instr, NEW j \in Instr, i < j, Conflict(i, j), Computed(j)'
                 PROVE  Computed(i)'
      BY ZenonT(40) DEF ComputeInProgramOrder, Conflict, Accesses, Writes, Reads, StreamOf
    <2>1. CASE Computed(j)
      BY Zenon, <2>1, <1>4 DEF IInv, ComputeInProgramOrder
    <2>2. CASE ~Computed(j)
      <3>1. node[j] = n /\ v # "dispatched" /\ ~Computed(n)
        BY Zenon, <2>2, <1>2, <1>3 DEF Computed
      <3>2. CASE node[i] = n
        BY Zenon, <3>1, <3>2, <1>2 DEF Computed
      <3>3. CASE node[i] # n
        BY Zenon, <3>1, <3>3, <1>4, BehindComputed
      <3> QED
        BY Zenon, <3>2, <3>3
    <2> QED
      BY Zenon, <2>1, <2>2
  <1>14. FastReleaseAfterAccesses'
    <2> SUFFICES ASSUME NEW i \in Instr, NEW j \in Instr, i < j, Conflict(i, j),
                        prog[j].kind = "fastRelease", Running(j)' \/ Computed(j)'
                 PROVE  Computed(i)'
      BY ZenonT(40) DEF FastReleaseAfterAccesses, Conflict, Accesses, Writes, Reads, StreamOf
    <2>1. CASE node[j] # n
      BY Zenon, <2>1, <1>2, <1>4 DEF IInv, FastReleaseAfterAccesses, Running, Computed
    <2>2. CASE node[j] = n
      <3>1. prog[n].kind = "fastRelease" /\ j = n
        BY Zenon, <2>2, <1>3 DEF IInv, NodesOK
      <3>2. node[i] # n
        BY <3>1, <1>3, NAssumption DEF IInv, NodesOK, Instr
      <3> QED
        BY Zenon, <3>1, <3>2, <2>2, <1>4, BehindComputed
    <2> QED
      BY Zenon, <2>1, <2>2
  <1>15. BarrierAfterAll'
    BY Zenon, <1>2, <1>3 DEF IInv, BarrierAfterAll, BarriersOK, Linked
  <1> QED
    BY Zenon, <1>5, <1>6, <1>7, <1>8, <1>9, <1>10, <1>11, <1>12, <1>13, <1>14, <1>15

(***************************************************************************)
(* A walk along out edges: some edges from computed nodes go, and y is     *)
(* pushed on the ready list if that makes it dispatchable.                 *)
(***************************************************************************)
LEMMA PushStep ==
  ASSUME IInv, TypeOK', NEW y \in Nodes, st[y] # "barrier", Lively(y),
         PushReady(y, DispatchableIn(y, edges')),
         edges' \subseteq edges,
         \A a, b \in Instr : <<a, b>> \in edges /\ <<a, b>> \notin edges' => Computed(a),
         UNCHANGED <<prog, handled, node, macc, cacc>>
  PROVE  /\ NodesOK' /\ BarriersOK' /\ TicketsOK' /\ SchedulerThreadOK'
         /\ Covered' /\ MutableAccessFirst' /\ EdgesOK' /\ Ordered'
         /\ ComputeInProgramOrder' /\ FastReleaseAfterAccesses' /\ BarrierAfterAll'
  <1> DEFINE push == DispatchableIn(y, edges')
  <1>1. y \in Instr /\ y <= handled /\ node[y] = y
    BY Zenon, NodeFacts DEF IInv
  <1>2. \A i \in Instr : node[i] = y => i <= handled /\ st[i] = st[y] /\ StreamOf(i) = StreamOf(y)
    BY Zenon, MemberFacts DEF IInv
  <1>3. \A i \in Instr : st'[i] = IF push /\ node[i] = y THEN "ready" ELSE st[i]
    BY Zenon DEF PushReady, Move, IInv, TypeOK
  <1>4. \A i \in Instr : tick'[i] = IF push /\ i = y THEN clock + 1 ELSE tick[i]
    BY Zenon, <1>1 DEF PushReady, IInv, TypeOK
  <1>5. clock' = IF push THEN clock + 1 ELSE clock
    BY Zenon DEF PushReady
  <1>6. push => st[y] = "waiting" /\ tick[y] = 0
    <2>1. push => st[y] = "waiting"
      BY Zenon, <1>1, NodeFacts DEF DispatchableIn, Linked, Lively, IInv, TypeOK, Status
    <2> QED
      BY <2>1, <1>1 DEF IInv, TicketsOK, Linked, TypeOK
  <1> HIDE DEF push
  <1>7. \A i \in Instr : Computed(i)' <=> Computed(i)
    BY Zenon, <1>2, <1>3, <1>6 DEF Computed
  <1>8. \A i \in Instr : Running(i)' <=> Running(i)
    BY Zenon, <1>2, <1>3, <1>6 DEF Running
  <1>9. NodesOK'
    <2>1. \A i \in Instr : i > handled => i # y /\ node[i] # y
      BY <1>1, <1>2, HandledNat DEF IInv
    <2>2. \A i \in Instr : i > handled => node'[i] = 0 /\ st'[i] = "idle" /\ tick'[i] = 0
      BY ZenonT(40), <2>1, <1>3, <1>4 DEF IInv, NodesOK
    <2>3. \A i \in Instr : i <= handled => st'[i] = st'[node[i]] /\ st'[i] # "idle"
      BY <1>1, <1>3 DEF IInv, NodesOK
    <2> QED
      BY Zenon, <2>2, <2>3 DEF IInv, NodesOK, StreamOf
  <1>10. BarriersOK'
    BY Zenon, <1>1, <1>2, <1>3, <1>6 DEF IInv, BarriersOK
  <1>11. TicketsOK'
    <2>1. \A i \in Instr : tick[i] \in Nat /\ tick[i] <= clock /\ clock \in Nat
      BY Zenon DEF IInv, TicketsOK, TypeOK
    <2>2. CASE ~push
      BY <2>2, <1>3, <1>4, <1>5 DEF IInv, TicketsOK, Nodes, Linked
    <2>3. CASE push
      <3>1. \A i \in Instr : tick'[i] <= clock'
        BY <2>1, <2>3, <1>4, <1>5
      <3>2. \A i \in Nodes' : Linked(i)' => tick'[i] > 0
        BY <2>1, <2>3, <1>1, <1>3, <1>4 DEF IInv, TicketsOK, Nodes, Linked
      <3>3. \A i \in Instr : tick'[i] > 0 => i \in Nodes' /\ (Linked(i)' \/ st'[i] = "released")
        BY <2>1, <2>3, <1>1, <1>3, <1>4, <1>6 DEF IInv, TicketsOK, Nodes, Linked
      <3>4. \A i, j \in Instr : tick'[i] = tick'[j] /\ tick'[i] > 0 => i = j
        BY <2>1, <2>3, <1>4 DEF IInv, TicketsOK
      <3>5. \A k, j \in Instr : tick'[k] > 0 /\ tick'[k] < tick'[j] /\ st'[j] # "ready"
                                  => st'[k] # "ready"
        BY <2>1, <2>3, <1>1, <1>3, <1>4, SMTT(30) DEF IInv, TicketsOK, Nodes
      <3> QED
        BY Zenon, <3>1, <3>2, <3>3, <3>4, <3>5 DEF TicketsOK
    <2> QED
      BY Zenon, <2>2, <2>3
  <1>12. SchedulerThreadOK'
    BY Zenon, <1>3 DEF IInv, SchedulerThreadOK, ThreadFor, StreamOf
  <1>13. Covered'
    BY Zenon, <1>7 DEF IInv, Covered, Writes, Reads, StreamOf
  <1>14. MutableAccessFirst'
    BY Zenon DEF IInv, MutableAccessFirst
  <1>15. \A k, m \in Instr : Ahead(k, m) => Ahead(k, m)'
    <2>1. \A i \in Instr : tick[i] \in Nat /\ tick[i] <= clock /\ clock \in Nat
      BY Zenon DEF IInv, TicketsOK, TypeOK
    <2> QED
      BY <2>1, <1>4, <1>6 DEF Ahead, ThreadFor, StreamOf
  <1>16. EdgesOK'
    <2> SUFFICES ASSUME NEW a \in Instr, NEW b \in Instr, <<a, b>> \in edges'
                 PROVE  /\ a \in Nodes' /\ b \in Nodes' /\ a < b
                        /\ Lively(a)' /\ Lively(b)' /\ st'[a] # "barrier" /\ st'[b] # "barrier"
                        /\ Linked(b)' => Ahead(a, b)' /\ prog'[b].kind # "fastRelease"
      BY Zenon DEF EdgesOK
    <2>1. /\ a \in Nodes /\ b \in Nodes /\ a < b
          /\ Lively(a) /\ Lively(b) /\ st[a] # "barrier" /\ st[b] # "barrier"
          /\ Linked(b) => Ahead(a, b) /\ prog[b].kind # "fastRelease"
      BY Zenon DEF IInv, EdgesOK
    <2>2. Lively(a)' /\ Lively(b)' /\ st'[a] # "barrier" /\ st'[b] # "barrier"
      BY Zenon, <2>1, <1>3 DEF Lively
    <2>3. CASE ~(push /\ b = y)
      <3>1. Linked(b)' => Linked(b)
        BY <2>1, <2>3, <1>3, SMTT(30) DEF Linked, Nodes
      <3> QED
        BY Zenon, <2>1, <2>2, <3>1, <1>15 DEF Nodes
    <2>4. CASE push /\ b = y
      <3>1. EdgeDispatchable(a, b)
        BY Zenon, <2>4 DEF push, DispatchableIn
      <3>2. ThreadFor(a) = ThreadFor(b) /\ prog[b].kind # "fastRelease" /\ Linked(a)
        BY Zenon, <3>1, PreschedSameThread DEF EdgeDispatchable
      <3>3. tick[a] > 0 /\ tick[a] <= clock /\ clock \in Nat /\ tick[a] \in Nat
        BY <3>2, <2>1, SMTT(30) DEF IInv, TicketsOK, TypeOK
      <3>4. a # b
        BY Zenon, <3>2, <2>4 DEF push, DispatchableIn
      <3>5. Ahead(a, b)
        BY <3>2, <3>3, <2>4, <1>6, SMTT(30) DEF Ahead
      <3> QED
        BY Zenon, <2>1, <2>2, <3>2, <3>5, <1>15 DEF Nodes
    <2> QED
      BY Zenon, <2>3, <2>4
  <1>17. Ordered'
    <2>1. \A k, m \in Instr : Behind(k, m) => Behind(k, m)'
      BY Zenon, <1>7, <1>15 DEF Behind
    <2> QED
      BY Zenon, <2>1, OrderedKept DEF IInv
  <1>18. ComputeInProgramOrder'
    BY <1>7, SMTT(30) DEF IInv, ComputeInProgramOrder, Conflict, Accesses, Writes, Reads, StreamOf
  <1>19. FastReleaseAfterAccesses'
    BY ZenonT(60), <1>7, <1>8 DEF IInv, FastReleaseAfterAccesses, Conflict, Accesses, Writes, Reads, StreamOf
  <1>20. BarrierAfterAll'
    BY Zenon, <1>2, <1>3, <1>6 DEF IInv, BarrierAfterAll
  <1> QED
    BY Zenon, <1>9, <1>10, <1>11, <1>12, <1>13, <1>14, <1>16, <1>17, <1>18, <1>19, <1>20

\* Steps that leave the lists, the accesses and the graph alone.
LEMMA CoreUnchanged ==
  ASSUME IInv, UNCHANGED <<prog, handled, node, st, macc, cacc, edges, tick, clock>>
  PROVE  /\ NodesOK' /\ BarriersOK' /\ TicketsOK' /\ SchedulerThreadOK'
         /\ Covered' /\ MutableAccessFirst' /\ EdgesOK' /\ Ordered'
         /\ ComputeInProgramOrder' /\ FastReleaseAfterAccesses' /\ BarrierAfterAll'
  <1> USE DEF IInv, StreamOf, ThreadFor, Nodes, Linked, Computed, Lively, Writes, Reads,
              Accesses, Conflict
  <1>1. NodesOK' /\ BarriersOK' /\ TicketsOK' /\ SchedulerThreadOK'
    BY ZenonT(60) DEF NodesOK, BarriersOK, TicketsOK, SchedulerThreadOK
  <1>2. Covered' /\ MutableAccessFirst'
    BY Zenon DEF Covered, MutableAccessFirst
  <1>3. EdgesOK'
    BY DEF EdgesOK, Ahead
  <1>4. Ordered'
    <2>1. \A k, m \in Instr : Behind(k, m) => Behind(k, m)'
      BY SMTT(30) DEF Behind, Ahead
    <2> QED
      BY Zenon, <2>1, OrderedKept DEF IInv
  <1>5. ComputeInProgramOrder' /\ FastReleaseAfterAccesses' /\ BarrierAfterAll'
    BY ZenonT(60) DEF ComputeInProgramOrder, FastReleaseAfterAccesses, BarrierAfterAll, Running
  <1> QED
    BY <1>1, <1>2, <1>3, <1>4, <1>5, SMTT(30)

\* ... and end no walk with an edge left: nothing becomes dispatchable.
LEMMA CoreUnchangedStep ==
  ASSUME IInv, TypeOK', UNCHANGED <<prog, handled, node, st, macc, cacc, edges, tick, clock>>,
         todo' = todo, phase' # phase \/ cur' # cur => todo = {},
         phase' \notin {"releasing", "prescheduling"} \/ (phase' = phase /\ cur' = cur)
  PROVE  IInv'
  <1>1. AccessesOK'
    BY DEF IInv, AccessesOK, Nodes, Lively, Writes, StreamOf
  <1>2. WalkOK'
    BY Zenon DEF IInv, WalkOK, Nodes, Running
  <1>3. NoMissedDispatch'
    BY SMTT(30) DEF IInv, NoMissedDispatch, Nodes, DispatchableIn, EdgeDispatchable, Prescheduleable,
           Linked, ThreadFor, StreamOf
  <1> QED
    BY Zenon, <1>1, <1>2, <1>3, CoreUnchanged DEF IInv

-----------------------------------------------------------------------------

(***************************************************************************)
(* HandleLocalPending(n) makes the instructions handled+1..n a node.       *)
(***************************************************************************)
LEMMA NextNodeFacts ==
  ASSUME IInv, NEW n \in Instr, NextNode(n)
  PROVE  /\ n > handled /\ handled + 1 \in Instr
         /\ \A i \in Instr : i > handled /\ i <= n =>
              /\ StreamOf(i) = StreamOf(n) /\ prog[i].kind = prog[n].kind
              /\ i # n => prog[i].kind = "op"
         /\ prog[n].kind = "barrier" => NodeWrites(n) = {} /\ NodeReads(n) = {}
  <1>1. n > handled /\ n \in Nat /\ handled \in Nat /\ handled + 1 \in Instr
    BY NAssumption, HandledNat DEF NextNode, InWindow, IInv, Instr
  <1>2. ASSUME NEW i \in Instr, i > handled, i <= n
        PROVE  /\ StreamOf(i) = StreamOf(n) /\ prog[i].kind = prog[n].kind
               /\ i # n => prog[i].kind = "op"
    <2>1. i \in handled + 1 .. n /\ n \in handled + 1 .. n
      BY <1>1, <1>2, HandledNat DEF IInv
    <2>2. CASE n = handled + 1
      BY <2>1, <2>2, <1>1
    <2>3. CASE FusableRun(n)
      <3>1. \A m \in handled + 1 .. n : prog[m].fuse # "no" /\ StreamOf(m) = StreamOf(handled + 1)
        BY Zenon, <2>3 DEF FusableRun, FusableBetween
      <3>2. prog[i].kind = "op" /\ prog[n].kind = "op"
        BY Zenon, <2>1, <3>1, ProgramsAssumption DEF IInv, WellFormed
      <3> QED
        BY Zenon, <2>1, <3>1, <3>2
    <2> QED
      BY Zenon, <2>2, <2>3 DEF NextNode
  <1>3. ASSUME prog[n].kind = "barrier" PROVE NodeWrites(n) = {} /\ NodeReads(n) = {}
    <2>1. \A i \in handled + 1 .. n : i = n
      BY <1>1, <1>2, <1>3, NAssumption DEF Instr
    <2> QED
      BY Zenon, <1>3, <2>1, BarrierNoAccess DEF NodeWrites, NodeReads, IInv
  <1> QED
    BY Zenon, <1>1, <1>2, <1>3

\* What HandleLocalPending does to the access lists, the edges, the nodes and
\* the status of the instructions it takes.
LEMMA HandleFacts ==
  ASSUME IInv, NEW n \in Instr, HandleLocalPending(n)
  PROVE  /\ \A d \in Obj : /\ macc'[d] = IF d \in NodeWrites(n) THEN {n} ELSE macc[d]
                           /\ cacc'[d] = (IF d \in NodeWrites(n) THEN {} ELSE cacc[d])
                                          \cup (IF d \in NodeReads(n) THEN {n} ELSE {})
         /\ edges' = edges \cup NewEdges(n)
         /\ \A i \in Instr : node'[i] = IF i > handled /\ i <= n THEN n ELSE node[i]
         /\ \E v \in {"barrier", "ready", "waiting"} :
              /\ v = "barrier" <=> prog[n].kind = "barrier"
              /\ v = "waiting" <=> NewEdges(n) # {}
              /\ \A i \in Instr : st'[i] = IF i > handled /\ i <= n THEN v ELSE st[i]
              /\ \A i \in Instr : tick'[i] = IF v = "ready" /\ i = n THEN clock + 1 ELSE tick[i]
              /\ clock' = IF v = "ready" THEN clock + 1 ELSE clock
  <1> USE DEF HandleLocalPending
  <1>1. NextNode(n)
    OBVIOUS
  <1>2. prog[n].kind = "barrier" => NodeWrites(n) = {} /\ NodeReads(n) = {} /\ NewEdges(n) = {}
    BY Zenon, <1>1, NextNodeFacts DEF NewEdges, Sources
  <1>3. \A i \in Instr : i \in handled + 1 .. n <=> i > handled /\ i <= n
    BY HandledNat, NAssumption DEF IInv, Instr
  <1>4. \A i \in Instr : node'[i] = IF i > handled /\ i <= n THEN n ELSE node[i]
    BY Zenon, <1>3
  <1>5. \A v \in Status : \A i \in Instr :
          Enter(n, v)[i] = IF i > handled /\ i <= n THEN v ELSE st[i]
    BY Zenon, <1>3 DEF Enter
  <1>6. CASE prog[n].kind = "barrier"
    <2>1. st' = Enter(n, "barrier") /\ UNCHANGED <<macc, cacc, edges, tick, clock>>
      BY Zenon, <1>6 DEF accVars
    <2> QED
      BY Zenon, <1>2, <1>4, <1>5, <1>6, <2>1 DEF Status
  <1>7. CASE prog[n].kind # "barrier" /\ NewEdges(n) = {}
    <2>1. /\ st' = Enter(n, "ready") /\ ConsumeDependences(n) /\ clock' = clock + 1
          /\ tick' = [tick EXCEPT ![n] = clock + 1]
      BY Zenon, <1>7
    <2>2. \A i \in Instr : tick'[i] = IF i = n THEN clock + 1 ELSE tick[i]
      BY Zenon, <2>1 DEF IInv, TypeOK
    <2> QED
      BY <1>4, <1>5, <1>7, <2>1, <2>2 DEF Status, ConsumeDependences
  <1>8. CASE prog[n].kind # "barrier" /\ NewEdges(n) # {}
    <2>1. st' = Enter(n, "waiting") /\ ConsumeDependences(n) /\ UNCHANGED <<tick, clock>>
      BY Zenon, <1>8
    <2> QED
      BY Zenon, <1>4, <1>5, <1>8, <2>1 DEF Status, ConsumeDependences
  <1> QED
    BY <1>6, <1>7, <1>8, Zenon

\* The sources ConsumeDependences connects from are nodes in flight.
LEMMA SourceFacts ==
  ASSUME IInv, NEW n \in Instr, NEW x \in Sources(n)
  PROVE  x \in Nodes /\ Lively(x) /\ st[x] # "barrier" /\ x \in Instr /\ x <= handled
  <1>1. \A i \in handled + 1 .. n : Writes(i) \subseteq Obj /\ Reads(i) \subseteq Obj
    <2>1. \A i \in handled + 1 .. n : i \in Instr
      BY HandledNat, NAssumption DEF IInv, Instr
    <2> QED
      BY Zenon, <2>1, AccessObj DEF IInv
  <1>2. \E d \in Obj : x \in macc[d] \cup cacc[d]
    BY Zenon, <1>1 DEF Sources, NodeWrites, NodeReads, FirstIsMutable
  <1>3. x \in Nodes /\ Lively(x) /\ st[x] # "barrier"
    BY Zenon, <1>2 DEF IInv, AccessesOK
  <1> QED
    BY Zenon, <1>3, NodeFacts DEF IInv

\* HandleLocalPending, with fusion and ConsumeDependences, preserves the
\* invariant.
LEMMA HandleStep ==
  ASSUME IInv, TypeOK', NEW n \in Instr, HandleLocalPending(n)
  PROVE  IInv'
  <1> DEFINE new(i) == i > handled /\ i <= n
  <1>1. /\ n > handled
        /\ \A i \in Instr : new(i) => /\ StreamOf(i) = StreamOf(n) /\ prog[i].kind = prog[n].kind
                                      /\ i # n => prog[i].kind = "op"
        /\ prog[n].kind = "barrier" => NodeWrites(n) = {} /\ NodeReads(n) = {}
    BY Zenon, NextNodeFacts DEF HandleLocalPending
  <1>2. handled' = n /\ prog' = prog /\ phase = "pending" /\ phase' = phase /\ cur' = cur /\ todo' = todo
    BY Zenon DEF HandleLocalPending, clientVars
  <1>3. \A d \in Obj : /\ macc'[d] = IF d \in NodeWrites(n) THEN {n} ELSE macc[d]
                       /\ cacc'[d] = (IF d \in NodeWrites(n) THEN {} ELSE cacc[d])
                                      \cup (IF d \in NodeReads(n) THEN {n} ELSE {})
    BY HandleFacts, Zenon
  <1>4. edges' = edges \cup NewEdges(n)
    BY HandleFacts, Zenon
  <1>5. \A i \in Instr : node'[i] = IF new(i) THEN n ELSE node[i]
    BY HandleFacts, Zenon
  <1>6. PICK v \in {"barrier", "ready", "waiting"} :
              /\ v = "barrier" <=> prog[n].kind = "barrier"
              /\ v = "waiting" <=> NewEdges(n) # {}
              /\ \A i \in Instr : st'[i] = IF new(i) THEN v ELSE st[i]
              /\ \A i \in Instr : tick'[i] = IF v = "ready" /\ i = n THEN clock + 1 ELSE tick[i]
              /\ clock' = IF v = "ready" THEN clock + 1 ELSE clock
    BY HandleFacts, Zenon
  <1>7. \A i \in Instr : new(i) => node[i] = 0 /\ st[i] = "idle" /\ tick[i] = 0
    BY Zenon DEF IInv, NodesOK
  <1>8. \A i \in Instr : i \in Nat \ {0} /\ handled \in Nat
    BY Zenon, HandledNat DEF IInv
  <1>9. new(n) /\ ~new(0) /\ \A i \in Instr : i <= handled <=> (i <= n /\ ~new(i))
    BY <1>1, <1>8
  <1>10. \A i \in Nodes : i \in Instr /\ i <= handled /\ ~new(i) /\ i < n
    BY <1>1, <1>8, NodeFacts DEF IInv
  <1>11. Nodes' = Nodes \cup {n}
    BY Zenon, <1>5, <1>7, <1>8, <1>9, <1>10 DEF Nodes
  <1>12. \A i, d : i \in Instr => (d \in Writes(i)' <=> d \in Writes(i)) /\ (d \in Reads(i)' <=> d \in Reads(i))
    BY Zenon, <1>2 DEF Writes, Reads, StreamOf
  <1>13. \A i, j \in Instr : Conflict(i, j)' <=> Conflict(i, j)
    BY <1>2 DEF Conflict, Accesses, Writes, Reads, StreamOf
  <1>14. \A i \in Instr : /\ Computed(i)' <=> Computed(i)
                          /\ Running(i)' <=> Running(i)
                          /\ st'[i] = "released" <=> st[i] = "released"
    BY Zenon, <1>6, <1>7 DEF Computed, Running
  <1>33. \A i : i \in handled + 1 .. n <=> i \in Instr /\ new(i)
    BY HandledNat, NAssumption DEF IInv, Instr
  <1>15. \A d : d \in NodeWrites(n) <=> \E i \in Instr : new(i) /\ d \in Writes(i)
    BY Zenon, <1>33 DEF NodeWrites
  <1>16. \A d : d \in NodeReads(n) <=> \E i \in Instr : new(i) /\ d \in Reads(i)
    BY Zenon, <1>33 DEF NodeReads
  <1>17. \A e \in NewEdges(n) : \E x \in Sources(n) : e = <<x, n>> /\ ~EdgeDispatchable(x, n)
    BY Zenon DEF NewEdges
  <1> HIDE DEF new
  <1>20. NodesOK'
    <2>1. ASSUME NEW i \in Instr, i <= n
          PROVE  /\ node'[i] \in Instr /\ i <= node'[i] /\ node'[i] <= n
                 /\ node'[node'[i]] = node'[i] /\ st'[i] = st'[node'[i]] /\ st'[i] # "idle"
                 /\ StreamOf(i) = StreamOf(node'[i]) /\ prog[i].kind = prog[node'[i]].kind
                 /\ i # node'[i] => prog[i].kind = "op"
      <3>1. CASE new(i)
        BY <2>1, <3>1, <1>1, <1>5, <1>6, <1>8, <1>9
      <3>2. CASE ~new(i)
        <4>1. i <= handled
          BY Zenon, <2>1, <3>2, <1>9
        <4>2. /\ node[i] \in Instr /\ i <= node[i] /\ node[i] <= handled
              /\ node[node[i]] = node[i] /\ st[i] = st[node[i]] /\ st[i] # "idle"
              /\ StreamOf(i) = StreamOf(node[i]) /\ prog[i].kind = prog[node[i]].kind
              /\ i # node[i] => prog[i].kind = "op"
          BY Zenon, <4>1 DEF IInv, NodesOK
        <4>3. ~new(node[i]) /\ node[i] <= n
          BY Zenon, <4>2, <1>9
        <4> QED
          BY Zenon, <4>2, <4>3, <3>2, <1>5, <1>6
      <3> QED
        BY Zenon, <3>1, <3>2
    <2>2. \A i \in Instr : i > n => node'[i] = 0 /\ st'[i] = "idle" /\ tick'[i] = 0
      <3> SUFFICES ASSUME NEW i \in Instr, i > n PROVE node'[i] = 0 /\ st'[i] = "idle" /\ tick'[i] = 0
        OBVIOUS
      <3>1. ~new(i) /\ i > handled /\ i # n
        BY <1>8, <1>1 DEF new
      <3> QED
        BY ZenonT(40), <3>1, <1>5, <1>6 DEF IInv, NodesOK
    <2>3. ASSUME NEW i \in Instr, NEW j \in Instr, i < j, j <= n
          PROVE  node'[i] = node'[j] \/ node'[i] < j
      <3>1. CASE new(i)
        <4>1. new(j)
          BY <2>3, <3>1, <1>8 DEF new
        <4> QED
          BY Zenon, <3>1, <4>1, <1>5
      <3>2. CASE ~new(i) /\ ~new(j)
        BY <2>3, <3>2, <1>5, <1>9 DEF IInv, NodesOK
      <3>3. CASE ~new(i) /\ new(j)
        <4>1. i <= handled /\ handled < j
          BY <2>3, <3>3, <1>8 DEF new
        <4>2. node[i] \in Instr /\ node[i] <= handled
          BY Zenon, <4>1 DEF IInv, NodesOK
        <4> QED
          BY <4>1, <4>2, <3>3, <1>5, <1>8
      <3> QED
        BY Zenon, <3>1, <3>2, <3>3
    <2> QED
      BY Zenon, <2>1, <2>2, <2>3, <1>2 DEF NodesOK, StreamOf
  <1>21. BarriersOK'
    BY Zenon, <1>1, <1>2, <1>6 DEF IInv, BarriersOK
  <1>22. TicketsOK'
    <2>1. \A i \in Instr : tick[i] \in Nat /\ tick[i] <= clock /\ clock \in Nat
      BY Zenon DEF IInv, TicketsOK, TypeOK
    <2>2. \A i \in Instr : tick'[i] <= clock'
      BY <2>1, <1>6
    <2>3. \A i \in Nodes' : Linked(i)' => tick'[i] > 0
      BY <2>1, <1>6, <1>9, <1>10, <1>11, SMTT(30) DEF IInv, TicketsOK, Linked
    <2>4. \A i \in Instr : tick'[i] > 0 => i \in Nodes' /\ (Linked(i)' \/ st'[i] = "released")
      BY Zenon, <2>1, <1>6, <1>7, <1>9, <1>11 DEF IInv, TicketsOK, Linked
    <2>5. \A i, j \in Instr : tick'[i] = tick'[j] /\ tick'[i] > 0 => i = j
      BY <2>1, <1>6 DEF IInv, TicketsOK
    <2>6. \A k, j \in Instr : tick'[k] > 0 /\ tick'[k] < tick'[j] /\ st'[j] # "ready"
                                => st'[k] # "ready"
      <3> SUFFICES ASSUME NEW k \in Instr, NEW j \in Instr, tick'[k] > 0, tick'[k] < tick'[j],
                          st'[j] # "ready"
                   PROVE  st'[k] # "ready"
        OBVIOUS
      <3>1. j # n \/ v # "ready"
        BY Zenon, <1>6, <1>9
      <3>2. tick'[j] = tick[j] /\ tick[j] > 0 /\ ~new(j)
        BY <3>1, <2>1, <1>6, <1>7
      <3>3. tick'[k] = tick[k] /\ ~new(k)
        BY <3>2, <2>1, <1>6, <1>7
      <3> QED
        BY Zenon, <3>2, <3>3, <1>6 DEF IInv, TicketsOK
    <2> QED
      BY Zenon, <2>2, <2>3, <2>4, <2>5, <2>6 DEF TicketsOK
  <1>23. SchedulerThreadOK'
    BY Zenon, <1>2, <1>6 DEF IInv, SchedulerThreadOK, ThreadFor, StreamOf
  <1>24. AccessesOK'
    <2> SUFFICES ASSUME NEW d \in Obj, NEW x \in macc'[d] \cup cacc'[d]
                 PROVE  /\ x \in Nodes' /\ Lively(x)' /\ st'[x] # "barrier"
                        /\ x \in macc'[d] => \E i \in Instr : node'[i] = x /\ d \in Writes(i)'
      BY Zenon, <1>2 DEF AccessesOK
    <2>1. CASE x = n
      <3>1. n \in macc[d] \cup cacc[d] => FALSE
        BY <1>8, <1>10 DEF IInv, AccessesOK
      <3>2. d \in NodeWrites(n) \cup NodeReads(n)
        BY Zenon, <2>1, <3>1, <1>3
      <3>3. st'[n] \in {"ready", "waiting"}
        BY Zenon, <3>2, <1>1, <1>6, <1>9
      <3>4. x \in macc'[d] => d \in NodeWrites(n)
        BY Zenon, <2>1, <3>1, <1>3
      <3> QED
        BY Zenon, <2>1, <3>3, <3>4, <1>5, <1>11, <1>12, <1>15 DEF Lively
    <2>2. CASE x # n
      <3>1. x \in macc[d] \cup cacc[d] /\ (x \in macc'[d] => x \in macc[d])
        BY Zenon, <2>2, <1>3
      <3>2. /\ x \in Nodes /\ Lively(x) /\ st[x] # "barrier"
            /\ x \in macc[d] => \E i \in Instr : node[i] = x /\ d \in Writes(i)
        BY Zenon, <3>1 DEF IInv, AccessesOK
      <3>3. \A i \in Instr : node[i] = x => ~new(i)
        BY Zenon, <3>2, <1>7, <1>8, <1>10
      <3> QED
        BY Zenon, <3>1, <3>2, <3>3, <1>5, <1>6, <1>10, <1>11, <1>12 DEF Lively
    <2> QED
      BY Zenon, <2>1, <2>2
  <1>25. Covered'
    <2> SUFFICES ASSUME NEW i \in Instr, NEW d \in Obj, i <= n, ~Computed(i)
                 PROVE  /\ d \in Writes(i) => node'[i] \in macc'[d] \/ \E k \in macc'[d] : k > node'[i]
                        /\ d \in Reads(i) => node'[i] \in cacc'[d] \/ \E k \in macc'[d] : k > node'[i]
      BY Zenon, <1>2, <1>12, <1>14 DEF Covered
    <2>1. CASE new(i)
      BY <2>1, <1>3, <1>5, <1>15, <1>16
    <2>2. CASE ~new(i)
      <3>1. i <= handled /\ node'[i] = node[i]
        BY <2>2, <1>5, <1>9, SMTT(30)
      <3>2. node[i] \in Instr /\ n > node[i]
        BY <3>1, <1>1, <1>8 DEF IInv, NodesOK
      <3>3. CASE d \in NodeWrites(n)
        BY Zenon, <3>1, <3>2, <3>3, <1>3
      <3>4. CASE d \notin NodeWrites(n)
        BY Zenon, <3>1, <3>4, <1>3 DEF IInv, Covered
      <3> QED
        BY Zenon, <3>3, <3>4
    <2> QED
      BY Zenon, <2>1, <2>2
  <1>26. MutableAccessFirst'
    <2> SUFFICES ASSUME NEW d \in Obj, NEW w \in macc'[d], NEW z \in macc'[d] \cup cacc'[d]
                 PROVE  w <= z
      BY Zenon DEF MutableAccessFirst
    <2>1. CASE d \in NodeWrites(n)
      BY <2>1, <1>3, <1>8
    <2>2. CASE d \notin NodeWrites(n)
      <3>1. w \in macc[d] /\ w < n /\ w \in Instr
        BY Zenon, <2>2, <1>3, <1>10 DEF IInv, AccessesOK
      <3>2. z \in macc[d] \cup cacc[d] \/ z = n
        BY Zenon, <2>2, <1>3
      <3> QED
        BY <3>1, <3>2, <1>8, SMTT(30) DEF IInv, MutableAccessFirst
    <2> QED
      BY Zenon, <2>1, <2>2
  <1>18. \A k \in Nodes : st'[k] = st[k] /\ tick'[k] = tick[k] /\ node'[k] = node[k] /\ k # n
    BY <1>5, <1>6, <1>8, <1>10
  <1>19. \A k, m \in Nodes : Ahead(k, m)' <=> Ahead(k, m)
    BY Zenon, <1>2, <1>18 DEF Ahead, ThreadFor, StreamOf
  <1>27. EdgesOK'
    <2> SUFFICES ASSUME NEW x \in Instr, NEW y \in Instr, <<x, y>> \in edges'
                 PROVE  /\ x \in Nodes' /\ y \in Nodes' /\ x < y
                        /\ Lively(x)' /\ Lively(y)' /\ st'[x] # "barrier" /\ st'[y] # "barrier"
                        /\ Linked(y)' => Ahead(x, y)' /\ prog'[y].kind # "fastRelease"
      BY Zenon DEF EdgesOK
    <2>1. CASE <<x, y>> \in edges
      <3>1. /\ x \in Nodes /\ y \in Nodes /\ x < y
            /\ Lively(x) /\ Lively(y) /\ st[x] # "barrier" /\ st[y] # "barrier"
            /\ Linked(y) => Ahead(x, y) /\ prog[y].kind # "fastRelease"
        BY Zenon, <2>1 DEF IInv, EdgesOK
      <3> QED
        BY Zenon, <3>1, <1>2, <1>11, <1>18, <1>19 DEF Lively, Linked
    <2>2. CASE <<x, y>> \in NewEdges(n)
      <3>1. y = n /\ x \in Sources(n)
        BY Zenon, <2>2, <1>17
      <3>2. x \in Nodes /\ Lively(x) /\ st[x] # "barrier"
        BY Zenon, <3>1, SourceFacts
      <3>3. st'[n] = "waiting"
        BY Zenon, <2>2, <1>6, <1>9
      <3> QED
        BY Zenon, <3>1, <3>2, <3>3, <1>10, <1>11, <1>18 DEF Lively, Linked
    <2> QED
      BY Zenon, <2>1, <2>2, <1>4
  <1>28. WalkOK'
    BY Zenon, <1>2 DEF IInv, WalkOK
  <1>29. Ordered'
    <2> SUFFICES ASSUME NEW i \in Instr, NEW j \in Instr, i < j, j <= n,
                        Conflict(i, j), node'[i] # node'[j]
                 PROVE  \E k \in Nodes' : k < node'[j] /\ Stands(k, i)' /\ Behind(k, node[j])'
      BY Zenon, <1>2, <1>13 DEF Ordered
    <2>1. \A k \in Nodes : Stands(k, i) /\ i <= handled => Stands(k, i)'
      <3>1. \A c \in Instr : node[c] \in Nodes => ~new(c)
        BY Zenon, <1>7, <1>8, <1>10
      <3> QED
        BY Zenon, <3>1, <1>5, <1>9, <1>13 DEF Stands
    <2>2. ~new(i) /\ i <= handled /\ node'[i] = node[i]
      <3>1. ~new(i)
        BY <1>5, <1>8 DEF new
      <3> QED
        BY <3>1, <1>5, <1>8 DEF new
    <2>3. CASE ~new(j)
      <3>1. j <= handled /\ node'[j] = node[j] /\ node[j] \in Nodes
        BY Zenon, <2>3, <1>5, <1>9 DEF IInv, NodesOK, Nodes
      <3>2. PICK k \in Nodes : k < node[j] /\ Stands(k, i) /\ Behind(k, node[j])
        BY Zenon, <2>2, <3>1 DEF IInv, Ordered
      <3>3. Behind(k, node[j])'
        BY <3>1, <3>2, <1>2, <1>4, <1>10, <1>14, <1>19, Zenon DEF Behind
      <3> QED
        BY <2>1, <2>2, <3>1, <3>2, <3>3, <1>11, SMTT(30)
    <2>4. CASE new(j)
      <3>1. node'[j] = n
        BY Zenon, <2>4, <1>5
      <3>2. node[i] \in Nodes /\ node[i] < n /\ node[i] \in Instr
        BY <2>2, <1>10, SMTT(30) DEF IInv, NodesOK, Nodes
      <3>3. CASE Computed(i)
        <4>1. Computed(node[i])'
          BY Zenon, <2>2, <3>2, <3>3, <1>14 DEF IInv, NodesOK, Computed
        <4>2. Stands(node[i], i)'
          BY Zenon, <2>2 DEF Stands
        <4> QED
          BY Zenon, <2>2, <3>1, <3>2, <4>1, <4>2, <1>11 DEF Behind
      <3>4. CASE ~Computed(i)
        <4>1. PICK d \in Obj : \/ d \in Writes(j) /\ d \in Accesses(i)
                               \/ d \in Reads(j) /\ d \in Writes(i)
          BY Zenon, AccessObj DEF IInv, Conflict, Accesses
        <4>2. \E k \in Sources(n) : k = node[i] \/ (k > node[i] /\ k \in macc[d])
          <5>1. \A k \in macc[d] \cup cacc[d] : k \in Instr
            BY Zenon DEF IInv, AccessesOK, Nodes
          <5>2. /\ d \in Writes(i) => node[i] \in macc[d] \/ \E k \in macc[d] : k > node[i]
                /\ d \in Reads(i) => node[i] \in cacc[d] \/ \E k \in macc[d] : k > node[i]
            BY Zenon, <2>2, <3>4 DEF IInv, Covered
          <5>3. CASE d \in NodeWrites(n)
            <6>1. \A k \in macc[d] \cup cacc[d] : k \in Sources(n)
              BY Zenon, <5>1, <5>3 DEF Sources
            <6> QED
              BY Zenon, <4>1, <5>2, <6>1 DEF Accesses
          <5>4. CASE d \notin NodeWrites(n)
            <6>1. d \in NodeReads(n) /\ d \in Writes(i)
              BY Zenon, <4>1, <5>4, <2>4, <1>15, <1>16
            <6>2. \A k \in macc[d] : FirstIsMutable(d, k)
              BY Zenon DEF IInv, MutableAccessFirst, FirstIsMutable
            <6>3. \A k \in macc[d] : k \in Sources(n)
              BY Zenon, <5>1, <5>4, <6>1, <6>2 DEF Sources
            <6> QED
              BY <5>2, <6>1, <6>3, Zenon
          <5> QED
            BY Zenon, <5>3, <5>4
        <4>3. PICK k \in Sources(n) : k = node[i] \/ (k > node[i] /\ k \in macc[d])
          BY Zenon, <4>2
        <4>4. k \in Nodes /\ k < n /\ k \in Instr /\ Lively(k)
          BY Zenon, SourceFacts, <1>10
        <4>5. Stands(k, i)'
          <5>1. CASE k = node[i]
            BY Zenon, <5>1, <2>2 DEF Stands
          <5>2. CASE k # node[i]
            <6>1. k > node[i] /\ k \in macc[d]
              BY Zenon, <4>3, <5>2
            <6>2. PICK c \in Instr : node[c] = k /\ d \in Writes(c)
              BY Zenon, <6>1 DEF IInv, AccessesOK
            <6>3. Conflict(i, c)
              BY Zenon, <4>1, <6>2 DEF Conflict, Accesses
            <6>4. i < c
              <7>1. i <= node[i]
                BY Zenon, <2>2 DEF IInv, NodesOK
              <7>2. c < i => k = node[i] \/ k < i
                BY Zenon, <2>2, <6>2 DEF IInv, NodesOK
              <7> QED
                BY <7>1, <7>2, <6>1, <6>2, <5>2, <3>2, <4>4, <1>8, SMTT(30)
            <6> QED
              BY Zenon, <2>1, <2>2, <4>4, <6>2, <6>3, <6>4 DEF Stands
          <5> QED
            BY Zenon, <5>1, <5>2
        <4>6. Behind(k, n)'
          <5>1. CASE <<k, n>> \in NewEdges(n)
            BY SMTT(30), <5>1, <1>4 DEF Behind
          <5>2. CASE <<k, n>> \notin NewEdges(n)
            <6>1. EdgeDispatchable(k, n)
              BY Zenon, <5>2, <4>4 DEF NewEdges, Sources
            <6>2. ThreadFor(k) = ThreadFor(n) /\ prog[n].kind # "fastRelease" /\ Linked(k)
              BY <6>1, <4>4, PreschedSameThread, Zenon DEF EdgeDispatchable
            <6>3. tick[k] > 0 /\ tick[k] <= clock /\ tick[k] \in Nat /\ clock \in Nat
              BY Zenon, <6>2, <4>4, TicketFacts DEF IInv
            <6>4. tick'[k] = tick[k] /\ (tick'[n] = 0 \/ tick'[n] = clock + 1)
              BY Zenon, <4>4, <1>6, <1>7, <1>9, <1>18
            <6> QED
              BY SMTT(30), <6>2, <6>3, <6>4, <1>2 DEF Behind, Ahead, ThreadFor, StreamOf
          <5> QED
            BY Zenon, <5>1, <5>2
        <4> QED
          BY Zenon, <3>1, <4>4, <4>5, <4>6, <1>11
      <3> QED
        BY Zenon, <3>3, <3>4
    <2> QED
      BY Zenon, <2>3, <2>4
  <1>30. ComputeInProgramOrder' /\ FastReleaseAfterAccesses'
    BY Zenon, <1>2, <1>13, <1>14 DEF IInv, ComputeInProgramOrder, FastReleaseAfterAccesses
  <1>31. BarrierAfterAll'
    BY Zenon, <1>2, <1>14 DEF IInv, BarrierAfterAll
  <1>32. NoMissedDispatch'
    <2> SUFFICES ASSUME NEW z \in Nodes', st'[z] = "waiting", DispatchableIn(z, edges)'
                 PROVE  \E x \in Instr : /\ <<x, z>> \in edges'
                                         /\ st'[x] = "ready" \/ (x = cur /\ z \in todo)
      BY Zenon, <1>2 DEF NoMissedDispatch
    <2>1. \A x \in Nodes : \A y \in Instr : EdgeDispatchable(x, y)' <=> EdgeDispatchable(x, y)
      BY Zenon, <1>2, <1>18 DEF EdgeDispatchable, Prescheduleable, Linked, ThreadFor, StreamOf
    <2>2. z # n
      <3> SUFFICES ASSUME z = n PROVE FALSE
        OBVIOUS
      <3>1. PICK e \in NewEdges(n) : TRUE
        BY Zenon, <1>6, <1>9
      <3>2. PICK x \in Sources(n) : e = <<x, n>> /\ ~EdgeDispatchable(x, n)
        BY Zenon, <1>17
      <3>3. x \in Nodes /\ x \in Instr
        BY Zenon, SourceFacts
      <3> QED
        BY Zenon, <3>1, <3>2, <3>3, <2>1, <1>4 DEF DispatchableIn
    <2>3. z \in Nodes /\ st[z] = "waiting" /\ z \in Instr
      BY Zenon, <2>2, <1>10, <1>11, <1>18
    <2>4. DispatchableIn(z, edges)
      <3> SUFFICES ASSUME NEW x \in Instr, <<x, z>> \in edges PROVE EdgeDispatchable(x, z)
        BY Zenon, <2>3 DEF DispatchableIn, Linked
      <3>1. x \in Nodes
        BY Zenon, <2>3 DEF IInv, EdgesOK
      <3> QED
        BY Zenon, <3>1, <2>1, <2>3, <1>4 DEF DispatchableIn
    <2>5. PICK x \in Instr : <<x, z>> \in edges /\ (st[x] = "ready" \/ (x = cur /\ z \in todo))
      BY <2>3, <2>4, Zenon DEF IInv, NoMissedDispatch
    <2>6. x \in Nodes
      BY Zenon, <2>3, <2>5 DEF IInv, EdgesOK
    <2> QED
      BY Zenon, <2>5, <2>6, <1>4, <1>18
  <1> QED
    BY Zenon, <1>2, <1>20, <1>21, <1>22, <1>23, <1>24, <1>25, <1>26, <1>27, <1>28, <1>29, <1>30,
       <1>31, <1>32 DEF IInv

=============================================================================
