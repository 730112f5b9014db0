--------------------------- MODULE VmEngineProofs ---------------------------
(***************************************************************************)
(* The theorems about VmEngine, for every number of instructions, every set *)
(* of streams, threads and dependences and every set of programs.          *)
(***************************************************************************)
EXTENDS VmEngineInv

\* Taking a finished instruction off its access lists preserves the invariant.
LEMMA ReleaseBeginStep ==
  ASSUME IInv, TypeOK', NEW n \in Instr, ReleaseBegin(n)
  PROVE  IInv'
  <1> USE DEF ReleaseBegin, clientVars, listVars
  <1>1. n \in Nodes /\ st[n] = "done" /\ \A x \in Instr : <<x, n>> \notin edges
    BY Zenon DEF RunningHead, Releasable
  <1>2. \A d \in Obj : macc'[d] = macc[d] \ {n} /\ cacc'[d] = cacc[d] \ {n}
    OBVIOUS
  <1>3. NodesOK' /\ BarriersOK' /\ TicketsOK' /\ SchedulerThreadOK'
    BY DEF IInv, NodesOK, BarriersOK, TicketsOK, SchedulerThreadOK, StreamOf, ThreadFor, Nodes, Linked
  <1>4. AccessesOK'
    BY <1>2 DEF IInv, AccessesOK, Nodes, Lively, Writes, StreamOf
  <1>5. Covered'
    <2> SUFFICES ASSUME NEW i \in Instr, NEW d \in Obj, i <= handled, ~Computed(i)
                 PROVE  /\ d \in Writes(i) => node[i] \in macc'[d] \/ \E k \in macc'[d] : k > node[i]
                        /\ d \in Reads(i) => node[i] \in cacc'[d] \/ \E k \in macc'[d] : k > node[i]
      BY Zenon DEF Covered, Computed, Writes, Reads, StreamOf
    <2>1. node[i] # n
      BY ZenonT(40), <1>1 DEF IInv, NodesOK, Computed
    <2>2. d \in Accesses(i) /\ n \in macc[d] => ~(n > node[i])
      <3> SUFFICES ASSUME d \in Accesses(i), n \in macc[d], n > node[i] PROVE FALSE
        OBVIOUS
      <3>1. PICK c \in Instr : node[c] = n /\ d \in Writes(c)
        BY Zenon DEF IInv, AccessesOK
      <3>2. Conflict(i, c)
        BY Zenon, <3>1 DEF Conflict
      <3>3. c <= handled /\ st[c] = "done"
        BY Zenon, <3>1, <1>1, MemberFacts DEF IInv
      <3>4. i < c
        <4>1. i <= node[i] /\ node[i] \in Instr
          BY Zenon DEF IInv, NodesOK
        <4>2. c < i => node[i] = n \/ n < i
          BY Zenon, <3>1 DEF IInv, NodesOK
        <4> QED
          BY <4>1, <4>2, <2>1, <3>1, HandledNat DEF IInv
      <3> QED
        BY Zenon, <3>2, <3>3, <3>4 DEF IInv, ComputeInProgramOrder, Computed
    <2> QED
      BY Zenon, <1>2, <2>1, <2>2 DEF IInv, Covered, Accesses
  <1>6. MutableAccessFirst'
    BY Zenon, <1>2 DEF IInv, MutableAccessFirst
  <1>7. EdgesOK'
    BY DEF IInv, EdgesOK, Ahead, Nodes, Lively, Linked, ThreadFor, StreamOf
  <1>8. WalkOK'
    BY Zenon, <1>1 DEF WalkOK, Nodes
  <1>9. Ordered'
    <2>1. \A k, m \in Instr : Behind(k, m) => Behind(k, m)'
      BY Zenon DEF Behind, Ahead, Computed, ThreadFor, StreamOf
    <2> QED
      BY Zenon, <2>1, OrderedKept DEF IInv
  <1>10. ComputeInProgramOrder' /\ FastReleaseAfterAccesses' /\ BarrierAfterAll'
    BY ZenonT(60) DEF IInv, ComputeInProgramOrder, FastReleaseAfterAccesses, BarrierAfterAll, Running,
           Computed, Conflict, Accesses, Writes, Reads, StreamOf
  <1>11. NoMissedDispatch'
    <2>1. todo = {}
      BY Zenon DEF IInv, WalkOK
    <2> QED
      BY <2>1, SMTT(30) DEF IInv, NoMissedDispatch, Nodes, DispatchableIn, EdgeDispatchable, Prescheduleable,
             Linked, ThreadFor, StreamOf
  <1> QED
    BY Zenon, <1>3, <1>4, <1>5, <1>6, <1>7, <1>8, <1>9, <1>10, <1>11 DEF IInv

\* A push makes the successors of y candidates, and y is ready; no other node is
\* affected by an edge to y that goes.
LEMMA PushNoMissed ==
  ASSUME IInv, TypeOK', NEW y \in Nodes, st[y] # "barrier", Lively(y),
         PushReady(y, DispatchableIn(y, edges')),
         edges' \subseteq edges,
         \A a, b \in Instr : <<a, b>> \in edges /\ <<a, b>> \notin edges' => b = y,
         UNCHANGED <<prog, handled, node, cur>>, todo' = todo \ {y}
  PROVE  NoMissedDispatch'
  <1> SUFFICES ASSUME NEW z \in Nodes, st'[z] = "waiting", DispatchableIn(z, edges)'
               PROVE  \E x \in Instr : /\ <<x, z>> \in edges'
                                       /\ st'[x] = "ready" \/ (x = cur /\ z \in todo')
    BY Zenon DEF NoMissedDispatch, Nodes
  <1>1. y \in Instr /\ node[y] = y /\ z \in Instr /\ node[z] = z
    BY Zenon DEF Nodes
  <1>2. DispatchableIn(y, edges') =>
           /\ st[y] = "waiting"
           /\ \A i \in Instr : st'[i] = IF node[i] = y THEN "ready" ELSE st[i]
    BY <1>1, NodeFacts DEF PushReady, Move, IInv, TypeOK, DispatchableIn, Linked, Lively, Status
  <1>3. ~DispatchableIn(y, edges') => st' = st
    BY Zenon DEF PushReady
  <1>4. z # y
    <2> SUFFICES ASSUME z = y PROVE FALSE
      OBVIOUS
    <2>1. st' = st
      BY Zenon, <1>1, <1>2, <1>3
    <2>2. DispatchableIn(y, edges')
      BY Zenon, <2>1 DEF DispatchableIn, EdgeDispatchable, Prescheduleable, Linked, ThreadFor, StreamOf
    <2> QED
      BY Zenon, <1>1, <1>2, <2>1, <2>2
  <1>5. \A x \in Instr : <<x, z>> \in edges => <<x, z>> \in edges' /\ x \in Nodes
    BY Zenon, <1>1, <1>4 DEF IInv, EdgesOK
  <1>6. CASE DispatchableIn(y, edges') /\ <<y, z>> \in edges'
    BY Zenon, <1>1, <1>2, <1>6
  <1>7. CASE ~(DispatchableIn(y, edges') /\ <<y, z>> \in edges')
    <2>1. \A x \in Instr : <<x, z>> \in edges => st'[x] = st[x]
      BY Zenon, <1>2, <1>3, <1>5, <1>7 DEF Nodes
    <2>2. st[z] = "waiting"
      BY Zenon, <1>1, <1>2, <1>3, <1>4
    <2>3. DispatchableIn(z, edges)
      <3> SUFFICES ASSUME NEW x \in Instr, <<x, z>> \in edges PROVE EdgeDispatchable(x, z)
        BY Zenon, <2>2 DEF DispatchableIn, Linked
      <3>1. EdgeDispatchable(x, z)'
        BY Zenon, <1>5 DEF DispatchableIn
      <3> QED
        BY Zenon, <3>1, <2>1 DEF EdgeDispatchable, Prescheduleable, Linked, ThreadFor, StreamOf
    <2>4. PICK x \in Instr : <<x, z>> \in edges /\ (st[x] = "ready" \/ (x = cur /\ z \in todo))
      BY Zenon, <2>2, <2>3 DEF IInv, NoMissedDispatch
    <2> QED
      BY Zenon, <1>4, <1>5, <2>1, <2>4
  <1> QED
    BY <1>6, <1>7, Zenon

\* Accesses stay in place while the nodes that hold them stay alive.
LEMMA AccessesKept ==
  ASSUME AccessesOK, UNCHANGED <<prog, node, macc, cacc>>,
         \A x \in Nodes : Lively(x) /\ st[x] # "barrier" /\ (phase = "releasing" => x # cur)
                           => Lively(x)' /\ st'[x] # "barrier",
         phase' = "releasing" => phase = "releasing" /\ cur' = cur
  PROVE  AccessesOK'
  <1>1. Nodes' = Nodes
    BY Zenon DEF Nodes
  <1>2. \A i \in Instr : Writes(i)' = Writes(i)
    BY Zenon DEF Writes, StreamOf
  <1> QED
    BY <1>1, <1>2 DEF AccessesOK

\* Nothing becomes dispatchable and no pending look at a node is lost.
LEMMA NoMissedKept ==
  ASSUME NoMissedDispatch, UNCHANGED <<prog, node, edges>>,
         \A y \in Nodes : st'[y] = "waiting" => st[y] = "waiting",
         \A x, y \in Instr : <<x, y>> \in edges =>
             /\ Linked(x)' <=> Linked(x)
             /\ st[x] = "ready" \/ (x = cur /\ y \in todo)
                  => st'[x] = "ready" \/ (x = cur' /\ y \in todo')
  PROVE  NoMissedDispatch'
  <1> SUFFICES ASSUME NEW z \in Nodes, st'[z] = "waiting", DispatchableIn(z, edges)'
               PROVE  \E x \in Instr : /\ <<x, z>> \in edges
                                       /\ st'[x] = "ready" \/ (x = cur' /\ z \in todo')
    BY Zenon DEF NoMissedDispatch, Nodes
  <1>1. z \in Instr /\ st[z] = "waiting"
    BY Zenon DEF Nodes
  <1>2. DispatchableIn(z, edges)
    <2> SUFFICES ASSUME NEW x \in Instr, <<x, z>> \in edges PROVE EdgeDispatchable(x, z)
      BY Zenon, <1>1 DEF DispatchableIn, Linked
    <2>1. EdgeDispatchable(x, z)'
      BY Zenon DEF DispatchableIn
    <2>2. Linked(x)
      BY Zenon, <1>1, <2>1 DEF EdgeDispatchable
    <2>3. Prescheduleable(x, z)
      BY Zenon, <2>1 DEF EdgeDispatchable, Prescheduleable, ThreadFor, StreamOf
    <2> QED
      BY Zenon, <2>2, <2>3 DEF EdgeDispatchable
  <1> QED
    BY Zenon, <1>1, <1>2 DEF NoMissedDispatch

\* Erasing an edge of a finished instruction preserves the invariant.
LEMMA ReleaseEdgeStep ==
  ASSUME IInv, TypeOK', NEW y \in Instr, ReleaseEdge(y)
  PROVE  IInv'
  <1> USE DEF ReleaseEdge, clientVars, listVars, accVars
  <1>1. cur \in Nodes /\ cur \in Instr /\ st[cur] = "done" /\ <<cur, y>> \in edges
    BY Zenon DEF IInv, WalkOK, NextDst, Nodes
  <1>2. y \in Nodes /\ Lively(y) /\ st[y] # "barrier" /\ cur < y
    BY Zenon, <1>1 DEF IInv, EdgesOK
  <1>3. edges' \subseteq edges
    OBVIOUS
  <1>4. \A a, b \in Instr : <<a, b>> \in edges /\ <<a, b>> \notin edges' => Computed(a)
    BY Zenon, <1>1 DEF Computed
  <1>5. PushReady(y, DispatchableIn(y, edges'))
    OBVIOUS
  <1>6. UNCHANGED <<prog, handled, node, macc, cacc>>
    OBVIOUS
  <1>7. /\ NodesOK' /\ BarriersOK' /\ TicketsOK' /\ SchedulerThreadOK'
        /\ Covered' /\ MutableAccessFirst' /\ EdgesOK' /\ Ordered'
        /\ ComputeInProgramOrder' /\ FastReleaseAfterAccesses' /\ BarrierAfterAll'
    BY ONLY Zenon, PushStep, <1>1, <1>2, <1>3, <1>4, <1>5, <1>6, IInv, TypeOK'
  <1>8. \A i \in Instr : st'[i] = st[i] \/ (node[i] = y /\ st'[i] = "ready" /\ st[y] = "waiting")
    BY ZenonT(40), <1>2 DEF PushReady, Move, IInv, TypeOK, DispatchableIn, Linked, Lively, Status
  <1>9. AccessesOK'
    BY <1>6, <1>8 DEF IInv, AccessesOK, Nodes, Lively, Writes, StreamOf
  <1>10. WalkOK'
    BY Zenon, <1>1, <1>2, <1>6, <1>8, HandledNat DEF IInv, WalkOK, Nodes
  <1>11. NoMissedDispatch'
    <2>1. \A a, b \in Instr : <<a, b>> \in edges /\ <<a, b>> \notin edges' => b = y
      OBVIOUS
    <2>2. UNCHANGED <<prog, handled, node, cur>> /\ todo' = todo \ {y}
      OBVIOUS
    <2> QED
      BY ONLY Zenon, PushNoMissed, <1>2, <1>3, <1>5, <2>1, <2>2, IInv, TypeOK'
  <1> QED
    BY Zenon, <1>6, <1>7, <1>9, <1>10, <1>11 DEF IInv

\* Looking at an edge of a dispatched instruction preserves the invariant.
LEMMA PrescheduleEdgeStep ==
  ASSUME IInv, TypeOK', NEW y \in Instr, PrescheduleEdge(y)
  PROVE  IInv'
  <1> USE DEF PrescheduleEdge, clientVars, listVars, accVars
  <1>1. cur \in Nodes /\ cur \in Instr /\ Running(cur) /\ <<cur, y>> \in edges
    BY Zenon DEF IInv, WalkOK, NextDst, Nodes
  <1>2. y \in Nodes /\ Lively(y) /\ st[y] # "barrier" /\ cur < y
    BY Zenon, <1>1 DEF IInv, EdgesOK
  <1>3. UNCHANGED <<prog, handled, node, macc, cacc, edges, cur>> /\ todo' = todo \ {y}
    OBVIOUS
  <1>4. PushReady(y, DispatchableIn(y, edges'))
    OBVIOUS
  <1>5. /\ NodesOK' /\ BarriersOK' /\ TicketsOK' /\ SchedulerThreadOK'
        /\ Covered' /\ MutableAccessFirst' /\ EdgesOK' /\ Ordered'
        /\ ComputeInProgramOrder' /\ FastReleaseAfterAccesses' /\ BarrierAfterAll'
    BY ONLY Zenon, PushStep, <1>2, <1>3, <1>4, IInv, TypeOK'
  <1>6. \A i \in Instr : st'[i] = st[i] \/ (node[i] = y /\ st'[i] = "ready" /\ st[y] = "waiting")
    BY ZenonT(40), <1>2 DEF PushReady, Move, IInv, TypeOK, DispatchableIn, Linked, Lively, Status
  <1>7. AccessesOK'
    BY <1>3, <1>6 DEF IInv, AccessesOK, Nodes, Lively, Writes, StreamOf
  <1>8. WalkOK'
    BY Zenon, <1>1, <1>2, <1>3, <1>6, HandledNat DEF IInv, WalkOK, Nodes, Running
  <1>9. NoMissedDispatch'
    BY ONLY Zenon, PushNoMissed, <1>2, <1>3, <1>4, IInv, TypeOK'
  <1> QED
    BY Zenon, <1>3, <1>5, <1>7, <1>8, <1>9 DEF IInv

\* Deleting an instruction without edges preserves the invariant.
LEMMA ReleaseEndStep ==
  ASSUME IInv, TypeOK', ReleaseEnd
  PROVE  IInv'
  <1> USE DEF ReleaseEnd, clientVars, listVars, accVars
  <1>1. /\ cur \in Nodes /\ cur \in Instr /\ st[cur] = "done"
        /\ \A x \in Instr : <<x, cur>> \notin edges /\ <<cur, x>> \notin edges
    BY Zenon DEF IInv, WalkOK, Nodes
  <1>2. \A i \in Instr : st'[i] = IF node[i] = cur THEN "released" ELSE st[i]
    BY Zenon DEF Move
  <1>3. \A i \in Instr : node[i] = cur => i <= handled /\ st[i] = "done" /\ prog[i].kind # "barrier"
    BY Zenon, <1>1, MemberFacts DEF IInv, BarriersOK
  <1>4. \A i \in Instr : Computed(i)' <=> Computed(i)
    BY SMTT(30), <1>2, <1>3 DEF Computed
  <1>5. NodesOK'
    BY <1>1, <1>2, <1>3, SMTT(30) DEF IInv, NodesOK, StreamOf
  <1>6. BarriersOK' /\ SchedulerThreadOK'
    BY Zenon, <1>2, <1>3 DEF IInv, BarriersOK, SchedulerThreadOK, ThreadFor, StreamOf
  <1>7. TicketsOK'
    <2>1. TicketsOK
      BY Zenon DEF IInv
    <2> QED
      BY <1>1, <1>2, <1>3, <2>1, SMTT(30) DEF TicketsOK, Nodes, Linked
  <1>8. AccessesOK'
    <2>1. \A x \in Nodes : Lively(x) /\ st[x] # "barrier" /\ (phase = "releasing" => x # cur)
                           => Lively(x)' /\ st'[x] # "barrier"
      BY <1>2, Zenon DEF Nodes, Lively
    <2> QED
      BY <2>1, AccessesKept, Zenon DEF IInv
  <1>9. Covered' /\ MutableAccessFirst'
    BY <1>4, Zenon DEF IInv, Covered, MutableAccessFirst, Writes, Reads, StreamOf
  <1>10. EdgesOK'
    <2>1. \A x, y \in Instr : <<x, y>> \in edges => st'[x] = st[x] /\ st'[y] = st[y]
      BY <1>1, <1>2, ZenonT(60) DEF IInv, EdgesOK, Nodes
    <2> QED
      BY <2>1 DEF IInv, EdgesOK, Nodes, Lively, Linked, Ahead, ThreadFor, StreamOf
  <1>11. WalkOK'
    BY Zenon DEF WalkOK
  <1>12. Ordered'
    <2>1. \A k, m \in Instr : Behind(k, m) => Behind(k, m)'
      BY Zenon, <1>4 DEF Behind, Ahead, ThreadFor, StreamOf
    <2> QED
      BY Zenon, <2>1, OrderedKept DEF IInv
  <1>13. ComputeInProgramOrder'
    BY ZenonT(40), <1>4 DEF IInv, ComputeInProgramOrder, Conflict, Accesses, Writes, Reads, StreamOf
  <1>14. FastReleaseAfterAccesses'
    BY ZenonT(60), <1>2, <1>3, <1>4 DEF IInv, FastReleaseAfterAccesses, Running, Computed, Conflict, Accesses,
           Writes, Reads, StreamOf
  <1>15. BarrierAfterAll'
    BY Zenon, <1>2, <1>3 DEF IInv, BarrierAfterAll
  <1>16. NoMissedDispatch'
    BY <1>1, <1>2, NoMissedKept, Zenon DEF IInv, EdgesOK, Nodes, Linked
  <1> QED
    BY SMTT(30), <1>5, <1>6, <1>7, <1>8, <1>9, <1>10, <1>11, <1>12, <1>13, <1>14, <1>15, <1>16 DEF IInv

-----------------------------------------------------------------------------
\* TryRunBarrierInstruction preserves the invariant.
LEMMA BarrierStep ==
  ASSUME IInv, TypeOK', TryRunBarrierInstruction
  PROVE  IInv'
  <1> USE DEF TryRunBarrierInstruction, clientVars, accVars
  <1>1. \A i \in Instr : \/ st'[i] = st[i]
                         \/ st'[i] = "released" /\ st[i] = "barrier" /\ FirstLively(i)
    OBVIOUS
  <1>2. todo = {} /\ todo' = {}
    BY Zenon DEF IInv, WalkOK
  <1>3. \A i \in Instr : st[i] = "barrier" => node[i] = i /\ prog[i].kind = "barrier"
    BY HandledNat DEF IInv, NodesOK, BarriersOK
  <1>4. NodesOK'
    <2>1. \A i \in Instr : i <= handled => st'[i] = st'[node[i]] /\ st'[i] # "idle"
      <3> SUFFICES ASSUME NEW i \in Instr, i <= handled
                   PROVE  st'[i] = st'[node[i]] /\ st'[i] # "idle"
        OBVIOUS
      <3>1. node[i] \in Instr /\ st[i] = st[node[i]] /\ st[i] # "idle"
        BY Zenon DEF IInv, NodesOK
      <3>2. CASE st[i] = "barrier"
        BY Zenon, <3>1, <3>2, <1>1, <1>3
      <3>3. CASE st[i] # "barrier"
        BY Zenon, <3>1, <3>3, <1>1
      <3> QED
        BY Zenon, <3>2, <3>3
    <2>2. \A i \in Instr : i > handled => st'[i] = "idle"
      BY Zenon, <1>1 DEF IInv, NodesOK
    <2> QED
      BY ZenonT(40), <2>1, <2>2 DEF IInv, NodesOK, StreamOf
  <1>5. BarriersOK' /\ SchedulerThreadOK'
    BY Zenon, <1>1, <1>3 DEF IInv, BarriersOK, SchedulerThreadOK, ThreadFor, StreamOf
  <1>6. TicketsOK'
    BY Zenon, <1>1 DEF IInv, TicketsOK, Nodes, Linked
  <1>7. AccessesOK'
    BY <1>1 DEF IInv, AccessesOK, Nodes, Lively, Writes, StreamOf
  <1>8. \A i \in Instr : Computed(i) => Computed(i)'
    BY Zenon, <1>1 DEF Computed
  <1>9. Covered' /\ MutableAccessFirst'
    BY Zenon, <1>8 DEF IInv, Covered, MutableAccessFirst, Writes, Reads, StreamOf
  <1>10. EdgesOK'
    BY <1>1 DEF IInv, EdgesOK, Nodes, Lively, Linked, Ahead, ThreadFor, StreamOf
  <1>11. WalkOK'
    BY Zenon, <1>2 DEF WalkOK
  <1>12. Ordered'
    <2>1. \A k, m \in Instr : Behind(k, m) => Behind(k, m)'
      BY Zenon, <1>8 DEF Behind, Ahead, ThreadFor, StreamOf
    <2> QED
      BY Zenon, <2>1, OrderedKept DEF IInv
  <1>13. BarrierAfterAll'
    <2> SUFFICES ASSUME NEW i \in Instr, NEW j \in Instr, i < j, prog[j].kind = "barrier",
                        st'[j] = "released"
                 PROVE  st'[i] = "released"
      BY Zenon DEF BarrierAfterAll
    <2>1. CASE st[j] = "released"
      BY Zenon, <2>1, <1>1 DEF IInv, BarrierAfterAll
    <2>2. CASE st[j] # "released"
      <3>1. st[j] = "barrier" /\ FirstLively(j) /\ node[j] = j
        BY Zenon, <2>2, <1>1, <1>3
      <3>2. j <= handled /\ i <= handled
        BY <3>1, HandledNat DEF IInv, NodesOK
      <3>3. node[i] \in Nodes /\ node[i] < j
        <4>1. node[i] # j
          BY <3>1, <3>2, HandledNat DEF IInv, NodesOK, BarriersOK
        <4> QED
          BY Zenon, <3>1, <3>2, <4>1, HandledNat DEF IInv, NodesOK, Nodes
      <3>4. ~Lively(node[i])
        BY <3>1, <3>3, HandledNat DEF FirstLively, Nodes, IInv
      <3>5. st[i] = "released"
        BY Zenon, <3>2, <3>4 DEF Lively, IInv, NodesOK
      <3> QED
        BY Zenon, <3>5, <1>1
    <2> QED
      BY Zenon, <2>1, <2>2
  <1>14. ComputeInProgramOrder' /\ FastReleaseAfterAccesses'
    <2>1. \A i, j \in Instr : Conflict(i, j)' => Conflict(i, j) /\ prog[j].kind # "barrier"
      BY BarrierNoAccess DEF IInv, Conflict, Accesses, Writes, Reads, StreamOf
    <2>2. \A i \in Instr : prog[i].kind # "barrier" =>
             (Computed(i)' <=> Computed(i)) /\ (Running(i)' <=> Running(i))
      BY Zenon, <1>1, <1>3 DEF Computed, Running
    <2> QED
      BY Zenon, <1>8, <2>1, <2>2 DEF IInv, ComputeInProgramOrder, FastReleaseAfterAccesses
  <1>15. NoMissedDispatch'
    <2>1. \A x, y \in Instr : <<x, y>> \in edges => st'[x] = st[x]
      BY Zenon, <1>1 DEF IInv, EdgesOK
    <2> QED
      BY Zenon, <1>1, <1>2, <2>1, NoMissedKept DEF IInv, Nodes, Linked
  <1> QED
    BY Zenon, <1>4, <1>5, <1>6, <1>7, <1>9, <1>10, <1>11, <1>12, <1>13, <1>14, <1>15 DEF IInv

\* A worker that runs the first instruction of its list preserves the
\* invariant: all that is ahead of it has been computed.
LEMMA RunStep ==
  ASSUME IInv, TypeOK', NEW t \in Thread, TryReceiveAndRun(t)
  PROVE  IInv'
  <1>1. PICK n \in Instr :
          /\ WorkerHead(t, n)
          /\ st' = Move(n, "launched")
          /\ UNCHANGED <<clientVars, listVars, accVars, edges, tick, clock, phase,
                         visit, budget, limit, cur, todo>>
    BY Zenon DEF TryReceiveAndRun
  <1> USE <1>1 DEF clientVars, listVars, accVars
  <1>2. n \in Nodes /\ st[n] = "dispatched" /\ ThreadFor(n) = t /\ node[n] = n
    BY Zenon DEF WorkerHead, Nodes
  <1>3. UNCHANGED <<prog, handled, node, macc, cacc, edges, tick, clock>>
    OBVIOUS
  <1>4. \A k \in Nodes : Ahead(k, n) => Computed(k)
    <2> SUFFICES ASSUME NEW k \in Nodes, Ahead(k, n) PROVE Computed(k)
      OBVIOUS
    <2>1. k \in Instr /\ tick[k] > 0 /\ tick[k] \in Nat /\ tick[n] \in Nat
      BY Zenon DEF Nodes, Ahead, IInv, TypeOK
    <2>2. tick[k] < tick[n]
      BY <1>2, TicketFacts DEF Ahead, IInv, Linked
    <2>3. st[k] # "ready" /\ (Linked(k) \/ st[k] = "released")
      BY Zenon, <1>2, <2>1, <2>2 DEF IInv, TicketsOK
    <2>4. st[k] # "dispatched"
      BY <1>2, <2>1, <2>2, SMTT(30) DEF WorkerHead, Ahead
    <2> QED
      BY Zenon, <2>3, <2>4 DEF Linked, Computed
  <1>5. /\ NodesOK' /\ BarriersOK' /\ TicketsOK' /\ SchedulerThreadOK'
        /\ Covered' /\ MutableAccessFirst' /\ EdgesOK' /\ Ordered'
        /\ ComputeInProgramOrder' /\ FastReleaseAfterAccesses' /\ BarrierAfterAll'
    <2>1. Linked(n) /\ st[n] # "ready"
      BY Zenon, <1>2 DEF Linked
    <2> QED
      BY ONLY Zenon, ForwardMove, IInv, TypeOK', <1>1, <1>2, <1>3, <1>4, <2>1
  <1>6. \A i \in Instr : st'[i] = IF node[i] = n THEN "launched" ELSE st[i]
    BY Zenon DEF Move
  <1>7. \A i \in Instr : node[i] = n => st[i] = "dispatched"
    BY <1>2, MemberFacts, SMTT(30) DEF IInv
  <1>8. AccessesOK'
    <2>1. \A x \in Nodes : Lively(x) /\ st[x] # "barrier" => Lively(x)' /\ st'[x] # "barrier"
      BY Zenon, <1>2, <1>6, <1>7 DEF Nodes, Lively
    <2> QED
      BY <2>1, AccessesKept, Zenon DEF IInv
  <1>9. WalkOK'
    BY <1>2, <1>6, SMTT(30) DEF IInv, WalkOK, Nodes, Running
  <1>10. NoMissedDispatch'
    BY Zenon, <1>6, <1>7, NoMissedKept DEF IInv, Nodes, Linked
  <1> QED
    BY Zenon, <1>5, <1>8, <1>9, <1>10 DEF IInv

\* A device that reports completion preserves the invariant.
LEMMA DoneStep ==
  ASSUME IInv, TypeOK', NEW n \in Instr, Done(n)
  PROVE  IInv'
  <1> USE DEF Done, clientVars, listVars, accVars
  <1>1. n \in Nodes /\ st[n] = "launched" /\ node[n] = n /\ Linked(n) /\ Computed(n)
    BY Zenon DEF Nodes, Linked, Computed
  <1>2. UNCHANGED <<prog, handled, node, macc, cacc, edges, tick, clock>> /\ st' = Move(n, "done")
    OBVIOUS
  <1>3. /\ NodesOK' /\ BarriersOK' /\ TicketsOK' /\ SchedulerThreadOK'
        /\ Covered' /\ MutableAccessFirst' /\ EdgesOK' /\ Ordered'
        /\ ComputeInProgramOrder' /\ FastReleaseAfterAccesses' /\ BarrierAfterAll'
    BY ONLY Zenon, ForwardMove, IInv, TypeOK', <1>1, <1>2
  <1>4. \A i \in Instr : st'[i] = IF node[i] = n THEN "done" ELSE st[i]
    BY Zenon DEF Move
  <1>5. \A i \in Instr : node[i] = n => st[i] = "launched"
    BY <1>1, MemberFacts, SMTT(30) DEF IInv
  <1>6. AccessesOK'
    <2>1. \A x \in Nodes : Lively(x) /\ st[x] # "barrier" => Lively(x)' /\ st'[x] # "barrier"
      BY Zenon, <1>1, <1>4, <1>5 DEF Nodes, Lively
    <2> QED
      BY <2>1, AccessesKept, Zenon DEF IInv
  <1>7. WalkOK'
    BY <1>1, <1>4, SMTT(30) DEF IInv, WalkOK, Nodes, Running
  <1>8. NoMissedDispatch'
    BY Zenon, <1>4, <1>5, NoMissedKept DEF IInv, Nodes, Linked
  <1> QED
    BY Zenon, <1>3, <1>6, <1>7, <1>8 DEF IInv

\* DispatchInstruction, at the head of the ready list, preserves the
\* invariant.
LEMMA DispatchStep ==
  ASSUME IInv, TypeOK', NEW n \in Instr, DispatchInstruction(n)
  PROVE  IInv'
  <1> DEFINE v == IF ThreadFor(n) \in SchedThread THEN "launched" ELSE "dispatched"
  <1> USE DEF DispatchInstruction, clientVars, listVars, accVars
  <1>1. n \in Nodes /\ st[n] = "ready" /\ node[n] = n /\ Linked(n)
    BY Zenon DEF Nodes, Linked
  <1>2. /\ UNCHANGED <<prog, handled, node, macc, cacc, edges, tick, clock>> /\ st' = Move(n, v)
        /\ \A m \in Nodes : st[m] = "ready" => tick[n] <= tick[m]
    OBVIOUS
  <1>3. v # "dispatched" => \A k \in Nodes : Ahead(k, n) => Computed(k)
    <2> SUFFICES ASSUME ThreadFor(n) \in SchedThread, NEW k \in Nodes, Ahead(k, n) PROVE Computed(k)
      OBVIOUS
    <2>1. k \in Instr /\ tick[k] > 0 /\ tick[k] \in Nat /\ tick[n] \in Nat
      BY DEF Nodes, Ahead, IInv, TypeOK
    <2>2. tick[k] < tick[n]
      BY <1>1, TicketFacts, SMTT(30) DEF Ahead, IInv, Linked
    <2>3. st[k] # "ready" /\ (Linked(k) \/ st[k] = "released")
      <3>1. TicketsOK
        BY Zenon DEF IInv
      <3>2. st[k] # "ready"
        BY <1>2, <2>1, <2>2
      <3> QED
        BY Zenon, <2>1, <3>1, <3>2 DEF TicketsOK
    <2>4. st[k] # "dispatched"
      BY Zenon, <2>1 DEF IInv, SchedulerThreadOK, Ahead
    <2> QED
      BY Zenon, <2>3, <2>4 DEF Linked, Computed
  <1>4. /\ NodesOK' /\ BarriersOK' /\ TicketsOK' /\ SchedulerThreadOK'
        /\ Covered' /\ MutableAccessFirst' /\ EdgesOK' /\ Ordered'
        /\ ComputeInProgramOrder' /\ FastReleaseAfterAccesses' /\ BarrierAfterAll'
    BY ONLY ForwardMove, IInv, TypeOK', <1>1, <1>2, <1>3, SMTT(30)
  <1>5. \A i \in Instr : st'[i] = IF node[i] = n THEN v ELSE st[i]
    BY Zenon DEF Move
  <1>6. \A i \in Instr : node[i] = n => st[i] = "ready"
    BY <1>1, MemberFacts, SMTT(30) DEF IInv
  <1>7. AccessesOK'
    BY <1>5 DEF IInv, AccessesOK, Nodes, Lively, Writes, StreamOf
  <1>8. WalkOK'
    BY Zenon, <1>1, <1>5 DEF IInv, WalkOK, Nodes, Running
  <1>9. NoMissedDispatch'
    <2>1. todo = {}
      BY Zenon DEF IInv, WalkOK
    <2>2. \A x, y \in Instr : <<x, y>> \in edges => x \in Nodes
      BY Zenon DEF IInv, EdgesOK
    <2> QED
      BY Zenon, <1>5, <1>6, <2>1, <2>2, NoMissedKept DEF IInv, Nodes, Linked
  <1> QED
    BY Zenon, <1>4, <1>7, <1>8, <1>9 DEF IInv

-----------------------------------------------------------------------------
\* Every step of the engine, its clients, workers and devices preserves the
\* invariant.
LEMMA InvStep == IInv /\ [Next]_vars => IInv'
  <1> SUFFICES ASSUME IInv, [Next]_vars PROVE IInv'
    OBVIOUS
  <1>1. TypeOK'
    BY Zenon, TypeStep DEF IInv
  <1> USE <1>1
  <1>2. CASE Receive
    BY Zenon, <1>2, CoreUnchangedStep DEF Receive, listVars, accVars
  <1>3. CASE \E n \in Instr : ReleaseBegin(n)
    BY Zenon, <1>3, ReleaseBeginStep
  <1>4. CASE \E y \in Instr : ReleaseEdge(y)
    BY Zenon, <1>4, ReleaseEdgeStep
  <1>5. CASE ReleaseEnd
    BY Zenon, <1>5, ReleaseEndStep
  <1>6. CASE \E s \in Stream : LeaveStream(s)
    BY <1>6, CoreUnchangedStep, SMTT(30) DEF LeaveStream, clientVars, listVars, accVars
  <1>7. CASE TryRunBarrierInstruction
    BY Zenon, <1>7, BarrierStep
  <1>8. CASE \E n \in Instr : HandleLocalPending(n)
    BY Zenon, <1>8, HandleStep
  <1>9. CASE PendingEnd
    BY Zenon, <1>9, CoreUnchangedStep DEF PendingEnd, IInv, WalkOK, clientVars, listVars, accVars
  <1>10. CASE \E n \in Instr : DispatchInstruction(n)
    BY Zenon, <1>10, DispatchStep
  <1>11. CASE \E y \in Instr : PrescheduleEdge(y)
    BY Zenon, <1>11, PrescheduleEdgeStep
  <1>12. CASE PrescheduleEnd
    BY <1>12, CoreUnchangedStep, SMTT(30) DEF PrescheduleEnd, clientVars, listVars, accVars
  <1>13. CASE DispatchEnd
    BY Zenon, <1>13, CoreUnchangedStep DEF DispatchEnd, IInv, WalkOK, clientVars, listVars, accVars
  <1>14. CASE \E t \in Thread : TryReceiveAndRun(t)
    BY Zenon, <1>14, RunStep
  <1>15. CASE \E n \in Instr : Done(n)
    BY Zenon, <1>15, DoneStep
  <1>16. CASE UNCHANGED vars
    BY Zenon, <1>16, CoreUnchangedStep DEF vars
  <1> QED
    BY Zenon, <1>2, <1>3, <1>4, <1>5, <1>6, <1>7, <1>8, <1>9, <1>10, <1>11, <1>12, <1>13, <1>14,
       <1>15, <1>16 DEF Next, Schedule

\* The invariant of Schedule, workers and devices holds in every reachable
\* state.  The theorems below are its consequences.
THEOREM Invariance == Spec => []IInv
  BY InvInit, InvStep, PTL DEF Spec

(***************************************************************************)
(* Conflicting instructions are computed in program order, whatever is     *)
(* fused, prescheduled or left unconnected by TryConnectInstruction, for   *)
(* every program, window, set of streams and threads.                      *)
(***************************************************************************)
THEOREM ProgramOrder == Spec => []ComputeInProgramOrder
  <1>1. IInv => ComputeInProgramOrder
    BY Zenon DEF IInv
  <1> QED
    BY <1>1, Invariance, PTL

(***************************************************************************)
(* When FastReleaseTensor frees memory at dispatch, all earlier users of   *)
(* the tensor have been computed.                                          *)
(***************************************************************************)
THEOREM FastReleaseSafe == Spec => []FastReleaseAfterAccesses
  <1>1. IInv => FastReleaseAfterAccesses
    BY Zenon DEF IInv
  <1> QED
    BY <1>1, Invariance, PTL

(***************************************************************************)
(* A barrier that TryRunBarrierInstruction has run finds every earlier     *)
(* instruction released.                                                   *)
(***************************************************************************)
THEOREM BarriersSeparate == Spec => []BarrierAfterAll
  <1>1. IInv => BarrierAfterAll
    BY Zenon DEF IInv
  <1> QED
    BY <1>1, Invariance, PTL

(***************************************************************************)
(* The walks over out edges in ReleaseInstruction and                      *)
(* DispatchAndPrescheduleInstructions miss no node that has become         *)
(* dispatchable.                                                           *)
(***************************************************************************)
THEOREM DispatchComplete == Spec => []NoMissedDispatch
  <1>1. IInv => NoMissedDispatch
    BY Zenon DEF IInv
  <1> QED
    BY <1>1, Invariance, PTL

(***************************************************************************)
(* DeleteStatusAndCheckEdges never finds an edge.                          *)
(***************************************************************************)
THEOREM GraphConsistent == Spec => []NoUnerasedEdge
  <1>1. IInv => NoUnerasedEdge
    BY Zenon DEF IInv, EdgesOK, NoUnerasedEdge
  <1> QED
    BY <1>1, Invariance, PTL

(***************************************************************************)
(* Looking at the first access of a list is enough for                     *)
(* ConnectInstructionsByRead: the mutable access, if any, is the first.    *)
(***************************************************************************)
THEOREM FirstAccessEnough == Spec => []MutableAccessFirst
  <1>1. IInv => MutableAccessFirst
    BY Zenon DEF IInv
  <1> QED
    BY <1>1, Invariance, PTL

=============================================================================
