---------------------------- MODULE BufferProofs ----------------------------
(***************************************************************************)
(* Nobody sleeps in vain, and a Buffer implements a BoundedQueue, for any  *)
(* number of threads and any length.                                       *)
(***************************************************************************)
EXTENDS Buffer, FiniteSetTheorems, TLAPS

Inv == TypeOK /\ NobodySleepsInVain

\* A thread that becomes an awake puller makes one more of them.
LEMMA AwakeOneMore ==
    ASSUME NEW S, NEW t, IsFiniteSet(S), t \notin S
    PROVE  Cardinality(S \cup {t}) = Cardinality(S) + 1 /\ Cardinality(S) \in Nat
BY Zenon, FS_AddElement, FS_CardinalityType

\* The initial state: nobody sleeps.
LEMMA InitInv == Init => Inv
<1> SUFFICES ASSUME Init PROVE TypeOK /\ NobodySleepsInVain
  BY Zenon DEF Inv
<1>1. queue \in Seq(Item) /\ Len(queue) <= MaxLen
  BY BufferAssumption DEF Init
<1>2. TypeOK
  BY Zenon, <1>1 DEF Init, TypeOK, None
<1>3. NobodySleepsInVain
  BY Zenon DEF Init, NobodySleepsInVain
<1> QED
  BY Zenon, <1>2, <1>3

\* Every step keeps the types.
LEMMA TypeStep == TypeOK /\ [Next]_vars => TypeOK'
<1> SUFFICES ASSUME TypeOK, [Next]_vars PROVE TypeOK'
  OBVIOUS
<1> USE BufferAssumption
<1>1. ASSUME NEW t \in Thread, Push(t) PROVE TypeOK'
  <2>1. CASE ~PushReady /\ Wait(t)
    BY Zenon, <1>1, <2>1 DEF TypeOK, Push, Wait, Runs
  <2>2. CASE closed /\ Return(t, "closed", None) /\ UNCHANGED <<queue, closed, asleep>>
    BY Zenon, <1>1, <2>2 DEF TypeOK, Push, Return, Runs, None
  <2>3. CASE /\ PushReady /\ ~closed
             /\ queue' = Append(queue, item[t]) /\ Return(t, "success", item[t])
             /\ NotifyOne /\ UNCHANGED closed
    <3>1. item[t] \in Item
      BY Zenon, <1>1 DEF TypeOK, Push, Runs
    <3>2. queue' \in Seq(Item) /\ Len(queue') <= MaxLen
      BY <2>3, <3>1 DEF TypeOK, PushReady
    <3>3. asleep' \subseteq asleep /\ t \notin asleep
      BY Zenon, <1>1, <2>3 DEF NotifyOne, Push, Runs
    <3> QED
      BY Zenon, <1>1, <2>3, <3>2, <3>3 DEF TypeOK, Return, None
  <2> QED
    BY Zenon, <1>1, <2>1, <2>2, <2>3 DEF Push
<1>2. ASSUME NEW t \in Thread, t \notin asleep, Take(t) PROVE TypeOK'
  <2>1. queue' \in Seq(Item) /\ Len(queue') <= MaxLen
    BY <1>2 DEF Take, TypeOK
  <2>2. asleep' \subseteq asleep
    BY Zenon, <1>2 DEF Take, NotifyAll
  <2> QED
    BY Zenon, <1>2, <2>1, <2>2 DEF TypeOK, Take, Return, None
<1>3. ASSUME NEW t \in Thread, Pull(t) PROVE TypeOK'
  <2>1. CASE ~PullReady /\ Wait(t)
    BY Zenon, <1>3, <2>1 DEF TypeOK, Pull, Wait, Runs
  <2>2. CASE Return(t, "closed", None) /\ UNCHANGED <<queue, closed, asleep>>
    BY Zenon, <1>3, <2>2 DEF TypeOK, Pull, Return, Runs, None
  <2>3. CASE Take(t)
    BY Zenon, <1>2, <1>3, <2>3 DEF Pull, Runs
  <2> QED
    BY Zenon, <1>3, <2>1, <2>2, <2>3 DEF Pull
<1>4. ASSUME NEW t \in Thread, TryReceive(t) PROVE TypeOK'
  <2>1. CASE Take(t)
    BY Zenon, <1>2, <1>4, <2>1 DEF TryReceive, Runs
  <2>2. CASE Return(t, IF closed THEN "closed" ELSE "empty", None) /\ UNCHANGED <<queue, closed, asleep>>
    BY Zenon, <1>4, <2>2 DEF TypeOK, TryReceive, Return, Runs, None
  <2> QED
    BY Zenon, <1>4, <2>1, <2>2 DEF TryReceive
<1>5. ASSUME NEW t \in Thread, Close(t) PROVE TypeOK'
  BY Zenon, <1>5 DEF TypeOK, Close, Return, Runs, NotifyAll, None
<1>6. ASSUME NEW t \in Thread, SpuriousWakeup(t) PROVE TypeOK'
  BY Zenon, <1>6 DEF TypeOK, SpuriousWakeup
<1>7. ASSUME NEW t \in Thread, NEW x \in Item, Enter(t, "Push", x) PROVE TypeOK'
  BY Zenon, <1>7 DEF TypeOK, Enter, None
<1>8. ASSUME NEW t \in Thread, NEW c \in {"Pull", "TryReceive", "Close"}, Enter(t, c, None) PROVE TypeOK'
  BY Zenon, <1>8 DEF TypeOK, Enter, None
<1>9. CASE UNCHANGED vars
  BY Zenon, <1>9 DEF TypeOK, vars
<1> QED
  BY Zenon, <1>1, <1>3, <1>4, <1>5, <1>6, <1>7, <1>8, <1>9 DEF Next

\* Every step keeps the sleepers and the items in balance.
LEMMA BalanceStep == Inv /\ [Next]_vars => NobodySleepsInVain'
<1> SUFFICES ASSUME TypeOK, NobodySleepsInVain, [Next]_vars PROVE NobodySleepsInVain'
  BY Zenon DEF Inv
<1> USE BufferAssumption
<1>0. /\ IsFiniteSet(Awake("Pull")) /\ Cardinality(Awake("Pull")) \in Nat
      /\ IsFiniteSet(Awake("Pull")') /\ Cardinality(Awake("Pull")') \in Nat
  <2>1. Awake("Pull") \subseteq Thread /\ Awake("Pull")' \subseteq Thread
    BY Zenon DEF Awake
  <2> QED
    BY Zenon, <2>1, FS_Subset, FS_CardinalityType
\* It is enough that the queue stays and no awake puller is lost.
<1>a. ASSUME queue' = queue, Awake("Pull") \subseteq Awake("Pull")', closed' = closed,
             asleep' \subseteq asleep, \A t \in asleep' : call'[t] = call[t]
      PROVE  NobodySleepsInVain'
  <2>1. Cardinality(Awake("Pull")) <= Cardinality(Awake("Pull")')
    BY Zenon, <1>0, <1>a, FS_Subset
  <2>2. Len(queue) \in Nat
    BY DEF TypeOK
  <2> QED
    BY <1>0, <1>a, <2>1, <2>2 DEF NobodySleepsInVain
\* A call that returns without a change of the queue was not a sleeper's.
<1>b. ASSUME NEW t \in Thread, NEW c \in {"Push", "Pull", "TryReceive", "Close"}, Runs(t, c), closed,
             UNCHANGED <<queue, closed, asleep>>
      PROVE  NobodySleepsInVain'
  BY Zenon, <1>b DEF NobodySleepsInVain
<1>1. ASSUME NEW t \in Thread, Push(t) PROVE NobodySleepsInVain'
  <2>1. CASE ~PushReady /\ Wait(t)
    <3>1. Awake("Pull")' = Awake("Pull")
      BY Zenon, <1>1, <2>1 DEF Awake, Wait, Push, Runs
    <3>2. Len(queue) = MaxLen /\ ~closed
      BY <2>1 DEF PushReady, TypeOK
    <3> QED
      BY Zenon, <1>1, <2>1, <3>1, <3>2 DEF NobodySleepsInVain, Wait, Push, Runs
  <2>2. CASE closed /\ Return(t, "closed", None) /\ UNCHANGED <<queue, closed, asleep>>
    BY Zenon, <1>1, <1>b, <2>2 DEF Push
  <2>3. CASE /\ PushReady /\ ~closed
             /\ queue' = Append(queue, item[t]) /\ Return(t, "success", item[t])
             /\ NotifyOne /\ UNCHANGED closed
    <3>1. CASE asleep = {}
      BY Zenon, <2>3, <3>1 DEF NobodySleepsInVain, NotifyOne
    <3>2. CASE asleep # {}
      <4>1. PICK w \in asleep : asleep' = asleep \ {w}
        BY Zenon, <2>3, <3>2 DEF NotifyOne
      <4>2. \A s \in asleep : call[s] = "Pull" /\ s # t /\ s \in Thread
        BY <1>1, <2>3 DEF NobodySleepsInVain, TypeOK, PushReady, Push, Runs
      <4>3. Awake("Pull")' = Awake("Pull") \cup {w}
        BY Zenon, <1>1, <2>3, <4>1, <4>2 DEF Awake, Return, Push, Runs, TypeOK, None
      <4>4. Cardinality(Awake("Pull")') = Cardinality(Awake("Pull")) + 1
        <5>1. w \notin Awake("Pull")
          BY Zenon DEF Awake
        <5> QED
          BY Zenon, <1>0, <4>3, <5>1, AwakeOneMore
      <4>5. Len(queue) <= Cardinality(Awake("Pull"))
        BY Zenon, <4>2 DEF NobodySleepsInVain
      <4>6. Len(queue') = Len(queue) + 1 /\ Len(queue) \in Nat
        BY <1>1, <2>3 DEF TypeOK, Push, Runs
      <4>7. \A s \in asleep' : call'[s] = "Pull"
        BY Zenon, <2>3, <4>1, <4>2 DEF Return, TypeOK
      <4> QED
        BY <1>0, <2>3, <4>4, <4>5, <4>6, <4>7 DEF NobodySleepsInVain
    <3> QED
      BY Zenon, <3>1, <3>2
  <2> QED
    BY Zenon, <1>1, <2>1, <2>2, <2>3 DEF Push
<1>2. ASSUME NEW t \in Thread, Take(t) PROVE NobodySleepsInVain'
  <2>1. Len(queue') < MaxLen
    BY <1>2 DEF Take, TypeOK
  <2>2. asleep' = {}
    BY Zenon, <1>2, <2>1 DEF Take, NotifyAll
  <2> QED
    BY Zenon, <2>2 DEF NobodySleepsInVain
<1>3. ASSUME NEW t \in Thread, Pull(t) PROVE NobodySleepsInVain'
  <2>1. CASE ~PullReady /\ Wait(t)
    <3>1. Len(queue') = 0 /\ ~closed' /\ queue' = queue /\ call' = call
      BY Zenon, <2>1 DEF PullReady, Wait
    <3>2. Len(queue) = 0 /\ asleep' = asleep \cup {t} /\ call[t] = "Pull"
      BY Zenon, <1>3, <2>1, <3>1 DEF Wait, Pull, Runs
    <3> QED
      BY <1>0, <3>1, <3>2 DEF NobodySleepsInVain
  <2>2. CASE PullReady /\ queue = <<>> /\ Return(t, "closed", None) /\ UNCHANGED <<queue, closed, asleep>>
    BY Zenon, <1>3, <1>b, <2>2 DEF Pull, PullReady
  <2>3. CASE Take(t)
    BY Zenon, <1>2, <2>3
  <2> QED
    BY Zenon, <1>3, <2>1, <2>2, <2>3 DEF Pull
<1>4. ASSUME NEW t \in Thread, TryReceive(t) PROVE NobodySleepsInVain'
  <2>1. CASE Take(t)
    BY Zenon, <1>2, <2>1
  <2>2. CASE Return(t, IF closed THEN "closed" ELSE "empty", None) /\ UNCHANGED <<queue, closed, asleep>>
    <3>1. t \notin asleep /\ call[t] = "TryReceive"
      BY Zenon, <1>4 DEF TryReceive, Runs
    <3>2. Awake("Pull") \subseteq Awake("Pull")'
      BY Zenon, <2>2, <3>1 DEF Awake, Return, TypeOK
    <3>3. \A s \in asleep' : call'[s] = call[s]
      BY Zenon, <2>2, <3>1 DEF Return, TypeOK
    <3> QED
      BY Zenon, <1>a, <2>2, <3>2, <3>3
  <2> QED
    BY Zenon, <1>4, <2>1, <2>2 DEF TryReceive
<1>5. ASSUME NEW t \in Thread, Close(t) PROVE NobodySleepsInVain'
  BY Zenon, <1>5 DEF NobodySleepsInVain, Close, NotifyAll
<1>6. ASSUME NEW t \in Thread, SpuriousWakeup(t) PROVE NobodySleepsInVain'
  <2>1. Awake("Pull") \subseteq Awake("Pull")'
    BY Zenon, <1>6 DEF Awake, SpuriousWakeup
  <2> QED
    BY Zenon, <1>a, <1>6, <2>1 DEF SpuriousWakeup
<1>7. ASSUME NEW t \in Thread, NEW c, NEW x, Enter(t, c, x) PROVE NobodySleepsInVain'
  <2>1. call[t] = None /\ t \notin asleep
    BY Zenon, <1>7 DEF Enter, TypeOK, None
  <2>2. Awake("Pull") \subseteq Awake("Pull")'
    BY Zenon, <1>7, <2>1 DEF Awake, Enter, TypeOK, None
  <2>3. \A s \in asleep' : call'[s] = call[s]
    BY Zenon, <1>7, <2>1 DEF Enter, TypeOK
  <2> QED
    BY Zenon, <1>a, <1>7, <2>2, <2>3 DEF Enter
<1>8. CASE UNCHANGED vars
  <2>1. Awake("Pull")' = Awake("Pull")
    BY Zenon, <1>8 DEF Awake, vars
  <2> QED
    BY Zenon, <1>a, <1>8, <2>1 DEF vars
<1> QED
  BY Zenon, <1>1, <1>3, <1>4, <1>5, <1>6, <1>7, <1>8 DEF Next

(***************************************************************************)
(* Buffer::Push never takes the queue past max_len_, only a thread in Push *)
(* or Pull waits on cond_, and a Push carries its item until it returns,   *)
(* for every max_len_ and any number of threads.                           *)
(***************************************************************************)
THEOREM BufferTypes == Spec => []TypeOK
<1>1. Init => TypeOK
  BY Zenon, InitInv DEF Inv
<1>2. TypeOK /\ [Next]_vars => TypeOK'
  BY Zenon, TypeStep
<1> QED
  BY <1>1, <1>2, PTL DEF Spec

-----------------------------------------------------------------------------
(***************************************************************************)
(* Buffer::Push may notify a single thread: nobody ever sleeps in vain.    *)
(***************************************************************************)
THEOREM BufferAwake == Spec => []NobodySleepsInVain
<1>1. Init => Inv
  BY Zenon, InitInv
<1>2. Inv /\ [Next]_vars => Inv'
  BY Zenon, TypeStep, BalanceStep DEF Inv
<1>3. Inv => NobodySleepsInVain
  BY Zenon DEF Inv
<1> QED
  BY <1>1, <1>2, <1>3, PTL DEF Spec

(***************************************************************************)
(* Buffer::Push, Pull, TryReceive and Close take effect on the queue as    *)
(* the calls of a BoundedQueue do.                                         *)
(***************************************************************************)
THEOREM BufferImplements == Spec => ImplementsQueue
<1>1. Init => Abstract!Init
  BY Zenon DEF Init, Abstract!Init
<1>2. ASSUME TypeOK, [Next]_vars PROVE [Abstract!Next]_(Abstract!vars)
  <2>1. ASSUME NEW t \in Thread, Push(t) PROVE [Abstract!Next]_(Abstract!vars)
    <3>1. CASE Wait(t)
      BY Zenon, <3>1 DEF Wait, Abstract!vars
    <3>2. CASE closed /\ Return(t, "closed", None) /\ UNCHANGED <<queue, closed, asleep>>
      BY Zenon, <3>2 DEF Return, Abstract!Next, Abstract!Refused, Abstract!Returns, None, Abstract!None
    <3>3. CASE /\ PushReady /\ ~closed
               /\ queue' = Append(queue, item[t]) /\ Return(t, "success", item[t])
               /\ NotifyOne /\ UNCHANGED closed
      <4>1. item[t] \in Item
        BY Zenon, <2>1, <1>2 DEF TypeOK, Push, Runs
      <4>2. Abstract!Push(t, item[t])
        BY Zenon, <3>3 DEF PushReady, Return, Abstract!Push, Abstract!Returns
      <4> QED
        BY Zenon, <4>1, <4>2 DEF Abstract!Next
    <3> QED
      BY Zenon, <2>1, <3>1, <3>2, <3>3 DEF Push
  <2>2. ASSUME NEW t \in Thread, Take(t) PROVE [Abstract!Next]_(Abstract!vars)
    BY Zenon, <2>2 DEF Take, Return, Abstract!Next, Abstract!Take, Abstract!Returns
  <2>3. ASSUME NEW t \in Thread, Pull(t) PROVE [Abstract!Next]_(Abstract!vars)
    <3>1. CASE Wait(t)
      BY Zenon, <3>1 DEF Wait, Abstract!vars
    <3>2. CASE PullReady /\ queue = <<>> /\ Return(t, "closed", None) /\ UNCHANGED <<queue, closed, asleep>>
      BY Zenon, <3>2 DEF PullReady, Return, Abstract!Next, Abstract!Refused, Abstract!Returns, None, Abstract!None
    <3> QED
      BY Zenon, <2>2, <2>3, <3>1, <3>2 DEF Pull
  <2>4. ASSUME NEW t \in Thread, TryReceive(t) PROVE [Abstract!Next]_(Abstract!vars)
    <3>1. CASE /\ queue = <<>> /\ Return(t, IF closed THEN "closed" ELSE "empty", None)
               /\ UNCHANGED <<queue, closed, asleep>>
      <4>1. CASE closed
        BY Zenon, <3>1, <4>1 DEF Return, Abstract!Next, Abstract!Refused, Abstract!Returns, None, Abstract!None
      <4>2. CASE ~closed
        BY Zenon, <3>1, <4>2 DEF Return, Abstract!Next, Abstract!Nothing, Abstract!Returns, None, Abstract!None
      <4> QED
        BY Zenon, <4>1, <4>2
    <3> QED
      BY Zenon, <2>2, <2>4, <3>1 DEF TryReceive
  <2>5. ASSUME NEW t \in Thread, Close(t) PROVE [Abstract!Next]_(Abstract!vars)
    BY Zenon, <2>5 DEF Close, Return, Abstract!Next, Abstract!Close, Abstract!Returns, None, Abstract!None
  <2>6. ASSUME NEW t \in Thread, SpuriousWakeup(t) PROVE [Abstract!Next]_(Abstract!vars)
    BY Zenon, <2>6 DEF SpuriousWakeup, Abstract!vars
  <2>7. ASSUME NEW t \in Thread, NEW c, NEW x, Enter(t, c, x) PROVE [Abstract!Next]_(Abstract!vars)
    BY Zenon, <2>7 DEF Enter, Abstract!vars
  <2>8. CASE UNCHANGED vars
    BY Zenon, <2>8 DEF vars, Abstract!vars
  <2> QED
    BY Zenon, <1>2, <2>1, <2>3, <2>4, <2>5, <2>6, <2>7, <2>8 DEF Next
<1> QED
  BY <1>1, <1>2, BufferTypes, PTL DEF Spec, Abstract!Spec, ImplementsQueue

=============================================================================
