-------------------------- MODULE ThreadPoolProofs --------------------------
(***************************************************************************)
(* Proofs about ThreadPool, for any number of clients, loops and threads.  *)
(* First the BalancedSplitter: its parts are disjoint and cover the range. *)
(* Then the inductive invariant IInv: every work of a loop is in exactly   *)
(* one place, the BlockingCounter counts those whose Decrease is still to  *)
(* come, and the worker that counts holds mtx_ until it lets go of the     *)
(* loop's locals.                                                          *)
(***************************************************************************)
EXTENDS ThreadPool, FiniteSetTheorems, TLAPS

\* Division with remainder.
LEMMA DivMod ==
    ASSUME NEW a \in Nat, NEW b \in Nat, b > 0
    PROVE  /\ a \div b \in Nat /\ a % b \in 0 .. b - 1
           /\ a = b * (a \div b) + (a % b)
<1>1. a \div b \in Int /\ a \div b >= 0
  OBVIOUS
<1>2. a % b \in 0 .. b - 1
  OBVIOUS
<1>3. a = b * (a \div b) + (a % b)
  OBVIOUS
<1> QED
  BY <1>1, <1>2, <1>3

\* A product grows with its factor.
LEMMA MulMono ==
    ASSUME NEW a \in Nat, NEW x \in Int, NEW y \in Int, x <= y
    PROVE  a * x <= a * y
OBVIOUS

\* One factor goes up by one.
LEMMA MulStep ==
    ASSUME NEW a \in Int, NEW x \in Int
    PROVE  a * (x + 1) = a * x + a /\ (a + 1) * x = a * x + x /\ a * x = x * a /\ a * x \in Int
OBVIOUS

\* A product with a difference.
LEMMA MulMinus ==
    ASSUME NEW a \in Int, NEW x \in Int, NEW y \in Int
    PROVE  a * (x - y) = a * x - a * y
OBVIOUS

\* BalancedSplitter: the parts follow one another from 0 to the total.
LEMMA PartsOrdered ==
    ASSUME NEW total \in Nat, NEW parts \in Nat, parts > 0,
           NEW r \in 0 .. parts - 1, NEW s \in 0 .. parts - 1, r < s
    PROVE  /\ Begin(total, parts, r) \in Nat /\ End(total, parts, r) \in Nat
           /\ Begin(total, parts, s) \in Nat
           /\ End(total, parts, r) <= Begin(total, parts, s)
<1> DEFINE q == total \div parts
           b == total % parts
<1>1. q \in Nat /\ b \in 0 .. parts - 1
  BY Zenon, DivMod
<1> HIDE DEF q, b
<1>2. /\ Begin(total, parts, r) = IF r < b THEN (q + 1) * r ELSE (q + 1) * b + q * (r - b)
      /\ Begin(total, parts, s) = IF s < b THEN (q + 1) * s ELSE (q + 1) * b + q * (s - b)
      /\ End(total, parts, r) = Begin(total, parts, r) + IF r < b THEN q + 1 ELSE q
  BY Zenon DEF Begin, End, q, b
<1>3. CASE s < b
  <2>1. (q + 1) * (r + 1) <= (q + 1) * s
    BY <1>1, MulMono
  <2>2. (q + 1) * (r + 1) = (q + 1) * r + (q + 1)
    BY <1>1, MulStep
  <2>3. (q + 1) * r \in Nat /\ (q + 1) * s \in Nat
    BY <1>1
  <2> QED
    BY <1>1, <1>2, <1>3, <2>1, <2>2, <2>3
<1>4. CASE r < b /\ ~(s < b)
  <2>1. (q + 1) * (r + 1) <= (q + 1) * b
    BY <1>1, <1>4, MulMono
  <2>2. (q + 1) * (r + 1) = (q + 1) * r + (q + 1)
    BY <1>1, MulStep
  <2>3. (q + 1) * r \in Nat /\ (q + 1) * b \in Nat /\ q * (s - b) \in Nat
    BY <1>1, <1>4
  <2> QED
    BY <1>1, <1>2, <1>4, <2>1, <2>2, <2>3
<1>5. CASE ~(r < b)
  <2>1. q * ((r - b) + 1) <= q * (s - b)
    BY <1>1, MulMono
  <2>2. q * ((r - b) + 1) = q * (r - b) + q
    BY <1>1, MulStep
  <2>3. (q + 1) * b \in Nat /\ q * (r - b) \in Nat /\ q * (s - b) \in Nat
    BY <1>1, <1>5
  <2> QED
    BY <1>1, <1>2, <1>5, <2>1, <2>2, <2>3
<1> QED
  BY Zenon, <1>3, <1>4, <1>5

\* No value is in two parts.
LEMMA PartsDisjoint ==
    ASSUME NEW total \in Nat, NEW parts \in Nat, parts > 0,
           NEW r \in 0 .. parts - 1, NEW s \in 0 .. parts - 1, r # s,
           NEW i \in Part(total, parts, r)
    PROVE  i \notin Part(total, parts, s)
<1>1. CASE r < s
  BY <1>1, PartsOrdered DEF Part
<1>2. CASE s < r
  BY <1>2, PartsOrdered DEF Part
<1> QED
  BY <1>1, <1>2

\* GetRangeIndexForVal finds the part of every value.
LEMMA PartsCover ==
    ASSUME NEW total \in Nat, NEW parts \in Nat, parts > 0, NEW v \in 0 .. total - 1
    PROVE  /\ RangeIndex(total, parts, v) \in 0 .. parts - 1
           /\ v \in Part(total, parts, RangeIndex(total, parts, v))
<1> DEFINE q == total \div parts
           b == total % parts
           base == (q + 1) * b
           k == RangeIndex(total, parts, v)
<1>1. q \in Nat /\ b \in 0 .. parts - 1 /\ total = parts * q + b
  BY Zenon, DivMod
<1>2. k = IF v < base THEN v \div (q + 1) ELSE b + (v - base) \div q
  BY Zenon DEF RangeIndex
<1>3. /\ Begin(total, parts, k) = IF k < b THEN (q + 1) * k ELSE base + q * (k - b)
      /\ End(total, parts, k) = Begin(total, parts, k) + IF k < b THEN q + 1 ELSE q
  BY Zenon DEF Begin, End
<1>4. base = q * b + b /\ base \in Nat
  BY <1>1
<1> HIDE DEF q, b, base, k
<1>5. CASE v < base
  <2>1. k \in Nat /\ v % (q + 1) \in 0 .. q /\ v = (q + 1) * k + (v % (q + 1))
    <3>1. v \in Nat /\ q + 1 \in Nat /\ q + 1 > 0
      BY <1>1
    <3>2. /\ v \div (q + 1) \in Nat /\ v % (q + 1) \in 0 .. (q + 1) - 1
          /\ v = (q + 1) * (v \div (q + 1)) + (v % (q + 1))
      BY Zenon, <3>1, DivMod
    <3>3. k = v \div (q + 1) /\ (q + 1) - 1 = q
      BY <1>1, <1>2, <1>5
    <3> QED
      BY Zenon, <3>2, <3>3
  <2>2. k < b
    <3> SUFFICES ASSUME b <= k PROVE FALSE
      BY <1>1, <2>1
    <3>1. (q + 1) * b <= (q + 1) * k
      BY <1>1, <2>1, MulMono
    <3> QED
      BY <1>1, <1>4, <1>5, <2>1, <3>1 DEF base
  <2>3. (q + 1) * k \in Nat
    BY <1>1, <2>1
  <2> QED
    BY <1>1, <1>3, <2>1, <2>2, <2>3 DEF Part, k
<1>6. CASE ~(v < base)
  <2>1. q > 0
    <3> SUFFICES ASSUME q = 0 PROVE FALSE
      BY <1>1
    <3>1. parts * q = 0 /\ q * b = 0
      BY <1>1
    <3> QED
      BY <1>1, <1>4, <1>6, <3>1
  <2> DEFINE m == v - base
             d == m \div q
  <2>2. m \in Nat
    BY <1>4, <1>6
  <2> HIDE DEF m
  <2>3. d \in Nat /\ m % q \in 0 .. q - 1 /\ m = q * d + (m % q)
    BY Zenon, <1>1, <2>1, <2>2, DivMod
  <2>4. k = b + d
    BY Zenon, <1>2, <1>6 DEF m
  <2> HIDE DEF d
  <2>5. d < parts - b
    <3> SUFFICES ASSUME parts - b <= d PROVE FALSE
      BY <1>1, <2>3
    <3>1. q * (parts - b) <= q * d
      BY <1>1, <2>3, MulMono
    <3>2. q * (parts - b) = q * parts - q * b /\ q * parts = parts * q
      BY <1>1, MulMinus, MulStep
    <3>3. q * parts \in Nat /\ q * b \in Nat /\ q * d \in Nat
      BY <1>1, <2>3
    <3> QED
      BY <1>1, <1>4, <2>3, <3>1, <3>2, <3>3 DEF m
  <2>6. q * d \in Nat
    BY <1>1, <2>3
  <2>7. k - b = d /\ ~(k < b)
    BY <1>1, <2>3, <2>4
  <2>8. Begin(total, parts, k) = base + q * d /\ End(total, parts, k) = base + q * d + q
    BY Zenon, <1>3, <2>7
  <2> QED
    BY <1>1, <1>4, <2>3, <2>4, <2>5, <2>6, <2>8 DEF Part, m, k
<1> QED
  BY Zenon, <1>5, <1>6

\* A part lies within the range.
LEMMA PartsWithin ==
    ASSUME NEW total \in Nat, NEW parts \in Nat, parts > 0, NEW r \in 0 .. parts - 1
    PROVE  Part(total, parts, r) \subseteq 0 .. total - 1
<1> DEFINE q == total \div parts
           b == total % parts
<1>1. q \in Nat /\ b \in 0 .. parts - 1 /\ total = parts * q + b
  BY Zenon, DivMod
<1>2. /\ Begin(total, parts, r) = IF r < b THEN (q + 1) * r ELSE (q + 1) * b + q * (r - b)
      /\ End(total, parts, r) = Begin(total, parts, r) + IF r < b THEN q + 1 ELSE q
  BY Zenon DEF Begin, End
<1> HIDE DEF q, b
<1>3. q * parts = parts * q /\ q * parts \in Nat
  BY <1>1
<1>4. CASE r < b
  <2>1. (q + 1) * (r + 1) <= (q + 1) * b /\ (q + 1) * b <= (q + 1) * parts
    BY <1>1, <1>4, MulMono
  <2>2. q * b <= q * parts
    BY <1>1, MulMono
  <2>3. (q + 1) * (r + 1) = (q + 1) * r + (q + 1) /\ (q + 1) * b = q * b + b
    BY <1>1, MulStep
  <2>4. (q + 1) * r \in Nat /\ q * b \in Nat
    BY <1>1
  <2> QED
    BY <1>1, <1>2, <1>3, <1>4, <2>1, <2>2, <2>3, <2>4 DEF Part
<1>5. CASE ~(r < b)
  <2>1. q * ((r - b) + 1) <= q * (parts - b)
    BY <1>1, MulMono
  <2>2. q * ((r - b) + 1) = q * (r - b) + q /\ (q + 1) * b = q * b + b
    BY <1>1, MulStep
  <2>3. q * (parts - b) = q * parts - q * b
    BY <1>1, MulMinus
  <2>4. q * b \in Nat /\ q * (r - b) \in Nat
    BY <1>1, <1>5
  <2> QED
    BY <1>1, <1>2, <1>3, <1>5, <2>1, <2>2, <2>3, <2>4 DEF Part
<1> QED
  BY Zenon, <1>4, <1>5

-----------------------------------------------------------------------------
(***************************************************************************)
(* The inductive invariant.  A work is pending until its Decrease; it is   *)
(* unworked until the body has run for its range.  Every work is in one    *)
(* place, the counter counts the pending ones, and done tells the worked   *)
(* parts from the others.                                                  *)
(***************************************************************************)
Queued(x) == \E w \in Worker : \E k \in 1 .. Len(queue[w]) : queue[w][k] = x
HeldIn(x, P) == \E w \in Worker : job[w] = x /\ wpc[w] \in P
Pending(c, r) == r >= range[c] \/ Queued(<<c, r>>) \/ HeldIn(<<c, r>>, {"work", "decrease"})
Unworked(c, r) == r >= range[c] \/ Queued(<<c, r>>) \/ HeldIn(<<c, r>>, {"work"})
Parts(c) == 0 .. loop[c].threads - 1
PendingSet(c) == {r \in Parts(c) : Pending(c, r)}

\* The pool is deleted only when no client is in a loop.
PhaseOK ==
    /\ \A w \in Worker : closed[w] => pool # "up"
    /\ pool # "up" => \A c \in Client : ~InLoop(c)

RangeOK == \A c \in Client :
    /\ cpc[c] \in {"add", "send"} => range[c] < loop[c].threads
    /\ cpc[c] = "notify" => range[c] <= loop[c].threads
    /\ cpc[c] \in {"wait", "asleep"} => range[c] = loop[c].threads

LockOK ==
    /\ \A w \in Worker : job[w] = <<>> <=> wpc[w] \in {"receive", "exited"}
    /\ \A w \in Worker : wpc[w] \in {"notify", "unlock"} => mtx[job[w][1]] = w

SentOK ==
    /\ \A w \in Worker : \A k \in 1 .. Len(queue[w]) :
         InLoop(queue[w][k][1]) /\ queue[w][k][2] < range[queue[w][k][1]]
    /\ \A w \in Worker : job[w] # <<>> => InLoop(job[w][1]) /\ job[w][2] < range[job[w][1]]

OnceOK ==
    /\ \A v, w \in Worker : \A j \in 1 .. Len(queue[v]), k \in 1 .. Len(queue[w]) :
         queue[v][j] = queue[w][k] => v = w /\ j = k
    /\ \A v, w \in Worker : \A k \in 1 .. Len(queue[w]) : job[v] # queue[w][k]
    /\ \A v, w \in Worker : job[v] = job[w] /\ job[v] # <<>> => v = w

CountOK == \A c \in Client : InLoop(c) => cnt[c] = Cardinality(PendingSet(c))

DoneAt(c) == InLoop(c) =>
    /\ DOMAIN done[c] = 0 .. loop[c].n - 1
    /\ \A r \in Parts(c) : \A i \in Part(loop[c].n, loop[c].threads, r) :
         done[c][i] = IF Unworked(c, r) THEN 0 ELSE 1
DoneOK == \A c \in Client : DoneAt(c)

IInv ==
    /\ TypeOK /\ NoLostWork /\ PhaseOK /\ RangeOK /\ LockOK /\ SentOK /\ OnceOK
    /\ CountOK /\ DoneOK /\ OnceOnReturn

\* The sets of pending works are finite.
LEMMA PendingFinite ==
    ASSUME TypeOK, NEW c \in Client
    PROVE  IsFiniteSet(PendingSet(c)) /\ Cardinality(PendingSet(c)) \in Nat
<1>1. loop[c].threads \in Nat
  BY PoolAssumption DEF TypeOK
<1>2. IsFiniteSet(Parts(c))
  BY SMTT(30), <1>1, FS_Interval DEF Parts
<1>3. PendingSet(c) \subseteq Parts(c)
  BY Zenon DEF PendingSet
<1> QED
  BY Zenon, <1>2, <1>3, FS_Subset, FS_CardinalityType

\* range_id stays within the parts.
LEMMA RangeWithin ==
    ASSUME TypeOK, RangeOK, NEW c \in Client
    PROVE  /\ range[c] \in Nat /\ loop[c].threads \in Nat /\ loop[c].threads > 0 /\ loop[c].n \in Nat
           /\ InLoop(c) => range[c] <= loop[c].threads
<1>1. range[c] \in 0 .. ThreadNum /\ loop[c] \in [n : Nat, threads : 1 .. ThreadNum]
  BY Zenon DEF TypeOK
<1>2. range[c] \in Nat /\ loop[c].threads \in Nat /\ loop[c].threads > 0 /\ loop[c].n \in Nat
  BY <1>1, PoolAssumption
<1>3. InLoop(c) => cpc[c] \in {"add", "send", "notify", "wait", "asleep"}
  BY Zenon DEF TypeOK, InLoop
<1>4. /\ cpc[c] \in {"add", "send"} => range[c] < loop[c].threads
      /\ cpc[c] = "notify" => range[c] <= loop[c].threads
      /\ cpc[c] \in {"wait", "asleep"} => range[c] = loop[c].threads
  BY Zenon DEF RangeOK
<1> QED
  BY <1>2, <1>3, <1>4

\* What a worker with a work knows.
LEMMA JobFacts ==
    ASSUME IInv, NEW w \in Worker, wpc[w] \notin {"receive", "exited"}
    PROVE  /\ job[w] # <<>> /\ job[w][1] \in Client /\ job[w][2] \in Nat
           /\ job[w] = <<job[w][1], job[w][2]>>
           /\ InLoop(job[w][1]) /\ job[w][2] < range[job[w][1]]
           /\ job[w][2] \in Parts(job[w][1])
<1>1. job[w] # <<>>
  BY Zenon DEF IInv, LockOK
<1>2. job[w] \in Client \X (0 .. ThreadNum - 1)
  BY Zenon, <1>1 DEF IInv, TypeOK, Works
<1>3. InLoop(job[w][1]) /\ job[w][2] < range[job[w][1]]
  BY Zenon, <1>1 DEF IInv, SentOK
<1>4. job[w][1] \in Client /\ job[w][2] \in 0 .. ThreadNum - 1 /\ job[w] = <<job[w][1], job[w][2]>>
  BY <1>2
<1>5. TypeOK /\ RangeOK
  BY Zenon DEF IInv
<1>6. /\ range[job[w][1]] <= loop[job[w][1]].threads
      /\ loop[job[w][1]].threads \in Nat /\ range[job[w][1]] \in Nat
  BY Zenon, <1>3, <1>4, <1>5, RangeWithin
<1> QED
  BY SMTT(30), <1>1, <1>3, <1>4, <1>6, PoolAssumption DEF Parts

\* A work that is to be counted down is counted.
LEMMA CntPositive ==
    ASSUME IInv, NEW w \in Worker, wpc[w] = "decrease"
    PROVE  /\ job[w][2] \in PendingSet(job[w][1])
           /\ cnt[job[w][1]] = Cardinality(PendingSet(job[w][1])) /\ cnt[job[w][1]] \in 1 .. ThreadNum
<1> DEFINE c == job[w][1]
           r == job[w][2]
<1>1. c \in Client /\ r \in Parts(c) /\ job[w] = <<c, r>> /\ InLoop(c)
  BY Zenon, JobFacts
<1>2. r \in PendingSet(c)
  BY Zenon, <1>1 DEF PendingSet, Pending, HeldIn
<1>3. cnt[c] = Cardinality(PendingSet(c))
  BY Zenon, <1>1 DEF IInv, CountOK
<1>4. TypeOK
  BY Zenon DEF IInv
<1>5. IsFiniteSet(PendingSet(c)) /\ Cardinality(PendingSet(c)) \in Nat
  BY Zenon, <1>1, <1>4, PendingFinite
<1>6. Cardinality(PendingSet(c)) # 0
  BY Zenon, <1>2, <1>5, FS_EmptySet
<1>7. cnt[c] \in 0 .. ThreadNum
  BY Zenon, <1>1, <1>4 DEF TypeOK
<1> QED
  BY <1>2, <1>3, <1>5, <1>6, <1>7, PoolAssumption

-----------------------------------------------------------------------------
\* The type of an updated function.
LEMMA ExceptType ==
    ASSUME NEW D, NEW T, NEW f \in [D -> T], NEW d, NEW e \in T
    PROVE  [f EXCEPT ![d] = e] \in [D -> T]
BY Zenon

\* thread_num of a loop that is not run by the client alone.
LEMMA ThreadsFacts ==
    ASSUME NEW l \in Loop, l.n # 0, l.limit # 0
    PROVE  l.n \in Nat /\ Threads(l) \in 1 .. ThreadNum
<1>1. l.n \in Nat /\ l.limit \in Int
  BY Zenon DEF Loop
<1> QED
  BY <1>1, PoolAssumption DEF Threads, Least

\* Every step keeps the types.
LEMMA TypeStep ==
    ASSUME IInv, Next PROVE TypeOK'
<1>0. TypeOK /\ RangeOK
  BY Zenon DEF IInv
<1> USE DEF workers, clients
<1>1. ASSUME NEW c \in Client, Start(c) PROVE TypeOK'
  <2> DEFINE l == Head(todo[c])
  <2>1. l \in Loop /\ Tail(todo[c]) \in Seq(Loop)
    BY <1>0, <1>1 DEF Start, TypeOK
  <2>3. UNCHANGED <<queue, closed, asleep, wpc, job, workCnt, chan, mtx, pool, victim>>
    BY Zenon, <1>1 DEF Start
  <2>4. todo' \in [Client -> Seq(Loop)] /\ DOMAIN done' = Client
    BY Zenon, <1>0, <1>1, <2>1 DEF Start, TypeOK
  <2>5. CASE UNCHANGED <<cpc, loop, range, cnt>>
    BY Zenon, <1>0, <2>3, <2>4, <2>5 DEF TypeOK
  <2>6. CASE ~(l.n = 0 \/ pool = "gone" \/ l.limit = 0)
    <3>1. l.n \in Nat /\ Threads(l) \in 1 .. ThreadNum
      BY Zenon, <2>1, <2>6, ThreadsFacts
    <3>2. /\ cpc' = [cpc EXCEPT ![c] = "add"]
          /\ loop' = [loop EXCEPT ![c] = [n |-> l.n, threads |-> Threads(l)]]
          /\ range' = [range EXCEPT ![c] = 0] /\ cnt' = [cnt EXCEPT ![c] = Threads(l)]
      BY Zenon, <1>1, <2>6 DEF Start
    <3>3. cpc' \in [Client -> {"idle", "add", "send", "notify", "wait", "asleep"}]
      BY Zenon, <1>0, <3>2, ExceptType DEF TypeOK
    <3>4. loop' \in [Client -> [n : Nat, threads : 1 .. ThreadNum]]
      <4>1. [n |-> l.n, threads |-> Threads(l)] \in [n : Nat, threads : 1 .. ThreadNum]
        BY Zenon, <3>1
      <4> QED
        BY Zenon, <1>0, <3>2, <4>1, ExceptType DEF TypeOK
    <3>5. range' \in [Client -> 0 .. ThreadNum] /\ cnt' \in [Client -> 0 .. ThreadNum]
      <4>1. 0 \in 0 .. ThreadNum /\ Threads(l) \in 0 .. ThreadNum
        BY <3>1, PoolAssumption
      <4> QED
        BY Zenon, <1>0, <3>2, <4>1, ExceptType DEF TypeOK
    <3> QED
      BY Zenon, <1>0, <2>3, <2>4, <3>3, <3>4, <3>5 DEF TypeOK
  <2> QED
    BY Zenon, <1>1, <2>5, <2>6 DEF Start
<1>2. ASSUME NEW c \in Client, Choose(c) PROVE TypeOK'
  <2>1. workCnt % ThreadNum \in 0 .. ThreadNum - 1 /\ (workCnt + 1) % CntMod \in 0 .. CntMod - 1
    <3>1. /\ workCnt \in Nat /\ workCnt + 1 \in Nat /\ ThreadNum \in Nat /\ ThreadNum > 0
          /\ CntMod \in Nat /\ CntMod > 0
      BY <1>0, PoolAssumption DEF TypeOK
    <3> QED
      BY Zenon, <3>1, DivMod
  <2> QED
    BY Zenon, <1>0, <1>2, <2>1, ExceptType DEF Choose, TypeOK, Worker
<1>3. ASSUME NEW c \in Client, Send(c) PROVE TypeOK'
  <2>1. range[c] < loop[c].threads /\ range[c] \in 0 .. ThreadNum /\ loop[c].threads \in 1 .. ThreadNum
    BY Zenon, <1>0, <1>3 DEF Send, TypeOK, RangeOK
  <2>2. range[c] + 1 \in 0 .. ThreadNum /\ <<c, range[c]>> \in Works /\ chan[c] \in Worker
    BY SMTT(30), <1>0, <2>1, PoolAssumption DEF Works, TypeOK
  <2>3. queue' \in [Worker -> Seq(Works)]
    BY SMTT(30), <1>0, <1>3, <2>2 DEF Send, TypeOK
  <2>4. cpc' \in [Client -> {"idle", "add", "send", "notify", "wait", "asleep"}]
    BY Zenon, <1>0, <1>3 DEF Send, TypeOK, AfterSend
  <2>5. range' \in [Client -> 0 .. ThreadNum]
    BY Zenon, <1>0, <1>3, <2>2 DEF Send, TypeOK
  <2>6. UNCHANGED <<closed, asleep, wpc, job, workCnt, todo, loop, chan, cnt, mtx, done, pool, victim>>
    BY Zenon, <1>3 DEF Send
  <2> QED
    BY Zenon, <1>0, <2>3, <2>4, <2>5, <2>6 DEF TypeOK
<1>4. ASSUME NEW c \in Client, Notify(c) \/ Wait(c) \/ Timeout(c) PROVE TypeOK'
  <2>1. cpc' \in [Client -> {"idle", "add", "send", "notify", "wait", "asleep"}]
    <3>1. \E e \in {"idle", "add", "wait", "asleep"} : cpc' = [cpc EXCEPT ![c] = e]
      BY Zenon, <1>4 DEF Notify, Wait, Timeout
    <3> QED
      BY Zenon, <1>0, <3>1, ExceptType DEF TypeOK
  <2>2. asleep' \subseteq asleep
    BY Zenon, <1>4 DEF Notify, Wait, Timeout
  <2>3. UNCHANGED <<queue, closed, wpc, job, workCnt, todo, loop, range, chan, cnt, mtx, done, pool, victim>>
    BY Zenon, <1>4 DEF Notify, Wait, Timeout
  <2> QED
    BY Zenon, <1>0, <2>1, <2>2, <2>3 DEF TypeOK
<1>5. ASSUME NEW w \in Worker, Receive(w) PROVE TypeOK'
  <2>1. queue[w] \in Seq(Works)
    BY Zenon, <1>0 DEF TypeOK
  <2>2. queue[w] # <<>> => Head(queue[w]) \in Works /\ Tail(queue[w]) \in Seq(Works)
    BY <2>1
  <2>6. UNCHANGED <<closed, workCnt, cpc, todo, loop, range, chan, cnt, mtx, done, pool, victim>>
    BY Zenon, <1>5 DEF Receive
  <2>3. CASE UNCHANGED <<queue, wpc, job>> /\ asleep' = asleep \cup {w}
    BY Zenon, <1>0, <2>3, <2>6 DEF TypeOK
  <2>4. CASE wpc' = [wpc EXCEPT ![w] = "exited"] /\ UNCHANGED <<queue, asleep, job>>
    BY Zenon, <1>0, <2>4, <2>6, ExceptType DEF TypeOK
  <2>5. CASE /\ queue[w] # <<>> /\ UNCHANGED asleep
             /\ job' = [job EXCEPT ![w] = Head(queue[w])] /\ queue' = [queue EXCEPT ![w] = Tail(queue[w])]
             /\ wpc' = [wpc EXCEPT ![w] = "work"]
    BY Zenon, <1>0, <2>2, <2>5, <2>6, ExceptType DEF TypeOK
  <2> QED
    BY Zenon, <1>5, <2>3, <2>4, <2>5 DEF Receive
<1>6. ASSUME NEW w \in Worker, SpuriousWakeup(w) PROVE TypeOK'
  BY Zenon, <1>0, <1>6 DEF SpuriousWakeup, TypeOK
<1>7. ASSUME NEW w \in Worker, Work(w) PROVE TypeOK'
  <2>1. wpc' \in [Worker -> {"receive", "work", "decrease", "notify", "unlock", "exited"}]
    BY <1>0, <1>7 DEF Work, TypeOK
  <2>2. DOMAIN done' = Client
    BY Zenon, <1>0, <1>7 DEF Work, TypeOK
  <2>3. UNCHANGED <<queue, closed, asleep, job, workCnt, cpc, todo, loop, range, chan, cnt, mtx, pool, victim>>
    BY Zenon, <1>7 DEF Work
  <2> QED
    BY Zenon, <1>0, <2>1, <2>2, <2>3 DEF TypeOK
<1>8. ASSUME NEW w \in Worker, Decrease(w) PROVE TypeOK'
  <2>1. job[w][1] \in Client /\ cnt[job[w][1]] \in 1 .. ThreadNum
    BY Zenon, <1>8, JobFacts, CntPositive DEF Decrease
  <2>2. cnt' \in [Client -> 0 .. ThreadNum]
    <3>1. cnt[job[w][1]] - 1 \in 0 .. ThreadNum
      BY <2>1, PoolAssumption
    <3> QED
      BY Zenon, <1>0, <1>8, <3>1, ExceptType DEF Decrease, TypeOK
  <2>3. mtx' \in [Client -> Worker \cup {Nobody}]
    BY Zenon, <1>0, <1>8, ExceptType DEF Decrease, TypeOK
  <2>4. wpc' \in [Worker -> {"receive", "work", "decrease", "notify", "unlock", "exited"}]
    BY Zenon, <1>0, <1>8, ExceptType DEF Decrease, TypeOK
  <2>5. UNCHANGED <<queue, closed, asleep, job, workCnt, cpc, todo, loop, range, chan, done, pool, victim>>
    BY Zenon, <1>8 DEF Decrease
  <2> QED
    BY Zenon, <1>0, <2>2, <2>3, <2>4, <2>5 DEF TypeOK
<1>9. ASSUME NEW w \in Worker, NotifyAtZero(w) PROVE TypeOK'
  <2>1. cpc' \in [Client -> {"idle", "add", "send", "notify", "wait", "asleep"}]
    <3>1. job[w][1] \in Client
      BY Zenon, <1>9, JobFacts DEF NotifyAtZero
    <3>2. cpc[job[w][1]] \in {"idle", "add", "send", "notify", "wait", "asleep"}
      BY Zenon, <1>0, <3>1 DEF TypeOK
    <3> QED
      BY Zenon, <1>0, <1>9, <3>2, ExceptType DEF NotifyAtZero, TypeOK
  <2>2. wpc' \in [Worker -> {"receive", "work", "decrease", "notify", "unlock", "exited"}]
    BY Zenon, <1>0, <1>9 DEF NotifyAtZero, TypeOK
  <2>3. UNCHANGED <<queue, closed, asleep, job, workCnt, todo, loop, range, chan, cnt, mtx, done, pool, victim>>
    BY Zenon, <1>9 DEF NotifyAtZero
  <2> QED
    BY Zenon, <1>0, <2>1, <2>2, <2>3 DEF TypeOK
<1>10. ASSUME NEW w \in Worker, Unlock(w) PROVE TypeOK'
  <2>1. mtx' \in [Client -> Worker \cup {Nobody}] /\ job' \in [Worker -> Works \cup {<<>>}]
    BY Zenon, <1>0, <1>10, ExceptType DEF Unlock, TypeOK
  <2>2. wpc' \in [Worker -> {"receive", "work", "decrease", "notify", "unlock", "exited"}]
    BY Zenon, <1>0, <1>10, ExceptType DEF Unlock, TypeOK
  <2>3. UNCHANGED <<queue, closed, asleep, workCnt, cpc, todo, loop, range, chan, cnt, done, pool, victim>>
    BY Zenon, <1>10 DEF Unlock
  <2> QED
    BY Zenon, <1>0, <2>1, <2>2, <2>3 DEF TypeOK
<1>11. CASE Destroy \/ Close \/ Join
  <2>1. victim' \in Worker
    BY SMTT(30), <1>0, <1>11, PoolAssumption DEF Destroy, Close, Join, TypeOK, Worker
  <2>2. closed' \in [Worker -> BOOLEAN] /\ asleep' \subseteq Worker /\ pool' \in {"up", "close", "join", "gone"}
    BY Zenon, <1>0, <1>11, ExceptType DEF Destroy, Close, Join, TypeOK
  <2>3. UNCHANGED <<queue, wpc, job, clients>>
    BY Zenon, <1>11 DEF Destroy, Close, Join
  <2> QED
    BY Zenon, <1>0, <2>1, <2>2, <2>3 DEF TypeOK
<1> QED
  BY Zenon, <1>1, <1>2, <1>3, <1>4, <1>5, <1>6, <1>7, <1>8, <1>9, <1>10, <1>11 DEF Next, ClientStep, WorkerStep

\* Every step keeps the sleeping workers about to be woken.
LEMMA AwakeStep ==
    ASSUME IInv, Next PROVE NoLostWork'
<1>t. /\ DOMAIN cpc = Client /\ DOMAIN chan = Client /\ DOMAIN queue = Worker /\ DOMAIN closed = Worker
      /\ asleep \subseteq Worker /\ \A c \in Client : chan[c] \in Worker
  BY Zenon DEF IInv, TypeOK
<1>i. NoLostWork
  BY Zenon DEF IInv
<1> USE DEF workers, clients
<1>1. ASSUME NEW c \in Client, Start(c) \/ Choose(c) \/ Wait(c) \/ Timeout(c) PROVE NoLostWork'
  <2>1. UNCHANGED <<queue, closed, asleep>> /\ cpc[c] # "notify"
    BY Zenon, <1>1 DEF Start, Choose, Wait, Timeout
  <2>2. \A d \in Client : d # c => cpc'[d] = cpc[d] /\ chan'[d] = chan[d]
    BY Zenon, <1>t, <1>1 DEF Start, Choose, Wait, Timeout
  <2> QED
    BY <1>i, <2>1, <2>2 DEF NoLostWork
<1>2. ASSUME NEW c \in Client, Send(c) PROVE NoLostWork'
  <2>1. UNCHANGED <<closed, asleep, chan>> /\ cpc[c] = "send"
    BY Zenon, <1>2 DEF Send
  <2>2. \A d \in Client : d # c => cpc'[d] = cpc[d]
    BY Zenon, <1>t, <1>2 DEF Send
  <2>3. ASSUME NEW w \in asleep', queue'[w] # <<>> PROVE \E d \in Client : cpc'[d] = "notify" /\ chan'[d] = w
    <3>1. CASE queue[w] = <<>>
      <4>1. w = chan[c] /\ ~closed[w]
        BY Zenon, <1>t, <1>2, <2>1, <2>3, <3>1 DEF Send
      <4>2. cpc'[c] = "notify"
        BY Zenon, <1>t, <1>2, <3>1, <4>1 DEF Send
      <4> QED
        BY Zenon, <2>1, <4>1, <4>2
    <3>2. CASE queue[w] # <<>>
      BY ZenonT(40), <1>i, <2>1, <2>2, <2>3, <3>2 DEF NoLostWork
    <3> QED
      BY Zenon, <3>1, <3>2
  <2> QED
    BY Zenon, <1>i, <2>1, <2>3 DEF NoLostWork
<1>3. ASSUME NEW c \in Client, Notify(c) PROVE NoLostWork'
  <2>1. UNCHANGED <<closed, queue, chan>> /\ asleep' = asleep \ {chan[c]}
    BY Zenon, <1>3 DEF Notify
  <2>2. \A d \in Client : d # c => cpc'[d] = cpc[d]
    BY Zenon, <1>t, <1>3 DEF Notify
  <2> QED
    BY <1>i, <2>1, <2>2 DEF NoLostWork
<1>4. ASSUME NEW w \in Worker, Receive(w) PROVE NoLostWork'
  <2>1. UNCHANGED <<closed, cpc, chan>> /\ w \notin asleep
    BY Zenon, <1>4 DEF Receive
  <2>2. \A v \in Worker : v # w => queue'[v] = queue[v]
    BY Zenon, <1>t, <1>4 DEF Receive
  <2>3. asleep' = asleep \/ (asleep' = asleep \cup {w} /\ queue[w] = <<>> /\ queue' = queue /\ ~closed[w])
    BY Zenon, <1>4 DEF Receive
  <2> QED
    BY <1>t, <1>i, <2>1, <2>2, <2>3 DEF NoLostWork
<1>5. ASSUME NEW w \in Worker, SpuriousWakeup(w) PROVE NoLostWork'
  BY Zenon, <1>i, <1>5 DEF SpuriousWakeup, NoLostWork
<1>6. ASSUME NEW w \in Worker, Work(w) \/ Decrease(w) \/ Unlock(w) PROVE NoLostWork'
  <2>1. UNCHANGED <<closed, cpc, chan, queue, asleep>>
    BY Zenon, <1>6 DEF Work, Decrease, Unlock
  <2> QED
    BY Zenon, <1>i, <2>1 DEF NoLostWork
<1>7. ASSUME NEW w \in Worker, NotifyAtZero(w) PROVE NoLostWork'
  <2>1. UNCHANGED <<closed, chan, queue, asleep>>
    BY Zenon, <1>7 DEF NotifyAtZero
  <2>2. \A d \in Client : cpc[d] = "notify" => cpc'[d] = "notify"
    BY Zenon, <1>t, <1>7 DEF NotifyAtZero
  <2> QED
    BY Zenon, <1>i, <2>1, <2>2 DEF NoLostWork
<1>8. CASE Destroy \/ Join
  <2>1. UNCHANGED <<closed, cpc, chan, queue, asleep>>
    BY Zenon, <1>8 DEF Destroy, Join
  <2> QED
    BY Zenon, <1>i, <2>1 DEF NoLostWork
<1>9. CASE Close
  <2>1. UNCHANGED <<cpc, chan, queue>> /\ asleep' = asleep \ {victim}
    BY Zenon, <1>9 DEF Close
  <2>2. \A w \in asleep' : closed'[w] = closed[w]
    BY Zenon, <1>t, <1>9 DEF Close
  <2> QED
    BY Zenon, <1>i, <2>1, <2>2 DEF NoLostWork
<1> QED
  BY Zenon, <1>1, <1>2, <1>3, <1>4, <1>5, <1>6, <1>7, <1>8, <1>9 DEF Next, ClientStep, WorkerStep

\* A loop never meets a closed channel.
LEMMA PhaseStep ==
    ASSUME IInv, Next PROVE PhaseOK'
<1>t. DOMAIN cpc = Client /\ DOMAIN closed = Worker
  BY Zenon DEF IInv, TypeOK
<1>i. PhaseOK
  BY Zenon DEF IInv
<1> USE DEF workers, clients
<1>1. ASSUME NEW c \in Client, Start(c) PROVE PhaseOK'
  <2>1. UNCHANGED <<closed, pool>> /\ pool \in {"up", "gone"} /\ (pool = "gone" => cpc' = cpc)
    BY Zenon, <1>1 DEF Start
  <2> QED
    BY Zenon, <1>i, <2>1 DEF PhaseOK, InLoop
<1>2. ASSUME NEW c \in Client, Choose(c) \/ Send(c) \/ Notify(c) \/ Wait(c) \/ Timeout(c) PROVE PhaseOK'
  <2>1. UNCHANGED <<closed, pool>> /\ InLoop(c)
    BY Zenon, <1>2 DEF Choose, Send, Notify, Wait, Timeout, InLoop
  <2> QED
    BY Zenon, <1>i, <2>1 DEF PhaseOK
<1>3. ASSUME NEW w \in Worker, Receive(w) \/ SpuriousWakeup(w) \/ Work(w) \/ Decrease(w) \/ Unlock(w) PROVE PhaseOK'
  <2>1. UNCHANGED <<closed, pool, cpc>>
    BY Zenon, <1>3 DEF Receive, SpuriousWakeup, Work, Decrease, Unlock
  <2> QED
    BY Zenon, <1>i, <2>1 DEF PhaseOK, InLoop
<1>4. ASSUME NEW w \in Worker, NotifyAtZero(w) PROVE PhaseOK'
  <2>1. UNCHANGED <<closed, pool>>
    BY Zenon, <1>4 DEF NotifyAtZero
  <2>2. \A d \in Client : cpc[d] = "idle" => cpc'[d] = "idle"
    BY Zenon, <1>t, <1>4 DEF NotifyAtZero
  <2> QED
    BY Zenon, <1>i, <2>1, <2>2 DEF PhaseOK, InLoop
<1>5. CASE Destroy \/ Close \/ Join
  BY Zenon, <1>i, <1>t, <1>5 DEF Destroy, Close, Join, PhaseOK, InLoop
<1> QED
  BY Zenon, <1>1, <1>2, <1>3, <1>4, <1>5 DEF Next, ClientStep, WorkerStep

\* range_id and the place of the client agree.
LEMMA RangeStep ==
    ASSUME IInv, Next PROVE RangeOK'
<1>t. /\ DOMAIN cpc = Client /\ DOMAIN range = Client /\ DOMAIN loop = Client
      /\ \A c \in Client : range[c] \in Int /\ loop[c].threads \in Int
  <2>1. TypeOK /\ RangeOK
    BY Zenon DEF IInv
  <2>2. \A c \in Client : range[c] \in Nat /\ loop[c].threads \in Nat
    BY Zenon, <2>1, RangeWithin
  <2> QED
    BY <2>1, <2>2 DEF TypeOK
<1>i. RangeOK
  BY Zenon DEF IInv
<1> USE DEF workers, clients
\* Only one client's place matters.
<1>a. ASSUME NEW c \in Client, UNCHANGED loop, range'[c] = range[c],
             \A d \in Client : d # c => cpc'[d] = cpc[d] /\ range'[d] = range[d],
             cpc'[c] \in {"add", "send"} => range[c] < loop[c].threads,
             cpc'[c] = "notify" => range[c] <= loop[c].threads,
             cpc'[c] \in {"wait", "asleep"} => range[c] = loop[c].threads
      PROVE  RangeOK'
  BY Zenon, <1>i, <1>a DEF RangeOK
<1>1. ASSUME NEW c \in Client, Start(c) PROVE RangeOK'
  <2> DEFINE l == Head(todo[c])
  <2>1. CASE UNCHANGED <<cpc, loop, range, cnt>>
    BY Zenon, <1>i, <2>1 DEF RangeOK
  <2>2. CASE ~(l.n = 0 \/ pool = "gone" \/ l.limit = 0)
    <3>1. todo[c] \in Seq(Loop) /\ todo[c] # <<>>
      BY Zenon, <1>1 DEF IInv, TypeOK, Start
    <3>2. Threads(l) \in 1 .. ThreadNum
      BY <2>2, <3>1, ThreadsFacts
    <3>3. /\ cpc' = [cpc EXCEPT ![c] = "add"]
          /\ loop' = [loop EXCEPT ![c] = [n |-> l.n, threads |-> Threads(l)]]
          /\ range' = [range EXCEPT ![c] = 0]
      BY Zenon, <1>1, <2>2 DEF Start
    <3>4. cpc'[c] = "add" /\ loop'[c].threads = Threads(l) /\ range'[c] = 0
      BY Zenon, <1>t, <3>3
    <3>5. 0 < Threads(l)
      BY <3>2
    <3>6. \A d \in Client : d # c => cpc'[d] = cpc[d] /\ range'[d] = range[d] /\ loop'[d] = loop[d]
      BY Zenon, <1>t, <3>3
    <3> HIDE DEF l
    <3> QED
      BY Zenon, <1>i, <3>4, <3>5, <3>6 DEF RangeOK
  <2> QED
    BY Zenon, <1>1, <2>1, <2>2 DEF Start
<1>2. ASSUME NEW c \in Client, Choose(c) PROVE RangeOK'
  BY Zenon, <1>t, <1>i, <1>a, <1>2 DEF Choose, RangeOK
<1>3. ASSUME NEW c \in Client, Send(c) PROVE RangeOK'
  <2>1. UNCHANGED loop /\ range[c] < loop[c].threads
    BY Zenon, <1>i, <1>3 DEF Send, RangeOK
  <2>2. range'[c] = range[c] + 1
    BY Zenon, <1>t, <1>3 DEF Send
  <2>3. \A d \in Client : d # c => cpc'[d] = cpc[d] /\ range'[d] = range[d]
    BY Zenon, <1>t, <1>3 DEF Send
  <2>4. cpc'[c] = "notify" \/ cpc'[c] = IF range[c] + 1 < loop[c].threads THEN "add" ELSE "wait"
    BY Zenon, <1>t, <1>3 DEF Send, AfterSend
  <2> QED
    BY <1>t, <1>i, <2>1, <2>2, <2>3, <2>4 DEF RangeOK
<1>4. ASSUME NEW c \in Client, Notify(c) \/ Wait(c) \/ Timeout(c) PROVE RangeOK'
  <2>1. UNCHANGED <<loop, range>> /\ \A d \in Client : d # c => cpc'[d] = cpc[d]
    BY Zenon, <1>t, <1>4 DEF Notify, Wait, Timeout
  <2>2. /\ cpc'[c] = "add" => range[c] < loop[c].threads
        /\ cpc'[c] \in {"wait", "asleep"} => range[c] = loop[c].threads
        /\ cpc'[c] \in {"add", "wait", "asleep", "idle"}
    BY <1>t, <1>i, <1>4 DEF Notify, Wait, Timeout, RangeOK
  <2> QED
    BY Zenon, <1>i, <2>1, <2>2 DEF RangeOK
<1>5. ASSUME NEW w \in Worker, Receive(w) \/ SpuriousWakeup(w) \/ Work(w) \/ Decrease(w) \/ Unlock(w) PROVE RangeOK'
  <2>1. UNCHANGED <<cpc, loop, range>>
    BY Zenon, <1>5 DEF Receive, SpuriousWakeup, Work, Decrease, Unlock
  <2> QED
    BY Zenon, <1>i, <2>1 DEF RangeOK
<1>6. ASSUME NEW w \in Worker, NotifyAtZero(w) PROVE RangeOK'
  <2>1. UNCHANGED <<loop, range>>
    BY Zenon, <1>6 DEF NotifyAtZero
  <2>2. \A d \in Client : cpc'[d] = cpc[d] \/ (cpc[d] = "asleep" /\ cpc'[d] = "wait")
    BY Zenon, <1>t, <1>6 DEF NotifyAtZero
  <2> QED
    BY Zenon, <1>i, <2>1, <2>2 DEF RangeOK
<1>7. CASE Destroy \/ Close \/ Join
  BY Zenon, <1>i, <1>7 DEF Destroy, Close, Join, RangeOK
<1> QED
  BY Zenon, <1>1, <1>2, <1>3, <1>4, <1>5, <1>6, <1>7 DEF Next, ClientStep, WorkerStep

\* The worker that counts down holds mtx_, and a worker has a work from its Receive to its Unlock.
LEMMA LockStep ==
    ASSUME IInv, Next PROVE LockOK'
<1>t. DOMAIN wpc = Worker /\ DOMAIN job = Worker /\ DOMAIN mtx = Client /\ Nobody \notin Worker
  <2>1. Nobody \notin Worker
    BY DEF Nobody, Worker
  <2> QED
    BY Zenon, <2>1 DEF IInv, TypeOK
<1>i. LockOK
  BY Zenon DEF IInv
<1> USE DEF workers, clients
<1>1. ASSUME NEW c \in Client, Start(c) \/ Choose(c) \/ Send(c) \/ Notify(c) \/ Wait(c) \/ Timeout(c) PROVE LockOK'
  <2>1. UNCHANGED <<wpc, job, mtx>>
    BY Zenon, <1>1 DEF Start, Choose, Send, Notify, Wait, Timeout
  <2> QED
    BY Zenon, <1>i, <2>1 DEF LockOK
<1>2. ASSUME NEW w \in Worker, Receive(w) PROVE LockOK'
  <2>1. UNCHANGED mtx /\ wpc[w] = "receive"
    BY Zenon, <1>2 DEF Receive
  <2>2. \A v \in Worker : v # w => wpc'[v] = wpc[v] /\ job'[v] = job[v]
    BY Zenon, <1>t, <1>2 DEF Receive
  <2>3. \/ wpc' = wpc /\ job' = job
        \/ wpc'[w] = "exited" /\ job' = job
        \/ queue[w] # <<>> /\ job'[w] = Head(queue[w]) /\ wpc'[w] = "work"
    BY Zenon, <1>t, <1>2 DEF Receive
  <2>4. queue[w] # <<>> => Head(queue[w]) # <<>>
    <3>1. queue[w] \in Seq(Works)
      BY Zenon DEF IInv, TypeOK
    <3>2. queue[w] # <<>> => Head(queue[w]) \in Works
      BY <3>1
    <3>3. <<>> \notin Works
      BY DEF Works
    <3> QED
      BY Zenon, <3>2, <3>3
  <2> QED
    BY Zenon, <1>i, <2>1, <2>2, <2>3, <2>4 DEF LockOK
<1>3. ASSUME NEW w \in Worker, Work(w) PROVE LockOK'
  <2>1. UNCHANGED <<job, mtx>> /\ wpc[w] = "work" /\ wpc'[w] = "decrease"
    BY Zenon, <1>t, <1>3 DEF Work
  <2>2. \A v \in Worker : v # w => wpc'[v] = wpc[v]
    BY Zenon, <1>t, <1>3 DEF Work
  <2> QED
    BY Zenon, <1>i, <2>1, <2>2 DEF LockOK
<1>4. ASSUME NEW w \in Worker, Decrease(w) PROVE LockOK'
  <2> DEFINE c == job[w][1]
  <2>1. UNCHANGED job /\ wpc[w] = "decrease" /\ wpc'[w] \in {"notify", "unlock"} /\ mtx[c] = Nobody
    BY Zenon, <1>t, <1>4 DEF Decrease
  <2>2. c \in Client
    BY Zenon, <2>1, JobFacts
  <2>3. mtx'[c] = w /\ \A d \in Client : d # c => mtx'[d] = mtx[d]
    BY Zenon, <1>t, <1>4, <2>2 DEF Decrease
  <2>4. \A v \in Worker : v # w => wpc'[v] = wpc[v]
    BY Zenon, <1>t, <1>4 DEF Decrease
  <2>5. \A v \in Worker : wpc[v] \in {"notify", "unlock"} => job[v][1] \in Client /\ job[v][1] # c
    <3> SUFFICES ASSUME NEW v \in Worker, wpc[v] \in {"notify", "unlock"}
                 PROVE  job[v][1] \in Client /\ job[v][1] # c
      BY Zenon
    <3>1. wpc[v] \notin {"receive", "exited"}
      OBVIOUS
    <3> QED
      BY Zenon, <1>i, <1>t, <2>1, <3>1, JobFacts DEF LockOK
  <2> HIDE DEF c
  <2> QED
    BY Zenon, <1>i, <2>1, <2>3, <2>4, <2>5 DEF LockOK, c
<1>5. ASSUME NEW w \in Worker, NotifyAtZero(w) PROVE LockOK'
  <2>1. UNCHANGED <<job, mtx>> /\ wpc[w] = "notify" /\ wpc'[w] = "unlock"
    BY Zenon, <1>t, <1>5 DEF NotifyAtZero
  <2>2. \A v \in Worker : v # w => wpc'[v] = wpc[v]
    BY Zenon, <1>t, <1>5 DEF NotifyAtZero
  <2> QED
    BY Zenon, <1>i, <2>1, <2>2 DEF LockOK
<1>6. ASSUME NEW w \in Worker, Unlock(w) PROVE LockOK'
  <2>1. wpc[w] = "unlock" /\ wpc'[w] = "receive" /\ job'[w] = <<>> /\ mtx[job[w][1]] = w
    BY Zenon, <1>t, <1>i, <1>6 DEF Unlock, LockOK
  <2>2. \A v \in Worker : v # w => wpc'[v] = wpc[v] /\ job'[v] = job[v]
    BY Zenon, <1>t, <1>6 DEF Unlock
  <2>3. ASSUME NEW v \in Worker, v # w, wpc[v] \in {"notify", "unlock"} PROVE mtx'[job[v][1]] = v
    <3>1. mtx[job[v][1]] = v
      BY Zenon, <1>i, <2>3 DEF LockOK
    <3>2. wpc[v] \notin {"receive", "exited"}
      BY Zenon, <2>3
    <3>3. job[v][1] \in Client
      BY Zenon, <3>2, JobFacts
    <3> QED
      BY Zenon, <1>t, <1>6, <2>1, <2>3, <3>1, <3>3 DEF Unlock
  <2> QED
    BY Zenon, <1>i, <2>1, <2>2, <2>3 DEF LockOK
<1>7. ASSUME Destroy \/ Close \/ Join \/ \E w \in Worker : SpuriousWakeup(w) PROVE LockOK'
  <2>1. UNCHANGED <<wpc, job, mtx>>
    BY Zenon, <1>7 DEF Destroy, Close, Join, SpuriousWakeup
  <2> QED
    BY Zenon, <1>i, <2>1 DEF LockOK
<1> QED
  BY Zenon, <1>1, <1>2, <1>3, <1>4, <1>5, <1>6, <1>7 DEF Next, ClientStep, WorkerStep

-----------------------------------------------------------------------------
(***************************************************************************)
(* Where the works are.  First the steps that move none.                   *)
(***************************************************************************)
Places == SentOK /\ OnceOK /\ CountOK /\ DoneOK /\ OnceOnReturn

\* The counter of every loop is right when no work starts or stops being pending.
LEMMA CountSame ==
    ASSUME IInv, UNCHANGED <<loop, cnt>>,
           \A c \in Client : InLoop(c)' => InLoop(c),
           \A c \in Client : InLoop(c) => \A r \in Parts(c) : Pending(c, r)' <=> Pending(c, r)
    PROVE  CountOK'
<1> SUFFICES ASSUME NEW c \in Client, InLoop(c)' PROVE cnt'[c] = Cardinality(PendingSet(c)')
  BY Zenon DEF CountOK
<1>1. PendingSet(c)' = PendingSet(c)
  BY Zenon DEF PendingSet, Parts
<1> QED
  BY Zenon, <1>1 DEF IInv, CountOK

\* The same for done, of one loop and of all of them.
LEMMA DoneKept ==
    ASSUME IInv, NEW c \in Client, loop'[c] = loop[c], done'[c] = done[c], InLoop(c)' => InLoop(c),
           InLoop(c) => \A r \in Parts(c) : Unworked(c, r)' <=> Unworked(c, r)
    PROVE  DoneAt(c)'
<1>1. DoneAt(c)
  BY Zenon DEF IInv, DoneOK
<1> QED
  BY Zenon, <1>1 DEF DoneAt, Parts

\* done is right when no work is worked at.
LEMMA DoneSame ==
    ASSUME IInv, UNCHANGED <<loop, done>>,
           \A c \in Client : InLoop(c)' => InLoop(c),
           \A c \in Client : InLoop(c) => \A r \in Parts(c) : Unworked(c, r)' <=> Unworked(c, r)
    PROVE  DoneOK'
<1> SUFFICES ASSUME NEW c \in Client PROVE DoneAt(c)'
  BY Zenon DEF DoneOK
<1>1. loop'[c] = loop[c] /\ done'[c] = done[c]
  BY Zenon
<1> QED
  BY Zenon, <1>1, DoneKept

\* What a queued work tells.
LEMMA QueueFacts ==
    ASSUME IInv, NEW w \in Worker, NEW k \in 1 .. Len(queue[w])
    PROVE  LET x == queue[w][k] IN
           /\ x \in Works /\ x # <<>> /\ x = <<x[1], x[2]>> /\ x[1] \in Client /\ x[2] \in Nat
           /\ InLoop(x[1]) /\ x[2] < range[x[1]] /\ x[2] \in Parts(x[1]) /\ Queued(x)
<1> DEFINE x == queue[w][k]
<1>1. x \in Works
  BY DEF IInv, TypeOK
<1>2. Queued(x) /\ InLoop(x[1]) /\ x[2] < range[x[1]]
  BY Zenon DEF IInv, SentOK, Queued
<1>3. x # <<>> /\ x = <<x[1], x[2]>> /\ x[1] \in Client /\ x[2] \in Nat
  BY <1>1, PoolAssumption DEF Works
<1>4. TypeOK /\ RangeOK
  BY Zenon DEF IInv
<1>5. range[x[1]] <= loop[x[1]].threads /\ loop[x[1]].threads \in Nat /\ range[x[1]] \in Nat
  BY Zenon, <1>2, <1>3, <1>4, RangeWithin
<1>6. x[2] \in Parts(x[1])
  BY SMTT(30), <1>2, <1>3, <1>5 DEF Parts
<1> QED
  BY Zenon, <1>1, <1>2, <1>3, <1>6

\* A worker has a work only between its Receive and its Unlock.
LEMMA HasJob ==
    ASSUME IInv, NEW w \in Worker, job[w] # <<>>
    PROVE  wpc[w] \notin {"receive", "exited"} /\ wpc[w] \in {"work", "decrease", "notify", "unlock"}
<1>1. wpc[w] \notin {"receive", "exited"}
  BY Zenon DEF IInv, LockOK
<1>2. wpc[w] \in {"receive", "work", "decrease", "notify", "unlock", "exited"}
  BY Zenon DEF IInv, TypeOK
<1> QED
  BY Zenon, <1>1, <1>2

\* Nothing is said of a step that moves no work and enters or leaves no loop.
LEMMA QuietStep ==
    ASSUME IInv, UNCHANGED <<queue, job, range, loop, cnt, done>>,
           \A c \in Client : InLoop(c)' <=> InLoop(c),
           \A w \in Worker : wpc'[w] = wpc[w]
                             \/ {wpc[w], wpc'[w]} \cap {"work", "decrease"} = {}
    PROVE  Places'
<1>1. SentOK'
  <2>1. ASSUME NEW w \in Worker, NEW k \in 1 .. Len(queue'[w])
        PROVE  (InLoop(queue[w][k][1]) /\ queue[w][k][2] < range[queue[w][k][1]])'
    BY Zenon, <2>1, QueueFacts
  <2>2. ASSUME NEW w \in Worker, job'[w] # <<>> PROVE (InLoop(job[w][1]) /\ job[w][2] < range[job[w][1]])'
    BY Zenon, <2>2, HasJob, JobFacts
  <2> QED
    BY <2>1, <2>2 DEF SentOK
<1>2. OnceOK'
  BY DEF IInv, OnceOK
<1>3. \A x : HeldIn(x, {"work", "decrease"})' <=> HeldIn(x, {"work", "decrease"})
  BY Zenon DEF HeldIn
<1>4. \A x : HeldIn(x, {"work"})' <=> HeldIn(x, {"work"})
  BY Zenon DEF HeldIn
<1>5. \A x : Queued(x)' <=> Queued(x)
  BY Zenon DEF Queued
<1>6. CountOK'
  BY Zenon, <1>3, <1>5, CountSame DEF Pending
<1>7. DoneOK'
  BY Zenon, <1>4, <1>5, DoneSame DEF Unworked
<1>8. OnceOnReturn'
  BY Zenon DEF IInv, OnceOnReturn, InLoop
<1> QED
  BY Zenon, <1>1, <1>2, <1>6, <1>7, <1>8 DEF Places

\* MultiThreadLoop, its first part.
LEMMA StartStep ==
    ASSUME IInv, NEW c \in Client, Start(c) PROVE Places'
<1> DEFINE l == Head(todo[c])
           alone == l.n = 0 \/ pool = "gone" \/ l.limit = 0
<1> USE DEF workers, clients
<1>t. DOMAIN cpc = Client /\ DOMAIN loop = Client /\ DOMAIN range = Client /\ DOMAIN cnt = Client /\ DOMAIN done = Client
  BY Zenon DEF IInv, TypeOK
<1>1. UNCHANGED <<queue, job, wpc>> /\ ~InLoop(c)
  BY Zenon DEF Start, InLoop
<1>2. done' = [done EXCEPT ![c] = [i \in 0 .. l.n - 1 |-> IF alone THEN 1 ELSE 0]]
  BY Zenon DEF Start
<1>3. /\ done'[c] = [i \in 0 .. l.n - 1 |-> IF alone THEN 1 ELSE 0]
      /\ \A d \in Client : d # c => done'[d] = done[d]
  BY Zenon, <1>t, <1>2
<1>o. OnceOK'
  BY <1>1 DEF IInv, OnceOK
<1>h. /\ \A x : Queued(x)' <=> Queued(x)
      /\ \A x : HeldIn(x, {"work", "decrease"})' <=> HeldIn(x, {"work", "decrease"})
      /\ \A x : HeldIn(x, {"work"})' <=> HeldIn(x, {"work"})
  BY Zenon, <1>1 DEF Queued, HeldIn
<1>i. SentOK /\ CountOK /\ DoneOK /\ OnceOnReturn
  BY Zenon DEF IInv
<1>4. CASE alone
  <2>1. UNCHANGED <<cpc, loop, range, cnt>>
    BY Zenon, <1>4 DEF Start
  <2>2. SentOK'
    BY Zenon, <1>1, <1>i, <2>1 DEF SentOK, InLoop
  <2>3. CountOK'
    BY Zenon, <1>h, <2>1, CountSame DEF Pending, InLoop
  <2>4. DoneOK'
    <3> SUFFICES ASSUME NEW d \in Client PROVE DoneAt(d)'
      BY Zenon DEF DoneOK
    <3>1. CASE d = c
      BY Zenon, <1>1, <2>1, <3>1 DEF DoneAt, InLoop
    <3>2. CASE d # c
      <4>1. done'[d] = done[d] /\ loop'[d] = loop[d]
        BY Zenon, <1>3, <2>1, <3>2
      <4> QED
        BY Zenon, <1>h, <2>1, <4>1, DoneKept DEF Unworked, InLoop
    <3> QED
      BY Zenon, <3>1, <3>2
  <2>5. \A i \in DOMAIN done'[c] : done'[c][i] = 1
    BY Zenon, <1>3, <1>4
  <2>6. OnceOnReturn'
    <3>1. ASSUME NEW d \in Client, cpc'[d] = "idle" PROVE \A i \in DOMAIN done'[d] : done'[d][i] = 1
      <4>1. CASE d = c
        BY Zenon, <2>5, <4>1
      <4>2. CASE d # c
        BY <1>3, <1>i, <2>1, <3>1, <4>2 DEF OnceOnReturn
      <4> QED
        BY Zenon, <4>1, <4>2
    <3> QED
      BY Zenon, <3>1 DEF OnceOnReturn
  <2> QED
    BY Zenon, <1>o, <2>2, <2>3, <2>4, <2>6 DEF Places
<1>5. CASE ~alone
  <2>0. todo[c] \in Seq(Loop) /\ todo[c] # <<>>
    BY Zenon DEF IInv, TypeOK, Start
  <2>1. l.n \in Nat /\ Threads(l) \in 1 .. ThreadNum
    BY <1>5, <2>0, ThreadsFacts
  <2>2. /\ cpc' = [cpc EXCEPT ![c] = "add"]
        /\ loop' = [loop EXCEPT ![c] = [n |-> l.n, threads |-> Threads(l)]]
        /\ range' = [range EXCEPT ![c] = 0] /\ cnt' = [cnt EXCEPT ![c] = Threads(l)]
    BY Zenon, <1>5 DEF Start
  <2>3. cpc'[c] = "add" /\ loop'[c].n = l.n /\ loop'[c].threads = Threads(l) /\ range'[c] = 0 /\ cnt'[c] = Threads(l)
    BY Zenon, <1>t, <2>2
  <2>4. \A d \in Client : d # c => /\ cpc'[d] = cpc[d] /\ loop'[d] = loop[d] /\ range'[d] = range[d] /\ cnt'[d] = cnt[d]
    BY Zenon, <1>t, <2>2
  <2>5. Threads(l) \in Nat /\ Threads(l) > 0
    BY <2>1, PoolAssumption
  <2>6. SentOK'
    <3>1. ASSUME NEW w \in Worker, NEW k \in 1 .. Len(queue'[w])
          PROVE  (InLoop(queue[w][k][1]) /\ queue[w][k][2] < range[queue[w][k][1]])'
      BY <1>1, <2>4, <3>1, QueueFacts DEF InLoop
    <3>2. ASSUME NEW w \in Worker, job'[w] # <<>> PROVE (InLoop(job[w][1]) /\ job[w][2] < range[job[w][1]])'
      BY Zenon, <1>1, <2>4, <3>2, HasJob, JobFacts DEF InLoop
    <3> QED
      BY <3>1, <3>2 DEF SentOK
  <2>7. \A r \in 0 .. Threads(l) - 1 : r >= range'[c]
    BY <2>3, <2>5
  <2>8. CountOK'
    <3> SUFFICES ASSUME NEW d \in Client, InLoop(d)' PROVE cnt'[d] = Cardinality(PendingSet(d)')
      BY Zenon DEF CountOK
    <3>1. CASE d # c
      <4>1. PendingSet(d)' = PendingSet(d)
        BY Zenon, <1>h, <2>4, <3>1 DEF PendingSet, Pending, Parts
      <4> QED
        BY Zenon, <1>i, <2>4, <3>1, <4>1 DEF CountOK, InLoop
    <3>2. CASE d = c
      <4>1. PendingSet(c)' = 0 .. Threads(l) - 1
        BY Zenon, <2>3, <2>7 DEF PendingSet, Pending, Parts
      <4>2. Cardinality(0 .. Threads(l) - 1) = Threads(l)
        <5>1. Cardinality(0 .. Threads(l) - 1) = IF 0 > Threads(l) - 1 THEN 0 ELSE (Threads(l) - 1) - 0 + 1
          <6>1. 0 \in Int /\ Threads(l) - 1 \in Int
            BY <2>5
          <6> QED
            BY Zenon, <6>1, FS_Interval
        <5> QED
          BY <2>5, <5>1
      <4> QED
        BY Zenon, <2>3, <3>2, <4>1, <4>2
    <3> QED
      BY Zenon, <3>1, <3>2
  <2>9. DoneOK'
    <3>1. ASSUME NEW d \in Client, d # c PROVE DoneAt(d)'
      <4>1. done'[d] = done[d] /\ loop'[d] = loop[d] /\ range'[d] = range[d] /\ cpc'[d] = cpc[d]
        BY Zenon, <1>3, <2>4, <3>1
      <4> QED
        BY Zenon, <1>h, <4>1, DoneKept DEF Unworked, InLoop
    <3>2. DOMAIN done'[c] = 0 .. loop'[c].n - 1
      BY Zenon, <1>3, <2>3
    <3>3. ASSUME NEW r \in Parts(c)', NEW i \in Part(loop'[c].n, loop'[c].threads, r)
          PROVE  done'[c][i] = IF Unworked(c, r)' THEN 0 ELSE 1
      <4>1. r \in 0 .. Threads(l) - 1 /\ i \in Part(l.n, Threads(l), r)
        BY Zenon, <2>3, <3>3 DEF Parts
      <4>2. i \in 0 .. l.n - 1
        BY Zenon, <2>1, <2>5, <4>1, PartsWithin
      <4>3. Unworked(c, r)'
        BY Zenon, <2>7, <4>1 DEF Unworked
      <4> QED
        BY Zenon, <1>3, <1>5, <4>2, <4>3
    <3> QED
      BY ZenonT(40), <3>1, <3>2, <3>3 DEF DoneOK, DoneAt
  <2>10. OnceOnReturn'
    <3>1. cpc'[c] # "idle"
      BY Zenon, <2>3
    <3> QED
      BY <1>3, <1>i, <2>4, <3>1 DEF OnceOnReturn
  <2> QED
    BY Zenon, <1>o, <2>6, <2>8, <2>9, <2>10 DEF Places
<1> QED
  BY Zenon, <1>4, <1>5

\* Channel::Send: the next range goes from the loop to a channel.
LEMMA SendStep ==
    ASSUME IInv, NEW c \in Client, Send(c) PROVE Places'
<1> DEFINE w == chan[c]
           r == range[c]
           x == <<c, r>>
           n == Len(queue[w])
<1> USE DEF workers, clients
<1>t. DOMAIN cpc = Client /\ DOMAIN range = Client /\ DOMAIN queue = Worker /\ w \in Worker /\ queue[w] \in Seq(Works)
  BY Zenon DEF IInv, TypeOK
<1>0. TypeOK /\ RangeOK /\ OnceOK /\ OnceOnReturn
  BY Zenon DEF IInv
<1>1. InLoop(c) /\ ~closed[w]
  BY Zenon, <1>t DEF Send, InLoop, IInv, PhaseOK
<1>2. queue' = [queue EXCEPT ![w] = Append(queue[w], x)] /\ UNCHANGED <<job, wpc, loop, cnt, done>>
  BY Zenon, <1>1 DEF Send
<1>3. /\ \A v \in Worker : v # w => queue'[v] = queue[v]
      /\ queue'[w] = Append(queue[w], x)
  BY Zenon, <1>t, <1>2
<1>4. n \in Nat /\ Len(queue'[w]) = n + 1 /\ queue'[w][n + 1] = x /\ \A k \in 1 .. n : queue'[w][k] = queue[w][k]
  BY <1>t, <1>3
<1>5. r \in Nat
  BY Zenon, <1>0, RangeWithin
<1>6. range'[c] = r + 1 /\ \A d \in Client : d # c => range'[d] = range[d] /\ cpc'[d] = cpc[d]
  BY Zenon, <1>t DEF Send
<1>7. cpc'[c] # "idle"
  BY Zenon, <1>t DEF Send, AfterSend
<1>8. \A d \in Client : InLoop(d)' <=> InLoop(d)
  BY Zenon, <1>1, <1>6, <1>7 DEF InLoop
<1> HIDE DEF w, r, x, n
<1>9. \A v \in Worker : \A k \in 1 .. Len(queue'[v]) :
        (k \in 1 .. Len(queue[v]) /\ queue'[v][k] = queue[v][k]) \/ (v = w /\ k = n + 1 /\ queue'[v][k] = x)
  <2> SUFFICES ASSUME NEW v \in Worker, NEW k \in 1 .. Len(queue'[v])
               PROVE  \/ k \in 1 .. Len(queue[v]) /\ queue'[v][k] = queue[v][k]
                      \/ v = w /\ k = n + 1 /\ queue'[v][k] = x
    BY Zenon
  <2>1. CASE v # w
    BY Zenon, <1>3, <2>1
  <2>2. CASE v = w
    <3>1. k \in 1 .. n + 1
      BY Zenon, <1>4, <2>2
    <3>2. k \in 1 .. n \/ k = n + 1
      BY <1>4, <3>1
    <3> QED
      BY Zenon, <1>4, <2>2, <3>2 DEF n
  <2> QED
    BY Zenon, <2>1, <2>2
<1>10. \A v \in Worker : \A k \in 1 .. Len(queue[v]) : k \in 1 .. Len(queue'[v]) /\ queue'[v][k] = queue[v][k]
  BY SMTT(30), <1>3, <1>4
<1>11. n + 1 \in 1 .. Len(queue'[w])
  BY <1>4
<1>12. \A v \in Worker : \A k \in 1 .. Len(queue[v]) : queue[v][k] # x
  <2> SUFFICES ASSUME NEW v \in Worker, NEW k \in 1 .. Len(queue[v]), queue[v][k] = x PROVE FALSE
    BY Zenon
  <2>1. queue[v][k][2] < range[queue[v][k][1]]
    BY Zenon, QueueFacts
  <2> QED
    BY <1>5, <2>1 DEF x, r
<1>13. \A v \in Worker : job[v] # x
  <2> SUFFICES ASSUME NEW v \in Worker, job[v] = x PROVE FALSE
    BY Zenon
  <2>1. job[v] # <<>>
    BY DEF x
  <2>2. job[v][2] < range[job[v][1]]
    BY Zenon, <2>1, HasJob, JobFacts
  <2> QED
    BY <1>5, <2>2 DEF x, r
<1>14. \A y : Queued(y)' <=> Queued(y) \/ y = x
  <2>1. ASSUME NEW y, Queued(y)' PROVE Queued(y) \/ y = x
    BY Zenon, <1>9, <2>1 DEF Queued
  <2>2. ASSUME NEW y, Queued(y) PROVE Queued(y)'
    BY Zenon, <1>10, <2>2 DEF Queued
  <2>3. ASSUME NEW y, y = x PROVE Queued(y)'
    BY Zenon, <1>t, <1>4, <1>11, <2>3 DEF Queued
  <2> QED
    BY Zenon, <2>1, <2>2, <2>3
<1>15. \A y, P : HeldIn(y, P)' <=> HeldIn(y, P)
  BY Zenon, <1>2 DEF HeldIn
<1>s. SentOK'
  <2>1. ASSUME NEW v \in Worker, NEW k \in 1 .. Len(queue'[v])
        PROVE  (InLoop(queue[v][k][1]) /\ queue[v][k][2] < range[queue[v][k][1]])'
    <3>1. CASE k \in 1 .. Len(queue[v]) /\ queue'[v][k] = queue[v][k]
      <4> DEFINE y == queue[v][k]
      <4>1. y[1] \in Client /\ y[2] \in Nat /\ InLoop(y[1]) /\ y[2] < range[y[1]]
        BY Zenon, <3>1, QueueFacts
      <4>2. cpc'[y[1]] # "idle"
        BY Zenon, <1>6, <1>7, <4>1 DEF InLoop
      <4>3. y[2] < range'[y[1]]
        BY SMTT(30), <1>5, <1>6, <4>1 DEF r
      <4> QED
        BY <3>1, <4>2, <4>3 DEF InLoop
    <3>2. CASE queue'[v][k] = x
      BY <1>5, <1>6, <1>7, <3>2 DEF InLoop, x
    <3> QED
      BY Zenon, <1>9, <2>1, <3>1, <3>2
  <2>2. ASSUME NEW v \in Worker, job'[v] # <<>> PROVE (InLoop(job[v][1]) /\ job[v][2] < range[job[v][1]])'
    <3>1. job[v][1] \in Client /\ job[v][2] \in Nat /\ InLoop(job[v][1]) /\ job[v][2] < range[job[v][1]]
      BY Zenon, <1>2, <2>2, HasJob, JobFacts
    <3> QED
      BY <1>2, <1>5, <1>6, <1>7, <3>1 DEF InLoop, r
  <2> QED
    BY Zenon, <2>1, <2>2 DEF SentOK
<1>o. OnceOK'
  <2>1. ASSUME NEW u \in Worker, NEW v \in Worker, NEW j \in 1 .. Len(queue'[u]), NEW k \in 1 .. Len(queue'[v]),
               queue'[u][j] = queue'[v][k]
        PROVE  u = v /\ j = k
    <3>a. (j \in 1 .. Len(queue[u]) /\ queue'[u][j] = queue[u][j]) \/ (u = w /\ j = n + 1 /\ queue'[u][j] = x)
      BY Zenon, <1>9
    <3>b. (k \in 1 .. Len(queue[v]) /\ queue'[v][k] = queue[v][k]) \/ (v = w /\ k = n + 1 /\ queue'[v][k] = x)
      BY Zenon, <1>9
    <3>1. CASE queue'[u][j] = x
      BY Zenon, <1>12, <2>1, <3>a, <3>b, <3>1
    <3>2. CASE queue'[u][j] # x
      <4>1. j \in 1 .. Len(queue[u]) /\ k \in 1 .. Len(queue[v]) /\ queue[u][j] = queue[v][k]
        BY Zenon, <2>1, <3>a, <3>b, <3>2
      <4> QED
        BY ZenonT(40), <1>0, <4>1 DEF OnceOK
    <3> QED
      BY Zenon, <3>1, <3>2
  <2>2. \A u, v \in Worker : \A k \in 1 .. Len(queue'[v]) : job'[u] # queue'[v][k]
    BY <1>0, <1>2, <1>9, <1>13 DEF OnceOK
  <2>3. \A u, v \in Worker : job'[u] = job'[v] /\ job'[u] # <<>> => u = v
    BY Zenon, <1>0, <1>2 DEF OnceOK
  <2> QED
    BY Zenon, <2>1, <2>2, <2>3 DEF OnceOK
<1>16. \A d \in Client : \A q \in Parts(d) : (q >= range'[d] \/ Queued(<<d, q>>)') <=> (q >= range[d] \/ Queued(<<d, q>>))
  <2> SUFFICES ASSUME NEW d \in Client, NEW q \in Parts(d)
               PROVE  (q >= range'[d] \/ Queued(<<d, q>>)') <=> (q >= range[d] \/ Queued(<<d, q>>))
    BY Zenon
  <2>1. CASE d # c
    <3>1. <<d, q>> # x /\ range'[d] = range[d]
      BY Zenon, <1>6, <2>1 DEF x
    <3> QED
      BY Zenon, <1>14, <3>1
  <2>2. CASE d = c
    <3>1. q \in Int
      BY <1>0, RangeWithin DEF Parts
    <3>2. <<c, q>> = x <=> q = r
      BY DEF x
    <3>3. q >= r <=> q >= r + 1 \/ q = r
      BY <1>5, <3>1
    <3> QED
      BY Zenon, <1>6, <1>14, <2>2, <3>2, <3>3 DEF r
  <2> QED
    BY Zenon, <2>1, <2>2
<1>c. CountOK'
  BY Zenon, <1>2, <1>8, <1>15, <1>16, CountSame DEF Pending
<1>d. DoneOK'
  BY Zenon, <1>2, <1>8, <1>15, <1>16, DoneSame DEF Unworked
<1>e. OnceOnReturn'
  BY Zenon, <1>0, <1>2, <1>8 DEF OnceOnReturn, InLoop
<1> QED
  BY Zenon, <1>s, <1>o, <1>c, <1>d, <1>e DEF Places

\* Two places of the queues hold different works, and neither is one a worker holds.
LEMMA OnceQueued ==
    ASSUME OnceOK, NEW v \in Worker, NEW w \in Worker, NEW j \in 1 .. Len(queue[v]), NEW k \in 1 .. Len(queue[w]),
           queue[v][j] = queue[w][k]
    PROVE  v = w /\ j = k
BY DEF OnceOK

\* A work that a worker holds is in no queue.
LEMMA OnceHeld ==
    ASSUME OnceOK, NEW v \in Worker, NEW w \in Worker, NEW k \in 1 .. Len(queue[w])
    PROVE  job[v] # queue[w][k]
BY Zenon DEF OnceOK

\* Channel::Receive with work in the queue: the first of it goes to the worker.
LEMMA TakeStep ==
    ASSUME IInv, NEW w \in Worker, Receive(w), queue[w] # <<>> PROVE Places'
<1> DEFINE n == Len(queue[w])
<1> USE DEF workers, clients
<1>t. DOMAIN job = Worker /\ DOMAIN wpc = Worker /\ DOMAIN queue = Worker /\ queue[w] \in Seq(Works)
  BY Zenon DEF IInv, TypeOK
<1>0. OnceOK /\ OnceOnReturn /\ SentOK
  BY Zenon DEF IInv
<1>1. /\ job' = [job EXCEPT ![w] = Head(queue[w])] /\ queue' = [queue EXCEPT ![w] = Tail(queue[w])]
      /\ wpc' = [wpc EXCEPT ![w] = "work"] /\ UNCHANGED <<cpc, range, loop, cnt, done>> /\ wpc[w] = "receive"
  BY Zenon DEF Receive
<1>2. job[w] = <<>>
  BY Zenon, <1>1 DEF IInv, LockOK
<1> PICK x : x = Head(queue[w])
  BY Zenon
<1>3. /\ job'[w] = x /\ queue'[w] = Tail(queue[w]) /\ wpc'[w] = "work"
      /\ \A v \in Worker : v # w => job'[v] = job[v] /\ queue'[v] = queue[v] /\ wpc'[v] = wpc[v]
  BY Zenon, <1>t, <1>1
<1>4. /\ n \in Nat /\ n >= 1 /\ queue[w][1] = x /\ Len(queue'[w]) = n - 1
      /\ \A k \in 1 .. n - 1 : queue'[w][k] = queue[w][k + 1]
  BY <1>t, <1>3
<1>5. 1 \in 1 .. Len(queue[w])
  BY <1>4
<1>6. x # <<>> /\ x[1] \in Client /\ x[2] \in Nat /\ InLoop(x[1]) /\ x[2] < range[x[1]]
  BY Zenon, <1>4, <1>5, QueueFacts
<1> DEFINE shift(v) == IF v = w THEN 1 ELSE 0
<1>9. \A v \in Worker : \A k \in 1 .. Len(queue'[v]) :
        k + shift(v) \in 1 .. Len(queue[v]) /\ queue'[v][k] = queue[v][k + shift(v)] /\ k \in Int
  <2> SUFFICES ASSUME NEW v \in Worker, NEW k \in 1 .. Len(queue'[v])
               PROVE  k + shift(v) \in 1 .. Len(queue[v]) /\ queue'[v][k] = queue[v][k + shift(v)] /\ k \in Int
    BY Zenon
  <2>1. CASE v # w
    <3>1. k + 0 = k
      OBVIOUS
    <3> QED
      BY <1>3, <2>1, <3>1
  <2>2. CASE v = w
    <3>1. shift(v) = 1 /\ k \in 1 .. n - 1
      BY Zenon, <1>4, <2>2
    <3>2. k \in Int /\ k + 1 \in 1 .. n
      BY <1>4, <3>1
    <3> QED
      BY Zenon, <1>4, <2>2, <3>1, <3>2
  <2> QED
    BY Zenon, <2>1, <2>2
<1>x. shift(w) = 1 /\ \A v : shift(v) \in Int
  OBVIOUS
<1> HIDE DEF shift
<1>10. \A v \in Worker : \A k \in 1 .. Len(queue'[v]) : queue'[v][k] # x
  <2> SUFFICES ASSUME NEW v \in Worker, NEW k \in 1 .. Len(queue'[v]), queue'[v][k] = x PROVE FALSE
    BY Zenon
  <2>1. k + shift(v) \in 1 .. Len(queue[v]) /\ queue[v][k + shift(v)] = queue[w][1]
    BY Zenon, <1>4, <1>9
  <2>2. v = w /\ k + shift(v) = 1
    BY <1>0, <1>5, <2>1, OnceQueued
  <2> QED
    BY <1>9, <1>x, <2>2
<1>11. \A y : Queued(y) <=> Queued(y)' \/ y = x
  <2>1. ASSUME NEW y, Queued(y)' PROVE Queued(y)
    <3>1. PICK v \in Worker : \E k \in 1 .. Len(queue'[v]) : queue'[v][k] = y
      BY Zenon, <2>1 DEF Queued
    <3> QED
      BY ZenonT(40), <1>9, <3>1 DEF Queued
  <2>2. Queued(x)
    BY Zenon, <1>4, <1>5 DEF Queued
  <2>3. ASSUME NEW y, Queued(y), y # x PROVE Queued(y)'
    <3>0. PICK v \in Worker : \E k \in 1 .. Len(queue[v]) : queue[v][k] = y
      BY Zenon, <2>3 DEF Queued
    <3>1. PICK k \in 1 .. Len(queue[v]) : queue[v][k] = y
      BY Zenon, <3>0
    <3>2. CASE v # w
      BY Zenon, <1>3, <3>1, <3>2 DEF Queued
    <3>3. CASE v = w
      <4>1. k # 1
        BY Zenon, <1>4, <2>3, <3>1, <3>3
      <4>2. k - 1 \in 1 .. Len(queue'[w]) /\ queue'[w][k - 1] = y
        BY <1>4, <3>1, <3>3, <4>1
      <4> QED
        BY Zenon, <4>2 DEF Queued
    <3> QED
      BY Zenon, <3>2, <3>3
  <2> QED
    BY Zenon, <2>1, <2>2, <2>3
<1>12. \A y : y # <<>> => (HeldIn(y, {"work"})' <=> HeldIn(y, {"work"}) \/ y = x)
  BY <1>1, <1>2, <1>3 DEF HeldIn
<1>13. \A y : y # <<>> => (HeldIn(y, {"work", "decrease"})' <=> HeldIn(y, {"work", "decrease"}) \/ y = x)
  BY Zenon, <1>1, <1>2, <1>3 DEF HeldIn
<1>s. SentOK'
  <2>1. ASSUME NEW v \in Worker, NEW k \in 1 .. Len(queue'[v])
        PROVE  (InLoop(queue[v][k][1]) /\ queue[v][k][2] < range[queue[v][k][1]])'
    BY <1>0, <1>1, <1>9, <2>1 DEF SentOK, InLoop
  <2>2. ASSUME NEW v \in Worker, job'[v] # <<>> PROVE (InLoop(job[v][1]) /\ job[v][2] < range[job[v][1]])'
    <3>1. CASE v = w
      BY <1>1, <1>3, <1>6, <3>1 DEF InLoop
    <3>2. CASE v # w
      BY <1>0, <1>1, <1>3, <2>2, <3>2 DEF SentOK, InLoop
    <3> QED
      BY Zenon, <3>1, <3>2
  <2> QED
    BY Zenon, <2>1, <2>2 DEF SentOK
<1>o. OnceOK'
  <2>1. ASSUME NEW u \in Worker, NEW v \in Worker, NEW j \in 1 .. Len(queue'[u]), NEW k \in 1 .. Len(queue'[v]),
               queue'[u][j] = queue'[v][k]
        PROVE  u = v /\ j = k
    <3>1. /\ j + shift(u) \in 1 .. Len(queue[u]) /\ k + shift(v) \in 1 .. Len(queue[v])
          /\ queue[u][j + shift(u)] = queue[v][k + shift(v)] /\ j \in Int /\ k \in Int
      BY Zenon, <1>9, <2>1
    <3>2. u = v /\ j + shift(u) = k + shift(v)
      BY <1>0, <3>1, OnceQueued
    <3> QED
      BY <1>x, <3>1, <3>2
  <2>2. ASSUME NEW u \in Worker, NEW v \in Worker, NEW k \in 1 .. Len(queue'[v]) PROVE job'[u] # queue'[v][k]
    <3>1. CASE u = w
      BY Zenon, <1>3, <1>10, <3>1
    <3>2. CASE u # w
      <4>1. job[u] # queue[v][k + shift(v)]
        BY Zenon, <1>0, <1>9, OnceHeld
      <4> QED
        BY Zenon, <1>3, <1>9, <3>2, <4>1
    <3> QED
      BY Zenon, <3>1, <3>2
  <2>3. ASSUME NEW u \in Worker, NEW v \in Worker, job'[u] = job'[v], job'[u] # <<>> PROVE u = v
    <3>1. \A a \in Worker : a # w => job'[a] # x
      BY <1>0, <1>3, <1>4, <1>5, OnceHeld
    <3> QED
      <4>1. CASE u = w \/ v = w
        BY Zenon, <1>3, <2>3, <3>1, <4>1
      <4>2. CASE u # w /\ v # w
        BY <1>0, <1>3, <2>3, <4>2 DEF OnceOK
      <4> QED
        BY Zenon, <4>1, <4>2
  <2> QED
    BY Zenon, <2>1, <2>2, <2>3 DEF OnceOK
<1>i. \A d \in Client : InLoop(d)' <=> InLoop(d)
  BY Zenon, <1>1 DEF InLoop
<1>n. \A d, q : <<d, q>> # <<>>
  OBVIOUS
<1>c. CountOK'
  <2>1. \A d \in Client : \A q \in Parts(d) : Pending(d, q)' <=> Pending(d, q)
    BY Zenon, <1>1, <1>11, <1>13, <1>n DEF Pending
  <2> QED
    BY Zenon, <1>1, <1>i, <2>1, CountSame
<1>d. DoneOK'
  <2>1. \A d \in Client : \A q \in Parts(d) : Unworked(d, q)' <=> Unworked(d, q)
    BY Zenon, <1>1, <1>11, <1>12, <1>n DEF Unworked
  <2> QED
    BY Zenon, <1>1, <1>i, <2>1, DoneSame
<1>e. OnceOnReturn'
  BY Zenon, <1>0, <1>1 DEF OnceOnReturn
<1> QED
  BY Zenon, <1>s, <1>o, <1>c, <1>d, <1>e DEF Places

\* The worker runs the body for its range.
LEMMA WorkStep ==
    ASSUME IInv, NEW w \in Worker, Work(w) PROVE Places'
<1> USE DEF workers, clients
<1>p. PICK c, r : c = job[w][1] /\ r = job[w][2]
  BY Zenon
<1> DEFINE part == Part(loop[c].n, loop[c].threads, r)
<1>t. DOMAIN wpc = Worker /\ DOMAIN done = Client /\ TypeOK /\ RangeOK
  BY Zenon DEF IInv, TypeOK
<1>0. OnceOK /\ OnceOnReturn /\ SentOK /\ DoneOK
  BY Zenon DEF IInv
<1>1. /\ UNCHANGED <<queue, job, cpc, range, loop, cnt>> /\ wpc[w] = "work" /\ wpc' = [wpc EXCEPT ![w] = "decrease"]
  BY Zenon DEF Work
<1>d1. done' = [done EXCEPT ![c] = [i \in DOMAIN done[c] |-> done[c][i] + IF i \in part THEN 1 ELSE 0]]
  BY Zenon, <1>p DEF Work
<1> HIDE DEF part
<1>2. wpc'[w] = "decrease" /\ \A v \in Worker : v # w => wpc'[v] = wpc[v]
  BY Zenon, <1>t, <1>1
<1>3. wpc[w] \notin {"receive", "exited"}
  BY Zenon, <1>1
<1>4. job[w] # <<>> /\ c \in Client /\ r \in Nat /\ job[w] = <<c, r>> /\ InLoop(c) /\ r < range[c] /\ r \in Parts(c)
  BY Zenon, <1>3, <1>p, JobFacts
<1>5. /\ done'[c] = [i \in DOMAIN done[c] |-> done[c][i] + IF i \in part THEN 1 ELSE 0]
      /\ \A d \in Client : d # c => done'[d] = done[d]
  BY Zenon, <1>t, <1>4, <1>d1
<1>6. \A d \in Client : InLoop(d)' <=> InLoop(d)
  BY Zenon, <1>1 DEF InLoop
<1>7. \A x : Queued(x)' <=> Queued(x)
  BY Zenon, <1>1 DEF Queued
<1>8. \A x : HeldIn(x, {"work", "decrease"})' <=> HeldIn(x, {"work", "decrease"})
  BY Zenon, <1>1, <1>2 DEF HeldIn
<1>9. \A x : x # job[w] => (HeldIn(x, {"work"})' <=> HeldIn(x, {"work"}))
  BY Zenon, <1>1, <1>2 DEF HeldIn
<1>s. SentOK'
  BY Zenon, <1>0, <1>1 DEF SentOK, InLoop
<1>o. OnceOK'
  BY <1>0, <1>1 DEF OnceOK
<1>c. CountOK'
  <2>1. \A d \in Client : \A q \in Parts(d) : Pending(d, q)' <=> Pending(d, q)
    BY Zenon, <1>1, <1>7, <1>8 DEF Pending
  <2> QED
    BY Zenon, <1>1, <1>6, <2>1, CountSame
<1>10. Unworked(c, r)
  BY Zenon, <1>1, <1>4 DEF Unworked, HeldIn
<1>11. ~(r >= range[c]) /\ ~Queued(<<c, r>>) /\ ~HeldIn(<<c, r>>, {"work"})'
  <2>1. ~(r >= range[c])
    BY <1>4, <1>t, RangeWithin
  <2>2. ~Queued(<<c, r>>)
    BY Zenon, <1>0, <1>4, OnceHeld DEF Queued
  <2>3. ASSUME NEW v \in Worker, job'[v] = <<c, r>>, wpc'[v] \in {"work"} PROVE FALSE
    <3>1. v = w
      BY Zenon, <1>0, <1>1, <1>4, <2>3 DEF OnceOK
    <3> QED
      BY Zenon, <1>2, <2>3, <3>1
  <2> QED
    BY Zenon, <2>1, <2>2, <2>3 DEF HeldIn
<1>d. DoneOK'
  <2> SUFFICES ASSUME NEW d \in Client, InLoop(d)
               PROVE  /\ DOMAIN done'[d] = 0 .. loop[d].n - 1
                      /\ \A q \in Parts(d) : \A i \in Part(loop[d].n, loop[d].threads, q) :
                           done'[d][i] = IF Unworked(d, q)' THEN 0 ELSE 1
    BY Zenon, <1>1, <1>6 DEF DoneOK, DoneAt, Parts
  <2>0. /\ DOMAIN done[d] = 0 .. loop[d].n - 1
        /\ \A q \in Parts(d) : \A i \in Part(loop[d].n, loop[d].threads, q) :
             done[d][i] = IF Unworked(d, q) THEN 0 ELSE 1
    BY Zenon, <1>0 DEF DoneOK, DoneAt
  <2>1. CASE d # c
    <3>1. \A q \in Parts(d) : Unworked(d, q)' <=> Unworked(d, q)
      <4> SUFFICES ASSUME NEW q \in Parts(d) PROVE Unworked(d, q)' <=> Unworked(d, q)
        BY Zenon
      <4>1. <<d, q>> # job[w]
        BY <1>4, <2>1
      <4> QED
        BY Zenon, <1>1, <1>7, <1>9, <4>1 DEF Unworked
    <3> QED
      BY ZenonT(40), <1>5, <2>0, <2>1, <3>1
  <2>2. CASE d = c
    <3>1. DOMAIN done'[c] = 0 .. loop[c].n - 1
      BY Zenon, <1>5, <2>0, <2>2
    <3>2. ASSUME NEW q \in Parts(c), NEW i \in Part(loop[c].n, loop[c].threads, q)
          PROVE  done'[c][i] = IF Unworked(d, q)' THEN 0 ELSE 1
      <4>1. loop[c].n \in Nat /\ loop[c].threads \in Nat /\ loop[c].threads > 0
        BY Zenon, <1>4, <1>t, RangeWithin
      <4>2. i \in DOMAIN done[c]
        <5>1. q \in 0 .. loop[c].threads - 1
          BY Zenon DEF Parts
        <5>2. i \in 0 .. loop[c].n - 1
          BY Zenon, <4>1, <5>1, PartsWithin
        <5> QED
          BY Zenon, <2>0, <2>2, <5>2
      <4>3. done'[c][i] = done[c][i] + IF i \in part THEN 1 ELSE 0
        BY Zenon, <1>5, <4>2
      <4>4. done[c][i] = IF Unworked(c, q) THEN 0 ELSE 1
        BY Zenon, <2>0, <2>2
      <4>5. CASE q = r
        <5>1. ~Unworked(d, q)'
          BY Zenon, <1>1, <1>7, <1>11, <2>2, <4>5 DEF Unworked
        <5>0. i \in part
          BY Zenon, <4>5 DEF part
        <5> QED
          BY <1>10, <4>3, <4>4, <4>5, <5>0, <5>1
      <4>6. CASE q # r
        <5>1. i \notin part
          BY Zenon, <1>4, <4>1, <4>6, PartsDisjoint DEF Parts, part
        <5>2. <<d, q>> # job[w]
          BY <1>4, <4>6
        <5>3. Unworked(d, q)' <=> Unworked(c, q)
          BY Zenon, <1>1, <1>7, <1>9, <2>2, <5>2 DEF Unworked
        <5> QED
          BY <4>3, <4>4, <5>1, <5>3
      <4> QED
        BY Zenon, <4>5, <4>6
    <3> QED
      BY Zenon, <2>2, <3>1, <3>2
  <2> QED
    BY Zenon, <2>1, <2>2
<1>e. OnceOnReturn'
  <2>1. \A d \in Client : cpc'[d] = "idle" => cpc[d] = "idle" /\ done'[d] = done[d]
    BY Zenon, <1>1, <1>4, <1>5 DEF InLoop
  <2> QED
    BY <1>0, <2>1 DEF OnceOnReturn
<1> QED
  BY Zenon, <1>s, <1>o, <1>c, <1>d, <1>e DEF Places

\* BlockingCounter::Decrease takes one work off the counter.
LEMMA DecreaseStep ==
    ASSUME IInv, NEW w \in Worker, Decrease(w) PROVE Places'
<1> USE DEF workers, clients
<1>p. PICK c, r : c = job[w][1] /\ r = job[w][2]
  BY Zenon
<1>t. DOMAIN wpc = Worker /\ DOMAIN cnt = Client /\ TypeOK /\ RangeOK
  BY Zenon DEF IInv, TypeOK
<1>0. OnceOK /\ OnceOnReturn /\ SentOK /\ CountOK
  BY Zenon DEF IInv
<1>1. UNCHANGED <<queue, job, cpc, range, loop, done>> /\ wpc[w] = "decrease" /\ cnt' = [cnt EXCEPT ![c] = cnt[c] - 1]
  BY Zenon, <1>p DEF Decrease
<1>2. wpc'[w] \notin {"work", "decrease"} /\ \A v \in Worker : v # w => wpc'[v] = wpc[v]
  BY Zenon, <1>t DEF Decrease
<1>3. wpc[w] \notin {"receive", "exited"}
  BY Zenon, <1>1
<1>4. job[w] # <<>> /\ c \in Client /\ r \in Nat /\ job[w] = <<c, r>> /\ InLoop(c) /\ r < range[c] /\ r \in Parts(c)
  BY Zenon, <1>3, <1>p, JobFacts
<1>5. cnt'[c] = cnt[c] - 1 /\ \A d \in Client : d # c => cnt'[d] = cnt[d]
  BY Zenon, <1>t, <1>1, <1>4
<1>6. \A d \in Client : InLoop(d)' <=> InLoop(d)
  BY Zenon, <1>1 DEF InLoop
<1>7. \A x : Queued(x)' <=> Queued(x)
  BY Zenon, <1>1 DEF Queued
<1>8. \A x : HeldIn(x, {"work"})' <=> HeldIn(x, {"work"})
  BY Zenon, <1>1, <1>2 DEF HeldIn
<1>9. \A x : x # job[w] => (HeldIn(x, {"work", "decrease"})' <=> HeldIn(x, {"work", "decrease"}))
  BY Zenon, <1>1, <1>2 DEF HeldIn
<1>s. SentOK'
  BY Zenon, <1>0, <1>1 DEF SentOK, InLoop
<1>o. OnceOK'
  BY <1>0, <1>1 DEF OnceOK
<1>d. DoneOK'
  <2>1. \A d \in Client : \A q \in Parts(d) : Unworked(d, q)' <=> Unworked(d, q)
    BY Zenon, <1>1, <1>7, <1>8 DEF Unworked
  <2> QED
    BY Zenon, <1>1, <1>6, <2>1, DoneSame
<1>10. ~Pending(c, r)'
  <2>1. ~(r >= range[c])
    BY <1>4, <1>t, RangeWithin
  <2>2. ~Queued(<<c, r>>)
    BY Zenon, <1>0, <1>4, OnceHeld DEF Queued
  <2>3. ASSUME NEW v \in Worker, job'[v] = <<c, r>>, wpc'[v] \in {"work", "decrease"} PROVE FALSE
    <3>1. v = w
      BY Zenon, <1>0, <1>1, <1>4, <2>3 DEF OnceOK
    <3> QED
      BY Zenon, <1>2, <2>3, <3>1
  <2> QED
    BY Zenon, <1>1, <1>7, <2>1, <2>2, <2>3 DEF HeldIn, Pending
<1>c. CountOK'
  <2> SUFFICES ASSUME NEW d \in Client, InLoop(d) PROVE cnt'[d] = Cardinality(PendingSet(d)')
    BY Zenon, <1>6 DEF CountOK
  <2>1. CASE d # c
    <3>1. \A q \in Parts(d) : Pending(d, q)' <=> Pending(d, q)
      <4> SUFFICES ASSUME NEW q \in Parts(d) PROVE Pending(d, q)' <=> Pending(d, q)
        BY Zenon
      <4>1. <<d, q>> # job[w]
        BY <1>4, <2>1
      <4> QED
        BY Zenon, <1>1, <1>7, <1>9, <4>1 DEF Pending
    <3>2. PendingSet(d)' = PendingSet(d)
      BY Zenon, <1>1, <3>1 DEF PendingSet, Parts
    <3> QED
      BY Zenon, <1>0, <1>5, <2>1, <3>2 DEF CountOK
  <2>2. CASE d = c
    <3>1. \A q \in Parts(d) : Pending(d, q)' <=> Pending(d, q) /\ q # r
      <4> SUFFICES ASSUME NEW q \in Parts(d) PROVE Pending(d, q)' <=> Pending(d, q) /\ q # r
        BY Zenon
      <4>1. CASE q = r
        BY Zenon, <1>1, <1>10, <2>2, <4>1
      <4>2. CASE q # r
        <5>1. <<d, q>> # job[w]
          BY <1>4, <4>2
        <5> QED
          BY Zenon, <1>1, <1>7, <1>9, <4>2, <5>1 DEF Pending
      <4> QED
        BY Zenon, <4>1, <4>2
    <3>2. PendingSet(d)' = PendingSet(d) \ {r}
      BY Zenon, <1>1, <3>1 DEF PendingSet, Parts
    <3>3. r \in PendingSet(d) /\ cnt[d] = Cardinality(PendingSet(d))
      BY Zenon, <1>1, <1>p, <2>2, CntPositive
    <3>4. IsFiniteSet(PendingSet(d)) /\ Cardinality(PendingSet(d)) \in Nat
      BY Zenon, <1>t, PendingFinite
    <3>5. Cardinality(PendingSet(d) \ {r}) = Cardinality(PendingSet(d)) - 1
      BY Zenon, <3>3, <3>4, FS_RemoveElement
    <3> QED
      BY Zenon, <1>5, <2>2, <3>2, <3>3, <3>5
  <2> QED
    BY Zenon, <2>1, <2>2
<1>e. OnceOnReturn'
  BY Zenon, <1>0, <1>1 DEF OnceOnReturn
<1> QED
  BY Zenon, <1>s, <1>o, <1>c, <1>d, <1>e DEF Places

\* The end of BlockingCounter::Decrease: the worker holds nothing any more.
LEMMA UnlockStep ==
    ASSUME IInv, NEW w \in Worker, Unlock(w) PROVE Places'
<1> USE DEF workers, clients
<1>t. DOMAIN wpc = Worker /\ DOMAIN job = Worker
  BY Zenon DEF IInv, TypeOK
<1>0. OnceOK /\ OnceOnReturn /\ SentOK
  BY Zenon DEF IInv
<1>1. UNCHANGED <<queue, cpc, range, loop, cnt, done>> /\ wpc[w] = "unlock"
  BY Zenon DEF Unlock
<1>2. wpc'[w] = "receive" /\ job'[w] = <<>> /\ \A v \in Worker : v # w => wpc'[v] = wpc[v] /\ job'[v] = job[v]
  BY Zenon, <1>t DEF Unlock
<1>3. \A d \in Client : InLoop(d)' <=> InLoop(d)
  BY Zenon, <1>1 DEF InLoop
<1>4. \A x : Queued(x)' <=> Queued(x)
  BY Zenon, <1>1 DEF Queued
<1>5. \A x : HeldIn(x, {"work"})' <=> HeldIn(x, {"work"})
  BY Zenon, <1>1, <1>2 DEF HeldIn
<1>6. \A x : HeldIn(x, {"work", "decrease"})' <=> HeldIn(x, {"work", "decrease"})
  BY Zenon, <1>1, <1>2 DEF HeldIn
<1>s. SentOK'
  BY Zenon, <1>0, <1>1, <1>2 DEF SentOK, InLoop
<1>o. OnceOK'
  <2>1. \A v \in Worker : \A k \in 1 .. Len(queue[v]) : queue[v][k] # <<>>
    BY Zenon, QueueFacts
  <2> QED
    BY <1>0, <1>1, <1>2, <2>1 DEF OnceOK
<1>c. CountOK'
  <2>1. \A d \in Client : \A q \in Parts(d) : Pending(d, q)' <=> Pending(d, q)
    BY Zenon, <1>1, <1>4, <1>6 DEF Pending
  <2> QED
    BY Zenon, <1>1, <1>3, <2>1, CountSame
<1>d. DoneOK'
  <2>1. \A d \in Client : \A q \in Parts(d) : Unworked(d, q)' <=> Unworked(d, q)
    BY Zenon, <1>1, <1>4, <1>5 DEF Unworked
  <2> QED
    BY Zenon, <1>1, <1>3, <2>1, DoneSame
<1>e. OnceOnReturn'
  BY Zenon, <1>0, <1>1 DEF OnceOnReturn
<1> QED
  BY Zenon, <1>s, <1>o, <1>c, <1>d, <1>e DEF Places

\* A loop whose counter is zero and whose mtx_ is free is known to nobody, and every part of it has been worked.
LEMMA ZeroMeansOver ==
    ASSUME IInv, NEW c \in Client, InLoop(c), cnt[c] = 0, mtx[c] = Nobody
    PROVE  /\ \A r \in Parts(c) : ~Pending(c, r)
           /\ \A w \in Worker : \A k \in 1 .. Len(queue[w]) : queue[w][k][1] # c
           /\ \A w \in Worker : job[w] # <<>> => job[w][1] # c
<1>1. TypeOK /\ CountOK /\ LockOK
  BY Zenon DEF IInv
<1>2. IsFiniteSet(PendingSet(c)) /\ Cardinality(PendingSet(c)) = 0
  BY Zenon, <1>1, PendingFinite DEF CountOK
<1>3. PendingSet(c) = {}
  BY Zenon, <1>2, FS_EmptySet
<1>4. \A r \in Parts(c) : ~Pending(c, r)
  BY Zenon, <1>3 DEF PendingSet
<1>5. ASSUME NEW w \in Worker, NEW k \in 1 .. Len(queue[w]), queue[w][k][1] = c PROVE FALSE
  <2> DEFINE x == queue[w][k]
  <2>1. x = <<x[1], x[2]>> /\ x[2] \in Parts(x[1]) /\ Queued(x)
    BY Zenon, QueueFacts
  <2> QED
    BY Zenon, <1>4, <1>5, <2>1 DEF Pending
<1>6. ASSUME NEW w \in Worker, job[w] # <<>>, job[w][1] = c PROVE FALSE
  <2> DEFINE r == job[w][2]
  <2>1. /\ wpc[w] \notin {"receive", "exited"}
        /\ wpc[w] \in {"work", "decrease", "notify", "unlock"}
    BY Zenon, <1>6, HasJob
  <2>2. job[w] = <<c, r>> /\ r \in Parts(c)
    BY Zenon, <1>6, <2>1, JobFacts
  <2>3. CASE wpc[w] \in {"work", "decrease"}
    BY Zenon, <1>4, <2>2, <2>3 DEF Pending, HeldIn
  <2>4. CASE wpc[w] \in {"notify", "unlock"}
    <3>1. mtx[c] = w
      BY Zenon, <1>1, <1>6, <2>4 DEF LockOK
    <3> QED
      BY <3>1 DEF Nobody, Worker
  <2> QED
    BY Zenon, <2>1, <2>3, <2>4
<1> QED
  BY Zenon, <1>4, <1>5, <1>6

\* BlockingCounter::WaitUntilCntEqualZero: goes to sleep, or returns from the loop.
LEMMA WaitStep ==
    ASSUME IInv, NEW c \in Client, Wait(c) PROVE Places'
<1> USE DEF workers, clients
<1>t. DOMAIN cpc = Client /\ TypeOK /\ RangeOK
  BY Zenon DEF IInv, TypeOK
<1>0. OnceOK /\ OnceOnReturn /\ SentOK /\ DoneOK
  BY Zenon DEF IInv
<1>1. UNCHANGED <<queue, wpc, job, range, loop, cnt, done>> /\ cpc[c] = "wait" /\ mtx[c] = Nobody
  BY Zenon DEF Wait
<1>2. cpc'[c] = (IF cnt[c] = 0 THEN "idle" ELSE "asleep") /\ \A d \in Client : d # c => cpc'[d] = cpc[d]
  BY Zenon, <1>t DEF Wait
<1>3. InLoop(c)
  BY Zenon, <1>1 DEF InLoop
<1>4. CASE cnt[c] # 0
  <2>1. \A d \in Client : InLoop(d)' <=> InLoop(d)
    BY Zenon, <1>1, <1>2, <1>4 DEF InLoop
  <2> QED
    BY Zenon, <1>1, <2>1, QuietStep
<1>5. CASE cnt[c] = 0
  <2>1. /\ \A r \in Parts(c) : ~Pending(c, r)
        /\ \A w \in Worker : \A k \in 1 .. Len(queue[w]) : queue[w][k][1] # c
        /\ \A w \in Worker : job[w] # <<>> => job[w][1] # c
    BY Zenon, <1>1, <1>3, <1>5, ZeroMeansOver
  <2>2. \A d \in Client : InLoop(d)' => InLoop(d)
    BY Zenon, <1>2, <1>3 DEF InLoop
  <2>3. /\ \A x : Queued(x)' <=> Queued(x)
        /\ \A x, P : HeldIn(x, P)' <=> HeldIn(x, P)
    BY Zenon, <1>1 DEF Queued, HeldIn
  <2>s. SentOK'
    <3>1. ASSUME NEW w \in Worker, NEW k \in 1 .. Len(queue'[w])
          PROVE  (InLoop(queue[w][k][1]) /\ queue[w][k][2] < range[queue[w][k][1]])'
      <4>1. k \in 1 .. Len(queue[w])
        BY Zenon, <1>1, <3>1
      <4>2. queue[w][k][1] \in Client /\ InLoop(queue[w][k][1]) /\ queue[w][k][2] < range[queue[w][k][1]]
        BY Zenon, <4>1, QueueFacts
      <4> QED
        BY <1>1, <1>2, <2>1, <4>1, <4>2 DEF InLoop
    <3>2. ASSUME NEW w \in Worker, job'[w] # <<>> PROVE (InLoop(job[w][1]) /\ job[w][2] < range[job[w][1]])'
      <4>1. job[w][1] \in Client /\ InLoop(job[w][1]) /\ job[w][2] < range[job[w][1]]
        BY Zenon, <1>1, <3>2, HasJob, JobFacts
      <4> QED
        BY Zenon, <1>1, <1>2, <2>1, <3>2, <4>1 DEF InLoop
    <3> QED
      BY Zenon, <3>1, <3>2 DEF SentOK
  <2>o. OnceOK'
    BY <1>0, <1>1 DEF OnceOK
  <2>c. CountOK'
    BY Zenon, <1>1, <2>2, <2>3, CountSame DEF Pending
  <2>d. DoneOK'
    BY Zenon, <1>1, <2>2, <2>3, DoneSame DEF Unworked
  <2>e. OnceOnReturn'
    <3>1. ASSUME NEW i \in DOMAIN done[c] PROVE done[c][i] = 1
      <4> DEFINE r == RangeIndex(loop[c].n, loop[c].threads, i)
      <4>1. loop[c].n \in Nat /\ loop[c].threads \in Nat /\ loop[c].threads > 0
        BY Zenon, <1>t, RangeWithin
      <4>2. i \in 0 .. loop[c].n - 1
        BY Zenon, <1>0, <1>3 DEF DoneOK, DoneAt
      <4>3. r \in 0 .. loop[c].threads - 1 /\ i \in Part(loop[c].n, loop[c].threads, r)
        BY Zenon, <4>1, <4>2, PartsCover
      <4> HIDE DEF r
      <4>4. r \in Parts(c)
        BY Zenon, <4>3 DEF Parts
      <4>5. ~Unworked(c, r)
        <5>1. HeldIn(<<c, r>>, {"work"}) => HeldIn(<<c, r>>, {"work", "decrease"})
          BY Zenon DEF HeldIn
        <5> QED
          BY Zenon, <2>1, <4>4, <5>1 DEF Pending, Unworked
      <4> QED
        BY Zenon, <1>0, <1>3, <4>3, <4>4, <4>5 DEF DoneOK, DoneAt
    <3>2. \A d \in Client : cpc'[d] = "idle" => d = c \/ cpc[d] = "idle"
      BY Zenon, <1>2
    <3> QED
      BY Zenon, <1>0, <1>1, <3>1, <3>2 DEF OnceOnReturn
  <2> QED
    BY Zenon, <2>s, <2>o, <2>c, <2>d, <2>e DEF Places
<1> QED
  BY Zenon, <1>4, <1>5

\* Every other step moves no work.
LEMMA PlacesStep ==
    ASSUME IInv, Next PROVE Places'
<1> USE DEF workers, clients
<1>t. DOMAIN cpc = Client /\ DOMAIN wpc = Worker
  BY Zenon DEF IInv, TypeOK
<1>1. ASSUME NEW c \in Client, Choose(c) \/ Notify(c) \/ Timeout(c) PROVE Places'
  <2>1. UNCHANGED <<queue, job, wpc, range, loop, cnt, done>>
    BY Zenon, <1>1 DEF Choose, Notify, Timeout
  <2>2. \A d \in Client : InLoop(d)' <=> InLoop(d)
    BY Zenon, <1>t, <1>1 DEF Choose, Notify, Timeout, InLoop
  <2> QED
    BY Zenon, <2>1, <2>2, QuietStep
<1>2. ASSUME NEW w \in Worker, Receive(w) PROVE Places'
  <2>1. CASE queue[w] # <<>>
    BY Zenon, <1>2, <2>1, TakeStep
  <2>2. CASE queue[w] = <<>>
    <3>1. UNCHANGED <<queue, job, cpc, range, loop, cnt, done>>
      BY Zenon, <1>2, <2>2 DEF Receive
    <3>2. \A v \in Worker : wpc'[v] = wpc[v] \/ {wpc[v], wpc'[v]} \cap {"work", "decrease"} = {}
      BY Zenon, <1>t, <1>2, <2>2 DEF Receive
    <3>3. \A d \in Client : InLoop(d)' <=> InLoop(d)
      BY Zenon, <3>1 DEF InLoop
    <3> QED
      BY Zenon, <3>1, <3>2, <3>3, QuietStep
  <2> QED
    BY Zenon, <2>1, <2>2
<1>3. ASSUME NEW w \in Worker, NotifyAtZero(w) PROVE Places'
  <2>1. UNCHANGED <<queue, job, range, loop, cnt, done>>
    BY Zenon, <1>3 DEF NotifyAtZero
  <2>2. \A v \in Worker : wpc'[v] = wpc[v] \/ {wpc[v], wpc'[v]} \cap {"work", "decrease"} = {}
    BY Zenon, <1>t, <1>3 DEF NotifyAtZero
  <2>3. \A d \in Client : InLoop(d)' <=> InLoop(d)
    BY Zenon, <1>t, <1>3 DEF NotifyAtZero, InLoop
  <2> QED
    BY Zenon, <2>1, <2>2, <2>3, QuietStep
<1>4. ASSUME Destroy \/ Close \/ Join \/ \E w \in Worker : SpuriousWakeup(w) PROVE Places'
  <2>1. UNCHANGED <<queue, job, wpc, cpc, range, loop, cnt, done>>
    BY Zenon, <1>4 DEF Destroy, Close, Join, SpuriousWakeup
  <2>2. \A d \in Client : InLoop(d)' <=> InLoop(d)
    BY Zenon, <2>1 DEF InLoop
  <2> QED
    BY Zenon, <2>1, <2>2, QuietStep
<1> QED
  BY Zenon, <1>1, <1>2, <1>3, <1>4, StartStep, SendStep, WaitStep, WorkStep, DecreaseStep, UnlockStep
     DEF Next, ClientStep, WorkerStep

-----------------------------------------------------------------------------
\* The invariant holds when the pool has been built.
LEMMA InitInv ==
    ASSUME Init PROVE IInv
<1> USE DEF Init
<1>1. TypeOK
  <2>1. 0 \in 0 .. CntMod - 1 /\ 0 \in Worker /\ 0 \in 0 .. ThreadNum /\ [n |-> 0, threads |-> 1] \in [n : Nat, threads : 1 .. ThreadNum]
    BY PoolAssumption DEF Worker
  <2>2. <<>> \in Seq(Works)
    OBVIOUS
  <2> QED
    BY Zenon, <2>1, <2>2, PoolAssumption DEF TypeOK
<1>2. NoLostWork /\ PhaseOK
  BY Zenon DEF NoLostWork, PhaseOK, InLoop
<1>3. RangeOK /\ LockOK
  BY Zenon DEF RangeOK, LockOK
<1>4. SentOK /\ OnceOK
  <2>1. \A w \in Worker : 1 .. Len(queue[w]) = {} /\ job[w] = <<>>
    OBVIOUS
  <2> QED
    BY Zenon, <2>1 DEF SentOK, OnceOK
<1>5. CountOK /\ DoneOK
  BY Zenon DEF CountOK, DoneOK, DoneAt, InLoop
<1>6. OnceOnReturn
  BY DEF OnceOnReturn
<1> QED
  BY Zenon, <1>1, <1>2, <1>3, <1>4, <1>5, <1>6 DEF IInv

\* A step that changes nothing.
LEMMA StutterStep ==
    ASSUME IInv, UNCHANGED vars PROVE IInv'
<1> USE DEF vars, workers, clients
<1>1. TypeOK'
  BY Zenon DEF IInv, TypeOK
<1>2. NoLostWork' /\ PhaseOK'
  BY Zenon DEF IInv, NoLostWork, PhaseOK, InLoop
<1>3. RangeOK' /\ LockOK'
  BY Zenon DEF IInv, RangeOK, LockOK
<1>4. Places'
  <2>1. \A d \in Client : InLoop(d)' <=> InLoop(d)
    BY Zenon DEF InLoop
  <2> QED
    BY Zenon, <2>1, QuietStep
<1> QED
  BY Zenon, <1>1, <1>2, <1>3, <1>4 DEF IInv, Places

\* The invariant is inductive.
LEMMA Inductive ==
    Spec => []IInv
<1>1. ASSUME IInv, [Next]_vars PROVE IInv'
  <2>1. CASE Next
    BY Zenon, <1>1, <2>1, TypeStep, AwakeStep, PhaseStep, RangeStep, LockStep, PlacesStep DEF IInv, Places
  <2>2. CASE UNCHANGED vars
    BY Zenon, <1>1, <2>2, StutterStep
  <2> QED
    BY Zenon, <1>1, <2>1, <2>2
<1> QED
  BY <1>1, InitInv, PTL DEF Spec

(***************************************************************************)
(* ThreadPool keeps its types: work_cnt_ stays below its modulus, every    *)
(* queued work belongs to a client, and cnt_val_ never leaves              *)
(* 0 .. ThreadNum, for any number of clients, threads and loops.           *)
(***************************************************************************)
THEOREM PoolTypes == Spec => []TypeOK
<1>1. IInv => TypeOK
  BY Zenon DEF IInv
<1> QED
  BY <1>1, Inductive, PTL

(***************************************************************************)
(* Channel::Send and Channel::Receive: whoever sleeps on a channel with    *)
(* work in it is about to be woken, for any number of clients, threads and *)
(* loops.                                                                  *)
(***************************************************************************)
THEOREM PoolAwake == Spec => []NoLostWork
<1>1. IInv => NoLostWork
  BY Zenon DEF IInv
<1> QED
  BY <1>1, Inductive, PTL

(***************************************************************************)
(* MultiThreadLoop and BlockingCounter: no worker outlives, with its       *)
(* references, the loop whose locals they are.                             *)
(***************************************************************************)
THEOREM PoolLocals == Spec => []LocalsAlive
<1>1. IInv => LocalsAlive
  <2> SUFFICES ASSUME IInv PROVE LocalsAlive
    BY Zenon
  <2>1. \A w \in Worker : DOMAIN queue[w] = 1 .. Len(queue[w])
    BY DEF IInv, TypeOK
  <2> QED
    BY Zenon, <2>1 DEF IInv, SentOK, LocalsAlive
<1> QED
  BY <1>1, Inductive, PTL

(***************************************************************************)
(* MultiThreadLoop returns with the body run exactly once for each index,  *)
(* whatever work_num, the thread limit and the size of the pool are.       *)
(***************************************************************************)
THEOREM PoolOnce == Spec => []OnceOnReturn
<1>1. IInv => OnceOnReturn
  BY Zenon DEF IInv
<1> QED
  BY <1>1, Inductive, PTL

=============================================================================
