-------------------------- MODULE SocketLinkProofs --------------------------
(***************************************************************************)
(* Theorems about SocketLink, for every number of threads, every program,  *)
(* every header size and every capacity of the socket.                     *)
(*                                                                         *)
(* The argument follows the units on their way, from the first one the     *)
(* reader holds to the next one the writer will write: each has a place in *)
(* the sequence of messages accepted and an offset in its message.         *)
(***************************************************************************)
EXTENDS SocketLink, SequenceTheorems, TLAPS

(***************************************************************************)
(* The units u are laid out as the messages acc, from message d + 1 on:    *)
(* unit i is the off[i]-th of acc[pos[i]], a message runs on until it is   *)
(* complete, the next one follows it, and the unit to come after u is the  *)
(* o-th of message p.                                                      *)
(***************************************************************************)
Laid(u, acc, d, p, o, pos, off) ==
    /\ pos \in [1 .. Len(u) + 1 -> Nat] /\ off \in [1 .. Len(u) + 1 -> Nat]
    /\ pos[1] = d + 1 /\ off[1] = 1
    /\ pos[Len(u) + 1] = p /\ off[Len(u) + 1] = o
    /\ \A i \in 1 .. Len(u) :
          /\ pos[i] \in 1 .. Len(acc) /\ off[i] \in 1 .. Size(acc[pos[i]])
          /\ u[i] = <<acc[pos[i]], off[i]>>
          /\ off[i] = Size(acc[pos[i]]) => pos[i + 1] = pos[i] + 1 /\ off[i + 1] = 1
    /\ \A i \in 1 .. Len(u), j \in 1 .. Len(u) + 1 :
          i <= j /\ off[i] + (j - i) <= Size(acc[pos[i]])
             => pos[j] = pos[i] /\ off[j] = off[i] + (j - i)

Stream(u, acc, d, p, o) ==
    /\ u \in Seq(Msg \X Nat) /\ acc \in Seq(Msg) /\ d \in Nat /\ p \in Nat /\ o \in Nat
    /\ \E pos, off : Laid(u, acc, d, p, o, pos, off)

\* A message has at least the units of its header.
LEMMA SizeType == \A m \in Msg : Size(m) \in Nat /\ Size(m) >= HeadSize /\ HeadSize \in Nat \ {0}
BY ProgramAssumption, SizeAssumption DEF Msg, Body, Size

\* What a layout says of the units of the first message.
LEMMA StreamFirst ==
    ASSUME NEW u, NEW acc, NEW d, NEW p, NEW o, Stream(u, acc, d, p, o), Len(u) > 0
    PROVE  /\ d + 1 \in 1 .. Len(acc)
           /\ u[1] = <<acc[d + 1], 1>>
           /\ \A i \in 1 .. Len(u) : i <= Size(acc[d + 1]) => u[i] = <<acc[d + 1], i>>
<1>1. PICK pos, off : Laid(u, acc, d, p, o, pos, off)
  BY Zenon DEF Stream
<1>2. Len(u) \in Nat /\ 1 \in 1 .. Len(u)
  <2>1. Len(u) \in Nat
    BY Zenon, LenProperties DEF Stream
  <2> QED  BY <2>1
<1>3. pos[1] = d + 1 /\ off[1] = 1 /\ pos[1] \in 1 .. Len(acc)
      /\ u[1] = <<acc[pos[1]], off[1]>>
  BY Zenon, <1>1, <1>2 DEF Laid
<1>4. ASSUME NEW i \in 1 .. Len(u), i <= Size(acc[d + 1])
      PROVE  u[i] = <<acc[d + 1], i>>
  <2>1. i \in 1 .. Len(u) + 1 /\ 1 <= i /\ off[1] + (i - 1) = i
    BY <1>2, <1>3
  <2>2. pos[i] = pos[1] /\ off[i] = off[1] + (i - 1)
    BY Zenon, <1>1, <1>2, <1>3, <1>4, <2>1 DEF Laid
  <2>3. u[i] = <<acc[pos[i]], off[i]>>
    BY Zenon, <1>1 DEF Laid
  <2> QED  BY Zenon, <1>3, <2>1, <2>2, <2>3
<1> QED  BY Zenon, <1>3, <1>4

\* A message that is accepted later changes nothing.
LEMMA StreamAccept ==
    ASSUME NEW u, NEW acc, NEW d, NEW p, NEW o, NEW m \in Msg, Stream(u, acc, d, p, o)
    PROVE  Stream(u, Append(acc, m), d, p, o)
<1>1. PICK pos, off : Laid(u, acc, d, p, o, pos, off)
  BY Zenon DEF Stream
<1>b. PICK b : b = Append(acc, m)
  BY Zenon
<1>2. /\ Len(acc) \in Nat /\ Len(b) = Len(acc) + 1 /\ b \in Seq(Msg)
      /\ \A k \in 1 .. Len(acc) : b[k] = acc[k]
  BY <1>b, AppendProperties, LenProperties DEF Stream
<1>3. \A i \in 1 .. Len(u) : pos[i] \in 1 .. Len(acc) /\ pos[i] \in 1 .. Len(b) /\ b[pos[i]] = acc[pos[i]]
  BY <1>1, <1>2 DEF Laid
<1>4. Laid(u, b, d, p, o, pos, off)
  BY Zenon, <1>1, <1>3 DEF Laid
<1> QED  BY Zenon, <1>2, <1>4, <1>b DEF Stream

\* The writer writes n units of the message acc[p], from its o-th one on.
LEMMA StreamWrite ==
    ASSUME NEW u, NEW acc, NEW d, NEW p \in 1 .. Len(acc), NEW o \in Nat \ {0}, NEW n \in Nat \ {0},
           NEW S, S = Size(acc[p]), Stream(u, acc, d, p, o), (o - 1) + n <= S
    PROVE  Stream(u \o [i \in 1 .. n |-> <<acc[p], (o - 1) + i>>], acc, d,
                  IF (o - 1) + n = S THEN p + 1 ELSE p, IF (o - 1) + n = S THEN 1 ELSE o + n)
<1>1. PICK pos, off : Laid(u, acc, d, p, o, pos, off)
  BY Zenon DEF Stream
<1>a. u \in Seq(Msg \X Nat) /\ acc \in Seq(Msg) /\ d \in Nat
  BY Zenon DEF Stream
<1>t. acc[p] \in Msg /\ S \in Nat /\ Len(acc) \in Nat
  BY Zenon, <1>a, SizeType, ElementOfSeq, LenProperties
<1>w. PICK t : t = [i \in 1 .. n |-> <<acc[p], (o - 1) + i>>]
  BY Zenon
<1>x. PICK p2 : p2 = IF (o - 1) + n = S THEN p + 1 ELSE p
  BY Zenon
<1>y. PICK o2 : o2 = IF (o - 1) + n = S THEN 1 ELSE o + n
  BY Zenon
<1>2. t \in Seq(Msg \X Nat) /\ Len(t) = n /\ \A i \in 1 .. n : t[i] = <<acc[p], (o - 1) + i>>
  <2>1. \A i \in 1 .. n : (o - 1) + i \in Nat
    OBVIOUS
  <2> QED  BY SMTT(30), <1>t, <1>w, <2>1, LenProperties
<1>p. PICK v : v = u \o t
  BY Zenon
<1>3. /\ v \in Seq(Msg \X Nat) /\ Len(v) = Len(u) + n /\ Len(u) \in Nat
      /\ \A i \in 1 .. Len(u) : v[i] = u[i]
      /\ \A i \in 1 .. n : v[Len(u) + i] = <<acc[p], (o - 1) + i>>
  <2>1. v \in Seq(Msg \X Nat) /\ Len(v) = Len(u) + Len(t) /\ Len(u) \in Nat
    BY ZenonT(40), <1>2, <1>a, <1>p, ConcatProperties, LenProperties
  <2>2. \A i \in 1 .. Len(u) + Len(t) :
           v[i] = IF i <= Len(u) THEN u[i] ELSE t[i - Len(u)]
    BY ZenonT(40), <1>2, <1>a, <1>p, ConcatProperties
  <2>3. \A i \in 1 .. Len(u) : i \in 1 .. Len(u) + Len(t) /\ i <= Len(u)
    BY <1>2, <2>1
  <2>4. \A i \in 1 .. n : /\ Len(u) + i \in 1 .. Len(u) + Len(t) /\ ~(Len(u) + i <= Len(u))
                          /\ (Len(u) + i) - Len(u) = i
    BY SMTT(30), <1>2, <2>1
  <2> QED  BY Zenon, <1>2, <2>1, <2>2, <2>3, <2>4
<1>q. PICK L \in Nat : L = Len(u)
  BY Zenon, <1>3
<1>r. PICK q : q = [i \in 1 .. (L + n) + 1 |-> IF i <= L THEN pos[i] ELSE
                                               IF i <= L + n THEN p ELSE p2]
  BY Zenon
<1>s. PICK f : f = [i \in 1 .. (L + n) + 1 |-> IF i <= L THEN off[i] ELSE
                                               IF i <= L + n THEN (o - 1) + (i - L) ELSE o2]
  BY Zenon
<1>4. /\ p2 \in Nat /\ o2 \in Nat
      /\ (o - 1) + n = S => p2 = p + 1 /\ o2 = 1
      /\ (o - 1) + n # S => p2 = p /\ o2 = o + n
  BY <1>t, <1>x, <1>y
<1>5. /\ q \in [1 .. (L + n) + 1 -> Nat] /\ f \in [1 .. (L + n) + 1 -> Nat]
      /\ \A i \in 1 .. L : q[i] = pos[i] /\ f[i] = off[i]
      /\ \A i \in L + 1 .. L + n : q[i] = p /\ f[i] = (o - 1) + (i - L)
      /\ q[(L + n) + 1] = p2 /\ f[(L + n) + 1] = o2
  <2>1. \A i \in 1 .. L : pos[i] \in Nat /\ off[i] \in Nat
    BY SMTT(30), <1>1, <1>q DEF Laid
  <2> QED  BY <1>4, <1>r, <1>s, <2>1
\* the unit to come is the first one written
<1>6. q[L + 1] = pos[L + 1] /\ f[L + 1] = off[L + 1] /\ pos[L + 1] = p /\ off[L + 1] = o
  <2>1. pos[L + 1] = p /\ off[L + 1] = o
    BY Zenon, <1>1, <1>q DEF Laid
  <2> QED  BY <1>5, <2>1
<1>7. q[1] = d + 1 /\ f[1] = 1
  <2>1. pos[1] = d + 1 /\ off[1] = 1
    BY Zenon, <1>1 DEF Laid
  <2> QED  BY SMTT(30), <1>5, <1>6, <2>1
<1>e. ASSUME NEW j \in L + 1 .. (L + n) + 1, (o - 1) + (j - L) <= S
      PROVE  q[j] = p /\ f[j] = (o - 1) + (j - L)
  <2>1. CASE j \in L + 1 .. L + n
    BY Zenon, <1>5, <2>1
  <2>2. CASE j = (L + n) + 1
    <3>1. (o - 1) + n # S
      BY <1>e, <1>t, <2>2
    <3>2. q[j] = p /\ f[j] = o + n
      BY Zenon, <1>4, <1>5, <2>2, <3>1
    <3> QED  BY <2>2, <3>2
  <2> QED  BY <1>e, <2>1, <2>2
<1>8. ASSUME NEW i \in 1 .. L + n
      PROVE  /\ q[i] \in 1 .. Len(acc) /\ f[i] \in 1 .. Size(acc[q[i]])
             /\ v[i] = <<acc[q[i]], f[i]>>
             /\ f[i] = Size(acc[q[i]]) => q[i + 1] = q[i] + 1 /\ f[i + 1] = 1
  <2>1. CASE i \in 1 .. L
    <3>1. q[i] = pos[i] /\ f[i] = off[i] /\ v[i] = u[i]
      BY Zenon, <1>3, <1>5, <1>q, <2>1
    <3>2. q[i + 1] = pos[i + 1] /\ f[i + 1] = off[i + 1]
      <4>1. i = L \/ i + 1 \in 1 .. L
        BY <2>1
      <4> QED  BY Zenon, <1>5, <1>6, <4>1
    <3> QED  BY Zenon, <1>1, <1>q, <2>1, <3>1, <3>2 DEF Laid
  <2>2. CASE i \in L + 1 .. L + n
    <3>1. q[i] = p /\ f[i] = (o - 1) + (i - L)
      BY Zenon, <1>5, <2>2
    <3>2. v[i] = <<acc[p], (o - 1) + (i - L)>>
      <4>1. i - L \in 1 .. n /\ L + (i - L) = i
        BY <2>2
      <4> QED  BY Zenon, <1>3, <1>q, <4>1
    <3>3. f[i] \in 1 .. S
      BY <1>t, <2>2, <3>1
    <3>4. f[i] = S => q[i + 1] = q[i] + 1 /\ f[i + 1] = 1
      <4> SUFFICES ASSUME f[i] = S PROVE q[i + 1] = q[i] + 1 /\ f[i + 1] = 1
        BY Zenon
      <4>1. i = L + n /\ (o - 1) + n = S
        BY <1>t, <2>2, <3>1
      <4> QED  BY Zenon, <1>4, <1>5, <3>1, <4>1
    <3> QED  BY Zenon, <3>1, <3>2, <3>3, <3>4
  <2>3. i \in 1 .. L \/ i \in L + 1 .. L + n
    OBVIOUS
  <2> QED  BY Zenon, <2>1, <2>2, <2>3
<1>9. ASSUME NEW i \in 1 .. L + n, NEW j \in 1 .. (L + n) + 1,
             i <= j, f[i] + (j - i) <= Size(acc[q[i]])
      PROVE  q[j] = q[i] /\ f[j] = f[i] + (j - i)
  <2>1. CASE i \in 1 .. L
    <3>1. q[i] = pos[i] /\ f[i] = off[i] /\ off[i] \in Nat /\ pos[i] \in 1 .. Len(acc)
      BY SMTT(30), <1>1, <1>5, <1>q, <2>1 DEF Laid
    <3>s. Size(acc[pos[i]]) \in Nat
      BY Zenon, <1>a, <3>1, SizeType, ElementOfSeq
    <3>2. \A k \in i .. L + 1 : off[i] + (k - i) <= Size(acc[pos[i]])
                                 => pos[k] = pos[i] /\ off[k] = off[i] + (k - i)
      BY SMTT(30), <1>1, <1>q, <2>1 DEF Laid
    <3>3. CASE j <= L + 1
      <4>1. j \in i .. L + 1 /\ (j = L + 1 \/ j \in 1 .. L)
        <5>1. i <= j
          BY Zenon, <1>9
        <5> QED  BY <2>1, <3>3, <5>1
      <4>2. q[j] = pos[j] /\ f[j] = off[j]
        BY Zenon, <1>5, <1>6, <4>1
      <4>3. off[i] + (j - i) <= Size(acc[pos[i]])
        BY Zenon, <1>9, <3>1
      <4> QED  BY Zenon, <3>1, <3>2, <4>1, <4>2, <4>3
    <3>4. CASE j > L + 1
      <4>1. p = pos[i] /\ o = off[i] + ((L + 1) - i)
        <5>1. L + 1 \in i .. L + 1 /\ off[i] + ((L + 1) - i) <= Size(acc[pos[i]])
          BY <1>9, <2>1, <3>1, <3>4, <3>s
        <5> QED  BY Zenon, <1>6, <3>2, <5>1
      <4>i. (o - 1) + (j - L) = off[i] + (j - i)
        <5>1. PICK x \in Nat : x = off[i]
          BY Zenon, <3>1
        <5>2. o = x + ((L + 1) - i)
          BY Zenon, <4>1, <5>1
        <5>3. (o - 1) + (j - L) = x + (j - i)
          BY <5>2
        <5> QED  BY Zenon, <5>1, <5>3
      <4>2. (o - 1) + (j - L) <= S
        <5>1. Size(acc[q[i]]) = S /\ f[i] = off[i]
          BY Zenon, <3>1, <4>1
        <5> QED  BY Zenon, <1>9, <4>i, <5>1
      <4>3. j \in L + 1 .. (L + n) + 1
        BY <3>4
      <4>4. q[j] = p /\ f[j] = (o - 1) + (j - L)
        BY Zenon, <1>e, <4>2, <4>3
      <4> QED  BY Zenon, <3>1, <4>1, <4>4, <4>i
    <3> QED  BY <3>3, <3>4
  <2>2. CASE i \in L + 1 .. L + n
    <3>1. q[i] = p /\ f[i] = (o - 1) + (i - L)
      BY Zenon, <1>5, <2>2
    <3>2. (o - 1) + (j - L) <= S
      BY <1>9, <1>t, <2>2, <3>1
    <3>3. j \in L + 1 .. (L + n) + 1
      BY <1>9, <2>2
    <3>4. q[j] = p /\ f[j] = (o - 1) + (j - L)
      BY Zenon, <1>e, <3>2, <3>3
    <3> QED  BY <2>2, <3>1, <3>4
  <2> QED  BY <2>1, <2>2
<1>10. Laid(v, acc, d, p2, o2, q, f)
  BY Zenon, <1>3, <1>5, <1>7, <1>8, <1>9, <1>q DEF Laid
<1> QED
  <2>1. Stream(v, acc, d, p2, o2)
    BY Zenon, <1>3, <1>4, <1>10, <1>a DEF Stream
  <2> QED  BY Zenon, <2>1, <1>p, <1>w, <1>x, <1>y

\* The reader has handled the first message: what follows it is laid out from
\* the next message on.
LEMMA StreamRead ==
    ASSUME NEW u, NEW acc, NEW d, NEW p, NEW o, Stream(u, acc, d, p, o),
           NEW k \in 1 .. Len(u), k = Size(acc[d + 1])
    PROVE  Stream(SubSeq(u, k + 1, Len(u)), acc, d + 1, p, o)
<1>1. PICK pos, off : Laid(u, acc, d, p, o, pos, off)
  BY Zenon DEF Stream
<1>a. u \in Seq(Msg \X Nat) /\ acc \in Seq(Msg) /\ d \in Nat /\ p \in Nat /\ o \in Nat
  BY Zenon DEF Stream
<1>q. PICK L \in Nat : L = Len(u)
  BY Zenon, <1>a, LenProperties
<1>2. pos[1] = d + 1 /\ off[1] = 1 /\ 1 \in 1 .. L /\ k \in 1 .. L + 1 /\ 1 <= k /\ 1 + (k - 1) = k
  <2>1. pos[1] = d + 1 /\ off[1] = 1
    BY Zenon, <1>1 DEF Laid
  <2> QED  BY <1>q, <2>1
<1>3. pos[k] = d + 1 /\ off[k] = k
  <2>1. off[1] + (k - 1) = k /\ off[1] + (k - 1) <= Size(acc[pos[1]])
    BY <1>2
  <2>2. pos[k] = pos[1] /\ off[k] = off[1] + (k - 1)
    BY Zenon, <1>1, <1>2, <1>q, <2>1 DEF Laid
  <2> QED  BY Zenon, <1>2, <2>1, <2>2
<1>4. pos[k + 1] = (d + 1) + 1 /\ off[k + 1] = 1
  BY Zenon, <1>1, <1>3 DEF Laid
<1>p. PICK v : v = SubSeq(u, k + 1, Len(u))
  BY Zenon
<1>5. /\ v \in Seq(Msg \X Nat) /\ Len(v) = L - k
      /\ \A i \in 1 .. L - k : v[i] = u[i + k]
  <2>1. k + 1 \in Int /\ L \in Int /\ \A i \in k + 1 .. L : i \in 1 .. Len(u)
    BY <1>q
  <2>2. \A i \in k + 1 .. L : u[i] \in Msg \X Nat
    BY Zenon, <1>a, <2>1, ElementOfSeq
  <2>3. /\ v \in Seq(Msg \X Nat)
        /\ Len(v) = IF k + 1 <= L THEN (L - (k + 1)) + 1 ELSE 0
        /\ \A i \in 1 .. (L - (k + 1)) + 1 : v[i] = u[((k + 1) + i) - 1]
    BY SMTT(30), <1>p, <1>q, <2>1, <2>2, SubSeqProperties
  <2>4. \A i \in 1 .. L - k : i \in 1 .. (L - (k + 1)) + 1 /\ ((k + 1) + i) - 1 = i + k
    BY <1>q
  <2>5. (IF k + 1 <= L THEN (L - (k + 1)) + 1 ELSE 0) = L - k
    BY <1>q
  <2> QED  BY Zenon, <2>3, <2>4, <2>5
<1>r. PICK q : q = [i \in 1 .. (L - k) + 1 |-> pos[i + k]]
  BY Zenon
<1>s. PICK f : f = [i \in 1 .. (L - k) + 1 |-> off[i + k]]
  BY Zenon
<1>6. \A i \in 1 .. (L - k) + 1 :
         q[i] = pos[i + k] /\ f[i] = off[i + k] /\ i + k \in 1 .. L + 1
  BY <1>q, <1>r, <1>s
<1>7. q \in [1 .. (L - k) + 1 -> Nat] /\ f \in [1 .. (L - k) + 1 -> Nat]
  <2>1. \A i \in 1 .. L + 1 : pos[i] \in Nat /\ off[i] \in Nat
    BY Zenon, <1>1, <1>q DEF Laid
  <2> QED  BY Zenon, <1>6, <1>r, <1>s, <2>1
<1>8. q[1] = (d + 1) + 1 /\ f[1] = 1 /\ q[(L - k) + 1] = p /\ f[(L - k) + 1] = o
  <2>1. pos[L + 1] = p /\ off[L + 1] = o
    BY Zenon, <1>1, <1>q DEF Laid
  <2>2. 1 \in 1 .. (L - k) + 1 /\ (L - k) + 1 \in 1 .. (L - k) + 1 /\ ((L - k) + 1) + k = L + 1
        /\ 1 + k = k + 1
    BY SMTT(30), <1>q
  <2> QED  BY Zenon, <1>4, <1>6, <2>1, <2>2
<1>9. ASSUME NEW i \in 1 .. L - k
      PROVE  /\ q[i] \in 1 .. Len(acc) /\ f[i] \in 1 .. Size(acc[q[i]])
             /\ v[i] = <<acc[q[i]], f[i]>>
             /\ f[i] = Size(acc[q[i]]) => q[i + 1] = q[i] + 1 /\ f[i + 1] = 1
  <2>1. i + k \in 1 .. L /\ i \in 1 .. (L - k) + 1 /\ i + 1 \in 1 .. (L - k) + 1
        /\ (i + 1) + k = (i + k) + 1
    BY SMTT(30), <1>q
  <2>2. /\ q[i] = pos[i + k] /\ f[i] = off[i + k] /\ v[i] = u[i + k]
        /\ q[i + 1] = pos[(i + k) + 1] /\ f[i + 1] = off[(i + k) + 1]
    BY Zenon, <1>5, <1>6, <2>1
  <2> QED  BY ZenonT(40), <1>1, <1>q, <2>1, <2>2 DEF Laid
<1>10. ASSUME NEW i \in 1 .. L - k, NEW j \in 1 .. (L - k) + 1,
              i <= j, f[i] + (j - i) <= Size(acc[q[i]])
       PROVE  q[j] = q[i] /\ f[j] = f[i] + (j - i)
  <2>1. i + k \in 1 .. L /\ j + k \in 1 .. L + 1 /\ i + k <= j + k /\ (j + k) - (i + k) = j - i
        /\ i \in 1 .. (L - k) + 1
    <3>1. i <= j
      BY Zenon, <1>10
    <3>2. k \in 1 .. L
      BY Zenon, <1>q
    <3> QED  BY SMTT(30), <3>1, <3>2
  <2>2. q[i] = pos[i + k] /\ f[i] = off[i + k] /\ q[j] = pos[j + k] /\ f[j] = off[j + k]
    BY Zenon, <1>6, <2>1
  <2>3. off[i + k] + ((j + k) - (i + k)) <= Size(acc[pos[i + k]])
    BY Zenon, <1>10, <2>1, <2>2
  <2>4. pos[j + k] = pos[i + k] /\ off[j + k] = off[i + k] + ((j + k) - (i + k))
    BY Zenon, <1>1, <1>q, <2>1, <2>3 DEF Laid
  <2> QED  BY Zenon, <2>1, <2>2, <2>4
<1>11. Laid(v, acc, d + 1, p, o, q, f)
  BY Zenon, <1>5, <1>7, <1>8, <1>9, <1>10 DEF Laid
<1> QED
  <2>1. d + 1 \in Nat
    BY <1>a
  <2> QED  BY Zenon, <1>5, <1>11, <1>a, <1>p, <2>1 DEF Stream

-----------------------------------------------------------------------------
(***************************************************************************)
(* The inductive invariant.  Started counts the messages whose writing has *)
(* begun; the queues hold those accepted after them.  The writer's and the *)
(* reader's countdowns agree with the part of the message they are in, and *)
(* the units from the first one the reader holds to the next one to write  *)
(* are a stream of the messages after the last one delivered.              *)
(***************************************************************************)
Started == Len(accepted) - (Len(cur) + Len(pending))
Full == whandle = "InitMsg" \/ (whandle = "MsgBody" /\ wleft = 0)
EndPos == IF Full THEN Started + 1 ELSE Started
EndOff == IF Full THEN 1 ELSE Written + 1

QueueInv ==
    /\ Started >= 0
    /\ \A i \in 1 .. Len(cur) : cur[i] = accepted[Started + i]
    /\ \A i \in 1 .. Len(pending) : pending[i] = accepted[(Started + Len(cur)) + i]
    /\ whandle # "InitMsg" => Started >= 1 /\ wmsg = accepted[Started]
WriteInv ==
    /\ whandle = "MsgHead" => wleft \in 1 .. HeadSize
    /\ whandle = "MsgBody" => Body(wmsg) # NoBody /\ wleft <= Body(wmsg)
ReadInv ==
    /\ rhandle = "MsgHead" => rleft >= 1 /\ Len(rbuf) + rleft = HeadSize
    /\ rhandle = "MsgBody" => /\ Len(rbuf) >= HeadSize /\ Body(ReadMsg(rbuf)) # NoBody
                              /\ Len(rbuf) + rleft = Size(ReadMsg(rbuf))
DeliveredInv ==
    /\ Len(delivered) <= Len(accepted)
    /\ \A i \in 1 .. Len(delivered) : delivered[i] = accepted[i]
StreamInv == Stream(rbuf \o sock, accepted, Len(delivered), EndPos, EndOff)

DataInv == QueueInv /\ WriteInv /\ ReadInv /\ DeliveredInv /\ StreamInv
Inv == TypeOK /\ DataInv /\ NoLostEvent

\* The end of a sequence.
LEMMA EndOfSeq ==
    ASSUME NEW S, NEW u \in Seq(S), NEW y \in 1 .. Len(u) + 1, NEW w, w = SubSeq(u, y, Len(u))
    PROVE  /\ w \in Seq(S) /\ Len(w) = (Len(u) - y) + 1
           /\ \A i \in 1 .. (Len(u) - y) + 1 : w[i] = u[(y + i) - 1]
OBVIOUS

\* A read of n units moves them from the socket s to what the reader holds, a.
Splits(S, a, s, n) ==
    \E b, r :
       /\ b = a \o SubSeq(s, 1, n) /\ r = SubSeq(s, n + 1, Len(s))
       /\ b \in Seq(S) /\ Len(b) = Len(a) + n /\ r \in Seq(S) /\ Len(r) = Len(s) - n
       /\ b \o r = a \o s
       /\ \A i \in 1 .. Len(b) : b[i] = (a \o s)[i]
       /\ r = SubSeq(a \o s, Len(b) + 1, Len(a \o s))

\* What the reader takes from the socket continues what it has read already.
LEMMA ReadSplit ==
    ASSUME NEW S, NEW a, NEW s, a \in Seq(S), s \in Seq(S), NEW n \in 0 .. Len(s)
    PROVE  Splits(S, a, s, n)
<1>a. PICK A \in Nat : A = Len(a)
  BY Zenon, LenProperties
<1>l. PICK L \in Nat : L = Len(s)
  BY Zenon, LenProperties
<1>n. n \in 0 .. L
  BY Zenon, <1>l
<1>e. \A i \in 1 .. L : s[i] \in S
  BY Zenon, <1>l, ElementOfSeq
<1>p. PICK x : x = SubSeq(s, 1, n)
  BY Zenon
<1>b. PICK b : b = a \o x
  BY Zenon
<1>r. PICK r : r = SubSeq(s, n + 1, Len(s))
  BY Zenon
<1>1. x \in Seq(S) /\ Len(x) = n /\ \A i \in 1 .. n : x[i] = s[i]
  <2>1. 1 \in Int /\ n \in Int /\ \A i \in 1 .. n : s[i] \in S
    BY <1>e, <1>n
  <2>2. /\ x \in Seq(S) /\ Len(x) = IF 1 <= n THEN (n - 1) + 1 ELSE 0
        /\ \A i \in 1 .. (n - 1) + 1 : x[i] = s[(1 + i) - 1]
    BY <1>p, <2>1, SubSeqProperties
  <2>3. (IF 1 <= n THEN (n - 1) + 1 ELSE 0) = n /\ (n - 1) + 1 = n
    BY <1>n
  <2>4. \A i \in 1 .. n : (1 + i) - 1 = i
    BY <1>n
  <2> QED  BY Zenon, <2>2, <2>3, <2>4
<1>2. r \in Seq(S) /\ Len(r) = L - n /\ \A i \in 1 .. L - n : r[i] = s[n + i]
  <2>1. n + 1 \in Int /\ L \in Int /\ \A i \in n + 1 .. L : s[i] \in S
    BY <1>e, <1>n
  <2>2. /\ r \in Seq(S) /\ Len(r) = IF n + 1 <= L THEN (L - (n + 1)) + 1 ELSE 0
        /\ \A i \in 1 .. (L - (n + 1)) + 1 : r[i] = s[((n + 1) + i) - 1]
    BY SMTT(30), <1>l, <1>r, <2>1, SubSeqProperties
  <2>3. (IF n + 1 <= L THEN (L - (n + 1)) + 1 ELSE 0) = L - n /\ (L - (n + 1)) + 1 = L - n
    BY <1>n
  <2>4. \A i \in 1 .. L - n : ((n + 1) + i) - 1 = n + i
    BY <1>n
  <2> QED  BY Zenon, <2>2, <2>3, <2>4
<1>3. /\ b \in Seq(S) /\ Len(b) = A + n
      /\ \A i \in 1 .. A + n : b[i] = IF i <= A THEN a[i] ELSE x[i - A]
  BY <1>1, <1>a, <1>b, ConcatProperties
<1>u. PICK u : u = a \o s
  BY Zenon
<1>4. u \in Seq(S) /\ Len(u) = A + L /\ \A i \in 1 .. A + L : u[i] = IF i <= A THEN a[i] ELSE s[i - A]
  BY ZenonT(40), <1>a, <1>l, <1>u, ConcatProperties
<1>5. \A i \in 1 .. A + n : b[i] = u[i]
  <2> SUFFICES ASSUME NEW i \in 1 .. A + n PROVE b[i] = u[i]
    BY Zenon
  <2>1. i \in 1 .. A + L /\ (~(i <= A) => i - A \in 1 .. n)
    BY <1>n
  <2> QED  BY Zenon, <1>1, <1>3, <1>4, <2>1
<1>6. b \o r = u
  <2>v. PICK v : v = b \o r
    BY Zenon
  <2>1. /\ v \in Seq(S) /\ Len(v) = (A + n) + (L - n)
        /\ \A i \in 1 .. (A + n) + (L - n) : v[i] = IF i <= A + n THEN b[i] ELSE r[i - (A + n)]
    <3>1. Len(b) = A + n /\ Len(r) = L - n /\ b \in Seq(S) /\ r \in Seq(S)
      BY Zenon, <1>2, <1>3
    <3>2. /\ v \in Seq(S) /\ Len(v) = Len(b) + Len(r)
          /\ \A i \in 1 .. Len(b) + Len(r) : v[i] = IF i <= Len(b) THEN b[i] ELSE r[i - Len(b)]
      BY Zenon, <2>v, <3>1, ConcatProperties
    <3> QED  BY Zenon, <3>1, <3>2
  <2>2. (A + n) + (L - n) = A + L
    BY <1>n
  <2>3. ASSUME NEW i \in 1 .. A + L
        PROVE  v[i] = u[i]
    <3>1. CASE i <= A + n
      <4>1. i \in 1 .. A + n
        BY <1>n, <3>1
      <4> QED  BY Zenon, <1>5, <2>1, <2>2, <3>1, <4>1
    <3>2. CASE ~(i <= A + n)
      <4>1. i - (A + n) \in 1 .. L - n /\ ~(i <= A) /\ n + (i - (A + n)) = i - A
        BY <1>n, <3>2
      <4> QED  BY Zenon, <1>2, <1>4, <2>1, <2>2, <3>2, <4>1
    <3> QED  BY Zenon, <3>1, <3>2
  <2> QED  BY Zenon, <1>4, <2>1, <2>2, <2>3, <2>v, SeqEqual
<1>7. r = SubSeq(u, (A + n) + 1, A + L)
  <2>w. PICK w : w = SubSeq(u, (A + n) + 1, A + L)
    BY Zenon
  <2>1. PICK y \in 1 .. Len(u) + 1 : y = (A + n) + 1
    <3>1. (A + n) + 1 \in 1 .. (A + L) + 1
      BY <1>n
    <3>2. Len(u) = A + L
      BY Zenon, <1>4
    <3> QED  BY Zenon, <3>1, <3>2
  <2>2. /\ w \in Seq(S) /\ Len(w) = (Len(u) - y) + 1
        /\ \A i \in 1 .. (Len(u) - y) + 1 : w[i] = u[(y + i) - 1]
    <3>1. w = SubSeq(u, y, Len(u)) /\ u \in Seq(S)
      BY Zenon, <1>4, <2>1, <2>w
    <3> QED  BY <3>1, EndOfSeq
  <2>3. (Len(u) - y) + 1 = L - n
    BY <1>4, <1>n, <2>1
  <2>4. ASSUME NEW i \in 1 .. L - n
        PROVE  w[i] = r[i]
    <3>1. (y + i) - 1 = A + (n + i) /\ A + (n + i) \in 1 .. A + L
          /\ ~(A + (n + i) <= A) /\ (A + (n + i)) - A = n + i
      BY <1>n, <2>1
    <3> QED  BY ZenonT(40), <1>2, <1>4, <2>2, <2>3, <3>1
  <2>5. w \in Seq(S) /\ Len(w) = L - n
    BY Zenon, <2>2, <2>3
  <2>6. w = r
    BY Zenon, <1>2, <2>4, <2>5, SeqEqual
  <2> QED  BY Zenon, <2>6, <2>w
<1>8. /\ b \in Seq(S) /\ Len(b) = Len(a) + n /\ r \in Seq(S) /\ Len(r) = Len(s) - n
      /\ b \o r = u /\ (\A i \in 1 .. Len(b) : b[i] = u[i]) /\ r = SubSeq(u, Len(b) + 1, Len(u))
  BY Zenon, <1>2, <1>3, <1>4, <1>5, <1>6, <1>7, <1>a, <1>l
<1>9. b = a \o SubSeq(s, 1, n)
  BY Zenon, <1>b, <1>p
<1> QED  BY Zenon, <1>8, <1>9, <1>r, <1>u DEF Splits

-----------------------------------------------------------------------------
\* The steps that move no message.
dataVars == <<pending, accepted, cur, whandle, wmsg, wleft, sock, rhandle, rbuf, rleft, delivered>>

\* A step that leaves the messages, the socket and the reader alone keeps DataInv.
LEMMA DataFrame == DataInv /\ UNCHANGED dataVars => DataInv'
<1> SUFFICES ASSUME DataInv, UNCHANGED dataVars PROVE DataInv'
  BY Zenon
<1>1. QueueInv'
  BY Zenon DEF DataInv, QueueInv, dataVars, Started
<1>2. WriteInv'
  BY Zenon DEF DataInv, WriteInv, dataVars
<1>3. ReadInv'
  BY Zenon DEF DataInv, ReadInv, dataVars
<1>4. DeliveredInv'
  BY Zenon DEF DataInv, DeliveredInv, dataVars
<1>5. StreamInv'
  <2>1. EndPos' = EndPos /\ EndOff' = EndOff
    BY Zenon DEF dataVars, EndPos, EndOff, Started, Full, Written
  <2>2. StreamInv
    BY Zenon DEF DataInv
  <2> QED  BY Zenon, <2>1, <2>2 DEF StreamInv, dataVars
<1> QED  BY Zenon, <1>1, <1>2, <1>3, <1>4, <1>5 DEF DataInv

\* Messages of a queue, and the message a program sends next.
LEMMA MsgType ==
    ASSUME NEW w \in Writer, NEW k \in Nat, k < Len(Program[w])
    PROVE  <<w, k + 1>> \in Msg
BY ProgramAssumption DEF Msg

\* A message with a body has the size of the header and the body.
LEMMA BodyType ==
    \A m \in Msg : /\ Body(m) \in Nat \cup {NoBody}
                   /\ Body(m) # NoBody => Body(m) \in Nat /\ Size(m) = HeadSize + Body(m)
                   /\ Body(m) = NoBody => Size(m) = HeadSize
BY ProgramAssumption, SizeAssumption DEF Msg, Body, Size

\* AsyncWrite.
LEMMA AsyncWriteStep ==
    ASSUME TypeOK, DataInv, NEW w \in Writer, AsyncWrite(w)
    PROVE  TypeOK' /\ DataInv'
<1>m. PICK m : m = <<w, next[w] + 1>>
  BY Zenon
<1>1. m \in Msg /\ pending' = Append(pending, m) /\ accepted' = Append(accepted, m)
  <2>1. next[w] \in Nat /\ next[w] < Len(Program[w])
    BY Zenon DEF TypeOK, AsyncWrite
  <2> QED  BY Zenon, <1>m, <2>1, MsgType DEF AsyncWrite
<1>t. pending \in Seq(Msg) /\ accepted \in Seq(Msg) /\ cur \in Seq(Msg) /\ delivered \in Seq(Msg)
  BY Zenon DEF TypeOK
<1>u. UNCHANGED <<cur, whandle, wmsg, wleft, sock, rhandle, rbuf, rleft, delivered>>
  BY Zenon DEF AsyncWrite, writeVars, readVars
<1>2. TypeOK'
  <2>1. next' \in [Writer -> Nat] /\ wpc' \in [Writer -> {"idle", "event"}]
    BY SMTT(30) DEF TypeOK, AsyncWrite
  <2>2. pending' \in Seq(Msg) /\ accepted' \in Seq(Msg)
    BY Zenon, <1>1, <1>t, AppendProperties
  <2> QED  BY ZenonT(40), <1>u, <2>1, <2>2 DEF TypeOK, AsyncWrite, pollVars, readVars
<1>3. PICK A \in Nat : A = Len(accepted)
  BY Zenon, <1>t, LenProperties
<1>4. PICK P \in Nat : P = Len(pending)
  BY Zenon, <1>t, LenProperties
<1>5. PICK C \in Nat : C = Len(cur)
  BY Zenon, <1>t, LenProperties
<1>6. /\ Len(accepted') = A + 1 /\ accepted'[A + 1] = m /\ \A i \in 1 .. A : accepted'[i] = accepted[i]
      /\ Len(pending') = P + 1 /\ pending'[P + 1] = m /\ \A i \in 1 .. P : pending'[i] = pending[i]
  BY <1>1, <1>t, <1>3, <1>4, AppendProperties
<1>7. Started = A - (C + P) /\ Started' = Started /\ Started >= 0 /\ Started \in Nat
  <2>1. Started = A - (C + P) /\ Started' = (A + 1) - (C + (P + 1)) /\ Started >= 0
    BY Zenon, <1>3, <1>4, <1>5, <1>6, <1>u DEF Started, DataInv, QueueInv
  <2> QED  BY <2>1
<1>8. QueueInv'
  <2>1. \A i \in 1 .. C : cur[i] = accepted[Started + i]
    BY Zenon, <1>5 DEF DataInv, QueueInv
  <2>2. \A i \in 1 .. P : pending[i] = accepted[(Started + C) + i]
    BY Zenon, <1>4, <1>5 DEF DataInv, QueueInv
  <2>3. \A i \in 1 .. C : Started + i \in 1 .. A
    BY <1>7
  <2>4. /\ \A i \in 1 .. P : (Started + C) + i \in 1 .. A
        /\ (Started + C) + (P + 1) = A + 1
        /\ \A i \in 1 .. P + 1 : i = P + 1 \/ i \in 1 .. P
    BY <1>7
  <2>5. \A i \in 1 .. C : cur[i] = accepted'[Started + i]
    BY Zenon, <1>6, <2>1, <2>3
  <2>6. \A i \in 1 .. P + 1 : pending'[i] = accepted'[(Started + C) + i]
    BY Zenon, <1>6, <2>2, <2>4
  <2>7. whandle # "InitMsg" => Started >= 1 /\ wmsg = accepted'[Started]
    <3>1. whandle # "InitMsg" => Started >= 1 /\ wmsg = accepted[Started]
      BY Zenon DEF DataInv, QueueInv
    <3>2. Started >= 1 => Started \in 1 .. A
      BY <1>7
    <3> QED  BY Zenon, <1>6, <3>1, <3>2
  <2> QED  BY Zenon, <1>5, <1>6, <1>7, <1>u, <2>5, <2>6, <2>7 DEF QueueInv
<1>9. WriteInv' /\ ReadInv'
  BY Zenon, <1>u DEF DataInv, WriteInv, ReadInv
<1>10. DeliveredInv'
  <2>1. PICK D \in Nat : D = Len(delivered)
    BY Zenon, <1>t, LenProperties
  <2>2. D <= A /\ \A i \in 1 .. D : delivered[i] = accepted[i]
    BY Zenon, <1>3, <2>1 DEF DataInv, DeliveredInv
  <2>3. D <= A + 1 /\ \A i \in 1 .. D : i \in 1 .. A
    BY <2>2
  <2> QED  BY Zenon, <1>6, <1>u, <2>1, <2>2, <2>3 DEF DeliveredInv
<1>11. StreamInv'
  <2>1. EndPos' = EndPos /\ EndOff' = EndOff
    BY Zenon, <1>7, <1>u DEF EndPos, EndOff, Full, Written
  <2>2. Stream(rbuf \o sock, Append(accepted, m), Len(delivered), EndPos, EndOff)
    BY Zenon, <1>1, StreamAccept DEF DataInv, StreamInv
  <2> QED  BY Zenon, <1>1, <1>u, <2>1, <2>2 DEF StreamInv
<1> QED  BY Zenon, <1>2, <1>8, <1>9, <1>10, <1>11 DEF DataInv

\* The first message of a queue that is not empty.
LEMMA QueueHead ==
    ASSUME NEW q \in Seq(Msg), q # <<>>
    PROVE  /\ Len(q) \in Nat \ {0} /\ Head(q) = q[1] /\ Head(q) \in Msg
           /\ Tail(q) \in Seq(Msg) /\ Len(Tail(q)) = Len(q) - 1
           /\ \A i \in 1 .. Len(q) - 1 : Tail(q)[i] = q[i + 1]
BY HeadTailProperties, LenProperties, EmptySeq

\* InitMsgWriteHandle takes the next message of the two queues.
LEMMA InitMsgWriteHandleStep ==
    ASSUME TypeOK, DataInv, InitMsgWriteHandle
    PROVE  TypeOK' /\ DataInv'
<1>t. pending \in Seq(Msg) /\ accepted \in Seq(Msg) /\ cur \in Seq(Msg)
  BY Zenon DEF TypeOK
<1>u. UNCHANGED <<accepted, sock, rhandle, rbuf, rleft, delivered>> /\ whandle = "InitMsg"
  BY Zenon DEF InitMsgWriteHandle, readVars
<1>f. /\ ppc' \in {"wait", "handle", "write"}
      /\ UNCHANGED <<next, wpc, eventCnt, edge, batch, nospace, rpc, closed>>
  BY Zenon DEF TypeOK, InitMsgWriteHandle, NextEvent, readVars
<1>1. CASE cur = <<>> /\ pending = <<>>
  <2>1. UNCHANGED dataVars
    BY Zenon, <1>1, <1>u DEF InitMsgWriteHandle, writeVars, dataVars
  <2>2. TypeOK'
    BY Zenon, <1>f, <2>1 DEF TypeOK, dataVars
  <2> QED  BY Zenon, <2>1, <2>2, DataFrame
<1>2. CASE cur # <<>> \/ pending # <<>>
  <2>q. PICK q : q = IF cur = <<>> THEN pending ELSE cur
    BY Zenon
  <2>1. /\ q \in Seq(Msg) /\ q # <<>>
        /\ pending' = (IF cur = <<>> THEN <<>> ELSE pending)
        /\ wmsg' = Head(q) /\ cur' = Tail(q) /\ wleft' = HeadSize /\ whandle' = "MsgHead"
    BY Zenon, <1>2, <1>t, <2>q DEF InitMsgWriteHandle
  <2>2. /\ Len(q) \in Nat \ {0} /\ Head(q) = q[1] /\ Head(q) \in Msg
        /\ Tail(q) \in Seq(Msg) /\ Len(Tail(q)) = Len(q) - 1
        /\ \A i \in 1 .. Len(q) - 1 : Tail(q)[i] = q[i + 1]
    BY Zenon, <2>1, QueueHead
  <2>3. PICK Q \in Nat \ {0} : Q = Len(q)
    BY Zenon, <2>2
  <2>4. PICK A \in Nat : A = Len(accepted)
    BY Zenon, <1>t, LenProperties
  \* what is left behind the queue it takes from
  <2>5. PICK R \in Nat : Started = A - (Q + R) /\ R = Len(pending')
                         /\ \A i \in 1 .. R : pending'[i] = accepted[(Started + Q) + i]
    <3>1. CASE cur = <<>>
      <4>1. Len(cur) = 0 /\ Len(pending') = 0 /\ Len(pending) = Q
        BY Zenon, <2>1, <2>3, <2>q, <3>1, EmptySeq
      <4>2. Started = A - (Q + 0)
        BY <2>3, <2>4, <4>1 DEF Started
      <4>3. \A i \in 1 .. 0 : pending'[i] = accepted[(Started + Q) + i]
        OBVIOUS
      <4> QED  BY Zenon, <4>1, <4>2, <4>3
    <3>2. CASE cur # <<>>
      <4>1. q = cur /\ pending' = pending
        BY Zenon, <2>1, <2>q, <3>2
      <4>2. Len(pending) \in Nat
        BY Zenon, <1>t, LenProperties
      <4>3. Started = A - (Q + Len(pending))
        BY Zenon, <2>3, <2>4, <4>1 DEF Started
      <4>4. \A i \in 1 .. Len(pending) : pending[i] = accepted[(Started + Q) + i]
        BY Zenon, <2>3, <4>1 DEF DataInv, QueueInv
      <4> QED  BY Zenon, <4>1, <4>2, <4>3, <4>4
    <3> QED  BY Zenon, <3>1, <3>2
  <2>6. \A i \in 1 .. Q : q[i] = accepted[Started + i]
    <3>1. CASE cur = <<>>
      <4>1. q = pending /\ Len(cur) = 0
        BY Zenon, <2>q, <3>1, EmptySeq
      <4>2. \A i \in 1 .. Q : pending[i] = accepted[(Started + 0) + i]
        BY Zenon, <2>3, <4>1 DEF DataInv, QueueInv
      <4>3. Started + 0 = Started
        BY <2>5
      <4> QED  BY Zenon, <4>1, <4>2, <4>3
    <3>2. CASE cur # <<>>
      BY Zenon, <2>3, <2>q, <3>2 DEF DataInv, QueueInv
    <3> QED  BY Zenon, <3>1, <3>2
  <2>7. Started' = Started + 1 /\ Started \in Nat
    <3>1. Len(cur') = Q - 1
      BY Zenon, <2>1, <2>2, <2>3
    <3>2. Started' = A - ((Q - 1) + R)
      BY Zenon, <1>u, <2>4, <2>5, <3>1 DEF Started
    <3>3. Started >= 0
      BY Zenon DEF DataInv, QueueInv
    <3> QED  BY <2>5, <3>2, <3>3
  <2>8. QueueInv'
    <3>1. wmsg' = accepted[Started + 1]
      BY <2>1, <2>2, <2>3, <2>6
    <3>2. \A i \in 1 .. Q - 1 : cur'[i] = accepted[(Started + 1) + i]
      <4>1. \A i \in 1 .. Q - 1 : i + 1 \in 1 .. Q /\ Started + (i + 1) = (Started + 1) + i
        BY <2>7
      <4> QED  BY <2>1, <2>2, <2>3, <2>6, <4>1
    <3>3. Len(cur') = Q - 1
      BY Zenon, <2>1, <2>2, <2>3
    <3>4. (Started + 1) + (Q - 1) = Started + Q /\ Started + 1 >= 0 /\ Started + 1 >= 1
      BY <2>7
    <3>5. \A i \in 1 .. Len(cur') : cur'[i] = accepted'[Started' + i]
      BY Zenon, <1>u, <2>7, <3>2, <3>3
    <3>6. \A i \in 1 .. Len(pending') : pending'[i] = accepted'[(Started' + Len(cur')) + i]
      BY ZenonT(40), <1>u, <2>5, <2>7, <3>3, <3>4
    <3>7. Started' >= 0 /\ Started' >= 1 /\ wmsg' = accepted'[Started']
      BY Zenon, <1>u, <2>7, <3>1, <3>4
    <3> QED  BY Zenon, <3>5, <3>6, <3>7 DEF QueueInv
  <2>9. WriteInv' /\ ReadInv' /\ DeliveredInv'
    <3>1. HeadSize \in 1 .. HeadSize
      BY SizeAssumption
    <3>2. WriteInv'
      BY Zenon, <2>1, <3>1 DEF WriteInv
    <3>3. ReadInv' /\ DeliveredInv'
      BY Zenon, <1>u DEF DataInv, ReadInv, DeliveredInv
    <3> QED  BY Zenon, <3>2, <3>3
  <2>10. StreamInv'
    <3>1. EndPos = Started + 1 /\ EndOff = 1
      BY Zenon, <1>u DEF EndPos, EndOff, Full
    <3>2. Written' = 0
      BY <2>1, SizeAssumption DEF Written
    <3>3. EndPos' = Started + 1 /\ EndOff' = 1
      BY <2>1, <2>7, <3>2 DEF EndPos, EndOff, Full
    <3>4. StreamInv
      BY Zenon DEF DataInv
    <3> QED  BY Zenon, <1>u, <3>1, <3>3, <3>4 DEF StreamInv
  <2>11. TypeOK'
    <3>1. wmsg' \in Msg /\ cur' \in Seq(Msg) /\ pending' \in Seq(Msg) /\ wleft' \in Nat
      BY Zenon, <1>t, <2>1, <2>2, EmptySeq, SizeAssumption
    <3>2. wmsg' \in Msg \cup {<<>>} /\ whandle' \in {"InitMsg", "MsgHead", "MsgBody"}
      BY Zenon, <2>1, <3>1
    <3> QED  BY Zenon, <1>f, <1>u, <3>1, <3>2 DEF TypeOK
  <2> QED  BY Zenon, <2>8, <2>9, <2>10, <2>11 DEF DataInv
<1> QED  BY Zenon, <1>1, <1>2

\* DoCurWrite of n units that the kernel takes.
LEMMA DoCurWriteStep ==
    ASSUME TypeOK, DataInv, NEW n \in 0 .. Capacity, DoCurWrite(n)
    PROVE  TypeOK' /\ DataInv'
<1>n. n \in Nat /\ wleft \in Nat /\ n <= wleft /\ (n = 0 => wleft = 0) /\ HeadSize \in Nat \ {0}
  BY SizeAssumption DEF TypeOK, DoCurWrite
<1>u. UNCHANGED <<pending, accepted, cur, wmsg, rhandle, rbuf, rleft, delivered>>
  BY Zenon DEF DoCurWrite, writerVars, readVars
<1>t. accepted \in Seq(Msg) /\ rbuf \in Seq(Msg \X Nat) /\ sock \in Seq(Msg \X Nat)
  BY Zenon DEF TypeOK
<1>p. PICK p : p = Started
  BY Zenon
<1>1. /\ p \in 1 .. Len(accepted) /\ wmsg = accepted[p] /\ wmsg \in Msg /\ Len(accepted) \in Nat
      /\ Started' = p
  <2>1. Started >= 1 /\ wmsg = accepted[Started]
    BY Zenon DEF DoCurWrite, DataInv, QueueInv
  <2>2. Len(accepted) \in Nat /\ Len(cur) \in Nat /\ Len(pending) \in Nat
    BY Zenon, LenProperties DEF TypeOK
  <2>3. Started \in 1 .. Len(accepted)
    BY <2>1, <2>2 DEF Started
  <2>4. Started' = Started
    BY Zenon, <1>u DEF Started
  <2> QED  BY Zenon, <1>p, <1>t, <2>1, <2>2, <2>3, <2>4, ElementOfSeq
<1>s. PICK S \in Nat : S = Size(wmsg) /\ S >= HeadSize
  BY Zenon, <1>1, SizeType
<1>b. /\ Body(wmsg) \in Nat \cup {NoBody} /\ NoBody \notin Nat
      /\ Body(wmsg) # NoBody => Body(wmsg) \in Nat /\ S = HeadSize + Body(wmsg)
      /\ Body(wmsg) = NoBody => S = HeadSize
  BY Zenon, <1>1, <1>s, BodyType, ProgramAssumption
<1>h. /\ whandle \in {"MsgHead", "MsgBody"}
      /\ whandle = "MsgHead" => wleft \in 1 .. HeadSize
      /\ whandle = "MsgBody" => Body(wmsg) # NoBody /\ wleft <= Body(wmsg)
  BY Zenon DEF TypeOK, DoCurWrite, DataInv, WriteInv
<1>w. PICK W \in Nat : W = Written /\ W + n <= S /\ (whandle = "MsgHead" => W + wleft = HeadSize)
                       /\ (whandle = "MsgBody" => W + wleft = S)
  <2>1. CASE whandle = "MsgHead"
    BY <1>h, <1>n, <1>s, <2>1 DEF Written
  <2>2. CASE whandle = "MsgBody"
    BY <1>b, <1>h, <1>n, <1>s, <2>2 DEF Written
  <2> QED  BY Zenon, <1>h, <2>1, <2>2
\* the countdown, and where the next unit is
<1>2. /\ whandle' \in {"InitMsg", "MsgHead", "MsgBody"} /\ wleft' \in Nat
      /\ whandle' = "MsgHead" => wleft' \in 1 .. HeadSize
      /\ whandle' = "MsgBody" => Body(wmsg) # NoBody /\ wleft' <= Body(wmsg)
      /\ EndPos' = (IF W + n = S THEN p + 1 ELSE p)
      /\ EndOff' = (IF W + n = S THEN 1 ELSE (W + 1) + n)
  <2>e. EndPos' = (IF Full' THEN p + 1 ELSE p) /\ EndOff' = (IF Full' THEN 1 ELSE Written' + 1)
    BY Zenon, <1>1 DEF EndPos, EndOff
  <2>w. Written' = (IF whandle' = "MsgHead" THEN HeadSize ELSE S) - wleft'
    <3>1. Size(wmsg)' = Size(wmsg)
      BY Zenon, <1>u DEF Size, Body
    <3> QED  BY Zenon, <1>s, <3>1 DEF Written
  <2>1. CASE n # wleft
    <3>1. whandle' = whandle /\ wleft' = wleft - n /\ wleft - n \in Nat \ {0}
      BY <1>n, <2>1 DEF DoCurWrite
    <3>2. W + n # S
      BY <1>h, <1>n, <1>s, <1>w, <2>1
    <3>3. ~Full' /\ Written' = W + n
      BY <1>h, <1>n, <1>s, <1>w, <2>w, <3>1 DEF Full
    <3>4. (W + n) + 1 = (W + 1) + n
      BY <1>n
    <3>5. /\ whandle = "MsgHead" => wleft - n \in 1 .. HeadSize
          /\ whandle = "MsgBody" => Body(wmsg) # NoBody /\ wleft - n <= Body(wmsg)
      BY <1>b, <1>h, <1>n, <3>1
    <3> QED  BY Zenon, <1>h, <2>e, <3>1, <3>2, <3>3, <3>4, <3>5
  <2>2. CASE n = wleft /\ whandle = "MsgHead" /\ Body(wmsg) # NoBody
    <3>1. whandle' = "MsgBody" /\ wleft' = Body(wmsg) /\ Body(wmsg) \in Nat
      BY Zenon, <1>b, <2>2 DEF DoCurWrite, WriteDone
    <3>2. W + n = HeadSize /\ S = HeadSize + Body(wmsg)
      BY Zenon, <1>b, <1>w, <2>2
    <3>3. Full' <=> Body(wmsg) = 0
      BY Zenon, <3>1 DEF Full
    <3>4. Written' = HeadSize
      BY <1>n, <2>w, <3>1, <3>2
    <3>5. Body(wmsg) = 0 <=> W + n = S
      BY <1>n, <3>1, <3>2
    <3>6. Written' + 1 = (W + 1) + n
      BY <1>n, <3>2, <3>4
    <3> QED  BY <2>2, <2>e, <3>1, <3>3, <3>5, <3>6
  <2>3. CASE n = wleft /\ ~(whandle = "MsgHead" /\ Body(wmsg) # NoBody)
    <3>1. whandle' = "InitMsg" /\ wleft' = 0
      BY Zenon, <2>3 DEF DoCurWrite, WriteDone
    <3>2. W + n = S
      BY Zenon, <1>b, <1>h, <1>w, <2>3
    <3> QED  BY Zenon, <2>e, <3>1, <3>2 DEF Full
  <2> QED  BY Zenon, <2>1, <2>2, <2>3
<1>x. PICK x : x = [i \in 1 .. n |-> <<wmsg, W + i>>]
  BY Zenon
<1>3. sock' = sock \o x /\ x \in Seq(Msg \X Nat) /\ Len(x) = n
  <2>1. \A i \in 1 .. n : <<wmsg, W + i>> \in Msg \X Nat
    BY <1>1, <1>n
  <2>2. x \in Seq(Msg \X Nat) /\ Len(x) = n
    BY <1>n, <1>x, <2>1, LenProperties
  <2> QED  BY Zenon, <1>w, <1>x, <2>2 DEF DoCurWrite
<1>4. TypeOK'
  <2>1. sock' \in Seq(Msg \X Nat) /\ Len(sock') = Len(sock) + n /\ Len(sock) \in Nat
    BY Zenon, <1>3, <1>t, ConcatProperties, LenProperties
  <2>2. Len(sock') <= Capacity
    <3>1. n <= Capacity - Len(sock)
      BY Zenon DEF DoCurWrite
    <3> QED  BY <1>n, <2>1, <3>1, SizeAssumption
  <2>3. edge' \subseteq {"event", "EPOLLIN", "EPOLLOUT"}
    BY Zenon DEF TypeOK, DoCurWrite
  <2> QED  BY Zenon, <1>2, <1>u, <2>1, <2>2, <2>3 DEF TypeOK, DoCurWrite, writerVars, pollVars, readVars
<1>5. QueueInv' /\ WriteInv' /\ ReadInv' /\ DeliveredInv'
  <2>1. WriteInv'
    <3>1. Body(wmsg)' = Body(wmsg)
      BY Zenon, <1>u DEF Body
    <3> QED  BY Zenon, <1>2, <3>1 DEF WriteInv
  <2>2. ReadInv' /\ DeliveredInv'
    BY <1>u DEF DataInv, ReadInv, DeliveredInv
  <2>3. QueueInv'
    <3>1. Started' = Started /\ Started >= 1 /\ wmsg = accepted[Started]
      BY <1>1, <1>n, <1>p
    <3> QED  BY Zenon, <1>u, <3>1 DEF DataInv, QueueInv
  <2> QED  BY Zenon, <2>1, <2>2, <2>3
<1>6. StreamInv'
  <2>r. rbuf \o sock' = (rbuf \o sock) \o x
    <3>1. (rbuf \o sock) \o x = rbuf \o (sock \o x)
      <4>t. PICK T : T = Msg \X Nat
        BY Zenon
      <4>1. x \in Seq(T) /\ sock \in Seq(T) /\ rbuf \in Seq(T)
        BY Zenon, <1>3, <1>t, <4>t
      <4> QED  BY SMTT(30), <4>1, ConcatAssociative
    <3> QED  BY Zenon, <1>3, <3>1
  <2>1. CASE n = 0
    <3>1. whandle = "MsgBody" /\ wleft = 0
      BY <1>h, <1>n, <2>1
    <3>2. EndPos = p + 1 /\ EndOff = 1
      BY Zenon, <1>p, <3>1 DEF EndPos, EndOff, Full
    <3>3. EndPos' = p + 1 /\ EndOff' = 1
      BY Zenon, <1>2, <1>w, <2>1, <3>1
    <3>4. sock' = sock
      <4>1. x = <<>>
        BY Zenon, <1>3, <2>1, EmptySeq
      <4> QED  BY Zenon, <1>3, <1>t, <4>1, ConcatEmptySeq
    <3> QED  BY Zenon, <1>u, <3>2, <3>3, <3>4 DEF DataInv, StreamInv
  <2>2. CASE n # 0
    <3>n. n \in Nat \ {0} /\ wleft # 0
      BY <1>n, <2>2
    <3>1. EndPos = p /\ EndOff = W + 1
      BY Zenon, <1>h, <1>p, <1>w, <3>n DEF EndPos, EndOff, Full
    <3>2. PICK o \in Nat \ {0} : o = W + 1
      OBVIOUS
    <3>3. Stream(rbuf \o sock, accepted, Len(delivered), p, o)
      BY Zenon, <3>1, <3>2 DEF DataInv, StreamInv
    <3>4. (o - 1) = W
      BY <3>2
    <3>5. Stream((rbuf \o sock) \o [i \in 1 .. n |-> <<accepted[p], (o - 1) + i>>], accepted, Len(delivered),
                 IF (o - 1) + n = S THEN p + 1 ELSE p, IF (o - 1) + n = S THEN 1 ELSE o + n)
      <4>1. (o - 1) + n <= S /\ S = Size(accepted[p])
        BY Zenon, <1>1, <1>s, <1>w, <3>4
      <4> QED  BY Zenon, <1>1, <3>3, <3>n, <4>1, StreamWrite
    <3>6. Stream((rbuf \o sock) \o x, accepted, Len(delivered), EndPos', EndOff')
      BY Zenon, <1>1, <1>2, <1>x, <3>2, <3>4, <3>5
    <3> QED  BY Zenon, <1>u, <2>r, <3>6 DEF StreamInv
  <2> QED  BY Zenon, <2>1, <2>2
<1> QED  BY Zenon, <1>4, <1>5, <1>6 DEF DataInv

\* DoCurRead of n units that have arrived.
LEMMA DoCurReadStep ==
    ASSUME TypeOK, DataInv, NEW n \in 0 .. Capacity, DoCurRead(n)
    PROVE  TypeOK' /\ DataInv'
<1>n. n \in Nat /\ rleft \in Nat /\ n <= rleft /\ (n = 0 => rleft = 0) /\ HeadSize \in Nat \ {0}
  BY SizeAssumption DEF TypeOK, DoCurRead
<1>u. UNCHANGED <<pending, accepted, cur, whandle, wmsg, wleft>>
  BY Zenon DEF DoCurRead, writerVars, writeVars
<1>t. /\ accepted \in Seq(Msg) /\ rbuf \in Seq(Msg \X Nat) /\ sock \in Seq(Msg \X Nat)
      /\ delivered \in Seq(Msg)
  BY Zenon DEF TypeOK
<1>d. PICK D \in Nat : D = Len(delivered)
  BY Zenon, <1>t, LenProperties
<1>l. n \in 0 .. Len(sock)
  <2>1. Len(sock) \in Nat /\ n <= Len(sock)
    BY Zenon, <1>t, LenProperties DEF DoCurRead
  <2> QED  BY <1>n, <2>1
<1>b. PICK b : b = rbuf \o SubSeq(sock, 1, n)
  BY Zenon
<1>v. PICK u : u = rbuf \o sock
  BY Zenon
<1>1. /\ b \in Seq(Msg \X Nat) /\ Len(b) = Len(rbuf) + n
      /\ sock' \in Seq(Msg \X Nat) /\ Len(sock') = Len(sock) - n
      /\ b \o sock' = u /\ (\A i \in 1 .. Len(b) : b[i] = u[i]) /\ sock' = SubSeq(u, Len(b) + 1, Len(u))
  <2>1. sock' = SubSeq(sock, n + 1, Len(sock))
    BY Zenon DEF DoCurRead
  <2>t. PICK T : T = Msg \X Nat
    BY Zenon
  <2>2. rbuf \in Seq(T) /\ sock \in Seq(T)
    BY Zenon, <1>t, <2>t
  <2>3. PICK c, r :
        /\ c = rbuf \o SubSeq(sock, 1, n) /\ r = SubSeq(sock, n + 1, Len(sock))
        /\ c \in Seq(T) /\ Len(c) = Len(rbuf) + n /\ r \in Seq(T) /\ Len(r) = Len(sock) - n
        /\ c \o r = rbuf \o sock
        /\ \A i \in 1 .. Len(c) : c[i] = (rbuf \o sock)[i]
        /\ r = SubSeq(rbuf \o sock, Len(c) + 1, Len(rbuf \o sock))
    <3>1. Splits(T, rbuf, sock, n)
      BY Zenon, <1>l, <2>2, ReadSplit
    <3> QED  BY Zenon, <3>1 DEF Splits
  <2>4. c = b /\ r = sock'
    BY Zenon, <1>b, <2>1, <2>3
  <2> QED  BY Zenon, <1>v, <2>3, <2>4, <2>t
<1>2. u \in Seq(Msg \X Nat) /\ Len(u) = Len(rbuf) + Len(sock)
  BY Zenon, <1>t, <1>v, ConcatProperties
<1>3. Stream(u, accepted, D, EndPos, EndOff)
  BY Zenon, <1>d, <1>v DEF DataInv, StreamInv
<1>4. PICK R \in Nat : R = Len(rbuf)
  BY Zenon, <1>t, LenProperties
<1>5. Len(b) = R + n /\ R + n <= Len(u) /\ Len(u) \in Nat
  <2>1. PICK K \in Nat : K = Len(sock)
    BY Zenon, <1>t, LenProperties
  <2>2. n <= K
    BY <1>l, <2>1
  <2> QED  BY <1>1, <1>2, <1>4, <1>n, <2>1, <2>2
\* the message that is being read
<1>6. ASSUME R + n > 0
      PROVE  /\ D + 1 \in 1 .. Len(accepted) /\ ReadMsg(b) = accepted[D + 1] /\ ReadMsg(b) \in Msg
             /\ R > 0 => ReadMsg(rbuf) = ReadMsg(b)
  <2>1. Len(u) > 0
    BY <1>5, <1>6, <1>n
  <2>2. D + 1 \in 1 .. Len(accepted) /\ u[1] = <<accepted[D + 1], 1>>
    BY <1>3, <2>1, StreamFirst
  <2>3. 1 \in 1 .. Len(b)
    BY <1>5, <1>6, <1>n
  <2>4. b[1] = u[1]
    BY Zenon, <1>1, <2>3
  <2>5. R > 0 => rbuf[1] = u[1]
    <3>1. R > 0 => 1 \in 1 .. Len(rbuf) + Len(sock) /\ 1 <= Len(rbuf)
      BY SMTT(30), <1>2, <1>4, <1>5, <1>n
    <3> QED  BY Zenon, <1>t, <1>v, <3>1, ConcatProperties
  <2> QED  BY <1>t, <2>2, <2>4, <2>5, ElementOfSeq DEF ReadMsg
<1>h. /\ rhandle \in {"MsgHead", "MsgBody"}
      /\ rhandle = "MsgHead" => rleft >= 1 /\ R + rleft = HeadSize
      /\ rhandle = "MsgBody" => /\ R >= HeadSize /\ Body(ReadMsg(rbuf)) # NoBody
                                /\ R + rleft = Size(ReadMsg(rbuf))
  BY Zenon, <1>4 DEF TypeOK, DataInv, ReadInv
<1>7. R + n > 0
  BY <1>h, <1>n
<1>m. PICK m \in Msg : m = ReadMsg(b) /\ m = accepted[D + 1] /\ D + 1 \in 1 .. Len(accepted)
                       /\ (R > 0 => ReadMsg(rbuf) = m)
  BY Zenon, <1>6, <1>7
<1>s. /\ Size(m) \in Nat /\ Size(m) >= HeadSize
      /\ Body(m) # NoBody => Body(m) \in Nat /\ Size(m) = HeadSize + Body(m)
      /\ Body(m) = NoBody => Size(m) = HeadSize
  BY Zenon, BodyType, SizeType
<1>f. /\ UNCHANGED <<next, wpc, eventCnt, ppc, batch, rpc, closed>>
      /\ nospace' \in BOOLEAN /\ edge' \subseteq {"event", "EPOLLIN", "EPOLLOUT"}
      /\ Len(sock') <= Capacity
  <2>1. Len(sock) \in Nat /\ Len(sock) <= Capacity
    BY <1>t, LenProperties DEF TypeOK
  <2>2. Len(sock') <= Capacity
    BY <1>1, <1>n, <2>1, SizeAssumption
  <2> QED  BY Zenon, <2>2 DEF TypeOK, DoCurRead, writerVars, pollVars
<1>e. EndPos' = EndPos /\ EndOff' = EndOff
  BY Zenon, <1>u DEF EndPos, EndOff, Full, Written, Started
<1>q. QueueInv' /\ WriteInv'
  BY Zenon, <1>u DEF DataInv, QueueInv, WriteInv, Started
\* the message is not complete
<1>8. CASE /\ rbuf' = b /\ delivered' = delivered
           /\ \/ n # rleft /\ rleft' = rleft - n /\ rhandle' = rhandle
              \/ n = rleft /\ rhandle = "MsgHead" /\ Body(m) # NoBody
                 /\ rhandle' = "MsgBody" /\ rleft' = Body(m)
  <2>1. ReadInv' /\ rleft' \in Nat /\ rhandle' \in {"MsgHead", "MsgBody"}
    <3>0. Len(rbuf') = R + n /\ ReadMsg(rbuf') = m
      BY Zenon, <1>5, <1>8, <1>m DEF ReadMsg
    <3>1. CASE n # rleft /\ rleft' = rleft - n /\ rhandle' = rhandle
      <4>1. rleft - n \in Nat \ {0} /\ (R + n) + (rleft - n) = R + rleft
        BY <1>n, <3>1
      <4>2. rhandle = "MsgBody" => ReadMsg(rbuf) = m /\ R + n >= HeadSize
        BY <1>h, <1>m, <1>n
      <4>3. rhandle = "MsgHead" => rleft - n >= 1
        BY <4>1
      <4> QED  BY Zenon, <1>h, <3>0, <3>1, <4>1, <4>2, <4>3 DEF ReadInv
    <3>2. CASE n = rleft /\ rhandle = "MsgHead" /\ Body(m) # NoBody /\ rhandle' = "MsgBody" /\ rleft' = Body(m)
      <4>1. R + n = HeadSize /\ Body(m) \in Nat /\ Size(m) = HeadSize + Body(m) /\ HeadSize >= HeadSize
        BY <1>h, <1>n, <1>s, <3>2
      <4> QED  BY Zenon, <3>0, <3>2, <4>1 DEF ReadInv
    <3> QED  BY Zenon, <1>8, <3>1, <3>2
  <2>2. DeliveredInv'
    BY <1>8, <1>u DEF DataInv, DeliveredInv
  <2>3. StreamInv'
    BY Zenon, <1>1, <1>3, <1>8, <1>d, <1>e, <1>u DEF StreamInv
  <2>4. TypeOK'
    BY Zenon, <1>1, <1>8, <1>f, <1>u, <2>1 DEF TypeOK
  <2> QED  BY Zenon, <1>q, <2>1, <2>2, <2>3, <2>4 DEF DataInv
\* the message is complete
<1>9. CASE /\ n = rleft /\ ~(rhandle = "MsgHead" /\ Body(m) # NoBody)
           /\ rhandle' = "MsgHead" /\ rleft' = HeadSize /\ rbuf' = <<>>
           /\ delivered' = Append(delivered, m)
  <2>1. R + n = Size(m)
    BY <1>h, <1>m, <1>n, <1>s, <1>9
  <2>2. Stream(SubSeq(u, (R + n) + 1, Len(u)), accepted, D + 1, EndPos, EndOff)
    <3>1. R + n \in 1 .. Len(u) /\ R + n = Size(accepted[D + 1])
      BY <1>5, <1>7, <1>m, <1>n, <2>1
    <3> QED  BY Zenon, <1>3, <3>1, StreamRead
  <2>3. /\ delivered' \in Seq(Msg) /\ Len(delivered') = D + 1 /\ delivered'[D + 1] = m
        /\ \A i \in 1 .. D : delivered'[i] = delivered[i]
    BY <1>9, <1>d, <1>t, AppendProperties
  <2>4. StreamInv'
    <3>1. rbuf' \o sock' = sock'
      BY Zenon, <1>1, <1>9, ConcatEmptySeq
    <3>2. sock' = SubSeq(u, (R + n) + 1, Len(u))
      BY Zenon, <1>1, <1>5
    <3> QED  BY Zenon, <1>e, <1>u, <2>2, <2>3, <3>1, <3>2 DEF StreamInv
  <2>5. DeliveredInv'
    <3>1. D <= Len(accepted) /\ \A i \in 1 .. D : delivered[i] = accepted[i]
      BY Zenon, <1>d DEF DataInv, DeliveredInv
    <3>2. D + 1 <= Len(accepted) /\ \A i \in 1 .. D + 1 : i = D + 1 \/ i \in 1 .. D
      BY <1>m
    <3>3. \A i \in 1 .. D + 1 : delivered'[i] = accepted[i]
      BY <1>m, <2>3, <3>1, <3>2
    <3> QED  BY Zenon, <1>u, <2>3, <3>2, <3>3 DEF DeliveredInv
  <2>6. ReadInv' /\ rbuf' \in Seq(Msg \X Nat)
    BY <1>9, <1>n, EmptySeq DEF ReadInv
  <2>7. TypeOK'
    BY Zenon, <1>1, <1>9, <1>f, <1>n, <1>u, <2>3, <2>6 DEF TypeOK
  <2> QED  BY Zenon, <1>q, <2>4, <2>5, <2>6, <2>7 DEF DataInv
<1> QED
  <2>1. ReadMsg(b) = m
    BY Zenon, <1>m
  <2>2. CASE n = rleft
    BY Zenon, <1>8, <1>9, <1>b, <2>1, <2>2 DEF DoCurRead, ReadDone
  <2>3. CASE n # rleft
    BY Zenon, <1>8, <1>b, <2>3 DEF DoCurRead
  <2> QED  BY Zenon, <2>2, <2>3

\* The steps that leave the messages where they are.
LEMMA QuietStep ==
    ASSUME TypeOK, DataInv,
           \/ \E w \in Writer : SendQueueNotEmptyEvent(w)
           \/ EpollWait \/ ProcessQueueNotEmptyEvent \/ NotifyMeSocketWriteable \/ WriteAgain
           \/ NotifyMeSocketReadable \/ ReadAgain \/ PeerCloses \/ UNCHANGED vars
    PROVE  TypeOK' /\ DataInv'
<1>1. ASSUME NEW w \in Writer, SendQueueNotEmptyEvent(w)
      PROVE  UNCHANGED dataVars /\ TypeOK'
  <2>1. UNCHANGED dataVars
    BY Zenon, <1>1 DEF SendQueueNotEmptyEvent, dataVars, writeVars, readVars
  <2>2. wpc' \in [Writer -> {"idle", "event"}] /\ eventCnt' \in Nat
        /\ edge' \subseteq {"event", "EPOLLIN", "EPOLLOUT"}
    BY <1>1 DEF TypeOK, SendQueueNotEmptyEvent
  <2> QED  BY <1>1, <2>1, <2>2 DEF TypeOK, SendQueueNotEmptyEvent, dataVars, pollVars, readVars
<1>2. ASSUME EpollWait
      PROVE  UNCHANGED dataVars /\ TypeOK'
  <2>1. UNCHANGED dataVars
    BY Zenon, <1>2 DEF EpollWait, dataVars, writerVars, writeVars, readVars
  <2>2. batch' \subseteq {"event", "EPOLLOUT"} /\ edge' \subseteq {"event", "EPOLLIN", "EPOLLOUT"}
        /\ ppc' \in {"wait", "handle", "write"}
    BY Zenon, <1>2 DEF TypeOK, EpollWait, Ready
  <2> QED  BY Zenon, <1>2, <2>1, <2>2 DEF TypeOK, EpollWait, dataVars, writerVars, readVars
<1>3. ASSUME ProcessQueueNotEmptyEvent
      PROVE  UNCHANGED dataVars /\ TypeOK'
  <2>1. UNCHANGED dataVars
    BY <1>3 DEF ProcessQueueNotEmptyEvent, dataVars, writerVars, writeVars, readVars
  <2>2. batch' \subseteq {"event", "EPOLLOUT"} /\ eventCnt' \in Nat /\ ppc' \in {"wait", "handle", "write"}
    BY Zenon, <1>3 DEF TypeOK, ProcessQueueNotEmptyEvent
  <2> QED  BY Zenon, <1>3, <2>1, <2>2 DEF TypeOK, ProcessQueueNotEmptyEvent, dataVars, writerVars, readVars
<1>4. ASSUME NotifyMeSocketWriteable
      PROVE  UNCHANGED dataVars /\ TypeOK'
  <2>1. UNCHANGED dataVars
    BY <1>4 DEF NotifyMeSocketWriteable, dataVars, writerVars, writeVars, readVars
  <2>2. batch' \subseteq {"event", "EPOLLOUT"} /\ ppc' \in {"wait", "handle", "write"}
    BY Zenon, <1>4 DEF TypeOK, NotifyMeSocketWriteable
  <2> QED  BY Zenon, <1>4, <2>1, <2>2 DEF TypeOK, NotifyMeSocketWriteable, dataVars, writerVars, readVars
<1>5. ASSUME WriteAgain
      PROVE  UNCHANGED dataVars /\ TypeOK'
  <2>1. UNCHANGED dataVars
    BY <1>5 DEF WriteAgain, dataVars, writerVars, writeVars, readVars
  <2>2. nospace' \in BOOLEAN /\ ppc' \in {"wait", "handle", "write"}
    BY Zenon, <1>5 DEF WriteAgain, NextEvent
  <2> QED  BY Zenon, <1>5, <2>1, <2>2 DEF TypeOK, WriteAgain, dataVars, writerVars, readVars
<1>6. ASSUME NotifyMeSocketReadable
      PROVE  UNCHANGED dataVars /\ TypeOK'
  <2>1. UNCHANGED dataVars
    BY <1>6 DEF NotifyMeSocketReadable, dataVars, writerVars, writeVars
  <2>2. edge' \subseteq {"event", "EPOLLIN", "EPOLLOUT"} /\ rpc' \in {"wait", "read", "fatal"}
    BY Zenon, <1>6 DEF TypeOK, NotifyMeSocketReadable
  <2> QED  BY ZenonT(40), <1>6, <2>1, <2>2 DEF TypeOK, NotifyMeSocketReadable, dataVars, writerVars, pollVars
<1>7. ASSUME ReadAgain
      PROVE  UNCHANGED dataVars /\ TypeOK'
  <2>1. UNCHANGED dataVars
    BY Zenon, <1>7 DEF ReadAgain, dataVars, writerVars, writeVars
  <2> QED  BY <1>7, <2>1 DEF TypeOK, ReadAgain, dataVars, writerVars, pollVars
<1>8. ASSUME PeerCloses
      PROVE  UNCHANGED dataVars /\ TypeOK'
  <2>1. UNCHANGED dataVars
    BY <1>8 DEF PeerCloses, dataVars, writerVars, writeVars, readVars
  <2>2. edge' \subseteq {"event", "EPOLLIN", "EPOLLOUT"} /\ closed' \in BOOLEAN
    BY Zenon, <1>8 DEF TypeOK, PeerCloses
  <2> QED  BY ZenonT(40), <1>8, <2>1, <2>2 DEF TypeOK, PeerCloses, dataVars, writerVars, pollVars, readVars
<1>9. ASSUME UNCHANGED vars
      PROVE  UNCHANGED dataVars /\ TypeOK'
  <2>1. UNCHANGED dataVars
    BY Zenon, <1>9 DEF vars, dataVars, writerVars, writeVars, readVars
  <2> QED  BY <1>9, <2>1 DEF TypeOK, vars, dataVars, writerVars, pollVars, readVars
<1> QED  BY <1>1, <1>2, <1>3, <1>4, <1>5, <1>6, <1>7, <1>8, <1>9, DataFrame

\* What a step may do: the actions of the four parties, one by one.
LEMMA StepCases ==
    ASSUME [Next]_vars
    PROVE  \/ \E w \in Writer : AsyncWrite(w)
           \/ \E n \in 0 .. Capacity : DoCurWrite(n)
           \/ \E n \in 0 .. Capacity : DoCurRead(n)
           \/ InitMsgWriteHandle
           \/ \E w \in Writer : SendQueueNotEmptyEvent(w)
           \/ EpollWait \/ ProcessQueueNotEmptyEvent \/ NotifyMeSocketWriteable \/ WriteAgain
           \/ NotifyMeSocketReadable \/ ReadAgain \/ PeerCloses \/ UNCHANGED vars
BY Zenon DEF Next, WriterStep, WritePollerStep, ReadPollerStep, ReadEof

\* No step loses an event.
LEMMA AwakeStep ==
    ASSUME TypeOK, DataInv, NoLostEvent, [Next]_vars
    PROVE  NoLostEvent'
<1>1. ASSUME NEW w \in Writer, AsyncWrite(w)
      PROVE  NoLostEvent'
  <2>1. wpc \in [Writer -> {"idle", "event"}] /\ pending \in Seq(Msg)
    BY Zenon DEF TypeOK
  <2>2. pending = <<>> => wpc'[w] = "event"
    BY Zenon, <1>1, <2>1 DEF AsyncWrite, NeedSendEvent
  <2>3. \A v \in Writer : wpc[v] = "event" => wpc'[v] = "event"
    BY Zenon, <1>1, <2>1 DEF AsyncWrite
  <2> QED  BY Zenon, <1>1, <2>2, <2>3 DEF NoLostEvent, AsyncWrite, pollVars, writeVars, readVars
<1>2. ASSUME NEW n \in 0 .. Capacity, DoCurWrite(n)
      PROVE  NoLostEvent'
  <2>1. n = 0 => sock' = sock
    <3>1. ASSUME n = 0 PROVE sock' = sock
      <4>1. [i \in 1 .. n |-> <<wmsg, Written + i>>] = <<>>
        BY <3>1
      <4>2. sock \in Seq(Msg \X Nat)
        BY Zenon DEF TypeOK
      <4> QED  BY Zenon, <1>2, <4>1, <4>2, ConcatEmptySeq DEF DoCurWrite
    <3> QED  BY Zenon, <3>1
  <2>2. n > 0 => "EPOLLIN" \in edge'
    BY Zenon, <1>2 DEF DoCurWrite
  <2>3. n = 0 \/ n > 0
    BY SizeAssumption
  <2>4. ppc' = "write" /\ rpc' = rpc /\ (n = 0 => edge' = edge)
    BY <1>2 DEF DoCurWrite, pollVars, readVars
  <2> QED  BY Zenon, <2>1, <2>2, <2>3, <2>4 DEF NoLostEvent
<1>3. ASSUME NEW n \in 0 .. Capacity, DoCurRead(n)
      PROVE  NoLostEvent'
  <2>1. rpc' = "read" /\ edge \subseteq edge' /\ (nospace' \/ ~nospace \/ "EPOLLOUT" \in edge')
    <3>1. n = 0 \/ n > 0
      BY SizeAssumption
    <3> QED  BY Zenon, <1>3, <3>1 DEF DoCurRead
  <2>2. UNCHANGED <<ppc, closed, cur, whandle, pending, eventCnt, wpc>>
    BY Zenon, <1>3 DEF DoCurRead, pollVars, writerVars, writeVars
  <2> QED  BY Zenon, <2>1, <2>2 DEF NoLostEvent
<1>4. ASSUME InitMsgWriteHandle
      PROVE  NoLostEvent'
  BY Zenon, <1>4 DEF NoLostEvent, InitMsgWriteHandle, NextEvent, writeVars, readVars
<1>5. ASSUME NEW w \in Writer, SendQueueNotEmptyEvent(w)
      PROVE  NoLostEvent'
  <2>1. "event" \in edge' /\ edge \subseteq edge' /\ eventCnt' > 0
    BY <1>5 DEF TypeOK, SendQueueNotEmptyEvent
  <2> QED  BY Zenon, <1>5, <2>1 DEF NoLostEvent, SendQueueNotEmptyEvent, pollVars, writeVars, readVars
<1>6. ASSUME EpollWait
      PROVE  NoLostEvent'
  BY Zenon, <1>6 DEF NoLostEvent, EpollWait, Ready, readVars
<1>7. ASSUME ProcessQueueNotEmptyEvent \/ NotifyMeSocketWriteable
      PROVE  NoLostEvent'
  BY Zenon, <1>7 DEF NoLostEvent, ProcessQueueNotEmptyEvent, NotifyMeSocketWriteable, readVars
<1>8. ASSUME WriteAgain
      PROVE  NoLostEvent'
  BY Zenon, <1>8 DEF NoLostEvent, WriteAgain, readVars
<1>9. ASSUME NotifyMeSocketReadable
      PROVE  NoLostEvent'
  BY Zenon, <1>9 DEF NoLostEvent, NotifyMeSocketReadable, writerVars, pollVars, writeVars
<1>10. ASSUME ReadAgain
       PROVE  NoLostEvent'
  BY Zenon, <1>10 DEF NoLostEvent, ReadAgain, writerVars, pollVars, writeVars
<1>11. ASSUME PeerCloses
       PROVE  NoLostEvent'
  BY Zenon, <1>11 DEF NoLostEvent, PeerCloses, readVars
<1>12. ASSUME UNCHANGED vars
       PROVE  NoLostEvent'
  BY Zenon, <1>12 DEF NoLostEvent, vars, writerVars, pollVars, writeVars, readVars
<1> QED  BY <1>1, <1>2, <1>3, <1>4, <1>5, <1>6, <1>7, <1>8, <1>9, <1>10, <1>11, <1>12, StepCases

-----------------------------------------------------------------------------
\* The invariant holds initially.
LEMMA InvInit == Init => Inv
<1> SUFFICES ASSUME Init PROVE Inv
  BY Zenon
<1>1. TypeOK
  <2>1. 0 <= Capacity /\ HeadSize \in Nat
    BY SizeAssumption
  <2> QED  BY Zenon, <2>1, EmptySeq DEF Init, TypeOK
<1>2. Len(accepted) = 0 /\ Len(cur) = 0 /\ Len(pending) = 0 /\ Len(rbuf) = 0 /\ Len(delivered) = 0
  BY Zenon, EmptySeq DEF Init
<1>3. Started = 0 /\ EndPos = 1 /\ EndOff = 1
  <2>1. Started = 0
    BY <1>2 DEF Started
  <2>2. Full
    BY Zenon DEF Init, Full
  <2> QED  BY <2>1, <2>2 DEF EndPos, EndOff
<1>4. QueueInv /\ DeliveredInv
  BY <1>2, <1>3 DEF Init, QueueInv, DeliveredInv
<1>5. WriteInv /\ ReadInv
  BY <1>2, SizeAssumption DEF Init, WriteInv, ReadInv
<1>6. StreamInv
  <2>1. rbuf \o sock = <<>> /\ accepted = <<>>
    BY DEF Init
  <2>2. PICK pos : pos = [i \in 1 .. 1 |-> 1]
    BY Zenon
  <2>3. Laid(<<>>, <<>>, 0, 1, 1, pos, pos)
    <3>1. Len(<<>>) = 0 /\ 0 + 1 = 1 /\ (\A i \in 1 .. 0 : FALSE) /\ pos[1] = 1 /\ pos \in [1 .. 1 -> Nat]
      BY <2>2, EmptySeq
    <3> QED  BY Zenon, <3>1 DEF Laid
  <2>4. Stream(<<>>, <<>>, 0, 1, 1)
    BY Zenon, <2>3, EmptySeq DEF Stream
  <2> QED  BY Zenon, <1>2, <1>3, <2>1, <2>4 DEF StreamInv
<1>7. NoLostEvent
  BY Zenon DEF Init, NoLostEvent
<1> QED  BY Zenon, <1>1, <1>4, <1>5, <1>6, <1>7 DEF Inv, DataInv

\* Every step preserves the invariant.
LEMMA InvStep == Inv /\ [Next]_vars => Inv'
<1> SUFFICES ASSUME Inv, [Next]_vars PROVE Inv'
  BY Zenon
<1>1. TypeOK /\ DataInv /\ NoLostEvent
  BY Zenon DEF Inv
<1>2. TypeOK' /\ DataInv'
  <2>1. CASE \E w \in Writer : AsyncWrite(w)
    BY Zenon, <1>1, <2>1, AsyncWriteStep
  <2>2. CASE \E n \in 0 .. Capacity : DoCurWrite(n)
    BY Zenon, <1>1, <2>2, DoCurWriteStep
  <2>3. CASE \E n \in 0 .. Capacity : DoCurRead(n)
    BY Zenon, <1>1, <2>3, DoCurReadStep
  <2>4. CASE InitMsgWriteHandle
    BY Zenon, <1>1, <2>4, InitMsgWriteHandleStep
  <2>5. CASE \/ \E w \in Writer : SendQueueNotEmptyEvent(w)
             \/ EpollWait \/ ProcessQueueNotEmptyEvent \/ NotifyMeSocketWriteable \/ WriteAgain
             \/ NotifyMeSocketReadable \/ ReadAgain \/ PeerCloses \/ UNCHANGED vars
    BY Zenon, <1>1, <2>5, QuietStep
  <2> QED  BY Zenon, <2>1, <2>2, <2>3, <2>4, <2>5, StepCases
<1>3. NoLostEvent'
  BY Zenon, <1>1, AwakeStep
<1> QED  BY Zenon, <1>2, <1>3 DEF Inv

\* The invariant holds throughout.
LEMMA Invariance == Spec => []Inv
BY InvInit, InvStep, PTL DEF Spec

(***************************************************************************)
(* Types, with the socket within its capacity: read_size_ and write_size_  *)
(* never go below zero, whatever the kernel takes and returns.             *)
(***************************************************************************)
THEOREM LinkTypes == Spec => []TypeOK
<1>1. Inv => TypeOK
  BY Zenon DEF Inv
<1> QED  BY <1>1, Invariance, PTL

(***************************************************************************)
(* No poller of the connection sleeps on something to do.                  *)
(***************************************************************************)
THEOREM LinkAwake == Spec => []NoLostEvent
<1>1. Inv => NoLostEvent
  BY Zenon DEF Inv
<1> QED  BY <1>1, Invariance, PTL

(***************************************************************************)
(* The stream stays framed: what SocketReadHelper has read of a message is *)
(* that message from its first unit on.                                    *)
(***************************************************************************)
THEOREM LinkFramed == Spec => []Framed
<1>1. ASSUME Inv PROVE Framed
  <2>0. TypeOK /\ ReadInv /\ StreamInv
    BY Zenon, <1>1 DEF Inv, DataInv
  <2>t. rbuf \in Seq(Msg \X Nat) /\ sock \in Seq(Msg \X Nat) /\ accepted \in Seq(Msg)
        /\ delivered \in Seq(Msg) /\ rleft \in Nat /\ rhandle \in {"MsgHead", "MsgBody"}
    BY Zenon, <2>0 DEF TypeOK
  <2>u. PICK u : u = rbuf \o sock
    BY Zenon
  <2>d. PICK D \in Nat : D = Len(delivered)
    BY Zenon, <2>t, LenProperties
  <2>r. PICK R \in Nat : R = Len(rbuf)
    BY Zenon, <2>t, LenProperties
  <2>k. PICK K \in Nat : K = Len(sock)
    BY Zenon, <2>t, LenProperties
  <2>1. Len(u) = R + K /\ \A i \in 1 .. R + K : i <= R => u[i] = rbuf[i]
    BY Zenon, <2>k, <2>r, <2>t, <2>u, ConcatProperties
  <2>2. ASSUME NEW i \in 1 .. R
        PROVE  rbuf[i] = <<ReadMsg(rbuf), i>>
    <3>1. R > 0 /\ 1 \in 1 .. R + K /\ 1 <= R /\ i \in 1 .. R + K /\ i <= R
      OBVIOUS
    <3>2. Stream(u, accepted, D, EndPos, EndOff)
      BY <2>0, <2>d, <2>u DEF StreamInv
    <3>3. Len(u) > 0
      BY <2>1, <3>1
    <3>4. /\ D + 1 \in 1 .. Len(accepted) /\ u[1] = <<accepted[D + 1], 1>>
          /\ \A j \in 1 .. Len(u) : j <= Size(accepted[D + 1]) => u[j] = <<accepted[D + 1], j>>
      BY <3>2, <3>3, StreamFirst
    <3>5. rbuf[1] = u[1] /\ rbuf[i] = u[i]
      BY Zenon, <2>1, <3>1
    <3>6. ReadMsg(rbuf) = accepted[D + 1]
      BY <3>4, <3>5 DEF ReadMsg
    <3>7. accepted[D + 1] \in Msg
      BY Zenon, <2>t, <3>4, ElementOfSeq
    <3>8. PICK S \in Nat : S = Size(accepted[D + 1]) /\ S >= HeadSize /\ HeadSize \in Nat
      BY Zenon, <3>7, SizeType
    <3>9. R <= S
      BY SMTT(30), <2>0, <2>r, <2>t, <3>6, <3>8 DEF ReadInv
    <3>10. i <= S
      BY <3>8, <3>9
    <3>11. u[i] = <<accepted[D + 1], i>>
      BY Zenon, <2>1, <3>1, <3>4, <3>8, <3>10
    <3> QED  BY Zenon, <3>5, <3>6, <3>11
  <2> QED  BY Zenon, <2>2, <2>r DEF Framed
<1> QED  BY <1>1, Invariance, PTL

\* What a message accepted, and a message delivered, do to the messages on their way.
LEMMA InFlightSend ==
    ASSUME NEW a \in Seq(Msg), NEW m \in Msg, NEW d \in Nat, d <= Len(a)
    PROVE  SubSeq(Append(a, m), d + 1, Len(Append(a, m))) = Append(SubSeq(a, d + 1, Len(a)), m)
<1>l. PICK A \in Nat : A = Len(a)
  BY Zenon, LenProperties
<1>b. PICK b \in Seq(Msg) : b = Append(a, m) /\ Len(b) = A + 1 /\ b[A + 1] = m /\ \A i \in 1 .. A : b[i] = a[i]
  <2>1. PICK c : c = Append(a, m)
    BY Zenon
  <2>2. c \in Seq(Msg) /\ Len(c) = Len(a) + 1 /\ c[Len(a) + 1] = m /\ \A i \in 1 .. Len(a) : c[i] = a[i]
    BY <2>1, AppendProperties
  <2> QED  BY Zenon, <1>l, <2>1, <2>2
<1>y. PICK y \in 1 .. A + 1 : y = d + 1
  BY <1>l
<1>v. PICK v : v = SubSeq(b, y, Len(b))
  BY Zenon
<1>w. PICK w : w = SubSeq(a, y, Len(a))
  BY Zenon
<1>1. v \in Seq(Msg) /\ Len(v) = (A - d) + 1 /\ \A i \in 1 .. (A - d) + 1 : v[i] = b[d + i]
  <2>1. y \in 1 .. Len(b) + 1
    BY <1>b
  <2>2. /\ v \in Seq(Msg) /\ Len(v) = (Len(b) - y) + 1
        /\ \A i \in 1 .. (Len(b) - y) + 1 : v[i] = b[(y + i) - 1]
    BY <1>v, <2>1, EndOfSeq
  <2>3. (Len(b) - y) + 1 = (A - d) + 1 /\ \A i \in 1 .. (A - d) + 1 : (y + i) - 1 = d + i
    BY <1>b, <1>l, <1>y
  <2> QED  BY Zenon, <2>2, <2>3
<1>2. w \in Seq(Msg) /\ Len(w) = A - d /\ \A i \in 1 .. A - d : w[i] = a[d + i]
  <2>1. y \in 1 .. Len(a) + 1
    BY Zenon, <1>l
  <2>2. /\ w \in Seq(Msg) /\ Len(w) = (Len(a) - y) + 1
        /\ \A i \in 1 .. (Len(a) - y) + 1 : w[i] = a[(y + i) - 1]
    BY <1>w, <2>1, EndOfSeq
  <2>3. (Len(a) - y) + 1 = A - d /\ \A i \in 1 .. A - d : (y + i) - 1 = d + i
    BY <1>l, <1>y
  <2> QED  BY Zenon, <2>2, <2>3
<1>z. PICK z : z = Append(w, m)
  BY Zenon
<1>3. /\ z \in Seq(Msg) /\ Len(z) = (A - d) + 1 /\ z[(A - d) + 1] = m
      /\ \A i \in 1 .. A - d : z[i] = w[i]
  <2>1. /\ z \in Seq(Msg) /\ Len(z) = Len(w) + 1 /\ z[Len(w) + 1] = m
        /\ \A i \in 1 .. Len(w) : z[i] = w[i]
    <3>1. w \in Seq(Msg)
      BY Zenon, <1>2
    <3> QED  BY <1>z, <3>1, AppendProperties
  <2> QED  BY Zenon, <1>2, <2>1
<1>4. ASSUME NEW i \in 1 .. (A - d) + 1 PROVE v[i] = z[i]
  <2>1. CASE i \in 1 .. A - d
    <3>1. d + i \in 1 .. A
      BY <2>1, <1>l
    <3> QED  BY SMTT(30), <1>1, <1>2, <1>3, <1>b, <2>1, <3>1
  <2>2. CASE i = (A - d) + 1
    <3>1. d + i = A + 1
      BY <2>2, <1>l
    <3> QED  BY Zenon, <1>1, <1>3, <1>b, <2>2, <3>1
  <2> QED  BY <1>l, <2>1, <2>2
<1>5. v = z
  BY Zenon, <1>1, <1>3, <1>4, SeqEqual
<1> QED  BY Zenon, <1>5, <1>b, <1>v, <1>w, <1>y, <1>z

\* A message delivered is the first of those on their way.
LEMMA InFlightDeliver ==
    ASSUME NEW a \in Seq(Msg), NEW d \in Nat, d + 1 <= Len(a)
    PROVE  /\ SubSeq(a, d + 1, Len(a)) # <<>> /\ Head(SubSeq(a, d + 1, Len(a))) = a[d + 1]
           /\ SubSeq(a, (d + 1) + 1, Len(a)) = Tail(SubSeq(a, d + 1, Len(a)))
<1>l. PICK A \in Nat : A = Len(a)
  BY Zenon, LenProperties
<1>w. PICK w : w = SubSeq(a, d + 1, Len(a))
  BY Zenon
<1>v. PICK v : v = SubSeq(a, (d + 1) + 1, Len(a))
  BY Zenon
<1>1. w \in Seq(Msg) /\ Len(w) = A - d /\ \A i \in 1 .. A - d : w[i] = a[d + i]
  <2>1. PICK y \in 1 .. Len(a) + 1 : y = d + 1
    BY <1>l
  <2>2. /\ w \in Seq(Msg) /\ Len(w) = (Len(a) - y) + 1
        /\ \A i \in 1 .. (Len(a) - y) + 1 : w[i] = a[(y + i) - 1]
    BY <1>w, <2>1, EndOfSeq
  <2>3. (Len(a) - y) + 1 = A - d /\ \A i \in 1 .. A - d : (y + i) - 1 = d + i
    BY <1>l, <2>1
  <2> QED  BY Zenon, <2>2, <2>3
<1>2. v \in Seq(Msg) /\ Len(v) = (A - d) - 1 /\ \A i \in 1 .. (A - d) - 1 : v[i] = a[d + (i + 1)]
  <2>1. PICK y \in 1 .. Len(a) + 1 : y = (d + 1) + 1
    BY <1>l
  <2>2. /\ v \in Seq(Msg) /\ Len(v) = (Len(a) - y) + 1
        /\ \A i \in 1 .. (Len(a) - y) + 1 : v[i] = a[(y + i) - 1]
    BY <1>v, <2>1, EndOfSeq
  <2>3. (Len(a) - y) + 1 = (A - d) - 1 /\ \A i \in 1 .. (A - d) - 1 : (y + i) - 1 = d + (i + 1)
    BY <1>l, <2>1
  <2> QED  BY Zenon, <2>2, <2>3
<1>3. w # <<>>
  <2>1. Len(w) = A - d /\ A - d # 0
    BY <1>1, <1>l
  <2>2. Len(<<>>) = 0
    BY Zenon, EmptySeq
  <2> QED  BY Zenon, <2>1, <2>2
<1>4. Head(w) = w[1] /\ Tail(w) \in Seq(Msg) /\ Len(Tail(w)) = (A - d) - 1
      /\ \A i \in 1 .. (A - d) - 1 : Tail(w)[i] = w[i + 1]
  BY Zenon, <1>1, <1>3, QueueHead
<1>5. Head(w) = a[d + 1]
  <2>1. 1 \in 1 .. A - d
    BY <1>l
  <2> QED  BY Zenon, <1>1, <1>4, <2>1
<1>6. v = Tail(w)
  <2>t. PICK t \in Seq(Msg) : t = Tail(w) /\ Len(t) = (A - d) - 1 /\ \A i \in 1 .. (A - d) - 1 : t[i] = w[i + 1]
    BY Zenon, <1>4
  <2>1. \A i \in 1 .. (A - d) - 1 : i + 1 \in 1 .. A - d
    BY <1>l
  <2>2. \A i \in 1 .. (A - d) - 1 : t[i] = v[i]
    BY Zenon, <1>1, <1>2, <2>1, <2>t
  <2>3. t = v
    BY Zenon, <1>2, <2>2, <2>t, SeqEqual
  <2> QED  BY Zenon, <2>3, <2>t
<1> QED  BY Zenon, <1>3, <1>5, <1>6, <1>v, <1>w

(***************************************************************************)
(* SocketHelper implements MsgFifo: the peer handles each message given to *)
(* AsyncWrite at most once, and in the order of the calls, however the     *)
(* writes and reads are split.                                             *)
(***************************************************************************)
THEOREM LinkImplements == Spec => ImplementsFifo
<1>1. Init => Fifo!Init
  <2> SUFFICES ASSUME Init PROVE Fifo!Init
    BY Zenon
  <2>1. accepted = <<>> /\ delivered = <<>> /\ Len(<<>>) = 0
    BY Zenon, EmptySeq DEF Init
  <2>2. SubSeq(<<>>, 0 + 1, 0) = <<>>
    BY SubSeqEmpty
  <2> QED  BY Zenon, <2>1, <2>2 DEF Fifo!Init, InFlight
<1>2. ASSUME Inv, Inv', [Next]_vars
      PROVE  [Fifo!Next]_<<InFlight, delivered>>
  <2>t. accepted \in Seq(Msg) /\ delivered \in Seq(Msg) /\ TypeOK
    BY Zenon, <1>2 DEF Inv, TypeOK
  <2>d. PICK d \in Nat : d = Len(delivered) /\ d <= Len(accepted)
    BY <1>2, <2>t, LenProperties DEF Inv, DataInv, DeliveredInv
  <2>1. ASSUME NEW w \in Writer, AsyncWrite(w)
        PROVE  Fifo!Next
    <3>1. PICK m \in Msg : accepted' = Append(accepted, m) /\ delivered' = delivered
      <4>1. next[w] \in Nat /\ next[w] < Len(Program[w])
        BY Zenon, <2>1, <2>t DEF TypeOK, AsyncWrite
      <4>2. <<w, next[w] + 1>> \in Msg
        BY Zenon, <4>1, MsgType
      <4> QED  BY Zenon, <2>1, <4>2 DEF AsyncWrite, readVars
    <3>2. SubSeq(Append(accepted, m), d + 1, Len(Append(accepted, m)))
            = Append(SubSeq(accepted, d + 1, Len(accepted)), m)
      BY Zenon, <2>d, <2>t, InFlightSend
    <3>3. InFlight' = Append(InFlight, m)
      BY Zenon, <2>d, <3>1, <3>2 DEF InFlight
    <3>4. Fifo!Send(m)
      BY Zenon, <3>1, <3>3 DEF Fifo!Send
    <3> QED  BY Zenon, <3>4 DEF Fifo!Next
  <2>2. ASSUME NEW n \in 0 .. Capacity, DoCurRead(n), delivered' # delivered
        PROVE  Fifo!Next
    <3>1. PICK x : delivered' = Append(delivered, x) /\ accepted' = accepted
      BY Zenon, <2>2 DEF DoCurRead, ReadDone, writerVars
    <3>2. Len(delivered') = d + 1 /\ delivered'[d + 1] = x
      BY <2>d, <2>t, <3>1
    <3>3. d + 1 <= Len(accepted) /\ x = accepted[d + 1]
      <4>1. Len(delivered') <= Len(accepted') /\ \A i \in 1 .. Len(delivered') : delivered'[i] = accepted'[i]
        BY Zenon, <1>2 DEF Inv, DataInv, DeliveredInv
      <4>2. d + 1 \in 1 .. d + 1
        OBVIOUS
      <4> QED  BY Zenon, <3>1, <3>2, <4>1, <4>2
    <3>4. /\ SubSeq(accepted, d + 1, Len(accepted)) # <<>>
          /\ Head(SubSeq(accepted, d + 1, Len(accepted))) = accepted[d + 1]
          /\ SubSeq(accepted, (d + 1) + 1, Len(accepted)) = Tail(SubSeq(accepted, d + 1, Len(accepted)))
      BY Zenon, <2>t, <3>3, InFlightDeliver
    <3>5. InFlight # <<>> /\ InFlight' = Tail(InFlight) /\ Head(InFlight) = x
      BY Zenon, <2>d, <3>1, <3>2, <3>3, <3>4 DEF InFlight
    <3>6. Fifo!Deliver
      BY Zenon, <3>1, <3>5 DEF Fifo!Deliver
    <3> QED  BY Zenon, <3>6 DEF Fifo!Next
  <2>3. ASSUME UNCHANGED <<accepted, delivered>>
        PROVE  UNCHANGED <<InFlight, delivered>>
    BY <2>3 DEF InFlight
  <2>4. CASE \E n \in 0 .. Capacity : DoCurWrite(n)
    BY Zenon, <2>3, <2>4 DEF DoCurWrite, writerVars, readVars
  <2>5. CASE \E n \in 0 .. Capacity : DoCurRead(n)
    BY Zenon, <2>2, <2>3, <2>5 DEF DoCurRead, writerVars
  <2>6. CASE InitMsgWriteHandle
    BY <2>3, <2>6 DEF InitMsgWriteHandle, readVars
  <2>7. CASE \E w \in Writer : SendQueueNotEmptyEvent(w)
    BY <2>3, <2>7 DEF SendQueueNotEmptyEvent, readVars
  <2>8. CASE EpollWait \/ ProcessQueueNotEmptyEvent \/ NotifyMeSocketWriteable \/ WriteAgain \/ PeerCloses
    BY Zenon, <2>3, <2>8 DEF EpollWait, ProcessQueueNotEmptyEvent, NotifyMeSocketWriteable, WriteAgain, PeerCloses,
                      writerVars, readVars
  <2>9. CASE NotifyMeSocketReadable \/ ReadAgain \/ UNCHANGED vars
    BY Zenon, <2>3, <2>9 DEF NotifyMeSocketReadable, ReadAgain, vars, writerVars, readVars
  <2> QED  BY Zenon, <1>2, <2>1, <2>4, <2>5, <2>6, <2>7, <2>8, <2>9, StepCases
<1> QED  BY <1>1, <1>2, Invariance, PTL DEF Spec, ImplementsFifo, Fifo!Spec

=============================================================================
