---------------------------- MODULE MCVmThreads -----------------------------
(***************************************************************************)
(* Instances of VmThreads for TLC.                                         *)
(***************************************************************************)
EXTENDS VmThreads, TLC

CONSTANTS c1, c2, w1

Recv(l) == [op |-> "receive", list |-> l]
Do(o) == [op |-> o]

MCClient == {c1, c2}
MCWorker == {w1}

\* Two clients race to submit and meet the high water mark; the first shrinks memory, closes
\* the machine and goes on using it, the second may give up waiting.
MCPrograms ==
    c1 :> <<Recv(<<w1, Sched, w1>>), Do("shrink"), Do("close"), Recv(<<w1>>)>>
    @@ c2 :> <<Do("sync"), Do("create")>>
\* The same with one instruction less.
LivePrograms ==
    c1 :> <<Recv(<<w1, Sched>>), Do("shrink"), Do("close"), Recv(<<w1>>)>>
    @@ c2 :> <<Do("sync"), Do("create")>>
MCTimeouts == {c2}

\* A client creates a stream and may give up.
ProbePrograms ==
    c1 :> <<Recv(<<w1>>), Do("close")>>
    @@ c2 :> <<Recv(<<w1>>), Do("create")>>
=============================================================================
