---------------------------- MODULE MCThreadPool ----------------------------
(***************************************************************************)
(* Two clients and a pool of three threads.  One has a loop with more      *)
(* indices than threads and one it runs itself; the other has a loop with  *)
(* a limit below the size of the pool and an empty one.  work_cnt_ wraps   *)
(* around at four, so that it does not wrap at a multiple of the threads.  *)
(***************************************************************************)
EXTENDS ThreadPool, TLC

CONSTANTS c1, c2

MCPrograms ==
    c1 :> <<[n |-> 4, limit |-> -1], [n |-> 2, limit |-> 0]>> @@
    c2 :> <<[n |-> 3, limit |-> 2], [n |-> 0, limit |-> -1]>>

=============================================================================
