----------------------------- MODULE MCVmEngine -----------------------------
(***************************************************************************)
(* Instances of VmEngine for TLC.  Streams s1 and s2 share worker thread   *)
(* t1 (so StreamWait can be prescheduled between them), s3 has worker t2,  *)
(* sc runs on the scheduler thread.                                        *)
(***************************************************************************)
EXTENDS VmEngine

CONSTANTS s1, s2, s3, sc, t1, t2, tc, d1

MCStream == {s1, s2, s3, sc}
MCThread == {t1, t2, tc}
MCThreadOf == [s \in MCStream |-> CASE s \in {s1, s2} -> t1 [] s = s3 -> t2 [] OTHER -> tc]
MCSchedThread == {tc}
MCDep == {d1}

Op(s, q, o, i) == [stream |-> s, kind |-> "op", fuse |-> IF q THEN "any" ELSE "no",
                   seq |-> q, out |-> o, in |-> i]
Wait(s) == [stream |-> s, kind |-> "wait", fuse |-> "no", seq |-> TRUE,
            out |-> {d1}, in |-> {}]
Free(s) == [stream |-> s, kind |-> "fastRelease", fuse |-> "no", seq |-> FALSE,
            out |-> {d1}, in |-> {}]
Barrier == [stream |-> sc, kind |-> "barrier", fuse |-> "no", seq |-> FALSE,
            out |-> {}, in |-> {}]

\* EpRecordEvent: a tail-only fuse type, but no sequential dependence to fuse on.
Record(s) == [stream |-> s, kind |-> "op", fuse |-> "tail", seq |-> FALSE,
              out |-> {d1}, in |-> {}]

\* Writers, readers, releases and a barrier around one tensor.
MCDescriptors ==
    {Op(s1, FALSE, {}, {d1}), Op(s1, TRUE, {d1}, {}), Op(s1, TRUE, {}, {d1}), Record(s1),
     Wait(s2), Op(s3, FALSE, {d1}, {}), Free(s3), Barrier}
MCPrograms == [1 .. 3 -> MCDescriptors]
=============================================================================
