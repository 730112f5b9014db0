--------------------------- MODULE MCActorRuntime ---------------------------
(***************************************************************************)
(* Two plans for TLC.                                                      *)
(***************************************************************************)
EXTENDS ActorRuntime

\* A chain with an inplace actor: S feeds A through x, which has two
\* registers; I works inplace on A's output a, and C reads a and I's output
\* i.  A and I are on a stream with a poller; I does not wait for a kernel and
\* sends to A without a callback.
ChainActor == {"S", "A", "I", "C"}
ChainDesc == {"x", "a", "i"}
ChainThread == {"cpu", "gpu", "cpu2"}
ChainProducer == [x |-> "S", a |-> "A", i |-> "I"]
ChainConsumers == [x |-> {"A"}, a |-> {"I", "C"}, i |-> {"C"}]
ChainNum == [x |-> 2, a |-> 1, i |-> 1]
ChainInplace == {<<"a", "i">>}
ChainMemBlock == [x |-> 1, a |-> 2, i |-> 2]
ChainThrdOf == [S |-> "cpu", A |-> "gpu", I |-> "gpu", C |-> "cpu2"]
ChainPolled == {"gpu"}
ChainSyncLaunch == {"S", "I", "C"}

\* A diamond: S feeds A and B through x; C joins their outputs on A's thread
\* and works inplace on b, with an output that nobody reads.
JoinActor == {"S", "A", "B", "C"}
JoinDesc == {"x", "a", "b", "c"}
JoinThread == {"cpu", "gpu", "cpu2"}
JoinProducer == [x |-> "S", a |-> "A", b |-> "B", c |-> "C"]
JoinConsumers == [x |-> {"A", "B"}, a |-> {"C"}, b |-> {"C"}, c |-> {}]
JoinNum == [x |-> 2, a |-> 1, b |-> 1, c |-> 1]
JoinInplace == {<<"b", "c">>}
JoinMemBlock == [x |-> 1, a |-> 2, b |-> 3, c |-> 3]
JoinThrdOf == [S |-> "cpu", A |-> "cpu2", B |-> "gpu", C |-> "cpu2"]
JoinPolled == {"gpu"}
JoinSyncLaunch == {"S", "A", "C"}

=============================================================================
