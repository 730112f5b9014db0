---------------------------- MODULE MCTransport -----------------------------
(***************************************************************************)
(* Instances of Transport for TLC.                                         *)
(***************************************************************************)
EXTENDS Transport, TLC

CONSTANTS A, B, c1, c2, c3

MCMachine == {A, B}

\* Two threads of A send to B, the tokens of the first come round again; a third sends to A itself.
MCChannel == {c1, c2, c3}
MCSrc == c1 :> A @@ c2 :> A @@ c3 :> A
MCDst == c1 :> B @@ c2 :> B @@ c3 :> A
MCCalls == c1 :> 4 @@ c2 :> 1 @@ c3 :> 1
LiveCalls == c1 :> 3 @@ c2 :> 1 @@ c3 :> 1
MCSendSize == [x \in Xfer |-> x[2]]
MCMaxSize == [x \in Xfer |-> IF x[2] = 1 THEN 2 ELSE x[2]]

=============================================================================
