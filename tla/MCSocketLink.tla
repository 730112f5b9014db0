---------------------------- MODULE MCSocketLink ----------------------------
(***************************************************************************)
(* Instances of SocketLink for TLC: two threads with three messages, one   *)
(* of them followed by a body larger than the socket and one by an empty   *)
(* body; headers may be split.                                             *)
(***************************************************************************)
EXTENDS SocketLink, TLC

CONSTANTS w1, w2

MCWriter == {w1, w2}
MCProgram == w1 :> <<3, NoBody>> @@ w2 :> <<0>>
MCCrashProgram == w1 :> <<1>> @@ w2 :> <<NoBody>>

=============================================================================
