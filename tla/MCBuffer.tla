------------------------------ MODULE MCBuffer ------------------------------
(***************************************************************************)
(* An instance of Buffer for TLC.                                          *)
(***************************************************************************)
EXTENDS Buffer

CONSTANTS t1, t2, t3, t4, x1, x2

MCThread == {t1, t2, t3, t4}
MCItem == {x1, x2}

=============================================================================
