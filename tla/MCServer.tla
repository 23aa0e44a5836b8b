------------------------------ MODULE MCServer ------------------------------
(***************************************************************************)
(* Server for TLC.                                                         *)
(***************************************************************************)
EXTENDS Server

CONSTANTS n1, n2, s1, w1, w2

MCNames == {n1, n2}
MCSubnets == {s1}
MCWaiters == {w1, w2}

=============================================================================
