--------------------------- MODULE MCNodeProcess ----------------------------
(***************************************************************************)
(* NodeProcess for TLC: three callers make "first, concurrent, late"       *)
(* happen together; the codes are success and failure, as callers only     *)
(* compare with 0.                                                         *)
(***************************************************************************)
EXTENDS NodeProcess, TLC

CONSTANTS c1, c2, c3

MCCallers == {c1, c2, c3}
MCExitCodes == {0, 1}
MCNoCode == 99

=============================================================================
