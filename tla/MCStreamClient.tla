--------------------------- MODULE MCStreamClient ---------------------------
(***************************************************************************)
(* StreamClient for TLC: the command's stream alone.                       *)
(***************************************************************************)
EXTENDS StreamClient

CONSTANT st1

MCStreams == {st1}

=============================================================================
