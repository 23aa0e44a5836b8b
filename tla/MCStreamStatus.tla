--------------------------- MODULE MCStreamStatus ---------------------------
(***************************************************************************)
(* StreamStatus for TLC.                                                   *)
(***************************************************************************)
EXTENDS StreamStatus

CONSTANTS st1, st2

MCStreams == {st1, st2}

=============================================================================
