----------------------------- MODULE MCControl ------------------------------
(***************************************************************************)
(* Control for TLC: a command of the CLI and a caller of another kind.     *)
(***************************************************************************)
EXTENDS Control, TLC

CONSTANTS call1, call2

MCCalls == {call1, call2}

\* A command for every kind of handler that a caller may run.
MCUses ==
  call1 :> {"cli"} \X {pingFunc, startFunc, waitForHealthy, healthFunc}
  @@ call2 :> ({"http", "lib"} \X {restartNodeFunc}) \cup {<<"lib", attachPeerFunc>>}

=============================================================================
