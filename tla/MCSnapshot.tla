----------------------------- MODULE MCSnapshot -----------------------------
(***************************************************************************)
(* Snapshot for TLC.                                                       *)
(***************************************************************************)
EXTENDS Snapshot

CONSTANTS net1, snap1, node1, node2, port1, port2, subnet1

MCOneNet == {net1}
MCOneSnapshot == {snap1}
MCNames == {node1, node2}
MCPorts == {port1, port2}
MCSubnets == {subnet1}

=============================================================================
