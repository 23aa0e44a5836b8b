----------------------------- MODULE MCSubnets ------------------------------
(***************************************************************************)
(* Subnets for TLC.                                                        *)
(***************************************************************************)
EXTENDS Subnets

CONSTANTS node1, node2, subnet1

=============================================================================
