--------------------------- MODULE MCLocalNetwork ---------------------------
(***************************************************************************)
(* LocalNetwork for TLC.                                                   *)
(***************************************************************************)
EXTENDS LocalNetwork, TLC

CONSTANTS ida, idb, idc, p1, p2, p3, k1

Cfg(name, id, beacon, port) == [name |-> name, id |-> id, beacon |-> beacon, port |-> port]

MCIDs == {ida, idb, idc}
MCIDs2 == {ida, idb}
MCPids3 == {p1, p2, p3}
MCPorts == {1, 2, 3}
MCPorts2 == {1, 2}

\* A network of a beacon and a plain node, listed plain node first; nodes
\* with generated names and keys are added later.
BeaconCfg == Cfg(1, ida, TRUE, 1)
PlainCfg == Cfg(2, idb, FALSE, 2)
FreshCfg == Cfg(NoName, NoID, FALSE, NoPort)
MCConfigs == {BeaconCfg, PlainCfg, FreshCfg}
MCNetworkConfigs == {<<PlainCfg, BeaconCfg>>, <<PlainCfg>>, <<>>}

PidSymmetry == Permutations(Pids)

=============================================================================
