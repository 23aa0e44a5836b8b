------------------------------ MODULE Snapshot ------------------------------
(***************************************************************************)
(* Snapshots of local/snapshot.go, as LoadSnapshot, SaveSnapshot and       *)
(* RemoveSnapshot of server/server.go use them.                            *)
(*                                                                         *)
(* A network is saved, loaded and removed in many file operations.  Each   *)
(* is a step that can fail, the netrunner process can die between any two, *)
(* and networks of other processes work on the same snapshots directory.   *)
(* One network does one operation at a time (it holds s.mu and ln.lock).   *)
(*                                                                         *)
(* Of a node the model keeps whether it is a beacon, its port and its      *)
(* database; of the blockchain, which subnets were made elastic; of the    *)
(* network, subnetID2ElasticSubnetID, the map that no node's database has. *)
(***************************************************************************)
CONSTANTS
  Nets,       \* networks (netrunner processes) that share ln.snapshotsDir
  Snapshots,  \* snapshot names
  Names,      \* node names
  Ports,      \* node ports
  Subnets,    \* subnets that can be made elastic
  Reassign,   \* ln.reassignPortsIfUsed
  Absent,     \* no node of that name
  Missing,    \* no such file or directory
  Partial,    \* a file or directory that was not written to its end
  NoSnapshot, \* no operation under way
  NoContent   \* no save of that name has succeeded

NodeConfig == [beacon : BOOLEAN, port : Ports]
Nodes == [Names -> NodeConfig \cup {Absent}]
Elastic == SUBSET Subnets
DBs == [Names -> {Missing, Partial} \cup Elastic]
Content == [nodes : Nodes, db : DBs, elastic : Elastic]

ASSUME ReassignAssumption == Reassign \in BOOLEAN
ASSUME MarkAssumption == /\ Absent \notin NodeConfig
                         /\ \A x \in Elastic : x \notin {Missing, Partial}
                         /\ \A x \in Nodes : x \notin {Missing, Partial}
                         /\ Missing # Partial
                         /\ NoSnapshot \notin Snapshots
                         /\ NoContent \notin Content

VARIABLES
  up,     \* up[u]: the network object exists (s.network # nil)
  net,    \* net[u]: its nodes, their databases, its elastic subnets
  job,    \* job[u]: the operation under way: its step, snapshot, and what it holds
  dir,    \* dir[s]: the directory of snapshot s
  saved   \* saved[s]: what the SaveSnapshot that returned its path had saved

vars == <<up, net, job, dir, saved>>

NoNodes == [n \in Names |-> Absent]
NoDBs == [n \in Names |-> Missing]
Empty == [nodes |-> NoNodes, db |-> NoDBs, elastic |-> {}]
NoDir == [exists |-> FALSE, db |-> NoDBs, conf |-> Missing, state |-> Missing]
Idle == [pc |-> "idle", snap |-> NoSnapshot, todo |-> {}, held |-> Empty]

Steps == {"idle", "checked", "stopped", "saveDB", "saveState",
          "loadDB", "loadConfig", "remove"}

TypeOK ==
  /\ up \in [Nets -> BOOLEAN]
  /\ net \in [Nets -> Content]
  /\ job \in [Nets -> [pc : Steps, snap : Snapshots \cup {NoSnapshot},
                       todo : SUBSET Names, held : Content]]
  /\ dir \in [Snapshots -> [exists : BOOLEAN, db : DBs,
                            conf : {Missing, Partial} \cup Nodes,
                            state : {Missing, Partial} \cup Elastic]]
  /\ \A s \in Snapshots : dir[s].exists \/ dir[s] = NoDir
  /\ saved \in [Snapshots -> Content \cup {NoContent}]

Init ==
  /\ up = [u \in Nets |-> FALSE]
  /\ net = [u \in Nets |-> Empty]
  /\ job = [u \in Nets |-> Idle]
  /\ dir = [s \in Snapshots |-> NoDir]
  /\ saved = [s \in Snapshots |-> NoContent]

-----------------------------------------------------------------------------
(* The network between two snapshot operations *)

Present(nodes) == {n \in Names : nodes[n] # Absent}
HasBeacon(nodes) == \E n \in Present(nodes) : nodes[n].beacon

\* Validate: a network with nodes has a beacon.
Validate(nodes) == Present(nodes) = {} \/ HasBeacon(nodes)

DistinctPorts(nodes) ==
  \A m, n \in Present(nodes) : nodes[m].port = nodes[n].port => m = n

Ready(u) == up[u] /\ job[u].pc = "idle"

\* Start: a network with fresh nodes.
Start(u, nodes) ==
  /\ ~up[u] /\ job[u].pc = "idle"
  /\ Present(nodes) # {} /\ Validate(nodes) /\ DistinctPorts(nodes)
  /\ up' = [up EXCEPT ![u] = TRUE]
  /\ net' = [net EXCEPT ![u] =
       [nodes |-> nodes, elastic |-> {},
        db |-> [n \in Names |-> IF nodes[n] = Absent THEN Missing ELSE {}]]]
  /\ UNCHANGED <<job, dir, saved>>

\* RemoveNode: beacons are removed like any other node.
RemoveNode(u, n) ==
  /\ Ready(u)
  /\ n \in Present(net[u].nodes)
  /\ net' = [net EXCEPT ![u] = [net[u] EXCEPT !.nodes[n] = Absent, !.db[n] = Missing]]
  /\ UNCHANGED <<up, job, dir, saved>>

\* TransformSubnet: the transaction is accepted by all nodes, and its ID noted.
TransformSubnet(u, sn) ==
  /\ Ready(u)
  /\ Present(net[u].nodes) # {}
  /\ \A n \in Present(net[u].nodes) : net[u].db[n] # Partial /\ sn \notin net[u].db[n]
  /\ net' = [net EXCEPT ![u] = [net[u] EXCEPT
       !.elastic = @ \cup {sn},
       !.db = [n \in Names |->
                 IF net[u].nodes[n] = Absent THEN Missing ELSE net[u].db[n] \cup {sn}]]]
  /\ UNCHANGED <<up, job, dir, saved>>

\* stopAndRemoveNetwork
Stop(u) ==
  /\ Ready(u)
  /\ up' = [up EXCEPT ![u] = FALSE]
  /\ net' = [net EXCEPT ![u] = Empty]
  /\ UNCHANGED <<job, dir, saved>>

\* The netrunner process dies, whatever it was doing.
Crash(u) ==
  /\ up[u] \/ job[u].pc # "idle"
  /\ up' = [up EXCEPT ![u] = FALSE]
  /\ net' = [net EXCEPT ![u] = Empty]
  /\ job' = [job EXCEPT ![u] = Idle]
  /\ UNCHANGED <<dir, saved>>

-----------------------------------------------------------------------------
(* SaveSnapshot.  A write that the death of the process cuts short leaves   *)
(* what a write that fails leaves, so Crash itself touches no file.         *)

Snap(u) == job[u].snap
Held(u) == job[u].held
Return(u) == job' = [job EXCEPT ![u] = Idle]

\* Faulty variant of SaveChecks.
SaveChecks_NameNotChecked(u, s) ==
  /\ Ready(u)
  /\ job' = [job EXCEPT ![u] = [pc |-> "checked", snap |-> s, held |-> net[u],
                                todo |-> Present(net[u].nodes)]]
  /\ UNCHANGED <<up, net, dir, saved>>

\* No directory of that name; the configs, ports included, are copied.
SaveChecks(u, s) ==
  /\ Ready(u)
  /\ ~dir[s].exists
  /\ job' = [job EXCEPT ![u] = [pc |-> "checked", snap |-> s, held |-> net[u],
                                todo |-> Present(net[u].nodes)]]
  /\ UNCHANGED <<up, net, dir, saved>>

\* ln.stop: all nodes go, and SaveSnapshot returns when one exited badly.
SaveStops(u) ==
  /\ job[u].pc = "checked"
  /\ net' = [net EXCEPT ![u] = [net[u] EXCEPT !.nodes = NoNodes, !.db = NoDBs]]
  /\ \/ job' = [job EXCEPT ![u].pc = "stopped"]
     \/ Return(u)
  /\ UNCHANGED <<up, dir, saved>>

SaveMkdir(u) ==
  /\ job[u].pc = "stopped"
  /\ \/ /\ dir' = [dir EXCEPT ![Snap(u)].exists = TRUE]
        /\ job' = [job EXCEPT ![u].pc = "saveDB"]
     \/ /\ dir' = dir
        /\ Return(u)
  /\ UNCHANGED <<up, net, saved>>

\* dircopy.Copy into a directory: it makes the parents, and adds to what is there.
Copied(old, new) == IF old \in {Missing, new} THEN new ELSE Partial

SaveDB(u, n) ==
  /\ job[u].pc = "saveDB" /\ n \in job[u].todo
  /\ dir' = [dir EXCEPT ![Snap(u)] = [dir[Snap(u)] EXCEPT
       !.exists = TRUE, !.db[n] = Copied(@, Held(u).db[n])]]
  /\ job' = [job EXCEPT ![u].todo = @ \ {n}]
  /\ UNCHANGED <<up, net, saved>>

\* Faulty variant of SaveDBFails.
SaveDBFails_GoesOn(u, n) ==
  /\ job[u].pc = "saveDB" /\ n \in job[u].todo
  /\ \E d \in {dir[Snap(u)].db[n], Partial} :
       dir' = [dir EXCEPT ![Snap(u)] = [dir[Snap(u)] EXCEPT !.exists = TRUE, !.db[n] = d]]
  /\ job' = [job EXCEPT ![u].todo = @ \ {n}]
  /\ UNCHANGED <<up, net, saved>>

SaveDBFails(u, n) ==
  /\ job[u].pc = "saveDB" /\ n \in job[u].todo
  /\ \E d \in {dir[Snap(u)].db[n], Partial} :
       dir' = [dir EXCEPT ![Snap(u)] = [dir[Snap(u)] EXCEPT !.exists = TRUE, !.db[n] = d]]
  /\ Return(u)
  /\ UNCHANGED <<up, net, saved>>

\* createFileAndWrite: it makes the directory, truncates the file and writes.
SaveConf(u) ==
  /\ job[u].pc = "saveDB" /\ job[u].todo = {}
  /\ \/ /\ dir' = [dir EXCEPT ![Snap(u)] = [dir[Snap(u)] EXCEPT !.exists = TRUE,
                                                      !.conf = Held(u).nodes]]
        /\ job' = [job EXCEPT ![u].pc = "saveState"]
     \/ /\ \E f \in {dir[Snap(u)].conf, Partial} :
             dir' = [dir EXCEPT ![Snap(u)] = [dir[Snap(u)] EXCEPT !.exists = TRUE, !.conf = f]]
        /\ Return(u)
  /\ UNCHANGED <<up, net, saved>>

\* The last write; the server then drops the network.
SaveState(u) ==
  /\ job[u].pc = "saveState"
  /\ dir' = [dir EXCEPT ![Snap(u)] = [dir[Snap(u)] EXCEPT !.exists = TRUE,
                                                !.state = Held(u).elastic]]
  /\ saved' = [saved EXCEPT ![Snap(u)] = Held(u)]
  /\ up' = [up EXCEPT ![u] = FALSE]
  /\ net' = [net EXCEPT ![u] = Empty]
  /\ Return(u)

\* A save that fails leaves the server with a network of no nodes.
SaveStateFails(u) ==
  /\ job[u].pc = "saveState"
  /\ \E f \in {dir[Snap(u)].state, Partial} :
       dir' = [dir EXCEPT ![Snap(u)] = [dir[Snap(u)] EXCEPT !.exists = TRUE, !.state = f]]
  /\ Return(u)
  /\ UNCHANGED <<up, net, saved>>

-----------------------------------------------------------------------------
(* LoadSnapshot *)

\* The directory is there and network.json can be parsed.
LoadBegins(u, s) ==
  /\ ~up[u] /\ job[u].pc = "idle"
  /\ dir[s].exists
  /\ dir[s].conf \notin {Missing, Partial}
  /\ job' = [job EXCEPT ![u] =
       [pc |-> "loadDB", snap |-> s, todo |-> Present(dir[s].conf),
        held |-> [Empty EXCEPT !.nodes = dir[s].conf]]]
  /\ UNCHANGED <<up, net, dir, saved>>

LoadDB(u, n) ==
  /\ job[u].pc = "loadDB" /\ n \in job[u].todo
  /\ dir[Snap(u)].db[n] # Missing
  /\ job' = [job EXCEPT ![u] = [job[u] EXCEPT !.todo = @ \ {n},
                                                !.held.db[n] = dir[Snap(u)].db[n]]]
  /\ UNCHANGED <<up, net, dir, saved>>

\* Faulty variant of LoadState.
LoadState_Forgotten(u) ==
  /\ job[u].pc = "loadDB" /\ job[u].todo = {}
  /\ dir[Snap(u)].state # Partial
  /\ job' = [job EXCEPT ![u].pc = "loadConfig"]
  /\ UNCHANGED <<up, net, dir, saved>>

\* Without state.json only a warning is logged, and the map stays empty.
LoadState(u) ==
  /\ job[u].pc = "loadDB" /\ job[u].todo = {}
  /\ dir[Snap(u)].state # Partial
  /\ job' = [job EXCEPT ![u] = [job[u] EXCEPT !.pc = "loadConfig",
       !.held.elastic = IF dir[Snap(u)].state = Missing THEN {} ELSE dir[Snap(u)].state]]
  /\ UNCHANGED <<up, net, dir, saved>>

\* The ports the nodes get: the saved ones, or free ones when they may change.
Reported(nodes) ==
  {ns \in Nodes : /\ Present(ns) = Present(nodes)
                  /\ \A n \in Present(ns) : ns[n].beacon = nodes[n].beacon
                  /\ ns = nodes \/ (Reassign /\ DistinctPorts(ns))}

LoadConfig(u) ==
  /\ job[u].pc = "loadConfig"
  /\ Validate(Held(u).nodes)
  /\ up' = [up EXCEPT ![u] = TRUE]
  /\ \E ns \in Reported(Held(u).nodes) :
       net' = [net EXCEPT ![u] = [Held(u) EXCEPT !.nodes = ns]]
  /\ Return(u)
  /\ UNCHANGED <<dir, saved>>

\* A file cannot be read, the config is not valid or a node does not start:
\* the nodes started so far are stopped and the server drops the network.
LoadFails(u) ==
  /\ job[u].pc \in {"loadDB", "loadConfig"}
  /\ Return(u)
  /\ UNCHANGED <<up, net, dir, saved>>

-----------------------------------------------------------------------------
(* RemoveSnapshot: os.RemoveAll deletes what it finds, then the directory *)

RemoveBegins(u, s) ==
  /\ Ready(u)
  /\ dir[s].exists
  /\ job' = [job EXCEPT ![u] = [Idle EXCEPT !.pc = "remove", !.snap = s]]
  /\ saved' = [saved EXCEPT ![s] = NoContent]
  /\ UNCHANGED <<up, net, dir>>

RemoveEntry(u) ==
  /\ job[u].pc = "remove"
  /\ \/ \E n \in Names, d \in {Partial, Missing} :
          dir' = [dir EXCEPT ![Snap(u)].db[n] = IF @ = Missing THEN Missing ELSE d]
     \/ dir' = [dir EXCEPT ![Snap(u)].conf = Missing]
     \/ dir' = [dir EXCEPT ![Snap(u)].state = Missing]
  /\ UNCHANGED <<up, net, job, saved>>

RemoveDir(u) ==
  /\ job[u].pc = "remove"
  /\ [dir[Snap(u)] EXCEPT !.exists = FALSE] = NoDir
  /\ dir' = [dir EXCEPT ![Snap(u)] = NoDir]
  /\ Return(u)
  /\ UNCHANGED <<up, net, saved>>

RemoveFails(u) ==
  /\ job[u].pc = "remove"
  /\ Return(u)
  /\ UNCHANGED <<up, net, dir, saved>>

-----------------------------------------------------------------------------
Next ==
  \E u \in Nets :
    \/ \E nodes \in Nodes : Start(u, nodes)
    \/ \E n \in Names : RemoveNode(u, n) \/ SaveDB(u, n) \/ SaveDBFails(u, n) \/ LoadDB(u, n)
    \/ \E sn \in Subnets : TransformSubnet(u, sn)
    \/ \E s \in Snapshots : SaveChecks(u, s) \/ LoadBegins(u, s) \/ RemoveBegins(u, s)
    \/ Stop(u) \/ Crash(u)
    \/ SaveStops(u) \/ SaveMkdir(u) \/ SaveConf(u) \/ SaveState(u) \/ SaveStateFails(u)
    \/ LoadState(u) \/ LoadConfig(u) \/ LoadFails(u)
    \/ RemoveEntry(u) \/ RemoveDir(u) \/ RemoveFails(u)

Spec == Init /\ [][Next]_vars

-----------------------------------------------------------------------------
(* Properties *)

\* The directory of s holds content c.
Holds(s, c) ==
  /\ dir[s].exists
  /\ dir[s].conf = c.nodes
  /\ dir[s].state = c.elastic
  /\ \A n \in Present(c.nodes) : dir[s].db[n] = c.db[n]

\* When SaveSnapshot has returned a path, the directory holds the configs, the
\* databases and the elastic subnets of the network as it was, and goes on
\* holding them whatever else fails or dies, until RemoveSnapshot is called.
SavedIsComplete ==
  \A s \in Snapshots : saved[s] # NoContent => Holds(s, saved[s])

\* A subnet is in the map of a running network only if the blockchain in its
\* nodes' databases has the transformation.  The databases and state.json are
\* written and read one after the other, so a save or a removal that was cut
\* short, a load of what it left, and a second save under the name must never
\* bring the state of one network together with the databases of another.
MapWithinChain ==
  \A u \in Nets : up[u] => \A n \in Present(net[u].nodes) :
    net[u].db[n] # Partial => net[u].elastic \subseteq net[u].db[n]

\* A load of a saved snapshot that succeeds gives the network that was saved:
\* its nodes with their databases, its elastic subnets, and its ports unless
\* they may be reassigned.
LoadRestores ==
  [][\A u \in Nets :
       job[u].pc = "loadConfig" /\ up'[u] /\ saved[Snap(u)] # NoContent =>
         LET c == saved[Snap(u)] IN
           /\ net'[u].db = c.db
           /\ net'[u].elastic = c.elastic
           /\ net'[u].nodes \in Reported(c.nodes)]_vars

=============================================================================
