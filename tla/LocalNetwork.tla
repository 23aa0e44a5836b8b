---------------------------- MODULE LocalNetwork ----------------------------
(***************************************************************************)
(* localNetwork of local/network.go: the set of luxd nodes on this         *)
(* machine, their processes, the list of beacons that new nodes bootstrap  *)
(* from, and the operations on them.                                       *)
(*                                                                         *)
(* Every operation that changes the network holds ln.lock for writing from *)
(* its first read to its last write, so it is one action whose guard is    *)
(* that no Healthy call holds the lock for reading.  What does interleave: *)
(* luxd processes that exit on their own, the steps of Healthy (which      *)
(* holds the read lock while it polls the nodes), and the two halves of    *)
(* Stop, which closes onStopCh before it asks for the lock.                *)
(*                                                                         *)
(* A node process is used through the promise of StoppableProcess: Stop    *)
(* returns once the process has ended, with its exit code, of which only   *)
(* "zero or not" matters here.  Of a node's configuration the model keeps  *)
(* the name, the identity (staking key), whether it is a beacon and the    *)
(* staking port.                                                           *)
(***************************************************************************)
EXTENDS Naturals, Sequences

CONSTANTS
  MaxName,         \* node names are 1..MaxName: "node<k>", the default pattern
  IDs,             \* node identities
  Ports,           \* staking ports
  Pids,            \* processes that can ever be launched (bounds a run)
  Configs,         \* node configs that clients submit
  NetworkConfigs,  \* sequences of node configs a network is created with
  Reassign,        \* ln.reassignPortsIfUsed
  Checkers,        \* goroutines that call Healthy
  NoName, NoID, NoPort,  \* left empty in a config
  Absent           \* no node of that name

Names == 1..MaxName

Config == [name : Names \cup {NoName}, id : IDs \cup {NoID},
           beacon : BOOLEAN, port : Ports \cup {NoPort}]

ASSUME NameAssumption == MaxName \in Nat /\ NoName \notin Names
ASSUME EmptyAssumption == NoID \notin IDs /\ NoPort \notin Ports
ASSUME ConfigAssumption == /\ Configs \subseteq Config
                           /\ NetworkConfigs \subseteq Seq(Config)
                           /\ Reassign \in BOOLEAN

\* A node that ln.nodes holds; boot are the beacons it was started with.
Node == [id : IDs, beacon : BOOLEAN, port : Ports, paused : BOOLEAN,
         proc : Pids, boot : SUBSET IDs]

ASSUME AbsentAssumption == Absent \notin Node

\* The life of a process: it exits by itself or is ended by our Stop, with exit
\* code 0 or not.  Once its node is removed the code has been reported to the
\* caller, and the process is just gone.
ProcStates == {"unused", "running", "exited0", "exited1", "stopped0", "stopped1",
               "gone"}

Idle == [pc |-> "idle", left |-> {}, cancelled |-> FALSE, failed |-> FALSE,
         dead |-> {}]

VARIABLES
  phase,           \* of NewNetwork: "new", "loading", "aborting", "ready", "failed"
  load,            \* the node configs loadConfig has still to add
  nodes,           \* ln.nodes, by name
  bootstraps,      \* ln.bootstraps: the beacons as [id, port]
  procs,           \* the OS processes
  nextNodeSuffix,  \* ln.nextNodeSuffix
  stopPc,          \* "no", "closed" (onStopCh closed, lock not held), "done"
  check            \* check[k]: the Healthy call of goroutine k

vars == <<phase, load, nodes, bootstraps, procs, nextNodeSuffix, stopPc, check>>

TypeOK ==
  /\ phase \in {"new", "loading", "aborting", "ready", "failed"}
  /\ load \in Seq(Config)
  /\ nodes \in [Names -> Node \cup {Absent}]
  /\ bootstraps \subseteq [id : IDs, port : Ports]
  /\ procs \in [Pids -> ProcStates]
  /\ nextNodeSuffix \in Nat \ {0}
  /\ stopPc \in {"no", "closed", "done"}
  /\ check \in [Checkers -> [pc : {"idle", "poll"}, left : SUBSET Names,
                             cancelled : BOOLEAN, failed : BOOLEAN,
                             dead : SUBSET Names]]

Init ==
  /\ phase = "new"
  /\ load = <<>>
  /\ nodes = [n \in Names |-> Absent]
  /\ bootstraps = {}
  /\ procs = [p \in Pids |-> "unused"]
  /\ nextNodeSuffix = 1
  /\ stopPc = "no"
  /\ check = [k \in Checkers |-> Idle]

-----------------------------------------------------------------------------
(* State predicates and functions *)

Here(ns, n) == ns[n] # Absent
Present == {n \in Names : Here(nodes, n)}
Running(p) == procs[p] = "running"

\* isPausedNode
IsPaused(ns, n) == Here(ns, n) /\ ns[n].paused

stopCalled == stopPc # "no"

\* ln.lock can be taken for writing, on a network NewNetwork has returned.
Locked == phase = "ready" /\ \A k \in Checkers : check[k].pc = "idle"

BeaconIDs(bs) == {b.id : b \in bs}

\* beacon.Set.RemoveByID
RemoveByID(bs, id) == {b \in bs : b.id # id}

\* beacon.Set.Add fails on an ID or an address it already holds.
Clash(bs, b) == \E x \in bs : x.id = b.id \/ x.port = b.port

\* What process.Stop makes of p: it ends a running process with exit code 0
\* or not (SIGKILL at the deadline is not 0), and changes nothing else.
StopOutcomes(p) == IF Running(p) THEN {"stopped0", "stopped1"} ELSE {procs[p]}
ExitedZero(s) == s \in {"exited0", "stopped0"}

\* isFreePort: no luxd of this network is bound to it.
FreePorts(ps, ns) ==
  {q \in Ports : \A n \in Names :
     Here(ns, n) /\ ps[ns[n].proc] = "running" => ns[n].port # q}

\* getPort: the configured port when it is free, another one if it is not and
\* may be reassigned (a program outside the network can hold it, too), a random
\* one when none is configured; an error, no port, otherwise.
GetPort(port, ps, ns) ==
  IF port = NoPort \/ Reassign THEN FreePorts(ps, ns)
                               ELSE FreePorts(ps, ns) \cap {port}

\* A key given in the config, or a generated one, different from all others.
NodeIDs(id, ns, bs) ==
  IF id # NoID THEN {id}
  ELSE IDs \ (BeaconIDs(bs) \cup {ns[n].id : n \in {m \in Names : Here(ns, m)}})

\* Faulty variant of FreshSuffix.
FreshSuffix_SkipsRunning(ns, k) ==
  /\ k \in Names /\ k >= nextNodeSuffix
  /\ ~Here(ns, k) \/ IsPaused(ns, k)
  /\ \A j \in nextNodeSuffix..(k - 1) : Here(ns, j)

\* setNodeName: the first default name from nextNodeSuffix on that is unused.
FreshSuffix(ns, k) ==
  /\ k \in Names /\ k >= nextNodeSuffix
  /\ ~Here(ns, k)
  /\ \A j \in nextNodeSuffix..(k - 1) : Here(ns, j)

\* Faulty variant of SetNodeName.
SetNodeName_AnyName(ns, cfg, name) ==
  IF cfg.name = NoName
  THEN FreshSuffix(ns, name) /\ nextNodeSuffix' = name
  ELSE name = cfg.name /\ UNCHANGED nextNodeSuffix

\* Faulty variant of SetNodeName.
SetNodeName_OffByOne(ns, cfg, name) ==
  IF cfg.name = NoName
  THEN FreshSuffix(ns, name) /\ nextNodeSuffix' = name - 1
  ELSE /\ name = cfg.name
       /\ ~Here(ns, name) \/ IsPaused(ns, name)
       /\ UNCHANGED nextNodeSuffix

SetNodeName(ns, cfg, name) ==
  IF cfg.name = NoName
  THEN FreshSuffix(ns, name) /\ nextNodeSuffix' = name
  ELSE /\ name = cfg.name
       /\ ~Here(ns, name) \/ IsPaused(ns, name)
       /\ UNCHANGED nextNodeSuffix

-----------------------------------------------------------------------------
(* Steps the operations share; each takes the nodes, beacons and processes  *)
(* it starts from, as restartNode adds to what removeNode left.             *)

\* addNode, from the name on, when it launches a process.  The beacons given
\* to the node are those listed before it is added itself.  A beacon that was
\* paused is taken to be still listed.  clash: bootstraps.Add fails, and
\* addNode returns an error with the node recorded and running.
Launch(ns, bs, ps, cfg, clash) ==
  \E name \in Names, id \in NodeIDs(cfg.id, ns, bs),
     port \in GetPort(cfg.port, ps, ns), p \in {q \in Pids : ps[q] = "unused"} :
    LET b == [id |-> id, port |-> port]
        joins == cfg.beacon /\ ~IsPaused(ns, name)
    IN /\ SetNodeName(ns, cfg, name)
       /\ clash = (joins /\ Clash(bs, b))
       /\ nodes' = [ns EXCEPT ![name] =
            [id |-> id, beacon |-> cfg.beacon, port |-> port, paused |-> FALSE,
             proc |-> p, boot |-> BeaconIDs(bs)]]
       /\ bootstraps' = IF joins /\ ~clash THEN bs \cup {b} ELSE bs
       /\ procs' = [ps EXCEPT ![p] = "running"]

\* removeNode: what is left of nodes, beacons and processes.
NodesWithout(n) == [nodes EXCEPT ![n] = Absent]
BootstrapsWithout(n) == RemoveByID(bootstraps, nodes[n].id)
ProcsWithout(n) ==
  IF nodes[n].paused THEN procs ELSE [procs EXCEPT ![nodes[n].proc] = "gone"]

removeNode(n) ==
  /\ nodes' = NodesWithout(n)
  /\ bootstraps' = BootstrapsWithout(n)
  /\ procs' = ProcsWithout(n)

\* stop: removeNode for every node, each with stopTimeout; errors do not end it.
StopAll ==
  LET stopped == {nodes[n].proc : n \in {m \in Present : ~nodes[m].paused}}
  IN /\ nodes' = [n \in Names |-> Absent]
     /\ bootstraps' = {b \in bootstraps : \A n \in Present : nodes[n].id # b.id}
     /\ procs' = [p \in Pids |-> IF p \in stopped THEN "gone" ELSE procs[p]]

\* The config a paused or restarted node is started with again: its own, with
\* directories and ports kept.
ConfigOf(n) == [name |-> n, id |-> nodes[n].id, beacon |-> nodes[n].beacon,
                port |-> nodes[n].port]

-----------------------------------------------------------------------------
(* NewNetwork *)

\* Faulty variant of AddedNext.
AddedNext_AsGiven(i) == i = 1

\* The config that is added next: the first beacon, and when no beacon is left
\* the first of the others.
AddedNext(i) ==
  /\ i \in DOMAIN load
  /\ load[i].beacon \/ \A j \in DOMAIN load : ~load[j].beacon
  /\ \A j \in 1..(i - 1) : load[j].beacon # load[i].beacon

LoadWithout(i) == SubSeq(load, 1, i - 1) \o SubSeq(load, i + 1, Len(load))

\* Config.Validate: beacons must be given when nodes are.
Valid(cfgs) == cfgs # <<>> => \E i \in DOMAIN cfgs : cfgs[i].beacon

LoadConfig(cfgs) ==
  /\ phase = "new"
  /\ load' = cfgs
  /\ phase' = IF ~Valid(cfgs) THEN "failed"
              ELSE IF cfgs = <<>> THEN "ready" ELSE "loading"
  /\ UNCHANGED <<nodes, bootstraps, procs, nextNodeSuffix, stopPc, check>>

LoadNode ==
  /\ phase = "loading"
  /\ \E i \in 1..Len(load), clash \in BOOLEAN :
       /\ AddedNext(i)
       /\ Launch(nodes, bootstraps, procs, load[i], clash)
       /\ load' = LoadWithout(i)
       /\ phase' = IF clash THEN "aborting"
                   ELSE IF Len(load) = 1 THEN "ready" ELSE "loading"
  /\ UNCHANGED <<stopPc, check>>

\* addNode fails before it launches a process.
LoadNodeFails ==
  /\ phase = "loading"
  /\ phase' = "aborting"
  /\ UNCHANGED <<load, nodes, bootstraps, procs, nextNodeSuffix, stopPc, check>>

\* Clean up the nodes already created; the network is never returned.
LoadAborts ==
  /\ phase = "aborting"
  /\ phase' = "failed"
  /\ StopAll
  /\ UNCHANGED <<load, nextNodeSuffix, stopPc, check>>

-----------------------------------------------------------------------------
(* The operations of network.Network; a call that only returns an error     *)
(* changes nothing and is not an action.                                    *)

ops == <<phase, load, stopPc, check>>

\* Faulty variant of AddNode.
AddNode_NoStopCheck(cfg) ==
  /\ Locked
  /\ \E clash \in BOOLEAN : Launch(nodes, bootstraps, procs, cfg, clash)
  /\ UNCHANGED ops

AddNode(cfg) ==
  /\ Locked /\ ~stopCalled
  /\ \E clash \in BOOLEAN : Launch(nodes, bootstraps, procs, cfg, clash)
  /\ UNCHANGED ops

\* addNode fails after it has chosen a name and before it launches a process.
AddNodeFails(cfg) ==
  /\ Locked /\ ~stopCalled
  /\ cfg.name = NoName
  /\ \E k \in Names : SetNodeName(nodes, cfg, k)
  /\ UNCHANGED <<ops, nodes, bootstraps, procs>>

RemoveNode(n) ==
  /\ Locked /\ ~stopCalled
  /\ Here(nodes, n)
  /\ removeNode(n)
  /\ UNCHANGED <<ops, nextNodeSuffix>>

\* An exit code other than 0 is an error, and the node is not marked paused.
PauseNode(n) ==
  /\ Locked /\ ~stopCalled
  /\ Here(nodes, n) /\ ~nodes[n].paused
  /\ \E o \in StopOutcomes(nodes[n].proc) :
       /\ procs' = [procs EXCEPT ![nodes[n].proc] = o]
       /\ nodes' = [nodes EXCEPT ![n].paused = ExitedZero(o)]
  /\ UNCHANGED <<ops, bootstraps, nextNodeSuffix>>

ResumeNode(n) ==
  /\ Locked
  /\ IsPaused(nodes, n)
  /\ Launch(nodes, bootstraps, procs, ConfigOf(n), FALSE)
  /\ UNCHANGED ops

RestartNode(n) ==
  /\ Locked
  /\ Here(nodes, n)
  /\ \E clash \in BOOLEAN :
       \/ /\ nodes[n].paused
          /\ Launch(nodes, bootstraps, procs, ConfigOf(n), clash)
       \/ /\ ~nodes[n].paused
          /\ \E o \in StopOutcomes(nodes[n].proc) : ExitedZero(o)
          /\ Launch(NodesWithout(n), BootstrapsWithout(n), ProcsWithout(n),
                    ConfigOf(n), clash)
  /\ UNCHANGED ops

\* restartNode fails after removeNode: the process exited with an error, or
\* addNode failed before launching one.  The node is gone.
RestartNodeFails(n) ==
  /\ Locked
  /\ Here(nodes, n) /\ ~nodes[n].paused
  /\ removeNode(n)
  /\ UNCHANGED <<ops, nextNodeSuffix>>

\* SaveSnapshot stops every node to copy the databases, with onStopCh open.
SaveSnapshot ==
  /\ Locked /\ ~stopCalled
  /\ StopAll
  /\ UNCHANGED <<ops, nextNodeSuffix>>

\* Stop, once: close onStopCh, then take the lock and stop every node.
StopBegins ==
  /\ phase = "ready"
  /\ stopPc = "no"
  /\ stopPc' = "closed"
  /\ UNCHANGED <<phase, load, nodes, bootstraps, procs, nextNodeSuffix, check>>

StopFinishes ==
  /\ Locked
  /\ stopPc = "closed"
  /\ StopAll
  /\ stopPc' = "done"
  /\ UNCHANGED <<phase, load, nextNodeSuffix, check>>

-----------------------------------------------------------------------------
(* Healthy: holds the read lock while one goroutine per node that is not   *)
(* paused polls it.  A call made after Stop has begun returns ErrStopped.  *)

core == <<phase, load, nodes, bootstraps, procs, nextNodeSuffix, stopPc>>

HealthyBegins(k) ==
  /\ phase = "ready"
  /\ check[k].pc = "idle"
  /\ ~stopCalled
  /\ LET polled == {n \in Present : ~nodes[n].paused}
     IN check' = [check EXCEPT ![k] =
          [pc |-> "poll", left |-> polled, cancelled |-> FALSE, failed |-> FALSE,
           dead |-> {n \in polled : ~Running(nodes[n].proc)}]]
  /\ UNCHANGED core

\* The process runs and its health API answers healthy.
PollHealthy(k, n) ==
  /\ n \in check[k].left
  /\ Running(nodes[n].proc)
  /\ check' = [check EXCEPT ![k].left = @ \ {n}]
  /\ UNCHANGED core

\* Faulty variant of PollStopped.
PollStopped_NoError(k, n) ==
  /\ n \in check[k].left
  /\ ~Running(nodes[n].proc)
  /\ check' = [check EXCEPT ![k].left = @ \ {n}]
  /\ UNCHANGED core

\* "stopped unexpectedly": the errgroup's context is cancelled for the others.
PollStopped(k, n) ==
  /\ n \in check[k].left
  /\ ~Running(nodes[n].proc)
  /\ check' = [check EXCEPT ![k] = [check[k] EXCEPT !.left = @ \ {n}, !.cancelled = TRUE,
                                                    !.failed = TRUE]]
  /\ UNCHANGED core

\* Not healthy yet, and the context is done.
PollCancelled(k, n) ==
  /\ n \in check[k].left
  /\ check[k].cancelled
  /\ check' = [check EXCEPT ![k] = [check[k] EXCEPT !.left = @ \ {n}, !.failed = TRUE]]
  /\ UNCHANGED core

\* The caller's deadline passes.
HealthyTimeout(k) ==
  /\ check[k].pc = "poll" /\ ~check[k].cancelled
  /\ check' = [check EXCEPT ![k].cancelled = TRUE]
  /\ UNCHANGED core

\* Faulty variant of HealthyStopped.
HealthyStopped_NotWatched(k) ==
  FALSE /\ UNCHANGED vars

\* The goroutine that waits for onStopCh cancels the context.
HealthyStopped(k) ==
  /\ check[k].pc = "poll" /\ ~check[k].cancelled
  /\ stopCalled
  /\ check' = [check EXCEPT ![k].cancelled = TRUE]
  /\ UNCHANGED core

HealthyReturns(k) ==
  /\ check[k].pc = "poll" /\ check[k].left = {}
  /\ check' = [check EXCEPT ![k] = Idle]
  /\ UNCHANGED core

\* A luxd process exits by itself, or is killed from outside.
ProcessExits(p, o) ==
  /\ Running(p)
  /\ procs' = [procs EXCEPT ![p] = o]
  /\ UNCHANGED <<phase, load, nodes, bootstraps, nextNodeSuffix, stopPc, check>>

-----------------------------------------------------------------------------

Poll(k) == \E n \in Names : PollHealthy(k, n) \/ PollStopped(k, n) \/ PollCancelled(k, n)

Next ==
  \/ \E cfgs \in NetworkConfigs : LoadConfig(cfgs)
  \/ LoadNode \/ LoadNodeFails \/ LoadAborts
  \/ \E cfg \in Configs : AddNode(cfg) \/ AddNodeFails(cfg)
  \/ \E n \in Names : \/ RemoveNode(n) \/ PauseNode(n) \/ ResumeNode(n)
                      \/ RestartNode(n) \/ RestartNodeFails(n)
  \/ SaveSnapshot
  \/ StopBegins \/ StopFinishes
  \/ \E k \in Checkers : \/ HealthyBegins(k) \/ Poll(k) \/ HealthyTimeout(k)
                         \/ HealthyStopped(k) \/ HealthyReturns(k)
  \/ \E p \in Pids, o \in {"exited0", "exited1"} : ProcessExits(p, o)

Spec == Init /\ [][Next]_vars

(***************************************************************************)
(* A Healthy call that runs goes on, the goroutine that watches onStopCh   *)
(* runs, and the Stop that waits for ln.lock gets it (sync.RWMutex keeps   *)
(* new readers and writers behind a waiting writer, so one that waits      *)
(* forever sees the lock free again and again: strong fairness).  No       *)
(* client deadline is assumed, and nothing about the nodes' health.        *)
(***************************************************************************)
Fairness ==
  /\ \A k \in Checkers : WF_vars(HealthyStopped(k)) /\ WF_vars(HealthyReturns(k))
  /\ \A k \in Checkers, n \in Names : WF_vars(PollStopped(k, n)) /\ WF_vars(PollCancelled(k, n))
  /\ SF_vars(StopFinishes)

FairSpec == Spec /\ Fairness

-----------------------------------------------------------------------------
(* Properties *)

\* No process is left behind: every luxd that runs is the process of a node
\* the network still lists and has not marked paused, whatever sequence of
\* adds, failed pauses, restarts and failed loads led here.
NoOrphans ==
  \A p \in Pids : Running(p) =>
    \E n \in Present : nodes[n].proc = p /\ ~nodes[n].paused

\* Once Stop has finished the network is empty and stays dead, although
\* ResumeNode and RestartNode never look at onStopCh.
StoppedIsDead ==
  stopPc = "done" \/ phase = "failed" =>
    /\ Present = {}
    /\ \A p \in Pids : ~Running(p)

\* When NewNetwork returns, every node that is not a beacon was started with
\* all of the network's beacons to bootstrap from, in whatever order the
\* config lists them.
LoadedNodesKnowBeacons ==
  [][phase = "loading" /\ phase' = "ready" =>
       \A n \in Names : Here(nodes', n) /\ ~nodes'[n].beacon =>
         nodes'[n].boot = {nodes'[m].id : m \in {b \in Names : Here(nodes', b) /\ nodes'[b].beacon}}]_vars

\* A generated name never takes over a paused node: the identity behind a
\* paused name changes only when a client submits a config with that name.
PausedNodesKept ==
  [][\A n \in Names :
       IsPaused(nodes, n) /\ Here(nodes', n) /\ nodes'[n].id # nodes[n].id =>
         \E cfg \in Configs : cfg.name = n /\ cfg.id \in {nodes'[n].id, NoID}]_vars

\* Healthy does not return nil when a node that should run was already dead
\* when the call began.
HealthyIsHonest ==
  \A k \in Checkers :
    check[k].pc = "poll" /\ check[k].left = {} /\ ~check[k].failed
      => check[k].dead = {}

\* While a Healthy call polls, no node is added, removed, paused or restarted
\* under it.
HealthyPollsListedNodes ==
  \A k \in Checkers : check[k].left \subseteq {n \in Present : ~nodes[n].paused}

\* Stop gets through: closing onStopCh before asking for the lock ends every
\* Healthy call that holds it, even if no node ever becomes healthy.
StopCompletes == stopPc = "closed" ~> stopPc = "done"

-----------------------------------------------------------------------------
(* What comments in the code say and the code does not do.                  *)

\* addNode: "Assumes [ln.lock] is held and [ln.Stop] hasn't been called."
NoLaunchAfterStop ==
  [][stopCalled => \A p \in Pids : procs[p] = "unused" => procs'[p] = "unused"]_vars

=============================================================================
