------------------------- MODULE LocalNetworkProofs -------------------------
(***************************************************************************)
(* Proofs about LocalNetwork, for any names, keys, ports, configs, callers *)
(* of Healthy and any number of processes.                                 *)
(***************************************************************************)
EXTENDS LocalNetwork, SequenceTheorems, TLAPS

\* Zenon proves the leaves, except where a leaf asks for SMT.
USE Zenon

NodesType == [Names -> Node \cup {Absent}]
BootstrapsType == SUBSET [id : IDs, port : Ports]
ProcsType == [Pids -> ProcStates]

\* NoOrphans for nodes ns and processes ps.
Owned(ns, ps) ==
  \A p \in Pids : ps[p] = "running" =>
    \E n \in Names : Here(ns, n) /\ ns[n].proc = p /\ ~ns[n].paused

\* Nothing exists before the network is created.
NewInv ==
  phase = "new" => /\ \A n \in Names : ~Here(nodes, n)
                   /\ \A p \in Pids : ~Running(p)
                   /\ bootstraps = {}

\* Stop is called on a network that NewNetwork has returned, and so is Healthy.
ReadyInv ==
  /\ stopPc # "no" => phase = "ready"
  /\ phase # "ready" => \A k \in Checkers : check[k].pc = "idle"

\* The ids of the beacons among the nodes ns.
IDsOfBeacons(ns) == {ns[m].id : m \in {b \in Names : Here(ns, b) /\ ns[b].beacon}}

\* While nodes are loaded the beacon list is that of the nodes, and the first
\* node that is no beacon finds it complete.
LoadInv ==
  phase = "loading" =>
    /\ \A n \in Names : Here(nodes, n) => ~nodes[n].paused
    /\ BeaconIDs(bootstraps) = IDsOfBeacons(nodes)
    /\ \A n \in Names : Here(nodes, n) /\ ~nodes[n].beacon =>
         /\ nodes[n].boot = IDsOfBeacons(nodes)
         /\ \A i \in DOMAIN load : ~load[i].beacon

\* A Healthy call has lost sight of no node that was dead when it began.
CheckInv ==
  \A k \in Checkers :
    /\ check[k].pc = "idle" => check[k] = Idle
    /\ \A n \in check[k].left : Here(nodes, n) /\ ~nodes[n].paused
    /\ \A n \in check[k].dead : Here(nodes, n) /\ ~Running(nodes[n].proc)
    /\ ~check[k].failed => check[k].dead \subseteq check[k].left

IInv ==
  /\ TypeOK
  /\ Owned(nodes, procs)
  /\ NewInv
  /\ ReadyInv
  /\ StoppedIsDead
  /\ LoadInv
  /\ CheckInv

-----------------------------------------------------------------------------
(* The operators *)

\* What is left of a list of configs when one of them is taken out.
LEMMA LoadWithoutType ==
  ASSUME load \in Seq(Config), NEW i \in 1..Len(load)
  PROVE  /\ LoadWithout(i) \in Seq(Config)
         /\ \A j \in DOMAIN LoadWithout(i) : \E m \in DOMAIN load : LoadWithout(i)[j] = load[m]
<1> DEFINE s == load
           a == SubSeq(s, 1, i - 1)
           b == SubSeq(s, i + 1, Len(s))
<1>0. Len(s) \in Nat /\ i \in Int /\ 1 <= i /\ i <= Len(s)
  BY SMT
<1>1. /\ a \in Seq(Config) /\ Len(a) = i - 1
      /\ \A j \in 1..(i - 1) : a[j] = s[j]
  BY SMT
<1>2. /\ b \in Seq(Config) /\ Len(b) = Len(s) - i
      /\ \A j \in 1..(Len(s) - i) : b[j] = s[i + j]
  BY SMT
<1>3. LoadWithout(i) = a \o b
  BY DEF LoadWithout
<1> HIDE DEF a, b
<1>4. a \o b \in Seq(Config) /\ Len(a \o b) = Len(a) + Len(b)
  BY Zenon, <1>1, <1>2, ConcatProperties
<1>5. DOMAIN (a \o b) = 1..(Len(s) - 1)
  BY SMT, <1>0, <1>1, <1>2, <1>4
<1>6. \A j \in 1..(Len(s) - 1) : (a \o b)[j] = IF j < i THEN s[j] ELSE s[j + 1]
  BY SMT, <1>0, <1>1, <1>2, ConcatProperties
<1>7. \A j \in 1..(Len(s) - 1) : \E m \in DOMAIN s : (a \o b)[j] = s[m]
  <2>1. SUFFICES ASSUME NEW j \in 1..(Len(s) - 1)
                 PROVE  \E m \in DOMAIN s : (a \o b)[j] = s[m]
    BY Zenon
  <2>2. DOMAIN s = 1..Len(s)
    BY SMT
  <2>3. CASE j < i
    <3>1. j \in DOMAIN s
      BY SMT, <1>0, <2>2
    <3> QED BY Zenon, <1>6, <2>3, <3>1
  <2>4. CASE ~(j < i)
    <3>1. j + 1 \in DOMAIN s
      BY SMT, <1>0, <2>2
    <3> QED BY Zenon, <1>6, <2>4, <3>1
  <2> QED BY Zenon, <2>3, <2>4
<1> QED BY Zenon, <1>3, <1>4, <1>5, <1>7

\* The config a node is started with again is a config.
LEMMA ConfigOfType ==
  ASSUME TypeOK, NEW n \in Names, Here(nodes, n)
  PROVE  ConfigOf(n) \in Config
BY DEF TypeOK, Here, ConfigOf, Config, Node

Launched(ns, bs, ps, cfg, clash, name, id, port, p) ==
  /\ ~Here(ns, name) \/ IsPaused(ns, name)
  /\ ps[p] = "unused"
  /\ nodes' = [ns EXCEPT ![name] =
       [id |-> id, beacon |-> cfg.beacon, port |-> port, paused |-> FALSE,
        proc |-> p, boot |-> BeaconIDs(bs)]]
  /\ procs' = [ps EXCEPT ![p] = "running"]
  /\ bootstraps' = IF cfg.beacon /\ ~IsPaused(ns, name) /\ ~clash
                   THEN bs \cup {[id |-> id, port |-> port]} ELSE bs
  /\ nextNodeSuffix' \in Nat \ {0}

\* What is known of a launched node: its name was free or paused, its process new.
LEMMA LaunchFacts ==
  ASSUME NEW ns \in NodesType, NEW bs \in BootstrapsType, NEW ps \in ProcsType,
         NEW cfg \in Config, NEW clash \in BOOLEAN, nextNodeSuffix \in Nat \ {0},
         Launch(ns, bs, ps, cfg, clash)
  PROVE  \E name \in Names, id \in IDs, port \in Ports, p \in Pids :
           Launched(ns, bs, ps, cfg, clash, name, id, port, p)
<1>1. PICK name \in Names, id \in NodeIDs(cfg.id, ns, bs),
           port \in GetPort(cfg.port, ps, ns), p \in {q \in Pids : ps[q] = "unused"} :
         LET b == [id |-> id, port |-> port]
             joins == cfg.beacon /\ ~IsPaused(ns, name)
         IN /\ SetNodeName(ns, cfg, name)
            /\ clash = (joins /\ Clash(bs, b))
            /\ nodes' = [ns EXCEPT ![name] =
                 [id |-> id, beacon |-> cfg.beacon, port |-> port, paused |-> FALSE,
                  proc |-> p, boot |-> BeaconIDs(bs)]]
            /\ bootstraps' = IF joins /\ ~clash THEN bs \cup {b} ELSE bs
            /\ procs' = [ps EXCEPT ![p] = "running"]
  BY Zenon DEF Launch
<1>2. id \in IDs
  BY DEF NodeIDs, Config
<1>3. port \in Ports
  BY DEF GetPort, FreePorts
<1>4. ~Here(ns, name) \/ IsPaused(ns, name)
  BY <1>1 DEF SetNodeName, FreshSuffix
<1>5. nextNodeSuffix' \in Nat \ {0}
  BY SMT, <1>1, NameAssumption DEF SetNodeName, Names
<1>6. Launched(ns, bs, ps, cfg, clash, name, id, port, p)
  BY <1>1, <1>4, <1>5 DEF Launched
<1> QED BY <1>2, <1>3, <1>6

\* A launch keeps the types and leaves no process without its node.
LEMMA LaunchKeeps ==
  ASSUME NEW ns \in NodesType, NEW bs \in BootstrapsType, NEW ps \in ProcsType,
         NEW cfg \in Config, NEW clash \in BOOLEAN, nextNodeSuffix \in Nat \ {0},
         Owned(ns, ps), Launch(ns, bs, ps, cfg, clash)
  PROVE  /\ nodes' \in NodesType /\ bootstraps' \in BootstrapsType
         /\ procs' \in ProcsType /\ nextNodeSuffix' \in Nat \ {0}
         /\ Owned(nodes', procs')
<1>1. PICK name \in Names, id \in IDs, port \in Ports, p \in Pids :
           Launched(ns, bs, ps, cfg, clash, name, id, port, p)
  BY LaunchFacts
<1> USE DEF Launched
<1> DEFINE node == [id |-> id, beacon |-> cfg.beacon, port |-> port, paused |-> FALSE,
                    proc |-> p, boot |-> BeaconIDs(bs)]
<1>2. BeaconIDs(bs) \in SUBSET IDs
  BY DEF BeaconIDs, BootstrapsType
<1>3. node \in Node
  BY <1>2 DEF Node, Config
<1>4. nodes' \in NodesType
  BY <1>1, <1>3 DEF NodesType
<1>5. procs' \in ProcsType
  BY <1>1 DEF ProcsType, ProcStates
<1>6. bootstraps' \in BootstrapsType
  <2>1. [id |-> id, port |-> port] \in [id : IDs, port : Ports]
    OBVIOUS
  <2>2. bs \cup {[id |-> id, port |-> port]} \in BootstrapsType
    BY <2>1 DEF BootstrapsType
  <2> QED BY <1>1, <2>2
<1>7. Owned(nodes', procs')
  <2>1. SUFFICES ASSUME NEW q \in Pids, procs'[q] = "running"
                 PROVE  \E n \in Names : Here(nodes', n) /\ nodes'[n].proc = q /\ ~nodes'[n].paused
    BY DEF Owned
  <2>2. CASE q = p
    <3>1. nodes'[name] = node
      BY <1>1 DEF NodesType
    <3>2. Here(nodes', name)
      BY Zenon, <1>3, <3>1, AbsentAssumption DEF Here
    <3> QED BY SMT, <2>2, <3>1, <3>2
  <2>3. CASE q # p
    <3>1. ps[q] = "running"
      BY <1>1, <2>1, <2>3 DEF ProcsType
    <3>2. PICK n \in Names : Here(ns, n) /\ ns[n].proc = q /\ ~ns[n].paused
      BY <3>1 DEF Owned
    <3>3. n # name
      BY <1>1, <3>2 DEF IsPaused
    <3> QED BY <1>1, <3>2, <3>3 DEF Here, NodesType
  <2> QED BY <2>2, <2>3
<1> QED BY <1>1, <1>4, <1>5, <1>6, <1>7

-----------------------------------------------------------------------------
(* The groups of steps.  A step that leaves phase, load, stopPc and check     *)
(* alone and holds the lock has only the types, the owners of processes and   *)
(* StoppedIsDead to preserve.                                                 *)

LEMMA LockedStep ==
  ASSUME IInv, Locked, UNCHANGED ops,
         nodes' \in NodesType, bootstraps' \in BootstrapsType, procs' \in ProcsType,
         nextNodeSuffix' \in Nat \ {0}, Owned(nodes', procs'), stopPc # "done"
  PROVE  IInv'
<1>1. phase = "ready" /\ phase' = "ready" /\ load' = load /\ stopPc' = stopPc /\ check' = check
  BY DEF Locked, ops
<1>2. TypeOK'
  BY <1>1 DEF IInv, TypeOK, NodesType, BootstrapsType, ProcsType
<1>3. CheckInv'
  <2>1. \A k \in Checkers : check[k] = Idle
    BY DEF Locked, IInv, CheckInv
  <2>2. \A k \in Checkers : check'[k] = Idle
    BY <1>1, <2>1
  <2> QED BY SMT, <2>2 DEF CheckInv, Idle
<1> QED BY <1>1, <1>2, <1>3 DEF IInv, NewInv, ReadyInv, StoppedIsDead, LoadInv

\* stop: with every node removed no process runs.
LEMMA StopAllKeeps ==
  ASSUME IInv, StopAll
  PROVE  /\ nodes' \in NodesType /\ bootstraps' \in BootstrapsType /\ procs' \in ProcsType
         /\ Present' = {}
         /\ \A p \in Pids : ~(Running(p)')
         /\ Owned(nodes', procs')
<1>1. nodes' \in NodesType /\ bootstraps' \in BootstrapsType /\ procs' \in ProcsType
  BY DEF IInv, TypeOK, StopAll, NodesType, BootstrapsType, ProcsType, ProcStates
<1>2. Present' = {}
  BY DEF StopAll, Present, Here
<1>3. \A p \in Pids : procs'[p] # "running"
  BY DEF IInv, StopAll, Owned, Present
<1> QED BY <1>1, <1>2, <1>3 DEF Running, Owned

\* removeNode: the only process that loses its node is ended.
LEMMA RemoveKeeps ==
  ASSUME IInv, NEW n \in Names, Here(nodes, n)
  PROVE  /\ NodesWithout(n) \in NodesType
         /\ BootstrapsWithout(n) \in BootstrapsType
         /\ ProcsWithout(n) \in ProcsType
         /\ Owned(NodesWithout(n), ProcsWithout(n))
<1>1. NodesWithout(n) \in NodesType /\ BootstrapsWithout(n) \in BootstrapsType
  BY DEF IInv, TypeOK, NodesWithout, BootstrapsWithout, RemoveByID, NodesType, BootstrapsType
<1>2. nodes[n] \in Node
  BY DEF IInv, TypeOK, Here
<1>3. ProcsWithout(n) \in ProcsType
  BY <1>2 DEF IInv, TypeOK, ProcsWithout, ProcsType, ProcStates, Node
<1>4. Owned(NodesWithout(n), ProcsWithout(n))
  <2>1. SUFFICES ASSUME NEW p \in Pids, ProcsWithout(n)[p] = "running"
                 PROVE  \E m \in Names : /\ Here(NodesWithout(n), m)
                                         /\ NodesWithout(n)[m].proc = p
                                         /\ ~NodesWithout(n)[m].paused
    BY DEF Owned
  <2>2. procs[p] = "running" /\ (p = nodes[n].proc => nodes[n].paused)
    BY <1>2, <2>1 DEF IInv, TypeOK, ProcsWithout, Node
  <2>3. PICK m \in Names : Here(nodes, m) /\ nodes[m].proc = p /\ ~nodes[m].paused
    BY <2>2 DEF IInv, Owned
  <2>4. m # n
    BY <2>2, <2>3
  <2> QED BY <2>3, <2>4 DEF IInv, TypeOK, NodesWithout, Here
<1> QED BY <1>1, <1>3, <1>4

\* Healthy: a step of one call, with the network as it is.
LEMMA CheckStep ==
  ASSUME IInv, UNCHANGED core, TypeOK', phase = "ready", CheckInv'
  PROVE  IInv'
BY DEF IInv, core, NewInv, ReadyInv, StoppedIsDead, LoadInv, Present, Running, Owned,
       BeaconIDs, IDsOfBeacons, Here

-----------------------------------------------------------------------------
(* One lemma per part of Next *)

LEMMA InitInv == Init => IInv
<1> SUFFICES ASSUME Init PROVE IInv
  OBVIOUS
<1>1. TypeOK
  <2>1. Idle \in [pc : {"idle", "poll"}, left : SUBSET Names, cancelled : BOOLEAN,
                  failed : BOOLEAN, dead : SUBSET Names]
    BY DEF Idle
  <2> QED BY SMT, <2>1 DEF Init, TypeOK, ProcStates
<1>2. (\A n \in Names : ~Here(nodes, n)) /\ (\A p \in Pids : ~Running(p))
  BY DEF Init, Here, Running
<1>3. \A k \in Checkers : check[k] = Idle
  BY DEF Init
<1>4. CheckInv
  BY SMT, <1>3 DEF CheckInv, Idle
<1>5. ReadyInv
  BY <1>3 DEF Init, ReadyInv, Idle
<1> QED BY <1>1, <1>2, <1>4, <1>5 DEF Init, IInv, Owned, Running, NewInv, StoppedIsDead, LoadInv

\* A step of NewNetwork, before there is a caller of Healthy or Stop.
LEMMA LoadingStep ==
  ASSUME IInv, phase # "ready", UNCHANGED <<stopPc, check>>,
         phase' \in {"loading", "aborting", "ready", "failed"}, load' \in Seq(Config),
         nodes' \in NodesType, bootstraps' \in BootstrapsType, procs' \in ProcsType,
         nextNodeSuffix' \in Nat \ {0}, Owned(nodes', procs'), LoadInv',
         phase' = "failed" => Present' = {} /\ \A p \in Pids : ~(Running(p)')
  PROVE  IInv'
<1>1. stopPc = "no" /\ stopPc' = "no" /\ check' = check
  BY DEF IInv, TypeOK, ReadyInv
<1>2. TypeOK'
  BY <1>1 DEF IInv, TypeOK, NodesType, BootstrapsType, ProcsType
<1>3. \A k \in Checkers : check'[k] = Idle
  BY <1>1 DEF IInv, ReadyInv, CheckInv
<1>4. CheckInv'
  BY SMT, <1>3 DEF CheckInv, Idle
<1>5. ReadyInv'
  BY SMT, <1>1, <1>3 DEF ReadyInv, Idle
<1> QED BY <1>1, <1>2, <1>4, <1>5 DEF IInv, NewInv, StoppedIsDead

LEMMA LoadConfigInv ==
  ASSUME IInv, NEW cfgs \in NetworkConfigs, LoadConfig(cfgs)
  PROVE  IInv'
<1>1. cfgs \in Seq(Config)
  BY ConfigAssumption
<1>2. /\ \A n \in Names : ~Here(nodes, n)
      /\ \A p \in Pids : ~Running(p)
      /\ bootstraps = {}
  BY DEF IInv, NewInv, LoadConfig
<1>3. /\ load' = cfgs /\ phase' \in {"loading", "ready", "failed"}
      /\ nodes' = nodes /\ bootstraps' = bootstraps /\ procs' = procs
      /\ nextNodeSuffix' = nextNodeSuffix /\ stopPc' = stopPc /\ check' = check
      /\ phase = "new"
  BY DEF LoadConfig
<1>4. LoadInv'
  <2>1. BeaconIDs(bootstraps') = {}
    BY <1>2, <1>3 DEF BeaconIDs
  <2>2. IDsOfBeacons(nodes') = {}
    BY <1>2, <1>3 DEF IDsOfBeacons, Here
  <2>3. \A n \in Names : ~Here(nodes', n)
    BY <1>2, <1>3 DEF Here
  <2> QED BY <2>1, <2>2, <2>3 DEF LoadInv
<1>5. Present' = {} /\ \A p \in Pids : ~(Running(p)')
  BY <1>2, <1>3 DEF Present, Here, Running
<1>6. nodes' \in NodesType /\ bootstraps' \in BootstrapsType /\ procs' \in ProcsType
      /\ nextNodeSuffix' \in Nat \ {0}
  BY <1>3 DEF IInv, TypeOK, NodesType, BootstrapsType, ProcsType
<1>7. Owned(nodes', procs')
  BY <1>3 DEF IInv
<1> QED BY <1>1, <1>3, <1>4, <1>5, <1>6, <1>7, LoadingStep

\* The heart of LoadedNodesKnowBeacons: addNode called by loadConfig leaves the
\* list of beacons and the nodes in agreement.
LEMMA LoadNodeAgrees ==
  ASSUME IInv, phase = "loading", NEW i \in 1..Len(load), AddedNext(i),
         Launch(nodes, bootstraps, procs, load[i], FALSE), load' = LoadWithout(i)
  PROVE  /\ \A n \in Names : Here(nodes', n) => ~nodes'[n].paused
         /\ BeaconIDs(bootstraps') = IDsOfBeacons(nodes')
         /\ \A n \in Names : Here(nodes', n) /\ ~nodes'[n].beacon =>
              /\ nodes'[n].boot = IDsOfBeacons(nodes')
              /\ \A j \in DOMAIN load' : ~load'[j].beacon
<1>0. /\ load \in Seq(Config) /\ nodes \in NodesType /\ bootstraps \in BootstrapsType
      /\ procs \in ProcsType /\ nextNodeSuffix \in Nat \ {0} /\ load[i] \in Config
  BY SMT DEF IInv, TypeOK, NodesType, BootstrapsType, ProcsType
<1>1. PICK name \in Names, id \in IDs, port \in Ports, p \in Pids :
           Launched(nodes, bootstraps, procs, load[i], FALSE, name, id, port, p)
  BY Zenon, <1>0, LaunchFacts
<1>2. /\ \A n \in Names : Here(nodes, n) => ~nodes[n].paused
      /\ BeaconIDs(bootstraps) = IDsOfBeacons(nodes)
      /\ \A n \in Names : Here(nodes, n) /\ ~nodes[n].beacon =>
           /\ nodes[n].boot = IDsOfBeacons(nodes)
           /\ \A j \in DOMAIN load : ~load[j].beacon
  BY DEF IInv, LoadInv
<1>3. ~Here(nodes, name) /\ ~IsPaused(nodes, name)
  BY <1>1, <1>2 DEF Launched, IsPaused
<1> DEFINE node == [id |-> id, beacon |-> load[i].beacon, port |-> port, paused |-> FALSE,
                    proc |-> p, boot |-> BeaconIDs(bootstraps)]
<1>4. node \in Node
  <2>1. BeaconIDs(bootstraps) \in SUBSET IDs
    BY <1>0 DEF BeaconIDs, BootstrapsType
  <2>2. load[i].beacon \in BOOLEAN
    BY <1>0 DEF Config
  <2> QED BY <2>1, <2>2 DEF Node
<1>5. /\ nodes'[name] = node /\ Here(nodes', name)
      /\ \A n \in Names \ {name} : nodes'[n] = nodes[n]
  BY Zenon, <1>0, <1>1, <1>4, AbsentAssumption DEF Launched, Here, NodesType
<1>6. \A n \in Names : Here(nodes', n) => ~nodes'[n].paused
  BY SMT, <1>2, <1>5 DEF Here
<1>7. CASE load[i].beacon
  <2>1. IDsOfBeacons(nodes') = IDsOfBeacons(nodes) \cup {id}
    BY SMT, <1>3, <1>5, <1>7 DEF IDsOfBeacons, Here
  <2>2. BeaconIDs(bootstraps') = BeaconIDs(bootstraps) \cup {id}
    <3>1. bootstraps' = bootstraps \cup {[id |-> id, port |-> port]}
      BY <1>1, <1>3, <1>7 DEF Launched
    <3>2. [id |-> id, port |-> port].id = id
      OBVIOUS
    <3> QED BY Zenon, <3>1, <3>2 DEF BeaconIDs
  <2>3. \A n \in Names : Here(nodes', n) => nodes'[n].beacon
    <3>1. \A n \in Names : Here(nodes, n) => nodes[n].beacon
      BY SMTT(20), <1>0, <1>2, <1>7
    <3>2. nodes'[name].beacon
      BY SMT, <1>5, <1>7
    <3> QED BY <1>5, <3>1, <3>2 DEF Here
  <2> QED BY <1>2, <1>6, <2>1, <2>2, <2>3
<1>8. CASE ~load[i].beacon
  <2>1. IDsOfBeacons(nodes') = IDsOfBeacons(nodes)
    BY SMT, <1>3, <1>5, <1>8 DEF IDsOfBeacons, Here
  <2>2. bootstraps' = bootstraps
    BY <1>1, <1>8 DEF Launched
  <2>3. \A j \in DOMAIN load : ~load[j].beacon
    BY <1>8 DEF AddedNext
  <2>4. \A j \in DOMAIN load' : ~load'[j].beacon
    BY <1>0, <2>3, LoadWithoutType
  <2>5. \A n \in Names : Here(nodes', n) /\ ~nodes'[n].beacon =>
          nodes'[n].boot = IDsOfBeacons(nodes')
    BY SMT, <1>2, <1>5, <2>1 DEF Here
  <2> QED BY <1>2, <1>6, <2>1, <2>2, <2>4, <2>5
<1> QED BY <1>7, <1>8

LEMMA LoadInvs ==
  ASSUME IInv, LoadNode \/ LoadNodeFails \/ LoadAborts
  PROVE  IInv'
<1>0. /\ load \in Seq(Config) /\ nodes \in NodesType /\ bootstraps \in BootstrapsType
      /\ procs \in ProcsType /\ nextNodeSuffix \in Nat \ {0} /\ Owned(nodes, procs)
  BY DEF IInv, TypeOK, NodesType, BootstrapsType, ProcsType
<1>1. CASE LoadNode
  <2>1. PICK i \in 1..Len(load), clash \in BOOLEAN :
          /\ AddedNext(i)
          /\ Launch(nodes, bootstraps, procs, load[i], clash)
          /\ load' = LoadWithout(i)
          /\ phase' = IF clash THEN "aborting"
                      ELSE IF Len(load) = 1 THEN "ready" ELSE "loading"
    BY <1>1 DEF LoadNode
  <2>2. load[i] \in Config
    BY SMT, <1>0
  <2>3. /\ nodes' \in NodesType /\ bootstraps' \in BootstrapsType
        /\ procs' \in ProcsType /\ nextNodeSuffix' \in Nat \ {0}
        /\ Owned(nodes', procs')
    BY SMTT(20), <1>0, <2>1, <2>2, LaunchKeeps
  <2>4. load' \in Seq(Config)
    BY <1>0, <2>1, LoadWithoutType
  <2>5. LoadInv'
    <3>1. CASE clash
      BY <2>1, <3>1 DEF LoadInv
    <3>2. CASE ~clash
      <4>1. clash = FALSE
        BY <3>2
      <4>2. Launch(nodes, bootstraps, procs, load[i], FALSE)
        BY Zenon, <2>1, <4>1
      <4>3. phase = "loading"
        BY <1>1 DEF LoadNode
      <4> QED BY Zenon, <2>1, <4>2, <4>3, LoadNodeAgrees DEF LoadInv
    <3> QED BY <3>1, <3>2
  <2>6. /\ phase # "ready" /\ UNCHANGED <<stopPc, check>>
        /\ phase' \in {"loading", "aborting", "ready"}
    BY <1>1, <2>1 DEF LoadNode
  <2> QED BY <2>3, <2>4, <2>5, <2>6, LoadingStep
<1>2. CASE LoadNodeFails
  <2>1. /\ phase # "ready" /\ phase' = "aborting" /\ load' = load /\ nodes' = nodes
        /\ bootstraps' = bootstraps /\ procs' = procs
        /\ nextNodeSuffix' = nextNodeSuffix /\ UNCHANGED <<stopPc, check>>
    BY <1>2 DEF LoadNodeFails
  <2>2. LoadInv'
    BY <2>1 DEF LoadInv
  <2>3. Owned(nodes', procs')
    BY <1>0, <2>1
  <2> QED BY <1>0, <2>1, <2>2, <2>3, LoadingStep
<1>3. CASE LoadAborts
  <2>1. /\ phase # "ready" /\ phase' = "failed" /\ load' = load /\ StopAll
        /\ nextNodeSuffix' = nextNodeSuffix /\ UNCHANGED <<stopPc, check>>
    BY <1>3 DEF LoadAborts
  <2>2. LoadInv'
    BY <2>1 DEF LoadInv
  <2> QED BY <1>0, <2>1, <2>2, StopAllKeeps, LoadingStep
<1> QED BY <1>1, <1>2, <1>3

\* The operations of network.Network that hold the lock.
LEMMA OpsInv ==
  ASSUME IInv,
         \/ \E cfg \in Configs : AddNode(cfg) \/ AddNodeFails(cfg)
         \/ \E n \in Names : \/ RemoveNode(n) \/ PauseNode(n) \/ ResumeNode(n)
                             \/ RestartNode(n) \/ RestartNodeFails(n)
         \/ SaveSnapshot
  PROVE  IInv'
<1>0. /\ nodes \in NodesType /\ bootstraps \in BootstrapsType /\ procs \in ProcsType
      /\ nextNodeSuffix \in Nat \ {0} /\ Owned(nodes, procs) /\ TypeOK
  BY DEF IInv, TypeOK, NodesType, BootstrapsType, ProcsType
<1>1. \A n \in Names : Here(nodes, n) => stopPc # "done"
  BY DEF IInv, StoppedIsDead, Present
<1>2. ASSUME NEW cfg \in Configs, AddNode(cfg) PROVE IInv'
  <2>1. cfg \in Config
    BY ConfigAssumption
  <2>2. Locked /\ stopPc # "done" /\ UNCHANGED ops
    BY <1>2 DEF AddNode, stopCalled
  <2> QED BY <1>0, <1>2, <2>1, <2>2, LaunchKeeps, LockedStep DEF AddNode
<1>3. ASSUME NEW cfg \in Configs, AddNodeFails(cfg) PROVE IInv'
  <2>1. /\ Locked /\ stopPc # "done" /\ UNCHANGED ops
        /\ nodes' = nodes /\ bootstraps' = bootstraps /\ procs' = procs
    BY <1>3 DEF AddNodeFails, stopCalled
  <2>2. nextNodeSuffix' \in Nat \ {0}
    BY SMT, <1>0, <1>3, NameAssumption DEF AddNodeFails, SetNodeName, Names
  <2>3. Owned(nodes', procs')
    BY <1>0, <2>1
  <2> QED BY <1>0, <2>1, <2>2, <2>3, LockedStep
<1>4. ASSUME NEW n \in Names, RemoveNode(n) \/ RestartNodeFails(n) PROVE IInv'
  <2>1. /\ Locked /\ Here(nodes, n) /\ removeNode(n) /\ UNCHANGED ops
        /\ nextNodeSuffix' = nextNodeSuffix
    BY <1>4 DEF RemoveNode, RestartNodeFails
  <2>2. /\ nodes' \in NodesType /\ bootstraps' \in BootstrapsType /\ procs' \in ProcsType
        /\ Owned(nodes', procs')
    BY <2>1, RemoveKeeps DEF removeNode
  <2> QED BY <1>0, <1>1, <2>1, <2>2, LockedStep
<1>5. ASSUME NEW n \in Names, PauseNode(n) PROVE IInv'
  <2>1. /\ Locked /\ Here(nodes, n) /\ ~nodes[n].paused /\ UNCHANGED ops
        /\ bootstraps' = bootstraps /\ nextNodeSuffix' = nextNodeSuffix
    BY <1>5 DEF PauseNode
  <2>2. PICK o \in StopOutcomes(nodes[n].proc) :
          /\ procs' = [procs EXCEPT ![nodes[n].proc] = o]
          /\ nodes' = [nodes EXCEPT ![n].paused = ExitedZero(o)]
    BY Zenon, <1>5 DEF PauseNode
  <2>3. nodes[n] \in Node /\ nodes[n].proc \in Pids
    BY <1>0, <2>1 DEF NodesType, Here, Node
  <2>4. o \in ProcStates /\ o # "running"
    BY <1>0, <2>3 DEF StopOutcomes, Running, ProcsType, ProcStates
  <2>5. procs' \in ProcsType
    BY Zenon, <1>0, <2>2, <2>4 DEF ProcsType
  <2>6. nodes' \in NodesType
    <3>1. ExitedZero(o) \in BOOLEAN
      BY SMT DEF ExitedZero
    <3>2. [nodes[n] EXCEPT !.paused = ExitedZero(o)] \in Node
      BY <2>3, <3>1 DEF Node
    <3> QED BY <1>0, <2>2, <3>2 DEF NodesType
  <2>7. Owned(nodes', procs')
    <3>1. SUFFICES ASSUME NEW p \in Pids, procs'[p] = "running"
                   PROVE  \E m \in Names : /\ Here(nodes', m) /\ nodes'[m].proc = p
                                           /\ ~nodes'[m].paused
      BY DEF Owned
    <3>2. p # nodes[n].proc /\ procs[p] = "running"
      BY <1>0, <2>2, <2>3, <2>4, <3>1 DEF ProcsType
    <3>3. PICK m \in Names : Here(nodes, m) /\ nodes[m].proc = p /\ ~nodes[m].paused
      BY <1>0, <3>2 DEF Owned
    <3>4. m # n
      BY <3>2, <3>3
    <3>5. nodes'[m] = nodes[m]
      BY <1>0, <2>2, <3>4 DEF NodesType
    <3> QED BY <3>3, <3>5 DEF Here
  <2> QED BY <1>0, <1>1, <2>1, <2>5, <2>6, <2>7, LockedStep
<1>6. ASSUME NEW n \in Names, ResumeNode(n) PROVE IInv'
  <2>1. Locked /\ Here(nodes, n) /\ UNCHANGED ops
    BY <1>6 DEF ResumeNode, IsPaused
  <2>2. ConfigOf(n) \in Config
    BY <1>0, <2>1, ConfigOfType
  <2> QED BY Zenon, <1>0, <1>1, <1>6, <2>1, <2>2, LaunchKeeps, LockedStep DEF ResumeNode
<1>7. ASSUME NEW n \in Names, RestartNode(n) PROVE IInv'
  <2>1. Locked /\ Here(nodes, n) /\ UNCHANGED ops
    BY <1>7 DEF RestartNode
  <2>2. ConfigOf(n) \in Config
    BY <1>0, <2>1, ConfigOfType
  <2>3. PICK clash \in BOOLEAN :
          \/ Launch(nodes, bootstraps, procs, ConfigOf(n), clash)
          \/ Launch(NodesWithout(n), BootstrapsWithout(n), ProcsWithout(n),
                    ConfigOf(n), clash)
    BY <1>7 DEF RestartNode
  <2>4. /\ nodes' \in NodesType /\ bootstraps' \in BootstrapsType
        /\ procs' \in ProcsType /\ nextNodeSuffix' \in Nat \ {0}
        /\ Owned(nodes', procs')
    BY <1>0, <2>1, <2>2, <2>3, RemoveKeeps, LaunchKeeps
  <2> QED BY <1>1, <2>1, <2>4, LockedStep
<1>8. CASE SaveSnapshot
  <2>1. /\ Locked /\ stopPc # "done" /\ StopAll /\ UNCHANGED ops
        /\ nextNodeSuffix' = nextNodeSuffix
    BY <1>8 DEF SaveSnapshot, stopCalled
  <2> QED BY <1>0, <2>1, StopAllKeeps, LockedStep
<1> QED BY <1>2, <1>3, <1>4, <1>5, <1>6, <1>7, <1>8

LEMMA StopInv ==
  ASSUME IInv, StopBegins \/ StopFinishes
  PROVE  IInv'
<1>1. CASE StopBegins
  BY SMTT(20), <1>1 DEF StopBegins, IInv, TypeOK, Owned, NewInv, ReadyInv, StoppedIsDead, LoadInv,
              CheckInv, Running
<1>2. CASE StopFinishes
  <2>1. /\ Locked /\ StopAll /\ stopPc' = "done" /\ phase = "ready" /\ phase' = "ready"
        /\ load' = load /\ nextNodeSuffix' = nextNodeSuffix /\ check' = check
    BY <1>2 DEF StopFinishes, Locked
  <2>2. /\ nodes' \in NodesType /\ bootstraps' \in BootstrapsType /\ procs' \in ProcsType
        /\ Present' = {} /\ (\A p \in Pids : ~(Running(p)')) /\ Owned(nodes', procs')
    BY <2>1, StopAllKeeps
  <2>3. TypeOK'
    BY <2>1, <2>2 DEF IInv, TypeOK, NodesType, BootstrapsType, ProcsType
  <2>4. \A k \in Checkers : check'[k] = Idle
    BY <2>1 DEF IInv, CheckInv, Locked
  <2>5. CheckInv'
    BY SMT, <2>4 DEF CheckInv, Idle
  <2> QED BY Zenon, <2>1, <2>2, <2>3, <2>5 DEF IInv, NewInv, ReadyInv, StoppedIsDead, LoadInv
<1> QED BY SMTT(20), <1>1, <1>2

LEMMA ProcessExitsInv ==
  ASSUME IInv, NEW p \in Pids, NEW o \in {"exited0", "exited1"}, ProcessExits(p, o)
  PROVE  IInv'
<1>1. /\ procs' = [procs EXCEPT ![p] = o]
      /\ UNCHANGED <<phase, load, nodes, bootstraps, nextNodeSuffix, stopPc, check>>
  BY DEF ProcessExits
<1>2. \A q \in Pids : procs'[q] = "running" => procs[q] = "running"
  BY <1>1 DEF IInv, TypeOK
<1>3. TypeOK'
  BY <1>1 DEF IInv, TypeOK, ProcStates
<1>4. Owned(nodes', procs')
  BY <1>1, <1>2 DEF IInv, Owned
<1>5. NewInv' /\ StoppedIsDead' /\ ReadyInv' /\ LoadInv'
  BY SMTT(20), <1>1, <1>2 DEF IInv, NewInv, StoppedIsDead, ReadyInv, LoadInv, Running, Present
<1>6. CheckInv'
  <2>1. \A k \in Checkers : \A n \in check[k].dead : nodes[n].proc \in Pids
    <3>1. SUFFICES ASSUME NEW k \in Checkers, NEW n \in check[k].dead
                   PROVE  nodes[n].proc \in Pids
      OBVIOUS
    <3>2. n \in Names /\ Here(nodes, n)
      BY <3>1 DEF IInv, TypeOK, CheckInv
    <3> QED BY <3>2 DEF IInv, TypeOK, Here, Node
  <2>2. \A k \in Checkers : \A n \in check[k].dead : procs'[nodes[n].proc] # "running"
    BY <1>2, <2>1 DEF IInv, CheckInv, Running
  <2> QED BY <1>1, <2>2 DEF IInv, CheckInv, Running
<1> QED BY <1>3, <1>4, <1>5, <1>6 DEF IInv

\* A call that polls, or begins to: the network has been returned.
LEMMA HealthyInv ==
  ASSUME IInv, NEW k \in Checkers,
         \/ HealthyBegins(k) \/ Poll(k) \/ HealthyTimeout(k)
         \/ HealthyStopped(k) \/ HealthyReturns(k)
  PROVE  IInv'
<1> DEFINE Call == [pc : {"idle", "poll"}, left : SUBSET Names, cancelled : BOOLEAN,
                    failed : BOOLEAN, dead : SUBSET Names]
           Fine(c) == /\ c.pc = "idle" => c = Idle
                      /\ \A n \in c.left : Here(nodes, n) /\ ~nodes[n].paused
                      /\ \A n \in c.dead : Here(nodes, n) /\ ~Running(nodes[n].proc)
                      /\ ~c.failed => c.dead \subseteq c.left
<1>1. check \in [Checkers -> Call] /\ check[k] \in Call /\ \A j \in Checkers : Fine(check[j])
  BY DEF IInv, TypeOK, CheckInv
<1>2. check[k].pc = "poll" => phase = "ready"
  BY SMTT(20) DEF IInv, ReadyInv
<1>3. check[k].left # {} => check[k].pc = "poll"
  <2>1. check[k].pc = "idle" => check[k] = Idle
    BY <1>1
  <2>2. Idle.left = {}
    BY DEF Idle
  <2>3. check[k].pc \in {"idle", "poll"}
    BY <1>1
  <2> HIDE DEF Call, Fine
  <2> QED BY <2>1, <2>2, <2>3
<1>4. ASSUME UNCHANGED core, phase = "ready", NEW c, c \in Call, Fine(c),
             check' = [check EXCEPT ![k] = c]
      PROVE  IInv'
  <2>1. TypeOK'
    BY <1>1, <1>4 DEF IInv, TypeOK, core
  <2>2. \A j \in Checkers : Fine(check'[j])
    BY <1>1, <1>4
  <2>3. CheckInv'
    BY <1>4, <2>2 DEF CheckInv, core, Here, Running
  <2> QED BY <1>4, <2>1, <2>3, CheckStep
<1>5. CASE HealthyBegins(k)
  <2> DEFINE polled == {n \in Present : ~nodes[n].paused}
             c == [pc |-> "poll", left |-> polled, cancelled |-> FALSE, failed |-> FALSE,
                   dead |-> {n \in polled : ~Running(nodes[n].proc)}]
  <2>1. c \in Call /\ Fine(c)
    BY DEF Present
  <2>2. UNCHANGED core /\ phase = "ready" /\ check' = [check EXCEPT ![k] = c]
    BY <1>5 DEF HealthyBegins
  <2> HIDE DEF c, Call, Fine
  <2> QED BY ZenonT(30), <1>4, <2>1, <2>2
<1>6. CASE Poll(k)
  <2>1. PICK n \in Names : PollHealthy(k, n) \/ PollStopped(k, n) \/ PollCancelled(k, n)
    BY <1>6 DEF Poll
  <2>2. n \in check[k].left /\ UNCHANGED core /\ phase = "ready" /\ check[k].pc = "poll"
    BY <1>2, <1>3, <2>1 DEF PollHealthy, PollStopped, PollCancelled
  <2>3. CASE PollHealthy(k, n)
    <3> DEFINE c == [check[k] EXCEPT !.left = @ \ {n}]
    <3>1. n \notin check[k].dead
      BY <1>1, <2>3 DEF PollHealthy
    <3>2. c \in Call /\ Fine(c)
      BY <1>1, <2>2, <3>1
    <3>3. check' = [check EXCEPT ![k] = c]
      BY <1>1, <2>3 DEF PollHealthy
    <3> HIDE DEF c, Call, Fine
    <3> QED BY Zenon, <1>4, <2>2, <3>2, <3>3
  <2>4. CASE PollStopped(k, n)
    <3> DEFINE c == [check[k] EXCEPT !.left = @ \ {n}, !.cancelled = TRUE, !.failed = TRUE]
    <3>1. c \in Call /\ Fine(c)
      BY Zenon, <1>1, <2>2
    <3>2. check' = [check EXCEPT ![k] = c]
      BY <1>1, <2>4 DEF PollStopped
    <3> HIDE DEF c, Call, Fine
    <3> QED BY Zenon, <1>4, <2>2, <3>1, <3>2
  <2>5. CASE PollCancelled(k, n)
    <3> DEFINE c == [check[k] EXCEPT !.left = @ \ {n}, !.failed = TRUE]
    <3>1. c \in Call /\ Fine(c)
      BY Zenon, <1>1, <2>2
    <3>2. check' = [check EXCEPT ![k] = c]
      BY <1>1, <2>5 DEF PollCancelled
    <3> HIDE DEF c, Call, Fine
    <3> QED BY Zenon, <1>4, <2>2, <3>1, <3>2
  <2> QED BY <2>1, <2>3, <2>4, <2>5
<1>7. CASE HealthyTimeout(k) \/ HealthyStopped(k)
  <2> DEFINE c == [check[k] EXCEPT !.cancelled = TRUE]
  <2>1. check[k].pc = "poll" /\ UNCHANGED core /\ check' = [check EXCEPT ![k] = c]
    BY <1>1, <1>7 DEF HealthyTimeout, HealthyStopped
  <2>2. c \in Call /\ Fine(c)
    BY Zenon, <1>1, <2>1
  <2> HIDE DEF c, Call, Fine
  <2> QED BY Zenon, <1>2, <1>4, <2>1, <2>2
<1>8. CASE HealthyReturns(k)
  <2>1. Idle \in Call /\ Fine(Idle)
    BY DEF Idle
  <2>2. phase = "ready" /\ UNCHANGED core /\ check' = [check EXCEPT ![k] = Idle]
    BY <1>2, <1>8 DEF HealthyReturns
  <2> HIDE DEF Call, Fine
  <2> QED BY Zenon, <1>4, <2>1, <2>2
<1> QED BY <1>5, <1>6, <1>7, <1>8

LEMMA StepInv == IInv /\ [Next]_vars => IInv'
<1> SUFFICES ASSUME IInv, [Next]_vars PROVE IInv'
  BY SMTT(20)
<1>1. CASE UNCHANGED vars
  BY SMT, <1>1 DEF vars, IInv, TypeOK, Owned, NewInv, ReadyInv, StoppedIsDead, LoadInv, CheckInv,
              Running, Present
<1>2. CASE Next
  BY <1>2, LoadConfigInv, LoadInvs, OpsInv, StopInv, HealthyInv, ProcessExitsInv DEF Next
<1> QED BY <1>1, <1>2

-----------------------------------------------------------------------------
(* The theorems *)

\* Every reachable state satisfies the inductive invariant.
THEOREM Invariance == Spec => []IInv
BY InitInv, StepInv, PTL DEF Spec

\* Every variable keeps its type: addNode, removeNode, pauses, loads and polls
\* never leave a malformed entry in ln.nodes or in the list of beacons.
THEOREM TypeCorrectness == Spec => []TypeOK
<1>1. IInv => TypeOK
  BY DEF IInv
<1> QED BY <1>1, Invariance, PTL

\* No sequence of operations and failures, addNode and restartNode included,
\* leaves a luxd process running that no listed node owns.
THEOREM NothingOrphaned == Spec => []NoOrphans
<1>1. IInv => NoOrphans
  BY DEF IInv, Owned, NoOrphans, Running, Present
<1> QED BY <1>1, Invariance, PTL

\* After Stop has finished, or NewNetwork has failed, no node is listed and no
\* process runs, ever again.
THEOREM DeadAfterStop == Spec => []StoppedIsDead
<1>1. IInv => StoppedIsDead
  BY DEF IInv
<1> QED BY <1>1, Invariance, PTL

\* Healthy reports an error when a node was dead as the call began.
THEOREM HonestHealth == Spec => []HealthyIsHonest
<1>1. IInv => HealthyIsHonest
  BY DEF IInv, CheckInv, HealthyIsHonest
<1> QED BY <1>1, Invariance, PTL

\* The nodes Healthy still polls are listed and not paused: ln.lock keeps every
\* change of the network out while it polls.
THEOREM StablePolls == Spec => []HealthyPollsListedNodes
<1>1. IInv => HealthyPollsListedNodes
  BY DEF IInv, TypeOK, CheckInv, HealthyPollsListedNodes, Present
<1> QED BY <1>1, Invariance, PTL

\* loadConfig, which adds beacons first, gives every plain node all the beacons.
THEOREM BeaconsKnown == Spec => LoadedNodesKnowBeacons
<1> DEFINE A == phase = "loading" /\ phase' = "ready" =>
                  \A n \in Names : Here(nodes', n) /\ ~nodes'[n].beacon =>
                    nodes'[n].boot = IDsOfBeacons(nodes')
<1>1. IInv /\ [Next]_vars => [A]_vars
  <2> SUFFICES ASSUME IInv, Next, phase = "loading", phase' = "ready",
                      NEW n \in Names, Here(nodes', n), ~nodes'[n].beacon
               PROVE  nodes'[n].boot = IDsOfBeacons(nodes')
    OBVIOUS
  <2>1. LoadNode
    BY DEF Next, LoadConfig, LoadNodeFails, LoadAborts, AddNode, AddNodeFails, RemoveNode,
           PauseNode, ResumeNode, RestartNode, RestartNodeFails, SaveSnapshot, StopBegins,
           StopFinishes, Locked, HealthyBegins, Poll, PollHealthy, PollStopped,
           PollCancelled, HealthyTimeout, HealthyStopped, HealthyReturns, core, ProcessExits
  <2>2. PICK i \in 1..Len(load), clash \in BOOLEAN :
          /\ AddedNext(i)
          /\ Launch(nodes, bootstraps, procs, load[i], clash)
          /\ load' = LoadWithout(i)
          /\ phase' = IF clash THEN "aborting"
                      ELSE IF Len(load) = 1 THEN "ready" ELSE "loading"
    BY <2>1 DEF LoadNode
  <2>3. clash = FALSE
    BY <2>2
  <2> QED BY Zenon, <2>2, <2>3, LoadNodeAgrees
<1>2. LoadedNodesKnowBeacons <=> [][A]_vars
  BY DEF LoadedNodesKnowBeacons, IDsOfBeacons
<1> QED BY <1>1, <1>2, Invariance, PTL DEF Spec

\* A launch changes the identity of a paused node only if its config names it
\* and gives the new identity, or none.
LEMMA LaunchKeepsPaused ==
  ASSUME NEW ns \in NodesType, NEW bs, NEW ps, NEW cfg \in Config, NEW clash,
         Launch(ns, bs, ps, cfg, clash),
         NEW n \in Names, IsPaused(ns, n), nodes'[n].id # ns[n].id
  PROVE  cfg.name = n /\ cfg.id \in {nodes'[n].id, NoID}
<1>1. PICK name \in Names, id \in NodeIDs(cfg.id, ns, bs),
           port \in GetPort(cfg.port, ps, ns), p \in {q \in Pids : ps[q] = "unused"} :
         LET b == [id |-> id, port |-> port]
             joins == cfg.beacon /\ ~IsPaused(ns, name)
         IN /\ SetNodeName(ns, cfg, name)
            /\ clash = (joins /\ Clash(bs, b))
            /\ nodes' = [ns EXCEPT ![name] =
                 [id |-> id, beacon |-> cfg.beacon, port |-> port, paused |-> FALSE,
                  proc |-> p, boot |-> BeaconIDs(bs)]]
            /\ bootstraps' = IF joins /\ ~clash THEN bs \cup {b} ELSE bs
            /\ procs' = [ps EXCEPT ![p] = "running"]
  BY ZenonT(30) DEF Launch
<1>2. name = n
  BY <1>1 DEF NodesType
<1>3. nodes'[n].id = id
  BY <1>1, <1>2 DEF NodesType
<1>4. cfg.name = n
  BY <1>1, <1>2 DEF SetNodeName, FreshSuffix, IsPaused
<1>5. cfg.id = id \/ cfg.id = NoID
  BY DEF NodeIDs
<1> QED BY SMTT(20), <1>3, <1>4, <1>5

\* setNodeName skips paused nodes: their identity changes only when a client
\* submits a config with their name.
THEOREM PausedKept == Spec => PausedNodesKept
<1> DEFINE A == \A n \in Names :
                  IsPaused(nodes, n) /\ Here(nodes', n) /\ nodes'[n].id # nodes[n].id =>
                    \E cfg \in Configs : cfg.name = n /\ cfg.id \in {nodes'[n].id, NoID}
<1>1. IInv /\ [Next]_vars => [A]_vars
  <2> SUFFICES ASSUME IInv, Next, NEW n \in Names, IsPaused(nodes, n), Here(nodes', n),
                      nodes'[n].id # nodes[n].id
               PROVE  \E cfg \in Configs : cfg.name = n /\ cfg.id \in {nodes'[n].id, NoID}
    OBVIOUS
  <2>0. nodes \in NodesType /\ TypeOK /\ Here(nodes, n) /\ nodes[n].paused
    BY DEF IInv, TypeOK, NodesType, IsPaused
  <2>1. ~LoadNode
    <3>1. SUFFICES ASSUME LoadNode PROVE FALSE
      OBVIOUS
    <3> QED BY <2>0, <3>1 DEF IInv, LoadInv, LoadNode
  <2>2. ~StopAll
    BY DEF StopAll, Here
  <2>3. nodes' # nodes
    OBVIOUS
  <2>4. ASSUME NEW m \in Names, Here(nodes, m),
               \/ removeNode(m)
               \/ \E x : nodes' = [nodes EXCEPT ![m].paused = x]
        PROVE  FALSE
    BY SMT, <2>0, <2>4 DEF removeNode, NodesWithout, NodesType, Here, Node
  <2>5. ASSUME NEW m \in Names, Here(nodes, m), NEW clash,
               Launch(nodes, bootstraps, procs, ConfigOf(m), clash)
        PROVE  FALSE
    <3>1. ConfigOf(m) \in Config
      BY SMTT(20), <2>0, <2>5, ConfigOfType
    <3>2. ConfigOf(m).name = n /\ ConfigOf(m).id \in {nodes'[n].id, NoID}
      BY <2>0, <2>5, <3>1, LaunchKeepsPaused
    <3>3. m = n /\ nodes[n].id \in {nodes'[n].id, NoID}
      BY <3>2 DEF ConfigOf
    <3>4. nodes[n].id \in IDs
      BY <2>0 DEF NodesType, Here, Node
    <3> QED BY <3>3, <3>4, EmptyAssumption
  <2>6. ASSUME NEW m \in Names, Here(nodes, m), ~nodes[m].paused, NEW clash,
               Launch(NodesWithout(m), BootstrapsWithout(m), ProcsWithout(m), ConfigOf(m), clash)
        PROVE  FALSE
    <3>1. ConfigOf(m) \in Config /\ NodesWithout(m) \in NodesType
      BY <2>6, <2>0, ConfigOfType, RemoveKeeps
    <3>2. m # n /\ NodesWithout(m)[n] = nodes[n]
      BY <2>0, <2>6 DEF NodesWithout, NodesType
    <3>3. IsPaused(NodesWithout(m), n)
      BY SMTT(20), <2>0, <3>2 DEF IsPaused, Here
    <3>4. ConfigOf(m).name = n
      BY SMTT(20), <2>6, <3>1, <3>2, <3>3, LaunchKeepsPaused
    <3> QED BY <3>2, <3>4 DEF ConfigOf
  <2>7. ASSUME NEW cfg \in Configs, AddNode(cfg)
        PROVE  cfg.name = n /\ cfg.id \in {nodes'[n].id, NoID}
    BY <2>0, <2>7, ConfigAssumption, LaunchKeepsPaused DEF AddNode
  <2>8. ASSUME NEW m \in Names, \/ RemoveNode(m) \/ PauseNode(m) \/ ResumeNode(m)
                                \/ RestartNode(m) \/ RestartNodeFails(m)
        PROVE  FALSE
    <3>1. CASE RemoveNode(m) \/ RestartNodeFails(m)
      BY <2>4, <3>1 DEF RemoveNode, RestartNodeFails
    <3>2. CASE PauseNode(m)
      BY <2>4, <3>2 DEF PauseNode
    <3>3. CASE ResumeNode(m)
      BY Zenon, <2>5, <3>3 DEF ResumeNode, IsPaused
    <3>4. CASE RestartNode(m)
      BY <2>5, <2>6, <3>4 DEF RestartNode
    <3> QED BY <2>8, <3>1, <3>2, <3>3, <3>4
  <2>9. \E cfg \in Configs : AddNode(cfg)
    BY Zenon, <2>1, <2>2, <2>3, <2>8
       DEF Next, LoadConfig, LoadNodeFails, LoadAborts, AddNodeFails, SaveSnapshot,
           StopBegins, StopFinishes, HealthyBegins, Poll, PollHealthy, PollStopped,
           PollCancelled, HealthyTimeout, HealthyStopped, HealthyReturns, core, ProcessExits
  <2> QED BY <2>7, <2>9
<1>2. PausedNodesKept <=> [][A]_vars
  BY DEF PausedNodesKept
<1> QED BY <1>1, <1>2, Invariance, PTL DEF Spec

=============================================================================
