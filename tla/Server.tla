------------------------------- MODULE Server -------------------------------
(***************************************************************************)
(* The control service of server/server.go and the localNetwork it drives  *)
(* (server/network.go): the network the server runs, what it reports about *)
(* it (clusterInfo), and the error channel WaitForHealthy listens to.      *)
(*                                                                         *)
(* A handler that changes anything holds s.mu from its first read to its   *)
(* last write and is one action per outcome.  Handlers that wait inside    *)
(* with no bound but their caller's context take s.mu in an action of its  *)
(* own.  Between handlers, and while one waits, luxd processes exit;       *)
(* WaitForHealthy takes one look per lock period.                          *)
(* local.localNetwork is used through what module LocalNetwork shows of    *)
(* it: an operation that fails may still have changed the nodes.  The      *)
(* P-chain is the environment; of it the model keeps the subnets, which    *)
(* have custom chains, which are elastic, and their validators.            *)
(***************************************************************************)
EXTENDS Naturals

CONSTANTS
  Names,        \* node names
  Subnets,      \* subnet IDs
  Waiters,      \* goroutines that call WaitForHealthy
  MaxNetworks,  \* networks created in one life of the server (bounds a run)
  Gone,         \* a validator whose node is not in the network any more
  NoInfo,       \* clusterInfo is nil
  NoErr,        \* asyncErrCh is empty
  NoSnapshot    \* nothing saved

NodeState == {"absent", "running", "dead", "paused"}
InfoState == {"absent", "active", "paused"}
Ledger == [subnets : SUBSET Subnets, chained : SUBSET Subnets,
           elastic : SUBSET Subnets, validators : [Subnets -> SUBSET (Names \cup {Gone})]]
Info == [healthy : BOOLEAN, customChainsHealthy : BOOLEAN,
         infos : [Names -> InfoState], subnets : SUBSET Subnets]
Snapshot == [names : SUBSET Names, ledger : Ledger, elasticMap : SUBSET Subnets]

ASSUME BoundAssumption == MaxNetworks \in Nat
ASSUME GoneAssumption == Gone \notin Names
ASSUME NilAssumption == NoInfo \notin Info /\ NoErr \notin Nat /\ NoSnapshot \notin Snapshot

VARIABLES
  network,      \* s.network is not nil
  nodes,        \* the nodes of s.network.nw; "dead": not paused, process ended
  ledger,       \* the P-chain of the network
  elasticMap,   \* subnetID2ElasticSubnetID of s.network.nw: its domain
  nodeInfos,    \* s.network.nodeInfos
  clusterInfo,  \* s.clusterInfo; its Subnets is the map s.network.subnets
  asyncErrCh,   \* the error in the channel: the number of the network it is about
  created,      \* how many networks were created
  snapshot,     \* the snapshot last saved
  panicked,     \* a handler panicked and took the server down
  wait,         \* wait[w]: "loop" in a WaitForHealthy call, "idle" before and after
  held,         \* a handler has s.mu and waits, as long as its caller lets it
  clean         \* no handler failed since clusterInfo's nodes were last set

vars == <<network, nodes, ledger, elasticMap, nodeInfos, clusterInfo, asyncErrCh,
          created, snapshot, panicked, wait, held, clean>>

WaitState == {"idle", "loop"}

TypeOK ==
  /\ network \in BOOLEAN
  /\ nodes \in [Names -> NodeState]
  /\ ledger \in Ledger
  /\ elasticMap \in SUBSET Subnets
  /\ nodeInfos \in [Names -> InfoState]
  /\ clusterInfo \in Info \cup {NoInfo}
  /\ asyncErrCh \in Nat \cup {NoErr}
  /\ created \in Nat
  /\ snapshot \in Snapshot \cup {NoSnapshot}
  /\ panicked \in BOOLEAN
  /\ wait \in [Waiters -> WaitState]
  /\ held \in BOOLEAN
  /\ clean \in BOOLEAN

NoNodes == [n \in Names |-> "absent"]
EmptyLedger == [subnets |-> {}, chained |-> {}, elastic |-> {},
                validators |-> [s \in Subnets |-> {}]]

\* A new ClusterInfo, with nothing but the server's pid and directory.
NewInfo == [healthy |-> FALSE, customChainsHealthy |-> FALSE,
            infos |-> NoNodes, subnets |-> {}]

Init ==
  /\ network = FALSE
  /\ nodes = NoNodes
  /\ ledger = EmptyLedger
  /\ elasticMap = {}
  /\ nodeInfos = NoNodes
  /\ clusterInfo = NoInfo
  /\ asyncErrCh = NoErr
  /\ created = 0
  /\ snapshot = NoSnapshot
  /\ panicked = FALSE
  /\ wait = [w \in Waiters |-> "idle"]
  /\ held = FALSE
  /\ clean = TRUE

-----------------------------------------------------------------------------
(* The nodes and the ledger *)

Present(ns) == {n \in Names : ns[n] # "absent"}
Active(ns) == {n \in Names : ns[n] \in {"running", "dead"}}

\* Faulty variant of View.
View_Raw(ns) == ns

\* updateNodeInfo: what a client is told of the nodes.
View(ns) == [n \in Names |-> IF ns[n] \in {"absent", "paused"} THEN ns[n] ELSE "active"]

\* The nodes of ns, those in S in state x.
With(ns, S, x) == [n \in Names |-> IF n \in S THEN x ELSE ns[n]]

\* The ledger after the nodes of S left with their keys.
Forget(led, S) ==
  [led EXCEPT !.validators = [s \in Subnets |->
     IF led.validators[s] \cap S = {} THEN led.validators[s]
                                      ELSE (led.validators[s] \ S) \cup {Gone}]]

\* nw.Healthy returns nil.
Healthy(ns) == \A n \in Names : ns[n] # "dead"

\* updateSubnetInfo finds every validator of a custom chain among the nodes
\* and every elastic subnet in the map of transformations.
SubnetInfoOK(led, em) ==
  /\ \A s \in led.chained : Gone \notin led.validators[s]
  /\ led.elastic \subseteq em

\* awaitHealthyAndUpdateNetworkInfo can return nil, and panics: with all nodes
\* healthy, updateSubnetInfo calls a method of the active node with the lowest
\* port, a nil interface if there is none.
AwaitOK(ns, led, em) == Healthy(ns) /\ Active(ns) # {} /\ SubnetInfoOK(led, em)
AwaitPanics(ns) == Healthy(ns) /\ Active(ns) = {}

\* What a failed await left in nodeInfos: not reached, or refreshed.
AwaitedInfos(ns) == IF Healthy(ns) THEN {nodeInfos, View(ns)} ELSE {nodeInfos}

-----------------------------------------------------------------------------
(* Pieces of the handlers *)

\* A handler gets s.mu, and finds a network or none.
Up == network /\ ~held /\ ~panicked
Down == ~network /\ ~held /\ ~panicked

\* Health, RemoveNode, RestartNode, PauseNode, SaveSnapshot, AttachPeer and
\* SendOutboundMessage wait for nodes, processes and peers under the context of
\* the RPC, which a client need not ever end.
Hold ==
  /\ Up
  /\ held' = TRUE
  /\ UNCHANGED <<network, nodes, ledger, elasticMap, nodeInfos, clusterInfo, asyncErrCh,
                 created, snapshot, panicked, wait, clean>>

\* The handler that took s.mu is still at work.
Holding == network /\ held /\ ~panicked

\* It returns without having changed anything: AttachPeer, SendOutboundMessage, or
\* a request that was refused.
Release ==
  /\ Holding
  /\ held' = FALSE
  /\ UNCHANGED <<network, nodes, ledger, elasticMap, nodeInfos, clusterInfo, asyncErrCh,
                 created, snapshot, panicked, wait, clean>>

\* Faulty variant of updateClusterInfo.
updateClusterInfo_HealthyOnly(infos, subnets) ==
  clusterInfo' = [healthy |-> TRUE, customChainsHealthy |-> FALSE,
                  infos |-> infos, subnets |-> subnets]

updateClusterInfo(infos, subnets) ==
  clusterInfo' = [healthy |-> TRUE, customChainsHealthy |-> TRUE,
                  infos |-> infos, subnets |-> subnets]

\* Faulty variant of stopAndRemoveNetwork.
stopAndRemoveNetwork_NoDrain(info, k) ==
  /\ asyncErrCh' = IF k = NoErr THEN asyncErrCh ELSE k
  /\ network' = FALSE
  /\ nodes' = NoNodes
  /\ ledger' = EmptyLedger
  /\ elasticMap' = {}
  /\ nodeInfos' = NoNodes
  /\ clusterInfo' = IF info = NoInfo THEN NoInfo
                    ELSE [info EXCEPT !.healthy = FALSE, !.customChainsHealthy = FALSE]
  /\ held' = FALSE
  /\ clean' = TRUE

\* Faulty variant of stopAndRemoveNetwork.
stopAndRemoveNetwork_KeepsFlags(info, k) ==
  /\ asyncErrCh' = k
  /\ network' = FALSE
  /\ nodes' = NoNodes
  /\ ledger' = EmptyLedger
  /\ elasticMap' = {}
  /\ nodeInfos' = NoNodes
  /\ clusterInfo' = info
  /\ held' = FALSE
  /\ clean' = TRUE

\* stopAndRemoveNetwork for network number k (an error is sent, the channel
\* having been emptied first) or, with NoErr, without an error to send.
stopAndRemoveNetwork(info, k) ==
  /\ asyncErrCh' = k
  /\ network' = FALSE
  /\ nodes' = NoNodes
  /\ ledger' = EmptyLedger
  /\ elasticMap' = {}
  /\ nodeInfos' = NoNodes
  /\ clusterInfo' = IF info = NoInfo THEN NoInfo
                    ELSE [info EXCEPT !.healthy = FALSE, !.customChainsHealthy = FALSE]
  /\ held' = FALSE
  /\ clean' = TRUE

\* The network runs with these nodes and this ledger, and the server says so.
Runs(ns, led, em) ==
  /\ network' = TRUE
  /\ nodes' = ns
  /\ ledger' = led
  /\ elasticMap' = em
  /\ nodeInfos' = View(ns)
  /\ updateClusterInfo(View(ns), led.subnets)
  /\ held' = FALSE
  /\ clean' = TRUE

\* A new subnet s with participants P and, if chain, a custom chain on it.
WithSubnet(led, s, P, chain) ==
  [led EXCEPT !.subnets = @ \cup {s}, !.validators[s] = P,
              !.chained = IF chain THEN @ \cup {s} ELSE @]

-----------------------------------------------------------------------------
(* Start *)

\* newLocalNetwork failed, after the new ClusterInfo was set.
StartNoNetwork ==
  /\ Down
  /\ clusterInfo' = NewInfo
  /\ UNCHANGED <<network, nodes, ledger, elasticMap, nodeInfos, asyncErrCh, created,
                 snapshot, panicked, wait, held, clean>>

\* network.Start failed.
StartFails ==
  /\ Down /\ created < MaxNetworks
  /\ created' = created + 1
  /\ stopAndRemoveNetwork(NewInfo, NoErr)
  /\ UNCHANGED <<snapshot, panicked, wait>>

\* The network started, and CreateChains failed.
StartChainsFail ==
  /\ Down /\ created < MaxNetworks
  /\ created' = created + 1
  /\ stopAndRemoveNetwork(NewInfo, created')
  /\ UNCHANGED <<snapshot, panicked, wait>>

Start(P) ==
  /\ Down /\ created < MaxNetworks
  /\ created' = created + 1
  /\ \/ Runs(With(NoNodes, P, "running"), EmptyLedger, {})
     \/ \E s \in Subnets : Runs(With(NoNodes, P, "running"),
                                WithSubnet(EmptyLedger, s, P, TRUE), {})
  /\ UNCHANGED <<asyncErrCh, snapshot, panicked, wait>>

-----------------------------------------------------------------------------
(* CreateBlockchains, CreateSubnets: they wait for the network to be healthy *)
(* before and after, and take it down when anything fails.                   *)

others == <<asyncErrCh, created, snapshot, panicked, wait>>

\* A new subnet; participants that do not exist are added as nodes.
CreateSubnet(s, P, chain) ==
  /\ Up
  /\ s \notin ledger.subnets
  /\ LET ns == With(nodes, P \ Present(nodes), "running")
     IN /\ AwaitOK(nodes, ledger, elasticMap)
        /\ Runs(ns, WithSubnet(ledger, s, P, chain), elasticMap)
  /\ UNCHANGED others

\* CreateBlockchains on a subnet the server knows; getSubnetValidatorsNodenames
\* requires its validators to be in the network.
CreateChainOn(s) ==
  /\ Up
  /\ s \in clusterInfo.subnets
  /\ AwaitOK(nodes, ledger, elasticMap)
  /\ Gone \notin ledger.validators[s]
  /\ Runs(nodes, [ledger EXCEPT !.chained = @ \cup {s}], elasticMap)
  /\ UNCHANGED others

\* CreateSubnets without specs returns at once; the server reports whatever
\* node infos it has.
CreateNoSubnets ==
  /\ Up
  /\ updateClusterInfo(nodeInfos, clusterInfo.subnets)
  /\ UNCHANGED <<network, nodes, ledger, elasticMap, nodeInfos, held, clean, others>>

\* S: the subnets created before the failure that the server got to see.
CreateFails(S) ==
  /\ Up
  /\ stopAndRemoveNetwork([clusterInfo EXCEPT !.subnets = @ \cup S], created)
  /\ UNCHANGED <<created, snapshot, panicked, wait>>

-----------------------------------------------------------------------------
(* AddPermissionlessValidator, RemoveSubnetValidator and                   *)
(* TransformElasticSubnets: they leave the network up when they fail.      *)

AddPermissionlessValidator(s, n) ==
  /\ Up
  /\ s \in clusterInfo.subnets /\ s \in ledger.elastic
  /\ AwaitOK(nodes, ledger, elasticMap)
  /\ Runs(With(nodes, {n} \ Present(nodes), "running"),
          [ledger EXCEPT !.validators[s] = @ \cup {n}], elasticMap)
  /\ UNCHANGED others

RemoveSubnetValidator(s, n) ==
  /\ Up
  /\ s \in clusterInfo.subnets /\ n \in ledger.validators[s] /\ n \in Names
  /\ AwaitOK(nodes, ledger, elasticMap)
  /\ Runs(nodes, [ledger EXCEPT !.validators[s] = @ \ {n}], elasticMap)
  /\ UNCHANGED others

TransformElasticSubnets(s) ==
  /\ Up
  /\ s \in clusterInfo.subnets \ ledger.elastic
  /\ AwaitOK(nodes, ledger, elasticMap)
  /\ Runs(nodes, [ledger EXCEPT !.elastic = @ \cup {s}], elasticMap \cup {s})
  /\ UNCHANGED others

\* One of them failed: before it did anything, or after the transaction was
\* accepted, or with a node that was added, or with one lost in a restart.
\* A transformation accepted after its poll timed out is not in the map; one
\* after which the network did not become healthy is.
ValidatorOpFails(s, n) ==
  /\ Up
  /\ s \in clusterInfo.subnets
  /\ \/ nodes' = nodes /\ ledger' = ledger /\ elasticMap' = elasticMap
     \/ /\ AwaitOK(nodes, ledger, elasticMap)
        /\ \/ nodes[n] = "absent" /\ nodes' = [nodes EXCEPT ![n] = "running"] /\ ledger' = ledger
           \/ n \in Present(nodes) /\ nodes' = nodes /\ ledger' =
                [ledger EXCEPT !.validators[s] = IF n \in @ THEN @ \ {n} ELSE @ \cup {n}]
           \/ n \in Active(nodes) /\ nodes' = [nodes EXCEPT ![n] = "absent"]
              /\ ledger' = Forget(ledger, {n})
        /\ elasticMap' = elasticMap
     \/ /\ AwaitOK(nodes, ledger, elasticMap)
        /\ nodes' = nodes /\ ledger' = [ledger EXCEPT !.elastic = @ \cup {s}]
        /\ elasticMap' \in {elasticMap, elasticMap \cup {s}}
  /\ nodeInfos' \in AwaitedInfos(nodes) \cup AwaitedInfos(nodes')
  /\ updateClusterInfo(nodeInfos', clusterInfo.subnets)
  /\ clean' = FALSE
  /\ UNCHANGED <<network, held, others>>

-----------------------------------------------------------------------------
(* Health, and the panic that every handler above shares with it *)

Health ==
  /\ Holding
  /\ AwaitOK(nodes, ledger, elasticMap)
  /\ nodeInfos' = View(nodes)
  /\ clusterInfo' = [clusterInfo EXCEPT !.infos = View(nodes), !.healthy = TRUE]
  /\ held' = FALSE
  /\ clean' = TRUE
  /\ UNCHANGED <<network, nodes, ledger, elasticMap, others>>

HealthFails ==
  /\ Holding
  /\ nodeInfos' \in AwaitedInfos(nodes)
  /\ held' = FALSE
  /\ clean' = FALSE
  /\ UNCHANGED <<network, nodes, ledger, elasticMap, clusterInfo, others>>

AwaitPanic ==
  /\ Up \/ Holding
  /\ AwaitPanics(nodes)
  /\ panicked' = TRUE
  /\ UNCHANGED <<network, nodes, ledger, elasticMap, nodeInfos, clusterInfo, asyncErrCh,
                 created, snapshot, wait, held, clean>>

-----------------------------------------------------------------------------
(* AddNode, RemoveNode, RestartNode, PauseNode, ResumeNode *)

\* Faulty variant of NodeOpOK.
NodeOpOK_NotRefreshed(ns, led) ==
  /\ nodes' = ns
  /\ ledger' = led
  /\ nodeInfos' = View(ns)
  /\ held' = FALSE
  /\ clean' = TRUE
  /\ UNCHANGED <<network, elasticMap, clusterInfo, others>>

\* The network's operation returned nil: read the nodes again and report them.
NodeOpOK(ns, led) ==
  /\ nodes' = ns
  /\ ledger' = led
  /\ nodeInfos' = View(ns)
  /\ clusterInfo' = [clusterInfo EXCEPT !.infos = View(ns)]
  /\ held' = FALSE
  /\ clean' = TRUE
  /\ UNCHANGED <<network, elasticMap, others>>

\* The operation returned an error, leaving the nodes ns; or UpdateNodeInfo did,
\* with nodeInfos already replaced.
NodeOpFails(ns, led, infos) ==
  /\ nodes' = ns
  /\ ledger' = led
  /\ nodeInfos' = infos
  /\ held' = FALSE
  /\ clean' = FALSE
  /\ UNCHANGED <<network, elasticMap, clusterInfo, others>>

NodeOp(ns, led) == NodeOpOK(ns, led) \/ NodeOpFails(ns, led, View(ns))

\* The node comes with a new key, also when it takes over a paused name.
AddNode(n) ==
  /\ Up
  /\ nodes[n] \in {"absent", "paused"}
  /\ NodeOp([nodes EXCEPT ![n] = "running"], Forget(ledger, {n}))

RemoveNode(n) ==
  /\ Holding
  /\ n \in Present(nodes)
  /\ LET ns == [nodes EXCEPT ![n] = "absent"]
     IN \/ NodeOp(ns, Forget(ledger, {n}))
        \/ nodes[n] # "paused" /\ NodeOpFails(ns, Forget(ledger, {n}), nodeInfos)

RestartNode(n) ==
  /\ Holding
  /\ n \in Present(nodes)
  /\ \/ NodeOp([nodes EXCEPT ![n] = "running"], ledger)
     \/ /\ nodes[n] # "paused"
        /\ NodeOpFails([nodes EXCEPT ![n] = "absent"], Forget(ledger, {n}), nodeInfos)

PauseNode(n) ==
  /\ Holding
  /\ n \in Active(nodes)
  /\ \/ NodeOp([nodes EXCEPT ![n] = "paused"], ledger)
     \/ NodeOpFails([nodes EXCEPT ![n] = "dead"], ledger, nodeInfos)

ResumeNode(n) ==
  /\ Up
  /\ nodes[n] = "paused"
  /\ NodeOp([nodes EXCEPT ![n] = "running"], ledger)

-----------------------------------------------------------------------------
(* Snapshots, Stop *)

SaveSnapshot ==
  /\ Holding
  /\ snapshot' = [names |-> Present(nodes), ledger |-> ledger, elasticMap |-> elasticMap]
  /\ stopAndRemoveNetwork(clusterInfo, NoErr)
  /\ UNCHANGED <<created, panicked, wait>>

\* It failed after the nodes were stopped: the network stays, without nodes.
SaveSnapshotFails ==
  /\ Holding
  /\ NodeOpFails(NoNodes, Forget(ledger, Names), nodeInfos)

RemoveSnapshot ==
  /\ Up
  /\ snapshot' = NoSnapshot
  /\ UNCHANGED <<network, nodes, ledger, elasticMap, nodeInfos, clusterInfo, asyncErrCh,
                 created, panicked, wait, held, clean>>

\* The network of the snapshot could not be created.
LoadSnapshotFails ==
  /\ Down /\ created < MaxNetworks
  /\ created' = created + 1
  /\ stopAndRemoveNetwork(NewInfo, NoErr)
  /\ UNCHANGED <<snapshot, panicked, wait>>

\* It was created, and did not become healthy.
LoadSnapshotUnhealthy ==
  /\ Down /\ created < MaxNetworks
  /\ snapshot # NoSnapshot
  /\ created' = created + 1
  /\ stopAndRemoveNetwork(NewInfo, created')
  /\ UNCHANGED <<snapshot, panicked, wait>>

LoadSnapshot ==
  /\ Down /\ created < MaxNetworks
  /\ snapshot # NoSnapshot
  /\ created' = created + 1
  /\ LET ns == With(NoNodes, snapshot.names, "running")
     IN /\ AwaitOK(ns, snapshot.ledger, snapshot.elasticMap)
        /\ Runs(ns, snapshot.ledger, snapshot.elasticMap)
  /\ UNCHANGED <<asyncErrCh, snapshot, panicked, wait>>

Stop ==
  /\ Up \/ Down
  /\ stopAndRemoveNetwork(clusterInfo, NoErr)
  /\ UNCHANGED <<created, snapshot, panicked, wait>>

-----------------------------------------------------------------------------
(* The environment, and WaitForHealthy *)

ProcessExits(n) ==
  /\ nodes[n] = "running"
  /\ nodes' = [nodes EXCEPT ![n] = "dead"]
  /\ UNCHANGED <<network, ledger, elasticMap, nodeInfos, clusterInfo, held, clean, others>>

WaitForHealthy(w) ==
  /\ ~panicked
  /\ wait[w] = "idle"
  /\ wait' = [wait EXCEPT ![w] = "loop"]
  /\ UNCHANGED <<network, nodes, ledger, elasticMap, nodeInfos, clusterInfo, asyncErrCh,
                 created, snapshot, panicked, held, clean>>

\* One look, under the read lock.  A look that finds nothing sleeps, and the
\* call goes on.  The deadline may have passed at any look, and is not seen
\* before the read lock is there.
Look(w) ==
  /\ ~held /\ ~panicked
  /\ wait[w] = "loop"
  /\ \/ clusterInfo = NoInfo /\ UNCHANGED asyncErrCh                     \* ErrNotBootstrapped
     \/ /\ clusterInfo # NoInfo /\ clusterInfo.customChainsHealthy       \* healthy
        /\ UNCHANGED asyncErrCh
     \/ /\ clusterInfo # NoInfo /\ ~clusterInfo.customChainsHealthy
        /\ \/ asyncErrCh # NoErr /\ asyncErrCh' = NoErr                   \* that error
           \/ asyncErrCh = NoErr /\ ~network /\ UNCHANGED asyncErrCh      \* ErrNotBootstrapped
  /\ wait' = [wait EXCEPT ![w] = "idle"]
  /\ UNCHANGED <<network, nodes, ledger, elasticMap, nodeInfos, clusterInfo,
                 created, snapshot, panicked, held, clean>>

\* The deadline has passed.
LookTimedOut(w) ==
  /\ ~held /\ ~panicked
  /\ wait[w] = "loop"
  /\ clusterInfo # NoInfo /\ ~clusterInfo.customChainsHealthy
  /\ wait' = [wait EXCEPT ![w] = "idle"]
  /\ UNCHANGED <<network, nodes, ledger, elasticMap, nodeInfos, clusterInfo, asyncErrCh,
                 created, snapshot, panicked, held, clean>>

Next ==
  \/ Hold \/ Release
  \/ StartNoNetwork \/ StartFails \/ StartChainsFail
  \/ \E P \in SUBSET Names \ {{}} :
       \/ Start(P)
       \/ \E s \in Subnets, chain \in BOOLEAN : CreateSubnet(s, P, chain)
  \/ \E s \in Subnets : CreateChainOn(s) \/ TransformElasticSubnets(s)
  \/ CreateNoSubnets \/ \E S \in SUBSET Subnets : CreateFails(S)
  \/ \E s \in Subnets, n \in Names : \/ AddPermissionlessValidator(s, n)
                                     \/ RemoveSubnetValidator(s, n)
                                     \/ ValidatorOpFails(s, n)
  \/ Health \/ HealthFails \/ AwaitPanic
  \/ \E n \in Names : \/ AddNode(n) \/ RemoveNode(n) \/ RestartNode(n)
                      \/ PauseNode(n) \/ ResumeNode(n) \/ ProcessExits(n)
  \/ SaveSnapshot \/ SaveSnapshotFails \/ RemoveSnapshot
  \/ LoadSnapshotFails \/ LoadSnapshotUnhealthy \/ LoadSnapshot
  \/ Stop
  \/ \E w \in Waiters : WaitForHealthy(w) \/ Look(w) \/ LookTimedOut(w)

Spec == Init /\ [][Next]_vars

(***************************************************************************)
(* A waiter gets the read lock although handlers go on taking s.mu: a      *)
(* sync.RWMutex lets the readers that waited in when a writer unlocks.     *)
(* That a handler which took s.mu ends is not assumed.                     *)
(***************************************************************************)
FairSpec == Spec /\ \A w \in Waiters : SF_vars(Look(w))

-----------------------------------------------------------------------------
(* Properties *)

\* The flag WaitForHealthy looks at tells whether there is a network, whatever
\* handlers failed before: a waiter never sleeps on a network that will not
\* change, nor hears "healthy" of one that was removed.
HealthMatchesNetwork ==
  network <=> clusterInfo # NoInfo /\ clusterInfo.customChainsHealthy

\* An error waiting in asyncErrCh that WaitForHealthy would return is about the
\* network created last: errors nobody picked up do not outlive it.
DeliveredErrorIsCurrent ==
  ~network /\ asyncErrCh # NoErr => asyncErrCh = created

\* What Status and URIs report differs from the nodes the network has only
\* after a handler returned an error.
InfoStaleOnlyAfterError ==
  network /\ clean => clusterInfo.infos = View(nodes)

\* Every subnet of the P-chain is known to the server, so a client can name it
\* in CreateBlockchains and in the validator calls.
SubnetsKnown ==
  network => clusterInfo.subnets = ledger.subnets

\* A server that has dropped its network has stopped all of its nodes.
NoNodesWithoutNetwork ==
  ~network => nodes = NoNodes

\* WaitForHealthy returns even if its deadline never comes, whatever handlers
\* run meanwhile, as long as none of them keeps s.mu for ever.  If one does, not
\* even the deadline ends the call: it is looked at under the read lock.
WaitReturns ==
  []<>(~held \/ panicked) =>
    \A w \in Waiters : wait[w] = "loop" ~> wait[w] # "loop" \/ panicked

-----------------------------------------------------------------------------
(* What comments in the code say and the code does not do.                  *)

\* awaitHealthyAndUpdateNetworkInfo: "Returns nil when [lc.nw] reports healthy."
AwaitDoesNotPanic == ~panicked

=============================================================================
