---------------------------- MODULE ServerProofs ----------------------------
(***************************************************************************)
(* Proofs about Server, for any nodes, subnets, waiters and any number of  *)
(* networks.                                                               *)
(***************************************************************************)
EXTENDS Server, TLAPS

\* Zenon proves the leaves, except where a leaf asks for SMT.
USE Zenon

\* nodeInfos, from which CreateSubnets without specs refreshes clusterInfo, is
\* itself current as long as no handler has failed.
InfosFresh == network /\ clean => nodeInfos = View(nodes)

\* What the server says agrees with what it runs.
Agrees ==
  /\ HealthMatchesNetwork
  /\ DeliveredErrorIsCurrent
  /\ InfoStaleOnlyAfterError
  /\ InfosFresh
  /\ SubnetsKnown
  /\ NoNodesWithoutNetwork

IInv == TypeOK /\ Agrees

-----------------------------------------------------------------------------
(* The operators the handlers are built from *)

\* updateNodeInfo reports a state for every node.
LEMMA ViewType ==
  ASSUME NEW ns \in [Names -> NodeState]
  PROVE  View(ns) \in [Names -> InfoState]
BY DEF View, NodeState, InfoState

\* An exit is not visible in what updateNodeInfo reports.
LEMMA ViewOfExit ==
  ASSUME NEW ns \in [Names -> NodeState], NEW n \in Names, ns[n] = "running"
  PROVE  View([ns EXCEPT ![n] = "dead"]) = View(ns)
BY DEF View, NodeState

\* Nodes put into a state.
LEMMA WithType ==
  ASSUME NEW ns \in [Names -> NodeState], NEW S, NEW x \in NodeState
  PROVE  With(ns, S, x) \in [Names -> NodeState]
BY DEF With

\* No nodes, an empty ledger.
LEMMA EmptyTypes ==
  /\ NoNodes \in [Names -> NodeState]
  /\ NoNodes \in [Names -> InfoState]
  /\ EmptyLedger \in Ledger
  /\ EmptyLedger.subnets = {}
  /\ NewInfo \in Info
  /\ ~NewInfo.customChainsHealthy
BY DEF NoNodes, EmptyLedger, NewInfo, NodeState, InfoState, Ledger, Info

\* A node that leaves changes validators only.
LEMMA ForgetType ==
  ASSUME NEW led \in Ledger, NEW S
  PROVE  /\ Forget(led, S) \in Ledger
         /\ Forget(led, S).subnets = led.subnets
<1>1. [s \in Subnets |-> IF led.validators[s] \cap S = {} THEN led.validators[s]
                                 ELSE (led.validators[s] \ S) \cup {Gone}]
        \in [Subnets -> SUBSET (Names \cup {Gone})]
  BY DEF Ledger
<1> QED BY <1>1 DEF Forget, Ledger

\* A new subnet.
LEMMA WithSubnetType ==
  ASSUME NEW led \in Ledger, NEW s \in Subnets, NEW P \in SUBSET Names, NEW chain \in BOOLEAN
  PROVE  WithSubnet(led, s, P, chain) \in Ledger
<1>1. [led.validators EXCEPT ![s] = P] \in [Subnets -> SUBSET (Names \cup {Gone})]
  BY DEF Ledger
<1> QED BY <1>1 DEF WithSubnet, Ledger

\* A ledger whose validators of one subnet changed.
LEMMA ValidatorsType ==
  ASSUME NEW led \in Ledger, NEW s \in Subnets, NEW V \in SUBSET (Names \cup {Gone})
  PROVE  /\ [led EXCEPT !.validators[s] = V] \in Ledger
         /\ [led EXCEPT !.validators[s] = V].subnets = led.subnets
<1>1. [led.validators EXCEPT ![s] = V] \in [Subnets -> SUBSET (Names \cup {Gone})]
  BY DEF Ledger
<1> QED BY <1>1 DEF Ledger

-----------------------------------------------------------------------------
(* What a handler does to the invariant *)

\* A handler that reports a running network leaves everything in agreement.
LEMMA RunsStep ==
  ASSUME IInv,
         NEW ns \in [Names -> NodeState], NEW led \in Ledger, NEW em \in SUBSET Subnets,
         Runs(ns, led, em),
         created' \in Nat, asyncErrCh' = asyncErrCh, snapshot' = snapshot,
         panicked' = panicked, wait' = wait
  PROVE  IInv'
<1>1. View(ns) \in [Names -> InfoState]
  BY ViewType
<1>2. clusterInfo' \in Info /\ clusterInfo'.customChainsHealthy
      /\ clusterInfo'.infos = View(ns) /\ clusterInfo'.subnets = led.subnets
  BY <1>1 DEF Runs, updateClusterInfo, Info, Ledger
<1>3. clusterInfo' # NoInfo
  BY <1>2, NilAssumption
<1>4. TypeOK'
  BY <1>1, <1>2 DEF IInv, TypeOK, Runs
<1>5. Agrees'
  <2>1. network' /\ nodes' = ns /\ ledger' = led /\ nodeInfos' = View(ns)
    BY DEF Runs
  <2>2. View(nodes)' = View(ns)
    BY <2>1
  <2> QED BY <1>2, <1>3, <2>1, <2>2
       DEF Agrees, HealthMatchesNetwork, DeliveredErrorIsCurrent, InfoStaleOnlyAfterError,
           InfosFresh, SubnetsKnown, NoNodesWithoutNetwork
<1> QED BY <1>4, <1>5 DEF IInv

\* stopAndRemoveNetwork leaves a server without a network, whatever it reported,
\* with no error or with one about the last network.
LEMMA RemovedStep ==
  ASSUME IInv,
         NEW info \in Info \cup {NoInfo}, NEW k \in Nat \cup {NoErr},
         stopAndRemoveNetwork(info, k),
         created' \in Nat, k = NoErr \/ k = created',
         snapshot' \in Snapshot \cup {NoSnapshot}, panicked' = panicked, wait' = wait
  PROVE  IInv'
<1>1. /\ clusterInfo' \in Info \cup {NoInfo}
      /\ clusterInfo' # NoInfo => ~clusterInfo'.customChainsHealthy
  <2>1. CASE info = NoInfo
    BY <2>1 DEF stopAndRemoveNetwork
  <2>2. CASE info # NoInfo
    BY <2>2 DEF stopAndRemoveNetwork, Info
  <2> QED BY <2>1, <2>2
<1>2. /\ asyncErrCh' = k /\ ~network' /\ nodes' = NoNodes /\ ledger' = EmptyLedger
      /\ elasticMap' = {} /\ nodeInfos' = NoNodes /\ network' = FALSE /\ clean' = TRUE
      /\ held' = FALSE
  BY DEF stopAndRemoveNetwork
<1>3. TypeOK'
  BY <1>1, <1>2, EmptyTypes DEF IInv, TypeOK
<1>4. Agrees'
  BY <1>1, <1>2
     DEF Agrees, HealthMatchesNetwork, DeliveredErrorIsCurrent, InfoStaleOnlyAfterError,
         InfosFresh, SubnetsKnown, NoNodesWithoutNetwork
<1> QED BY <1>3, <1>4 DEF IInv

\* A running network has a ClusterInfo that says so.
LEMMA UpInfo ==
  ASSUME IInv, network
  PROVE  /\ network
         /\ clusterInfo \in Info /\ clusterInfo # NoInfo
         /\ clusterInfo.customChainsHealthy
         /\ clusterInfo.subnets = ledger.subnets
BY DEF IInv, TypeOK, Agrees, HealthMatchesNetwork, SubnetsKnown

\* A node operation that succeeded reports the nodes there are.
LEMMA NodeOpOKStep ==
  ASSUME IInv, network,
         NEW ns \in [Names -> NodeState], NEW led \in Ledger, led.subnets = ledger.subnets,
         NodeOpOK(ns, led)
  PROVE  IInv'
<1>1. View(ns) \in [Names -> InfoState]
  BY ViewType
<1>2. clusterInfo' \in Info /\ clusterInfo' # NoInfo
      /\ clusterInfo'.customChainsHealthy = clusterInfo.customChainsHealthy
      /\ clusterInfo'.infos = View(ns) /\ clusterInfo'.subnets = clusterInfo.subnets
  BY <1>1, UpInfo, NilAssumption DEF NodeOpOK, Info
<1>3. TypeOK'
  BY <1>1, <1>2 DEF IInv, TypeOK, NodeOpOK, others
<1>4. Agrees'
  <2>1. /\ network' = network /\ nodes' = ns /\ ledger' = led /\ nodeInfos' = View(ns)
        /\ asyncErrCh' = asyncErrCh /\ created' = created
    BY DEF NodeOpOK, others
  <2>2. View(nodes)' = View(ns)
    BY <2>1
  <2> QED BY <1>2, <2>1, <2>2, UpInfo
       DEF IInv, Agrees, HealthMatchesNetwork, DeliveredErrorIsCurrent, InfoStaleOnlyAfterError,
           InfosFresh, SubnetsKnown, NoNodesWithoutNetwork
<1> QED BY <1>3, <1>4 DEF IInv

\* One that failed leaves the reports stale, and is remembered as a failure.
LEMMA NodeOpFailsStep ==
  ASSUME IInv, network,
         NEW ns \in [Names -> NodeState], NEW led \in Ledger, led.subnets = ledger.subnets,
         NEW infos \in [Names -> InfoState],
         NodeOpFails(ns, led, infos)
  PROVE  IInv'
<1>1. /\ network' = network /\ nodes' = ns /\ ledger' = led /\ nodeInfos' = infos
      /\ clusterInfo' = clusterInfo /\ clean' = FALSE /\ elasticMap' = elasticMap
      /\ asyncErrCh' = asyncErrCh /\ created' = created /\ snapshot' = snapshot
      /\ panicked' = panicked /\ wait' = wait /\ held' = FALSE
  BY DEF NodeOpFails, others
<1>2. TypeOK'
  BY <1>1 DEF IInv, TypeOK
<1>3. Agrees'
  BY <1>1, UpInfo
     DEF IInv, Agrees, HealthMatchesNetwork, DeliveredErrorIsCurrent, InfoStaleOnlyAfterError,
         InfosFresh, SubnetsKnown, NoNodesWithoutNetwork
<1> QED BY <1>2, <1>3 DEF IInv

\* A node operation after which updateNodeInfo was reached, with or without error.
LEMMA NodeOpStep ==
  ASSUME IInv, network,
         NEW ns \in [Names -> NodeState], NEW led \in Ledger, led.subnets = ledger.subnets,
         NodeOp(ns, led)
  PROVE  IInv'
<1>1. View(ns) \in [Names -> InfoState]
  BY ViewType
<1> QED BY <1>1, NodeOpOKStep, NodeOpFailsStep DEF NodeOp

\* A step that changes only what WaitForHealthy calls are doing, a received
\* error, who has s.mu, or whether the server has panicked.
LEMMA OutsideStep ==
  ASSUME IInv,
         UNCHANGED <<network, nodes, ledger, elasticMap, nodeInfos, clusterInfo, created,
                     snapshot, clean>>,
         asyncErrCh' \in {asyncErrCh, NoErr},
         panicked' \in BOOLEAN, held' \in BOOLEAN, wait' \in [Waiters -> WaitState]
  PROVE  IInv'
<1>1. TypeOK'
  BY DEF IInv, TypeOK
<1>2. View(nodes)' = View(nodes)
  OBVIOUS
<1>3. Agrees'
  BY <1>2 DEF IInv, Agrees, HealthMatchesNetwork, DeliveredErrorIsCurrent,
              InfoStaleOnlyAfterError, InfosFresh, SubnetsKnown, NoNodesWithoutNetwork
<1> QED BY <1>1, <1>3 DEF IInv

-----------------------------------------------------------------------------
(* The handlers *)

\* Start, with its failures.
LEMMA StartSteps ==
  ASSUME IInv, NEW P \in SUBSET Names,
         StartNoNetwork \/ StartFails \/ StartChainsFail \/ Start(P)
  PROVE  IInv'
<1>0. created \in Nat /\ snapshot \in Snapshot \cup {NoSnapshot}
  BY DEF IInv, TypeOK
<1>1. CASE StartNoNetwork
  <2>1. TypeOK'
    BY <1>1, EmptyTypes DEF StartNoNetwork, IInv, TypeOK
  <2>2. Agrees'
    BY <1>1, EmptyTypes
       DEF StartNoNetwork, Down, IInv, Agrees, HealthMatchesNetwork, DeliveredErrorIsCurrent,
           InfoStaleOnlyAfterError, InfosFresh, SubnetsKnown, NoNodesWithoutNetwork
  <2> QED BY <2>1, <2>2 DEF IInv
<1>2. CASE StartFails
  <2>1. /\ created' \in Nat /\ stopAndRemoveNetwork(NewInfo, NoErr)
        /\ UNCHANGED <<snapshot, panicked, wait>>
    BY SMT, <1>0, <1>2 DEF StartFails
  <2> QED BY <1>0, <2>1, EmptyTypes, RemovedStep
<1>3. CASE StartChainsFail
  BY SMT, <1>0, <1>3, EmptyTypes, RemovedStep DEF StartChainsFail
<1>4. CASE Start(P)
  <2>1. With(NoNodes, P, "running") \in [Names -> NodeState]
    BY EmptyTypes, WithType DEF NodeState
  <2>2. /\ created' \in Nat
        /\ UNCHANGED <<asyncErrCh, snapshot, panicked, wait>>
    BY SMT, <1>0, <1>4 DEF Start
  <2>3. CASE Runs(With(NoNodes, P, "running"), EmptyLedger, {})
    BY <2>1, <2>2, <2>3, EmptyTypes, RunsStep
  <2>4. ASSUME NEW s \in Subnets,
               Runs(With(NoNodes, P, "running"), WithSubnet(EmptyLedger, s, P, TRUE), {})
        PROVE  IInv'
    BY <2>1, <2>2, <2>4, EmptyTypes, WithSubnetType, RunsStep
  <2> QED BY <1>4, <2>3, <2>4 DEF Start
<1> QED BY <1>1, <1>2, <1>3, <1>4

\* The handlers that create subnets and chains.
LEMMA CreateSteps ==
  ASSUME IInv, NEW s \in Subnets, NEW P \in SUBSET Names, NEW chain \in BOOLEAN,
         CreateSubnet(s, P, chain) \/ CreateChainOn(s)
  PROVE  IInv'
<1>0. /\ nodes \in [Names -> NodeState] /\ ledger \in Ledger /\ elasticMap \in SUBSET Subnets
      /\ created \in Nat
  BY DEF IInv, TypeOK
<1>1. CASE CreateSubnet(s, P, chain)
  <2>1. With(nodes, P \ Present(nodes), "running") \in [Names -> NodeState]
    BY <1>0, WithType DEF NodeState
  <2>2. WithSubnet(ledger, s, P, chain) \in Ledger
    BY <1>0, WithSubnetType
  <2> QED BY <1>0, <1>1, <2>1, <2>2, RunsStep DEF CreateSubnet, others
<1>2. CASE CreateChainOn(s)
  <2>1. [ledger EXCEPT !.chained = @ \cup {s}] \in Ledger
    BY <1>0 DEF Ledger
  <2> QED BY <1>0, <1>2, <2>1, RunsStep DEF CreateChainOn, others
<1> QED BY <1>1, <1>2

\* CreateSubnets without specs, and a creation that failed.
LEMMA CreateOtherSteps ==
  ASSUME IInv, CreateNoSubnets \/ \E S \in SUBSET Subnets : CreateFails(S)
  PROVE  IInv'
<1>1. CASE CreateNoSubnets
  <2>1. /\ network' = network /\ nodes' = nodes /\ ledger' = ledger /\ nodeInfos' = nodeInfos
        /\ elasticMap' = elasticMap /\ clean' = clean
        /\ asyncErrCh' = asyncErrCh /\ created' = created /\ snapshot' = snapshot
        /\ panicked' = panicked /\ wait' = wait /\ held' = held
    BY <1>1 DEF CreateNoSubnets, others
  <2>2. network
    BY <1>1 DEF CreateNoSubnets, Up
  <2>3. /\ clusterInfo' \in Info /\ clusterInfo'.customChainsHealthy
        /\ clusterInfo'.infos = nodeInfos /\ clusterInfo'.subnets = clusterInfo.subnets
    BY <1>1, <2>2, UpInfo DEF CreateNoSubnets, updateClusterInfo, Info, IInv, TypeOK
  <2>4. clusterInfo' # NoInfo
    BY <2>3, NilAssumption
  <2>5. TypeOK'
    BY <2>1, <2>3 DEF IInv, TypeOK
  <2>6. Agrees'
    <3>1. View(nodes)' = View(nodes)
      BY <2>1
    <3> QED BY <2>1, <2>2, <2>3, <2>4, <3>1, UpInfo
         DEF IInv, Agrees, HealthMatchesNetwork, DeliveredErrorIsCurrent,
             InfoStaleOnlyAfterError, InfosFresh, SubnetsKnown, NoNodesWithoutNetwork
  <2> QED BY <2>5, <2>6 DEF IInv
<1>2. ASSUME NEW S \in SUBSET Subnets, CreateFails(S)
      PROVE  IInv'
  <2>1. network
    BY <1>2 DEF CreateFails, Up
  <2>2. [clusterInfo EXCEPT !.subnets = @ \cup S] \in Info
    BY <2>1, UpInfo DEF Info
  <2>3. created \in Nat /\ snapshot \in Snapshot \cup {NoSnapshot}
    BY DEF IInv, TypeOK
  <2> QED BY <1>2, <2>2, <2>3, RemovedStep DEF CreateFails
<1> QED BY <1>1, <1>2

\* The validator calls and transformations that succeed.
LEMMA ValidatorSteps ==
  ASSUME IInv, NEW s \in Subnets, NEW n \in Names,
         \/ AddPermissionlessValidator(s, n) \/ RemoveSubnetValidator(s, n)
         \/ TransformElasticSubnets(s)
  PROVE  IInv'
<1>0. /\ nodes \in [Names -> NodeState] /\ ledger \in Ledger /\ elasticMap \in SUBSET Subnets
      /\ created \in Nat /\ ledger.validators[s] \in SUBSET (Names \cup {Gone})
  BY DEF IInv, TypeOK, Ledger
<1>1. CASE AddPermissionlessValidator(s, n)
  <2>1. With(nodes, {n} \ Present(nodes), "running") \in [Names -> NodeState]
    BY <1>0, WithType DEF NodeState
  <2>2. [ledger EXCEPT !.validators[s] = @ \cup {n}] \in Ledger
    BY <1>0, ValidatorsType
  <2> QED BY <1>0, <1>1, <2>1, <2>2, RunsStep DEF AddPermissionlessValidator, others
<1>2. CASE RemoveSubnetValidator(s, n)
  <2>1. [ledger EXCEPT !.validators[s] = @ \ {n}] \in Ledger
    BY <1>0, ValidatorsType
  <2> QED BY <1>0, <1>2, <2>1, RunsStep DEF RemoveSubnetValidator, others
<1>3. CASE TransformElasticSubnets(s)
  <2>1. [ledger EXCEPT !.elastic = @ \cup {s}] \in Ledger
    BY <1>0 DEF Ledger
  <2>2. elasticMap \cup {s} \in SUBSET Subnets
    BY <1>0
  <2> QED BY <1>0, <1>3, <2>1, <2>2, RunsStep DEF TransformElasticSubnets, others
<1> QED BY <1>1, <1>2, <1>3

\* What an await leaves in nodeInfos.
LEMMA AwaitedInfosType ==
  ASSUME IInv, NEW ns \in [Names -> NodeState]
  PROVE  AwaitedInfos(ns) \subseteq [Names -> InfoState]
<1>1. View(ns) \in [Names -> InfoState]
  BY ViewType
<1> QED BY <1>1 DEF AwaitedInfos, IInv, TypeOK

\* A validator call that failed: it changes no set of subnets and is remembered.
LEMMA ValidatorFailStep ==
  ASSUME IInv, NEW s \in Subnets, NEW n \in Names, ValidatorOpFails(s, n)
  PROVE  IInv'
<1>0. /\ nodes \in [Names -> NodeState] /\ ledger \in Ledger
      /\ ledger.validators[s] \in SUBSET (Names \cup {Gone})
  BY DEF IInv, TypeOK, Ledger
<1>1. /\ nodes' \in [Names -> NodeState] /\ ledger' \in Ledger
      /\ ledger'.subnets = ledger.subnets
  <2> DEFINE V == IF n \in ledger.validators[s] THEN ledger.validators[s] \ {n}
                                                ELSE ledger.validators[s] \cup {n}
  <2>1. CASE nodes' = nodes /\ ledger' = ledger
    BY <1>0, <2>1
  <2>2. CASE nodes' = [nodes EXCEPT ![n] = "running"] /\ ledger' = ledger
    BY <1>0, <2>2 DEF NodeState
  <2>3. CASE nodes' = nodes /\ ledger' = [ledger EXCEPT !.validators[s] = V]
    <3>1. V \in SUBSET (Names \cup {Gone})
      BY <1>0
    <3> HIDE DEF V
    <3> QED BY <1>0, <2>3, <3>1, ValidatorsType
  <2>4. CASE nodes' = nodes /\ ledger' = [ledger EXCEPT !.elastic = @ \cup {s}]
    BY <1>0, <2>4 DEF Ledger
  <2>5. CASE nodes' = [nodes EXCEPT ![n] = "absent"] /\ ledger' = Forget(ledger, {n})
    BY <1>0, <2>5, ForgetType DEF NodeState
  <2> QED BY <2>1, <2>2, <2>3, <2>4, <2>5 DEF ValidatorOpFails
<1>2. nodeInfos' \in [Names -> InfoState]
  BY <1>0, <1>1, AwaitedInfosType DEF ValidatorOpFails
<1>3. network
  BY DEF ValidatorOpFails, Up
<1>4. /\ clusterInfo' \in Info /\ clusterInfo'.customChainsHealthy
      /\ clusterInfo'.subnets = clusterInfo.subnets
  BY <1>2, <1>3, UpInfo DEF ValidatorOpFails, updateClusterInfo, Info
<1>5. clusterInfo' # NoInfo
  BY <1>4, NilAssumption
<1>6. /\ network' = network /\ clean' = FALSE
      /\ asyncErrCh' = asyncErrCh /\ created' = created /\ snapshot' = snapshot
      /\ panicked' = panicked /\ wait' = wait /\ held' = held
  BY DEF ValidatorOpFails, others
<1>7. elasticMap' \in SUBSET Subnets
  BY DEF ValidatorOpFails, IInv, TypeOK
<1>8. TypeOK'
  BY <1>1, <1>2, <1>4, <1>6, <1>7 DEF IInv, TypeOK
<1>9. Agrees'
  BY <1>1, <1>3, <1>4, <1>5, <1>6, UpInfo
     DEF Agrees, HealthMatchesNetwork, DeliveredErrorIsCurrent,
         InfoStaleOnlyAfterError, InfosFresh, SubnetsKnown, NoNodesWithoutNetwork
<1> QED BY <1>8, <1>9 DEF IInv

\* Health, its panic, and a handler that takes s.mu and leaves things alone.
LEMMA HealthSteps ==
  ASSUME IInv, Health \/ HealthFails \/ AwaitPanic \/ Hold \/ Release
  PROVE  IInv'
<1>0. /\ nodes \in [Names -> NodeState] /\ ledger \in Ledger
      /\ View(nodes) \in [Names -> InfoState]
  BY ViewType DEF IInv, TypeOK
<1>1. CASE Health
  <2>1. /\ network' = network /\ nodes' = nodes /\ ledger' = ledger
        /\ nodeInfos' = View(nodes) /\ elasticMap' = elasticMap /\ clean' = TRUE
        /\ asyncErrCh' = asyncErrCh /\ created' = created /\ snapshot' = snapshot
        /\ panicked' = panicked /\ wait' = wait /\ held' = FALSE
    BY <1>1 DEF Health, others
  <2>2. network
    BY <1>1 DEF Health, Holding
  <2>3. /\ clusterInfo' \in Info /\ clusterInfo'.customChainsHealthy
        /\ clusterInfo'.infos = View(nodes) /\ clusterInfo'.subnets = clusterInfo.subnets
    BY <1>0, <1>1, <2>2, UpInfo DEF Health, Info
  <2>4. clusterInfo' # NoInfo
    BY <2>3, NilAssumption
  <2>5. TypeOK'
    BY <1>0, <2>1, <2>3 DEF IInv, TypeOK
  <2>6. Agrees'
    <3>1. View(nodes)' = View(nodes)
      BY <2>1
    <3> QED BY <2>1, <2>2, <2>3, <2>4, <3>1, UpInfo
         DEF Agrees, HealthMatchesNetwork, DeliveredErrorIsCurrent,
             InfoStaleOnlyAfterError, InfosFresh, SubnetsKnown, NoNodesWithoutNetwork
  <2> QED BY <2>5, <2>6 DEF IInv
<1>2. CASE HealthFails
  <2>1. PICK infos \in AwaitedInfos(nodes) : NodeOpFails(nodes, ledger, infos)
    BY <1>2 DEF HealthFails, NodeOpFails
  <2> QED BY <1>0, <1>2, <2>1, AwaitedInfosType, NodeOpFailsStep DEF HealthFails, Holding
<1>3. CASE AwaitPanic
  BY <1>3, OutsideStep DEF AwaitPanic, IInv, TypeOK
<1>4. CASE Hold \/ Release
  BY <1>4, OutsideStep DEF Hold, Release, IInv, TypeOK
<1> QED BY <1>1, <1>2, <1>3, <1>4

\* The handlers that add, remove, restart, pause and resume a node.
LEMMA NodeSteps ==
  ASSUME IInv, NEW n \in Names,
         AddNode(n) \/ RemoveNode(n) \/ RestartNode(n) \/ PauseNode(n) \/ ResumeNode(n)
  PROVE  IInv'
<1>0. /\ nodes \in [Names -> NodeState] /\ nodeInfos \in [Names -> InfoState]
      /\ ledger \in Ledger
  BY DEF IInv, TypeOK
<1>1. \A x \in NodeState : [nodes EXCEPT ![n] = x] \in [Names -> NodeState]
  BY <1>0
<1>2. {"running", "dead", "paused", "absent"} \subseteq NodeState
  BY DEF NodeState
<1>3. Forget(ledger, {n}) \in Ledger /\ Forget(ledger, {n}).subnets = ledger.subnets
  BY <1>0, ForgetType
<1>4. CASE AddNode(n)
  BY <1>1, <1>2, <1>3, <1>4, NodeOpStep DEF AddNode, Up
<1>5. CASE RemoveNode(n)
  BY <1>0, <1>1, <1>2, <1>3, <1>5, NodeOpStep, NodeOpFailsStep DEF RemoveNode, Holding
<1>6. CASE RestartNode(n)
  <2>1. network
    BY <1>6 DEF RestartNode, Holding
  <2>2. CASE NodeOp([nodes EXCEPT ![n] = "running"], ledger)
    BY <1>0, <1>1, <1>2, <2>1, <2>2, NodeOpStep
  <2>3. CASE NodeOpFails([nodes EXCEPT ![n] = "absent"], Forget(ledger, {n}), nodeInfos)
    BY <1>0, <1>1, <1>2, <1>3, <2>1, <2>3, NodeOpFailsStep
  <2> QED BY <1>6, <2>2, <2>3 DEF RestartNode
<1>7. CASE PauseNode(n)
  <2>1. network
    BY <1>7 DEF PauseNode, Holding
  <2>2. CASE NodeOp([nodes EXCEPT ![n] = "paused"], ledger)
    BY <1>0, <1>1, <1>2, <2>1, <2>2, NodeOpStep
  <2>3. CASE NodeOpFails([nodes EXCEPT ![n] = "dead"], ledger, nodeInfos)
    BY <1>0, <1>1, <1>2, <2>1, <2>3, NodeOpFailsStep
  <2> QED BY <1>7, <2>2, <2>3 DEF PauseNode
<1>8. CASE ResumeNode(n)
  BY <1>0, <1>1, <1>2, <1>8, NodeOpStep DEF ResumeNode, Up
<1> QED BY <1>4, <1>5, <1>6, <1>7, <1>8

\* Snapshots and Stop.
LEMMA SnapshotSteps ==
  ASSUME IInv,
         \/ SaveSnapshot \/ SaveSnapshotFails \/ RemoveSnapshot
         \/ LoadSnapshotFails \/ LoadSnapshotUnhealthy \/ LoadSnapshot \/ Stop
  PROVE  IInv'
<1>0. /\ nodes \in [Names -> NodeState] /\ nodeInfos \in [Names -> InfoState]
      /\ ledger \in Ledger /\ elasticMap \in SUBSET Subnets
      /\ clusterInfo \in Info \cup {NoInfo}
      /\ created \in Nat /\ snapshot \in Snapshot \cup {NoSnapshot}
  BY DEF IInv, TypeOK
<1>1. CASE SaveSnapshot
  <2>1. [names |-> Present(nodes), ledger |-> ledger, elasticMap |-> elasticMap] \in Snapshot
    BY <1>0 DEF Snapshot, Present
  <2>2. /\ created' \in Nat /\ snapshot' \in Snapshot /\ UNCHANGED <<panicked, wait>>
        /\ stopAndRemoveNetwork(clusterInfo, NoErr)
    BY <1>0, <1>1, <2>1 DEF SaveSnapshot
  <2> QED BY <1>0, <2>2, RemovedStep
<1>2. CASE SaveSnapshotFails
  BY <1>0, <1>2, EmptyTypes, ForgetType, NodeOpFailsStep DEF SaveSnapshotFails, Holding
<1>3. CASE RemoveSnapshot
  <2>1. /\ snapshot' = NoSnapshot
        /\ UNCHANGED <<network, nodes, ledger, elasticMap, nodeInfos, clusterInfo, asyncErrCh,
                       created, panicked, wait, held, clean>>
    BY <1>3 DEF RemoveSnapshot
  <2>2. TypeOK'
    BY <2>1 DEF IInv, TypeOK
  <2>3. View(nodes)' = View(nodes)
    BY <2>1
  <2>4. Agrees'
    BY <2>1, <2>3 DEF IInv, Agrees, HealthMatchesNetwork, DeliveredErrorIsCurrent,
                      InfoStaleOnlyAfterError, InfosFresh, SubnetsKnown, NoNodesWithoutNetwork
  <2> QED BY <2>2, <2>4 DEF IInv
<1>4. CASE LoadSnapshotFails
  <2>1. /\ created' \in Nat /\ stopAndRemoveNetwork(NewInfo, NoErr)
        /\ UNCHANGED <<snapshot, panicked, wait>>
    BY SMT, <1>0, <1>4 DEF LoadSnapshotFails
  <2> QED BY <1>0, <2>1, EmptyTypes, RemovedStep
<1>5. CASE LoadSnapshotUnhealthy
  <2>1. /\ created' \in Nat /\ stopAndRemoveNetwork(NewInfo, created')
        /\ UNCHANGED <<snapshot, panicked, wait>>
    BY SMT, <1>0, <1>5 DEF LoadSnapshotUnhealthy
  <2> QED BY <1>0, <2>1, EmptyTypes, RemovedStep
<1>6. CASE LoadSnapshot
  <2>1. snapshot.ledger \in Ledger /\ snapshot.elasticMap \in SUBSET Subnets
    BY <1>0, <1>6 DEF LoadSnapshot, Snapshot
  <2>2. With(NoNodes, snapshot.names, "running") \in [Names -> NodeState]
    BY EmptyTypes, WithType DEF NodeState
  <2> QED BY SMT, <1>0, <1>6, <2>1, <2>2, RunsStep DEF LoadSnapshot
<1>7. CASE Stop
  <2>1. /\ created' \in Nat /\ stopAndRemoveNetwork(clusterInfo, NoErr)
        /\ UNCHANGED <<snapshot, panicked, wait>>
    BY <1>0, <1>7 DEF Stop
  <2> QED BY <1>0, <2>1, RemovedStep
<1> QED BY <1>1, <1>2, <1>3, <1>4, <1>5, <1>6, <1>7

\* A process that exits, unseen by the server.
LEMMA ExitStep ==
  ASSUME IInv, NEW n \in Names, ProcessExits(n)
  PROVE  IInv'
<1>1. /\ nodes' = [nodes EXCEPT ![n] = "dead"] /\ nodes[n] = "running"
      /\ UNCHANGED <<network, ledger, elasticMap, nodeInfos, clusterInfo, clean, asyncErrCh,
                     created, snapshot, panicked, wait, held>>
  BY DEF ProcessExits, others
<1>2. View(nodes') = View(nodes)
  BY <1>1, ViewOfExit DEF IInv, TypeOK
<1>3. TypeOK'
  BY <1>1 DEF IInv, TypeOK, NodeState
<1>4. network
  BY <1>1 DEF IInv, Agrees, NoNodesWithoutNetwork, NoNodes
<1>5. Agrees'
  BY <1>1, <1>2, <1>4
     DEF IInv, Agrees, HealthMatchesNetwork, DeliveredErrorIsCurrent,
         InfoStaleOnlyAfterError, InfosFresh, SubnetsKnown, NoNodesWithoutNetwork
<1> QED BY <1>3, <1>5 DEF IInv

\* WaitForHealthy.
LEMMA WaitSteps ==
  ASSUME IInv, NEW w \in Waiters, WaitForHealthy(w) \/ Look(w) \/ LookTimedOut(w)
  PROVE  IInv'
<1>1. /\ UNCHANGED <<network, nodes, ledger, elasticMap, nodeInfos, clusterInfo, created,
                     snapshot, clean, panicked, held>>
      /\ asyncErrCh' \in {asyncErrCh, NoErr}
      /\ \E x \in WaitState : wait' = [wait EXCEPT ![w] = x]
  BY DEF WaitForHealthy, Look, LookTimedOut, WaitState
<1>2. wait' \in [Waiters -> WaitState] /\ panicked' \in BOOLEAN /\ held' \in BOOLEAN
  BY <1>1 DEF IInv, TypeOK
<1> QED BY <1>1, <1>2, OutsideStep

-----------------------------------------------------------------------------
(* The invariants *)

\* A new server satisfies the inductive invariant.
LEMMA Initially == Init => IInv
<1> SUFFICES ASSUME Init PROVE IInv
  OBVIOUS
<1>1. TypeOK
  BY EmptyTypes DEF Init, TypeOK, WaitState
<1>2. Agrees
  BY DEF Init, Agrees, HealthMatchesNetwork, DeliveredErrorIsCurrent,
         InfoStaleOnlyAfterError, InfosFresh, SubnetsKnown, NoNodesWithoutNetwork
<1> QED BY <1>1, <1>2 DEF IInv

\* Every handler, failing or not, every look of a waiter and every exit of a
\* process keeps it.
LEMMA Preserved == IInv /\ [Next]_vars => IInv'
<1> SUFFICES ASSUME IInv, [Next]_vars PROVE IInv'
  OBVIOUS
<1>1. CASE UNCHANGED vars
  BY <1>1, OutsideStep DEF vars, IInv, TypeOK
<1>2. CASE StartNoNetwork \/ StartFails \/ StartChainsFail
  BY <1>2, StartSteps
<1>3. ASSUME NEW P \in SUBSET Names, Start(P)
      PROVE  IInv'
  BY <1>3, StartSteps
<1>4. ASSUME NEW P \in SUBSET Names, NEW s \in Subnets, NEW chain \in BOOLEAN,
             CreateSubnet(s, P, chain) \/ CreateChainOn(s)
      PROVE  IInv'
  BY <1>4, CreateSteps
<1>5. ASSUME NEW s \in Subnets, CreateChainOn(s)
      PROVE  IInv'
  BY <1>5, CreateSteps
<1>6. ASSUME NEW s \in Subnets, TransformElasticSubnets(s)
      PROVE  IInv'
  <2>1. CASE \E n \in Names : TRUE
    BY <1>6, <2>1, ValidatorSteps
  <2>2. CASE Names = {}
    BY <1>6, <2>2 DEF TransformElasticSubnets, AwaitOK, Active
  <2> QED BY <2>1, <2>2
<1>7. CASE CreateNoSubnets \/ \E S \in SUBSET Subnets : CreateFails(S)
  BY <1>7, CreateOtherSteps
<1>8. ASSUME NEW s \in Subnets, NEW n \in Names,
             \/ AddPermissionlessValidator(s, n) \/ RemoveSubnetValidator(s, n)
             \/ ValidatorOpFails(s, n)
      PROVE  IInv'
  BY <1>8, ValidatorSteps, ValidatorFailStep
<1>9. CASE Health \/ HealthFails \/ AwaitPanic \/ Hold \/ Release
  BY <1>9, HealthSteps
<1>10. ASSUME NEW n \in Names,
              AddNode(n) \/ RemoveNode(n) \/ RestartNode(n) \/ PauseNode(n) \/ ResumeNode(n)
       PROVE  IInv'
  BY <1>10, NodeSteps
<1>11. ASSUME NEW n \in Names, ProcessExits(n)
       PROVE  IInv'
  BY <1>11, ExitStep
<1>12. CASE \/ SaveSnapshot \/ SaveSnapshotFails \/ RemoveSnapshot
            \/ LoadSnapshotFails \/ LoadSnapshotUnhealthy \/ LoadSnapshot \/ Stop
  BY <1>12, SnapshotSteps
<1>13. ASSUME NEW w \in Waiters, WaitForHealthy(w) \/ Look(w) \/ LookTimedOut(w)
       PROVE  IInv'
  BY <1>13, WaitSteps
<1> QED BY <1>1, <1>2, <1>3, <1>4, <1>5, <1>6, <1>7, <1>8, <1>9, <1>10, <1>11, <1>12, <1>13
        DEF Next

\* The inductive invariant holds in every state of the server.
THEOREM Invariance == Spec => []IInv
BY Initially, Preserved, PTL DEF Spec

\* The variables of the control service keep their types.
THEOREM TypeCorrectness == Spec => []TypeOK
<1>1. IInv => TypeOK
  BY DEF IInv
<1> QED BY <1>1, Invariance, PTL

\* CustomChainsHealthy, the flag of updateClusterInfo that WaitForHealthy looks
\* at, is set exactly while the server has a network.
THEOREM HealthFlag == Spec => []HealthMatchesNetwork
<1>1. IInv => HealthMatchesNetwork
  BY DEF IInv, Agrees
<1> QED BY <1>1, Invariance, PTL

\* stopAndRemoveNetwork empties asyncErrCh before it sends: an error that
\* WaitForHealthy delivers is about the network created last.
THEOREM ErrorIsCurrent == Spec => []DeliveredErrorIsCurrent
<1>1. IInv => DeliveredErrorIsCurrent
  BY DEF IInv, Agrees
<1> QED BY <1>1, Invariance, PTL

\* The node infos clients see are those of the network's nodes unless a handler
\* has failed.
THEOREM InfoFreshness == Spec => []InfoStaleOnlyAfterError
<1>1. IInv => InfoStaleOnlyAfterError
  BY DEF IInv, Agrees
<1> QED BY <1>1, Invariance, PTL

\* The server knows every subnet of the network it runs.
THEOREM KnownSubnets == Spec => []SubnetsKnown
<1>1. IInv => SubnetsKnown
  BY DEF IInv, Agrees
<1> QED BY <1>1, Invariance, PTL

\* No handler, however it fails, drops the network and leaves nodes running.
THEOREM NothingLeftBehind == Spec => []NoNodesWithoutNetwork
<1>1. IInv => NoNodesWithoutNetwork
  BY DEF IInv, Agrees
<1> QED BY <1>1, Invariance, PTL

=============================================================================
