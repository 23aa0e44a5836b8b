------------------------------ MODULE Subnets -------------------------------
(***************************************************************************)
(* The provisioning calls of local/blockchain.go: CreateSubnets,           *)
(* CreateBlockchains, AddPermissionlessValidators, RemoveSubnetValidators  *)
(* and TransformSubnet.  A call holds ln.lock from its first step to its   *)
(* last, so there is one at a time; but it takes minutes, and meanwhile    *)
(* luxd processes exit, validation periods begin, transactions are         *)
(* accepted after their wait has timed out, and Stop closes onStopCh.      *)
(*                                                                         *)
(* A call is a sequence of steps, each an action, and every step can fail. *)
(* A call has one spec; a node is its name.  The P-chain is external: a    *)
(* validator is pending before it is current, and a subnet takes only      *)
(* current validators of the primary network.                              *)
(***************************************************************************)
EXTENDS Naturals

CONSTANTS
  Names,     \* node names
  Subnets,   \* subnet IDs
  NoSubnet   \* no call under way

ASSUME NoSubnetAssumption == NoSubnet \notin Subnets

VARIABLES
  nodes,       \* ln.nodes; "dead": not paused, its process has ended
  flags,       \* flags[n]: TrackSubnetsKey in the flags of n's config
  custom,      \* the nodes for which a client has set that key itself
  tracks,      \* tracks[n]: the flag that n's process was started with, if it has one
  primary,     \* primary[n]: n as a validator of the primary network
  vals,        \* vals[s][n]: n as a validator of subnet s
  gone,        \* the subnets with a validator that is no node any more
  subnets,     \* the subnets of the P-chain
  elastic,     \* those that were transformed
  elasticMap,  \* the domain of ln.subnetID2ElasticSubnetID
  op,          \* the call under way
  clean,       \* no call has failed
  stop         \* Stop: "no", "closed" (onStopCh closed, lock not held), "done"

vars == <<nodes, flags, custom, tracks, primary, vals, gone, subnets, elastic,
          elasticMap, op, clean, stop>>
chain == <<primary, vals, gone, subnets, elastic>>

NodeState == {"absent", "running", "dead", "paused"}
ValState == {"no", "pending", "current"}
Kinds == {"none", "subnet", "chain", "chainOn", "permissionless", "remove", "transform"}
Steps == {"idle", "panicked", "addNodes", "addPrimary", "waitPrimary", "addVals",
          "removeVals", "restart", "reload", "waitVals", "chainTx", "ready", "transformTx"}

Idle == [kind |-> "none", pc |-> "idle", s |-> NoSubnet, P |-> {}, todo |-> {}]
Panicked == [kind |-> "none", pc |-> "panicked", s |-> NoSubnet, P |-> {}, todo |-> {}]

TypeOK ==
  /\ nodes \in [Names -> NodeState]
  /\ flags \in [Names -> SUBSET Subnets]
  /\ custom \subseteq Names
  /\ tracks \in [Names -> SUBSET Subnets]
  /\ primary \in [Names -> ValState]
  /\ vals \in [Subnets -> [Names -> ValState]]
  /\ gone \subseteq Subnets
  /\ subnets \subseteq Subnets
  /\ elastic \subseteq subnets
  /\ elasticMap \subseteq elastic
  /\ op \in [kind : Kinds, pc : Steps, s : Subnets \cup {NoSubnet},
             P : SUBSET Names, todo : SUBSET Names]
  /\ clean \in BOOLEAN
  /\ stop \in {"no", "closed", "done"}

\* A running network; its genesis names the first nodes as validators.  Start
\* has set the key of those for which its request has subnets to track.
Init ==
  /\ \E G \in SUBSET Names \ {{}}, F \in [Names -> SUBSET Subnets] :
       /\ nodes = [n \in Names |-> IF n \in G THEN "running" ELSE "absent"]
       /\ primary = [n \in Names |-> IF n \in G THEN "current" ELSE "no"]
       /\ flags = [n \in Names |-> IF n \in G THEN F[n] ELSE {}]
  /\ custom = {n \in Names : flags[n] # {}}
  /\ tracks = flags
  /\ vals = [s \in Subnets |-> [n \in Names |-> "no"]]
  /\ gone = {} /\ subnets = {} /\ elastic = {} /\ elasticMap = {}
  /\ op = Idle
  /\ clean = TRUE
  /\ stop = "no"

-----------------------------------------------------------------------------
Present == {n \in Names : nodes[n] # "absent"}
Active == {n \in Names : nodes[n] \in {"running", "dead"}}
Healthy == \A n \in Names : nodes[n] # "dead"
Validators(s) == {n \in Names : vals[s][n] # "no"}
Current(s) == {n \in Names : vals[s][n] = "current"}

At(pc) == op.pc = pc
Goto(pc, todo) == op' = [op EXCEPT !.pc = pc, !.todo = todo] /\ clean' = clean
Succeed == op' = Idle /\ clean' = clean
Fail == op' = Idle /\ clean' = FALSE
Panic == op' = Panicked /\ clean' = FALSE

\* A step on one member of todo; the loop ends with the last one.
Done(n) == op' = [op EXCEPT !.todo = @ \ {n}] /\ clean' = clean

\* The process of n runs with n's config, which has f for the key.
Started(n, f) ==
  /\ nodes' = [nodes EXCEPT ![n] = "running"]
  /\ flags' = [flags EXCEPT ![n] = f]
  /\ tracks' = [tracks EXCEPT ![n] = f]

\* The network after n left it: what validated under its key has no node.
Leaves(n) ==
  /\ nodes' = [nodes EXCEPT ![n] = "absent"]
  /\ flags' = [flags EXCEPT ![n] = {}]
  /\ custom' = custom \ {n}
  /\ tracks' = [tracks EXCEPT ![n] = {}]
  /\ primary' = [primary EXCEPT ![n] = "no"]
  /\ vals' = [s \in Subnets |-> [vals[s] EXCEPT ![n] = "no"]]
  /\ gone' = gone \cup {s \in Subnets : n \in Validators(s)}
  /\ UNCHANGED <<subnets, elastic>>

\* Every call begins with getClientURI, which dereferences the node that getNode
\* returns: nil if none is active.  The panic ends the server.
Begin(kind, pc, s, P) ==
  /\ At("idle")
  /\ IF Active # {}
       THEN /\ op' = [kind |-> kind, pc |-> pc, s |-> s, P |-> P, todo |-> P]
            /\ UNCHANGED clean
       ELSE Panic
  /\ UNCHANGED <<nodes, flags, custom, tracks, chain, elasticMap, stop>>

-----------------------------------------------------------------------------
(* The calls.  newWallet fetches the transaction of the subnet that a call  *)
(* names, so a call on one that does not exist ends before it changes       *)
(* anything.                                                                *)

\* CreateSubnets, or CreateBlockchains with a new subnet; without participants
\* all nodes are, the paused ones included.
Create(s, P, kind) ==
  /\ s \notin subnets /\ kind \in {"subnet", "chain"}
  /\ Begin(kind, "addNodes", s, IF P = {} THEN Present ELSE P)

CreateOn(s) == s \in subnets /\ Begin("chainOn", "addNodes", s, {})

\* Whether s is elastic, and n no validator of it yet, is left to the P-chain.
AddPermissionless(s, n) ==
  /\ s \in subnets
  /\ Begin("permissionless", "addNodes", s, {n})

RemoveValidators(s, P) ==
  /\ s \in subnets /\ P # {}
  /\ Begin("remove", "removeVals", s, P)

Transform(s) == s \in subnets /\ Begin("transform", "transformTx", s, {})

-----------------------------------------------------------------------------
(* The steps *)

\* A participant that is no node yet is added.
AddMissing(n) ==
  /\ At("addNodes") /\ n \in op.todo
  /\ IF n \in Present THEN UNCHANGED <<nodes, flags, tracks>> ELSE Started(n, {})
  /\ Done(n)
  /\ UNCHANGED <<custom, chain, elasticMap, stop>>

\* ln.healthy; addPrimaryValidators then reads the current validators.
AllHealthy ==
  /\ At("addNodes") /\ op.todo = {} /\ Healthy
  /\ Goto("addPrimary", {n \in Present : primary[n] # "current"})
  /\ UNCHANGED <<nodes, flags, custom, tracks, chain, elasticMap, stop>>

\* What the P-chain takes as a new validator of the primary network, and as one
\* of the call's subnet: not a second time, and a permissionless one only if the
\* subnet is elastic.
TakesPrimary(n) == primary[n] = "no"
TakesValidator(n) ==
  /\ primary[n] = "current" /\ n \notin Validators(op.s)
  /\ op.kind = "permissionless" => op.s \in elastic

\* The transaction is not waited for.
AddPrimary(n) ==
  /\ At("addPrimary") /\ n \in op.todo
  /\ IF TakesPrimary(n)
       THEN primary' = [primary EXCEPT ![n] = "pending"] /\ Done(n)
       ELSE Fail /\ UNCHANGED primary
  /\ UNCHANGED <<nodes, flags, custom, tracks, vals, gone, subnets, elastic, elasticMap,
                 stop>>

\* createSubnets and setSubnetConfigFiles; nothing to create on a known subnet.
CreateSubnetTx ==
  /\ At("addPrimary") /\ op.todo = {}
  /\ IF op.kind \in {"subnet", "chain"}
       THEN /\ subnets' = subnets \cup {op.s}
            /\ Goto("waitPrimary", {}) \/ Fail
       ELSE Goto("waitPrimary", {}) /\ UNCHANGED subnets
  /\ UNCHANGED <<nodes, flags, custom, tracks, primary, vals, gone, elastic, elasticMap,
                 stop>>

\* Faulty variant of WaitPrimary.
WaitPrimary_Skipped ==
  /\ At("waitPrimary")
  /\ Goto("addVals", op.P)
  /\ UNCHANGED <<nodes, flags, custom, tracks, chain, elasticMap, stop>>

WaitPrimary ==
  /\ At("waitPrimary")
  /\ \A n \in Present : primary[n] = "current"
  /\ Goto("addVals", op.P)
  /\ UNCHANGED <<nodes, flags, custom, tracks, chain, elasticMap, stop>>

\* The transaction for n, which may be accepted after the wait for it ended.
ProposeValidator(n) ==
  IF TakesValidator(n)
    THEN vals' = [vals EXCEPT ![op.s][n] = "pending"] /\ (Done(n) \/ Fail)
    ELSE Fail /\ UNCHANGED vals

\* addSubnetValidators: the node must be in the network, and a current validator
\* is skipped.
AddValidator(n) ==
  /\ At("addVals") /\ op.kind # "permissionless" /\ n \in op.todo
  /\ IF n \notin Present THEN Fail /\ UNCHANGED vals
     ELSE IF n \in Current(op.s) THEN Done(n) /\ UNCHANGED vals
     ELSE ProposeValidator(n)
  /\ UNCHANGED <<nodes, flags, custom, tracks, primary, gone, subnets, elastic, elasticMap,
                 stop>>

\* The loop of addPermissionlessValidators, which looks at nothing but ln.nodes.
AddPermissionlessValidator(n) ==
  /\ At("addVals") /\ op.kind = "permissionless" /\ n \in op.todo
  /\ IF n \notin Present THEN Panic /\ UNCHANGED vals ELSE ProposeValidator(n)
  /\ UNCHANGED <<nodes, flags, custom, tracks, primary, gone, subnets, elastic, elasticMap,
                 stop>>

\* removeSubnetValidators: n must be a node and a current validator.
RemoveValidator(n) ==
  /\ At("removeVals") /\ n \in op.todo
  /\ IF n \notin Present \/ n \notin Current(op.s) THEN Fail /\ UNCHANGED vals
     ELSE /\ vals' = [vals EXCEPT ![op.s][n] = "no"]
          /\ Done(n) \/ Fail
  /\ UNCHANGED <<nodes, flags, custom, tracks, primary, gone, subnets, elastic, elasticMap,
                 stop>>

\* createBlockchainTxs and setBlockchainConfigFiles: a chain on a known subnet
\* restarts the validators if it has config files.
SetConfigFiles ==
  /\ At("addVals") /\ op.todo = {}
  /\ IF op.kind = "chainOn"
       THEN \/ op.s \in gone /\ Fail
            \/ op.s \notin gone /\ Goto("reload", {})
            \/ /\ op.s \notin gone
               /\ op' = [op EXCEPT !.pc = "restart", !.P = Current(op.s), !.todo = Present]
               /\ clean' = clean
       ELSE Goto("restart", Present)
  /\ UNCHANGED <<nodes, flags, custom, tracks, chain, elasticMap, stop>>

RemovalsDone ==
  /\ At("removeVals") /\ op.todo = {}
  /\ Goto("restart", Present)
  /\ UNCHANGED <<nodes, flags, custom, tracks, chain, elasticMap, stop>>

-----------------------------------------------------------------------------
(* restartNodes and what follows it *)

NewFlags(n) ==
  IF n \notin op.P \/ op.kind = "chainOn" THEN flags[n]
  ELSE IF op.kind = "remove" THEN flags[n] \ {op.s}
  ELSE flags[n] \cup {op.s}

\* Faulty variant of Restart.
Restart_SkipsPaused(n) ==
  /\ At("restart") /\ n \in op.todo
  /\ IF n \notin op.P \/ nodes[n] = "paused"
       THEN Done(n) /\ UNCHANGED <<nodes, flags, custom, tracks, chain>>
       ELSE \/ Started(n, NewFlags(n)) /\ Done(n) /\ UNCHANGED <<custom, chain>>
            \/ Leaves(n) /\ Fail
  /\ UNCHANGED <<elasticMap, stop>>

\* Faulty variant of Restart.
Restart_BeforeFlags(n) ==
  /\ At("restart") /\ n \in op.todo
  /\ flags' = [flags EXCEPT ![n] = NewFlags(n)]
  /\ nodes' = IF n \in op.P /\ nodes[n] # "paused" THEN [nodes EXCEPT ![n] = "running"] ELSE nodes
  /\ Done(n)
  /\ UNCHANGED <<custom, tracks, chain, elasticMap, stop>>

\* The flag is set on every node; a participant that is not paused is restarted
\* with it, or is lost when its process exits badly or cannot be started.
Restart(n) ==
  /\ At("restart") /\ n \in op.todo
  /\ IF n \notin op.P \/ nodes[n] = "paused"
       THEN /\ flags' = [flags EXCEPT ![n] = NewFlags(n)]
            /\ Done(n)
            /\ UNCHANGED <<nodes, custom, tracks, chain>>
       ELSE \/ Started(n, NewFlags(n)) /\ Done(n) /\ UNCHANGED <<custom, chain>>
            \/ Leaves(n) /\ Fail
  /\ UNCHANGED <<elasticMap, stop>>

\* The ln.healthy at the end of restartNodes.
Restarted ==
  /\ At("restart") /\ op.todo = {} /\ Healthy
  /\ \/ op.kind \in {"permissionless", "remove"} /\ Succeed
     \/ op.kind = "subnet" /\ Goto("waitVals", {})
     \/ op.kind \in {"chain", "chainOn"} /\ Goto("reload", {})
  /\ UNCHANGED <<nodes, flags, custom, tracks, chain, elasticMap, stop>>

\* reloadVMPlugins: every node that is not paused must answer in time.
ReloadVMPlugins ==
  /\ At("reload")
  /\ IF Healthy THEN Goto("waitVals", {}) ELSE Fail
  /\ UNCHANGED <<nodes, flags, custom, tracks, chain, elasticMap, stop>>

\* waitSubnetValidators, for a subnet that this call created.
WaitValidators ==
  /\ At("waitVals")
  /\ op.kind = "chainOn" \/ op.P \subseteq Current(op.s)
  /\ IF op.kind = "subnet" THEN Succeed ELSE Goto("chainTx", {})
  /\ UNCHANGED <<nodes, flags, custom, tracks, chain, elasticMap, stop>>

\* createBlockchains: the chain itself matters to none of the later steps.
CreateChainTx ==
  /\ At("chainTx")
  /\ Goto("ready", {}) \/ Fail
  /\ UNCHANGED <<nodes, flags, custom, tracks, primary, vals, gone, subnets, elastic, elasticMap,
                 stop>>

\* waitForCustomChainsReady: the chain's log shows up on each of its validators
\* that is not paused, which is to say that the node tracks the subnet.
ChainsReady ==
  /\ At("ready") /\ Healthy
  /\ \/ op.s \in gone /\ Fail
     \/ op.s \notin gone /\ (\A n \in Current(op.s) \cap Active : op.s \in tracks[n]) /\ Succeed
  /\ UNCHANGED <<nodes, flags, custom, tracks, chain, elasticMap, stop>>

\* Faulty variant of TransformTx.
TransformTx_NotedFirst ==
  /\ At("transformTx")
  /\ elasticMap' = elasticMap \cup {op.s}
  /\ \/ elastic' = elastic \cup {op.s} /\ Succeed
     \/ elastic' = elastic /\ Fail
  /\ UNCHANGED <<nodes, flags, custom, tracks, primary, vals, gone, subnets, stop>>

\* The ID is noted only if the wait for the transaction did not time out.  A
\* subnet is transformed once; the code does not look whether it was.
TransformTx ==
  /\ At("transformTx")
  /\ IF op.s \in elastic
       THEN Fail /\ UNCHANGED <<elastic, elasticMap>>
       ELSE /\ elastic' = elastic \cup {op.s}
            /\ \/ elasticMap' = elasticMap \cup {op.s} /\ Succeed
               \/ elasticMap' = elasticMap /\ Fail
  /\ UNCHANGED <<nodes, flags, custom, tracks, primary, vals, gone, subnets, stop>>

\* An API call fails, or the deadline of the call passes.
CallFails ==
  /\ op.pc \notin {"idle", "panicked"}
  /\ Fail
  /\ UNCHANGED <<nodes, flags, custom, tracks, chain, elasticMap, stop>>

\* Faulty variant of Aborts.
Aborts_NotForValidators ==
  /\ stop # "no"
  /\ \/ op.pc \in {"addNodes", "restart"} /\ op.todo = {}
     \/ op.pc \in {"waitPrimary", "ready"}
  /\ Fail
  /\ UNCHANGED <<nodes, flags, custom, tracks, chain, elasticMap, stop>>

\* The waits that select on onStopCh.
Aborts ==
  /\ stop # "no"
  /\ \/ op.pc \in {"addNodes", "restart"} /\ op.todo = {}
     \/ op.pc \in {"waitPrimary", "waitVals", "ready"}
  /\ Fail
  /\ UNCHANGED <<nodes, flags, custom, tracks, chain, elasticMap, stop>>

-----------------------------------------------------------------------------
(* Other operations on the nodes, Stop, and the environment *)

\* AddNode, with or without the key in the flags of the node's config.
AddNode(n, T) ==
  /\ At("idle") /\ stop = "no" /\ n \notin Present
  /\ Started(n, T)
  /\ custom' = IF T = {} THEN custom ELSE custom \cup {n}
  /\ UNCHANGED <<chain, elasticMap, op, clean, stop>>

PauseNode(n) ==
  /\ At("idle") /\ n \in Active
  /\ nodes' = [nodes EXCEPT ![n] = "paused"]
  /\ tracks' = [tracks EXCEPT ![n] = {}]
  /\ UNCHANGED <<flags, custom, chain, elasticMap, op, clean, stop>>

\* RestartNode, with subnets to track instead of the present ones if T is not
\* empty, and ResumeNode, without.  A node that cannot be started again is lost,
\* but for a paused one, which stays with its new config.
RestartNode(n, T) ==
  LET f == IF T = {} THEN flags[n] ELSE T
      Sets == custom' = IF T = {} THEN custom ELSE custom \cup {n}
  IN /\ At("idle") /\ n \in Present
     /\ \/ Started(n, f) /\ Sets /\ UNCHANGED chain
        \/ n \in Active /\ Leaves(n)
        \/ /\ nodes[n] = "paused"
           /\ flags' = [flags EXCEPT ![n] = f]
           /\ Sets
           /\ UNCHANGED <<nodes, tracks, chain>>
     /\ UNCHANGED <<elasticMap, op, clean, stop>>

RemoveNode(n) ==
  /\ At("idle") /\ n \in Present
  /\ Leaves(n)
  /\ UNCHANGED <<elasticMap, op, clean, stop>>

StopBegins ==
  /\ stop = "no" /\ ~At("panicked")
  /\ stop' = "closed"
  /\ UNCHANGED <<nodes, flags, custom, tracks, chain, elasticMap, op, clean>>

StopFinishes ==
  /\ stop = "closed" /\ At("idle")
  /\ stop' = "done"
  /\ nodes' = [n \in Names |-> "absent"]
  /\ flags' = [n \in Names |-> {}]
  /\ custom' = {}
  /\ tracks' = [n \in Names |-> {}]
  /\ UNCHANGED <<chain, elasticMap, op, clean>>

ProcessExits(n) ==
  /\ nodes[n] = "running"
  /\ nodes' = [nodes EXCEPT ![n] = "dead"]
  /\ UNCHANGED <<flags, custom, tracks, chain, elasticMap, op, clean, stop>>

ValidationStarts(n) ==
  /\ \/ /\ primary[n] = "pending"
        /\ primary' = [primary EXCEPT ![n] = "current"]
        /\ UNCHANGED vals
     \/ \E s \in Subnets : /\ vals[s][n] = "pending"
                           /\ vals' = [vals EXCEPT ![s][n] = "current"]
                           /\ UNCHANGED primary
  /\ UNCHANGED <<nodes, flags, custom, tracks, gone, subnets, elastic, elasticMap, op, clean, stop>>

Step ==
  \/ \E n \in Names : AddMissing(n) \/ AddPrimary(n) \/ AddValidator(n)
                       \/ AddPermissionlessValidator(n) \/ RemoveValidator(n) \/ Restart(n)
  \/ AllHealthy \/ CreateSubnetTx \/ WaitPrimary \/ SetConfigFiles \/ RemovalsDone
  \/ Restarted \/ ReloadVMPlugins \/ WaitValidators \/ CreateChainTx \/ ChainsReady
  \/ TransformTx \/ Aborts

Next ==
  \/ \E s \in Subnets :
       \/ \E P \in SUBSET Names, k \in {"subnet", "chain"} : Create(s, P, k)
       \/ \E P \in SUBSET Names : RemoveValidators(s, P)
       \/ \E n \in Names : AddPermissionless(s, n)
       \/ CreateOn(s) \/ Transform(s)
  \/ Step \/ CallFails
  \/ \E n \in Names : \/ \E T \in SUBSET Subnets : AddNode(n, T) \/ RestartNode(n, T)
                      \/ PauseNode(n) \/ RemoveNode(n) \/ ProcessExits(n) \/ ValidationStarts(n)
  \/ StopBegins \/ StopFinishes

Spec == Init /\ [][Next]_vars

\* The goroutine of the call goes on as long as it is not waiting, and Stop gets
\* a lock that is released again and again (a Go mutex does not starve it).
\* That validations begin or that calls have deadlines is not assumed.
FairSpec == Spec /\ WF_vars(Step) /\ SF_vars(StopFinishes)

-----------------------------------------------------------------------------
(* Properties *)

\* As long as no call has failed, a node is told to track exactly the subnets
\* it validates, unless a client has set its key (in Start, AddNode or
\* RestartNode); and in any case a process runs with what its node's config says:
\* paused nodes, restarts, removed validators and late joiners included.
ValidatorsTrack ==
  At("idle") /\ clean =>
    \A n \in Present :
      /\ n \notin custom => flags[n] = {s \in Subnets : n \in Validators(s)}
      /\ n \in Active => tracks[n] = flags[n]

\* CreateBlockchains never waits for the log of a chain on a node that does not
\* run the chain: such a wait ends only at the deadline.  On a subnet of its own
\* making this is so even for the nodes whose key a client has set; on a subnet
\* that was there before, for the others.
ReadyIsReachable ==
  At("ready") /\ clean =>
    \A n \in Current(op.s) \cap Active :
      n \notin custom \/ op.kind = "chain" => op.s \in tracks[n]

\* The request itself asks for what the P-chain refuses: that a subnet be
\* transformed twice, or that a node join one that is not elastic, or again.
AskedTooMuch ==
  \/ At("transformTx") /\ op.s \in elastic
  \/ /\ At("addVals") /\ op.kind = "permissionless"
     /\ op.s \notin elastic \/ op.todo \cap Validators(op.s) # {}

\* As long as no call has failed, and but for such requests, no transaction is
\* about to be issued that the P-chain refuses: nodes validate the primary
\* network before they join a subnet, nobody is proposed to it a second time
\* while it waits, and addSubnetValidators proposes nobody who is on the way.
NoRefusedTx ==
  clean /\ ~AskedTooMuch =>
    /\ At("addPrimary") => \A n \in op.todo : TakesPrimary(n)
    /\ At("addVals") => \A n \in op.todo \ Current(op.s) : TakesValidator(n)

\* Stop gets the lock, whatever the call that holds it is waiting for, unless a
\* panic ends the server first.
StopCompletes ==
  stop = "closed" ~> stop = "done" \/ At("panicked")

=============================================================================
