--------------------------- MODULE SubnetsProofs ----------------------------
(***************************************************************************)
(* Proofs about Subnets, for every set of nodes and subnets.               *)
(***************************************************************************)
EXTENDS Subnets, TLAPS

\* Zenon proves the leaves, except where a leaf asks for SMT.
USE Zenon

\* The steps that change nothing but the call itself.
OpStep ==
  \/ AllHealthy \/ WaitPrimary \/ SetConfigFiles \/ RemovalsDone \/ Restarted
  \/ ReloadVMPlugins \/ WaitValidators \/ ChainsReady \/ CallFails \/ Aborts

\* Those that change the P-chain with it.
TxStep ==
  \/ CreateSubnetTx \/ CreateChainTx \/ TransformTx
  \/ \E n \in Names : AddPrimary(n) \/ AddValidator(n) \/ AddPermissionlessValidator(n)
                       \/ RemoveValidator(n)

BeginStep ==
  \E s \in Subnets :
    \/ \E P \in SUBSET Names, k \in {"subnet", "chain"} : Create(s, P, k)
    \/ \E P \in SUBSET Names : RemoveValidators(s, P)
    \/ \E n \in Names : AddPermissionless(s, n)
    \/ CreateOn(s) \/ Transform(s)

\* Those of the nodes and of Stop, with the call or without one.
NodeStep ==
  \/ \E n \in Names : AddMissing(n) \/ Restart(n) \/ PauseNode(n) \/ RemoveNode(n)
                       \/ ProcessExits(n) \/ ValidationStarts(n)
  \/ \E n \in Names, T \in SUBSET Subnets : AddNode(n, T) \/ RestartNode(n, T)
  \/ StopBegins \/ StopFinishes

LEMMA NextSteps == Next => BeginStep \/ OpStep \/ TxStep \/ NodeStep
BY DEF Next, Step, BeginStep, OpStep, TxStep, NodeStep

-----------------------------------------------------------------------------
(* Types, and the shape of a call *)

Calls == [kind : Kinds, pc : Steps, s : Subnets \cup {NoSubnet},
          P : SUBSET Names, todo : SUBSET Names]

\* What is under way fits the kind of the call, and its subnet is known.
CallShape ==
  /\ op.pc = "idle" => op = Idle
  /\ op.pc = "panicked" => op = Panicked
  /\ op.pc \notin {"idle", "panicked"} => op.s \in Subnets
  /\ op.pc \in {"addNodes", "addPrimary", "waitPrimary", "addVals"} =>
       op.kind \in {"subnet", "chain", "chainOn", "permissionless"}
  /\ op.pc = "removeVals" => op.kind = "remove"
  /\ op.pc = "transformTx" => op.kind = "transform"
  /\ op.pc = "restart" =>
       op.kind \in {"subnet", "chain", "chainOn", "permissionless", "remove"}
  /\ op.pc \notin {"idle", "panicked", "addNodes", "addPrimary"} => op.s \in subnets
  /\ op.kind \in {"chainOn", "permissionless"} => op.s \in subnets
  /\ op.pc \in {"addNodes", "addVals", "removeVals"} => op.todo \subseteq op.P
  /\ op.kind = "chainOn" /\ op.pc \in {"addNodes", "addPrimary", "waitPrimary", "addVals"} =>
       op.P = {}

TInv == TypeOK /\ CallShape

LEMMA IdleCall == Idle \in Calls /\ Idle.pc = "idle"
BY DEF Idle, Calls, Kinds, Steps

LEMMA PanickedCall == Panicked \in Calls /\ Panicked.pc = "panicked" /\ Panicked.kind = "none"
BY DEF Panicked, Calls, Kinds, Steps

\* What the ways to go on do to the call.
LEMMA GotoEffect ==
  ASSUME TypeOK, NEW pc \in Steps, NEW T \in SUBSET Names, Goto(pc, T)
  PROVE  /\ op' \in Calls /\ op'.kind = op.kind /\ op'.pc = pc /\ op'.s = op.s
         /\ op'.P = op.P /\ op'.todo = T /\ clean' = clean
BY Zenon DEF Goto, TypeOK, Calls

LEMMA DoneEffect ==
  ASSUME TypeOK, NEW n \in Names, Done(n)
  PROVE  /\ op' \in Calls /\ op'.kind = op.kind /\ op'.pc = op.pc /\ op'.s = op.s
         /\ op'.P = op.P /\ op'.todo = op.todo \ {n} /\ clean' = clean
BY DEF Done, TypeOK, Calls

LEMMA EndEffect ==
  ASSUME Fail \/ Succeed
  PROVE  op' = Idle /\ op' \in Calls /\ (Fail => ~clean') /\ (Succeed => clean' = clean)
BY IdleCall DEF Fail, Succeed

LEMMA ShapeOfIdle ==
  ASSUME op' = Idle \/ op' = Panicked PROVE CallShape'
<1>1. CASE op' = Idle
  BY <1>1 DEF CallShape, Idle
<1>2. CASE op' = Panicked
  BY <1>2, PanickedCall DEF CallShape
<1> QED
  BY <1>1, <1>2

LEMMA BeginTypes ==
  ASSUME TInv, BeginStep PROVE TInv'
<1>1. PICK s \in Subnets, P \in SUBSET Names :
        \/ \E Q \in SUBSET Names, k \in {"subnet", "chain"} : Create(s, Q, k)
        \/ RemoveValidators(s, P)
        \/ \E n \in Names : AddPermissionless(s, n)
        \/ CreateOn(s) \/ Transform(s)
  BY DEF BeginStep
<1>2. PICK k \in Kinds, pc \in Steps, Q \in SUBSET Names :
        /\ Begin(k, pc, s, Q)
        /\ \/ k \in {"subnet", "chain"} /\ pc = "addNodes"
           \/ k = "chainOn" /\ pc = "addNodes" /\ Q = {} /\ s \in subnets
           \/ k = "permissionless" /\ pc = "addNodes" /\ s \in subnets
           \/ k = "remove" /\ pc = "removeVals" /\ s \in subnets
           \/ k = "transform" /\ pc = "transformTx" /\ s \in subnets
  <2>1. CASE \E R \in SUBSET Names, k \in {"subnet", "chain"} : Create(s, R, k)
    <3>1. PICK R \in SUBSET Names, k \in {"subnet", "chain"} : Create(s, R, k)
      BY <2>1
    <3> DEFINE Q == IF R = {} THEN Present ELSE R
    <3>2. Q \in SUBSET Names /\ Begin(k, "addNodes", s, Q)
      BY <3>1 DEF Create, Present
    <3> HIDE DEF Q
    <3> QED
      BY <3>2 DEF Kinds, Steps
  <2>2. CASE RemoveValidators(s, P)
    BY <2>2 DEF RemoveValidators, Kinds, Steps
  <2>3. CASE \E n \in Names : AddPermissionless(s, n)
    <3>1. PICK n \in Names : AddPermissionless(s, n)
      BY <2>3
    <3>2. {n} \in SUBSET Names /\ s \in subnets
      BY <3>1 DEF AddPermissionless
    <3> QED
      BY <3>1, <3>2 DEF AddPermissionless, Kinds, Steps
  <2>4. CASE CreateOn(s)
    BY <2>4 DEF CreateOn, Kinds, Steps
  <2>5. CASE Transform(s)
    BY SMT, <2>5 DEF Transform, Kinds, Steps
  <2> QED
    BY <1>1, <2>1, <2>2, <2>3, <2>4, <2>5
<1>3. /\ \/ op' = [kind |-> k, pc |-> pc, s |-> s, P |-> Q, todo |-> Q] /\ clean' = clean
         \/ op' = Panicked /\ clean' = FALSE
      /\ UNCHANGED <<nodes, flags, custom, tracks, chain, elasticMap, stop>>
  BY <1>2 DEF Begin, Panic
<1>4. op' \in Calls /\ clean' \in BOOLEAN
  <2>1. [kind |-> k, pc |-> pc, s |-> s, P |-> Q, todo |-> Q] \in Calls
    BY DEF Calls
  <2>2. clean \in BOOLEAN
    BY DEF TInv, TypeOK
  <2> QED
    BY <1>3, <2>1, <2>2, PanickedCall
<1>5. TypeOK'
  BY <1>3, <1>4 DEF TInv, TypeOK, chain, Calls
<1>6. CallShape'
  <2>1. CASE op' = Panicked
    BY <2>1, ShapeOfIdle
  <2>2. CASE op' = [kind |-> k, pc |-> pc, s |-> s, P |-> Q, todo |-> Q]
    BY <1>2, <1>3, <2>2 DEF CallShape, chain
  <2> QED
    BY <1>3, <2>1, <2>2
<1> QED
  BY <1>5, <1>6 DEF TInv

\* How a step of the call itself goes on: it ends, or moves on in its sequence.
Moves ==
  \/ op' = Idle \/ op' = Panicked
  \/ /\ op'.kind = op.kind /\ op'.s = op.s /\ op'.todo \subseteq Names
     /\ \/ /\ op'.P = op.P
           /\ \/ op.pc = "addNodes" /\ op'.pc = "addPrimary" /\ op'.todo \subseteq Present
              \/ op.pc = "addPrimary" /\ op'.pc = "waitPrimary" /\ op.s \in subnets'
              \/ op.pc = "waitPrimary" /\ op'.pc = "addVals" /\ op'.todo = op.P
              \/ op.pc = "addVals" /\ op'.pc = "restart" /\ op'.todo = Present
              \/ op.pc = "addVals" /\ op'.pc = "reload" /\ op.kind = "chainOn"
              \/ op.pc = "removeVals" /\ op'.pc = "restart"
              \/ op.pc = "restart" /\ op'.pc \in {"waitVals", "reload"} /\ op.todo = {}
                 /\ op'.todo = {}
              \/ op.pc = "reload" /\ op'.pc = "waitVals" /\ op'.todo = {}
              \/ op.pc = "waitVals" /\ op'.pc = "chainTx" /\ op'.todo = {}
              \/ op.pc = "chainTx" /\ op'.pc = "ready" /\ op'.todo = {}
              \/ op'.pc = op.pc /\ op'.todo \subseteq op.todo
        \/ op.pc = "addVals" /\ op'.pc = "restart" /\ op.kind = "chainOn"

LEMMA MovesShape ==
  ASSUME TInv, op' \in Calls, Moves, subnets \subseteq subnets' PROVE CallShape'
<1>1. CASE op' = Idle \/ op' = Panicked
  BY <1>1, ShapeOfIdle
<1>2. CASE op' # Idle /\ op' # Panicked
  BY SMT, <1>2 DEF Moves, CallShape, TInv, TypeOK, Calls, Idle, Panicked
<1> QED
  BY <1>1, <1>2

LEMMA OpMoves ==
  ASSUME TInv, OpStep
  PROVE  /\ op' \in Calls /\ Moves /\ clean' \in BOOLEAN
         /\ op' = Idle \/ op'.pc # op.pc
         /\ UNCHANGED <<nodes, flags, custom, tracks, chain, elasticMap, stop>>
<1> USE DEF TInv
<1>0. Present \in SUBSET Names /\ clean \in BOOLEAN /\ op \in Calls
  BY DEF Present, TypeOK, Calls
<1>1. CASE AllHealthy
  <2> DEFINE T == {n \in Present : primary[n] # "current"}
  <2>1. At("addNodes") /\ Goto("addPrimary", T)
        /\ UNCHANGED <<nodes, flags, custom, tracks, chain, elasticMap, stop>>
    BY <1>1 DEF AllHealthy
  <2>2. T \in SUBSET Names /\ T \subseteq Present
    BY <1>0
  <2> HIDE DEF T
  <2> QED
    BY <1>0, <2>1, <2>2, GotoEffect DEF At, Moves, Steps
<1>2. CASE WaitPrimary
  <2>1. At("waitPrimary") /\ Goto("addVals", op.P)
        /\ UNCHANGED <<nodes, flags, custom, tracks, chain, elasticMap, stop>>
    BY <1>2 DEF WaitPrimary
  <2>2. op.P \in SUBSET Names
    BY <1>0 DEF Calls
  <2> QED
    BY <1>0, <2>1, <2>2, GotoEffect DEF At, Moves, Steps
<1>3. CASE SetConfigFiles
  <2>1. At("addVals") /\ UNCHANGED <<nodes, flags, custom, tracks, chain, elasticMap, stop>>
        /\ \/ Fail
           \/ op.kind = "chainOn" /\ Goto("reload", {})
           \/ Goto("restart", Present)
           \/ /\ op.kind = "chainOn" /\ clean' = clean
              /\ op' = [op EXCEPT !.pc = "restart", !.P = Current(op.s), !.todo = Present]
    BY <1>3 DEF SetConfigFiles
  <2>2. CASE Fail \/ (op.kind = "chainOn" /\ Goto("reload", {})) \/ Goto("restart", Present)
    <3>1. CASE Fail
      BY <2>1, <3>1, EndEffect, Zenon DEF Moves, Fail
    <3>2. CASE op.kind = "chainOn" /\ Goto("reload", {})
      BY SMT, <1>0, <2>1, <3>2, GotoEffect DEF At, Moves, Steps
    <3>3. CASE Goto("restart", Present)
      BY <1>0, <2>1, <3>3, GotoEffect DEF At, Moves, Steps
    <3> QED
      BY <2>2, <3>1, <3>2, <3>3
  <2>3. CASE /\ op' = [op EXCEPT !.pc = "restart", !.P = Current(op.s), !.todo = Present]
             /\ op.kind = "chainOn" /\ clean' = clean
    <3>1. Current(op.s) \in SUBSET Names
      BY DEF Current
    <3>2. /\ op'.kind = op.kind /\ op'.s = op.s /\ op'.todo = Present
          /\ op'.pc = "restart" /\ op' \in Calls
      BY <1>0, <2>3, <3>1, Zenon DEF Steps, Calls
    <3> QED
      BY <1>0, <2>1, <2>3, <3>2 DEF At, Moves
  <2> QED
    BY <2>1, <2>2, <2>3
<1>4. CASE RemovalsDone
  <2>1. At("removeVals") /\ Goto("restart", Present)
        /\ UNCHANGED <<nodes, flags, custom, tracks, chain, elasticMap, stop>>
    BY <1>4 DEF RemovalsDone
  <2> QED
    BY <1>0, <2>1, GotoEffect DEF At, Moves, Steps
<1>5. CASE Restarted
  <2>1. At("restart") /\ op.todo = {}
        /\ UNCHANGED <<nodes, flags, custom, tracks, chain, elasticMap, stop>>
        /\ (Succeed \/ Goto("waitVals", {}) \/ Goto("reload", {}))
    BY <1>5 DEF Restarted
  <2> QED
    BY SMT, <1>0, <2>1, GotoEffect, EndEffect DEF At, Moves, Steps
<1>6. CASE ReloadVMPlugins
  <2>1. At("reload") /\ UNCHANGED <<nodes, flags, custom, tracks, chain, elasticMap, stop>>
        /\ (Fail \/ Goto("waitVals", {}))
    BY <1>6 DEF ReloadVMPlugins
  <2>2. CASE Fail
    BY <2>1, <2>2, EndEffect, Zenon DEF Moves, Fail
  <2>3. CASE Goto("waitVals", {})
    BY SMT, <1>0, <2>1, <2>3, GotoEffect DEF At, Moves, Steps
  <2> QED
    BY <2>1, <2>2, <2>3
<1>7. CASE WaitValidators
  <2>1. At("waitVals") /\ UNCHANGED <<nodes, flags, custom, tracks, chain, elasticMap, stop>>
        /\ (Succeed \/ Goto("chainTx", {}))
    BY <1>7 DEF WaitValidators
  <2> QED
    BY SMT, <1>0, <2>1, GotoEffect, EndEffect DEF At, Moves, Steps
<1>8. CASE ChainsReady \/ CallFails \/ Aborts
  <2>1. UNCHANGED <<nodes, flags, custom, tracks, chain, elasticMap, stop>>
        /\ (Succeed \/ Fail)
    BY <1>8 DEF ChainsReady, CallFails, Aborts
  <2> QED
    BY <1>0, <2>1, EndEffect, Zenon DEF Moves, Fail
<1> QED
  BY <1>1, <1>2, <1>3, <1>4, <1>5, <1>6, <1>7, <1>8 DEF OpStep

LEMMA OpTypes ==
  ASSUME TInv, OpStep PROVE TInv'
<1>1. TypeOK'
  BY OpMoves DEF TInv, TypeOK, chain, Calls
<1>2. CallShape'
  BY OpMoves, MovesShape DEF chain
<1> QED
  BY <1>1, <1>2 DEF TInv

LEMMA TxTypes ==
  ASSUME TInv, TxStep PROVE TInv'
<1>0. TypeOK /\ CallShape /\ clean \in BOOLEAN /\ op \in Calls
  BY DEF TInv, TypeOK, Calls
<1>1. CASE CreateSubnetTx
  <2>1. /\ op.pc = "addPrimary"
        /\ subnets' = subnets \/ subnets' = subnets \cup {op.s}
        /\ op.kind \in {"subnet", "chain"} => subnets' = subnets \cup {op.s}
        /\ Goto("waitPrimary", {}) \/ Fail
        /\ UNCHANGED <<nodes, flags, custom, tracks, primary, vals, gone, elastic, elasticMap,
                       stop>>
    BY <1>1 DEF CreateSubnetTx, At
  <2>2. op.s \in Subnets /\ op.s \in subnets'
    BY <1>0, <2>1 DEF CallShape
  <2>3. op' \in Calls /\ clean' \in BOOLEAN
    BY <1>0, <2>1, GotoEffect, EndEffect, Zenon DEF Steps, Fail
  <2>4. Moves
    <3>1. CASE Fail
      BY <3>1, EndEffect DEF Moves
    <3>2. CASE Goto("waitPrimary", {})
      BY SMT, <1>0, <2>1, <2>2, <3>2, GotoEffect DEF Moves, Steps
    <3> QED
      BY <2>1, <3>1, <3>2
  <2>5. TypeOK'
    BY <1>0, <2>1, <2>2, <2>3 DEF TypeOK, Calls
  <2> QED
    BY <2>1, <2>3, <2>4, <2>5, MovesShape DEF TInv
<1>2. CASE CreateChainTx
  <2>1. /\ op.pc = "chainTx" /\ (Goto("ready", {}) \/ Fail)
        /\ UNCHANGED <<nodes, flags, custom, tracks, primary, vals, gone, subnets, elastic, elasticMap,
                       stop>>
    BY <1>2 DEF CreateChainTx, At
  <2>2. op.s \in subnets
    BY <1>0, <2>1 DEF CallShape
  <2>3. op' \in Calls /\ clean' \in BOOLEAN
    BY <1>0, <2>1, GotoEffect, EndEffect, Zenon DEF Steps, Fail
  <2>4. Moves
    BY SMT, <1>0, <2>1, GotoEffect, EndEffect DEF Moves, Steps
  <2>5. TypeOK'
    BY <1>0, <2>1, <2>2, <2>3 DEF TypeOK, Calls
  <2> QED
    BY <2>1, <2>3, <2>4, <2>5, MovesShape DEF TInv
<1>3. CASE TransformTx
  <2>1. /\ op.pc = "transformTx"
        /\ \/ UNCHANGED <<elastic, elasticMap>>
           \/ elastic' = elastic \cup {op.s} /\ elasticMap' = elasticMap
           \/ elastic' = elastic \cup {op.s} /\ elasticMap' = elasticMap \cup {op.s}
        /\ Succeed \/ Fail
        /\ UNCHANGED <<nodes, flags, custom, tracks, primary, vals, gone, subnets, stop>>
    BY <1>3 DEF TransformTx, At
  <2>2. op.s \in subnets
    BY <1>0, <2>1 DEF CallShape
  <2>3. op' \in Calls /\ clean' \in BOOLEAN /\ op' = Idle
    BY <1>0, <2>1, EndEffect, Zenon DEF Fail
  <2>4. TypeOK'
    BY <1>0, <2>1, <2>2, <2>3 DEF TypeOK, Calls
  <2> QED
    BY <2>3, <2>4, ShapeOfIdle DEF TInv
<1>4. ASSUME NEW n \in Names, AddPrimary(n) PROVE TInv'
  <2>1. /\ Done(n) \/ Fail
        /\ primary' = primary \/ primary' = [primary EXCEPT ![n] = "pending"]
        /\ UNCHANGED <<nodes, flags, custom, tracks, vals, gone, subnets, elastic, elasticMap, stop>>
    BY <1>0, <1>4, Zenon DEF AddPrimary, TypeOK
  <2>2. op' \in Calls /\ clean' \in BOOLEAN /\ Moves
    BY <1>0, <2>1, DoneEffect, EndEffect, Zenon DEF Fail, Moves, Calls
  <2>3. primary' \in [Names -> ValState]
    BY <1>0, <2>1 DEF TypeOK, ValState
  <2>4. TypeOK'
    BY <1>0, <2>1, <2>2, <2>3 DEF TypeOK, Calls
  <2> QED
    BY <2>1, <2>2, <2>4, MovesShape DEF TInv
<1>5. ASSUME NEW n \in Names,
             AddValidator(n) \/ AddPermissionlessValidator(n) \/ RemoveValidator(n)
      PROVE  TInv'
  <2>1. /\ op.s \in Subnets /\ (Done(n) \/ Fail \/ Panic)
        /\ \/ vals' = vals
           \/ \E x \in ValState : vals' = [vals EXCEPT ![op.s][n] = x]
        /\ UNCHANGED <<nodes, flags, custom, tracks, primary, gone, subnets, elastic, elasticMap,
                       stop>>
    <3>1. op.s \in Subnets /\ "no" \in ValState /\ "pending" \in ValState
      BY <1>0, <1>5 DEF AddValidator, AddPermissionlessValidator, RemoveValidator, At, CallShape,
           ValState
    <3>2. CASE AddValidator(n) \/ AddPermissionlessValidator(n)
      BY <3>1, <3>2 DEF AddValidator, AddPermissionlessValidator, ProposeValidator
    <3>3. CASE RemoveValidator(n)
      BY <3>1, <3>3 DEF RemoveValidator
    <3> QED
      BY <1>5, <3>2, <3>3
  <2>2. op' \in Calls /\ clean' \in BOOLEAN /\ Moves
    <3>1. CASE Panic
      BY <3>1, PanickedCall DEF Panic, Moves
    <3>2. CASE Done(n) \/ Fail
      BY <1>0, <3>2, DoneEffect, EndEffect, Zenon DEF Fail, Moves, Calls
    <3> QED
      BY <2>1, <3>1, <3>2
  <2>3. vals' \in [Subnets -> [Names -> ValState]]
    <3>1. CASE vals' = vals
      BY <1>0, <3>1 DEF TypeOK
    <3>2. ASSUME NEW x \in ValState, vals' = [vals EXCEPT ![op.s][n] = x]
          PROVE  vals' \in [Subnets -> [Names -> ValState]]
      BY <1>0, <2>1, <3>2 DEF TypeOK
    <3> QED
      BY <2>1, <3>1, <3>2, Zenon
  <2>4. TypeOK'
    BY <1>0, <2>1, <2>2, <2>3 DEF TypeOK, Calls
  <2> QED
    BY <2>1, <2>2, <2>4, MovesShape DEF TInv
<1> QED
  BY <1>1, <1>2, <1>3, <1>4, <1>5 DEF TxStep

LEMMA NodeTypes ==
  ASSUME TInv, NodeStep PROVE TInv'
<1>0. TypeOK /\ CallShape /\ clean \in BOOLEAN /\ op \in Calls /\ op.s \in Subnets \cup {NoSubnet}
  BY DEF TInv, TypeOK, Calls
\* A node that leaves, or is started.
<1>1. ASSUME NEW n \in Names, NEW f \in SUBSET Subnets, Started(n, f)
      PROVE  /\ nodes' \in [Names -> NodeState]
             /\ flags' \in [Names -> SUBSET Subnets] /\ tracks' \in [Names -> SUBSET Subnets]
  BY <1>0, <1>1 DEF Started, TypeOK, NodeState
<1>2. ASSUME NEW n \in Names, Leaves(n)
      PROVE  /\ nodes' \in [Names -> NodeState] /\ primary' \in [Names -> ValState]
             /\ flags' \in [Names -> SUBSET Subnets] /\ tracks' \in [Names -> SUBSET Subnets]
             /\ custom' \subseteq Names
             /\ vals' \in [Subnets -> [Names -> ValState]] /\ gone' \subseteq Subnets
             /\ UNCHANGED <<subnets, elastic>>
  <2>1. nodes' \in [Names -> NodeState] /\ primary' \in [Names -> ValState]
    BY <1>0, <1>2 DEF Leaves, TypeOK, NodeState, ValState
  <2>2. flags' \in [Names -> SUBSET Subnets] /\ tracks' \in [Names -> SUBSET Subnets]
    BY <1>0, <1>2 DEF Leaves, TypeOK
  <2>3. vals' \in [Subnets -> [Names -> ValState]]
    BY <1>0, <1>2 DEF Leaves, TypeOK, ValState
  <2> QED
    BY <1>0, <1>2, <2>1, <2>2, <2>3 DEF Leaves, TypeOK
<1>3. ASSUME NEW n \in Names, AddMissing(n) PROVE TInv'
  <2>1. Done(n) /\ UNCHANGED <<custom, chain, elasticMap, stop>>
        /\ (UNCHANGED <<nodes, flags, tracks>> \/ Started(n, {}))
    BY <1>3 DEF AddMissing
  <2>2. /\ nodes' \in [Names -> NodeState]
        /\ flags' \in [Names -> SUBSET Subnets] /\ tracks' \in [Names -> SUBSET Subnets]
    BY <1>0, <1>1, <2>1 DEF TypeOK
  <2>3. op' \in Calls /\ clean' \in BOOLEAN /\ Moves
    BY <1>0, <2>1, DoneEffect DEF Moves, Calls
  <2>4. TypeOK'
    BY <1>0, <2>1, <2>2, <2>3 DEF TypeOK, Calls, chain
  <2> QED
    BY <2>1, <2>3, <2>4, MovesShape DEF TInv, chain
<1>4. ASSUME NEW n \in Names, Restart(n) PROVE TInv'
  <2>1. op.s \in Subnets
    BY <1>0, <1>4 DEF Restart, At, CallShape
  <2>2. NewFlags(n) \in SUBSET Subnets
    BY <1>0, <2>1, ZenonT(60) DEF NewFlags, TypeOK
  <2>3. /\ UNCHANGED <<elasticMap, stop>>
        /\ \/ /\ Done(n) /\ flags' = [flags EXCEPT ![n] = NewFlags(n)]
              /\ UNCHANGED <<nodes, custom, tracks, chain>>
           \/ Started(n, NewFlags(n)) /\ Done(n) /\ UNCHANGED <<custom, chain>>
           \/ Leaves(n) /\ Fail
    BY <1>4 DEF Restart
  <2>4. op' \in Calls /\ clean' \in BOOLEAN /\ Moves /\ (Done(n) \/ Fail)
    BY <1>0, <2>3, DoneEffect, EndEffect, Zenon DEF Fail, Moves, Calls
  <2> HIDE DEF Moves
  <2>5. /\ nodes' \in [Names -> NodeState] /\ tracks' \in [Names -> SUBSET Subnets]
        /\ flags' \in [Names -> SUBSET Subnets] /\ custom' \subseteq Names
        /\ primary' \in [Names -> ValState] /\ vals' \in [Subnets -> [Names -> ValState]]
        /\ gone' \subseteq Subnets /\ UNCHANGED <<subnets, elastic>>
    <3>1. CASE flags' = [flags EXCEPT ![n] = NewFlags(n)] /\ UNCHANGED <<nodes, custom, tracks, chain>>
      BY <1>0, <2>2, <3>1 DEF TypeOK, chain
    <3>2. CASE Started(n, NewFlags(n)) /\ UNCHANGED <<custom, chain>>
      BY <1>0, <1>1, <2>2, <3>2 DEF TypeOK, chain
    <3>3. CASE Leaves(n)
      BY <1>0, <1>2, <3>3 DEF TypeOK
    <3> QED
      BY <2>3, <3>1, <3>2, <3>3
  <2>6. TypeOK'
    BY <1>0, <2>3, <2>4, <2>5 DEF TypeOK, Calls
  <2> QED
    BY <2>4, <2>5, <2>6, MovesShape DEF TInv
\* The others leave the call and what it is about as they are.
<1>5. ASSUME TypeOK', UNCHANGED <<op, subnets>> PROVE TInv'
  BY <1>0, <1>5 DEF TInv, CallShape
<1>6. ASSUME NEW n \in Names, PauseNode(n) \/ ProcessExits(n) PROVE TInv'
  BY <1>0, <1>5, <1>6 DEF PauseNode, ProcessExits, TypeOK, NodeState, chain
<1>7. ASSUME NEW n \in Names, NEW T \in SUBSET Subnets, AddNode(n, T) \/ RestartNode(n, T)
      PROVE  TInv'
  <2> DEFINE f == IF T = {} THEN flags[n] ELSE T
  <2>1. f \in SUBSET Subnets
    BY <1>0 DEF TypeOK
  <2>2. custom \subseteq Names /\ custom \cup {n} \subseteq Names
    BY <1>0 DEF TypeOK
  <2>3. CASE AddNode(n, T)
    <3>1. /\ Started(n, T) /\ custom' \in {custom, custom \cup {n}}
          /\ UNCHANGED <<chain, elasticMap, op, clean, stop>>
      BY <2>3 DEF AddNode
    <3> QED
      BY <1>0, <1>1, <1>5, <2>2, <3>1 DEF TypeOK, chain
  <2>4. CASE RestartNode(n, T)
    <3>1. /\ \/ Started(n, f) /\ custom' \in {custom, custom \cup {n}} /\ UNCHANGED chain
             \/ Leaves(n)
             \/ /\ flags' = [flags EXCEPT ![n] = f] /\ custom' \in {custom, custom \cup {n}}
                /\ UNCHANGED <<nodes, tracks, chain>>
          /\ UNCHANGED <<elasticMap, op, clean, stop>>
      BY <2>4 DEF RestartNode
    <3> HIDE DEF f
    <3>2. CASE Started(n, f) /\ custom' \in {custom, custom \cup {n}} /\ UNCHANGED chain
      BY <1>0, <1>1, <1>5, <2>1, <2>2, <3>1, <3>2 DEF TypeOK, chain
    <3>3. CASE Leaves(n)
      BY <1>0, <1>2, <1>5, <3>1, <3>3 DEF TypeOK
    <3>4. CASE /\ flags' = [flags EXCEPT ![n] = f] /\ custom' \in {custom, custom \cup {n}}
               /\ UNCHANGED <<nodes, tracks, chain>>
      <4>1. flags' \in [Names -> SUBSET Subnets]
        BY <1>0, <2>1, <3>4 DEF TypeOK
      <4> QED
        BY <1>0, <1>5, <2>2, <3>1, <3>4, <4>1 DEF TypeOK, chain
    <3> QED
      BY <3>1, <3>2, <3>3, <3>4
  <2> QED
    BY <1>7, <2>3, <2>4
<1>8. ASSUME NEW n \in Names, RemoveNode(n) PROVE TInv'
  BY <1>0, <1>2, <1>5, <1>8 DEF RemoveNode, TypeOK
<1>9. ASSUME NEW n \in Names, ValidationStarts(n) PROVE TInv'
  <2>1. primary' \in [Names -> ValState]
    BY <1>0, <1>9 DEF ValidationStarts, TypeOK, ValState
  <2>2. vals' \in [Subnets -> [Names -> ValState]]
    <3>1. CASE vals' = vals
      BY <1>0, <3>1 DEF TypeOK
    <3>2. ASSUME NEW s \in Subnets, vals' = [vals EXCEPT ![s][n] = "current"]
          PROVE  vals' \in [Subnets -> [Names -> ValState]]
      BY <1>0, <3>2 DEF TypeOK, ValState
    <3> QED
      BY <1>9, <3>1, <3>2 DEF ValidationStarts
  <2> QED
    BY <1>0, <1>5, <1>9, <2>1, <2>2 DEF ValidationStarts, TypeOK
<1>10. CASE StopBegins \/ StopFinishes
  BY <1>0, <1>5, <1>10 DEF StopBegins, StopFinishes, TypeOK, NodeState, chain
<1> QED
  BY <1>3, <1>4, <1>6, <1>7, <1>8, <1>9, <1>10 DEF NodeStep

LEMMA TypesStep == TInv /\ [Next]_vars => TInv'
<1> SUFFICES ASSUME TInv, [Next]_vars PROVE TInv'
  OBVIOUS
<1>1. CASE UNCHANGED vars
  BY SMT, <1>1 DEF vars, TInv, TypeOK, CallShape
<1> QED
  BY <1>1, NextSteps, BeginTypes, OpTypes, TxTypes, NodeTypes

LEMMA TypesInit == Init => TInv
<1> SUFFICES ASSUME Init PROVE TInv
  OBVIOUS
<1>1. /\ nodes \in [Names -> NodeState] /\ primary \in [Names -> ValState]
      /\ vals \in [Subnets -> [Names -> ValState]]
  BY DEF Init, NodeState, ValState
<1>2. flags \in [Names -> SUBSET Subnets] /\ custom \subseteq Names
  BY DEF Init
<1>3. TypeOK
  BY <1>1, <1>2, IdleCall, ZenonT(60) DEF Init, TypeOK, Calls
<1>4. CallShape
  BY DEF Init, CallShape, Idle
<1> QED
  BY <1>3, <1>4 DEF TInv

LEMMA TypesInvariant == Spec => []TInv
BY TypesInit, TypesStep, PTL DEF Spec

\* A call that fails at any of its steps, or that Stop aborts, leaves flags,
\* validator sets and the record of elastic subnets well formed; in particular
\* only subnets that were transformed are noted as elastic.
THEOREM TypeCorrectness == Spec => []TypeOK
<1>1. TInv => TypeOK
  BY DEF TInv
<1> QED
  BY <1>1, TypesInvariant, PTL

-----------------------------------------------------------------------------
(* The P-chain and the nodes *)

\* A subnet that does not exist has no validators.
NewSubnets == \A s \in Subnets \ subnets : \A n \in Names : vals[s][n] = "no"

\* A name that is no node validates nothing, and is not about to.
AbsentNames ==
  stop # "done" =>
    /\ \A n \in Names \ Present : primary[n] = "no" /\ \A s \in Subnets : vals[s][n] = "no"
    /\ op.pc = "addPrimary" => op.todo \subseteq Present

\* The nodes that Stop has removed are not used again.
AfterStop == stop = "done" => Present = {} /\ op \in {Idle, Panicked}

ChainShape == NewSubnets /\ AbsentNames /\ AfterStop

LEMMA ChainInit == Init => ChainShape
<1> SUFFICES ASSUME Init PROVE ChainShape
  OBVIOUS
<1>1. \A n \in Names \ Present : primary[n] = "no"
  BY DEF Init, Present
<1>2. \A n \in Names : \A s \in Subnets : vals[s][n] = "no"
  BY DEF Init
<1>3. op.pc = "idle" /\ stop = "no"
  BY IdleCall DEF Init
<1> QED
  BY <1>1, <1>2, <1>3 DEF ChainShape, NewSubnets, AbsentNames, AfterStop

LEMMA Busy == OpStep \/ TxStep => op.pc \notin {"idle", "panicked"}
BY ZenonT(60) DEF OpStep, TxStep, At, AllHealthy, WaitPrimary, SetConfigFiles, RemovalsDone, Restarted,
       ReloadVMPlugins, WaitValidators, ChainsReady, CallFails, Aborts, CreateSubnetTx,
       CreateChainTx, TransformTx, AddPrimary, AddValidator, AddPermissionlessValidator,
       RemoveValidator

LEMMA BeginChain ==
  ASSUME TInv, ChainShape, BeginStep PROVE ChainShape'
<1>1. /\ op'.pc # "addPrimary" /\ (Active # {} \/ op' = Panicked)
      /\ UNCHANGED <<nodes, flags, custom, tracks, chain, elasticMap, stop>>
  BY SMT, PanickedCall DEF BeginStep, Create, RemoveValidators, AddPermissionless, CreateOn,
       Transform, Begin, Panic
<1>2. stop = "done" => Present = {} /\ op' = Panicked
  BY <1>1 DEF ChainShape, AfterStop, Active, Present
<1> QED
  BY <1>1, <1>2 DEF ChainShape, NewSubnets, AbsentNames, AfterStop, Present, chain

LEMMA OpChain ==
  ASSUME TInv, ChainShape, OpStep PROVE ChainShape'
<1>1. UNCHANGED <<nodes, primary, vals, subnets, stop>>
  BY OpMoves DEF chain
<1>2. stop # "done"
  BY Busy, IdleCall, PanickedCall DEF ChainShape, AfterStop
<1>3. ASSUME op'.pc = "addPrimary" PROVE op'.todo \subseteq Present
  BY SMT, <1>2, <1>3, OpMoves DEF Moves, Idle, Panicked, ChainShape, AbsentNames
<1> QED
  BY <1>1, <1>2, <1>3 DEF ChainShape, NewSubnets, AbsentNames, AfterStop, Present

LEMMA TxChain ==
  ASSUME TInv, ChainShape, TxStep PROVE ChainShape'
<1>0. TypeOK /\ CallShape /\ stop # "done" /\ NewSubnets /\ AbsentNames
  BY Busy, IdleCall, PanickedCall DEF ChainShape, AfterStop, TInv
<1>1. UNCHANGED <<nodes, stop>>
  BY Zenon DEF TxStep, CreateSubnetTx, CreateChainTx, TransformTx, AddPrimary, AddValidator,
         AddPermissionlessValidator, RemoveValidator
<1>2. AfterStop'
  BY <1>0, <1>1 DEF AfterStop
<1>3. CASE CreateSubnetTx \/ CreateChainTx \/ TransformTx
  <2>1. UNCHANGED <<primary, vals>> /\ subnets \subseteq subnets' /\ op'.pc # "addPrimary"
    <3>1. CASE CreateSubnetTx
      <4>1. Goto("waitPrimary", {}) \/ Fail
        BY <3>1 DEF CreateSubnetTx
      <4>2. op'.pc # "addPrimary"
        BY SMT, <1>0, <4>1, GotoEffect, EndEffect DEF Idle, Steps
      <4> QED
        BY <3>1, <4>2 DEF CreateSubnetTx
    <3>2. CASE CreateChainTx
      <4>1. op'.pc # "addPrimary"
        BY SMT, <1>0, <3>2, GotoEffect, EndEffect DEF CreateChainTx, Idle, Steps
      <4> QED
        BY <3>2, <4>1 DEF CreateChainTx
    <3>3. CASE TransformTx
      BY SMT, <3>3, EndEffect DEF TransformTx, Idle
    <3> QED
      BY <1>3, <3>1, <3>2, <3>3
  <2> QED
    BY <1>0, <1>1, <1>2, <2>1 DEF ChainShape, NewSubnets, AbsentNames, Present
<1>4. ASSUME NEW n \in Names, AddPrimary(n) PROVE ChainShape'
  <2>1. /\ n \in Present /\ UNCHANGED <<vals, subnets>>
        /\ primary' = primary \/ primary' = [primary EXCEPT ![n] = "pending"]
    BY <1>0, <1>4, ZenonT(60) DEF AddPrimary, At, AbsentNames
  <2>2. op'.pc = "addPrimary" => op'.todo \subseteq Present
    BY SMT, <1>0, <1>4, DoneEffect, EndEffect DEF AddPrimary, At, AbsentNames, Idle
  <2>3. \A m \in Names \ Present : primary'[m] = primary[m]
    BY <1>0, <2>1 DEF TypeOK
  <2> QED
    BY <1>0, <1>1, <1>2, <2>1, <2>2, <2>3 DEF ChainShape, NewSubnets, AbsentNames, Present
<1>5. ASSUME NEW n \in Names,
             AddValidator(n) \/ AddPermissionlessValidator(n) \/ RemoveValidator(n)
      PROVE  ChainShape'
  <2>1. /\ op.pc \in {"addVals", "removeVals"} /\ UNCHANGED <<primary, subnets>>
        /\ Done(n) \/ Fail \/ Panic
        /\ vals' = vals \/ \E x : n \in Present /\ vals' = [vals EXCEPT ![op.s][n] = x]
    BY <1>5, ZenonT(60) DEF AddValidator, AddPermissionlessValidator, ProposeValidator,
         RemoveValidator, At
  <2>2. op.s \in subnets /\ op.s \in Subnets
    BY <1>0, <2>1 DEF CallShape
  <2>3. op'.pc # "addPrimary"
    BY <1>0, <2>1, DoneEffect, IdleCall, PanickedCall DEF Fail, Panic
  <2>4. /\ \A s \in Subnets \ subnets : vals'[s] = vals[s]
        /\ \A m \in Names \ Present, s \in Subnets : vals'[s][m] = vals[s][m]
    <3>1. CASE vals' = vals
      BY <3>1
    <3>2. ASSUME NEW x, n \in Present, vals' = [vals EXCEPT ![op.s][n] = x]
          PROVE  /\ \A s \in Subnets \ subnets : vals'[s] = vals[s]
                 /\ \A m \in Names \ Present, s \in Subnets : vals'[s][m] = vals[s][m]
      BY <1>0, <2>2, <3>2, ZenonT(60) DEF TypeOK
    <3> QED
      BY <2>1, <3>1, <3>2, Zenon
  <2> QED
    BY SMT, <1>0, <1>1, <1>2, <2>1, <2>3, <2>4 DEF ChainShape, NewSubnets, AbsentNames, Present
<1> QED
  BY <1>3, <1>4, <1>5 DEF TxStep

LEMMA LeavesChain ==
  ASSUME TypeOK, NEW n \in Names, Leaves(n)
  PROVE  /\ \A m \in Names \ {n} : /\ m \in Present <=> m \in Present'
                                   /\ primary'[m] = primary[m]
                                   /\ \A s \in Subnets : vals'[s][m] = vals[s][m]
         /\ n \notin Present' /\ primary'[n] = "no" /\ \A s \in Subnets : vals'[s][n] = "no"
         /\ subnets' = subnets
<1>1. \A m \in Names, s \in Subnets : vals'[s][m] = IF m = n THEN "no" ELSE vals[s][m]
  BY DEF Leaves, TypeOK
<1>2. \A m \in Names : /\ nodes'[m] = IF m = n THEN "absent" ELSE nodes[m]
                       /\ primary'[m] = IF m = n THEN "no" ELSE primary[m]
  BY DEF Leaves, TypeOK
<1>3. subnets' = subnets
  BY DEF Leaves
<1> QED
  BY <1>1, <1>2, <1>3 DEF Present

LEMMA NodeChain ==
  ASSUME TInv, ChainShape, NodeStep PROVE ChainShape'
<1>0. TypeOK /\ CallShape /\ NewSubnets /\ AbsentNames /\ AfterStop
  BY DEF ChainShape, TInv
\* Nodes come or stay, and the chain does not change.
<1>1. ASSUME stop # "done", stop' # "done", UNCHANGED chain, Present \subseteq Present',
             op'.pc = "addPrimary" => op.pc = "addPrimary" /\ op'.todo \subseteq op.todo
      PROVE  ChainShape'
  <2>1. NewSubnets'
    BY <1>0, <1>1 DEF NewSubnets, chain
  <2>2. AbsentNames'
    BY <1>0, <1>1 DEF AbsentNames, chain
  <2> QED
    BY <1>1, <2>1, <2>2 DEF ChainShape, AfterStop
\* A node goes.
<1>2. ASSUME NEW n \in Names, Leaves(n), stop # "done", stop' = stop, op'.pc # "addPrimary"
      PROVE  ChainShape'
  <2>1. NewSubnets'
    BY <1>0, <1>2, LeavesChain DEF NewSubnets
  <2>2. AbsentNames'
    BY <1>0, <1>2, LeavesChain DEF AbsentNames
  <2> QED
    BY <1>2, <2>1, <2>2 DEF ChainShape, AfterStop
<1>3. op.pc \notin {"idle", "panicked"} \/ Present # {} => stop # "done"
  BY <1>0, IdleCall, PanickedCall DEF AfterStop
<1>4. ASSUME NEW n \in Names, NEW f, Started(n, f) PROVE Present \subseteq Present'
  BY <1>0, <1>4 DEF Started, Present, TypeOK
<1>5. ASSUME NEW n \in Names, AddMissing(n) PROVE ChainShape'
  <2>1. Done(n) /\ op.pc = "addNodes" /\ UNCHANGED chain /\ stop' = stop
        /\ (UNCHANGED <<nodes, flags, tracks>> \/ Started(n, {}))
    BY <1>5 DEF AddMissing, At
  <2>2. Present \subseteq Present'
    BY <1>4, <2>1 DEF Present
  <2> QED
    BY <1>0, <1>1, <1>3, <2>1, <2>2, DoneEffect
<1>6. ASSUME NEW n \in Names, Restart(n) PROVE ChainShape'
  <2>1. op.pc = "restart" /\ stop' = stop
        /\ \/ Done(n) /\ UNCHANGED <<nodes, chain>>
           \/ Started(n, NewFlags(n)) /\ Done(n) /\ UNCHANGED chain
           \/ Leaves(n) /\ Fail
    BY <1>6 DEF Restart, At
  <2>2. op'.pc # "addPrimary" /\ stop # "done"
    BY SMT, <1>0, <1>3, <2>1, DoneEffect, EndEffect DEF Idle
  <2>3. CASE Leaves(n)
    BY <1>2, <2>1, <2>2, <2>3
  <2>4. CASE UNCHANGED <<nodes, chain>>
    BY <1>1, <2>1, <2>2, <2>4 DEF Present
  <2>5. CASE Started(n, NewFlags(n)) /\ UNCHANGED chain
    BY <1>1, <1>4, <2>1, <2>2, <2>5
  <2> QED
    BY <2>1, <2>3, <2>4, <2>5
<1>7. ASSUME NEW n \in Names, PauseNode(n) \/ ProcessExits(n) PROVE ChainShape'
  <2>1. n \in Present /\ Present' = Present /\ UNCHANGED <<op, stop, chain>>
    BY <1>0, <1>7 DEF PauseNode, ProcessExits, Active, Present, TypeOK
  <2> QED
    BY <1>1, <1>3, <2>1
<1>8. ASSUME NEW n \in Names, NEW T, AddNode(n, T) \/ RestartNode(n, T) PROVE ChainShape'
  <2>1. CASE AddNode(n, T)
    <3>1. stop = "no" /\ Present \subseteq Present' /\ UNCHANGED <<op, stop, chain>>
      BY <1>4, <2>1 DEF AddNode
    <3> QED
      BY <1>1, <3>1
  <2>2. CASE RestartNode(n, T)
    <3>1. /\ op.pc = "idle" /\ n \in Present /\ UNCHANGED <<op, stop>>
          /\ \/ \E f : Started(n, f) /\ UNCHANGED chain
             \/ Leaves(n)
             \/ UNCHANGED <<nodes, chain>>
      BY <2>2 DEF RestartNode, At
    <3>2. stop # "done"
      BY <1>3, <3>1
    <3>3. CASE Leaves(n)
      BY <1>2, <3>1, <3>2, <3>3
    <3>4. CASE UNCHANGED <<nodes, chain>>
      BY <1>1, <3>1, <3>2, <3>4 DEF Present
    <3>5. CASE \E f : Started(n, f) /\ UNCHANGED chain
      BY <1>1, <1>4, <3>1, <3>2, <3>5
    <3> QED
      BY <3>1, <3>3, <3>4, <3>5
  <2> QED
    BY <1>8, <2>1, <2>2
<1>9. ASSUME NEW n \in Names, RemoveNode(n) PROVE ChainShape'
  BY <1>2, <1>3, <1>9 DEF RemoveNode, At
<1>10. ASSUME NEW n \in Names, ValidationStarts(n) PROVE ChainShape'
  <2>1. UNCHANGED <<nodes, op, stop, subnets>>
    BY <1>10 DEF ValidationStarts
  <2>2. \A m \in Names : primary[m] = "no" => primary'[m] = "no"
    BY <1>0, <1>10 DEF ValidationStarts, TypeOK
  <2>3. \A m \in Names, s \in Subnets : vals[s][m] = "no" => vals'[s][m] = "no"
    BY SMT, <1>0, <1>10 DEF ValidationStarts, TypeOK
  <2>4. NewSubnets'
    BY <1>0, <2>1, <2>3 DEF NewSubnets
  <2>5. AbsentNames'
    BY <1>0, <2>1, <2>2, <2>3, ZenonT(60) DEF AbsentNames, Present
  <2> QED
    BY <1>0, <2>1, <2>4, <2>5 DEF ChainShape, AfterStop, Present
<1>11. CASE StopBegins
  BY <1>1, <1>11 DEF StopBegins, Present
<1>12. CASE StopFinishes
  <2>1. op' = Idle /\ stop' = "done" /\ Present' = {} /\ UNCHANGED chain
    BY <1>0, <1>12 DEF StopFinishes, At, CallShape, Present
  <2> QED
    BY <1>0, <2>1 DEF ChainShape, NewSubnets, AbsentNames, AfterStop, chain
<1> QED
  BY <1>5, <1>6, <1>7, <1>8, <1>9, <1>10, <1>11, <1>12 DEF NodeStep

LEMMA ChainStep == TInv /\ ChainShape /\ [Next]_vars => ChainShape'
<1> SUFFICES ASSUME TInv, ChainShape, [Next]_vars PROVE ChainShape'
  OBVIOUS
<1>1. CASE UNCHANGED vars
  BY <1>1, SMTT(40) DEF vars, ChainShape, NewSubnets, AbsentNames, AfterStop, Present
<1> QED
  BY <1>1, NextSteps, BeginChain, OpChain, TxChain, NodeChain

-----------------------------------------------------------------------------
(* Flags, and the right to join: as long as no call has failed *)

Validated(n) == {s \in Subnets : n \in Validators(s)}
Runs(n) == n \in Active => tracks[n] = flags[n]
Tracked(n) == (n \notin custom => flags[n] = Validated(n)) /\ Runs(n)

\* The flag of n has yet to follow what the call did to the validators.
Lagging(n) ==
  /\ Runs(n)
  /\ n \notin custom =>
       /\ flags[n] \ {op.s} = Validated(n) \ {op.s}
       /\ op.kind # "remove" =>
            /\ op.s \in flags[n] => op.s \in Validated(n)
            /\ op.s \in Validated(n) \ flags[n] => n \in op.P
       /\ op.kind = "remove" =>
            /\ op.s \in Validated(n) => op.s \in flags[n]
            /\ op.s \in flags[n] \ Validated(n) => n \in op.P

Changed(n) == op.s \in Validated(n) <=> op.kind # "remove"

TrackInv ==
  IF op.pc \in {"addVals", "removeVals"}
    THEN /\ \A n \in Present : Lagging(n)
         /\ \A n \in op.P \ op.todo : Changed(n)
  ELSE IF op.pc = "restart"
    THEN /\ op.todo \subseteq Present
         /\ \A n \in op.todo : Lagging(n)
         /\ \A n \in Present \ op.todo : Tracked(n)
         /\ \A n \in Present \cap op.P : Changed(n)
         /\ op.kind = "chainOn" => \A n \in Present : Tracked(n)
    ELSE \A n \in Present : Tracked(n)

\* Who is about to join a validator set is a node, and not in the set, nor on its
\* way, unless a request for a permissionless validator says otherwise.
JoinInv ==
  /\ op.pc \notin {"addPrimary", "waitPrimary"} => \A n \in Present : primary[n] # "pending"
  /\ op.pc = "addPrimary" => \A n \in op.todo : primary[n] = "no"
  /\ op.pc = "addVals" => \A n \in Present : primary[n] = "current"
  /\ op.pc = "addNodes" => op.P \ op.todo \subseteq Present
  /\ op.pc \in {"addPrimary", "waitPrimary", "addVals"} => op.P \subseteq Present
  /\ op.kind # "permissionless" =>
       /\ op.pc \in {"addNodes", "addPrimary", "waitPrimary"} =>
            \A n \in op.P : vals[op.s][n] = "no"
       /\ op.pc = "addVals" => \A n \in op.todo : vals[op.s][n] = "no"

Shape == TInv /\ ChainShape

LEMMA Failed == Next => clean' = clean \/ ~clean'
BY ZenonT(60) DEF Next, Step, Create, RemoveValidators, AddPermissionless, CreateOn, Transform, Begin,
       AddMissing, AddPrimary, AddValidator, AddPermissionlessValidator, ProposeValidator,
       RemoveValidator, Restart, AllHealthy, CreateSubnetTx, WaitPrimary, SetConfigFiles,
       RemovalsDone, Restarted, ReloadVMPlugins, WaitValidators, CreateChainTx, ChainsReady,
       TransformTx, Aborts, CallFails, AddNode, PauseNode, RestartNode, RemoveNode, ProcessExits,
       ValidationStarts, StopBegins, StopFinishes, Goto, Done, Fail, Succeed, Panic

\* What Tracked and Lagging are made of, when nodes and validators are the same.
LEMMA SameNodes ==
  ASSUME UNCHANGED <<nodes, flags, custom, tracks, vals>>
  PROVE  /\ Present' = Present
         /\ \A n \in Names : /\ Validated(n)' = Validated(n)
                             /\ Runs(n)' <=> Runs(n)
                             /\ Tracked(n)' <=> Tracked(n)
BY DEF Present, Validated, Validators, Runs, Tracked, Active

\* A node that tracks what it validates lags behind no call.
LEMMA TrackedLags ==
  ASSUME NEW n \in Names, Tracked(n) PROVE Lagging(n)
BY DEF Tracked, Lagging

\* A step from a state where all nodes track to one where all should.
LEMMA AllTracked ==
  ASSUME \A n \in Present : Tracked(n), UNCHANGED <<nodes, flags, custom, tracks, vals>>,
         op'.pc # "restart",
         op'.pc \in {"addVals", "removeVals"} => op'.P \ op'.todo = {}
  PROVE  TrackInv'
<1>1. Present' = Present /\ Present \subseteq Names /\ \A n \in Present : Tracked(n)'
  BY SameNodes, ZenonT(20) DEF Present
<1>2. \A n \in Present : Lagging(n)'
  BY <1>1 DEF Tracked, Lagging
<1> QED
  BY <1>1, <1>2 DEF TrackInv

LEMMA BeginTrack ==
  ASSUME Shape, TrackInv, JoinInv, BeginStep, clean' PROVE TrackInv' /\ JoinInv'
<1>1. PICK s \in Subnets :
        \/ \E P \in SUBSET Names, k \in {"subnet", "chain"} : Create(s, P, k)
        \/ \E P \in SUBSET Names : RemoveValidators(s, P)
        \/ \E n \in Names : AddPermissionless(s, n)
        \/ CreateOn(s) \/ Transform(s)
  BY DEF BeginStep
<1>2. PICK k, pc, Q :
        /\ Begin(k, pc, s, Q)
        /\ pc \in {"addNodes", "removeVals", "transformTx"}
        /\ pc = "addNodes" /\ k # "permissionless" => Q \subseteq Names /\ (s \notin subnets \/ Q = {})
  <2>1. CASE \E R \in SUBSET Names, k \in {"subnet", "chain"} : Create(s, R, k)
    BY SMT, <2>1 DEF Create, Present
  <2>2. CASE \E P \in SUBSET Names : RemoveValidators(s, P)
    BY SMT, <2>2 DEF RemoveValidators
  <2>3. CASE \E n \in Names : AddPermissionless(s, n)
    BY SMT, <2>3 DEF AddPermissionless
  <2>4. CASE CreateOn(s) \/ Transform(s)
    BY SMT, <2>4 DEF CreateOn, Transform
  <2> QED
    BY <1>1, <2>1, <2>2, <2>3, <2>4
<1>3. /\ op.pc = "idle" /\ op' = [kind |-> k, pc |-> pc, s |-> s, P |-> Q, todo |-> Q]
      /\ UNCHANGED <<nodes, flags, custom, tracks, primary, vals>>
  BY <1>2 DEF Begin, At, chain, Panic
<1>4. op'.kind = k /\ op'.pc = pc /\ op'.s = s /\ op'.P = Q /\ op'.todo = Q
  BY <1>3, ZenonT(60)
<1>5. TrackInv'
  BY <1>2, <1>3, <1>4, AllTracked DEF TrackInv
<1>6. pc = "addNodes" /\ k # "permissionless" => \A n \in Q : vals[s][n] = "no"
  BY <1>2, SMTT(40) DEF Shape, ChainShape, NewSubnets
<1>7. JoinInv'
  BY <1>2, <1>3, <1>4, <1>6, Zenon DEF JoinInv, Present
<1> QED
  BY <1>5, <1>7

LEMMA OpTrack ==
  ASSUME Shape, TrackInv, JoinInv, OpStep, clean' PROVE TrackInv' /\ JoinInv'
<1>0. TInv /\ TypeOK /\ CallShape /\ ChainShape
  BY DEF Shape, TInv
<1>1. /\ UNCHANGED <<nodes, flags, custom, tracks, primary, vals>> /\ Present' = Present
      /\ Present \subseteq Names /\ op \in Calls
  BY <1>0, OpMoves, SameNodes, ZenonT(60) DEF chain, Present, TypeOK, Calls
<1>2. ASSUME \A n \in Present : primary[n] # "pending", op'.pc \notin {"addNodes", "addPrimary",
             "waitPrimary", "addVals"}
      PROVE  JoinInv'
  BY <1>1, <1>2 DEF JoinInv
<1>3. CASE AllHealthy
  <2> DEFINE T == {n \in Present : primary[n] # "current"}
  <2>1. op.pc = "addNodes" /\ Goto("addPrimary", T) /\ T \in SUBSET Names
    BY <1>1, <1>3 DEF AllHealthy, At
  <2>2. \A n \in T : primary[n] = "no"
    BY <1>0, <1>1, <2>1 DEF JoinInv, TypeOK, ValState
  <2> HIDE DEF T
  <2>3. op.P \subseteq Present
    BY <1>1, <1>3, <2>1 DEF AllHealthy, JoinInv, Calls
  <2>4. /\ op'.pc = "addPrimary" /\ op'.s = op.s /\ op'.P = op.P /\ op'.todo = T
        /\ op'.kind = op.kind
    BY <1>0, <2>1, GotoEffect, Zenon DEF Steps
  <2>5. TrackInv'
    BY <1>1, <2>1, <2>4, AllTracked, ZenonT(20) DEF TrackInv
  <2> QED
    BY <1>1, <2>1, <2>2, <2>4, <2>5, <2>3 DEF JoinInv
<1>4. CASE WaitPrimary
  <2>1. op.pc = "waitPrimary" /\ Goto("addVals", op.P) /\ op.P \in SUBSET Names
        /\ \A n \in Present : primary[n] = "current"
    BY <1>1, <1>4 DEF WaitPrimary, At, Calls
  <2>2. /\ op'.pc = "addVals" /\ op'.s = op.s /\ op'.P = op.P /\ op'.todo = op.P
        /\ op'.kind = op.kind
    BY <1>0, <2>1, GotoEffect, ZenonT(60) DEF Steps
  <2>3. TrackInv'
    BY <1>1, <2>1, <2>2, AllTracked DEF TrackInv
  <2> QED
    BY <1>1, <2>1, <2>2, <2>3, ZenonT(20) DEF JoinInv
\* The call turns to the flags: of all nodes that are there.
<1>5. ASSUME op.pc \in {"addVals", "removeVals"}, op.todo = {}, Goto("restart", Present),
             op.kind # "chainOn"
      PROVE  TrackInv' /\ JoinInv'
  <2>1. /\ op'.pc = "restart" /\ op'.s = op.s /\ op'.P = op.P /\ op'.todo = Present
        /\ op'.kind = op.kind
    BY <1>0, <1>1, <1>5, GotoEffect, Zenon DEF Steps
  <2>2. /\ \A n \in Present : Lagging(n) /\ Lagging(n)'
        /\ \A n \in Present \cap op.P : Changed(n)'
    BY <1>1, <1>5, <2>1, SameNodes, ZenonT(60) DEF TrackInv, Lagging, Changed
  <2>3. TrackInv'
    BY <1>1, <1>5, <2>1, <2>2 DEF TrackInv
  <2> QED
    BY <1>2, <1>5, <2>1, <2>3, Zenon DEF JoinInv
<1>6. CASE SetConfigFiles
  <2>1. op.pc = "addVals" /\ op.todo = {} /\ op.s \in Subnets
    BY <1>0, <1>6 DEF SetConfigFiles, At, CallShape
  <2>2. CASE op.kind # "chainOn"
    BY <1>5, <1>6, <2>1, <2>2 DEF SetConfigFiles
  <2>3. CASE op.kind = "chainOn"
    <3>1. op.P = {}
      BY <1>0, <2>1, <2>3 DEF CallShape
    <3>2. \A n \in Present : Tracked(n)
      <4> SUFFICES ASSUME NEW n \in Present PROVE Tracked(n)
        BY ZenonT(60)
      <4>1. /\ Runs(n)
            /\ n \notin custom => /\ flags[n] \ {op.s} = Validated(n) \ {op.s}
                                  /\ op.s \in flags[n] <=> op.s \in Validated(n)
        BY <2>1, <2>3, <3>1 DEF TrackInv, Lagging
      <4> QED
        BY SMT, <4>1 DEF Tracked
    <3>3. \/ Goto("reload", {})
          \/ op' = [op EXCEPT !.pc = "restart", !.P = Current(op.s), !.todo = Present]
      BY <1>6, <2>3, ZenonT(60) DEF SetConfigFiles, Fail
    <3>4. CASE Goto("reload", {})
      <4>1. op'.pc = "reload"
        BY <1>0, <3>4, GotoEffect, Zenon DEF Steps
      <4> QED
        BY <1>1, <1>2, <2>1, <3>2, <4>1, AllTracked DEF JoinInv
    <3>5. CASE op' = [op EXCEPT !.pc = "restart", !.P = Current(op.s), !.todo = Present]
      <4>1. /\ op'.pc = "restart" /\ op'.s = op.s /\ op'.P = Current(op.s)
            /\ op'.todo = Present /\ op'.kind = "chainOn"
        BY <1>1, <2>3, <3>5, ZenonT(60) DEF Calls
      <4>2. \A n \in Present : Tracked(n)' /\ Lagging(n)'
        BY <1>1, <3>2, SameNodes DEF Tracked, Lagging
      <4>3. \A n \in Current(op.s) : op.s \in Validated(n)
        BY <2>1, ZenonT(20) DEF Current, Validated, Validators
      <4>4. \A n \in Present \cap Current(op.s) : Changed(n)'
        BY <1>1, <4>1, <4>3, SameNodes, ZenonT(20) DEF Changed
      <4>5. TrackInv'
        BY <1>1, <4>1, <4>2, <4>4, Zenon DEF TrackInv
      <4> QED
        BY <1>2, <2>1, <4>1, <4>5, Zenon DEF JoinInv
    <3> QED
      BY <3>3, <3>4, <3>5
  <2> QED
    BY <2>2, <2>3
<1>7. CASE RemovalsDone
  <2>1. op.pc = "removeVals" /\ op.todo = {} /\ Goto("restart", Present) /\ op.kind = "remove"
    BY <1>0, <1>7 DEF RemovalsDone, At, CallShape
  <2> QED
    BY <1>5, <2>1, ZenonT(20)
<1>8. ASSUME \A n \in Present : Tracked(n), \A n \in Present : primary[n] # "pending",
             op'.pc \in {"idle", "waitVals", "reload", "chainTx"}
      PROVE  TrackInv' /\ JoinInv'
  BY <1>1, <1>2, <1>8, AllTracked, ZenonT(60)
<1>9. CASE Restarted
  <2>1. op.pc = "restart" /\ op.todo = {} /\ (Succeed \/ Goto("waitVals", {}) \/ Goto("reload", {}))
    BY <1>9 DEF Restarted, At
  <2>2. op'.pc \in {"idle", "waitVals", "reload"}
    <3>1. CASE Succeed
      BY <3>1 DEF Succeed, Idle
    <3>2. CASE Goto("waitVals", {})
      BY <1>0, <3>2, GotoEffect, Zenon DEF Steps
    <3>3. CASE Goto("reload", {})
      BY <1>0, <3>3, GotoEffect, ZenonT(60) DEF Steps
    <3> QED
      BY <2>1, <3>1, <3>2, <3>3
  <2> QED
    BY <1>8, <2>1, <2>2 DEF TrackInv, JoinInv
<1>10. CASE ReloadVMPlugins \/ WaitValidators \/ ChainsReady
  <2>1. op.pc \in {"reload", "waitVals", "ready"}
        /\ (Succeed \/ Goto("waitVals", {}) \/ Goto("chainTx", {}))
    BY <1>10 DEF ReloadVMPlugins, WaitValidators, ChainsReady, At, Fail
  <2>2. op'.pc \in {"idle", "waitVals", "chainTx"}
    <3>1. CASE Succeed
      BY <3>1 DEF Succeed, Idle
    <3>2. CASE Goto("waitVals", {})
      BY <1>0, <3>2, GotoEffect, Zenon DEF Steps
    <3>3. CASE Goto("chainTx", {})
      BY <1>0, <3>3, GotoEffect, ZenonT(40) DEF Steps
    <3> QED
      BY <2>1, <3>1, <3>2, <3>3
  <2> QED
    BY <1>8, <2>1, <2>2 DEF TrackInv, JoinInv
<1>11. CASE CallFails \/ Aborts
  BY <1>11 DEF CallFails, Aborts, Fail
<1> QED
  BY <1>3, <1>4, <1>6, <1>7, <1>9, <1>10, <1>11 DEF OpStep

\* A step of addVals or removeVals that did not fail: n is added or removed.
LEMMA ValidatorTrack ==
  ASSUME Shape, TrackInv, NEW n \in Names, n \in op.todo, Done(n),
         UNCHANGED <<nodes, flags, custom, tracks>>,
         \/ op.pc = "addVals" /\ Validated(n)' = Validated(n) \cup {op.s}
         \/ op.pc = "removeVals" /\ Validated(n)' = Validated(n) \ {op.s},
         \A m \in Names \ {n} : Validated(m)' = Validated(m)
  PROVE  TrackInv'
<1>0. TypeOK /\ CallShape /\ op.todo \subseteq Names /\ op.P \subseteq Names
  BY SMTT(40), ZenonT(60) DEF Shape, TInv, TypeOK
<1>1. /\ op'.kind = op.kind /\ op'.pc = op.pc /\ op'.s = op.s /\ op'.P = op.P
      /\ op'.todo = op.todo \ {n} /\ n \in op.P
  BY <1>0, DoneEffect, SMTT(40) DEF CallShape
<1>2. Present' = Present /\ Present \subseteq Names /\ \A m \in Names : Runs(m)' <=> Runs(m)
  BY ZenonT(60) DEF Present, Runs, Active
<1>3. \A m \in Present : Lagging(m)'
  <2> SUFFICES ASSUME NEW m \in Present PROVE Lagging(m)'
    BY Zenon
  <2>1. Lagging(m) /\ m \in Names
    BY <1>2, ZenonT(20) DEF TrackInv
  <2>2. CASE m # n
    BY <1>1, <1>2, <2>1, <2>2, ZenonT(20) DEF Lagging
  <2>3. CASE m = n /\ op.pc = "addVals"
    <3>1. op.kind # "remove" /\ Validated(n)' = Validated(n) \cup {op.s}
      BY <1>0, <2>3, ZenonT(20) DEF CallShape
    <3> QED
      BY <1>1, <1>2, <2>1, <2>3, <3>1, ZenonT(20) DEF Lagging
  <2>4. CASE m = n /\ op.pc = "removeVals"
    <3>1. op.kind = "remove" /\ Validated(n)' = Validated(n) \ {op.s}
      BY <1>0, <2>4 DEF CallShape
    <3> QED
      BY <1>1, <1>2, <2>1, <2>4, <3>1, ZenonT(60) DEF Lagging
  <2> QED
    BY <2>2, <2>3, <2>4
<1>4. \A m \in op'.P \ op'.todo : Changed(m)'
  <2> SUFFICES ASSUME NEW m \in op.P \ op'.todo PROVE Changed(m)'
    BY <1>1
  <2>1. CASE m # n
    <3>1. Changed(m) /\ Validated(m)' = Validated(m)
      BY <1>0, <1>1, <2>1, ZenonT(20) DEF TrackInv
    <3> QED
      BY <1>1, <3>1, ZenonT(20) DEF Changed
  <2>2. CASE m = n
    <3>1. \/ op.kind # "remove" /\ Validated(n)' = Validated(n) \cup {op.s}
          \/ op.kind = "remove" /\ Validated(n)' = Validated(n) \ {op.s}
      BY <1>0 DEF CallShape
    <3> QED
      BY <1>1, <2>2, <3>1, ZenonT(60) DEF Changed
  <2> QED
    BY <2>1, <2>2
<1> QED
  BY <1>1, <1>2, <1>3, <1>4, ZenonT(60) DEF TrackInv

LEMMA TxTrack ==
  ASSUME Shape, TrackInv, JoinInv, TxStep, clean' PROVE TrackInv' /\ JoinInv'
<1>0. TypeOK /\ CallShape /\ Present \subseteq Names /\ op.todo \subseteq Names
      /\ op.P \subseteq Names
  BY ZenonT(20) DEF Shape, TInv, TypeOK, Present
<1>1. CASE CreateSubnetTx
  <2>1. op.pc = "addPrimary" /\ Goto("waitPrimary", {})
        /\ UNCHANGED <<nodes, flags, custom, tracks, primary, vals>>
    BY <1>1, SMTT(40) DEF CreateSubnetTx, At, Fail
  <2>2. /\ op'.pc = "waitPrimary" /\ op'.s = op.s /\ op'.P = op.P /\ op'.kind = op.kind
        /\ Present' = Present
    BY <1>0, <2>1, GotoEffect, Zenon DEF Steps, Present
  <2> QED
    BY <2>1, <2>2, AllTracked, ZenonT(20) DEF TrackInv, JoinInv
<1>2. CASE CreateChainTx
  <2>1. op.pc = "chainTx" /\ Goto("ready", {})
        /\ UNCHANGED <<nodes, flags, custom, tracks, primary, vals>>
    BY <1>2 DEF CreateChainTx, At, Fail
  <2>2. op'.pc = "ready" /\ Present' = Present
    BY <1>0, <2>1, GotoEffect, Zenon DEF Steps, Present
  <2> QED
    BY <2>1, <2>2, AllTracked, Zenon DEF TrackInv, JoinInv
<1>3. CASE TransformTx
  <2>1. op.pc = "transformTx" /\ op' = Idle
        /\ UNCHANGED <<nodes, flags, custom, tracks, primary, vals>>
    BY <1>3 DEF TransformTx, At, Fail, Succeed
  <2>2. op'.pc = "idle" /\ Present' = Present
    BY <2>1, SMTT(40) DEF Idle, Present
  <2> QED
    BY <2>1, <2>2, AllTracked, Zenon DEF TrackInv, JoinInv
<1>4. ASSUME NEW n \in Names, AddPrimary(n) PROVE TrackInv' /\ JoinInv'
  <2>1. /\ op.pc = "addPrimary" /\ n \in op.todo /\ Done(n)
        /\ primary' = [primary EXCEPT ![n] = "pending"]
        /\ UNCHANGED <<nodes, flags, custom, tracks, vals>>
    BY <1>4, SMTT(40) DEF AddPrimary, At, Fail
  <2>2. /\ op'.pc = "addPrimary" /\ op'.s = op.s /\ op'.P = op.P /\ op'.todo = op.todo \ {n}
        /\ op'.kind = op.kind /\ Present' = Present
    BY <1>0, <2>1, DoneEffect, Zenon DEF Present
  <2>3. \A m \in op'.todo : primary'[m] = "no"
    BY <1>0, <2>1, <2>2, ZenonT(60) DEF JoinInv, TypeOK
  <2> QED
    BY <2>1, <2>2, <2>3, AllTracked, ZenonT(60) DEF TrackInv, JoinInv
<1>5. ASSUME NEW n \in Names, AddValidator(n) \/ AddPermissionlessValidator(n)
      PROVE  TrackInv' /\ JoinInv'
  <2>1. /\ op.pc = "addVals" /\ n \in op.todo /\ Done(n) /\ op.s \in Subnets
        /\ \/ vals' = vals /\ n \in Current(op.s)
           \/ vals' = [vals EXCEPT ![op.s][n] = "pending"]
        /\ UNCHANGED <<nodes, flags, custom, tracks, primary>>
    BY <1>0, <1>5 DEF AddValidator, AddPermissionlessValidator, ProposeValidator, At, Fail, Panic,
         CallShape
  <2>2. /\ op'.pc = "addVals" /\ op'.s = op.s /\ op'.P = op.P /\ op'.todo = op.todo \ {n}
        /\ op'.kind = op.kind /\ Present' = Present
    BY <1>0, <2>1, DoneEffect, Zenon DEF Present
  <2>3. /\ \A r \in Subnets, m \in Names : r # op.s \/ m # n => vals'[r][m] = vals[r][m]
        /\ vals'[op.s][n] # "no"
    <3>1. CASE vals' = vals /\ n \in Current(op.s)
      BY <3>1 DEF Current
    <3>2. CASE vals' = [vals EXCEPT ![op.s][n] = "pending"]
      BY <1>0, <2>1, <3>2 DEF TypeOK
    <3> QED
      BY <2>1, <3>1, <3>2
  <2>4. Validated(n)' = Validated(n) \cup {op.s}
    BY <2>1, <2>3 DEF Validated, Validators
  <2>5. \A m \in Names \ {n} : Validated(m)' = Validated(m)
    BY <2>1, <2>3 DEF Validated, Validators
  <2>6. op.kind # "permissionless" => \A m \in op'.todo : vals'[op.s][m] = "no"
    BY <1>0, <2>1, <2>2, <2>3, ZenonT(60) DEF JoinInv
  <2>7. TrackInv'
    <3>1. UNCHANGED <<nodes, flags, custom, tracks>>
      BY <2>1, Zenon
    <3> QED
      BY <2>1, <2>4, <2>5, <3>1, ValidatorTrack, ZenonT(40)
  <2>8. JoinInv'
    <3>1. \A m \in Present' : primary'[m] = "current" /\ primary'[m] # "pending"
      BY <2>1, <2>2, Zenon DEF JoinInv
    <3>2. op.P \subseteq Present
      BY <2>1 DEF JoinInv
    <3> QED
      BY SMT, <2>2, <2>6, <3>1, <3>2 DEF JoinInv
  <2> QED
    BY <2>7, <2>8
<1>6. ASSUME NEW n \in Names, RemoveValidator(n) PROVE TrackInv' /\ JoinInv'
  <2>1. /\ op.pc = "removeVals" /\ n \in op.todo /\ Done(n) /\ op.s \in Subnets
        /\ vals' = [vals EXCEPT ![op.s][n] = "no"]
        /\ UNCHANGED <<nodes, flags, custom, tracks, primary>>
    BY <1>0, <1>6 DEF RemoveValidator, At, Fail, CallShape
  <2>2. op'.pc = "removeVals" /\ Present' = Present
    BY <1>0, <2>1, DoneEffect, Zenon DEF Present
  <2>3. /\ \A r \in Subnets, m \in Names : r # op.s \/ m # n => vals'[r][m] = vals[r][m]
        /\ vals'[op.s][n] = "no"
    BY <1>0, <2>1 DEF TypeOK
  <2>4. Validated(n)' = Validated(n) \ {op.s}
    BY <2>1, <2>3 DEF Validated, Validators
  <2>5. \A m \in Names \ {n} : Validated(m)' = Validated(m)
    BY <2>1, <2>3 DEF Validated, Validators
  <2> QED
    BY <2>1, <2>2, <2>4, <2>5, ValidatorTrack, ZenonT(20) DEF JoinInv
<1> QED
  BY <1>1, <1>2, <1>3, <1>4, <1>5, <1>6 DEF TxStep

\* A step of the environment or of another call: configs and validators stay,
\* and nobody's process goes astray.
LEMMA QuietTrack ==
  ASSUME Shape, TrackInv, UNCHANGED op, Present' \subseteq Present,
         op.pc # "idle" => Present' = Present /\ \A n \in Names : Validated(n)' = Validated(n),
         \A n \in Present' : /\ flags'[n] = flags[n] /\ (n \in custom' <=> n \in custom)
                             /\ Validated(n)' = Validated(n) /\ (Runs(n) => Runs(n)')
  PROVE  TrackInv'
<1>1. \A n \in Present' : (Tracked(n) => Tracked(n)') /\ (Lagging(n) => Lagging(n)')
  BY DEF Tracked, Lagging
<1>2. op.P \subseteq Names /\ op.todo \subseteq Names
  BY DEF Shape, TInv, TypeOK
<1>3. op.pc # "idle" => \A n \in Names : Changed(n)' <=> Changed(n)
  BY ZenonT(20) DEF Changed
<1>4. CASE op.pc \in {"addVals", "removeVals"}
  BY <1>1, <1>2, <1>3, <1>4, ZenonT(20) DEF TrackInv
<1>5. CASE op.pc = "restart"
  <2>1. Present' = Present /\ op.todo \subseteq Present /\ Present \subseteq Names
    BY <1>5, ZenonT(60) DEF TrackInv, Present
  <2> QED
    BY <1>1, <1>3, <1>5, <2>1, ZenonT(20) DEF TrackInv
<1>6. CASE op.pc \notin {"addVals", "removeVals", "restart"}
  BY <1>1, <1>6 DEF TrackInv
<1> QED
  BY <1>4, <1>5, <1>6, ZenonT(60)

\* What restartNodes makes of a flag that lags behind.
LEMMA NewFlagsTrack ==
  ASSUME NEW n \in Names, n \notin custom, Lagging(n), op.kind = "chainOn" => Tracked(n),
         n \in op.P => Changed(n)
  PROVE  NewFlags(n) = Validated(n)
<1>1. CASE op.kind = "chainOn"
  BY <1>1 DEF NewFlags, Tracked
<1>2. CASE op.kind # "chainOn" /\ n \notin op.P
  <2>1. flags[n] \ {op.s} = Validated(n) \ {op.s}
        /\ (op.s \in flags[n] <=> op.s \in Validated(n))
    BY <1>2 DEF Lagging
  <2>2. flags[n] = Validated(n)
    BY SMT, <2>1
  <2> QED
    BY <1>2, <2>2, ZenonT(60) DEF NewFlags
<1>3. CASE op.kind # "chainOn" /\ n \in op.P
  <2>1. flags[n] \ {op.s} = Validated(n) \ {op.s}
        /\ (op.s \in Validated(n) <=> op.kind # "remove")
    BY <1>3, ZenonT(20) DEF Lagging, Changed
  <2>2. CASE op.kind = "remove"
    <3>1. flags[n] \ {op.s} = Validated(n)
      BY <2>1, <2>2, ZenonT(20)
    <3> QED
      BY <1>3, <2>2, <3>1 DEF NewFlags
  <2>3. CASE op.kind # "remove"
    <3>1. flags[n] \cup {op.s} = Validated(n)
      BY <2>1, <2>3
    <3> QED
      BY <1>3, <2>3, <3>1, ZenonT(20) DEF NewFlags
  <2> QED
    BY <2>2, <2>3, ZenonT(20)
<1> QED
  BY <1>1, <1>2, <1>3

LEMMA RestartTrack ==
  ASSUME Shape, TrackInv, JoinInv, NEW n \in Names, Restart(n), clean'
  PROVE  TrackInv' /\ JoinInv'
<1>0. TypeOK /\ CallShape
  BY ZenonT(60) DEF Shape, TInv
<1>1. /\ op.pc = "restart" /\ n \in op.todo /\ Done(n) /\ UNCHANGED <<custom, chain>>
      /\ flags' = [flags EXCEPT ![n] = NewFlags(n)]
      /\ \/ (n \notin op.P \/ nodes[n] = "paused") /\ UNCHANGED <<nodes, tracks>>
         \/ Started(n, NewFlags(n))
  BY DEF Restart, At, Fail, Started
<1>2. /\ op'.kind = op.kind /\ op'.pc = "restart" /\ op'.s = op.s /\ op'.P = op.P
      /\ op'.todo = op.todo \ {n}
  BY <1>0, <1>1, DoneEffect, Zenon
<1>3. /\ op.todo \subseteq Present /\ n \in Present /\ Present \subseteq Names
      /\ Lagging(n) /\ (op.kind = "chainOn" => Tracked(n)) /\ (n \in op.P => Changed(n))
  BY <1>1, Zenon DEF TrackInv, Present
<1>4. Present' = Present /\ \A m \in Names \ {n} : m \in Active' <=> m \in Active
  BY <1>0, <1>1, <1>3, ZenonT(60) DEF Started, Present, Active, TypeOK
<1>5. \A m \in Names : Validated(m)' = Validated(m)
  BY <1>1 DEF chain, Validated, Validators
<1>6. n \notin custom => flags'[n] = Validated(n)'
  BY <1>0, <1>1, <1>3, <1>5, NewFlagsTrack, SMTT(40) DEF TypeOK
<1>7. Runs(n)'
  <2>1. CASE Started(n, NewFlags(n))
    BY <1>0, <1>1, <2>1, ZenonT(60) DEF Started, Runs, TypeOK
  <2>2. CASE n \notin op.P /\ UNCHANGED <<nodes, tracks>>
    BY <1>0, <1>1, <1>3, <2>2 DEF Runs, Active, Lagging, NewFlags, TypeOK
  <2>3. CASE nodes[n] = "paused" /\ UNCHANGED <<nodes, tracks>>
    BY <2>3 DEF Runs, Active
  <2> QED
    BY <1>1, <2>1, <2>2, <2>3, Zenon
<1>8. \A m \in Names \ {n} : flags'[m] = flags[m] /\ tracks'[m] = tracks[m]
  BY <1>0, <1>1, ZenonT(20) DEF Started, TypeOK
<1>9. \A m \in Names \ {n} : /\ Tracked(m) => Tracked(m)'
                             /\ Lagging(m) => Lagging(m)'
  BY <1>1, <1>2, <1>4, <1>5, <1>8, Zenon DEF Tracked, Lagging, Runs
<1>10. Tracked(n)'
  BY <1>1, <1>6, <1>7, ZenonT(20) DEF Tracked
<1>11. \A m \in Present \cap op.P : Changed(m)'
  BY <1>1, <1>2, <1>3, <1>5, ZenonT(20) DEF TrackInv, Changed
<1>12. TrackInv'
  BY <1>1, <1>2, <1>3, <1>4, <1>9, <1>10, <1>11, ZenonT(40) DEF TrackInv
<1>13. JoinInv'
  BY <1>1, <1>2, <1>4, Zenon DEF JoinInv, chain
<1> QED
  BY <1>12, <1>13

LEMMA NodeTrack ==
  ASSUME Shape, TrackInv, JoinInv, NodeStep, clean' PROVE TrackInv' /\ JoinInv'
<1>0. TypeOK /\ CallShape /\ AbsentNames /\ AfterStop /\ Present \subseteq Names
      /\ op.P \subseteq Names /\ op.todo \subseteq Names
  BY SMTT(40) DEF Shape, TInv, ChainShape, TypeOK, Present
<1>1. ASSUME NEW n \in Names, AddMissing(n) PROVE TrackInv' /\ JoinInv'
  <2>1. op.pc = "addNodes" /\ n \in op.todo /\ Done(n) /\ UNCHANGED <<custom, chain>>
        /\ IF n \in Present THEN UNCHANGED <<nodes, flags, tracks>> ELSE Started(n, {})
    BY <1>1 DEF AddMissing, At
  <2>2. /\ op'.pc = "addNodes" /\ op'.s = op.s /\ op'.P = op.P /\ op'.kind = op.kind
        /\ op'.todo = op.todo \ {n}
    BY <1>0, <2>1, DoneEffect, ZenonT(40)
  <2>3. /\ Present' = Present \cup {n}
        /\ \A m \in Names : m # n \/ n \in Present =>
             /\ flags'[m] = flags[m] /\ tracks'[m] = tracks[m]
             /\ m \in Active' <=> m \in Active
        /\ n \notin Present => flags'[n] = {} /\ tracks'[n] = {}
    <3>1. CASE n \in Present
      BY <2>1, <3>1 DEF Present, Active
    <3>2. CASE n \notin Present
      BY SMT, <1>0, <2>1, <3>2 DEF Started, Present, Active, TypeOK
    <3> QED
      BY <3>1, <3>2
  <2>4. \A m \in Names : Validated(m)' = Validated(m)
    BY <2>1, ZenonT(60) DEF chain, Validated, Validators
  <2>5. n \notin Present => Validated(n) = {} /\ primary[n] = "no"
    BY SMT, <1>0, <2>1 DEF AbsentNames, AfterStop, Idle, Panicked, Validated, Validators
  <2>6. \A m \in Present : Tracked(m)
    BY <2>1, Zenon DEF TrackInv
  <2>7. \A m \in Present' : Tracked(m)'
    <3> SUFFICES ASSUME NEW m \in Present' PROVE Tracked(m)'
      OBVIOUS
    <3>1. CASE m \in Present
      BY <1>0, <2>1, <2>3, <2>4, <2>6, <3>1, ZenonT(20) DEF Tracked, Runs
    <3>2. CASE m \notin Present
      BY <2>3, <2>4, <2>5, <3>2, ZenonT(60) DEF Tracked, Runs
    <3> QED
      BY <3>1, <3>2
  <2>8. op'.P \ op'.todo \subseteq Present'
    BY <2>1, <2>2, <2>3 DEF JoinInv
  <2> QED
    BY <2>1, <2>2, <2>3, <2>5, <2>7, <2>8, ZenonT(60) DEF TrackInv, JoinInv, chain
<1>2. ASSUME NEW n \in Names, PauseNode(n) \/ ProcessExits(n) PROVE TrackInv' /\ JoinInv'
  <2>1. UNCHANGED <<op, flags, custom, chain>>
    BY <1>2, Zenon DEF PauseNode, ProcessExits
  <2>2. Present' = Present
    BY <1>0, <1>2, Zenon DEF PauseNode, ProcessExits, Active, Present, TypeOK
  <2>3. \A m \in Names : Validated(m)' = Validated(m)
    BY <2>1, Zenon DEF chain, Validated, Validators
  <2>4. \A m \in Names : Runs(m) => Runs(m)'
    <3>1. CASE PauseNode(n)
      BY <1>0, <3>1, ZenonT(20) DEF PauseNode, Runs, Active, TypeOK
    <3>2. CASE ProcessExits(n)
      BY <1>0, <3>2, ZenonT(20) DEF ProcessExits, Runs, Active, TypeOK
    <3> QED
      BY <1>2, <3>1, <3>2
  <2>5. TrackInv'
    BY <1>0, <2>1, <2>2, <2>3, <2>4, QuietTrack, ZenonT(60)
  <2> QED
    BY <2>1, <2>2, <2>5, ZenonT(60) DEF JoinInv, chain
\* A node leaves between two calls.
<1>3. ASSUME NEW n \in Names, op.pc = "idle", Leaves(n), UNCHANGED op
      PROVE  TrackInv' /\ JoinInv'
  <2>1. /\ flags' = [flags EXCEPT ![n] = {}] /\ tracks' = [tracks EXCEPT ![n] = {}]
        /\ custom' = custom \ {n}
    BY <1>3 DEF Leaves
  <2>2. Present' = Present \ {n} /\ \A m \in Names \ {n} : m \in Active' <=> m \in Active
    BY <1>0, <1>3, SMTT(40) DEF Leaves, Present, Active, TypeOK
  <2>3. \A m \in Names \ {n} : /\ flags'[m] = flags[m] /\ tracks'[m] = tracks[m]
                                /\ (m \in custom' <=> m \in custom)
    BY <1>0, <2>1 DEF TypeOK
  <2>4. \A m \in Present' : Validated(m)' = Validated(m) /\ (Runs(m) => Runs(m)')
    BY <1>0, <1>3, <2>2, <2>3, LeavesChain, ZenonT(60) DEF Validated, Validators, Runs
  <2>5. TrackInv'
    BY <1>0, <1>3, <2>2, <2>3, <2>4, QuietTrack
  <2> QED
    BY <1>0, <1>3, <2>2, <2>5, LeavesChain, ZenonT(60) DEF JoinInv
\* A client adds a node, or restarts one with or without new subnets to track.
<1>4. ASSUME NEW n \in Names, NEW T \in SUBSET Subnets, AddNode(n, T) \/ RestartNode(n, T)
      PROVE  TrackInv' /\ JoinInv'
  <2> DEFINE f == IF T = {} /\ n \in Present THEN flags[n] ELSE T
  <2>1. /\ op.pc = "idle" /\ UNCHANGED <<op, stop>> /\ stop # "done" /\ TypeOK'
        /\ \/ Leaves(n)
           \/ /\ flags' = [flags EXCEPT ![n] = f]
              /\ custom' = IF T = {} THEN custom ELSE custom \cup {n}
              /\ UNCHANGED chain
              /\ \/ Started(n, f)
                 \/ nodes[n] = "paused" /\ UNCHANGED <<nodes, tracks>>
    <3>1. TypeOK'
      BY <1>4, NodeTypes DEF NodeStep, Shape, TInv
    <3>2. CASE AddNode(n, T)
      BY <3>1, <3>2 DEF AddNode, At, Started
    <3>3. CASE RestartNode(n, T)
      BY <1>0, <3>1, <3>3 DEF RestartNode, At, Started, AfterStop
    <3> QED
      BY <1>4, <3>2, <3>3
  <2>2. CASE Leaves(n)
    BY <1>3, <2>1, <2>2
  <2>3. CASE /\ flags' = [flags EXCEPT ![n] = f] /\ UNCHANGED chain
             /\ custom' = IF T = {} THEN custom ELSE custom \cup {n}
             /\ \/ Started(n, f)
                \/ nodes[n] = "paused" /\ UNCHANGED <<nodes, tracks>>
    <3>1. flags'[n] = f /\ \A m \in Names \ {n} : flags'[m] = flags[m] /\ tracks'[m] = tracks[m]
      BY <1>0, <2>3 DEF Started, TypeOK
    <3>2. Present' = Present \cup {n} /\ \A m \in Names \ {n} : m \in Active' <=> m \in Active
      BY <1>0, <2>3 DEF Started, Present, Active, TypeOK
    <3>3. Runs(n)'
      BY <1>0, <2>3, <3>1 DEF Started, Runs, Active, TypeOK
    <3>4. \A m \in Names : Validated(m)' = Validated(m)
      BY <2>3 DEF chain, Validated, Validators
    <3>5. \A m \in Present : Tracked(m)
      BY <2>1 DEF TrackInv
    <3>6. n \notin custom' => flags'[n] = Validated(n)'
      <4>1. CASE n \in Present
        BY <2>3, <3>1, <3>4, <3>5, <4>1 DEF Tracked
      <4>2. CASE n \notin Present
        <5>1. Validated(n) = {}
          BY <1>0, <2>1, <4>2 DEF AbsentNames, Validated, Validators
        <5> QED
          BY <2>3, <3>1, <3>4, <4>2, <5>1
      <4> QED
        BY <4>1, <4>2
    <3>7. \A m \in Present' : Tracked(m)'
      BY <1>0, <2>3, <3>1, <3>2, <3>3, <3>4, <3>5, <3>6 DEF Tracked, Runs
    <3>8. \A m \in Present' : primary'[m] # "pending"
      BY <1>0, <2>1, <2>3, <3>2 DEF JoinInv, AbsentNames, chain
    <3> QED
      BY <2>1, <3>7, <3>8 DEF TrackInv, JoinInv
  <2> QED
    BY <2>1, <2>2, <2>3
<1>5. ASSUME NEW n \in Names, ValidationStarts(n) PROVE TrackInv' /\ JoinInv'
  <2>1. UNCHANGED <<op, nodes, flags, custom, tracks>> /\ Present' = Present
    BY <1>5 DEF ValidationStarts, Present
  <2>2. \A m \in Names : primary'[m] = primary[m]
                          \/ (primary[m] = "pending" /\ primary'[m] = "current")
    BY <1>0, <1>5 DEF ValidationStarts, TypeOK
  <2>3. \A s \in Subnets, m \in Names : vals'[s][m] = vals[s][m]
                          \/ (vals[s][m] = "pending" /\ vals'[s][m] = "current")
    <3>1. CASE vals' = vals
      BY <3>1
    <3>2. ASSUME NEW r \in Subnets, vals[r][n] = "pending",
                 vals' = [vals EXCEPT ![r][n] = "current"]
          PROVE  \A s \in Subnets, m \in Names :
                   \/ vals'[s][m] = vals[s][m]
                   \/ vals[s][m] = "pending" /\ vals'[s][m] = "current"
      BY <1>0, <3>2 DEF TypeOK
    <3> QED
      BY <1>5, <3>1, <3>2, Zenon DEF ValidationStarts
  <2>4. \A m \in Names : Validated(m)' = Validated(m) /\ (Runs(m) => Runs(m)')
    BY <2>1, <2>3, ZenonT(20) DEF Validated, Validators, Runs, Active
  <2>5. TrackInv'
    BY <1>0, <2>1, <2>4, QuietTrack, ZenonT(20)
  <2>6. op.pc \notin {"idle", "panicked"} => op.s \in Subnets
    BY <1>0, SMTT(40) DEF CallShape
  <2>7. /\ \A m \in Names : primary[m] = "no" => primary'[m] = "no"
        /\ \A m \in Names : primary[m] = "current" => primary'[m] = "current"
        /\ \A m \in Names : primary[m] # "pending" => primary'[m] # "pending"
    BY <2>2
  <2>8. op.pc \notin {"idle", "panicked"} =>
          \A m \in Names : vals[op.s][m] = "no" => vals'[op.s][m] = "no"
    BY <2>3, <2>6
  <2>9. /\ op.pc \notin {"addPrimary", "waitPrimary"} => \A m \in Present : primary'[m] # "pending"
        /\ op.pc = "addPrimary" => \A m \in op.todo : primary'[m] = "no"
        /\ op.pc = "addVals" => \A m \in Present : primary'[m] = "current"
    BY <1>0, <2>7, ZenonT(60) DEF JoinInv
  <2>10. op.kind # "permissionless" /\ op.pc \in {"addNodes", "addPrimary", "waitPrimary"} =>
           \A m \in op.P : vals'[op.s][m] = "no"
    BY <1>0, <2>8 DEF JoinInv
  <2>11. op.kind # "permissionless" /\ op.pc = "addVals" =>
           \A m \in op.todo : vals'[op.s][m] = "no"
    BY <1>0, <2>8 DEF JoinInv
  <2>12. JoinInv'
    BY <2>1, <2>9, <2>10, <2>11, Zenon DEF JoinInv
  <2> QED
    BY <2>5, <2>12
<1>6. CASE StopBegins
  <2>1. UNCHANGED <<op, nodes, flags, custom, tracks, primary, vals>>
    BY <1>6, ZenonT(20) DEF StopBegins, chain
  <2>2. Present' = Present /\ \A m \in Names : Validated(m)' = Validated(m) /\ Runs(m)' = Runs(m)
    BY <2>1, ZenonT(60) DEF Present, Validated, Validators, Runs, Active
  <2>3. TrackInv'
    BY <1>0, <2>1, <2>2, QuietTrack
  <2> QED
    BY <2>1, <2>2, <2>3, Zenon DEF JoinInv
<1>7. ASSUME NEW n \in Names, RemoveNode(n) PROVE TrackInv' /\ JoinInv'
  BY <1>3, <1>7 DEF RemoveNode, At
<1>8. CASE StopFinishes
  <2>1. op'.pc = "idle" /\ Present' = {}
    BY <1>8, ZenonT(60) DEF StopFinishes, At, Present
  <2> QED
    BY <2>1, Zenon DEF TrackInv, JoinInv
<1> QED
  BY <1>1, <1>2, <1>5, <1>6, <1>8, <1>4, <1>7, RestartTrack, ZenonT(60) DEF NodeStep

-----------------------------------------------------------------------------
(* The chain of a new subnet, whatever a client has set *)

\* Only participants validate the subnet that a call creates, and once they have
\* been restarted their processes track it.
FreshInv ==
  op.kind \in {"subnet", "chain"} =>
    /\ Validators(op.s) \subseteq op.P
    /\ op.pc \in {"reload", "waitVals", "chainTx", "ready"} => op.todo = {}
    /\ op.pc \in {"restart", "reload", "waitVals", "chainTx", "ready"} =>
         \A n \in (op.P \cap Active) \ op.todo : op.s \in tracks[n]

LEMMA FreshCall ==
  ASSUME TInv, ChainShape, BeginStep PROVE FreshInv'
<1>1. PICK s \in Subnets :
        \/ \E P \in SUBSET Names, k \in {"subnet", "chain"} : Create(s, P, k)
        \/ \E P \in SUBSET Names : RemoveValidators(s, P)
        \/ \E n \in Names : AddPermissionless(s, n)
        \/ CreateOn(s) \/ Transform(s)
  BY DEF BeginStep
<1>2. /\ vals' = vals
      /\ op'.kind \in {"subnet", "chain"} => op'.pc = "addNodes" /\ op'.s = s /\ s \notin subnets
  <2>1. CASE \E P \in SUBSET Names, k \in {"subnet", "chain"} : Create(s, P, k)
    <3>1. PICK k, Q : Begin(k, "addNodes", s, Q) /\ s \notin subnets
      BY <2>1 DEF Create
    <3>2. /\ vals' = vals
          /\ \/ op' = [kind |-> k, pc |-> "addNodes", s |-> s, P |-> Q, todo |-> Q]
             \/ op' = Panicked
      BY <3>1 DEF Begin, Panic, chain
    <3> QED
      BY SMT, <3>1, <3>2, PanickedCall
  <2>2. CASE \/ \E P \in SUBSET Names : RemoveValidators(s, P)
             \/ \E n \in Names : AddPermissionless(s, n)
             \/ CreateOn(s) \/ Transform(s)
    <3>1. PICK k, pc, Q : /\ k \in {"remove", "permissionless", "chainOn", "transform"}
                          /\ Begin(k, pc, s, Q)
      <4>1. CASE \E P \in SUBSET Names : RemoveValidators(s, P)
        BY SMT, <4>1 DEF RemoveValidators
      <4>2. CASE \E n \in Names : AddPermissionless(s, n)
        BY SMT, <4>2 DEF AddPermissionless
      <4>3. CASE CreateOn(s)
        BY SMT, <4>3 DEF CreateOn
      <4>4. CASE Transform(s)
        BY SMT, <4>4 DEF Transform
      <4> QED
        BY <2>2, <4>1, <4>2, <4>3, <4>4
    <3>2. /\ vals' = vals
          /\ \/ op' = [kind |-> k, pc |-> pc, s |-> s, P |-> Q, todo |-> Q]
             \/ op' = Panicked
      BY <3>1 DEF Begin, Panic, chain
    <3> QED
      BY SMT, <3>1, <3>2, PanickedCall
  <2> QED
    BY <1>1, <2>1, <2>2
<1>3. s \notin subnets => Validators(s)' = {}
  BY <1>2 DEF ChainShape, NewSubnets, Validators
<1> QED
  BY <1>2, <1>3 DEF FreshInv

\* The call goes on, and nodes and validators stay.
LEMMA FreshMoves ==
  ASSUME TInv, FreshInv, Moves, op' \in {Idle, Panicked} \/ op'.pc # op.pc,
         UNCHANGED <<nodes, tracks, vals>>
  PROVE  FreshInv'
<1>1. CASE op' \in {Idle, Panicked}
  <2>1. op'.kind = "none"
    BY SMT, <1>1, PanickedCall DEF Idle
  <2> QED
    BY <2>1 DEF FreshInv
<1>2. CASE op' \notin {Idle, Panicked} /\ op.kind \in {"subnet", "chain"}
  <2>1. Active' = Active /\ Active \subseteq Present /\ vals' = vals
    BY DEF Active, Present
  <2>2. op'.kind = op.kind /\ op'.s = op.s /\ op'.P = op.P
    BY <1>2 DEF Moves
  <2>3. /\ op'.pc \in {"reload", "waitVals", "chainTx", "ready"} =>
             /\ op'.todo = {} /\ op.pc \in {"restart", "reload", "waitVals", "chainTx"}
             /\ op.pc = "restart" => op.todo = {}
        /\ op'.pc = "restart" => op'.todo = Present
    BY <1>2 DEF Moves, TInv, CallShape
  <2>4. Validators(op.s)' \subseteq op'.P
    BY <1>2, <2>1, <2>2 DEF FreshInv, Validators
  <2>5. op'.pc \in {"restart", "reload", "waitVals", "chainTx", "ready"} =>
          \A n \in (op'.P \cap Active') \ op'.todo : op'.s \in tracks'[n]
    <3>1. CASE op'.pc = "restart"
      BY <2>1, <2>3, <3>1
    <3>2. CASE op'.pc \in {"reload", "waitVals", "chainTx", "ready"}
      BY <1>2, <2>1, <2>2, <2>3, <3>2 DEF FreshInv
    <3> QED
      BY <3>1, <3>2
  <2> QED
    BY <2>3, <2>4, <2>5 DEF FreshInv
<1>3. CASE op' \notin {Idle, Panicked} /\ op.kind \notin {"subnet", "chain"}
  BY <1>3 DEF Moves, FreshInv
<1> QED
  BY <1>1, <1>2, <1>3

LEMMA FreshTx ==
  ASSUME TInv, FreshInv, TxStep PROVE FreshInv'
<1>0. TypeOK /\ CallShape
  BY DEF TInv
<1>1. CASE CreateSubnetTx \/ CreateChainTx
  <2>1. /\ UNCHANGED <<nodes, tracks, vals>>
        /\ \/ Fail
           \/ op.pc = "addPrimary" /\ Goto("waitPrimary", {})
           \/ op.pc = "chainTx" /\ Goto("ready", {})
    BY <1>1 DEF CreateSubnetTx, CreateChainTx, At
  <2>2. CASE Fail
    BY <2>2 DEF Fail, FreshInv, Idle
  <2>3. CASE op.pc = "addPrimary" /\ Goto("waitPrimary", {})
    <3>1. op'.kind = op.kind /\ op'.pc = "waitPrimary" /\ op'.s = op.s /\ op'.P = op.P
      BY <1>0, <2>3, GotoEffect DEF Steps
    <3> QED
      BY <2>1, <3>1 DEF FreshInv, Validators
  <2>4. CASE op.pc = "chainTx" /\ Goto("ready", {})
    <3>1. /\ op'.kind = op.kind /\ op'.pc = "ready" /\ op'.s = op.s /\ op'.P = op.P
          /\ op'.todo = {}
      BY <1>0, <2>4, GotoEffect DEF Steps
    <3> QED
      BY <2>1, <2>4, <3>1 DEF FreshInv, Validators, Active
  <2> QED
    BY <2>1, <2>2, <2>3, <2>4
<1>2. CASE TransformTx
  <2>1. op' = Idle
    BY <1>2 DEF TransformTx, Fail, Succeed
  <2> QED
    BY <2>1 DEF FreshInv, Idle
\* A validator is added or removed, or the call ends.
<1>3. ASSUME NEW n \in Names,
             \/ AddPrimary(n) \/ AddValidator(n) \/ AddPermissionlessValidator(n)
             \/ RemoveValidator(n)
      PROVE  FreshInv'
  <2>1. /\ op.pc \in {"addPrimary", "addVals", "removeVals"} /\ n \in op.todo
        /\ Done(n) \/ Fail \/ Panic
        /\ \/ vals' = vals
           \/ op.pc = "addVals" /\ vals' = [vals EXCEPT ![op.s][n] = "pending"]
           \/ op.pc = "removeVals"
    BY <1>3 DEF AddPrimary, AddValidator, AddPermissionlessValidator, ProposeValidator,
         RemoveValidator, At
  <2>2. CASE Fail \/ Panic
    <3>1. op'.kind = "none"
      BY SMT, <2>2, PanickedCall DEF Fail, Panic, Idle
    <3> QED
      BY <3>1 DEF FreshInv
  <2>3. CASE Done(n) /\ op.kind \in {"subnet", "chain"}
    <3>1. op'.kind = op.kind /\ op'.pc = op.pc /\ op'.s = op.s /\ op'.P = op.P
      BY <1>0, <2>3, DoneEffect
    <3>2. \A m \in Names : vals'[op.s][m] # "no" => m \in op.P
      <4>1. CASE vals' = vals
        BY <2>3, <4>1 DEF FreshInv, Validators
      <4>2. CASE op.pc = "addVals" /\ vals' = [vals EXCEPT ![op.s][n] = "pending"]
        <5>1. n \in op.P /\ op.s \in Subnets
          BY <1>0, <2>1, <4>2 DEF CallShape
        <5>2. \A m \in Names \ {n} : vals'[op.s][m] = vals[op.s][m]
          BY <1>0, <4>2, <5>1 DEF TypeOK
        <5> QED
          BY <2>3, <5>1, <5>2 DEF FreshInv, Validators
      <4> QED
        BY <1>0, <2>1, <2>3, <4>1, <4>2 DEF CallShape
    <3>3. Validators(op.s)' \subseteq op'.P
      BY <3>1, <3>2 DEF Validators
    <3>4. op'.pc \notin {"restart", "reload", "waitVals", "chainTx", "ready"}
      BY <2>1, <3>1
    <3> QED
      BY <3>3, <3>4 DEF FreshInv
  <2>4. CASE Done(n) /\ op.kind \notin {"subnet", "chain"}
    <3>1. op'.kind = op.kind
      BY <1>0, <2>4, DoneEffect
    <3> QED
      BY <2>4, <3>1 DEF FreshInv
  <2> QED
    BY <2>1, <2>2, <2>3, <2>4
<1> QED
  BY <1>1, <1>2, <1>3 DEF TxStep

LEMMA FreshNode ==
  ASSUME TInv, FreshInv, NodeStep PROVE FreshInv'
<1>0. TypeOK /\ CallShape
  BY DEF TInv
<1>1. ASSUME NEW n \in Names, AddMissing(n) PROVE FreshInv'
  <2>1. op.pc = "addNodes" /\ Done(n) /\ vals' = vals
    BY <1>1 DEF AddMissing, At, chain
  <2>2. op'.kind = op.kind /\ op'.pc = "addNodes" /\ op'.s = op.s /\ op'.P = op.P
    BY <1>0, <2>1, DoneEffect
  <2> QED
    BY <2>1, <2>2 DEF FreshInv, Validators
<1>2. ASSUME NEW n \in Names, Restart(n) PROVE FreshInv'
  <2>1. /\ op.pc = "restart" /\ n \in op.todo
        /\ \/ Fail
           \/ /\ Done(n) /\ UNCHANGED chain
              /\ \/ (n \notin op.P \/ nodes[n] = "paused") /\ UNCHANGED <<nodes, tracks>>
                 \/ n \in op.P /\ Started(n, NewFlags(n))
    BY <1>2 DEF Restart, At
  <2>2. CASE Fail
    BY <2>2 DEF Fail, FreshInv, Idle
  <2>3. CASE /\ Done(n) /\ UNCHANGED chain
             /\ \/ (n \notin op.P \/ nodes[n] = "paused") /\ UNCHANGED <<nodes, tracks>>
                \/ n \in op.P /\ Started(n, NewFlags(n))
    <3>1. /\ op'.kind = op.kind /\ op'.pc = "restart" /\ op'.s = op.s /\ op'.P = op.P
          /\ op'.todo = op.todo \ {n}
      BY <1>0, <2>1, <2>3, DoneEffect
    <3>2. \A m \in Names \ {n} : (m \in Active' <=> m \in Active) /\ tracks'[m] = tracks[m]
      BY <1>0, <2>3 DEF Started, Active, TypeOK
    <3>3. op.kind \in {"subnet", "chain"} /\ n \in op.P \cap Active' => op.s \in tracks'[n]
      <4>1. CASE UNCHANGED <<nodes, tracks>> /\ (n \notin op.P \/ nodes[n] = "paused")
        BY <4>1 DEF Active
      <4>2. CASE n \in op.P /\ Started(n, NewFlags(n))
        <5>1. tracks'[n] = NewFlags(n)
          BY <1>0, <4>2 DEF Started, TypeOK
        <5> QED
          BY <4>2, <5>1 DEF NewFlags
      <4> QED
        BY <2>3, <4>1, <4>2
    <3>4. Active' \subseteq Names
      BY DEF Active
    <3>5. op.kind \in {"subnet", "chain"} =>
            \A m \in (op.P \cap Active') \ op'.todo : op.s \in tracks'[m]
      BY <2>1, <3>1, <3>2, <3>3, <3>4 DEF FreshInv
    <3>6. op.kind \in {"subnet", "chain"} => Validators(op.s)' \subseteq op'.P
      BY <2>3, <3>1 DEF FreshInv, Validators, chain
    <3> QED
      BY <3>1, <3>5, <3>6 DEF FreshInv
  <2> QED
    BY <2>1, <2>2, <2>3
<1>3. CASE op.pc = "idle" /\ UNCHANGED op
  <2>1. op'.kind = "none"
    BY SMT, <1>0, <1>3 DEF CallShape, Idle
  <2> QED
    BY <2>1 DEF FreshInv
<1>4. ASSUME NEW n \in Names, PauseNode(n) \/ RemoveNode(n) PROVE FreshInv'
  BY <1>3, <1>4 DEF PauseNode, RemoveNode, At
<1>5. ASSUME NEW n \in Names, NEW T, AddNode(n, T) \/ RestartNode(n, T) PROVE FreshInv'
  BY <1>3, <1>5 DEF AddNode, RestartNode, At
\* The environment: nobody's process is another one, and nobody joins or leaves.
<1>6. ASSUME UNCHANGED <<op, tracks>>, Active' = Active,
             \A s \in Subnets, m \in Names : vals[s][m] = "no" => vals'[s][m] = "no"
      PROVE  FreshInv'
  <2>1. op.kind \in {"subnet", "chain"} => op.s \in Subnets
    BY SMT, <1>0, PanickedCall DEF CallShape, Idle
  <2> QED
    BY <1>6, <2>1 DEF FreshInv, Validators
<1>7. ASSUME NEW n \in Names, ProcessExits(n) PROVE FreshInv'
  <2>1. UNCHANGED <<op, tracks, vals>> /\ Active' = Active
    BY <1>0, <1>7 DEF ProcessExits, Active, TypeOK, chain
  <2> QED
    BY <1>6, <2>1
<1>8. ASSUME NEW n \in Names, ValidationStarts(n) PROVE FreshInv'
  <2>1. UNCHANGED <<op, tracks>> /\ Active' = Active
    BY <1>8 DEF ValidationStarts, Active
  <2>2. \A s \in Subnets, m \in Names : vals[s][m] = "no" => vals'[s][m] = "no"
    BY SMT, <1>0, <1>8 DEF ValidationStarts, TypeOK
  <2> QED
    BY <1>6, <2>1, <2>2
<1>9. CASE StopBegins
  <2>1. UNCHANGED <<op, tracks, vals>> /\ Active' = Active
    BY <1>9 DEF StopBegins, Active, chain
  <2> QED
    BY <1>6, <2>1
<1>10. CASE StopFinishes
  BY <1>3, <1>10 DEF StopFinishes, At
<1> QED
  BY <1>1, <1>2, <1>4, <1>5, <1>7, <1>8, <1>9, <1>10 DEF NodeStep

LEMMA FreshStep == Shape /\ FreshInv /\ [Next]_vars => FreshInv'
<1> SUFFICES ASSUME Shape, FreshInv, [Next]_vars PROVE FreshInv'
  OBVIOUS
<1>1. TInv /\ ChainShape
  BY DEF Shape
<1>2. CASE UNCHANGED vars
  BY <1>2 DEF vars, FreshInv, Validators, Active
<1>3. CASE OpStep
  <2>1. /\ Moves /\ (op' \in {Idle, Panicked} \/ op'.pc # op.pc)
        /\ UNCHANGED <<nodes, tracks, vals>>
    BY <1>1, <1>3, OpMoves DEF chain
  <2> QED
    BY <1>1, <2>1, FreshMoves
<1> QED
  BY <1>1, <1>2, <1>3, NextSteps, FreshCall, FreshTx, FreshNode

-----------------------------------------------------------------------------
(* The inductive invariant, and the theorems *)

IInv == Shape /\ FreshInv /\ (clean => TrackInv /\ JoinInv)

LEMMA IInvInit == Init => IInv
<1> SUFFICES ASSUME Init PROVE IInv
  OBVIOUS
<1>1. Shape
  BY TypesInit, ChainInit, ZenonT(20) DEF Shape
<1>2. op.pc = "idle" /\ op.kind = "none"
  BY DEF Init, Idle
<1>3. \A n \in Names : Validated(n) = {} /\ tracks[n] = flags[n] /\ primary[n] # "pending"
  BY DEF Init, Validated, Validators
<1>4. \A n \in Names : n \notin custom => flags[n] = {}
  BY DEF Init
<1> QED
  BY <1>1, <1>2, <1>3, <1>4 DEF IInv, FreshInv, TrackInv, JoinInv, Tracked, Runs, Present

LEMMA IInvStep == IInv /\ [Next]_vars => IInv'
<1> SUFFICES ASSUME IInv, [Next]_vars PROVE IInv'
  OBVIOUS
<1>1. Shape'
  BY TypesStep, ChainStep, SMTT(40) DEF IInv, Shape
<1>2. FreshInv'
  BY FreshStep DEF IInv
<1>3. CASE UNCHANGED vars
  <2>1. UNCHANGED <<op, nodes, flags, custom, tracks, primary, vals, clean>>
        /\ Present \subseteq Names
    BY <1>3, ZenonT(60) DEF vars, Present
  <2>2. Present' = Present /\ \A m \in Names : Validated(m)' = Validated(m) /\ Runs(m)' = Runs(m)
    BY <2>1 DEF Present, Validated, Validators, Runs, Active
  <2>3. TrackInv /\ Shape => TrackInv'
    BY <2>1, <2>2, QuietTrack
  <2>4. JoinInv => JoinInv'
    BY <2>1, <2>2, Zenon DEF JoinInv
  <2> QED
    BY <1>1, <1>2, <2>1, <2>3, <2>4, Zenon DEF IInv
<1>4. CASE Next /\ clean'
  <2>1. Shape /\ TrackInv /\ JoinInv
    BY <1>4, Failed, Zenon DEF IInv
  <2> QED
    BY <1>1, <1>2, <1>4, <2>1, NextSteps, BeginTrack, OpTrack, TxTrack, NodeTrack DEF IInv
<1>5. CASE ~clean'
  BY <1>1, <1>2, <1>5 DEF IInv
<1> QED
  BY <1>3, <1>4, <1>5

LEMMA Inductive == Spec => []IInv
BY IInvInit, IInvStep, PTL DEF Spec

\* Between calls, as long as none has failed, a node whose key no client has set
\* is told to track exactly the subnets that it validates, and every process runs
\* with its node's config: restartNodes leaves no node behind, and no other call
\* disturbs it, whatever subnets RestartNode is given for the others.
THEOREM TracksValidators == Spec => []ValidatorsTrack
<1>1. IInv => ValidatorsTrack
  BY ZenonT(20) DEF IInv, TrackInv, Tracked, Runs, Validated, ValidatorsTrack, At
<1> QED
  BY <1>1, Inductive, PTL

\* When waitForCustomChainsReady begins, and as long as it waits, every process
\* whose log it waits for was started to track the subnet, unless the subnet is
\* an old one and a client has set what the node tracks.
THEOREM ReadyReachable == Spec => []ReadyIsReachable
<1>1. IInv => ReadyIsReachable
  <2> SUFFICES ASSUME IInv, At("ready"), clean, NEW n \in Current(op.s) \cap Active,
                      n \notin custom \/ op.kind = "chain"
               PROVE  op.s \in tracks[n]
    BY DEF ReadyIsReachable
  <2>1. n \in Present /\ n \in Validators(op.s) /\ op.s \in Subnets
    BY ZenonT(40) DEF IInv, Active, Present, At, Shape, TInv, CallShape, Current, Validators
  <2>2. CASE op.kind = "chain"
    BY <2>1, <2>2 DEF IInv, FreshInv, At
  <2>3. CASE n \notin custom
    <3>1. tracks[n] = Validated(n)
      BY <2>1, <2>3 DEF IInv, TrackInv, Tracked, Runs, At
    <3> QED
      BY <2>1, <3>1 DEF Validated
  <2> QED
    BY <2>2, <2>3
<1> QED
  BY <1>1, Inductive, PTL

\* Until a call fails, addPrimaryValidators, addSubnetValidators and
\* addPermissionlessValidators are never about to issue a transaction that the
\* P-chain refuses, unless the request itself asks for it.
THEOREM NoRefusals == Spec => []NoRefusedTx
<1>1. IInv => NoRefusedTx
  <2> SUFFICES ASSUME IInv, clean, ~AskedTooMuch
               PROVE  /\ At("addPrimary") => \A n \in op.todo : TakesPrimary(n)
                      /\ At("addVals") => \A n \in op.todo \ Current(op.s) : TakesValidator(n)
    BY DEF NoRefusedTx
  <2>1. JoinInv /\ CallShape
    BY DEF IInv, Shape, TInv
  <2>2. ASSUME At("addPrimary"), NEW n \in op.todo PROVE TakesPrimary(n)
    BY <2>1, <2>2 DEF At, JoinInv, TakesPrimary
  <2>3. ASSUME At("addVals"), NEW n \in op.todo \ Current(op.s) PROVE TakesValidator(n)
    <3>1. n \in op.P /\ n \in Present /\ primary[n] = "current"
      BY <2>1, <2>3 DEF At, JoinInv, CallShape
    <3>2. CASE op.kind = "permissionless"
      BY <2>3, <3>1, <3>2 DEF AskedTooMuch, TakesValidator
    <3>3. CASE op.kind # "permissionless"
      <4>1. vals[op.s][n] = "no"
        BY <2>1, <2>3, <3>3 DEF At, JoinInv
      <4> QED
        BY <3>1, <3>3, <4>1 DEF TakesValidator, Validators
    <3> QED
      BY <3>2, <3>3
  <2> QED
    BY <2>2, <2>3
<1> QED
  BY <1>1, Inductive, PTL

=============================================================================
