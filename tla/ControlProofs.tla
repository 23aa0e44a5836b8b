---------------------------- MODULE ControlProofs ---------------------------
(***************************************************************************)
(* Proofs about Control and, through it, ServerRun, for any number of      *)
(* callers and whatever commands they use.                                 *)
(***************************************************************************)
EXTENDS Control, TLAPS

\* Zenon proves the leaves, except where a leaf asks for SMT.
USE Zenon

-----------------------------------------------------------------------------
(* The composition is a behaviour of ServerRun *)

LEMMA HandlerSteps ==
  ASSUME NEW c \in Calls, Serve(c) \/ TakeLock(c) \/ Sleep(c) \/ Execute(c)
  PROVE  Handler(c)
<1>1. CASE Serve(c) \/ TakeLock(c) \/ Sleep(c)
  BY <1>1 DEF Serve, TakeLock, Sleep, Handler
<1>2. CASE Execute(c)
  <2>1. PICK o \in Outcomes(handler(c).effect, network) :
          /\ \/ handler(c).lock = "write" /\ HandlerDone(c, o.up)
             \/ handler(c).lock = "read" /\ call[c] = "reading" /\ ReaderDone(c)
             \/ handler(c).lock = "none" /\ ReaderDone(c)
          /\ reply' = [reply EXCEPT ![c] = IF gaveUp[c] THEN @ ELSE o.reply]
          /\ UNCHANGED <<pc, via, cmd, gaveUp, answer>>
    BY <1>2 DEF Execute
  <2>2. o.up \in BOOLEAN
    BY DEF Outcomes
  <2> QED
    BY <2>1, <2>2 DEF Handler
<1> QED
  BY <1>1, <1>2

LEMMA CallerSteps ==
  ASSUME NEW c \in Calls, Caller(c)
  PROVE  UNCHANGED vars
BY DEF Caller, Invoke, Connect, ConnectFails, BadArguments, Request, Return, GiveUp, Leave

LEMMA RunsServer == [ControlNext]_controlVars => [Next]_vars
<1> SUFFICES ASSUME [ControlNext]_controlVars PROVE Next \/ UNCHANGED vars
  OBVIOUS
<1>1. CASE ServerStep
  BY <1>1 DEF ServerStep, Next
<1>2. ASSUME NEW c \in Calls, Caller(c) PROVE UNCHANGED vars
  BY <1>2, CallerSteps
<1>3. ASSUME NEW c \in Calls, Serve(c) \/ TakeLock(c) \/ Sleep(c) \/ Execute(c)
      PROVE Next
  BY <1>3, HandlerSteps DEF Next
<1>4. CASE UNCHANGED controlVars
  BY <1>4 DEF controlVars
<1> QED
  BY <1>1, <1>2, <1>3, <1>4 DEF ControlNext

\* The handlers and callers of Control take only the steps that ServerRun
\* allows, so that what is true of Run there is true here.
THEOREM ComposesWithRun == ControlSpec => Spec
<1>1. ControlInit => Init
  BY DEF ControlInit
<1> QED
  BY <1>1, RunsServer, PTL DEF ControlSpec, Spec

-----------------------------------------------------------------------------
(* Run *)

\* Who still has to receive from which goroutine, at every point of Run.
RunInv ==
  /\ run = "select" <=> cause = "none"
  /\ run = "select" => grpc # "done" /\ gw # "done"
  /\ run \in {"closeGw", "waitGw"} => cause \in {"root", "grpc"} /\ gw \notin {"off", "done"}
  /\ run \in {"stopGRPC", "waitGRPC"} => gw \in {"off", "done"}
  /\ cause = "grpc" => grpc = "done"
  /\ run \in {"lock", "done"} => grpc = "done" /\ gw \in {"off", "done"}

LEMMA RunTypes == TypeOK /\ [Next]_vars => TypeOK'
<1> SUFFICES ASSUME TypeOK, [Next]_vars PROVE TypeOK'
  OBVIOUS
<1> USE DEF TypeOK
<1>1. CASE ServeReturns \/ Dialed \/ DialFails \/ ListenReturns
  BY <1>1 DEF ServeReturns, Dialed, DialFails, ListenReturns
<1>2. CASE RootDone
  BY SMT, <1>2 DEF RootDone
<1>3. CASE RunStep
  BY <1>3 DEF RunStep, SelectRoot, SelectGRPC, SelectGateway, CloseGw, ReceiveGw,
              StopGRPC, ReceiveGRPC, AfterGw, GwDisabled
<1>4. CASE Finish
  BY <1>4 DEF Finish
<1>5. ASSUME NEW c \in Calls, Handler(c) PROVE TypeOK'
  BY SMT, <1>5 DEF Handler, Dispatch, HandlerLocks, HandlerRLocks, HandlerSleeps, ReaderDone, HandlerDone
<1>6. CASE UNCHANGED vars
  BY SMT, <1>6 DEF vars
<1> QED
  BY <1>1, <1>2, <1>3, <1>4, <1>5, <1>6 DEF Next

LEMMA RunOrder == TypeOK /\ RunInv /\ [Next]_vars => RunInv'
<1> SUFFICES ASSUME TypeOK, RunInv, [Next]_vars PROVE RunInv'
  OBVIOUS
<1> USE DEF TypeOK, RunInv
<1>1. CASE ServeReturns \/ Dialed \/ DialFails \/ ListenReturns \/ RootDone
  BY <1>1 DEF ServeReturns, Dialed, DialFails, ListenReturns, RootDone
<1>2. CASE SelectRoot \/ SelectGRPC \/ SelectGateway
  BY <1>2 DEF SelectRoot, SelectGRPC, SelectGateway, GwDisabled
<1>3. CASE CloseGw \/ ReceiveGw \/ StopGRPC \/ ReceiveGRPC
  BY <1>3 DEF CloseGw, ReceiveGw, StopGRPC, ReceiveGRPC, AfterGw
<1>4. CASE Finish
  BY <1>4 DEF Finish
<1>5. ASSUME NEW c \in Calls, Handler(c) PROVE RunInv'
  BY <1>5 DEF Handler, Dispatch, HandlerLocks, HandlerRLocks, HandlerSleeps, ReaderDone, HandlerDone
<1>6. CASE UNCHANGED vars
  BY <1>6 DEF vars
<1> QED
  BY <1>1, <1>2, <1>3, <1>4, <1>5, <1>6 DEF Next, RunStep

LEMMA RunInvariant == Spec => [](TypeOK /\ RunInv)
<1>1. Init => TypeOK /\ RunInv
  BY DEF Init, TypeOK, RunInv
<1> QED
  BY <1>1, RunTypes, RunOrder, PTL DEF Spec

\* However Run ends, it has received from both goroutines: none of them stays
\* blocked on its unbuffered channel.
THEOREM NoSenderBlocked == ControlSpec => []NoBlockedSender
<1>1. RunInv => NoBlockedSender
  BY DEF RunInv, NoBlockedSender
<1> QED
  BY <1>1, RunInvariant, ComposesWithRun, PTL

-----------------------------------------------------------------------------
(* The promise to callers *)

CallerTypes ==
  /\ pc \in [Calls -> {"idle", "dial", "ready", "wait", "done"}]
  /\ gaveUp \in [Calls -> BOOLEAN]
  /\ reply \in [Calls -> {"none", "ok", "error"}]
  /\ answer \in [Calls -> {"none", "ok", "error", "refused"}]
  /\ call \in [Calls -> {"none", "dispatched", "reading", "locked", "done"}]

\* A request is dispatched only after it was sent and never if its caller was
\* refused; a caller that waits has got no answer; one whose handler is done
\* finds its reply.
CallerInv ==
  \A c \in Calls :
    /\ pc[c] # "done" => answer[c] = "none" /\ ~gaveUp[c]
    /\ pc[c] \in {"idle", "dial", "ready"} => call[c] = "none"
    /\ answer[c] = "refused" => call[c] = "none" /\ ~gaveUp[c]
    /\ pc[c] = "wait" /\ call[c] = "done" => reply[c] \in {"ok", "error"}

CInv == CallerTypes /\ CallerInv

\* What the steps of handlers do to calls and replies.
LEMMA ExecuteEffect ==
  ASSUME CInv, NEW c \in Calls, Execute(c)
  PROVE  /\ call[c] \in {"dispatched", "reading", "locked"}
         /\ call' = [call EXCEPT ![c] = "done"]
         /\ \E r \in {"ok", "error"} :
              reply' = [reply EXCEPT ![c] = IF gaveUp[c] THEN reply[c] ELSE r]
         /\ UNCHANGED <<pc, gaveUp, answer>>
<1>1. PICK o \in Outcomes(handler(c).effect, network) :
        /\ \/ handler(c).lock = "write" /\ HandlerDone(c, o.up)
           \/ handler(c).lock = "read" /\ call[c] = "reading" /\ ReaderDone(c)
           \/ handler(c).lock = "none" /\ ReaderDone(c)
        /\ reply' = [reply EXCEPT ![c] = IF gaveUp[c] THEN @ ELSE o.reply]
        /\ UNCHANGED <<pc, via, cmd, gaveUp, answer>>
  BY DEF Execute
<1>2. o.reply \in {"ok", "error"}
  BY DEF Outcomes
<1>3. /\ call[c] \in {"dispatched", "reading", "locked"}
      /\ call' = [call EXCEPT ![c] = "done"]
  BY <1>1 DEF HandlerDone, ReaderDone
<1>4. reply' = [reply EXCEPT ![c] = IF gaveUp[c] THEN reply[c] ELSE o.reply]
  BY <1>1 DEF CInv, CallerTypes
<1> QED
  BY <1>1, <1>2, <1>3, <1>4

LEMMA DispatchEffect ==
  ASSUME NEW c \in Calls, Serve(c) \/ TakeLock(c) \/ Sleep(c)
  PROVE  /\ Serve(c) => call[c] = "none" /\ (pc[c] = "wait" \/ gaveUp[c])
         /\ ~Serve(c) => call[c] \in {"dispatched", "reading"}
         /\ \E x \in {"dispatched", "reading", "locked"} : call' = [call EXCEPT ![c] = x]
         /\ UNCHANGED <<pc, gaveUp, reply, answer>>
BY DEF Serve, TakeLock, Sleep, Dispatch, HandlerLocks, HandlerRLocks, HandlerSleeps, callerVars

LEMMA ServerEffect ==
  ASSUME ServerStep \/ UNCHANGED controlVars
  PROVE  UNCHANGED <<call, pc, gaveUp, reply, answer>>
BY DEF ServerStep, ServeReturns, Dialed, DialFails, ListenReturns, RunStep, SelectRoot,
       SelectGRPC, SelectGateway, CloseGw, ReceiveGw, StopGRPC, ReceiveGRPC, Finish,
       RootDone, callerVars, controlVars, vars

LEMMA CallersStep == CInv /\ [ControlNext]_controlVars => CInv'
<1> SUFFICES ASSUME CInv, [ControlNext]_controlVars PROVE CInv'
  OBVIOUS
<1>1. ASSUME NEW c \in Calls, Caller(c) PROVE CInv'
  <2> USE <1>1 DEF CInv, CallerTypes, CallerInv, vars
  <2>1. CASE Invoke(c) \/ Connect(c) \/ Request(c)
    BY SMT, <2>1 DEF Invoke, Connect, Request
  <2>2. CASE ConnectFails(c) \/ BadArguments(c)
    BY SMT, <2>2 DEF ConnectFails, BadArguments, Leave
  <2>3. CASE Return(c)
    BY <2>3 DEF Return, Leave
  <2>4. CASE GiveUp(c)
    BY SMT, <2>4 DEF GiveUp, Leave
  <2> QED
    BY <1>1, <2>1, <2>2, <2>3, <2>4 DEF Caller
<1>2. ASSUME NEW c \in Calls, Serve(c) \/ TakeLock(c) \/ Sleep(c) PROVE CInv'
  BY SMT, <1>2, DispatchEffect DEF CInv, CallerTypes, CallerInv
<1>3. ASSUME NEW c \in Calls, Execute(c) PROVE CInv'
  BY SMT, <1>3, ExecuteEffect DEF CInv, CallerTypes, CallerInv
<1>4. CASE ServerStep \/ UNCHANGED controlVars
  BY <1>4, ServerEffect DEF CInv, CallerTypes, CallerInv
<1> QED
  BY <1>1, <1>2, <1>3, <1>4 DEF ControlNext

LEMMA CallersInvariant == ControlSpec => []CInv
<1>1. ControlInit => CInv
  BY SMT DEF ControlInit, Init, CInv, CallerTypes, CallerInv
<1> QED
  BY <1>1, CallersStep, PTL DEF ControlSpec

\* Locks, late handlers, deadlines and lost connections add up to a service
\* that executes a request at most once and answers "ok" only for one that was
\* executed: Control implements AtMostOnce.
THEOREM ImplementsAtMostOnce == ControlSpec => AnswersAtMostOnce
<1>1. ControlInit => Once!Init
  BY DEF ControlInit, Init, Once!Init
<1>2. CInv /\ [ControlNext]_controlVars => [Once!Next]_(Once!vars)
  <2> DEFINE Executed == [c \in Calls |-> call[c] = "done"]
  <2> SUFFICES ASSUME CInv, [ControlNext]_controlVars
               PROVE  Once!Next \/ UNCHANGED <<Executed, answer>>
    BY DEF Once!vars
  <2>1. ASSUME NEW c \in Calls, Caller(c)
        PROVE  Once!Next \/ UNCHANGED <<Executed, answer>>
    <3>1. CASE Invoke(c) \/ Connect(c) \/ Request(c)
      BY <3>1 DEF Invoke, Connect, Request, vars
    <3>2. CASE ConnectFails(c) \/ BadArguments(c)
      <4>1. Once!Answer(c, "refused")
        BY ZenonT(60), <3>2 DEF ConnectFails, BadArguments, Leave, Once!Answer, CInv, CallerInv, vars
      <4> QED
        BY <4>1 DEF Once!Next
    <3>3. CASE Return(c)
      <4>1. Once!Answer(c, reply[c]) /\ reply[c] \in {"ok", "error"}
        BY <3>3 DEF Return, Leave, Once!Answer, CInv, CallerInv, vars
      <4> QED
        BY <4>1 DEF Once!Next
    <3>4. CASE GiveUp(c)
      <4>1. Once!Answer(c, "error")
        BY <3>4 DEF GiveUp, Leave, Once!Answer, CInv, CallerInv, vars
      <4> QED
        BY <4>1 DEF Once!Next
    <3> QED
      BY <2>1, <3>1, <3>2, <3>3, <3>4 DEF Caller
  <2>2. ASSUME NEW c \in Calls, Serve(c) \/ TakeLock(c) \/ Sleep(c)
        PROVE  UNCHANGED <<Executed, answer>>
    BY SMT, <2>2, DispatchEffect DEF CInv, CallerTypes
  <2>3. ASSUME NEW c \in Calls, Execute(c)
        PROVE  Once!Execute(c)
    <3>1. /\ call[c] \in {"dispatched", "reading", "locked"}
          /\ call' = [call EXCEPT ![c] = "done"]
          /\ answer' = answer
      BY <2>3, ExecuteEffect
    <3>2. ~Executed[c] /\ answer[c] # "refused"
      BY <3>1 DEF CInv, CallerInv
    <3>3. Executed' = [Executed EXCEPT ![c] = TRUE]
      BY <3>1 DEF CInv, CallerTypes
    <3> QED
      BY <3>1, <3>2, <3>3 DEF Once!Execute
  <2>4. CASE ServerStep \/ UNCHANGED controlVars
    BY <2>4, ServerEffect
  <2> QED
    BY <2>1, <2>2, <2>3, <2>4 DEF ControlNext, Once!Next
<1> QED
  BY <1>1, <1>2, CallersInvariant, PTL DEF ControlSpec, AnswersAtMostOnce, Once!Spec

-----------------------------------------------------------------------------
(* What a shutdown leaves behind *)

\* What a step may do once Run has returned and has stopped the gRPC server:
\* no request is dispatched and none is executed again; the network changes
\* only when a handler that was dispatched before releases s.mu, and only one
\* that creates a network (Start, LoadSnapshot) brings one up.
LateHandlersOnly ==
  run = "done" /\ cause # "grpc" =>
    /\ \A c \in Calls : call[c] \in {"none", "done"} => call'[c] = call[c]
    /\ network' # network => \E c \in Calls : call[c] = "locked" /\ call'[c] = "done"
    /\ ~network /\ network' =>
         \E c \in Calls : call[c] = "locked" /\ handler(c).effect = "create"

\* Run stops the gRPC server unless Serve has failed by itself.
StopInv == run \in {"waitGRPC", "lock", "done"} /\ cause # "grpc" => stopped

\* Commands that are in use are those of cmd/control.
CmdInv == cmd \in [Calls -> Commands \cup {NoCommand}]

Effects == {"none", "keep", "poll", "create", "provision", "stop", "save"}

LEMMA StopStep == TypeOK /\ RunInv /\ StopInv /\ [Next]_vars => StopInv'
<1> SUFFICES ASSUME TypeOK, RunInv, StopInv, [Next]_vars PROVE StopInv'
  OBVIOUS
<1> USE DEF TypeOK, RunInv, StopInv
<1>1. CASE ServeReturns \/ Dialed \/ DialFails \/ ListenReturns \/ RootDone
  BY <1>1 DEF ServeReturns, Dialed, DialFails, ListenReturns, RootDone
<1>2. CASE SelectRoot \/ SelectGRPC \/ SelectGateway
  BY <1>2 DEF SelectRoot, SelectGRPC, SelectGateway
<1>3. CASE CloseGw \/ ReceiveGw \/ StopGRPC \/ ReceiveGRPC
  BY <1>3 DEF CloseGw, ReceiveGw, StopGRPC, ReceiveGRPC, AfterGw
<1>4. CASE Finish
  BY <1>4 DEF Finish
<1>5. ASSUME NEW c \in Calls, Handler(c) PROVE StopInv'
  BY <1>5 DEF Handler, Dispatch, HandlerLocks, HandlerRLocks, HandlerSleeps, ReaderDone, HandlerDone
<1>6. CASE UNCHANGED vars
  BY <1>6 DEF vars
<1> QED
  BY <1>1, <1>2, <1>3, <1>4, <1>5, <1>6 DEF Next, RunStep

LEMMA StopInvariant == Spec => []StopInv
<1>1. Init => StopInv
  BY DEF Init, StopInv
<1> QED
  BY <1>1, StopStep, RunInvariant, PTL DEF Spec

LEMMA CmdStep == CmdInv /\ [ControlNext]_controlVars => CmdInv'
<1> SUFFICES ASSUME CmdInv, [ControlNext]_controlVars PROVE CmdInv'
  OBVIOUS
<1>1. ASSUME NEW c \in Calls, Invoke(c) PROVE CmdInv'
  <2>1. PICK use \in Uses[c] : cmd' = [cmd EXCEPT ![c] = use[2]]
    BY <1>1 DEF Invoke
  <2>2. use[2] \in Commands
    BY SMT, UsesAssumption
  <2> QED
    BY <2>1, <2>2 DEF CmdInv
<1>2. ASSUME NEW c \in Calls, Caller(c), ~Invoke(c) PROVE cmd' = cmd
  BY <1>2 DEF Caller, Connect, ConnectFails, BadArguments, Request, Return, GiveUp, Leave
<1>3. ASSUME NEW c \in Calls, Serve(c) \/ TakeLock(c) \/ Sleep(c) \/ Execute(c)
      PROVE  cmd' = cmd
  BY <1>3 DEF Serve, TakeLock, Sleep, Execute, callerVars
<1>4. CASE ServerStep \/ UNCHANGED controlVars
  BY <1>4 DEF ServerStep, controlVars, callerVars, CmdInv
<1> QED
  BY <1>1, <1>2, <1>3, <1>4 DEF ControlNext, CmdInv

LEMMA CmdInvariant == ControlSpec => []CmdInv
<1>1. ControlInit => CmdInv
  BY DEF ControlInit, CmdInv
<1> QED
  BY <1>1, CmdStep, PTL DEF ControlSpec

LEMMA EffectOf ==
  ASSUME CmdInv, NEW c \in Calls
  PROVE  handler(c).effect \in Effects
BY SMT DEF CmdInv, handler, Effects, Commands, NoCommand, Command, Handles, Answers, Reads, Polls,
       Creates, Provisions, Changes, Stops, Saves, Awaits, Attaches, pingFunc, RPCVersionFunc, startFunc,
       createBlockchainsFunc, createSubnetsFunc, transformElasticSubnetsFunc,
       addPermissionlessValidatorFunc, removeSubnetValidatorFunc, healthFunc, waitForHealthy,
       urisFunc, statusFunc, addNodeFunc, removeNodeFunc, pauseNodeFunc, resumeNodeFunc,
       restartNodeFunc, attachPeerFunc, sendOutboundMessageFunc, stopFunc, saveSnapshotFunc,
       loadSnapshotFunc, removeSnapshotFunc, getSnapshotNamesFunc

\* Only "create" ends with a network where there was none.
LEMMA OnlyCreates ==
  ASSUME NEW effect \in Effects, NEW o \in Outcomes(effect, FALSE), o.up
  PROVE  effect = "create"
BY DEF Effects, Outcomes

\* A shutdown after a signal, or after the gateway has failed, is final but for
\* the handlers that were dispatched before gRPCServer.Stop, which does not wait
\* for them.  The network that NoNetworkAfterSignal finds was started by one of
\* these, and when none is left there is none to come.
THEOREM ShutdownFinal == ControlSpec => [][LateHandlersOnly]_controlVars
<1>1. TypeOK /\ StopInv /\ CmdInv /\ [ControlNext]_controlVars
        => [LateHandlersOnly]_controlVars
  <2> SUFFICES ASSUME TypeOK, StopInv, CmdInv, ControlNext, run = "done", cause # "grpc"
               PROVE  LateHandlersOnly
    BY DEF LateHandlersOnly
  <2>1. stopped
    BY DEF StopInv
  <2>2. ASSUME NEW c \in Calls, Caller(c) PROVE LateHandlersOnly
    BY <2>2, CallerSteps DEF LateHandlersOnly, vars
  <2>3. CASE ServerStep
    BY <2>3, ServerEffect DEF LateHandlersOnly, ServerStep, ServeReturns, Dialed, DialFails,
       ListenReturns, RunStep, SelectRoot, SelectGRPC, SelectGateway, CloseGw, ReceiveGw,
       StopGRPC, ReceiveGRPC, Finish, RootDone
  <2>4. ASSUME NEW c \in Calls, Serve(c) \/ TakeLock(c) \/ Sleep(c)
        PROVE  LateHandlersOnly
    BY <2>1, <2>4 DEF TypeOK, LateHandlersOnly, Serve, TakeLock, Sleep, Dispatch,
       HandlerLocks, HandlerRLocks, HandlerSleeps
  <2>5. ASSUME NEW c \in Calls, Execute(c) PROVE LateHandlersOnly
    <3>1. PICK o \in Outcomes(handler(c).effect, network) :
            HandlerDone(c, o.up) \/ ReaderDone(c)
      BY <2>5 DEF Execute
    <3>2. CASE ReaderDone(c)
      BY <3>2 DEF ReaderDone, LateHandlersOnly, TypeOK
    <3>3. CASE HandlerDone(c, o.up)
      <4>1. \A d \in Calls : call[d] \in {"none", "done"} => call'[d] = call[d]
        BY <3>3 DEF HandlerDone, TypeOK
      <4>2. call[c] = "locked" /\ call'[c] = "done" /\ network' = o.up
        BY <3>3 DEF HandlerDone, TypeOK
      <4>3. ASSUME ~network, network' PROVE handler(c).effect = "create"
        <5>1. network = FALSE
          BY <4>3 DEF TypeOK
        <5>2. o \in Outcomes(handler(c).effect, FALSE) /\ o.up
          BY <4>2, <4>3, <5>1
        <5> QED
          BY <5>2, EffectOf, OnlyCreates
      <4> QED
        BY <4>1, <4>2, <4>3 DEF LateHandlersOnly
    <3> QED
      BY <3>1, <3>2, <3>3
  <2> QED
    BY <2>2, <2>3, <2>4, <2>5 DEF ControlNext
<1> QED
  BY <1>1, StopInvariant, CmdInvariant, RunInvariant, ComposesWithRun, PTL DEF ControlSpec

=============================================================================
