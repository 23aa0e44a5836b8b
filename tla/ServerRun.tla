------------------------------ MODULE ServerRun -----------------------------
(***************************************************************************)
(* Run of server/server.go, under serverFunc of cmd/server: the goroutine  *)
(* that serves gRPC, the one that dials it and serves the HTTP gateway,    *)
(* the shutdown when the root context ends or one of them fails, and the   *)
(* handlers that compete for s.mu with it.                                 *)
(*                                                                         *)
(* gRPCErrChan and gwErrChan are unbuffered: a send and its receive are    *)
(* one step.  gRPC is external: Stop ends Serve, closes every connection   *)
(* and dispatches no more calls, but does not wait for handlers that were  *)
(* dispatched; a Serve that fails on its own closes only the listener.     *)
(***************************************************************************)
EXTENDS Naturals

CONSTANT
  Calls     \* the RPCs

VARIABLES
  run,      \* Run: "select", "closeGw", "waitGw", "stopGRPC", "waitGRPC", "lock", "done"
  cause,    \* what ended the select: "none", "root", "grpc", "gateway"
  root,     \* rootCtx is done
  grpc,     \* the gRPC goroutine: "serving", "returned", "done"
  gw,       \* the gateway goroutine: "off", "dial", "listen", "returned", "done"
  gwClosed, \* s.gwServer.Close was called
  stopped,  \* s.gRPCServer.Stop was called
  call,     \* call[c]: "none", "dispatched", "reading", "locked", "done"
  network   \* s.network is not nil: luxd processes run

vars == <<run, cause, root, grpc, gw, gwClosed, stopped, call, network>>

TypeOK ==
  /\ run \in {"select", "closeGw", "waitGw", "stopGRPC", "waitGRPC", "lock", "done"}
  /\ cause \in {"none", "root", "grpc", "gateway"}
  /\ root \in BOOLEAN
  /\ grpc \in {"serving", "returned", "done"}
  /\ gw \in {"off", "dial", "listen", "returned", "done"}
  /\ gwClosed \in BOOLEAN
  /\ stopped \in BOOLEAN
  /\ call \in [Calls -> {"none", "dispatched", "reading", "locked", "done"}]
  /\ network \in BOOLEAN

Init ==
  /\ run = "select"
  /\ cause = "none"
  /\ root = FALSE
  /\ grpc = "serving"
  /\ gw \in {"off", "dial"}
  /\ gwClosed = FALSE
  /\ stopped = FALSE
  /\ call = [c \in Calls |-> "none"]
  /\ network = FALSE

\* s.cfg.GwDisabled: no gateway goroutine is started.
GwDisabled == gw = "off"

-----------------------------------------------------------------------------
(* The gRPC goroutine *)

\* Serve returns: Stop was called, or accepting connections failed.
ServeReturns ==
  /\ grpc = "serving"
  /\ grpc' = "returned"
  /\ UNCHANGED <<run, cause, root, gw, gwClosed, stopped, call, network>>

(* The gateway goroutine *)

Dialed ==
  /\ gw = "dial"
  /\ grpc = "serving"
  /\ gw' = "listen"
  /\ UNCHANGED <<run, cause, root, grpc, gwClosed, stopped, call, network>>

\* DialTimeout passed or the root context is done.
DialFails ==
  /\ gw = "dial"
  /\ gw' = "returned"
  /\ UNCHANGED <<run, cause, root, grpc, gwClosed, stopped, call, network>>

\* ListenAndServe returns: the server was closed, even before the call, or the
\* port could not be served.
ListenReturns ==
  /\ gw = "listen"
  /\ gw' = "returned"
  /\ UNCHANGED <<run, cause, root, grpc, gwClosed, stopped, call, network>>

-----------------------------------------------------------------------------
(* Run *)

AfterGw == IF cause = "root" THEN "stopGRPC" ELSE "lock"

SelectRoot ==
  /\ run = "select"
  /\ root
  /\ cause' = "root"
  /\ run' = IF GwDisabled THEN "stopGRPC" ELSE "closeGw"
  /\ UNCHANGED <<root, grpc, gw, gwClosed, stopped, call, network>>

\* Faulty variant of SelectGRPC.
SelectGRPC_KeepsGateway ==
  /\ run = "select"
  /\ grpc = "returned"
  /\ grpc' = "done"
  /\ cause' = "grpc"
  /\ run' = "lock"
  /\ UNCHANGED <<root, gw, gwClosed, stopped, call, network>>

SelectGRPC ==
  /\ run = "select"
  /\ grpc = "returned"
  /\ grpc' = "done"
  /\ cause' = "grpc"
  /\ run' = IF GwDisabled THEN "lock" ELSE "closeGw"
  /\ UNCHANGED <<root, gw, gwClosed, stopped, call, network>>

SelectGateway ==
  /\ run = "select"
  /\ gw = "returned"
  /\ gw' = "done"
  /\ cause' = "gateway"
  /\ run' = "stopGRPC"
  /\ UNCHANGED <<root, grpc, gwClosed, stopped, call, network>>

\* Faulty variant of CloseGw.
CloseGw_WaitsForCallers ==
  /\ run = "closeGw"
  /\ run' = "waitGw"
  /\ UNCHANGED <<cause, root, grpc, gw, gwClosed, stopped, call, network>>

CloseGw ==
  /\ run = "closeGw"
  /\ gwClosed' = TRUE
  /\ run' = "waitGw"
  /\ UNCHANGED <<cause, root, grpc, gw, stopped, call, network>>

ReceiveGw ==
  /\ run = "waitGw"
  /\ gw = "returned"
  /\ gw' = "done"
  /\ run' = AfterGw
  /\ UNCHANGED <<cause, root, grpc, gwClosed, stopped, call, network>>

StopGRPC ==
  /\ run = "stopGRPC"
  /\ stopped' = TRUE
  /\ run' = "waitGRPC"
  /\ UNCHANGED <<cause, root, grpc, gw, gwClosed, call, network>>

ReceiveGRPC ==
  /\ run = "waitGRPC"
  /\ grpc = "returned"
  /\ grpc' = "done"
  /\ run' = "lock"
  /\ UNCHANGED <<cause, root, gw, gwClosed, stopped, call, network>>

\* s.mu.Lock(), stopAndRemoveNetwork if there is a network, rootCancel, return.
Finish ==
  /\ run = "lock"
  /\ \A c \in Calls : call[c] \notin {"reading", "locked"}
  /\ network' = FALSE
  /\ root' = TRUE
  /\ run' = "done"
  /\ UNCHANGED <<cause, grpc, gw, gwClosed, stopped, call>>

-----------------------------------------------------------------------------
(* The root context (SIGINT, SIGTERM) and the handlers *)

RootDone ==
  /\ ~root
  /\ root' = TRUE
  /\ UNCHANGED <<run, cause, grpc, gw, gwClosed, stopped, call, network>>

Dispatch(c) ==
  /\ call[c] = "none"
  /\ ~stopped
  /\ call' = [call EXCEPT ![c] = "dispatched"]
  /\ UNCHANGED <<run, cause, root, grpc, gw, gwClosed, stopped, network>>

\* s.mu.Lock()
HandlerLocks(c) ==
  /\ call[c] = "dispatched"
  /\ \A d \in Calls : call[d] \notin {"reading", "locked"}
  /\ call' = [call EXCEPT ![c] = "locked"]
  /\ UNCHANGED <<run, cause, root, grpc, gw, gwClosed, stopped, network>>

\* s.mu.RLock()
HandlerRLocks(c) ==
  /\ call[c] = "dispatched"
  /\ \A d \in Calls : call[d] # "locked"
  /\ call' = [call EXCEPT ![c] = "reading"]
  /\ UNCHANGED <<run, cause, root, grpc, gw, gwClosed, stopped, network>>

\* WaitForHealthy unlocks and sleeps before it looks again.
HandlerSleeps(c) ==
  /\ call[c] = "reading"
  /\ call' = [call EXCEPT ![c] = "dispatched"]
  /\ UNCHANGED <<run, cause, root, grpc, gw, gwClosed, stopped, network>>

\* The handler started a network, kept it or removed it, and unlocks s.mu.
HandlerDone(c, up) ==
  /\ call[c] = "locked"
  /\ network' = up
  /\ call' = [call EXCEPT ![c] = "done"]
  /\ UNCHANGED <<run, cause, root, grpc, gw, gwClosed, stopped>>

\* A handler that took the read lock, or none, leaves the network alone.
ReaderDone(c) ==
  /\ call[c] \in {"dispatched", "reading"}
  /\ call' = [call EXCEPT ![c] = "done"]
  /\ UNCHANGED <<run, cause, root, grpc, gw, gwClosed, stopped, network>>

Handler(c) ==
  \/ Dispatch(c) \/ HandlerLocks(c) \/ HandlerRLocks(c) \/ HandlerSleeps(c)
  \/ ReaderDone(c) \/ \E up \in BOOLEAN : HandlerDone(c, up)

ServeEnds == stopped /\ ServeReturns
GatewayEnds == DialFails \/ (gwClosed /\ ListenReturns)
RunStep ==
  \/ SelectRoot \/ SelectGRPC \/ SelectGateway
  \/ CloseGw \/ ReceiveGw \/ StopGRPC \/ ReceiveGRPC

Next ==
  \/ ServeReturns \/ Dialed \/ DialFails \/ ListenReturns
  \/ RunStep \/ Finish
  \/ RootDone
  \/ \E c \in Calls : Handler(c)

Spec == Init /\ [][Next]_vars

(***************************************************************************)
(* Run goes on; Serve returns after Stop; dialing ends (it has a timeout); *)
(* a gateway that was closed returns; Run gets s.mu among the competitors. *)
(* Neither a signal nor a failure is assumed to come.  That a handler      *)
(* gives up s.mu is not assumed here: it depends on its context, and so on *)
(* the caller (module Control).                                            *)
(***************************************************************************)
RunFairness ==
  /\ WF_vars(RunStep) /\ SF_vars(Finish)
  /\ WF_vars(ServeEnds) /\ WF_vars(GatewayEnds)

FairSpec == Spec /\ RunFairness

-----------------------------------------------------------------------------
(* Properties *)

\* When Run returns, neither goroutine is left blocked on its error channel,
\* whichever of the three events came first and whatever happened meanwhile.
NoBlockedSender ==
  run = "done" => grpc = "done" /\ gw \in {"off", "done"}

-----------------------------------------------------------------------------
(* What the code says and does not do.                                      *)

\* serverFunc: "Got a SIGINT or SIGTERM; stop the server and wait for it to
\* finish."
NoNetworkAfterSignal == run = "done" /\ cause = "root" => ~network

=============================================================================
