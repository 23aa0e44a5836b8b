------------------------------- MODULE Control ------------------------------
(***************************************************************************)
(* The callers of the control service: the commands of cmd/control over    *)
(* the client library, HTTP requests through the gateway, and programs     *)
(* that use the client library themselves; composed with ServerRun, which  *)
(* dispatches their requests and may be shutting down.                     *)
(*                                                                         *)
(* A command is what cmd/control does for it: whether it parses arguments  *)
(* once it is connected, and the handler its RPC reaches.  A handler is    *)
(* the lock it takes, what bounds the time it holds it (a timeout of the   *)
(* server, the context of the caller, or only the node it talks to) and    *)
(* its effect on the network.  Commands that agree in all of this are the  *)
(* same to the model.                                                      *)
(***************************************************************************)
EXTENDS ServerRun

CONSTANT
  Uses      \* Uses[c]: the ways to reach the server and the commands c may use

VARIABLES
  pc,       \* the caller: "idle", "dial", "ready", "wait", "done"
  via,      \* how the caller reaches the server
  cmd,      \* the command it runs
  gaveUp,   \* the caller left before the answer came
  reply,    \* what the handler returned and the caller has not got: "none", "ok", "error"
  answer    \* what the caller got: "none", "ok", "error", "refused"

callerVars == <<pc, via, cmd, gaveUp, reply, answer>>
controlVars == <<vars, callerVars>>

-----------------------------------------------------------------------------
(* The handlers of server/server.go *)

Handles(lock, bound, effect) == [lock |-> lock, bound |-> bound, effect |-> effect]

Answers == Handles("none", "server", "none")
Reads == Handles("read", "server", "keep")
Polls == Handles("read", "server", "poll")
Creates == Handles("write", "server", "create")
Provisions == Handles("write", "server", "provision")
Changes == Handles("write", "server", "keep")
Stops == Handles("write", "server", "stop")
Saves == Handles("write", "server", "save")

\* Health, RemoveNode, PauseNode, RestartNode and SendOutboundMessage: healthy,
\* process.Stop and Send wait until the context of the caller is done.
Awaits == Handles("write", "caller", "keep")

\* AttachPeer: the upgrade of the connection to TLS looks at no context and has
\* no deadline; it ends when the node answers or closes the connection.
Attaches == Handles("write", "node", "keep")

\* What a handler that finds the network up, or not, leaves and returns.
Outcomes(effect, up) ==
  {o \in [up : BOOLEAN, reply : {"ok", "error"}] :
     LET ok == o.reply = "ok"
     IN /\ effect = "create" => IF up THEN o.up /\ ~ok ELSE ok => o.up
        /\ effect = "provision" => IF up THEN ok => o.up ELSE ~o.up /\ ~ok
        /\ effect = "keep" => (o.up <=> up) /\ (ok => up)
        /\ effect = "poll" => (o.up <=> up)
        /\ effect = "save" => (ok => up) /\ (o.up <=> up /\ ~ok)
        /\ effect = "stop" => ~o.up /\ ok
        /\ effect = "none" => (o.up <=> up) /\ ok}

-----------------------------------------------------------------------------
(* The commands of cmd/control/control.go and cmd/ping *)

Command(parses, handler) == [parses |-> parses, handler |-> handler]

pingFunc == Command(FALSE, Answers)
RPCVersionFunc == Command(FALSE, Answers)
startFunc == Command(TRUE, Creates)
createBlockchainsFunc == Command(TRUE, Provisions)
createSubnetsFunc == Command(TRUE, Provisions)
transformElasticSubnetsFunc == Command(TRUE, Changes)
addPermissionlessValidatorFunc == Command(TRUE, Changes)
removeSubnetValidatorFunc == Command(TRUE, Changes)
healthFunc == Command(FALSE, Awaits)
waitForHealthy == Command(FALSE, Polls)
urisFunc == Command(FALSE, Reads)
statusFunc == Command(FALSE, Reads)
removeNodeFunc == Command(FALSE, Awaits)
pauseNodeFunc == Command(FALSE, Awaits)
resumeNodeFunc == Command(FALSE, Changes)
addNodeFunc == Command(TRUE, Changes)
restartNodeFunc == Command(TRUE, Awaits)
attachPeerFunc == Command(FALSE, Attaches)
sendOutboundMessageFunc == Command(TRUE, Awaits)
stopFunc == Command(FALSE, Stops)
saveSnapshotFunc == Command(FALSE, Saves)
loadSnapshotFunc == Command(TRUE, Creates)
removeSnapshotFunc == Command(FALSE, Changes)
getSnapshotNamesFunc == Command(FALSE, Reads)

\* All of them but stream-status, which is in module StreamClient.
Commands ==
  {pingFunc, RPCVersionFunc, startFunc, createBlockchainsFunc, createSubnetsFunc,
   transformElasticSubnetsFunc, addPermissionlessValidatorFunc,
   removeSubnetValidatorFunc, healthFunc, waitForHealthy, urisFunc, statusFunc,
   addNodeFunc, removeNodeFunc, pauseNodeFunc, resumeNodeFunc, restartNodeFunc,
   attachPeerFunc, sendOutboundMessageFunc, stopFunc, saveSnapshotFunc,
   loadSnapshotFunc, removeSnapshotFunc, getSnapshotNamesFunc}

ASSUME UsesAssumption ==
  Uses \in [Calls -> SUBSET ({"cli", "http", "lib"} \X Commands)]

NoCommand == Command(FALSE, Answers)

ControlInit ==
  /\ Init
  /\ pc = [c \in Calls |-> "idle"]
  /\ via = [c \in Calls |-> "cli"]
  /\ cmd = [c \in Calls |-> NoCommand]
  /\ gaveUp = [c \in Calls |-> FALSE]
  /\ reply = [c \in Calls |-> "none"]
  /\ answer = [c \in Calls |-> "none"]

-----------------------------------------------------------------------------
(* The callers *)

Invoke(c) ==
  /\ pc[c] = "idle"
  /\ pc' = [pc EXCEPT ![c] = "dial"]
  /\ \E use \in Uses[c] : /\ via' = [via EXCEPT ![c] = use[1]]
                          /\ cmd' = [cmd EXCEPT ![c] = use[2]]
  /\ UNCHANGED <<gaveUp, reply, answer, vars>>

\* The server, or the gateway in front of it, accepts connections.
Accepts(way) ==
  /\ grpc = "serving" /\ ~stopped
  /\ way = "http" => gw = "listen" /\ ~gwClosed

Connect(c) ==
  /\ pc[c] = "dial"
  /\ Accepts(via[c])
  /\ pc' = [pc EXCEPT ![c] = "ready"]
  /\ UNCHANGED <<via, cmd, gaveUp, reply, answer, vars>>

\* The caller leaves with this answer and closes its connection.
Leave(c, result) ==
  /\ pc' = [pc EXCEPT ![c] = "done"]
  /\ answer' = [answer EXCEPT ![c] = result]
  /\ UNCHANGED <<via, cmd, vars>>

\* The log cannot be set up, or nobody accepts the connection in DialTimeout.
ConnectFails(c) ==
  /\ pc[c] = "dial"
  /\ Leave(c, "refused")
  /\ UNCHANGED <<gaveUp, reply>>

\* An argument, or the body of an HTTP request, is not what it should be.
BadArguments(c) ==
  /\ pc[c] = "ready"
  /\ cmd[c].parses \/ via[c] = "http"
  /\ Leave(c, "refused")
  /\ UNCHANGED <<gaveUp, reply>>

Request(c) ==
  /\ pc[c] = "ready"
  /\ pc' = [pc EXCEPT ![c] = "wait"]
  /\ UNCHANGED <<via, cmd, gaveUp, reply, answer, vars>>

\* Faulty variant of Return.
Return_OnDispatch(c) ==
  /\ pc[c] = "wait"
  /\ call[c] # "none"
  /\ Leave(c, "ok")
  /\ UNCHANGED <<gaveUp, reply>>

Return(c) ==
  /\ pc[c] = "wait"
  /\ call[c] = "done"
  /\ Leave(c, reply[c])
  /\ reply' = [reply EXCEPT ![c] = "none"]
  /\ UNCHANGED gaveUp

\* The connection of the caller was closed by the server.
Severed(c) ==
  \/ stopped
  \/ run = "done"
  \/ via[c] = "http" /\ gwClosed

\* The deadline of the context has passed, the HTTP client or the program gave
\* up, or the connection is lost.
GiveUp(c) ==
  /\ pc[c] = "wait"
  /\ Leave(c, "error")
  /\ gaveUp' = [gaveUp EXCEPT ![c] = TRUE]
  /\ reply' = [reply EXCEPT ![c] = "none"]

\* Faulty variant of GiveUpInTime.
GiveUpInTime_NoDeadline(c) == GiveUp(c) /\ Severed(c)

\* context.WithTimeout: a command does not wait longer than requestTimeout.
GiveUpInTime(c) == GiveUp(c) /\ (via[c] = "cli" \/ Severed(c))

Proceed(c) ==
  \/ Connect(c) \/ ConnectFails(c) \/ BadArguments(c) \/ Request(c) \/ GiveUpInTime(c)

Caller(c) ==
  \/ Invoke(c) \/ Connect(c) \/ ConnectFails(c) \/ BadArguments(c)
  \/ Request(c) \/ Return(c) \/ GiveUp(c)

-----------------------------------------------------------------------------
(* The handlers, as steps of ServerRun *)

handler(c) == cmd[c].handler

\* A request that was sent reaches its handler even if the caller has left.
Serve(c) ==
  /\ pc[c] = "wait" \/ gaveUp[c]
  /\ Dispatch(c)
  /\ UNCHANGED callerVars

TakeLock(c) ==
  /\ \/ handler(c).lock = "write" /\ HandlerLocks(c)
     \/ handler(c).lock = "read" /\ HandlerRLocks(c)
  /\ UNCHANGED callerVars

Sleep(c) ==
  /\ handler(c).effect = "poll"
  /\ HandlerSleeps(c)
  /\ UNCHANGED callerVars

\* The handler does its work, whatever became of the caller, and returns; what
\* it returns to a caller that left is dropped.
Execute(c) ==
  \E o \in Outcomes(handler(c).effect, network) :
    /\ \/ handler(c).lock = "write" /\ HandlerDone(c, o.up)
       \/ handler(c).lock = "read" /\ call[c] = "reading" /\ ReaderDone(c)
       \/ handler(c).lock = "none" /\ ReaderDone(c)
    /\ reply' = [reply EXCEPT ![c] = IF gaveUp[c] THEN @ ELSE o.reply]
    /\ UNCHANGED <<pc, via, cmd, gaveUp, answer>>

ServerStep ==
  /\ ServeReturns \/ Dialed \/ DialFails \/ ListenReturns
     \/ RunStep \/ Finish \/ RootDone
  /\ UNCHANGED callerVars

ControlNext ==
  \/ ServerStep
  \/ \E c \in Calls : \/ Caller(c)
                      \/ Serve(c) \/ TakeLock(c) \/ Sleep(c) \/ Execute(c)

ControlSpec == ControlInit /\ [][ControlNext]_controlVars

\* The context that the handler was given is done.
CtxDone(c) == gaveUp[c] \/ Severed(c)

\* Faulty variant of ExecuteInTime.
ExecuteInTime_IgnoresCaller(c) == Execute(c) /\ handler(c).bound = "server"

\* Every wait of a handler but AttachPeer's ends with a timeout of its own or
\* with the context of the caller.
ExecuteInTime(c) ==
  /\ Execute(c)
  /\ \/ handler(c).bound = "server"
     \/ handler(c).bound = "caller" /\ CtxDone(c)

(***************************************************************************)
(* A caller goes on until it waits for the answer; a command of the CLI,   *)
(* and a caller whose connection was closed, does not wait for ever.  A    *)
(* handler that holds s.mu ends if a timeout of the server bounds it, or   *)
(* once the context of its caller is done.  Nothing else is assumed of     *)
(* callers, nothing of the nodes, and nothing of the order in which s.mu   *)
(* is handed out.                                                          *)
(***************************************************************************)
ControlFairness ==
  /\ RunFairness
  /\ \A c \in Calls : WF_controlVars(Proceed(c)) /\ SF_controlVars(ExecuteInTime(c))

ControlFairSpec == ControlSpec /\ ControlFairness

-----------------------------------------------------------------------------
(* Properties *)

\* The service, with its lock, its late handlers and its callers that time out
\* or lose their connections, is what AtMostOnce promises a caller.
Once == INSTANCE AtMostOnce
          WITH executed <- [c \in Calls |-> call[c] = "done"],
               answer <- answer
AnswersAtMostOnce == Once!Spec

\* A command of the CLI returns, even if the server never answers it: dialing
\* and every request have a deadline.
CommandReturns ==
  \A c \in Calls : pc[c] = "dial" /\ via[c] = "cli" ~> pc[c] = "done"

\* AttachPeer holds s.mu and waits for the node.
Attaching(c) == call[c] = "locked" /\ handler(c).bound = "node"

\* A signal, or the failure of one of the two servers, ends Run, although
\* handlers hold s.mu for as long as the context of their caller lets them:
\* closing the connections ends these contexts.  It takes that no node leaves
\* AttachPeer waiting for ever, which nothing in the server can end.  The one
\* exception is a Serve that fails by itself, which leaves the connections of
\* the client library open: a program that waits without a deadline keeps Run
\* waiting.
RunReturns ==
  (\A c \in Calls : []<>~Attaching(c)) =>
    (root \/ grpc = "returned" \/ gw = "returned" ~>
       \/ run = "done"
       \/ cause = "grpc" /\ \E c \in Calls : via[c] = "lib" /\ pc[c] = "wait")

\* Shutting down leaves no caller waiting for an answer that does not come, not
\* even an HTTP client without a deadline.
ShutdownReleases ==
  run # "select" ~> \A c \in Calls : via[c] # "lib" => pc[c] # "wait"

=============================================================================
