---------------------------- MODULE StreamClient ----------------------------
(***************************************************************************)
(* The stream-status command against the server's StreamStatus handler:    *)
(* streamStatusFunc ranges over the channel of client.StreamStatus, whose  *)
(* receive routine takes the messages off the stream, while a watcher      *)
(* goroutine waits for a signal or the request timeout.  The command's     *)
(* stream, Cli, is the only one that is opened here; several streams, with *)
(* clients of which nothing is known, are what StreamStatus is about.      *)
(*                                                                         *)
(* The generated stub sends the one request and closes its side, so the    *)
(* server's recvLoop sees the end of the requests at once and sendLoop     *)
(* goes on alone.                                                          *)
(***************************************************************************)
EXTENDS StreamStatus

CONSTANT Cli  \* the stream of the command

ASSUME CliAssumption == Cli \in Streams

VARIABLES
  cli,      \* streamStatusFunc: "idle", "call", "range", "join", "done"
  watcher,  \* its goroutine: "off", "select", "done" (donec is closed)
  routine,  \* the receive routine: "off", "check", "recv", "push", "done"
  ch,       \* updates in the channel, which is closed when routine = "done"
  over,     \* the command's context is done
  sig       \* a signal waits in sigc

clientVars == <<cli, watcher, routine, ch, over, sig>>
allVars == <<vars, clientVars>>

ClientInit ==
  /\ Init
  /\ cli = "idle" /\ watcher = "off" /\ routine = "off"
  /\ ch = 0 /\ over = FALSE /\ sig = FALSE

-----------------------------------------------------------------------------
(* streamStatusFunc *)

\* newClient has connected; signal.Notify; the watcher is started.
Begin ==
  /\ cli = "idle"
  /\ cli' = "call" /\ watcher' = "select"
  /\ UNCHANGED <<routine, ch, over, sig, vars>>

\* The request goes out and the receive routine starts.
CallStream ==
  /\ cli = "call" /\ ~over
  /\ Open(Cli)
  /\ cli' = "range" /\ routine' = "check"
  /\ UNCHANGED <<watcher, ch, over, sig>>

\* cli.StreamStatus returns an error, before or after the stub has opened the
\* stream, and so does the command: cli.Close() is all the server hears of it.
CallFails ==
  /\ cli = "call"
  /\ UNCHANGED vars \/ Open(Cli)
  /\ cli' = "done"
  /\ UNCHANGED <<watcher, routine, ch, over, sig>>

\* --push-interval 0: the request takes the server down.
CallPanics ==
  /\ cli = "call" /\ ~over
  /\ TickPanics(Cli)
  /\ cli' = "range" /\ routine' = "check"
  /\ UNCHANGED <<watcher, ch, over, sig>>

\* Faulty variant of RangeReads.
RangeReads_Once ==
  /\ cli = "range" /\ ch > 0
  /\ ch' = ch - 1 /\ cli' = "join"
  /\ UNCHANGED <<watcher, routine, over, sig, vars>>

RangeReads ==
  /\ cli = "range" /\ ch > 0
  /\ ch' = ch - 1
  /\ UNCHANGED <<cli, watcher, routine, over, sig, vars>>

\* The channel is closed and empty: cancel().
RangeEnds ==
  /\ cli = "range" /\ ch = 0 /\ routine = "done"
  /\ over' = TRUE
  /\ cli' = "join"
  /\ UNCHANGED <<watcher, routine, ch, sig, vars>>

\* <-donec, and the deferred cli.Close().
Join ==
  /\ cli = "join" /\ watcher = "done"
  /\ cli' = "done"
  /\ UNCHANGED <<watcher, routine, ch, over, sig, vars>>

\* Faulty variant of WatcherWakes.
WatcherWakes_NoCancel ==
  /\ watcher = "select" /\ (sig \/ over)
  /\ watcher' = "done" /\ sig' = FALSE
  /\ UNCHANGED <<cli, routine, ch, over, vars>>

\* The select of the watcher, cancel() and close(donec).
WatcherWakes ==
  /\ watcher = "select" /\ (sig \/ over)
  /\ over' = TRUE
  /\ watcher' = "done" /\ sig' = FALSE
  /\ UNCHANGED <<cli, routine, ch, vars>>

-----------------------------------------------------------------------------
(* The receive routine of client.StreamStatus *)

Leaving == over \/ cli = "done"

\* The select on ctx.Done(), c.closed and default.
Checks ==
  /\ routine = "check"
  /\ routine' = IF Leaving THEN "done" ELSE "recv"
  /\ UNCHANGED <<cli, watcher, ch, over, sig, vars>>

Receives ==
  /\ routine = "recv" /\ ~over
  /\ ClientReads(Cli)
  /\ routine' = "push"
  /\ UNCHANGED <<cli, watcher, ch, over, sig>>

\* RecvMsg fails: the context is done, the connection is gone, or the server
\* has ended the stream and everything it sent is read.
ReceiveFails ==
  /\ routine = "recv"
  /\ \/ over
     \/ ctxDone[Cli] /\ main[Cli] # "done"
     \/ main[Cli] = "done" /\ queued[Cli] = 0
     \/ Panicked
  /\ routine' = "done"
  /\ UNCHANGED <<cli, watcher, ch, over, sig, vars>>

\* ch <- msg.GetClusterInfo(), on a channel with room for one.
Pushes ==
  /\ routine = "push" /\ ch = 0
  /\ ch' = ch + 1
  /\ routine' = "check"
  /\ UNCHANGED <<cli, watcher, over, sig, vars>>

-----------------------------------------------------------------------------
(* The user, the clock and the transport *)

Signal ==
  /\ watcher = "select" /\ ~sig
  /\ sig' = TRUE
  /\ UNCHANGED <<cli, watcher, routine, ch, over, vars>>

\* The request timeout.
Timeout ==
  /\ cli \in {"call", "range"} /\ ~over
  /\ over' = TRUE
  /\ UNCHANGED <<cli, watcher, routine, ch, sig, vars>>

\* The server learns that the command has given up.
Reset == Leaving /\ StreamCancelled(Cli) /\ UNCHANGED clientVars

\* The connection is lost, or the server fails.
Lost == StreamCancelled(Cli) /\ UNCHANGED clientVars

\* gRPCServer.Stop, which Run calls when the root context is done.
ServerStops == root /\ StreamCancelled(Cli) /\ UNCHANGED clientVars

ClientStep ==
  \/ CallStream \/ CallFails \/ CallPanics \/ RangeReads \/ RangeEnds \/ Join
  \/ Checks \/ Receives \/ ReceiveFails \/ Pushes

\* The server's goroutines for the stream, the writer of s.mu and the root
\* context.  The one request was read before the handler was called.
ServerStep ==
  \/ MainStep(Cli) \/ SendStep(Cli) \/ SendRLock(Cli) \/ RecvStep(Cli)
  \/ ~Panicked /\ RecvEOF(Cli)
  \/ WriterAsks \/ WriterLocks \/ WriterUnlocks
  \/ RootDone

ClientNext ==
  \/ Begin \/ ClientStep \/ WatcherWakes \/ Signal \/ Timeout \/ Reset \/ Lost
  \/ ServerStops
  \/ ServerStep /\ UNCHANGED clientVars

ClientSpec == ClientInit /\ [][ClientNext]_allVars

(***************************************************************************)
(* The fairness of StreamStatus; the command's goroutines run; recvLoop is *)
(* told that the client has closed its side; the transport delivers a      *)
(* cancellation; and Run stops the gRPC server after the root context is   *)
(* done.  Neither a signal nor the timeout has to come.                    *)
(***************************************************************************)
ClientFairness ==
  /\ Fairness
  /\ WF_allVars(RangeReads \/ RangeEnds \/ Join) /\ WF_allVars(WatcherWakes)
  /\ WF_allVars(CallStream \/ CallFails \/ CallPanics)
  /\ WF_allVars(Checks \/ Receives \/ ReceiveFails \/ Pushes)
  /\ WF_vars(~Panicked /\ RecvEOF(Cli)) /\ WF_vars(Reset) /\ WF_vars(ServerStops)

ClientFairSpec == ClientSpec /\ ClientFairness

-----------------------------------------------------------------------------
(* Properties *)

\* The command ends when the user interrupts it, and when the server shuts
\* down, although its receive routine may be blocked on the channel or in
\* RecvMsg, nobody waits for that routine by name, and a handler that holds
\* s.mu may keep sendLoop waiting for ever.
StreamCommandEnds ==
  cli = "range" /\ (sig \/ over \/ root) ~> cli = "done"

\* A command that has ended, for whatever reason, leaves neither a handler nor
\* a goroutine of its stream in the server, provided the handlers that hold
\* s.mu end: sendLoop finds out only with its next Send, under that lock.
StreamReleased ==
  WritersEnd =>
    (cli = "done" ~> \/ main[Cli] = "idle" \/ Panicked
                     \/ main[Cli] = "done" /\ recv[Cli] = "done")

\* The command never keeps s.mu from the handlers that change the network, at
\* whatever point it is interrupted: WriterGetsLock without its assumption.
CommandYieldsLock == writer = "wait" ~> writer = "hold" \/ Panicked

=============================================================================
