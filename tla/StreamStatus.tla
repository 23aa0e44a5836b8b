---------------------------- MODULE StreamStatus ----------------------------
(***************************************************************************)
(* StreamStatus of server/server.go: the handler goroutine, its sendLoop,  *)
(* which pushes clusterInfo under the read lock of s.mu at every tick, and *)
(* its recvLoop, for every stream a client has opened; and a handler that  *)
(* wants s.mu for writing.                                                 *)
(*                                                                         *)
(* The transport is the environment: Send blocks while the client does not *)
(* read (Window messages are buffered) and fails once the stream is        *)
(* cancelled, by the client, by a lost connection, by gRPCServer.Stop, or  *)
(* because the handler returned.  sync.RWMutex lets no new reader in while *)
(* a writer waits.  A push interval that is not positive panics the server *)
(* at the first tick; nothing of it runs, and no stream lives, after that. *)
(***************************************************************************)
EXTENDS Naturals

CONSTANTS
  Streams,  \* the streams clients open
  Window    \* messages the transport buffers for a client that does not read

ASSUME WindowAssumption == Window \in Nat \ {0}

VARIABLES
  main,     \* the handler: "idle", "select", "wait" (for sendLoop), "done"
  send,     \* sendLoop: "off", "tick", "lock", "send", "done", "panic"
  recv,     \* recvLoop: "off", "top", "recv", "report", "done"
  errCh,    \* the handler's errCh holds a result
  queued,   \* messages sent that the client has not read
  ctxDone,  \* the context of the stream is done
  root,     \* s.rootCtx is done
  writer    \* the handler that wants s.mu: "idle", "wait", "hold"

vars == <<main, send, recv, errCh, queued, ctxDone, root, writer>>

TypeOK ==
  /\ main \in [Streams -> {"idle", "select", "wait", "done"}]
  /\ send \in [Streams -> {"off", "tick", "lock", "send", "done", "panic"}]
  /\ recv \in [Streams -> {"off", "top", "recv", "report", "done"}]
  /\ errCh \in [Streams -> BOOLEAN]
  /\ queued \in [Streams -> 0..Window]
  /\ ctxDone \in [Streams -> BOOLEAN]
  /\ root \in BOOLEAN
  /\ writer \in {"idle", "wait", "hold"}

Init ==
  /\ main = [s \in Streams |-> "idle"]
  /\ send = [s \in Streams |-> "off"]
  /\ recv = [s \in Streams |-> "off"]
  /\ errCh = [s \in Streams |-> FALSE]
  /\ queued = [s \in Streams |-> 0]
  /\ ctxDone = [s \in Streams |-> FALSE]
  /\ root = FALSE
  /\ writer = "idle"

Reading(s) == send[s] = "send"
Panicked == \E s \in Streams : send[s] = "panic"

-----------------------------------------------------------------------------
(* The handler *)

\* The push interval of the request is positive.
Open(s) ==
  /\ ~Panicked /\ main[s] = "idle"
  /\ main' = [main EXCEPT ![s] = "select"]
  /\ send' = [send EXCEPT ![s] = "tick"]
  /\ recv' = [recv EXCEPT ![s] = "top"]
  /\ UNCHANGED <<errCh, queued, ctxDone, root, writer>>

SelectErr(s) ==
  /\ main[s] = "select"
  /\ errCh[s]
  /\ errCh' = [errCh EXCEPT ![s] = FALSE]
  /\ main' = [main EXCEPT ![s] = "wait"]
  /\ UNCHANGED <<send, recv, queued, ctxDone, root, writer>>

SelectDone(s) ==
  /\ main[s] = "select"
  /\ ctxDone[s]
  /\ main' = [main EXCEPT ![s] = "wait"]
  /\ UNCHANGED <<send, recv, errCh, queued, ctxDone, root, writer>>

\* Faulty variant of Return.
Return_NoWait(s) ==
  /\ main[s] = "wait"
  /\ main' = [main EXCEPT ![s] = "done"]
  /\ ctxDone' = [ctxDone EXCEPT ![s] = TRUE]
  /\ UNCHANGED <<send, recv, errCh, queued, root, writer>>

\* wg.Wait(), return: the server closes the stream.
Return(s) ==
  /\ main[s] = "wait"
  /\ send[s] = "done"
  /\ main' = [main EXCEPT ![s] = "done"]
  /\ ctxDone' = [ctxDone EXCEPT ![s] = TRUE]
  /\ UNCHANGED <<send, recv, errCh, queued, root, writer>>

-----------------------------------------------------------------------------
(* sendLoop *)

SendRootDone(s) ==
  /\ send[s] = "tick"
  /\ root
  /\ send' = [send EXCEPT ![s] = "done"]
  /\ UNCHANGED <<main, recv, errCh, queued, ctxDone, root, writer>>

Tick(s) ==
  /\ send[s] = "tick"
  /\ send' = [send EXCEPT ![s] = "lock"]
  /\ UNCHANGED <<main, recv, errCh, queued, ctxDone, root, writer>>

\* A stream with an interval that is not positive gets as far as its first
\* tick, 1ns after it was opened, where tc.Reset(interval) panics.
TickPanics(s) ==
  /\ ~Panicked /\ main[s] = "idle"
  /\ main' = [main EXCEPT ![s] = "select"]
  /\ send' = [send EXCEPT ![s] = "panic"]
  /\ recv' = [recv EXCEPT ![s] = "top"]
  /\ UNCHANGED <<errCh, queued, ctxDone, root, writer>>

\* Faulty variant of SendRLock.
SendRLock_NoLock(s) ==
  /\ ~Panicked /\ send[s] = "lock"
  /\ send' = [send EXCEPT ![s] = "send"]
  /\ UNCHANGED <<main, recv, errCh, queued, ctxDone, root, writer>>

SendRLock(s) ==
  /\ ~Panicked /\ send[s] = "lock"
  /\ writer = "idle"
  /\ send' = [send EXCEPT ![s] = "send"]
  /\ UNCHANGED <<main, recv, errCh, queued, ctxDone, root, writer>>

\* The transport takes the message.
Send(s) ==
  /\ send[s] = "send"
  /\ ~ctxDone[s] /\ queued[s] < Window
  /\ queued' = [queued EXCEPT ![s] = @ + 1]
  /\ send' = [send EXCEPT ![s] = "tick"]
  /\ UNCHANGED <<main, recv, errCh, ctxDone, root, writer>>

\* Faulty variant of SendFails.
SendFails_GoesOn(s) ==
  /\ send[s] = "send"
  /\ ctxDone[s]
  /\ send' = [send EXCEPT ![s] = "tick"]
  /\ UNCHANGED <<main, recv, errCh, queued, ctxDone, root, writer>>

\* Faulty variant of SendFails.
SendFails_KeepsLock(s) ==
  /\ send[s] = "send"
  /\ ctxDone[s]
  /\ UNCHANGED vars

SendFails(s) ==
  /\ send[s] = "send"
  /\ ctxDone[s]
  /\ send' = [send EXCEPT ![s] = "done"]
  /\ UNCHANGED <<main, recv, errCh, queued, ctxDone, root, writer>>

-----------------------------------------------------------------------------
(* recvLoop and the goroutine around it *)

RecvRootDone(s) ==
  /\ recv[s] = "top"
  /\ root
  /\ recv' = [recv EXCEPT ![s] = "report"]
  /\ UNCHANGED <<main, send, errCh, queued, ctxDone, root, writer>>

RecvBegins(s) ==
  /\ recv[s] = "top"
  /\ ~root
  /\ recv' = [recv EXCEPT ![s] = "recv"]
  /\ UNCHANGED <<main, send, errCh, queued, ctxDone, root, writer>>

\* A StatusRequest, whose content is ignored.
RecvMsg(s) ==
  /\ recv[s] = "recv"
  /\ ~ctxDone[s]
  /\ recv' = [recv EXCEPT ![s] = "top"]
  /\ UNCHANGED <<main, send, errCh, queued, ctxDone, root, writer>>

\* io.EOF: the client has closed its side.
RecvEOF(s) ==
  /\ recv[s] = "recv"
  /\ ~ctxDone[s]
  /\ recv' = [recv EXCEPT ![s] = "report"]
  /\ UNCHANGED <<main, send, errCh, queued, ctxDone, root, writer>>

RecvFails(s) ==
  /\ recv[s] = "recv"
  /\ ctxDone[s]
  /\ recv' = [recv EXCEPT ![s] = "report"]
  /\ UNCHANGED <<main, send, errCh, queued, ctxDone, root, writer>>

\* Faulty variant of Report.
Report_Unbuffered(s) ==
  /\ recv[s] = "report"
  /\ main[s] = "select"
  /\ recv' = [recv EXCEPT ![s] = "done"]
  /\ main' = [main EXCEPT ![s] = "wait"]
  /\ UNCHANGED <<send, errCh, queued, ctxDone, root, writer>>

\* errCh has room for one result, so this never blocks.
Report(s) ==
  /\ recv[s] = "report"
  /\ ~errCh[s]
  /\ errCh' = [errCh EXCEPT ![s] = TRUE]
  /\ recv' = [recv EXCEPT ![s] = "done"]
  /\ UNCHANGED <<main, send, queued, ctxDone, root, writer>>

-----------------------------------------------------------------------------
(* The writer of s.mu, the clients and the root context *)

WriterAsks ==
  /\ ~Panicked /\ writer = "idle"
  /\ writer' = "wait"
  /\ UNCHANGED <<main, send, recv, errCh, queued, ctxDone, root>>

WriterLocks ==
  /\ ~Panicked /\ writer = "wait"
  /\ \A s \in Streams : ~Reading(s)
  /\ writer' = "hold"
  /\ UNCHANGED <<main, send, recv, errCh, queued, ctxDone, root>>

WriterUnlocks ==
  /\ ~Panicked /\ writer = "hold"
  /\ writer' = "idle"
  /\ UNCHANGED <<main, send, recv, errCh, queued, ctxDone, root>>

ClientReads(s) ==
  /\ ~Panicked /\ queued[s] > 0
  /\ queued' = [queued EXCEPT ![s] = @ - 1]
  /\ UNCHANGED <<main, send, recv, errCh, ctxDone, root, writer>>

StreamCancelled(s) ==
  /\ ~Panicked /\ main[s] # "idle" /\ ~ctxDone[s]
  /\ ctxDone' = [ctxDone EXCEPT ![s] = TRUE]
  /\ UNCHANGED <<main, send, recv, errCh, queued, root, writer>>

RootDone ==
  /\ ~Panicked /\ ~root
  /\ root' = TRUE
  /\ UNCHANGED <<main, send, recv, errCh, queued, ctxDone, writer>>

MainStep(s) == ~Panicked /\ (SelectErr(s) \/ SelectDone(s) \/ Return(s))
SendStep(s) == ~Panicked /\ (SendRootDone(s) \/ Tick(s) \/ Send(s) \/ SendFails(s))
RecvStep(s) ==
  ~Panicked /\ (RecvRootDone(s) \/ RecvBegins(s) \/ RecvFails(s) \/ Report(s))

\* What the client sends, or that it has closed its side.
RecvRequest(s) == ~Panicked /\ (RecvMsg(s) \/ RecvEOF(s))

Next ==
  \/ \E s \in Streams : \/ Open(s) \/ TickPanics(s) \/ MainStep(s)
                        \/ SendStep(s) \/ SendRLock(s)
                        \/ RecvStep(s) \/ RecvRequest(s)
                        \/ ClientReads(s) \/ StreamCancelled(s)
  \/ WriterAsks \/ WriterLocks \/ WriterUnlocks
  \/ RootDone

Spec == Init /\ [][Next]_vars

(***************************************************************************)
(* The goroutines run, the ticker ticks, and RWMutex serves every waiter:  *)
(* a waiting writer keeps new readers out, hence weak fairness for it, and *)
(* a reader that waits while the lock becomes free again and again gets    *)
(* it, hence strong fairness.  A select with two ready cases takes each of *)
(* them eventually.  Nothing is assumed here of clients, nor that a        *)
(* handler which holds s.mu ends: Health, RemoveNode and others wait as    *)
(* long as their request does.                                             *)
(***************************************************************************)
Fairness ==
  /\ \A s \in Streams : /\ WF_vars(MainStep(s)) /\ WF_vars(SendStep(s))
                        /\ WF_vars(RecvStep(s)) /\ SF_vars(SendRLock(s))
                        /\ SF_vars(~Panicked /\ SendRootDone(s))
  /\ WF_vars(WriterLocks)

FairSpec == Spec /\ Fairness

-----------------------------------------------------------------------------
(* Properties *)

\* The clients of these streams go on reading what they are sent.
KeepReading(S) == \A s \in S : WF_vars(ClientReads(s))

\* A handler that holds s.mu ends: nobody asks it to wait without a deadline.
WritersEnd == WF_vars(WriterUnlocks)

\* No clusterInfo is sent while a handler changes it: sendLoop holds the read
\* lock of s.mu as long as Send takes, however slow the client is.
NoSendUnderWriter == writer = "hold" => \A s \in Streams : ~Reading(s)

\* sendLoop never calls Send on a stream whose handler has returned.
SendWithinHandler ==
  \A s \in Streams : main[s] = "done" => send[s] = "done"

\* When a stream is cancelled the handler returns, although sendLoop notices
\* only at its next Send and has to get the read lock for it.  The lock comes
\* round because the clients of the other streams read what they are sent and
\* the handlers that hold it end; without either, the handler stays.
HandlerReturns ==
  WritersEnd =>
    \A s \in Streams :
      KeepReading(Streams \ {s}) =>
        (ctxDone[s] /\ main[s] # "idle" ~> main[s] = "done" \/ Panicked)

\* No goroutine outlives its stream for ever, in whatever order the handler
\* and recvLoop learn of the end.
NoGoroutineLeak ==
  \A s \in Streams : main[s] = "done" ~> recv[s] = "done" \/ Panicked

\* Pushing status to clients does not lock out the handlers that change the
\* network, provided every client keeps reading what it is sent.
WriterGetsLock ==
  KeepReading(Streams) => (writer = "wait" ~> writer = "hold" \/ Panicked)

=============================================================================
