------------------------- MODULE StreamStatusProofs -------------------------
(***************************************************************************)
(* Proofs about StreamStatus, for any number of streams and any window,    *)
(* and about the stream-status command, StreamClient, against it.          *)
(***************************************************************************)
EXTENDS StreamClient, TLAPS

\* Zenon proves the leaves, except where a leaf asks for SMT.
USE Zenon

\* recvLoop runs and reports once, so errCh is empty until it has.
ReportOnce ==
  \A s \in Streams : /\ main[s] = "idle" => recv[s] = "off"
                     /\ recv[s] # "done" => ~errCh[s]

IInv == TypeOK /\ SendWithinHandler /\ ReportOnce

LEMMA InitHolds == Init => IInv
<1> SUFFICES ASSUME Init PROVE IInv
  OBVIOUS
<1>1. 0 \in 0..Window
  BY SMT, WindowAssumption
<1>2. TypeOK
  BY <1>1 DEF Init, TypeOK
<1>3. SendWithinHandler /\ ReportOnce
  BY DEF Init, SendWithinHandler, ReportOnce
<1> QED
  BY <1>2, <1>3 DEF IInv

LEMMA TypeStep == TypeOK /\ [Next]_vars => TypeOK'
<1> SUFFICES ASSUME TypeOK, [Next]_vars PROVE TypeOK'
  OBVIOUS
<1> USE WindowAssumption DEF TypeOK
<1>1. ASSUME NEW s \in Streams, Open(s) \/ TickPanics(s) \/ MainStep(s)
      PROVE TypeOK'
  BY <1>1 DEF Open, TickPanics, MainStep, SelectErr, SelectDone, Return
<1>2. ASSUME NEW s \in Streams, SendStep(s) \/ SendRLock(s)
      PROVE TypeOK'
  <2>1. CASE Send(s)
    BY SMT, <2>1 DEF Send
  <2>2. CASE SendRootDone(s) \/ Tick(s) \/ SendFails(s) \/ SendRLock(s)
    BY <2>2 DEF SendRootDone, Tick, SendFails, SendRLock
  <2> QED
    BY <1>2, <2>1, <2>2 DEF SendStep
<1>3. ASSUME NEW s \in Streams, RecvStep(s) \/ RecvRequest(s)
      PROVE TypeOK'
  BY <1>3 DEF RecvStep, RecvRootDone, RecvBegins, RecvFails, Report, RecvRequest, RecvMsg, RecvEOF
<1>4. ASSUME NEW s \in Streams, ClientReads(s)
      PROVE TypeOK'
  BY SMT, <1>4 DEF ClientReads
<1>5. ASSUME NEW s \in Streams, StreamCancelled(s)
      PROVE TypeOK'
  BY <1>5 DEF StreamCancelled
<1>6. CASE WriterAsks \/ WriterLocks \/ WriterUnlocks \/ RootDone
  BY <1>6 DEF WriterAsks, WriterLocks, WriterUnlocks, RootDone
<1>7. CASE UNCHANGED vars
  BY <1>7 DEF vars
<1> QED
  BY <1>1, <1>2, <1>3, <1>4, <1>5, <1>6, <1>7 DEF Next

\* The handler leaves "wait" when sendLoop has ended, and sendLoop never starts
\* again; recvLoop leaves its loop once.
LEMMA LoopsStep == IInv /\ [Next]_vars => (SendWithinHandler /\ ReportOnce)'
<1> SUFFICES ASSUME IInv, [Next]_vars PROVE (SendWithinHandler /\ ReportOnce)'
  OBVIOUS
<1> USE DEF IInv, TypeOK, SendWithinHandler, ReportOnce
<1>1. ASSUME NEW s \in Streams, Open(s) \/ TickPanics(s) \/ MainStep(s)
      PROVE (SendWithinHandler /\ ReportOnce)'
  <2>1. CASE Open(s) \/ TickPanics(s)
    BY <2>1 DEF Open, TickPanics
  <2>2. CASE SelectErr(s)
    BY <2>2 DEF SelectErr
  <2>3. CASE SelectDone(s) \/ Return(s)
    BY SMT, <2>3 DEF SelectDone, Return
  <2> QED
    BY <1>1, <2>1, <2>2, <2>3 DEF MainStep
<1>2. ASSUME NEW s \in Streams, SendStep(s) \/ SendRLock(s)
      PROVE (SendWithinHandler /\ ReportOnce)'
  BY SMT, <1>2 DEF SendStep, SendRootDone, Tick, Send, SendFails, SendRLock
<1>3. ASSUME NEW s \in Streams, RecvStep(s) \/ RecvRequest(s)
      PROVE (SendWithinHandler /\ ReportOnce)'
  BY SMT, <1>3 DEF RecvStep, RecvRootDone, RecvBegins, RecvFails, Report, RecvRequest, RecvMsg, RecvEOF
<1>4. ASSUME NEW s \in Streams, ClientReads(s) \/ StreamCancelled(s)
      PROVE (SendWithinHandler /\ ReportOnce)'
  BY <1>4 DEF ClientReads, StreamCancelled
<1>5. CASE WriterAsks \/ WriterLocks \/ WriterUnlocks \/ RootDone
  BY <1>5 DEF WriterAsks, WriterLocks, WriterUnlocks, RootDone
<1>6. CASE UNCHANGED vars
  BY <1>6 DEF vars
<1> QED
  BY <1>1, <1>2, <1>3, <1>4, <1>5, <1>6 DEF Next

LEMMA Inductive == Spec => []IInv
<1>1. IInv /\ [Next]_vars => IInv'
  BY TypeStep, LoopsStep DEF IInv
<1> QED
  BY <1>1, InitHolds, PTL DEF Spec

\* The variables of the streams keep their types; no more than Window messages
\* are under way to a client.
THEOREM TypeCorrectness == Spec => []TypeOK
BY Inductive, PTL DEF IInv

\* The StreamStatus handler has not returned while its sendLoop may still call
\* Send, for any number of streams.
THEOREM SendsWithinHandler == Spec => []SendWithinHandler
BY Inductive, PTL DEF IInv

\* The goroutine around recvLoop always finds room in errCh, also when the
\* handler has stopped listening: the buffer of one is enough.
THEOREM ReportFindsRoom ==
  Spec => [](\A s \in Streams : recv[s] = "report" => ~errCh[s])
<1>1. ASSUME IInv, NEW s \in Streams, recv[s] = "report"
      PROVE ~errCh[s]
  <2>1. recv[s] # "done"
    BY <1>1
  <2> QED
    BY <1>1, <2>1 DEF IInv, ReportOnce
<1>2. IInv => \A s \in Streams : recv[s] = "report" => ~errCh[s]
  BY <1>1
<1> QED
  BY <1>2, Inductive, PTL

-----------------------------------------------------------------------------
(* The read lock *)

LEMMA LockStep == TypeOK /\ NoSendUnderWriter /\ [Next]_vars => NoSendUnderWriter'
<1> SUFFICES ASSUME TypeOK, NoSendUnderWriter, [Next]_vars PROVE NoSendUnderWriter'
  OBVIOUS
<1> USE DEF TypeOK, NoSendUnderWriter, Reading
<1>1. ASSUME NEW s \in Streams, Open(s) \/ TickPanics(s) \/ MainStep(s) PROVE NoSendUnderWriter'
  BY <1>1 DEF Open, TickPanics, MainStep, SelectErr, SelectDone, Return
<1>2. ASSUME NEW s \in Streams, SendStep(s) \/ SendRLock(s) PROVE NoSendUnderWriter'
  BY <1>2 DEF SendStep, SendRootDone, Tick, Send, SendFails, SendRLock
<1>3. ASSUME NEW s \in Streams, RecvStep(s) \/ RecvRequest(s) PROVE NoSendUnderWriter'
  BY <1>3 DEF RecvStep, RecvRootDone, RecvBegins, RecvFails, Report, RecvRequest, RecvMsg, RecvEOF
<1>4. ASSUME NEW s \in Streams, ClientReads(s) \/ StreamCancelled(s) PROVE NoSendUnderWriter'
  BY <1>4 DEF ClientReads, StreamCancelled
<1>5. CASE WriterAsks \/ WriterLocks \/ WriterUnlocks \/ RootDone
  BY <1>5 DEF WriterAsks, WriterLocks, WriterUnlocks, RootDone
<1>6. CASE UNCHANGED vars
  BY <1>6 DEF vars
<1> QED
  BY <1>1, <1>2, <1>3, <1>4, <1>5, <1>6 DEF Next

\* No clusterInfo is sent while a handler changes it: sendLoop keeps the read
\* lock until Send has returned, and a writer waits for it.
THEOREM SendsUnderReadLock == Spec => []NoSendUnderWriter
<1>1. Init => NoSendUnderWriter
  BY DEF Init, NoSendUnderWriter
<1> QED
  BY <1>1, LockStep, TypeCorrectness, PTL DEF Spec

-----------------------------------------------------------------------------
(* The stream-status command *)

\* What the command does to the handler's state are steps of StreamStatus.
LEMMA RunsHandler == [ClientNext]_allVars => [Next]_vars
<1> SUFFICES ASSUME [ClientNext]_allVars PROVE Next \/ UNCHANGED vars
  OBVIOUS
<1>1. CASE CallStream \/ CallFails \/ CallPanics \/ Receives \/ Reset \/ Lost \/ ServerStops
  BY <1>1, CliAssumption DEF CallStream, CallFails, CallPanics, Receives, Reset, Lost,
     ServerStops, Next
<1>2. CASE \/ Begin \/ RangeReads \/ RangeEnds \/ Join \/ Checks
           \/ ReceiveFails \/ Pushes \/ WatcherWakes \/ Signal \/ Timeout
  BY <1>2 DEF Begin, RangeReads, RangeEnds, Join, Checks, ReceiveFails, Pushes,
              WatcherWakes, Signal, Timeout
<1>3. CASE ServerStep
  BY <1>3, CliAssumption DEF ServerStep, RecvRequest, Next
<1>4. CASE UNCHANGED allVars
  BY <1>4 DEF allVars
<1> QED
  BY <1>1, <1>2, <1>3, <1>4 DEF ClientNext, ClientStep

\* The command, its receive routine and its watcher take only the steps that a
\* client may take in StreamStatus, so what is proved of the handler for any
\* client holds for the one in this repository.
THEOREM ComposesWithHandler == ClientSpec => Spec
<1>1. ClientInit => Init
  BY DEF ClientInit
<1> QED
  BY <1>1, RunsHandler, PTL DEF ClientSpec, Spec

\* The updates end only when the command gives up or the stream is over: the
\* receive routine closes the channel for no other reason.
ClosedWithStream == routine = "done" => Leaving \/ ctxDone[Cli] \/ Panicked

\* Once its context is done, the command, its watcher and its receive routine
\* never all wait for one another.  These are the guards of the steps of
\* ClientStep and WatcherWakes that lead the command to its end.
CommandNeverStuck ==
  over /\ cli \in {"range", "join"} =>
    \/ cli = "range" /\ (ch > 0 \/ routine = "done")  \* RangeReads, RangeEnds
    \/ cli = "join" /\ watcher = "done"               \* Join
    \/ cli = "join" /\ watcher = "select"             \* WatcherWakes
    \/ cli = "range" /\ routine \in {"check", "recv"}  \* Checks, ReceiveFails
    \/ cli = "range" /\ routine = "push" /\ ch = 0     \* Pushes

\* Who runs at each stage of the command, and what has ended the context.
CommandInv ==
  /\ cli \in {"idle", "call", "range", "join", "done"}
  /\ watcher \in {"off", "select", "done"}
  /\ routine \in {"off", "check", "recv", "push", "done"}
  /\ ch \in {0, 1}
  /\ over \in BOOLEAN /\ sig \in BOOLEAN
  /\ routine # "off" => main[Cli] # "idle"
  /\ cli \in {"idle", "call"} => routine = "off" /\ main[Cli] = "idle"
  /\ cli \in {"range", "join"} => routine # "off"
  /\ cli # "idle" => watcher # "off"
  /\ cli = "join" \/ watcher = "done" => over
  /\ cli = "join" => routine = "done" /\ ch = 0
  /\ main[Cli] = "done" => ctxDone[Cli]
  /\ ClosedWithStream

LEMMA CommandSteps ==
  ASSUME TypeOK, CommandInv,
         ClientStep \/ Begin \/ WatcherWakes \/ Signal \/ Timeout
  PROVE  CommandInv'
<1> USE CliAssumption DEF TypeOK, CommandInv, ClosedWithStream, Leaving
<1>0. UNCHANGED send => (Panicked' <=> Panicked)
  BY DEF Panicked
<1>1. CASE Begin \/ Join
  BY <1>0, <1>1 DEF Begin, Join, vars
<1>2. CASE RangeReads
  <2>1. ch' = 0
    BY SMT, <1>2 DEF RangeReads
  <2> QED
    BY <1>0, <1>2, <2>1 DEF RangeReads, vars
<1>3. CASE CallStream \/ CallPanics
  BY <1>3 DEF CallStream, CallPanics, Open, TickPanics
<1>4. CASE CallFails
  BY <1>4 DEF CallFails, Open, vars
<1>5. CASE RangeEnds
  BY <1>5 DEF RangeEnds, vars
<1>6. CASE Checks \/ ReceiveFails \/ Pushes
  BY SMT, <1>0, <1>6 DEF Checks, ReceiveFails, Pushes, vars
<1>7. CASE Receives
  BY <1>0, <1>7 DEF Receives, ClientReads
<1>8. CASE WatcherWakes \/ Signal \/ Timeout
  BY <1>0, <1>8 DEF WatcherWakes, Signal, Timeout, vars
<1> QED
  BY <1>1, <1>2, <1>3, <1>4, <1>5, <1>6, <1>7, <1>8 DEF ClientStep

\* The server neither opens the stream nor closes it without ending its
\* context, and does nothing after a panic.
LEMMA ServerSteps ==
  ASSUME TypeOK, CommandInv, UNCHANGED clientVars,
         ServerStep \/ StreamCancelled(Cli)
  PROVE  CommandInv'
<1> USE CliAssumption DEF TypeOK
<1>1. /\ main'[Cli] = "idle" <=> main[Cli] = "idle"
      /\ ctxDone[Cli] => ctxDone'[Cli]
      /\ main'[Cli] = "done" => main[Cli] = "done" \/ ctxDone'[Cli]
      /\ ~Panicked
  <2>1. CASE MainStep(Cli)
    BY <2>1 DEF MainStep, SelectErr, SelectDone, Return
  <2>2. CASE SendStep(Cli) \/ SendRLock(Cli)
    BY <2>2 DEF SendStep, SendRootDone, Tick, Send, SendFails, SendRLock
  <2>3. CASE RecvStep(Cli) \/ (~Panicked /\ RecvEOF(Cli))
    BY <2>3 DEF RecvStep, RecvRootDone, RecvBegins, RecvFails, Report, RecvEOF
  <2>4. CASE WriterAsks \/ WriterLocks \/ WriterUnlocks \/ RootDone
    BY <2>4 DEF WriterAsks, WriterLocks, WriterUnlocks, RootDone
  <2>5. CASE StreamCancelled(Cli)
    BY <2>5 DEF StreamCancelled
  <2> QED
    BY <2>1, <2>2, <2>3, <2>4, <2>5 DEF ServerStep
<1> QED
  BY <1>1 DEF CommandInv, ClosedWithStream, Leaving, clientVars

LEMMA CommandStep ==
  TypeOK /\ CommandInv /\ [ClientNext]_allVars => CommandInv'
<1> SUFFICES ASSUME TypeOK, CommandInv, [ClientNext]_allVars PROVE CommandInv'
  OBVIOUS
<1>1. CASE Reset \/ Lost \/ ServerStops \/ (ServerStep /\ UNCHANGED clientVars)
  BY <1>1, ServerSteps DEF Reset, Lost, ServerStops
<1>2. CASE UNCHANGED allVars
  BY <1>2 DEF allVars, vars, clientVars, CommandInv, ClosedWithStream, Leaving, Panicked
<1> QED
  BY <1>1, <1>2, CommandSteps DEF ClientNext

LEMMA CommandInvariant == ClientSpec => []CommandInv
<1>1. ClientInit => CommandInv
  BY CliAssumption DEF ClientInit, Init, CommandInv, ClosedWithStream
<1>2. ClientSpec => []TypeOK
  BY ComposesWithHandler, TypeCorrectness, PTL
<1> QED
  BY <1>1, <1>2, CommandStep, PTL DEF ClientSpec

\* The channel is closed only after an interrupt, the timeout, the end of the
\* command or the end of the stream: no update is cut off in between.
THEOREM UpdatesUntilEnd == ClientSpec => []ClosedWithStream
BY CommandInvariant, PTL DEF CommandInv

\* After an interrupt or the timeout there is no circular wait between
\* streamStatusFunc, its watcher goroutine and the receive routine, which share
\* a channel with room for one, donec and the context.  What is left for
\* StreamCommandEnds is that they are scheduled.
THEOREM NoCircularWait == ClientSpec => []CommandNeverStuck
<1>1. CommandInv => CommandNeverStuck
  BY SMT DEF CommandInv, CommandNeverStuck
<1> QED
  BY <1>1, CommandInvariant, PTL

=============================================================================
