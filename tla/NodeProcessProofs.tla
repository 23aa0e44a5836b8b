-------------------------- MODULE NodeProcessProofs -------------------------
(***************************************************************************)
(* Proofs that NodeProcess keeps its promises for any set of callers and   *)
(* any set of exit codes.                                                  *)
(***************************************************************************)
EXTENDS NodeProcess, TLAPS

\* Zenon proves the leaves, except where a leaf asks for SMT.
USE Zenon

Stoppers == {"signal", "select", "kill"}

\* Before the process is published nothing has happened, or start failed.
UnpublishedInv ==
  awaiter = "none" =>
    /\ os = "none" /\ exitCode = NoCode /\ processState = NoCode
    /\ lock = Free
    /\ \A c \in Callers : pc[c] = "idle" /\ ret[c] = NoCode
    /\ \/ state = "none" /\ closed = 0
       \/ state = "Stopped" /\ closed = 1
    /\ seen = "none"

\* Where awaitExit is tells what is known about the process.
AwaiterInv ==
  /\ awaiter # "none" => os # "none" /\ state # "none"
  /\ os = "exited" <=> exitCode # NoCode
  /\ awaiter \in {"lock", "close", "done"} => /\ os = "exited"
                                              /\ processState = exitCode
  /\ closed \in {0, 1}
  /\ closed = 1 <=> state = "Stopped"
  /\ awaiter # "none" => (closed = 1 <=> awaiter = "done")

LockInv ==
  /\ lock = Awaiter <=> awaiter = "close"
  /\ \A c \in Callers : lock = c <=> pc[c] = "check"

\* Nobody stops a process that is still Running, and one caller stops it.
StopperInv ==
  /\ \A c \in Callers :
       pc[c] \in Stoppers \cup {"join"} => state \in {"Stopping", "Stopped"}
  /\ OneStopper

DeadlineInv ==
  /\ \A c \in Callers : pc[c] = "kill" => ctxDone[c]
  /\ KilledOnlyAfterDeadline

SeenInv ==
  /\ Advances(seen, state)
  /\ seen = "Stopped" => os = "exited"

IInv ==
  /\ TypeOK
  /\ UnpublishedInv
  /\ AwaiterInv
  /\ LockInv
  /\ StopperInv
  /\ DeadlineInv
  /\ StopAnswersExitCode
  /\ SeenInv

-----------------------------------------------------------------------------

\* The initial state satisfies the inductive invariant.
LEMMA InitIInv == Init => IInv
  BY SMT, NoCodeAssumption, HoldersAssumption, ExitCodesAssumption
  DEF Init, IInv, TypeOK, UnpublishedInv, AwaiterInv, LockInv, StopperInv,
      DeadlineInv, SeenInv, OneStopper, KilledOnlyAfterDeadline,
      StopAnswersExitCode, Stoppers, Advances, Free, Awaiter, Codes, Killed

\* Every step of the creator, of luxd, of awaitExit, of a Stop call and of
\* Status preserves the inductive invariant.
LEMMA NextIInv == IInv /\ [Next]_vars => IInv'
<1> SUFFICES ASSUME IInv, [Next]_vars
             PROVE  IInv'
  OBVIOUS
<1> USE NoCodeAssumption, HoldersAssumption, ExitCodesAssumption
    DEF IInv, TypeOK, UnpublishedInv, AwaiterInv, LockInv, StopperInv,
        DeadlineInv, SeenInv, OneStopper, KilledOnlyAfterDeadline,
        StopAnswersExitCode, Stoppers, Advances, Free, Awaiter, Codes, Killed,
        procVars, awaitVars, Published, ExitCode
<1>1. CASE StartOK
  BY <1>1 DEF StartOK
<1>2. CASE StartFails
  BY SMT, <1>2 DEF StartFails
<1>3. ASSUME NEW code \in ExitCodes, ProcessExits(code) PROVE IInv'
  BY SMT, <1>3 DEF ProcessExits
<1>4. CASE WaitReturns
  BY <1>4 DEF WaitReturns
<1>5. CASE AwaitLock
  BY SMT, <1>5 DEF AwaitLock
<1>6. CASE AwaitClose
  BY SMT, <1>6 DEF AwaitClose
<1>7. ASSUME NEW c \in Callers, StopLock(c) PROVE IInv'
  BY SMT, <1>7 DEF StopLock
<1>8. ASSUME NEW c \in Callers, StopAlready(c) PROVE IInv'
  BY SMT, <1>8 DEF StopAlready
<1>9. ASSUME NEW c \in Callers, StopJoins(c) PROVE IInv'
  BY SMT, <1>9 DEF StopJoins
<1>10. ASSUME NEW c \in Callers, StopFirst(c) PROVE IInv'
  BY SMT, <1>10 DEF StopFirst
<1>11. ASSUME NEW c \in Callers, Interrupt(c) PROVE IInv'
  BY SMT, <1>11 DEF Interrupt
<1>12. ASSUME NEW c \in Callers, SelectClosed(c) PROVE IInv'
  BY SMT, <1>12 DEF SelectClosed
<1>13. ASSUME NEW c \in Callers, SelectCtxDone(c) PROVE IInv'
  BY SMT, <1>13 DEF SelectCtxDone
<1>14. ASSUME NEW c \in Callers, Kill(c) PROVE IInv'
  BY SMT, <1>14 DEF Kill
<1>15. ASSUME NEW c \in Callers, StopReturns(c) PROVE IInv'
  BY SMT, <1>15 DEF StopReturns
<1>16. ASSUME NEW c \in Callers, ContextDone(c) PROVE IInv'
  BY SMT, <1>16 DEF ContextDone
<1>17. CASE Status
  BY <1>17 DEF Status
<1>18. CASE UNCHANGED vars
  BY SMT, <1>18 DEF vars
<1> QED
  BY <1>1, <1>2, <1>3, <1>4, <1>5, <1>6, <1>7, <1>8, <1>9, <1>10, <1>11, <1>12, <1>13, <1>14, <1>15, <1>16, <1>17, <1>18
  DEF Next, AwaitStep, StopStep

\* The inductive invariant holds in every reachable state.
THEOREM Invariance == Spec => []IInv
  BY InitIInv, NextIInv, PTL DEF Spec

\* Type correctness of the wrapper around a luxd process.
THEOREM TypeCorrectness == Spec => []TypeOK
<1>1. IInv => TypeOK
  BY DEF IInv
<1> QED
  BY <1>1, Invariance, PTL

\* Stop answers every caller with the exit code, only after the exit.
THEOREM StopAnswers == Spec => []StopAnswersExitCode
<1>1. IInv => StopAnswersExitCode
  BY DEF IInv
<1> QED
  BY <1>1, Invariance, PTL

\* closedOnStop is closed at most once, and never before the exit code is set.
THEOREM ChannelClosedOnce == Spec => []ClosedOnce
<1>1. IInv => ClosedOnce
  BY SMT, NoCodeAssumption
  DEF IInv, TypeOK, AwaiterInv, ClosedOnce, Published
<1> QED
  BY <1>1, Invariance, PTL

\* However many goroutines call Stop, one of them sends the signals.
THEOREM SingleStopper == Spec => []OneStopper
<1>1. IInv => OneStopper
  BY DEF IInv, StopperInv
<1> QED
  BY <1>1, Invariance, PTL

\* luxd is killed only after the deadline of a Stop has passed.
THEOREM KillAfterDeadline == Spec => []KilledOnlyAfterDeadline
<1>1. IInv => KilledOnlyAfterDeadline
  BY DEF IInv, DeadlineInv
<1> QED
  BY <1>1, Invariance, PTL

\* What Status reports only advances, and Stopped is reported after the exit.
THEOREM StatusAdvances == Spec => StatusOnlyAdvances
<1>1. ASSUME IInv, [Next]_vars
      PROVE  [Advances(seen, seen') /\ (seen' = "Stopped" => os = "exited")]_seen
  <2>1. CASE Status
    BY <1>1, <2>1 DEF Status, IInv, TypeOK, SeenInv, AwaiterInv, Published
  <2>2. CASE UNCHANGED seen
    BY <2>2
  <2>3. Status \/ UNCHANGED seen
    BY <1>1 DEF Next, vars, AwaitStep, StopStep, StartOK, StartFails,
       ProcessExits, WaitReturns, AwaitLock, AwaitClose, StopLock, StopAlready,
       StopJoins, StopFirst, Interrupt, SelectClosed, SelectCtxDone, Kill,
       StopReturns, ContextDone
  <2> QED
    BY <2>1, <2>2, <2>3
<1> QED
  BY <1>1, Invariance, PTL DEF Spec, StatusOnlyAdvances

\* The detailed wrapper implements the interface's promise: the process is
\* launched once, ends once, and Stop answers with the code it ended with.
THEOREM Implementation == Spec => ImplementsPromise
<1>1. Init => Promise!Init
  BY DEF Init, Promise!Init
<1>2. IInv /\ [Next]_vars => [Promise!Next]_(Promise!vars)
  <2> SUFFICES ASSUME IInv, [Next]_vars
               PROVE  Promise!Next \/ UNCHANGED <<os, exitCode, ret>>
    BY DEF Promise!vars
  <2> USE DEF procVars, awaitVars
  <2>1. CASE StartOK
    BY <2>1 DEF StartOK, Promise!Next, Promise!Launch, IInv, UnpublishedInv, AwaiterInv
  <2>2. ASSUME NEW code \in ExitCodes, ProcessExits(code)
        PROVE  Promise!Next
    BY <2>2 DEF ProcessExits, Promise!Next, Promise!End, Promise!Codes
  <2>3. ASSUME NEW c \in Callers, Kill(c)
        PROVE  Promise!Next \/ UNCHANGED <<os, exitCode, ret>>
    BY <2>3 DEF Kill, Promise!Next, Promise!End, Promise!Codes, Promise!Killed, Killed
  <2>4. ASSUME NEW c \in Callers, StopAlready(c) \/ StopReturns(c)
        PROVE  Promise!Next
    <3>1. os = "exited" /\ ExitCode(processState) = exitCode
      BY SMT, <2>4, NoCodeAssumption, HoldersAssumption
      DEF StopAlready, StopReturns, IInv, TypeOK, UnpublishedInv, AwaiterInv,
          StopperInv, Stoppers, ExitCode
    <3> QED
      BY <2>4, <3>1 DEF StopAlready, StopReturns, Promise!Next, Promise!Answer
  <2>5. ASSUME NEW c \in Callers,
               \/ StopLock(c) \/ StopJoins(c) \/ StopFirst(c) \/ Interrupt(c)
               \/ SelectClosed(c) \/ SelectCtxDone(c) \/ ContextDone(c)
        PROVE  UNCHANGED <<os, exitCode, ret>>
    BY <2>5 DEF StopLock, StopJoins, StopFirst, Interrupt, SelectClosed,
                SelectCtxDone, ContextDone
  <2>6. CASE StartFails \/ AwaitStep \/ Status \/ UNCHANGED vars
    BY <2>6 DEF StartFails, AwaitStep, WaitReturns, AwaitLock, AwaitClose,
                Status, vars
  <2> QED
    BY <2>1, <2>2, <2>3, <2>4, <2>5, <2>6 DEF Next, StopStep
<1> QED
  BY <1>1, <1>2, Invariance, PTL DEF Spec, ImplementsPromise, Promise!Spec

=============================================================================
