---------------------------- MODULE NodeProcess -----------------------------
(***************************************************************************)
(* nodeProcess of local/node_process.go: the wrapper around one luxd       *)
(* operating-system process.  A creator starts it, the goroutine awaitExit *)
(* waits for it, and any number of goroutines call Stop, each with its own *)
(* context.                                                                *)
(*                                                                         *)
(* The critical sections of p.lock that can block while the lock is held,  *)
(* or that must not, are separate lock and unlock steps; RLock; read;      *)
(* RUnlock is one step.  The luxd process itself is the environment: it    *)
(* may exit at any time, may ignore SIGINT, and dies of SIGKILL (the       *)
(* assumption the interface comment states).  Signals to a process that    *)
(* has exited fail and are only logged.  The descendants of luxd, killed   *)
(* together with it, are not modelled.                                     *)
(***************************************************************************)
EXTENDS Integers

CONSTANTS
  Callers,    \* the goroutines that may call Stop
  ExitCodes,  \* the codes luxd may exit with when it is not killed
  NoCode      \* "no exit code": ProcessState not set, or Stop not returned

Killed == -1

Codes == ExitCodes \cup {Killed}

\* ProcessState.ExitCode(): -1 for a nil ProcessState too.
ExitCode(ps) == IF ps = NoCode THEN Killed ELSE ps

ASSUME ExitCodesAssumption == ExitCodes \subseteq Nat
ASSUME NoCodeAssumption == NoCode \notin Codes

Free == "free"
Awaiter == "awaitExit"
ASSUME HoldersAssumption == Free \notin Callers /\ Awaiter \notin Callers

VARIABLES
  os,            \* the OS process: "none", "running", "exited"
  exitCode,      \* the code the kernel holds for the exited process
  state,         \* p.state
  processState,  \* p.cmd.ProcessState: NoCode until cmd.Wait has returned
  closed,        \* how often closedOnStop was closed (twice would panic)
  lock,          \* the holder of p.lock for writing, or Free
  awaiter,       \* where awaitExit is: "none", "wait", "lock", "close", "done"
  pc,            \* pc[c]: where caller c is in Stop
  ctxDone,       \* ctxDone[c]: the context c passed to Stop is done
  ret,           \* ret[c]: what c's last finished Stop returned
  seen           \* what the last call of Status returned

vars == <<os, exitCode, state, processState, closed, lock, awaiter, pc,
          ctxDone, ret, seen>>

procVars == <<os, exitCode>>
awaitVars == <<processState, closed, awaiter>>

TypeOK ==
  /\ os \in {"none", "running", "exited"}
  /\ exitCode \in Codes \cup {NoCode}
  /\ state \in {"none", "Running", "Stopping", "Stopped"}
  /\ processState \in Codes \cup {NoCode}
  /\ closed \in Nat
  /\ lock \in Callers \cup {Free, Awaiter}
  /\ awaiter \in {"none", "wait", "lock", "close", "done"}
  /\ pc \in [Callers -> {"idle", "check", "signal", "select", "kill", "join"}]
  /\ ctxDone \in [Callers -> BOOLEAN]
  /\ ret \in [Callers -> Codes \cup {NoCode}]
  /\ seen \in {"none", "Running", "Stopping", "Stopped"}

Init ==
  /\ os = "none"
  /\ exitCode = NoCode
  /\ state = "none"
  /\ processState = NoCode
  /\ closed = 0
  /\ lock = Free
  /\ awaiter = "none"
  /\ pc = [c \in Callers |-> "idle"]
  /\ ctxDone = [c \in Callers |-> FALSE]
  /\ ret = [c \in Callers |-> NoCode]
  /\ seen = "none"

-----------------------------------------------------------------------------
(* The creator.  The process is not published before start returns, so     *)
(* nobody competes for the lock.                                           *)

StartOK ==
  /\ state = "none"
  /\ state' = "Running"
  /\ os' = "running"
  /\ awaiter' = "wait"
  /\ UNCHANGED <<exitCode, processState, closed, lock, pc, ctxDone, ret, seen>>

\* cmd.Start failed: newNodeProcess returns the error, and its callers drop
\* the process, so no Stop or Status follows.
StartFails ==
  /\ state = "none"
  /\ state' = "Stopped"
  /\ closed' = closed + 1
  /\ UNCHANGED <<procVars, processState, awaiter, lock, pc, ctxDone, ret, seen>>

Published == awaiter # "none"

(* The luxd process, a part of the environment. *)

ProcessExits(code) ==
  /\ os = "running"
  /\ os' = "exited"
  /\ exitCode' = code
  /\ UNCHANGED <<state, awaitVars, lock, pc, ctxDone, ret, seen>>

(* awaitExit *)

WaitReturns ==
  /\ awaiter = "wait"
  /\ os = "exited"
  /\ processState' = exitCode
  /\ awaiter' = "lock"
  /\ UNCHANGED <<procVars, state, closed, lock, pc, ctxDone, ret, seen>>

AwaitLock ==
  /\ awaiter = "lock"
  /\ lock = Free
  /\ lock' = Awaiter
  /\ awaiter' = "close"
  /\ UNCHANGED <<procVars, state, processState, closed, pc, ctxDone, ret, seen>>

AwaitClose ==
  /\ awaiter = "close"
  /\ state' = "Stopped"
  /\ closed' = closed + 1
  /\ lock' = Free
  /\ awaiter' = "done"
  /\ UNCHANGED <<procVars, processState, pc, ctxDone, ret, seen>>

-----------------------------------------------------------------------------
(* Stop *)

StopLock(c) ==
  /\ Published
  /\ pc[c] = "idle"
  /\ lock = Free
  /\ lock' = c
  /\ pc' = [pc EXCEPT ![c] = "check"]
  /\ UNCHANGED <<procVars, state, awaitVars, ctxDone, ret, seen>>

\* Faulty variant of StopAlready.
StopAlready_UnsignedCode(c) ==
  /\ pc[c] = "check"
  /\ state = "Stopped"
  /\ ret' = [ret EXCEPT ![c] = ExitCode(processState) % 256]
  /\ lock' = Free
  /\ pc' = [pc EXCEPT ![c] = "idle"]
  /\ UNCHANGED <<procVars, state, awaitVars, ctxDone, seen>>

\* The process is already stopped.
StopAlready(c) ==
  /\ pc[c] = "check"
  /\ state = "Stopped"
  /\ ret' = [ret EXCEPT ![c] = ExitCode(processState)]
  /\ lock' = Free
  /\ pc' = [pc EXCEPT ![c] = "idle"]
  /\ UNCHANGED <<procVars, state, awaitVars, ctxDone, seen>>

\* Another call to Stop is executing: wait for it to finish.
StopJoins(c) ==
  /\ pc[c] = "check"
  /\ state = "Stopping"
  /\ lock' = Free
  /\ pc' = [pc EXCEPT ![c] = "join"]
  /\ UNCHANGED <<procVars, state, awaitVars, ctxDone, ret, seen>>

\* Faulty variant of StopFirst.
StopFirst_KeepsLock(c) ==
  /\ pc[c] = "check"
  /\ state \notin {"Stopped", "Stopping"}
  /\ state' = "Stopping"
  /\ pc' = [pc EXCEPT ![c] = "signal"]
  /\ UNCHANGED <<procVars, awaitVars, lock, ctxDone, ret, seen>>

\* The first Stop; it unlocks so that awaitExit can get the lock.
StopFirst(c) ==
  /\ pc[c] = "check"
  /\ state \notin {"Stopped", "Stopping"}
  /\ state' = "Stopping"
  /\ lock' = Free
  /\ pc' = [pc EXCEPT ![c] = "signal"]
  /\ UNCHANGED <<procVars, awaitVars, ctxDone, ret, seen>>

\* SIGINT; what luxd makes of it is ProcessExits, sooner, later or never.
Interrupt(c) ==
  /\ pc[c] = "signal"
  /\ pc' = [pc EXCEPT ![c] = "select"]
  /\ UNCHANGED <<procVars, state, awaitVars, lock, ctxDone, ret, seen>>

SelectClosed(c) ==
  /\ pc[c] = "select"
  /\ closed > 0
  /\ pc' = [pc EXCEPT ![c] = "join"]
  /\ UNCHANGED <<procVars, state, awaitVars, lock, ctxDone, ret, seen>>

SelectCtxDone(c) ==
  /\ pc[c] = "select"
  /\ ctxDone[c]
  /\ pc' = [pc EXCEPT ![c] = "kill"]
  /\ UNCHANGED <<procVars, state, awaitVars, lock, ctxDone, ret, seen>>

\* Faulty variant of Kill.
Kill_Closes(c) ==
  /\ pc[c] = "kill"
  /\ pc' = [pc EXCEPT ![c] = "join"]
  /\ IF os = "running"
     THEN os' = "exited" /\ exitCode' = Killed
     ELSE UNCHANGED procVars
  /\ closed' = closed + 1
  /\ UNCHANGED <<state, processState, awaiter, lock, ctxDone, ret, seen>>

\* SIGKILL; no effect when the process has already exited.
Kill(c) ==
  /\ pc[c] = "kill"
  /\ pc' = [pc EXCEPT ![c] = "join"]
  /\ IF os = "running"
     THEN os' = "exited" /\ exitCode' = Killed
     ELSE UNCHANGED procVars
  /\ UNCHANGED <<state, awaitVars, lock, ctxDone, ret, seen>>

\* Faulty variant of StopReturns.
StopReturns_NoWait(c) ==
  /\ pc[c] = "join"
  /\ lock = Free
  /\ ret' = [ret EXCEPT ![c] = ExitCode(processState)]
  /\ pc' = [pc EXCEPT ![c] = "idle"]
  /\ UNCHANGED <<procVars, state, awaitVars, lock, ctxDone, seen>>

\* Faulty variant of StopReturns.
StopReturns_AssumesKilled(c) ==
  /\ pc[c] = "join"
  /\ closed > 0
  /\ lock = Free
  /\ ret' = [ret EXCEPT ![c] = IF ctxDone[c] THEN Killed ELSE ExitCode(processState)]
  /\ pc' = [pc EXCEPT ![c] = "idle"]
  /\ UNCHANGED <<procVars, state, awaitVars, lock, ctxDone, seen>>

\* closedOnStop is closed: RLock, read the exit code, RUnlock.
StopReturns(c) ==
  /\ pc[c] = "join"
  /\ closed > 0
  /\ lock = Free
  /\ ret' = [ret EXCEPT ![c] = ExitCode(processState)]
  /\ pc' = [pc EXCEPT ![c] = "idle"]
  /\ UNCHANGED <<procVars, state, awaitVars, lock, ctxDone, seen>>

\* The caller's deadline passes, or the caller gives up.
ContextDone(c) ==
  /\ ~ctxDone[c]
  /\ ctxDone' = [ctxDone EXCEPT ![c] = TRUE]
  /\ UNCHANGED <<procVars, state, awaitVars, lock, pc, ret, seen>>

Status ==
  /\ Published
  /\ lock = Free
  /\ seen' = state
  /\ UNCHANGED <<procVars, state, awaitVars, lock, pc, ctxDone, ret>>

-----------------------------------------------------------------------------

StopStep(c) ==
  \/ StopAlready(c) \/ StopJoins(c) \/ StopFirst(c)
  \/ Interrupt(c) \/ SelectClosed(c) \/ SelectCtxDone(c) \/ Kill(c)
  \/ StopReturns(c)

AwaitStep == WaitReturns \/ AwaitLock \/ AwaitClose

Next ==
  \/ StartOK
  \/ StartFails
  \/ \E code \in ExitCodes : ProcessExits(code)
  \/ AwaitStep
  \/ \E c \in Callers : StopLock(c) \/ StopStep(c) \/ ContextDone(c)
  \/ Status

Spec == Init /\ [][Next]_vars

(***************************************************************************)
(* The goroutines run: a Stop that is under way takes its next step, and   *)
(* so does awaitExit.  Both wait for p.lock, which sync.RWMutex grants to  *)
(* every waiter eventually, hence strong fairness on those two steps.      *)
(* Nothing is assumed of luxd, nor that anybody calls Stop, nor that the   *)
(* context of a caller ends: RemoveNode, PauseNode and RestartNode pass on *)
(* the context of their request, which need not have a deadline.           *)
(***************************************************************************)
Fairness ==
  /\ \A c \in Callers : WF_vars(StopStep(c)) /\ SF_vars(StopReturns(c))
  /\ WF_vars(AwaitStep) /\ SF_vars(AwaitLock)

FairSpec == Spec /\ Fairness

-----------------------------------------------------------------------------
(* Properties *)

\* Stop returns only when the process has ended, and every call, first,
\* concurrent or late, returns the code the process ended with: "Subsequent
\* calls to [Stop] have no effect".
StopAnswersExitCode ==
  \A c \in Callers :
    ret[c] # NoCode => /\ os = "exited"
                       /\ ret[c] = exitCode

\* closedOnStop is closed at most once (a second close panics), only by the
\* step that sets the state to Stopped, and nobody waiting on it can wake up
\* before the exit code is known.
ClosedOnce ==
  /\ closed <= 1
  /\ closed = 1 <=> state = "Stopped"
  /\ closed = 1 /\ Published => processState # NoCode

\* At most one caller is between the check of p.state and the end of the
\* process: signals are sent by one Stop only, however many are called.
OneStopper ==
  \A c, d \in Callers :
    pc[c] \in {"signal", "select", "kill"} /\ pc[d] \in {"signal", "select", "kill"}
      => c = d

\* A process that is killed was given its time: SIGKILL is sent only when the
\* context of the Stop that interrupted it is done.
KilledOnlyAfterDeadline ==
  exitCode = Killed => \E c \in Callers : ctxDone[c]

\* t is s or a status that comes after s.
Advances(s, t) ==
  \/ s = t
  \/ s = "none"
  \/ s = "Running" /\ t # "none"
  \/ s = "Stopping" /\ t = "Stopped"

\* An observer of Status never sees Stopped while the process runs, and, once
\* it has seen Stopping or Stopped, never sees an earlier status again.
StatusOnlyAdvances ==
  [][/\ Advances(seen, seen')
     /\ seen' = "Stopped" => os = "exited"]_seen

\* Every call of Stop that got the lock returns once luxd has exited, or, if it
\* ignores SIGINT, once the context of the one call that signals it is done:
\* that call sends SIGKILL, awaitExit then gets the lock, and the channel
\* releases everybody, whatever their own contexts.
StopTerminates ==
  \A c \in Callers :
    /\ pc[c] # "idle"
    /\ \/ os = "exited"
       \/ \E d \in Callers : pc[d] \in {"signal", "select", "kill"} /\ ctxDone[d]
    ~> pc[c] = "idle"

\* The promise of the interface (module StoppableProcess): the detailed steps
\* implement launch, end, and answers with the final exit code.
Promise == INSTANCE StoppableProcess
ImplementsPromise == Promise!Spec

=============================================================================
