-------------------------- MODULE StoppableProcess --------------------------
(***************************************************************************)
(* What a NodeProcess promises its users (the interface of                 *)
(* local/node_process.go): an operating-system process that is started     *)
(* once, ends once with one exit code, and whose Stop answers every caller *)
(* with that code and only after the process has ended.  How Stop gets     *)
(* there (signals, contexts, channels, locks) is the business of module    *)
(* NodeProcess, which implements this one.                                 *)
(***************************************************************************)
EXTENDS Integers

CONSTANTS
  Callers,    \* the goroutines that may call Stop
  ExitCodes,  \* the codes a process may exit with when it is not killed
  NoCode      \* "no exit code yet": neither an exit code nor Killed

\* ProcessState.ExitCode() of a process ended by a signal.
Killed == -1

Codes == ExitCodes \cup {Killed}

VARIABLES
  os,        \* the OS process: "none", "running", "exited"
  exitCode,  \* the code the OS process ended with, NoCode before that
  ret        \* ret[c]: what c's last finished Stop returned

vars == <<os, exitCode, ret>>

Init ==
  /\ os = "none"
  /\ exitCode = NoCode
  /\ ret = [c \in Callers |-> NoCode]

Launch ==
  /\ os = "none"
  /\ os' = "running"
  /\ UNCHANGED <<exitCode, ret>>

End(code) ==
  /\ os = "running"
  /\ os' = "exited"
  /\ exitCode' = code
  /\ UNCHANGED ret

Answer(c) ==
  /\ os = "exited"
  /\ ret' = [ret EXCEPT ![c] = exitCode]
  /\ UNCHANGED <<os, exitCode>>

Next ==
  \/ Launch
  \/ \E code \in Codes : End(code)
  \/ \E c \in Callers : Answer(c)

Spec == Init /\ [][Next]_vars

=============================================================================
