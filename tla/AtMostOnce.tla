----------------------------- MODULE AtMostOnce -----------------------------
(***************************************************************************)
(* What a command of the control CLI, or any other caller of the service,  *)
(* may rely on: a request takes effect at most once, an answer "ok" comes  *)
(* from a request that took effect, and one that was refused before it was *)
(* sent never does.  An "error" tells nothing: the request may have taken  *)
(* effect, or may still do so after the caller has left.                   *)
(***************************************************************************)
CONSTANT Calls

VARIABLES
  executed,  \* executed[c]: the handler of the call has run
  answer     \* answer[c]: "none", "ok", "error", "refused"

vars == <<executed, answer>>

Init ==
  /\ executed = [c \in Calls |-> FALSE]
  /\ answer = [c \in Calls |-> "none"]

Execute(c) ==
  /\ ~executed[c]
  /\ answer[c] # "refused"
  /\ executed' = [executed EXCEPT ![c] = TRUE]
  /\ UNCHANGED answer

Answer(c, r) ==
  /\ answer[c] = "none"
  /\ r = "ok" => executed[c]
  /\ r = "refused" => ~executed[c]
  /\ answer' = [answer EXCEPT ![c] = r]
  /\ UNCHANGED executed

Next ==
  \E c \in Calls : \/ Execute(c)
                   \/ \E r \in {"ok", "error", "refused"} : Answer(c, r)

Spec == Init /\ [][Next]_vars

=============================================================================
