--------------------------- MODULE CommandService ---------------------------
(***************************************************************************)
(* What the bridge between the web server and the emulation promises to    *)
(* the request handlers, with no mutex, condition variable or stack frame  *)
(* in sight: calls are served in the order they arrived; a call that       *)
(* succeeds was executed, exactly once; a call that timed out was          *)
(* withdrawn before it was executed and never will be.                     *)
(***************************************************************************)
EXTENDS Naturals, Sequences

CONSTANT Commands

VARIABLES
  pending,   \* submitted, neither executed nor withdrawn, oldest first
  executed,  \* every command executed so far, in order
  outcome    \* what the caller was told

vars == <<pending, executed, outcome>>

Occurs(c, s) == \E i \in DOMAIN s : s[i] = c

\* s without its i-th element
Without(s, i) ==
  [j \in 1 .. Len(s) - 1 |-> IF j < i THEN s[j] ELSE s[j + 1]]

Init ==
  /\ pending = <<>>
  /\ executed = <<>>
  /\ outcome = [c \in Commands |-> "none"]

Submit(c) ==
  /\ outcome[c] = "none"
  /\ ~ Occurs(c, pending)
  /\ ~ Occurs(c, executed)
  /\ pending' = Append(pending, c)
  /\ UNCHANGED <<executed, outcome>>

\* Only the oldest pending command may be executed.
Execute ==
  /\ pending # <<>>
  /\ executed' = Append(executed, Head(pending))
  /\ pending' = Tail(pending)
  /\ UNCHANGED outcome

Succeed(c) ==
  /\ outcome[c] = "none"
  /\ Occurs(c, executed)
  /\ outcome' = [outcome EXCEPT ![c] = "ok"]
  /\ UNCHANGED <<pending, executed>>

Withdraw(c) ==
  /\ outcome[c] = "none"
  /\ \E i \in DOMAIN pending :
        /\ pending[i] = c
        /\ pending' = Without(pending, i)
  /\ outcome' = [outcome EXCEPT ![c] = "timeout"]
  /\ UNCHANGED executed

Next ==
  \/ Execute
  \/ \E c \in Commands : Submit(c) \/ Succeed(c) \/ Withdraw(c)

Spec == Init /\ [][Next]_vars
=============================================================================
