------------------------------- MODULE Bridge -------------------------------
(***************************************************************************)
(* The command bridge of the web server (webserver/bridge.cpp) and the     *)
(* part of the emulation loop that serves it (dosbox.cpp, normal_loop).    *)
(*                                                                         *)
(* A handler on an HTTP worker thread builds a Command on its own stack    *)
(* and calls ExecuteCommand, which queues a POINTER to it and waits on a   *)
(* condition variable until the command is done or the timeout expires.    *)
(* The emulation thread executes all queued commands in one batch, with    *)
(* the mutex held, between two runs of the CPU core.  Each element of      *)
(* Commands stands for one call and its command object.                    *)
(*                                                                         *)
(* The emulation thread is modelled by its call stack.  "loop" is a run of *)
(* normal_loop, "native" a callback handler of the emulated DOS or BIOS    *)
(* (which may run the machine recursively, CALLBACK_RunRealInt), "batch"   *)
(* a ProcessRequests that holds the mutex.  A command in Faulting touches  *)
(* guest memory or an I/O port in a way that may raise a guest exception,  *)
(* which also runs the machine recursively (PAGING_PageFault, IO_WriteB).  *)
(***************************************************************************)
EXTENDS Naturals, Sequences

CONSTANTS
  Commands,   \* the calls made to the bridge
  Faulting,   \* those whose Execute may raise a guest exception
  MaxDepth    \* bound on the nesting of native handlers

ASSUME BridgeAssumption ==
  /\ Faulting \subseteq Commands
  /\ MaxDepth \in Nat

VARIABLES
  pc,        \* where each call is
  late,      \* has the deadline of the call passed?
  outcome,   \* what ExecuteCommand told its caller: returned, or threw
  done,      \* Command::done
  queue,     \* Bridge::queue
  locked,    \* does the emulation thread hold Bridge::mtx?
  next,      \* the position of ProcessRequests' loop in the queue
  stack,     \* the call stack of the emulation thread
  executed   \* history: the commands executed, in order

vars == <<pc, late, outcome, done, queue, locked, next, stack, executed>>

callerVars == <<pc, late, outcome, done, queue>>

Frames == {"loop", "native", "batch"}

Top == stack[Len(stack)]

Push(f) == stack' = Append(stack, f)

Pop == stack' = SubSeq(stack, 1, Len(stack) - 1)

Occurs(c, s) == \E i \in DOMAIN s : s[i] = c

\* queue.erase(std::find(queue.begin(), queue.end(), &cmd)), if it is there
Erase(s, c) ==
  IF Occurs(c, s)
    THEN LET i == CHOOSE i \in DOMAIN s :
                     s[i] = c /\ \A j \in 1 .. i - 1 : s[j] # c
         IN  [j \in 1 .. Len(s) - 1 |-> IF j < i THEN s[j] ELSE s[j + 1]]
    ELSE s

Init ==
  /\ pc = [c \in Commands |-> "new"]
  /\ late = [c \in Commands |-> FALSE]
  /\ outcome = [c \in Commands |-> "none"]
  /\ done = [c \in Commands |-> FALSE]
  /\ queue = <<>>
  /\ locked = FALSE
  /\ next = 1
  /\ stack = <<"loop">>
  /\ executed = <<>>

-----------------------------------------------------------------------------
(* The HTTP worker threads *)

\* A handler builds its command and enters ExecuteCommand.
WaitForCompletion(c) ==
  /\ pc[c] = "new"
  /\ pc' = [pc EXCEPT ![c] = "calling"]
  /\ UNCHANGED <<late, outcome, done, queue, locked, next, stack, executed>>

\* Mutant: the pointer is queued at the front.
EnqueueFirst(c) ==
  /\ pc[c] = "calling"
  /\ ~ locked
  /\ done' = [done EXCEPT ![c] = FALSE]
  /\ queue' = <<c>> \o queue
  /\ pc' = [pc EXCEPT ![c] = "waiting"]
  /\ UNCHANGED <<late, outcome, locked, next, stack, executed>>

\* It gets the mutex, queues the pointer and waits, releasing the mutex.
Enqueue(c) ==
  /\ pc[c] = "calling"
  /\ ~ locked
  /\ done' = [done EXCEPT ![c] = FALSE]
  /\ queue' = Append(queue, c)
  /\ pc' = [pc EXCEPT ![c] = "waiting"]
  /\ UNCHANGED <<late, outcome, locked, next, stack, executed>>

\* The clock reaches the deadline that wait_for computed.
Deadline(c) ==
  /\ pc[c] \in {"waiting", "woken"}
  /\ ~ late[c]
  /\ late' = [late EXCEPT ![c] = TRUE]
  /\ UNCHANGED <<pc, outcome, done, queue, locked, next, stack, executed>>

\* Mutant: wait() instead of wait_for().
NeverExpire(c) == FALSE /\ pc[c] = "waiting" /\ UNCHANGED vars

\* The wait ends with cv_status::timeout; the thread has to get the mutex
\* back, which the emulation thread may hold for a batch with this command.
Expire(c) ==
  /\ pc[c] = "waiting"
  /\ late[c]
  /\ pc' = [pc EXCEPT ![c] = "expired"]
  /\ UNCHANGED <<late, outcome, done, queue, locked, next, stack, executed>>

SpuriousWakeup(c) ==
  /\ pc[c] = "waiting"
  /\ ~ late[c]
  /\ pc' = [pc EXCEPT ![c] = "woken"]
  /\ UNCHANGED <<late, outcome, done, queue, locked, next, stack, executed>>

Return(c, result) ==
  /\ pc' = [pc EXCEPT ![c] = "returned"]
  /\ outcome' = [outcome EXCEPT ![c] = result]

\* Woken, notified or not: the predicate decides whether to wait on.
Wake(c) ==
  /\ pc[c] = "woken"
  /\ ~ locked
  /\ IF done[c]
       THEN Return(c, "ok")
       ELSE pc' = [pc EXCEPT ![c] = "waiting"] /\ UNCHANGED outcome
  /\ UNCHANGED <<late, done, queue, locked, next, stack, executed>>

\* Mutant: the pointer stays in the queue when the call times out.
TimeOutKeepsPointer(c) ==
  /\ pc[c] = "expired"
  /\ ~ locked
  /\ Return(c, IF done[c] THEN "ok" ELSE "timeout")
  /\ UNCHANGED <<late, done, queue, locked, next, stack, executed>>

\* Mutant: a timeout is reported without looking at the predicate again.
TimeOutIgnoresDone(c) ==
  /\ pc[c] = "expired"
  /\ ~ locked
  /\ Return(c, "timeout")
  /\ queue' = Erase(queue, c)
  /\ UNCHANGED <<late, done, locked, next, stack, executed>>

\* wait_for evaluates the predicate once more after the deadline; only a
\* command that is still not done is taken off the queue and reported.
TimeOut(c) ==
  /\ pc[c] = "expired"
  /\ ~ locked
  /\ IF done[c]
       THEN Return(c, "ok") /\ UNCHANGED queue
       ELSE Return(c, "timeout") /\ queue' = Erase(queue, c)
  /\ UNCHANGED <<late, done, locked, next, stack, executed>>

Caller(c) ==
  \/ WaitForCompletion(c)
  \/ Enqueue(c)
  \/ Deadline(c)
  \/ Expire(c)
  \/ SpuriousWakeup(c)
  \/ Wake(c)
  \/ TimeOut(c)

-----------------------------------------------------------------------------
(* The emulation thread *)

\* ProcessRequests with a non-empty queue.  std::mutex is not recursive: a
\* loop that runs below a batch blocks here for ever.
ProcessRequests ==
  /\ Top = "loop"
  /\ ~ locked
  /\ queue # <<>>
  /\ locked' = TRUE
  /\ next' = 1
  /\ Push("batch")
  /\ UNCHANGED <<callerVars, executed>>

\* for (auto* cmd : queue) { cmd->Execute(); cmd->done = true; }
ExecuteNext ==
  /\ Top = "batch"
  /\ next <= Len(queue)
  /\ executed' = Append(executed, queue[next])
  /\ done' = [done EXCEPT ![queue[next]] = TRUE]
  /\ next' = next + 1
  /\ UNCHANGED <<pc, late, outcome, queue, locked, stack>>

\* Execute raises a guest exception, and the machine runs in a nested loop
\* before Execute can go on.
ExecuteFaults ==
  /\ Top = "batch"
  /\ next <= Len(queue)
  /\ queue[next] \in Faulting
  /\ Push("loop")
  /\ UNCHANGED <<callerVars, locked, next, executed>>

\* The end of the batch: clear the queue, wake every waiter, unlock.
FinishBatch ==
  /\ Top = "batch"
  /\ next > Len(queue)
  /\ queue' = <<>>
  /\ pc' = [c \in Commands |-> IF pc[c] = "waiting" THEN "woken" ELSE pc[c]]
  /\ locked' = FALSE
  /\ next' = 1
  /\ Pop
  /\ UNCHANGED <<late, outcome, done, executed>>

\* The CPU core returns a callback number and its handler is called.
CallNative ==
  /\ Top = "loop"
  /\ ~ locked
  /\ Len(stack) < MaxDepth
  /\ Push("native")
  /\ UNCHANGED <<callerVars, locked, next, executed>>

\* The handler runs guest code to do its work (CALLBACK_RunRealInt, ...).
RunMachine ==
  /\ Top = "native"
  /\ Len(stack) < MaxDepth
  /\ Push("loop")
  /\ UNCHANGED <<callerVars, locked, next, executed>>

\* A nested loop stops (CBRET_STOP) once it is past ProcessRequests.
StopMachine ==
  /\ Top = "loop"
  /\ ~ locked
  /\ Len(stack) > 1
  /\ Pop
  /\ UNCHANGED <<callerVars, locked, next, executed>>

NativeReturns ==
  /\ Top = "native"
  /\ Pop
  /\ UNCHANGED <<callerVars, locked, next, executed>>

Emulation ==
  \/ ProcessRequests
  \/ ExecuteNext
  \/ ExecuteFaults
  \/ FinishBatch
  \/ CallNative
  \/ RunMachine
  \/ StopMachine
  \/ NativeReturns

Next ==
  \/ Emulation
  \/ \E c \in Commands : Caller(c)

Spec == Init /\ [][Next]_vars

(***************************************************************************)
(* Fairness.  A worker thread that can run does, and its deadline passes.  *)
(* A batch that was begun is worked off.  Nothing makes the emulation      *)
(* thread BEGIN one: a mount that waits for the archive helper holds it    *)
(* (webserver/control.cpp), and after a shutdown request it is gone.       *)
(***************************************************************************)
Fairness ==
  /\ \A c \in Commands :
       /\ WF_vars(Enqueue(c))
       /\ WF_vars(Deadline(c))
       /\ WF_vars(Expire(c))
       /\ WF_vars(Wake(c))
       /\ WF_vars(TimeOut(c))
  /\ WF_vars(ExecuteNext)
  /\ WF_vars(FinishBatch)

FairSpec == Spec /\ Fairness

-----------------------------------------------------------------------------
(* Properties *)

\* The command object lives on the stack of its handler from the call until
\* ExecuteCommand returns or throws.
Alive(c) == pc[c] \in {"calling", "waiting", "woken", "expired"}

\* Every variable keeps its type, and the iteration of ProcessRequests stays
\* within the vector it iterates over.
TypeOK ==
  /\ pc \in [Commands ->
               {"new", "calling", "waiting", "woken", "expired", "returned"}]
  /\ late \in [Commands -> BOOLEAN]
  /\ outcome \in [Commands -> {"none", "ok", "timeout"}]
  /\ done \in [Commands -> BOOLEAN]
  /\ queue \in Seq(Commands)
  /\ locked \in BOOLEAN
  /\ next \in 1 .. Len(queue) + 1
  /\ stack \in Seq(Frames)
  /\ Len(stack) > 0
  /\ executed \in Seq(Commands)

\* The queue holds raw pointers to stack objects of other threads: none of
\* them may outlive its object, in particular not when a call times out.
NoDanglingCommand == \A i \in DOMAIN queue : Alive(queue[i])

\* A caller that is told "ok" had its command executed, one that is told
\* "timeout" did not and never will; no command is executed twice, whatever
\* the order of deadlines, wakeups and batches.
OutcomesExact ==
  /\ \A c \in Commands :
       /\ outcome[c] = "ok" => Occurs(c, executed)
       /\ outcome[c] = "timeout" => ~ Occurs(c, executed)
  /\ \A i, j \in DOMAIN executed : executed[i] = executed[j] => i = j

\* Whatever the emulation thread does outside a batch, and even if it never
\* serves the queue again, each call returns to its handler, unless a command
\* that faulted runs the machine inside its batch, which holds the mutex.
EveryCallReturns ==
  \A c \in Commands :
    pc[c] = "calling" ~> \/ pc[c] = "returned"
                         \/ \E i \in 1 .. Len(stack) - 1 : stack[i] = "batch"

\* The bridge implements the abstract command service: what is pending is
\* the part of the queue that the batch has not reached.
Service == INSTANCE CommandService
             WITH pending <- SubSeq(queue, next, Len(queue))

ServiceSpec == Service!Spec
=============================================================================
