-------------------------- MODULE WebServerProofs --------------------------
(***************************************************************************)
(* Theorems about what the web server's threads share with the emulation   *)
(* thread.  The command bridge, for any set of calls and any nesting of    *)
(* the emulation loop; the frame tap, for any number of requests: however  *)
(* deadlines, deliveries and exceptions interleave, no buffer is freed     *)
(* twice, and none is left behind but by an exception.                     *)
(***************************************************************************)
EXTENDS Bridge, FrameTap, SequenceTheorems, FiniteSetTheorems, TLAPS

-----------------------------------------------------------------------------
(* The command bridge: the inductive invariant *)

\* Between its first wait and its return a call is waiting on the condition
\* variable or on its way back from it.
InWait(c) == pc[c] \in {"waiting", "woken", "expired"}

\* The queue holds each call at most once, only calls that are in their
\* wait, and every such call that is not done.
QueueInv ==
  /\ \A i, j \in DOMAIN queue : queue[i] = queue[j] => i = j
  /\ \A i \in DOMAIN queue : InWait(queue[i])
  /\ \A c \in Commands : InWait(c) /\ ~ done[c] => Occurs(c, queue)

\* Within a batch exactly the commands before the iterator are done;
\* outside a batch none is.
BatchInv ==
  /\ \A i \in DOMAIN queue : done[queue[i]] <=> i < next
  /\ ~ locked => next = 1

\* The flag `done' is set exactly for the commands that were executed.
DoneInv ==
  /\ \A c \in Commands : done[c] <=> Occurs(c, executed)
  /\ \A i, j \in DOMAIN executed : executed[i] = executed[j] => i = j
  /\ \A c \in Commands : pc[c] \in {"new", "calling"} => ~ done[c]

\* A call has an outcome exactly when it has returned, and the outcome says
\* whether it is done.
OutcomeInv ==
  \A c \in Commands :
    /\ pc[c] = "returned" <=> outcome[c] # "none"
    /\ outcome[c] = "ok" => done[c]
    /\ outcome[c] = "timeout" => ~ done[c]

\* The emulation thread runs its outermost loop at the bottom of its stack;
\* it has at most one batch there, and holds the mutex while it has.
StackInv ==
  /\ stack[1] = "loop"
  /\ \A i \in DOMAIN stack : stack[i] = "batch" => locked
  /\ \A i, j \in DOMAIN stack : stack[i] = "batch" /\ stack[j] = "batch" => i = j

IndInv == TypeOK /\ QueueInv /\ BatchInv /\ DoneInv /\ OutcomeInv /\ StackInv

-----------------------------------------------------------------------------
(* Lemmas about sequences *)

\* Erasing a call from a queue without duplicates removes exactly one entry
\* and keeps the order of the others.
LEMMA EraseFacts ==
  ASSUME NEW S, NEW s \in Seq(S), NEW c, Occurs(c, s),
         \A i, j \in DOMAIN s : s[i] = s[j] => i = j
  PROVE  \E i \in 1 .. Len(s) :
           /\ s[i] = c
           /\ Erase(s, c) =
                [j \in 1 .. Len(s) - 1 |-> IF j < i THEN s[j] ELSE s[j + 1]]
<1>1. PICK k \in DOMAIN s : s[k] = c
  BY DEF Occurs
<1>2. DOMAIN s = 1 .. Len(s) /\ Len(s) \in Nat
  BY LenProperties
<1>3. \A j \in 1 .. k - 1 : s[j] # c
  BY <1>1, <1>2
<1> DEFINE i == CHOOSE i \in DOMAIN s :
                   s[i] = c /\ \A j \in 1 .. i - 1 : s[j] # c
<1>4. i \in DOMAIN s /\ s[i] = c
  BY <1>1, <1>3
<1>5. Erase(s, c) =
        [j \in 1 .. Len(s) - 1 |-> IF j < i THEN s[j] ELSE s[j + 1]]
  BY DEF Erase
<1>6. QED
  BY <1>2, <1>4, <1>5

\* What is left after an erasure: a sequence without the erased call, in
\* which every other call of the queue still occurs.
LEMMA EraseKeeps ==
  ASSUME NEW S, NEW s \in Seq(S), NEW c, Occurs(c, s),
         \A i, j \in DOMAIN s : s[i] = s[j] => i = j
  PROVE  /\ Erase(s, c) \in Seq(S)
         /\ \A d : Occurs(d, Erase(s, c)) <=> Occurs(d, s) /\ d # c
         /\ \A i, j \in DOMAIN Erase(s, c) :
              Erase(s, c)[i] = Erase(s, c)[j] => i = j
<1>1. PICK k \in 1 .. Len(s) :
        /\ s[k] = c
        /\ Erase(s, c) =
             [j \in 1 .. Len(s) - 1 |-> IF j < k THEN s[j] ELSE s[j + 1]]
  BY EraseFacts
<1>2. DOMAIN s = 1 .. Len(s) /\ Len(s) \in Nat /\ \A j \in 1 .. Len(s) : s[j] \in S
  BY LenProperties, ElementOfSeq
<1> DEFINE t == [j \in 1 .. Len(s) - 1 |-> IF j < k THEN s[j] ELSE s[j + 1]]
<1>3. Len(s) - 1 \in Nat /\ DOMAIN t = 1 .. Len(s) - 1
  BY <1>2
<1>4. \A j \in 1 .. Len(s) - 1 : t[j] = IF j < k THEN s[j] ELSE s[j + 1]
  OBVIOUS
<1>5. t = Erase(s, c)
  BY <1>1
<1> HIDE DEF t
<1>6. t \in Seq(S)
  <2>1. t \in [1 .. Len(s) - 1 -> S]
    BY <1>2, <1>3 DEF t
  <2>2. QED
    BY <1>3, <2>1, SeqDef
<1>7. ASSUME NEW d PROVE Occurs(d, t) <=> Occurs(d, s) /\ d # c
  <2>1. ASSUME NEW m \in 1 .. Len(s) - 1, t[m] = d PROVE Occurs(d, s) /\ d # c
    <3>1. CASE m < k
      <4>1. m \in 1 .. Len(s) /\ m # k /\ s[m] = d
        BY <1>2, <1>4, <2>1, <3>1
      <4>2. QED
        BY <1>1, <1>2, <4>1 DEF Occurs
    <3>2. CASE m >= k
      <4>1. m + 1 \in 1 .. Len(s) /\ m + 1 # k /\ s[m + 1] = d
        BY <1>2, <1>4, <2>1, <3>2
      <4>2. QED
        BY <1>1, <1>2, <4>1 DEF Occurs
    <3>3. QED
      BY <3>1, <3>2
  <2>2. ASSUME NEW m \in 1 .. Len(s), s[m] = d, d # c PROVE Occurs(d, t)
    <3>1. CASE m < k
      BY <1>2, <1>3, <1>4, <2>2, <3>1 DEF Occurs
    <3>2. CASE m > k
      <4>1. m - 1 \in 1 .. Len(s) - 1 /\ t[m - 1] = d
        BY <1>2, <1>4, <2>2, <3>2
      <4>2. QED
        BY <1>3, <4>1 DEF Occurs
    <3>3. QED
      BY <1>1, <2>2, <3>1, <3>2
  <2>3. QED
    BY <1>2, <1>3, <2>1, <2>2 DEF Occurs
<1>8. ASSUME NEW i \in 1 .. Len(s) - 1, NEW j \in 1 .. Len(s) - 1, t[i] = t[j]
      PROVE  i = j
  <2> DEFINE src(m) == IF m < k THEN m ELSE m + 1
  <2>1. \A m \in 1 .. Len(s) - 1 : src(m) \in 1 .. Len(s) /\ t[m] = s[src(m)]
    BY <1>2, <1>4
  <2>2. src(i) = src(j)
    BY <1>2, <1>8, <2>1
  <2>3. QED
    BY <2>2
<1>9. QED
  BY <1>3, <1>5, <1>6, <1>7, <1>8

\* A sequence grows by one element at its end.
LEMMA AppendFacts ==
  ASSUME NEW S, NEW s \in Seq(S), NEW e \in S
  PROVE  /\ Append(s, e) \in Seq(S)
         /\ Len(Append(s, e)) = Len(s) + 1
         /\ DOMAIN Append(s, e) = 1 .. Len(s) + 1
         /\ \A i \in 1 .. Len(s) : Append(s, e)[i] = s[i]
         /\ Append(s, e)[Len(s) + 1] = e
         /\ \A d : Occurs(d, Append(s, e)) <=> Occurs(d, s) \/ d = e
  BY DEF Occurs

\* A sequence shrinks by its last element.
LEMMA PopFacts ==
  ASSUME NEW S, NEW s \in Seq(S), Len(s) > 0
  PROVE  /\ SubSeq(s, 1, Len(s) - 1) \in Seq(S)
         /\ Len(SubSeq(s, 1, Len(s) - 1)) = Len(s) - 1
         /\ DOMAIN SubSeq(s, 1, Len(s) - 1) = 1 .. Len(s) - 1
         /\ \A i \in 1 .. Len(s) - 1 : SubSeq(s, 1, Len(s) - 1)[i] = s[i]
<1>1. Len(s) \in Nat /\ \A i \in 1 .. Len(s) : s[i] \in S
  BY LenProperties, ElementOfSeq
<1> DEFINE n == Len(s) - 1
           t == SubSeq(s, 1, n)
<1>2. n \in Nat /\ \A i \in 1 .. n : s[i] \in S
  BY <1>1
<1> HIDE DEF n
<1>3. /\ t \in Seq(S)
      /\ Len(t) = IF 1 <= n THEN n - 1 + 1 ELSE 0
      /\ \A i \in 1 .. n - 1 + 1 : t[i] = s[1 + i - 1]
  BY <1>2, SubSeqProperties
<1> HIDE DEF t
<1>4. Len(t) = n
  BY <1>2, <1>3
<1>5. ASSUME NEW i \in 1 .. n PROVE t[i] = s[i]
  <2>1. i \in 1 .. n - 1 + 1 /\ 1 + i - 1 = i
    BY <1>2
  <2>2. QED
    BY <1>3, <2>1
<1>6. DOMAIN t = 1 .. n
  BY <1>3, <1>4, LenProperties
<1>7. QED
  BY <1>3, <1>4, <1>5, <1>6 DEF t, n

-----------------------------------------------------------------------------
(* The inductive invariant *)

LEMMA InitInv == Init => IndInv
<1> SUFFICES ASSUME Init PROVE IndInv
  OBVIOUS
<1> USE DEF Init
<1>1. TypeOK
  <2>1. /\ pc \in [Commands ->
               {"new", "calling", "waiting", "woken", "expired", "returned"}]
        /\ late \in [Commands -> BOOLEAN]
        /\ outcome \in [Commands -> {"none", "ok", "timeout"}]
        /\ done \in [Commands -> BOOLEAN]
        /\ locked \in BOOLEAN
    OBVIOUS
  <2>2. queue \in Seq(Commands) /\ executed \in Seq(Commands)
    OBVIOUS
  <2>3. stack \in Seq(Frames) /\ Len(stack) > 0
    BY DEF Frames
  <2>4. next \in 1 .. Len(queue) + 1
    OBVIOUS
  <2>5. QED
    BY <2>1, <2>2, <2>3, <2>4 DEF TypeOK
<1>2. DOMAIN queue = 1 .. 0 /\ DOMAIN executed = 1 .. 0 /\ DOMAIN stack = 1 .. 1
  OBVIOUS
<1>3. QueueInv /\ BatchInv
  BY <1>2 DEF QueueInv, BatchInv, InWait
<1>4. DoneInv /\ OutcomeInv
  BY <1>2 DEF DoneInv, OutcomeInv, Occurs
<1>5. StackInv
  BY <1>2 DEF StackInv
<1>6. QED
  BY <1>1, <1>3, <1>4, <1>5 DEF IndInv

\* A handler enters ExecuteCommand.
LEMMA WaitForCompletionInv ==
  ASSUME IndInv, NEW c \in Commands, WaitForCompletion(c)
  PROVE  IndInv'
<1> USE DEF IndInv, WaitForCompletion
<1>1. TypeOK'
  BY DEF TypeOK
<1>2. \A d \in Commands : pc'[d] = IF d = c THEN "calling" ELSE pc[d]
  BY DEF TypeOK
<1>3. QueueInv'
  BY <1>2 DEF TypeOK, QueueInv, InWait, Occurs
<1>4. BatchInv' /\ StackInv'
  BY DEF BatchInv, StackInv
<1>5. DoneInv'
  BY <1>2 DEF DoneInv, Occurs
<1>6. OutcomeInv'
  BY <1>2 DEF OutcomeInv
<1>7. QED
  BY <1>1, <1>3, <1>4, <1>5, <1>6

\* A pointer is queued: it is new to the queue because its call was not yet
\* in its wait.
LEMMA EnqueueInv ==
  ASSUME IndInv, NEW c \in Commands, Enqueue(c)
  PROVE  IndInv'
<1> USE DEF IndInv, Enqueue
<1>1. /\ queue' \in Seq(Commands)
      /\ Len(queue') = Len(queue) + 1
      /\ DOMAIN queue' = 1 .. Len(queue) + 1
      /\ \A i \in 1 .. Len(queue) : queue'[i] = queue[i]
      /\ queue'[Len(queue) + 1] = c
      /\ \A d \in Commands : Occurs(d, queue)' <=> Occurs(d, queue) \/ d = c
  <2>1. queue \in Seq(Commands) /\ queue' = Append(queue, c)
    BY DEF TypeOK
  <2>2. \A d : Occurs(d, Append(queue, c)) <=> Occurs(d, queue) \/ d = c
    BY <2>1, AppendFacts
  <2>3. \A d \in Commands : Occurs(d, queue)' <=> Occurs(d, Append(queue, c))
    BY <2>1 DEF Occurs
  <2>4. QED
    BY <2>1, <2>2, <2>3, AppendFacts
<1>2. Len(queue) \in Nat /\ DOMAIN queue = 1 .. Len(queue)
  BY LenProperties DEF TypeOK
<1>3. \A d \in Commands : pc'[d] = IF d = c THEN "waiting" ELSE pc[d]
  BY DEF TypeOK
<1>4. done' = done /\ ~ done[c]
  BY DEF TypeOK, DoneInv
<1>5. \A i \in 1 .. Len(queue) : queue[i] # c /\ queue[i] \in Commands
  <2>1. \A i \in 1 .. Len(queue) : queue[i] \in Commands
    BY ElementOfSeq DEF TypeOK
  <2>2. \A i \in 1 .. Len(queue) : queue[i] # c
    BY <1>2 DEF QueueInv, InWait
  <2>3. QED
    BY <2>1, <2>2
<1>6. TypeOK'
  BY <1>1, <1>2, <1>4 DEF TypeOK
<1>7. QueueInv'
  <2>1. \A i, j \in 1 .. Len(queue) + 1 : queue'[i] = queue'[j] => i = j
    BY <1>1, <1>2, <1>5 DEF QueueInv
  <2>2. \A i \in 1 .. Len(queue) + 1 :
          pc'[queue'[i]] \in {"waiting", "woken", "expired"}
    BY <1>1, <1>2, <1>3, <1>5 DEF QueueInv, InWait
  <2>3. \A d \in Commands : InWait(d)' /\ ~ done'[d] => Occurs(d, queue)'
    BY <1>1, <1>3, <1>4 DEF QueueInv, InWait
  <2>4. QED
    BY <1>1, <2>1, <2>2, <2>3 DEF QueueInv, InWait
<1>8. BatchInv'
  BY <1>1, <1>2, <1>4 DEF BatchInv, TypeOK
<1>9. DoneInv' /\ StackInv'
  BY <1>3, <1>4 DEF DoneInv, StackInv, Occurs
<1>10. OutcomeInv'
  BY <1>3, <1>4 DEF OutcomeInv
<1>11. QED
  BY <1>6, <1>7, <1>8, <1>9, <1>10

\* Deadlines and wakeups move a call about within its wait.
LEMMA WaitInv ==
  ASSUME IndInv, NEW c \in Commands,
         Deadline(c) \/ Expire(c) \/ SpuriousWakeup(c)
  PROVE  IndInv'
<1> USE DEF IndInv, Deadline, Expire, SpuriousWakeup
<1>1. /\ TypeOK'
      /\ UNCHANGED <<outcome, done, queue, locked, next, stack, executed>>
  BY DEF TypeOK
<1>2. InWait(c) /\ InWait(c)'
  BY DEF TypeOK, InWait
<1>3. \A d \in Commands : d # c => pc'[d] = pc[d]
  BY DEF TypeOK
<1>4. QueueInv'
  <2>1. \A d \in Commands : InWait(d)' <=> InWait(d)
    BY <1>2, <1>3 DEF InWait
  <2>2. \A i \in DOMAIN queue : queue[i] \in Commands
    BY LenProperties, ElementOfSeq DEF TypeOK
  <2>3. QED
    BY <1>1, <2>1, <2>2 DEF QueueInv, Occurs
<1>5. BatchInv' /\ StackInv'
  BY <1>1 DEF BatchInv, StackInv
<1>6. DoneInv' /\ OutcomeInv'
  BY <1>1, <1>2, <1>3 DEF DoneInv, OutcomeInv, InWait, Occurs
<1>7. QED
  BY <1>1, <1>4, <1>5, <1>6

\* A woken call returns or waits on.
LEMMA WakeInv ==
  ASSUME IndInv, NEW c \in Commands, Wake(c)
  PROVE  IndInv'
<1> USE DEF IndInv, Wake, Return
<1>1. UNCHANGED <<late, done, queue, locked, next, stack, executed>>
  OBVIOUS
<1>2. \A d \in Commands : d # c => pc'[d] = pc[d] /\ outcome'[d] = outcome[d]
  BY DEF TypeOK
<1>3. \/ done[c] /\ pc'[c] = "returned" /\ outcome'[c] = "ok"
      \/ ~ done[c] /\ pc'[c] = "waiting" /\ outcome'[c] = outcome[c]
  BY DEF TypeOK
<1>4. TypeOK'
  BY DEF TypeOK
<1>5. \A i \in DOMAIN queue : queue[i] \in Commands /\ ~ done[queue[i]]
  <2>1. \A i \in DOMAIN queue : i \in 1 .. Len(queue) /\ queue[i] \in Commands
    BY LenProperties, ElementOfSeq DEF TypeOK
  <2>2. QED
    BY <2>1 DEF BatchInv
<1>6. QueueInv'
  BY <1>1, <1>2, <1>3, <1>5 DEF QueueInv, InWait, Occurs
<1>7. BatchInv' /\ StackInv'
  BY <1>1 DEF BatchInv, StackInv
<1>8. DoneInv' /\ OutcomeInv'
  BY <1>1, <1>2, <1>3 DEF DoneInv, OutcomeInv, Occurs
<1>9. QED
  BY <1>4, <1>6, <1>7, <1>8

\* A call whose deadline passed returns if it is done, and otherwise takes
\* its pointer off the queue.
LEMMA TimeOutInv ==
  ASSUME IndInv, NEW c \in Commands, TimeOut(c)
  PROVE  IndInv'
<1> USE DEF IndInv, TimeOut, Return
<1>1. UNCHANGED <<late, done, locked, next, stack, executed>> /\ next = 1
  BY DEF BatchInv
<1>2. \A d \in Commands : d # c => pc'[d] = pc[d] /\ outcome'[d] = outcome[d]
  BY DEF TypeOK
<1>3. pc[c] = "expired" /\ pc'[c] = "returned"
  BY DEF TypeOK
<1>4. \A i \in DOMAIN queue :
        i \in 1 .. Len(queue) /\ queue[i] \in Commands /\ ~ done[queue[i]]
  <2>1. \A i \in DOMAIN queue : i \in 1 .. Len(queue) /\ queue[i] \in Commands
    BY LenProperties, ElementOfSeq DEF TypeOK
  <2>2. QED
    BY <1>1, <2>1 DEF BatchInv
<1>5. CASE done[c]
  <2>1. queue' = queue /\ outcome'[c] = "ok"
    BY <1>5 DEF TypeOK
  <2>2. TypeOK'
    BY <1>5 DEF TypeOK
  <2>3. QueueInv'
    BY <1>1, <1>2, <1>3, <1>4, <1>5, <2>1 DEF QueueInv, InWait, Occurs
  <2>4. BatchInv' /\ StackInv'
    BY <1>1, <2>1 DEF BatchInv, StackInv
  <2>5. DoneInv' /\ OutcomeInv'
    BY <1>1, <1>2, <1>3, <1>5, <2>1 DEF DoneInv, OutcomeInv, Occurs
  <2>6. QED
    BY <2>2, <2>3, <2>4, <2>5
<1>6. CASE ~ done[c]
  <2>1. queue' = Erase(queue, c) /\ outcome'[c] = "timeout"
    BY <1>6 DEF TypeOK
  <2>2. Occurs(c, queue)
    BY <1>3, <1>6 DEF QueueInv, InWait
  <2>3. /\ queue' \in Seq(Commands)
        /\ \A d : Occurs(d, Erase(queue, c)) <=> Occurs(d, queue) /\ d # c
        /\ \A i, j \in DOMAIN queue' : queue'[i] = queue'[j] => i = j
    BY <2>1, <2>2, EraseKeeps DEF TypeOK, QueueInv
  <2>4. \A d \in Commands : Occurs(d, queue)' <=> Occurs(d, queue) /\ d # c
    BY <2>1, <2>3 DEF Occurs
  <2>5. \A i \in DOMAIN queue' :
          /\ i \in 1 .. Len(queue')
          /\ queue'[i] \in Commands
          /\ queue'[i] # c
          /\ ~ done[queue'[i]]
          /\ pc[queue'[i]] \in {"waiting", "woken", "expired"}
    <3> SUFFICES ASSUME NEW i \in DOMAIN queue'
                 PROVE  /\ i \in 1 .. Len(queue')
                        /\ queue'[i] \in Commands
                        /\ queue'[i] # c
                        /\ ~ done[queue'[i]]
                        /\ pc[queue'[i]] \in {"waiting", "woken", "expired"}
      OBVIOUS
    <3>1. i \in 1 .. Len(queue') /\ queue'[i] \in Commands
      BY <2>3, LenProperties, ElementOfSeq
    <3>2. Occurs(queue'[i], Erase(queue, c))
      BY <2>1 DEF Occurs
    <3>3. Occurs(queue'[i], queue) /\ queue'[i] # c
      BY <2>3, <3>2
    <3>4. PICK j \in DOMAIN queue : queue[j] = queue'[i]
      BY <3>3 DEF Occurs
    <3>5. QED
      BY <1>4, <3>1, <3>3, <3>4 DEF QueueInv, InWait
  <2>6. TypeOK'
    <3>1. Len(queue') \in Nat
      BY <2>3, LenProperties
    <3>2. next' \in 1 .. Len(queue') + 1
      BY <1>1, <3>1
    <3>3. pc' \in [Commands ->
               {"new", "calling", "waiting", "woken", "expired", "returned"}]
      BY DEF TypeOK
    <3>4. outcome' \in [Commands -> {"none", "ok", "timeout"}]
      BY <1>6 DEF TypeOK
    <3>5. QED
      BY <1>1, <2>3, <3>2, <3>3, <3>4 DEF TypeOK
  <2>7. QueueInv'
    BY <1>1, <1>2, <1>3, <2>3, <2>4, <2>5 DEF QueueInv, InWait
  <2>8. BatchInv' /\ StackInv'
    BY <1>1, <2>5 DEF BatchInv, StackInv
  <2>9. DoneInv' /\ OutcomeInv'
    BY <1>1, <1>2, <1>3, <1>6, <2>1 DEF DoneInv, OutcomeInv, Occurs
  <2>10. QED
    BY <2>6, <2>7, <2>8, <2>9
<1>7. QED
  BY <1>5, <1>6

\* A batch begins: no other batch is on the stack, because the mutex was free.
LEMMA ProcessRequestsInv ==
  ASSUME IndInv, ProcessRequests
  PROVE  IndInv'
<1> USE DEF IndInv, ProcessRequests, callerVars
<1>1. stack \in Seq(Frames) /\ "batch" \in Frames /\ stack' = Append(stack, "batch")
  BY DEF TypeOK, Push, Frames
<1>2. /\ stack' \in Seq(Frames)
      /\ Len(stack') = Len(stack) + 1
      /\ DOMAIN stack' = 1 .. Len(stack) + 1
      /\ \A i \in 1 .. Len(stack) : stack'[i] = stack[i]
  BY <1>1, AppendFacts
<1>3. DOMAIN stack = 1 .. Len(stack) /\ Len(stack) \in Nat
  BY <1>1, LenProperties
<1>4. TypeOK'
  BY <1>2, <1>3 DEF TypeOK
<1>5. next = 1
  BY DEF BatchInv
<1>6. QueueInv' /\ BatchInv'
  BY <1>5 DEF QueueInv, BatchInv, InWait, Occurs
<1>7. DoneInv' /\ OutcomeInv'
  BY DEF DoneInv, OutcomeInv, Occurs
<1>8. StackInv'
  <2>1. 1 \in 1 .. Len(stack)
    BY <1>3 DEF TypeOK
  <2>2. QED
    BY <1>2, <1>3, <2>1 DEF StackInv
<1>9. QED
  BY <1>4, <1>6, <1>7, <1>8

\* The command at the iterator is executed; it was not done before.
LEMMA ExecuteNextInv ==
  ASSUME IndInv, ExecuteNext
  PROVE  IndInv'
<1> USE DEF IndInv, ExecuteNext
<1> DEFINE c == queue[next]
<1>1. /\ DOMAIN queue = 1 .. Len(queue)
      /\ Len(queue) \in Nat
      /\ \A i \in 1 .. Len(queue) : queue[i] \in Commands
      /\ next \in 1 .. Len(queue)
  BY LenProperties, ElementOfSeq DEF TypeOK
<1>2. c \in Commands /\ ~ done[c] /\ InWait(c)
  BY <1>1 DEF BatchInv, QueueInv
<1>3. \A d \in Commands : done'[d] = IF d = c THEN TRUE ELSE done[d]
  BY <1>2 DEF TypeOK
<1>4. /\ executed' \in Seq(Commands)
      /\ DOMAIN executed' = 1 .. Len(executed) + 1
      /\ \A i \in 1 .. Len(executed) : executed'[i] = executed[i]
      /\ executed'[Len(executed) + 1] = c
      /\ \A d : Occurs(d, Append(executed, c)) <=> Occurs(d, executed) \/ d = c
  BY <1>2, AppendFacts DEF TypeOK
<1>5. DOMAIN executed = 1 .. Len(executed) /\ Len(executed) \in Nat
  BY LenProperties DEF TypeOK
<1>6. TypeOK'
  <2>1. done' \in [Commands -> BOOLEAN]
    BY <1>2 DEF TypeOK
  <2>2. next' \in 1 .. Len(queue) + 1
    BY <1>1
  <2>3. QED
    BY <1>4, <2>1, <2>2 DEF TypeOK
<1>7. QueueInv'
  <2>1. \A d \in Commands : ~ done'[d] => ~ done[d]
    BY <1>3
  <2>2. QED
    BY <2>1 DEF QueueInv, InWait, Occurs
<1>8. BatchInv'
  <2>1. \A i \in 1 .. Len(queue) : queue[i] = c <=> i = next
    BY <1>1 DEF QueueInv
  <2>2. ASSUME NEW i \in 1 .. Len(queue)
        PROVE  done'[queue[i]] <=> i < next + 1
    <3>1. queue[i] \in Commands /\ (done[queue[i]] <=> i < next)
      BY <1>1 DEF BatchInv
    <3>2. CASE i = next
      <4>1. i < next + 1
        BY <1>1, <3>2
      <4>2. done'[queue[i]]
        BY <1>2, <1>3, <3>2
      <4>3. QED
        BY <4>1, <4>2
    <3>3. CASE i # next
      <4>1. done'[queue[i]] = done[queue[i]]
        BY <1>3, <2>1, <3>1, <3>3
      <4>2. i < next <=> i < next + 1
        BY <1>1, <3>3
      <4>3. QED
        BY <3>1, <4>1, <4>2, Zenon
    <3>4. QED
      BY <3>2, <3>3
  <2>3. locked
    BY LenProperties DEF Top, StackInv, TypeOK
  <2>4. QED
    BY <1>1, <2>2, <2>3 DEF BatchInv
<1>9. DoneInv'
  <2>1. ~ Occurs(c, executed)
    BY <1>2 DEF DoneInv
  <2>2. \A d \in Commands : Occurs(d, executed)' <=> Occurs(d, executed) \/ d = c
    BY <1>4 DEF Occurs
  <2>3. \A i, j \in 1 .. Len(executed) + 1 : executed'[i] = executed'[j] => i = j
    BY <1>4, <1>5, <2>1 DEF DoneInv, Occurs
  <2>4. \A d \in Commands : pc'[d] \in {"new", "calling"} => ~ done'[d]
    BY <1>2, <1>3 DEF DoneInv, InWait
  <2>5. \A d \in Commands : done'[d] <=> Occurs(d, executed)'
    BY <1>3, <2>2 DEF DoneInv
  <2>6. QED
    BY <1>4, <2>3, <2>4, <2>5 DEF DoneInv
<1>10. OutcomeInv'
  BY <1>2, <1>3 DEF OutcomeInv, InWait
<1>11. StackInv'
  BY DEF StackInv
<1>12. QED
  BY <1>6, <1>7, <1>8, <1>9, <1>10, <1>11

\* The batch ends: every queued command is done, so none is lost with the
\* queue, and the mutex goes with the only batch on the stack.
LEMMA FinishBatchInv ==
  ASSUME IndInv, FinishBatch
  PROVE  IndInv'
<1> USE DEF IndInv, FinishBatch
<1>1. stack \in Seq(Frames) /\ Len(stack) \in Nat /\ DOMAIN stack = 1 .. Len(stack)
  BY LenProperties DEF TypeOK
<1>2. /\ stack' \in Seq(Frames)
      /\ Len(stack') = Len(stack) - 1
      /\ DOMAIN stack' = 1 .. Len(stack) - 1
      /\ \A i \in 1 .. Len(stack) - 1 : stack'[i] = stack[i]
  BY <1>1, PopFacts DEF Pop, TypeOK
<1>3. \A i \in 1 .. Len(stack) - 1 : stack[i] # "batch"
  BY <1>1 DEF StackInv, Top
<1>4. \A d \in Commands :
        /\ InWait(d)' <=> InWait(d)
        /\ pc'[d] \in {"new", "calling"} <=> pc[d] \in {"new", "calling"}
        /\ pc'[d] = "returned" <=> pc[d] = "returned"
  BY DEF TypeOK, InWait
<1>5. \A d \in Commands : Occurs(d, queue) => done[d]
  <2>1. Len(queue) \in Nat /\ DOMAIN queue = 1 .. Len(queue) /\ next \in Nat
    BY LenProperties DEF TypeOK
  <2>2. QED
    BY <2>1 DEF BatchInv, Occurs
<1>6. DOMAIN queue' = 1 .. 0
  OBVIOUS
<1>7. QueueInv' /\ BatchInv'
  BY <1>4, <1>5, <1>6 DEF QueueInv, BatchInv
<1>8. DoneInv' /\ OutcomeInv'
  BY <1>4 DEF DoneInv, OutcomeInv, Occurs
<1>9. Len(stack) > 1
  BY <1>1 DEF StackInv, Top, TypeOK
<1>10. StackInv'
  BY <1>1, <1>2, <1>3, <1>9 DEF StackInv
<1>11. TypeOK'
  <2>1. Len(stack') > 0
    BY <1>1, <1>2, <1>9
  <2>2. pc' \in [Commands ->
               {"new", "calling", "waiting", "woken", "expired", "returned"}]
    BY DEF TypeOK
  <2>3. queue' \in Seq(Commands) /\ next' \in 1 .. Len(queue') + 1
    OBVIOUS
  <2>4. QED
    BY <1>2, <2>1, <2>2, <2>3 DEF TypeOK
<1>12. QED
  BY <1>7, <1>8, <1>10, <1>11

\* Guest code and native handlers only move the stack: they push a frame
\* that is not a batch, or pop one.
LEMMA StackStepInv ==
  ASSUME IndInv,
         ExecuteFaults \/ CallNative \/ RunMachine \/ StopMachine \/ NativeReturns
  PROVE  IndInv'
<1> USE DEF IndInv
<1>1. stack \in Seq(Frames) /\ Len(stack) \in Nat /\ DOMAIN stack = 1 .. Len(stack)
  BY LenProperties DEF TypeOK
<1>2. UNCHANGED <<pc, late, outcome, done, queue, locked, next, executed>>
  BY DEF ExecuteFaults, CallNative, RunMachine, StopMachine, NativeReturns,
         callerVars
<1>3. QueueInv' /\ BatchInv' /\ DoneInv' /\ OutcomeInv'
  BY <1>2 DEF QueueInv, BatchInv, DoneInv, OutcomeInv, InWait, Occurs
<1>4. TypeOK' /\ StackInv'
  <2>1. CASE \E f \in {"loop", "native"} : stack' = Append(stack, f)
    <3>1. PICK f \in {"loop", "native"} : stack' = Append(stack, f)
      BY <2>1
    <3>2. f \in Frames
      BY DEF Frames
    <3>3. /\ stack' \in Seq(Frames)
          /\ Len(stack') = Len(stack) + 1
          /\ DOMAIN stack' = 1 .. Len(stack) + 1
          /\ \A i \in 1 .. Len(stack) : stack'[i] = stack[i]
          /\ stack'[Len(stack) + 1] = f
      BY <1>1, <3>1, <3>2, AppendFacts
    <3>4. TypeOK'
      BY <1>1, <1>2, <3>3 DEF TypeOK
    <3>5. 1 \in 1 .. Len(stack) /\ f # "batch"
      BY <1>1 DEF TypeOK
    <3>6. \A i \in 1 .. Len(stack) + 1 :
            stack'[i] = "batch" => i \in 1 .. Len(stack) /\ stack[i] = "batch"
      BY <1>1, <3>3, <3>5
    <3>7. StackInv'
      BY <1>1, <1>2, <3>3, <3>5, <3>6 DEF StackInv
    <3>8. QED
      BY <3>4, <3>7
  <2>2. CASE stack' = SubSeq(stack, 1, Len(stack) - 1) /\ Len(stack) > 1
    <3>1. /\ stack' \in Seq(Frames)
          /\ Len(stack') = Len(stack) - 1
          /\ DOMAIN stack' = 1 .. Len(stack) - 1
          /\ \A i \in 1 .. Len(stack) - 1 : stack'[i] = stack[i]
      BY <1>1, <2>2, PopFacts
    <3>2. Len(stack') > 0 /\ 1 \in 1 .. Len(stack) - 1
      BY <1>1, <2>2, <3>1
    <3>3. TypeOK'
      BY <1>2, <3>1, <3>2 DEF TypeOK
    <3>4. StackInv'
      BY <1>1, <1>2, <3>1, <3>2 DEF StackInv
    <3>5. QED
      BY <3>3, <3>4
  <2>3. NativeReturns => Len(stack) > 1
    BY <1>1 DEF NativeReturns, Top, StackInv, TypeOK
  <2>4. QED
    BY <2>1, <2>2, <2>3 DEF ExecuteFaults, CallNative, RunMachine,
                            StopMachine, NativeReturns, Push, Pop
<1>5. QED
  BY <1>3, <1>4

\* Every step of the bridge preserves the inductive invariant.
THEOREM Inductive == IndInv /\ [Next]_vars => IndInv'
<1> SUFFICES ASSUME IndInv, [Next]_vars PROVE IndInv'
  OBVIOUS
<1>1. CASE UNCHANGED vars
  BY <1>1 DEF vars, IndInv, TypeOK, QueueInv, BatchInv, DoneInv, OutcomeInv,
              StackInv, InWait, Occurs
<1>2. CASE Emulation
  BY <1>2, ProcessRequestsInv, ExecuteNextInv, FinishBatchInv, StackStepInv
     DEF Emulation
<1>3. ASSUME NEW c \in Commands, Caller(c) PROVE IndInv'
  BY <1>3, WaitForCompletionInv, EnqueueInv, WaitInv, WakeInv, TimeOutInv
     DEF Caller
<1>4. QED
  BY <1>1, <1>2, <1>3 DEF Next

THEOREM Invariance == Spec => []IndInv
<1>1. QED
  BY InitInv, Inductive, PTL DEF Spec

\* Type correctness: in particular the position of ProcessRequests' loop never
\* leaves the vector of pointers, which handlers grow and shrink meanwhile.
THEOREM TypeCorrect == Spec => []TypeOK
<1>1. IndInv => TypeOK
  BY DEF IndInv
<1>2. QED
  BY <1>1, Invariance, PTL

\* However calls, deadlines, wakeups and batches interleave, the queue never
\* holds a pointer to a command object whose handler has returned.
THEOREM NoDangling == Spec => []NoDanglingCommand
<1>1. IndInv => NoDanglingCommand
  BY DEF IndInv, QueueInv, InWait, NoDanglingCommand, Alive
<1>2. QED
  BY <1>1, Invariance, PTL

\* "ok" means executed exactly once, "timeout" means never executed.
THEOREM Outcomes == Spec => []OutcomesExact
<1>1. IndInv => OutcomesExact
  BY DEF IndInv, DoneInv, OutcomeInv, OutcomesExact
<1>2. QED
  BY <1>1, Invariance, PTL

-----------------------------------------------------------------------------
(* The bridge implements the command service *)

Pending == SubSeq(queue, next, Len(queue))

\* Outside a batch everything queued is pending.
LEMMA AllPending ==
  ASSUME IndInv, ~ locked
  PROVE  next = 1 /\ Pending = queue
<1>1. next = 1
  BY DEF IndInv, BatchInv
<1>2. QED
  BY <1>1, SubSeqFull DEF IndInv, TypeOK, Pending

LEMMA EnqueueSubmits ==
  ASSUME IndInv, IndInv', NEW c \in Commands, Enqueue(c)
  PROVE  Service!Submit(c)
<1>1. Pending = queue /\ Pending' = queue'
  <2>1. ~ locked /\ ~ locked'
    BY DEF Enqueue
  <2>2. next' = 1 /\ queue' \in Seq(Commands)
    BY <2>1, AllPending DEF IndInv, TypeOK, Enqueue
  <2>3. Pending' = queue'
    BY <2>2, SubSeqFull DEF Pending
  <2>4. QED
    BY <2>1, <2>3, AllPending
<1>2. outcome[c] = "none" /\ ~ Occurs(c, executed)
  BY DEF IndInv, OutcomeInv, DoneInv, Enqueue
<1>3. ~ Occurs(c, queue)
  BY DEF IndInv, QueueInv, InWait, Occurs, Enqueue
<1>4. queue' = Append(queue, c) /\ UNCHANGED <<executed, outcome>>
  BY DEF Enqueue
<1>5. QED
  BY <1>1, <1>2, <1>3, <1>4
     DEF Service!Submit, Service!Occurs, Occurs, Pending

LEMMA ReturnSucceeds ==
  ASSUME IndInv, NEW c \in Commands, InWait(c), done[c], Return(c, "ok"),
         UNCHANGED <<queue, next, executed>>
  PROVE  Service!Succeed(c)
<1>1. outcome[c] = "none" /\ Occurs(c, executed)
  BY DEF IndInv, OutcomeInv, DoneInv, InWait
<1>2. outcome' = [outcome EXCEPT ![c] = "ok"]
  BY DEF Return
<1>3. QED
  BY <1>1, <1>2 DEF Service!Succeed, Service!Occurs, Occurs

LEMMA TimeOutWithdraws ==
  ASSUME IndInv, IndInv', NEW c \in Commands, TimeOut(c), ~ done[c]
  PROVE  Service!Withdraw(c)
<1>1. Pending = queue /\ Pending' = queue'
  <2>1. ~ locked /\ next' = next /\ queue' \in Seq(Commands)
    BY DEF TimeOut, IndInv, TypeOK
  <2>2. Pending' = queue'
    BY <2>1, AllPending, SubSeqFull DEF Pending
  <2>3. QED
    BY <2>1, <2>2, AllPending
<1>2. outcome[c] = "none" /\ Occurs(c, queue)
  BY DEF IndInv, OutcomeInv, QueueInv, InWait, TimeOut
<1>3. /\ queue' = Erase(queue, c)
      /\ outcome' = [outcome EXCEPT ![c] = "timeout"]
      /\ executed' = executed
  BY DEF TimeOut, Return
<1>4. PICK i \in 1 .. Len(queue) :
        /\ queue[i] = c
        /\ Erase(queue, c) =
             [j \in 1 .. Len(queue) - 1 |->
                IF j < i THEN queue[j] ELSE queue[j + 1]]
  <2>1. queue \in Seq(Commands)
    BY DEF IndInv, TypeOK
  <2>2. \A i, j \in DOMAIN queue : queue[i] = queue[j] => i = j
    BY DEF IndInv, QueueInv
  <2>3. QED
    BY <1>2, <2>1, <2>2, EraseFacts
<1>5. i \in DOMAIN queue
  BY <1>4, LenProperties DEF IndInv, TypeOK
<1>6. queue' = Service!Without(queue, i)
  BY <1>3, <1>4 DEF Service!Without
<1>7. QED
  BY <1>1, <1>2, <1>3, <1>4, <1>5, <1>6 DEF Service!Withdraw, Pending

LEMMA ExecuteNextExecutes ==
  ASSUME IndInv, ExecuteNext
  PROVE  Service!Execute
<1>1. /\ queue \in Seq(Commands)
      /\ Len(queue) \in Nat
      /\ next \in 1 .. Len(queue)
      /\ Len(queue) \in next .. Len(queue)
  BY LenProperties DEF IndInv, TypeOK, ExecuteNext
<1>2. Head(Pending) = queue[next] /\ Tail(Pending) = SubSeq(queue, next + 1, Len(queue))
  BY <1>1, HeadTailOfSubSeq DEF Pending
<1>3. Pending # <<>>
  <2>1. \A i \in next .. Len(queue) : queue[i] \in Commands
    BY <1>1, ElementOfSeq
  <2>2. Len(Pending) = Len(queue) - next + 1
    BY <1>1, <2>1, SubSeqProperties DEF Pending
  <2>3. Len(Pending) # 0
    BY <1>1, <2>2
  <2>4. QED
    BY <2>3
<1>4. Pending' = SubSeq(queue, next + 1, Len(queue))
  BY DEF ExecuteNext, Pending
<1>5. QED
  BY <1>2, <1>3, <1>4 DEF Service!Execute, ExecuteNext, Pending

\* Beginning and ending a batch changes nothing that is pending.
LEMMA BatchStutters ==
  ASSUME IndInv, ProcessRequests \/ FinishBatch
  PROVE  UNCHANGED Service!vars
<1>1. CASE ProcessRequests
  BY <1>1, AllPending DEF ProcessRequests, callerVars, Service!vars
<1>2. CASE FinishBatch
  <2>1. Len(queue) \in Nat /\ next \in Nat /\ Len(queue) < next
    BY <1>2, LenProperties DEF IndInv, TypeOK, FinishBatch
  <2>2. Pending = <<>>
    BY <2>1, SubSeqEmpty DEF Pending
  <2>3. Pending' = <<>>
    BY <1>2, SubSeqEmpty DEF Pending, FinishBatch
  <2>4. QED
    BY <1>2, <2>2, <2>3 DEF Pending, FinishBatch, Service!vars
<1>3. QED
  BY <1>1, <1>2

\* The bridge, with its mutex, its condition variable, its raw pointers and
\* its nested loops, implements the abstract command service.
THEOREM Refinement == Spec => ServiceSpec
<1>1. Init => Service!Init
  BY SubSeqEmpty DEF Init, Service!Init
<1>2. IndInv /\ IndInv' /\ [Next]_vars => [Service!Next]_(Service!vars)
  <2> SUFFICES ASSUME IndInv, IndInv', [Next]_vars
               PROVE  [Service!Next]_(Service!vars)
    OBVIOUS
  <2>1. CASE UNCHANGED vars
    BY <2>1 DEF vars, Service!vars
  <2>2. CASE ExecuteNext
    BY <2>2, ExecuteNextExecutes DEF Service!Next
  <2>3. CASE ProcessRequests \/ FinishBatch
    BY <2>3, BatchStutters
  <2>4. CASE \/ ExecuteFaults \/ CallNative \/ RunMachine
             \/ StopMachine \/ NativeReturns
    BY <2>4 DEF ExecuteFaults, CallNative, RunMachine, StopMachine,
                NativeReturns, callerVars, Service!vars
  <2>5. ASSUME NEW c \in Commands, Caller(c)
        PROVE  [Service!Next]_(Service!vars)
    <3>1. CASE Enqueue(c)
      BY <3>1, EnqueueSubmits DEF Service!Next
    <3>2. CASE TimeOut(c) /\ ~ done[c]
      BY <3>2, TimeOutWithdraws DEF Service!Next
    <3>3. CASE (TimeOut(c) \/ Wake(c)) /\ done[c]
      <4>1. Service!Succeed(c)
        BY <3>3, ReturnSucceeds DEF TimeOut, Wake, InWait
      <4>2. QED
        BY <4>1 DEF Service!Next
    <3>4. CASE \/ Wake(c) /\ ~ done[c]
               \/ WaitForCompletion(c) \/ Deadline(c)
               \/ Expire(c) \/ SpuriousWakeup(c)
      BY <3>4 DEF Wake, WaitForCompletion, Deadline, Expire,
                  SpuriousWakeup, Service!vars
    <3>5. QED
      BY <2>5, <3>1, <3>2, <3>3, <3>4 DEF Caller
  <2>6. QED
    BY <2>1, <2>2, <2>3, <2>4, <2>5 DEF Next, Emulation
<1>3. QED
  BY <1>1, <1>2, Invariance, PTL DEF Spec, ServiceSpec, Service!Spec

-----------------------------------------------------------------------------
(* The frame tap: the inductive invariant *)

\* One request at a time is with the tap, and the tap holds a frame only for
\* a request that still waits.
TapInv ==
  /\ \A w \in Workers : worker[w] = "waiting" <=> serializer = w
  /\ requested <=> serializer # None
  /\ has_frame => requested /\ frame \in Copies

\* What is owned is allocated ...
OwnedInUse ==
  /\ inUse \subseteq Copies /\ lost \subseteq inUse
  /\ Cardinality(lost) <= MaxLost
  /\ \A w \in Encoding : got[w] \in inUse
  /\ has_frame => frame \in inUse
  /\ shared # None => shared \in inUse

\* ... what is allocated is owned ...
InUseOwned ==
  \A c \in inUse :
    \/ \E w \in Encoding : got[w] = c
    \/ has_frame /\ frame = c
    \/ shared = c
    \/ c \in lost

\* ... and nothing is owned twice.
OwnedOnce ==
  /\ \A v, w \in Encoding : got[v] = got[w] => v = w
  /\ \A w \in Encoding : /\ has_frame => got[w] # frame
                         /\ got[w] # shared /\ got[w] \notin lost
  /\ has_frame => frame # shared /\ frame \notin lost
  /\ shared \notin lost

OwnInv == TypeOKTap /\ TapInv /\ OwnedInUse /\ InUseOwned /\ OwnedOnce

-----------------------------------------------------------------------------
(* Lemmas *)

LEMMA UnionBound ==
  ASSUME NEW S, NEW T, IsFiniteSet(S), IsFiniteSet(T)
  PROVE  /\ IsFiniteSet(S \cup T)
         /\ Cardinality(S \cup T) <= Cardinality(S) + Cardinality(T)
<1>1. /\ Cardinality(S \cup T) = Cardinality(S) + Cardinality(T) - Cardinality(S \cap T)
      /\ IsFiniteSet(S \cup T)
  BY FS_Union
<1>2. IsFiniteSet(S \cap T)
  BY FS_Intersection
<1>3. Cardinality(S) \in Nat /\ Cardinality(T) \in Nat /\ Cardinality(S \cap T) \in Nat
  BY <1>2, FS_CardinalityType
<1>4. QED
  BY <1>1, <1>3

LEMMA PairBound ==
  ASSUME NEW x, NEW y
  PROVE  IsFiniteSet({x, y}) /\ Cardinality({x, y}) <= 2
<1>1. IsFiniteSet({x}) /\ Cardinality({x}) = 1
  BY FS_Singleton
<1>2. IsFiniteSet({x} \cup {y}) /\ Cardinality({x} \cup {y}) = IF y \in {x} THEN 1 ELSE 2
  BY <1>1, FS_AddElement
<1>3. {x, y} = {x} \cup {y}
  OBVIOUS
<1>4. QED
  BY <1>2, <1>3

\* deep_copy returns a buffer that nobody has: each request, the tap and the
\* renderer have one at most, and few are lost.
LEMMA FreshFacts ==
  ASSUME OwnInv
  PROVE  Fresh \in Copies /\ Fresh \notin inUse
<1> DEFINE A == {got[w] : w \in Encoding}
           f == [w \in Encoding |-> got[w]]
<1>1. /\ IsFiniteSet(Workers) /\ IsFiniteSet(Copies) /\ MaxLost \in Nat
      /\ Cardinality(Copies) > Cardinality(Workers) + MaxLost + 2
  BY FrameTapAssumption
<1>2. inUse \subseteq Copies /\ lost \subseteq Copies
  BY DEF OwnInv, OwnedInUse
<1>3. IsFiniteSet(Encoding) /\ Cardinality(Encoding) <= Cardinality(Workers)
  BY <1>1, FS_Subset DEF Encoding
<1>4. IsFiniteSet(A) /\ Cardinality(A) <= Cardinality(Encoding)
  <2>1. f \in Surjection(Encoding, A)
    BY DEF Surjection
  <2>2. QED
    BY <1>3, <2>1, FS_Surjection
<1>5. IsFiniteSet(lost) /\ IsFiniteSet(inUse)
  BY <1>1, <1>2, FS_Subset
<1>6. inUse \subseteq (A \cup {frame, shared}) \cup lost
  BY DEF OwnInv, InUseOwned
<1> HIDE DEF A, f
<1>7. /\ IsFiniteSet(A \cup {frame, shared})
      /\ Cardinality(A \cup {frame, shared}) <= Cardinality(A) + Cardinality({frame, shared})
  BY <1>4, PairBound, UnionBound
<1>8. /\ IsFiniteSet((A \cup {frame, shared}) \cup lost)
      /\ Cardinality((A \cup {frame, shared}) \cup lost)
           <= Cardinality(A \cup {frame, shared}) + Cardinality(lost)
  BY <1>5, <1>7, UnionBound
<1>9. Cardinality(inUse) <= Cardinality((A \cup {frame, shared}) \cup lost)
  BY <1>6, <1>8, FS_Subset
<1>10. Cardinality({frame, shared}) <= 2 /\ Cardinality({frame, shared}) \in Nat
  BY PairBound, FS_CardinalityType
<1>11. Cardinality(lost) <= MaxLost
  BY DEF OwnInv, OwnedInUse
<1>12. /\ Cardinality(Workers) \in Nat /\ Cardinality(Copies) \in Nat
       /\ Cardinality(Encoding) \in Nat /\ Cardinality(A) \in Nat
       /\ Cardinality(lost) \in Nat /\ Cardinality(inUse) \in Nat
       /\ Cardinality(A \cup {frame, shared}) \in Nat
       /\ Cardinality((A \cup {frame, shared}) \cup lost) \in Nat
  BY <1>1, <1>3, <1>4, <1>5, <1>7, <1>8, FS_CardinalityType
<1>13. Cardinality(inUse) < Cardinality(Copies)
  BY <1>1, <1>3, <1>4, <1>7, <1>8, <1>9, <1>10, <1>11, <1>12
<1>14. inUse # Copies
  BY <1>12, <1>13
<1>15. \E c \in Copies : c \notin inUse
  BY <1>2, <1>14
<1>16. QED
  BY <1>15 DEF Fresh

-----------------------------------------------------------------------------
(* The steps *)

LEMMA InitOwnInv == InitTap => OwnInv
<1> SUFFICES ASSUME InitTap PROVE OwnInv
  OBVIOUS
<1>1. TypeOKTap
  BY DEF InitTap, TypeOKTap
<1>2. TapInv
  BY FrameTapAssumption DEF InitTap, TapInv
<1>3. Cardinality({}) = 0
  BY FS_EmptySet
<1>4. Encoding = {}
  BY DEF InitTap, Encoding
<1>5. OwnedInUse
  BY <1>3, <1>4, FrameTapAssumption DEF InitTap, OwnedInUse
<1>6. InUseOwned /\ OwnedOnce
  BY <1>4 DEF InitTap, InUseOwned, OwnedOnce
<1>7. QED
  BY <1>1, <1>2, <1>5, <1>6 DEF OwnInv

\* A step that gives nobody a buffer and takes none away.
LEMMA QuietStep ==
  ASSUME OwnInv, TypeOKTap', TapInv', Encoding' = Encoding,
         has_frame' = has_frame,
         UNCHANGED <<frame, got, shared, inUse, lost>>
  PROVE  OwnInv'
  BY DEF OwnInv, OwnedInUse, InUseOwned, OwnedOnce

LEMMA GetFrameStep ==
  ASSUME OwnInv, NEW w \in Workers, NEW mode \in {"rendered", "raw"}, GetFrame(w, mode)
  PROVE  OwnInv'
<1> USE DEF GetFrame, tap
<1>1. TypeOKTap'
  BY DEF OwnInv, TypeOKTap
<1>2. TapInv'
  BY DEF OwnInv, TypeOKTap, TapInv
<1>3. Encoding' = Encoding
  BY DEF OwnInv, TypeOKTap, Encoding
<1>4. QED
  BY <1>1, <1>2, <1>3, QuietStep

LEMMA RequestStep ==
  ASSUME OwnInv, NEW w \in Workers, Request(w)
  PROVE  OwnInv'
<1> USE DEF Request
<1>1. has_frame = FALSE
  BY DEF OwnInv, TypeOKTap, TapInv
<1>2. TypeOKTap'
  BY DEF OwnInv, TypeOKTap
<1>3. TapInv'
  BY FrameTapAssumption DEF OwnInv, TypeOKTap, TapInv
<1>4. Encoding' = Encoding
  BY DEF OwnInv, TypeOKTap, Encoding
<1>5. QED
  BY <1>1, <1>2, <1>3, <1>4, QuietStep

LEMMA TakeStep ==
  ASSUME OwnInv, NEW w \in Workers, Take(w)
  PROVE  OwnInv'
<1> USE DEF Take
<1>1. TypeOKTap'
  BY DEF OwnInv, TypeOKTap
<1>2. TapInv'
  BY FrameTapAssumption DEF OwnInv, TypeOKTap, TapInv
<1>3. Encoding' = Encoding \cup {w} /\ w \notin Encoding
  BY DEF OwnInv, TypeOKTap, Encoding
<1>4. /\ \A v \in Encoding : v \in Workers /\ got'[v] = got[v]
      /\ got'[w] = frame /\ has_frame = TRUE /\ has_frame' = FALSE
  BY <1>3 DEF OwnInv, TypeOKTap, Encoding
<1>5. OwnedInUse'
  BY <1>3, <1>4 DEF OwnInv, OwnedInUse
<1>6. InUseOwned'
  BY <1>3, <1>4 DEF OwnInv, InUseOwned
<1>7. OwnedOnce'
  BY <1>3, <1>4 DEF OwnInv, OwnedOnce
<1>8. QED
  BY <1>1, <1>2, <1>5, <1>6, <1>7 DEF OwnInv

LEMMA TimeOutStep ==
  ASSUME OwnInv, NEW w \in Workers, TimeOutRequest(w)
  PROVE  OwnInv'
<1> USE DEF TimeOutRequest
<1>1. TypeOKTap'
  BY DEF OwnInv, TypeOKTap
<1>2. TapInv'
  BY FrameTapAssumption DEF OwnInv, TypeOKTap, TapInv
<1>3. Encoding' = Encoding
  BY DEF OwnInv, TypeOKTap, Encoding
<1>4. QED
  BY <1>1, <1>2, <1>3, QuietStep

LEMMA GetSharedStep ==
  ASSUME OwnInv, NEW w \in Workers, GetShared(w)
  PROVE  OwnInv'
<1> USE DEF GetShared, tap
<1>1. Fresh \in Copies /\ Fresh \notin inUse
  BY FreshFacts
<1>2. TypeOKTap'
  BY <1>1 DEF OwnInv, TypeOKTap
<1>3. TapInv'
  BY DEF OwnInv, TypeOKTap, TapInv
<1>4. CASE shared = None
  <2>1. Encoding' = Encoding
    BY <1>4 DEF OwnInv, TypeOKTap, Encoding
  <2>2. QED
    BY <1>2, <1>3, <1>4, <2>1, QuietStep
<1>5. CASE shared # None
  <2>1. Encoding' = Encoding \cup {w} /\ w \notin Encoding
    BY <1>5 DEF OwnInv, TypeOKTap, Encoding
  <2>2. /\ \A v \in Encoding : v \in Workers /\ got'[v] = got[v]
        /\ got'[w] = Fresh
        /\ inUse' = inUse \cup {Fresh}
        /\ UNCHANGED <<has_frame, frame, shared, lost>>
    BY <1>5, <2>1 DEF OwnInv, TypeOKTap, Encoding
  <2>3. OwnedInUse'
    BY <1>1, <2>1, <2>2 DEF OwnInv, OwnedInUse
  <2>4. InUseOwned'
    BY <2>1, <2>2 DEF OwnInv, InUseOwned
  <2>5. OwnedOnce'
    BY <1>1, <1>5, <2>1, <2>2 DEF OwnInv, OwnedInUse, OwnedOnce
  <2>6. QED
    BY <1>2, <1>3, <2>3, <2>4, <2>5 DEF OwnInv
<1>6. QED
  BY <1>4, <1>5

LEMMA AnswerStep ==
  ASSUME OwnInv, NEW w \in Workers, Answer(w)
  PROVE  OwnInv'
<1> USE DEF Answer, tap
<1>1. TypeOKTap'
  BY DEF OwnInv, TypeOKTap
<1>2. TapInv'
  BY DEF OwnInv, TypeOKTap, TapInv
<1>3. Encoding' = Encoding \ {w} /\ w \in Encoding
  BY DEF OwnInv, TypeOKTap, Encoding
<1>4. /\ \A v \in Encoding \ {w} : got'[v] = got[v]
      /\ inUse' = inUse \ {got[w]}
      /\ UNCHANGED <<has_frame, frame, shared, lost>>
  BY <1>3 DEF OwnInv, TypeOKTap, Encoding
<1>5. OwnedInUse'
  BY <1>3, <1>4 DEF OwnInv, OwnedInUse, OwnedOnce
<1>6. InUseOwned'
  BY <1>3, <1>4 DEF OwnInv, InUseOwned
<1>7. OwnedOnce'
  BY <1>3, <1>4 DEF OwnInv, OwnedOnce
<1>8. QED
  BY <1>1, <1>2, <1>5, <1>6, <1>7 DEF OwnInv

LEMMA ThrowStep ==
  ASSUME OwnInv, NEW w \in Workers, Throw(w)
  PROVE  OwnInv'
<1> USE DEF Throw, tap
<1>1. TypeOKTap'
  BY DEF OwnInv, TypeOKTap
<1>2. TapInv'
  BY DEF OwnInv, TypeOKTap, TapInv
<1>3. Encoding' = Encoding \ {w} /\ w \in Encoding
  BY DEF OwnInv, TypeOKTap, Encoding
<1>4. /\ \A v \in Encoding \ {w} : got'[v] = got[v]
      /\ lost' = lost \cup {got[w]}
      /\ UNCHANGED <<has_frame, frame, shared, inUse>>
  BY <1>3 DEF OwnInv, TypeOKTap, Encoding
<1>5. Cardinality(lost') <= MaxLost
  <2>1. IsFiniteSet(lost)
    BY FrameTapAssumption, FS_Subset DEF OwnInv, OwnedInUse
  <2>2. Cardinality(lost) \in Nat /\ Cardinality(lost) < MaxLost /\ MaxLost \in Nat
    BY <2>1, FS_CardinalityType, FrameTapAssumption
  <2>3. Cardinality(lost') = IF got[w] \in lost THEN Cardinality(lost) ELSE Cardinality(lost) + 1
    BY <1>4, <2>1, FS_AddElement
  <2>4. QED
    BY <2>2, <2>3
<1>6. OwnedInUse'
  BY <1>3, <1>4, <1>5 DEF OwnInv, OwnedInUse
<1>7. InUseOwned'
  BY <1>3, <1>4 DEF OwnInv, InUseOwned
<1>8. OwnedOnce'
  BY <1>3, <1>4 DEF OwnInv, OwnedOnce
<1>9. QED
  BY <1>1, <1>2, <1>6, <1>7, <1>8 DEF OwnInv

\* The renderer's own copy is replaced by a new one.
LEMMA EndUpdateStep ==
  ASSUME OwnInv, EndUpdate
  PROVE  OwnInv'
<1> USE DEF EndUpdate, tap
<1>1. Fresh \in Copies /\ Fresh \notin inUse
  BY FreshFacts
<1>2. TypeOKTap'
  BY <1>1 DEF OwnInv, TypeOKTap
<1>3. TapInv'
  BY DEF OwnInv, TapInv
<1>4. Encoding' = Encoding
  BY DEF Encoding
<1>5. OwnedInUse'
  BY <1>1, <1>4 DEF OwnInv, OwnedInUse, OwnedOnce
<1>6. InUseOwned'
  BY <1>4 DEF OwnInv, InUseOwned
<1>7. OwnedOnce'
  BY <1>1, <1>4 DEF OwnInv, OwnedInUse, OwnedOnce
<1>8. QED
  BY <1>2, <1>3, <1>5, <1>6, <1>7 DEF OwnInv

\* A frame is handed to the tap only for a request that still waits.
LEMMA DeliverStep ==
  ASSUME OwnInv, Deliver
  PROVE  OwnInv'
<1> USE DEF Deliver
<1>1. Fresh \in Copies /\ Fresh \notin inUse
  BY FreshFacts
<1>2. TypeOKTap'
  BY <1>1 DEF OwnInv, TypeOKTap
<1>3. TapInv'
  BY <1>1 DEF OwnInv, TapInv
<1>4. Encoding' = Encoding
  BY DEF Encoding
<1>5. CASE ~ requested \/ has_frame
  BY <1>2, <1>3, <1>4, <1>5, QuietStep
<1>6. CASE requested /\ ~ has_frame
  <2>1. /\ frame' = Fresh /\ has_frame' = TRUE /\ inUse' = inUse \cup {Fresh}
        /\ UNCHANGED <<got, shared, lost>>
    BY <1>6
  <2>2. OwnedInUse'
    BY <1>1, <1>4, <2>1 DEF OwnInv, OwnedInUse
  <2>3. InUseOwned'
    BY <1>4, <1>6, <2>1 DEF OwnInv, InUseOwned
  <2>4. OwnedOnce'
    <3>1. shared # Fresh
      BY <1>1, FrameTapAssumption DEF OwnInv, OwnedInUse
    <3>2. QED
      BY <1>1, <1>4, <2>1, <3>1 DEF OwnInv, OwnedInUse, OwnedOnce
  <2>5. QED
    BY <1>2, <1>3, <2>2, <2>3, <2>4 DEF OwnInv
<1>7. QED
  BY <1>5, <1>6

\* The other steps of the present path only change where it is.
LEMMA PresentStep ==
  ASSUME OwnInv,
         \/ HostRate \/ LookAtRequest
         \/ \E due \in BOOLEAN : MaybePresent(due)
         \/ \E capturing \in BOOLEAN : PresentFrame(capturing)
  PROVE  OwnInv'
<1>1. UNCHANGED <<worker, serializer, tap, shared, got, inUse, lost>>
  BY DEF HostRate, LookAtRequest, MaybePresent, PresentFrame
<1>2. present' \in {"idle", "maybe", "drawing", "read", "deliver"}
  BY DEF HostRate, LookAtRequest, MaybePresent, PresentFrame
<1>3. TypeOKTap'
  BY <1>1, <1>2 DEF OwnInv, TypeOKTap, tap
<1>4. TapInv' /\ Encoding' = Encoding
  BY <1>1 DEF OwnInv, TapInv, Encoding, tap
<1>5. QED
  BY <1>1, <1>3, <1>4, QuietStep DEF tap

THEOREM OwnInductive == OwnInv /\ [NextTap]_varsTap => OwnInv'
<1> SUFFICES ASSUME OwnInv, [NextTap]_varsTap PROVE OwnInv'
  OBVIOUS
<1>1. CASE UNCHANGED varsTap
  BY <1>1 DEF varsTap, tap, OwnInv, TypeOKTap, TapInv, Encoding, OwnedInUse, InUseOwned, OwnedOnce
<1>2. CASE Presenting
  BY <1>2, EndUpdateStep, DeliverStep, PresentStep DEF Presenting
<1>3. QED
  BY <1>1, <1>2, GetFrameStep, RequestStep, TakeStep, TimeOutStep, GetSharedStep,
     AnswerStep, ThrowStep
  DEF NextTap

\* Each buffer that is allocated has one owner, and a free buffer has none:
\* nobody frees a buffer twice, and a deadline leaves none behind.
THEOREM SingleOwner == SpecTap => []OneOwner
<1>1. OwnInv => OneOwner
  <2> SUFFICES ASSUME OwnInv, NEW c \in Copies
               PROVE  Cardinality(Owners(c)) = IF c \in inUse THEN 1 ELSE 0
    BY DEF OneOwner, OwnInv
  <2>1. CASE c \notin inUse
    <3>1. Owners(c) = {}
      BY <2>1, FrameTapAssumption DEF Owners, OwnInv, OwnedInUse
    <3>2. QED
      BY <2>1, <3>1, FS_EmptySet
  <2>2. CASE c \in inUse
    <3>1. \E x : Owners(c) = {x}
      <4>1. CASE \E w \in Encoding : got[w] = c
        <5>1. PICK w \in Encoding : got[w] = c
          BY <4>1
        <5>2. {v \in Encoding : got[v] = c} = {w}
          BY <5>1 DEF OwnInv, OwnedOnce
        <5>3. ~ (has_frame /\ frame = c) /\ shared # c /\ c \notin lost
          BY <5>1 DEF OwnInv, OwnedOnce
        <5>4. QED
          BY <5>2, <5>3 DEF Owners
      <4>2. CASE ~ \E w \in Encoding : got[w] = c
        <5>1. {v \in Encoding : got[v] = c} = {}
          BY <4>2
        <5>2. CASE has_frame /\ frame = c
          <6>1. shared # c /\ c \notin lost
            BY <5>2 DEF OwnInv, OwnedOnce
          <6>2. Owners(c) = {"tap"}
            BY <5>1, <5>2, <6>1 DEF Owners
          <6>3. QED
            BY <6>2
        <5>3. CASE ~ (has_frame /\ frame = c) /\ shared = c
          <6>1. c \notin lost
            BY <5>3 DEF OwnInv, OwnedOnce
          <6>2. Owners(c) = {"shared"}
            BY <5>1, <5>3, <6>1 DEF Owners
          <6>3. QED
            BY <6>2
        <5>4. CASE ~ (has_frame /\ frame = c) /\ shared # c
          <6>1. c \in lost
            BY <2>2, <4>2, <5>4 DEF OwnInv, InUseOwned
          <6>2. Owners(c) = {"nobody"}
            BY <5>1, <5>4, <6>1 DEF Owners
          <6>3. QED
            BY <6>2
        <5>5. QED
          BY <5>2, <5>3, <5>4
      <4>3. QED
        BY <4>1, <4>2
    <3>2. QED
      BY <2>2, <3>1, FS_Singleton
  <2>3. QED
    BY <2>1, <2>2
<1>2. QED
  BY <1>1, InitOwnInv, OwnInductive, PTL DEF SpecTap
=============================================================================
