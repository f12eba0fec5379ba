------------------------------ MODULE RWQueue ------------------------------
(***************************************************************************)
(* The bounded queue between the emulation, the mixer, the synthesizer and *)
(* the capture threads (misc/rwqueue.cpp): one mutex, the condition        *)
(* variables has_room, on which producers sleep, and has_items, on which   *)
(* consumers sleep, and a flag that an owner clears to end all blocking.   *)
(*                                                                         *)
(* What is done under the mutex is one step.  Notifications come after the *)
(* mutex is released and are steps of their own.  The bulk operations loop *)
(* over chunks, whose size they compute BEFORE they sleep.  An item is a   *)
(* pair of its producer and its number.                                    *)
(***************************************************************************)
EXTENDS Naturals, Sequences, FiniteSets

CONSTANTS
  Producers, Consumers,
  Uses,        \* the ways in which the program uses a queue: the operations
               \* of its producers and of its consumers, and its capacities
  MaxBulk,     \* bound on the number of items of one call
  MaxItems     \* bound on the number of items of each producer

Threads == Producers \cup Consumers

PutCalls == {"Enqueue", "BulkEnqueue", "NonblockingEnqueue", "NonblockingBulkEnqueue"}
TakeCalls == {"Dequeue", "BulkDequeue"}

\* The single-item calls are bulk calls of one item in all but the way they
\* test for room.
Bulk == {"BulkEnqueue", "NonblockingBulkEnqueue", "BulkDequeue"}
Nonblocking == {"NonblockingEnqueue", "NonblockingBulkEnqueue"}

ASSUME RWQueueAssumption ==
  /\ Producers \cap Consumers = {}
  /\ \A u \in Uses :
       /\ u.puts \subseteq PutCalls /\ u.takes \subseteq TakeCalls
       /\ u.capacities \subseteq Nat \ {0} /\ u.capacities # {}
       \* Only queues whose producers never block are resized in use.
       /\ u.puts \subseteq Nonblocking \/ \A m, n \in u.capacities : m = n
  /\ MaxBulk \in Nat \ {0}
  /\ MaxItems \in Nat

VARIABLES
  use,       \* how this queue is used
  queue, capacity, running,
  pc,        \* where each thread is in its call
  call,      \* the operation it calls
  want,      \* num_requested
  rem,       \* num_remaining
  num,       \* num_items, the size of the chunk under way
  owner,     \* the notifications that Stop or Clear still have to give
  next,      \* the number of the next item of each producer
  told,      \* history: how many items each producer was told are queued
  got,       \* history: the items delivered, in order
  dropped    \* history: the items that Clear discarded

vars == <<use, queue, capacity, running, pc, call, want, rem, num, owner,
          next, told, got, dropped>>

callVars == <<use, call, want>>
history == <<got, dropped>>

Clamp(n, low, high) == IF n < low THEN low ELSE IF n > high THEN high ELSE n

\* Mutant: off by one.
FreePlusOne(p) ==
  IF Len(queue) <= capacity THEN capacity + 1 - Len(queue) ELSE 0

\* capacity - queue.size() has type size_t and wraps round when Resize left
\* more items in the queue than it now has room for.
Free(p) ==
  IF Len(queue) <= capacity THEN capacity - Len(queue)
  ELSE IF call[p] \in Bulk THEN MaxBulk ELSE 0

Init ==
  /\ use \in Uses
  /\ queue = <<>>
  /\ capacity \in use.capacities
  /\ running = TRUE
  /\ pc = [t \in Threads |-> "idle"]
  /\ call = [t \in Threads |-> "none"]
  /\ want = [t \in Threads |-> 0]
  /\ rem = [t \in Threads |-> 0]
  /\ num = [t \in Threads |-> 0]
  /\ owner = <<>>
  /\ next = [p \in Producers |-> 1]
  /\ told = [p \in Producers |-> 0]
  /\ got = <<>>
  /\ dropped = {}

\* Mutant: everything that remains in one chunk.
ChunkWhole(t, available) == rem[t]

\* The chunk that a thread works on: computed on entry to the loop body,
\* unchanged when the thread comes back from its sleep.
Chunk(t, available) ==
  IF pc[t] = "begin" THEN Clamp(available, 1, rem[t]) ELSE num[t]

AtWork(t) == pc[t] \in {"begin", "woken"}

Call(t, op, n) ==
  /\ pc[t] = "idle"
  /\ n > 1 => op \in Bulk
  /\ pc' = [pc EXCEPT ![t] = "begin"]
  /\ call' = [call EXCEPT ![t] = op]
  /\ want' = [want EXCEPT ![t] = n]
  /\ rem' = [rem EXCEPT ![t] = n]
  /\ UNCHANGED <<use, queue, capacity, running, num, owner, next, told, history>>

\* has_room.wait(...) or has_items.wait(...) with a false predicate
Sleep(t, n) ==
  /\ num' = [num EXCEPT ![t] = n]
  /\ pc' = [pc EXCEPT ![t] = "asleep"]
  /\ UNCHANGED <<queue, capacity, running, callVars, rem, owner, next, told,
                 history>>

-----------------------------------------------------------------------------
(* Producers *)

CallPut(p) ==
  \E op \in use.puts, n \in 1 .. MaxBulk :
    /\ next[p] + n <= MaxItems + 1
    /\ Call(p, op, n)

WaitForRoom(p) ==
  /\ AtWork(p)
  /\ call[p] \notin Nonblocking
  /\ running
  /\ Free(p) < Chunk(p, Free(p))
  /\ Sleep(p, Chunk(p, Free(p)))

\* The next n items move from the source to the queue.
Push(p, n) ==
  /\ queue' = queue \o [i \in 1 .. n |-> <<p, next[p] + i - 1>>]
  /\ next' = [next EXCEPT ![p] = @ + n]
  /\ num' = [num EXCEPT ![p] = n]
  /\ rem' = [rem EXCEPT ![p] = @ - n]
  /\ pc' = [pc EXCEPT ![p] = "notify"]
  /\ UNCHANGED <<capacity, running, callVars, owner, told, history>>

\* Enqueue, and one round of BulkEnqueue
PutChunk(p) ==
  /\ AtWork(p)
  /\ call[p] \notin Nonblocking
  /\ running
  /\ Free(p) >= Chunk(p, Free(p))
  /\ Push(p, Chunk(p, Free(p)))

\* NonblockingEnqueue and NonblockingBulkEnqueue: as many as there is room for
PutAvailable(p) ==
  /\ AtWork(p)
  /\ call[p] \in Nonblocking
  /\ running
  /\ Len(queue) < capacity
  /\ Push(p, Clamp(capacity - Len(queue), 1, rem[p]))

\* Mutant: the number of items requested is returned.
PutReturnsWant(p) ==
  /\ AtWork(p)
  /\ ~ running \/ (call[p] \in Nonblocking /\ Len(queue) >= capacity)
  /\ told' = [told EXCEPT ![p] = @ + want[p]]
  /\ next' = [next EXCEPT ![p] = IF call[p] \in Nonblocking THEN @ ELSE @ + rem[p]]
  /\ pc' = [pc EXCEPT ![p] = "idle"]
  /\ UNCHANGED <<queue, capacity, running, callVars, rem, num, owner, history>>

\* The call returns without putting more.  The blocking calls consume their
\* source also when they are stopped half way; the others leave it alone.
PutReturns(p) ==
  /\ AtWork(p)
  /\ ~ running \/ (call[p] \in Nonblocking /\ Len(queue) >= capacity)
  /\ told' = [told EXCEPT ![p] = @ + want[p] - rem[p]]
  /\ next' = [next EXCEPT ![p] = IF call[p] \in Nonblocking THEN @ ELSE @ + rem[p]]
  /\ pc' = [pc EXCEPT ![p] = "idle"]
  /\ UNCHANGED <<queue, capacity, running, callVars, rem, num, owner, history>>

-----------------------------------------------------------------------------
(* Consumers *)

CallTake(c) == \E op \in use.takes, n \in 1 .. MaxBulk : Call(c, op, n)

WaitForItems(c) ==
  /\ AtWork(c)
  /\ running
  /\ Len(queue) < Chunk(c, Len(queue))
  /\ Sleep(c, Chunk(c, Len(queue)))

\* Dequeue, and one round of BulkDequeue.  A stopped queue is still drained.
TakeChunk(c) ==
  /\ AtWork(c)
  /\ Len(queue) >= Chunk(c, Len(queue))
  /\ LET n == Chunk(c, Len(queue))
     IN  /\ got' = got \o SubSeq(queue, 1, n)
         /\ queue' = SubSeq(queue, n + 1, Len(queue))
         /\ num' = [num EXCEPT ![c] = n]
         /\ rem' = [rem EXCEPT ![c] = @ - n]
  /\ pc' = [pc EXCEPT ![c] = "notify"]
  /\ UNCHANGED <<capacity, running, callVars, owner, next, told, dropped>>

\* The queue is stopped and empty.  Dequeue notifies all the same.
TakeReturns(c) ==
  /\ AtWork(c)
  /\ ~ running
  /\ queue = <<>>
  /\ pc' = [pc EXCEPT ![c] = IF call[c] = "Dequeue" THEN "notify" ELSE "idle"]
  /\ rem' = [rem EXCEPT ![c] = IF call[c] = "Dequeue" THEN 0 ELSE @]
  /\ UNCHANGED <<queue, capacity, running, callVars, num, owner, next, told,
                 history>>

-----------------------------------------------------------------------------
(* Notifications *)

\* notify_one wakes one of the threads asleep, if there is any.
NotifyOne(t, sleepers) ==
  LET asleep == {u \in sleepers : pc[u] = "asleep"}
      after == IF rem[t] = 0 \/ call[t] \in Nonblocking THEN "idle" ELSE "begin"
  IN  IF asleep = {}
        THEN pc' = [pc EXCEPT ![t] = after]
        ELSE \E u \in asleep : pc' = [pc EXCEPT ![t] = after, ![u] = "woken"]

\* A producer wakes a consumer and goes on to its next chunk, or returns.
PutNotifies(p) ==
  /\ pc[p] = "notify"
  /\ NotifyOne(p, Consumers)
  /\ told' = IF pc'[p] = "idle"
               THEN [told EXCEPT ![p] = @ + want[p] - rem[p]] ELSE told
  /\ UNCHANGED <<queue, capacity, running, callVars, rem, num, owner, next,
                 history>>

\* Mutant: no notification after an item was taken.
TakeForgets(c) ==
  /\ pc[c] = "notify"
  /\ NotifyOne(c, {})
  /\ UNCHANGED <<queue, capacity, running, callVars, rem, num, owner, next,
                 told, history>>

\* A consumer wakes a producer and goes on to its next chunk, or returns.
TakeNotifies(c) ==
  /\ pc[c] = "notify"
  /\ NotifyOne(c, Producers)
  /\ UNCHANGED <<queue, capacity, running, callVars, rem, num, owner, next,
                 told, history>>

SpuriousWakeup(t) ==
  /\ pc[t] = "asleep"
  /\ pc' = [pc EXCEPT ![t] = "woken"]
  /\ UNCHANGED <<queue, capacity, running, callVars, rem, num, owner, next,
                 told, history>>

-----------------------------------------------------------------------------
(* The owner of the queue *)

Start ==
  /\ owner = <<>>
  /\ running' = TRUE
  /\ UNCHANGED <<queue, capacity, pc, callVars, rem, num, owner, next, told,
                 history>>

\* Mutant: Stop wakes the producers only.
StopWakesProducers ==
  /\ owner = <<>>
  /\ running
  /\ running' = FALSE
  /\ owner' = <<"has_room">>
  /\ UNCHANGED <<queue, capacity, pc, callVars, rem, num, next, told, history>>

Stop ==
  /\ owner = <<>>
  /\ running
  /\ running' = FALSE
  /\ owner' = <<"has_items", "has_room">>
  /\ UNCHANGED <<queue, capacity, pc, callVars, rem, num, next, told, history>>

Clear ==
  /\ owner = <<>>
  /\ queue' = <<>>
  /\ dropped' = dropped \cup {queue[i] : i \in DOMAIN queue}
  /\ owner' = <<"has_room">>
  /\ UNCHANGED <<capacity, running, pc, callVars, rem, num, next, told, got>>

\* notify_all
NotifyAll ==
  /\ owner # <<>>
  /\ pc' = [t \in Threads |->
              IF pc[t] = "asleep" /\
                 t \in (IF Head(owner) = "has_items" THEN Consumers ELSE Producers)
                THEN "woken" ELSE pc[t]]
  /\ owner' = Tail(owner)
  /\ UNCHANGED <<queue, capacity, running, callVars, rem, num, next, told,
                 history>>

\* Resize only sets the capacity.
Resize ==
  /\ capacity' \in use.capacities
  /\ UNCHANGED <<queue, running, pc, callVars, rem, num, owner, next, told,
                 history>>

\* the steps of a call, once it is made
RunPut(p) ==
  \/ WaitForRoom(p) \/ PutChunk(p) \/ PutAvailable(p)
  \/ PutReturns(p) \/ PutNotifies(p)

RunTake(c) ==
  \/ WaitForItems(c) \/ TakeChunk(c) \/ TakeReturns(c) \/ TakeNotifies(c)

Owner == Start \/ Stop \/ Clear \/ NotifyAll \/ Resize

Next ==
  \/ \E p \in Producers : CallPut(p) \/ RunPut(p)
  \/ \E c \in Consumers : CallTake(c) \/ RunTake(c)
  \/ \E t \in Threads : SpuriousWakeup(t)
  \/ Owner

Spec == Init /\ [][Next]_vars

\* A thread inside a call runs on whenever it is not asleep, and the owner
\* gives the notifications it owes.  Nobody has to make a call.
Fairness ==
  /\ \A p \in Producers : WF_vars(RunPut(p))
  /\ \A c \in Consumers : WF_vars(RunTake(c))
  /\ WF_vars(NotifyAll)

FairSpec == Spec /\ Fairness

-----------------------------------------------------------------------------
(* Properties *)

Items == Producers \X (1 .. MaxItems)

\* Every variable keeps its type; in particular a bulk call never has less
\* than nothing left to do.
TypeOK ==
  /\ use \in Uses
  /\ queue \in Seq(Items)
  /\ capacity \in Nat \ {0}
  /\ running \in BOOLEAN
  /\ pc \in [Threads -> {"idle", "begin", "asleep", "woken", "notify"}]
  /\ call \in [Threads -> PutCalls \cup TakeCalls \cup {"none"}]
  /\ want \in [Threads -> 0 .. MaxBulk]
  /\ rem \in [Threads -> 0 .. MaxBulk]
  /\ \A t \in Threads : rem[t] <= want[t]
  /\ num \in [Threads -> 0 .. MaxBulk]
  /\ owner \in {<<>>, <<"has_room">>, <<"has_items", "has_room">>}
  /\ next \in [Producers -> 1 .. MaxItems + 1]
  /\ told \in [Producers -> Nat]
  /\ got \in Seq(Items)
  /\ dropped \subseteq Items

\* The size of the chunk was computed before the sleep.  Whatever happened
\* to the queue meanwhile, a consumer never takes more items than there are,
\* in particular when it drains a queue that was stopped under it.
ChunkInRange ==
  \A c \in Consumers :
    AtWork(c) /\ queue # <<>> => Chunk(c, Len(queue)) <= Len(queue)

\* No item overtakes another item of its producer, and none is delivered
\* twice, however the rounds of bulk calls interleave with Stop and Start.
DeliveredInOrder ==
  \A i, j \in DOMAIN got :
    i < j /\ got[i][1] = got[j][1] => got[i][2] < got[j][2]

\* What the calls of a producer returned is what happened: so many of its
\* items were delivered, are still queued, or were dropped by Clear.
ToldExactly ==
  \A p \in Producers :
    pc[p] = "idle" =>
      told[p] = Cardinality({i \in DOMAIN got : got[i][1] = p})
              + Cardinality({i \in DOMAIN queue : queue[i][1] = p})
              + Cardinality({x \in dropped : x[1] = p})

\* Items arrive once and in order, and a producer knows how many it got rid of.
DeliveredAsTold == DeliveredInOrder /\ ToldExactly

\* One producer and one consumer: a thread sleeps on although what it waits
\* for has come true only while the notification is still on its way.
NoLostWakeup ==
  /\ \A c \in Consumers :
       pc[c] = "asleep" /\ (~ running \/ Len(queue) >= num[c]) =>
         \/ \E p \in Producers : pc[p] = "notify"
         \/ owner # <<>> /\ Head(owner) = "has_items"
  /\ \A p \in Producers :
       pc[p] = "asleep" /\ (~ running \/ Free(p) >= num[p]) =>
         \/ \E c \in Consumers : pc[c] = "notify"
         \/ owner # <<>>

\* No step that puts items leaves more of them than the capacity.
CapacityRespected ==
  [][Len(queue') > Len(queue) => Len(queue') <= capacity]_vars

\* Threads are joined after Stop: every call ends, unless the queue is
\* started again before it could.
StopEndsCalls ==
  \A t \in Threads :
    pc[t] # "idle" /\ ~ running ~> pc[t] = "idle" \/ running
=============================================================================
