--------------------------- MODULE RWQueueProofs ---------------------------
(***************************************************************************)
(* Theorems about the bounded queue, for any number of items, any capacity *)
(* and any size of the bulk calls.                                         *)
(***************************************************************************)
EXTENDS RWQueue, SequenceTheorems, FiniteSetTheorems, TLAPS

\* A thread at the head of its loop, or asleep there, has something left to
\* do; a producer in a call stays within the items it has.
CallInv ==
  /\ \A t \in Threads : pc[t] \in {"begin", "asleep", "woken"} => rem[t] > 0
  /\ \A p \in Producers : pc[p] # "idle" => next[p] + rem[p] <= MaxItems + 1

\* Only a chunk of one item is ever slept for.
SleepInv == \A t \in Threads : pc[t] \in {"asleep", "woken"} => num[t] = 1

IndInv == TypeOK /\ CallInv /\ SleepInv

-----------------------------------------------------------------------------
(* Lemmas *)

\* std::clamp
LEMMA ClampFacts ==
  ASSUME NEW n \in Nat, NEW high \in Nat, high > 0
  PROVE  /\ Clamp(n, 1, high) \in 1 .. high
         /\ Clamp(n, 1, high) <= n \/ (n = 0 /\ Clamp(n, 1, high) = 1)
  BY DEF Clamp

\* The room that a producer sees is a number, and so is the chunk.
LEMMA FreeFacts ==
  ASSUME TypeOK, NEW p \in Producers
  PROVE  Free(p) \in Nat
  BY RWQueueAssumption, LenProperties DEF TypeOK, Free

LEMMA ChunkFacts ==
  ASSUME IndInv, NEW t \in Threads, AtWork(t), NEW a \in Nat
  PROVE  /\ Chunk(t, a) \in 1 .. rem[t]
         /\ rem[t] \in 1 .. MaxBulk
         /\ Chunk(t, a) <= a \/ Chunk(t, a) = 1
<1>1. rem[t] \in 1 .. MaxBulk
  BY RWQueueAssumption DEF IndInv, TypeOK, CallInv, AtWork
<1>2. CASE pc[t] = "begin"
  BY <1>1, <1>2, ClampFacts DEF Chunk
<1>3. CASE pc[t] = "woken"
  BY <1>1, <1>3 DEF Chunk, IndInv, SleepInv
<1>4. QED
  BY <1>1, <1>2, <1>3 DEF AtWork

LEMMA FunIsSeq ==
  ASSUME NEW S, NEW n \in Nat, NEW f \in [1 .. n -> S]
  PROVE  f \in Seq(S) /\ Len(f) = n
  OBVIOUS

\* What Push appends is a sequence of items.
LEMMA PushFacts ==
  ASSUME NEW p \in Producers, NEW first \in Nat, NEW n \in Nat,
         first > 0, first + n <= MaxItems + 1, NEW s \in Seq(Items)
  PROVE  /\ s \o [i \in 1 .. n |-> <<p, first + i - 1>>] \in Seq(Items)
         /\ Len(s \o [i \in 1 .. n |-> <<p, first + i - 1>>]) = Len(s) + n
<1> DEFINE new == [i \in 1 .. n |-> <<p, first + i - 1>>]
<1>1. MaxItems \in Nat
  BY RWQueueAssumption
<1>2. \A i \in 1 .. n : first + i - 1 \in 1 .. MaxItems
  BY <1>1
<1>3. \A i \in 1 .. n : <<p, first + i - 1>> \in Items
  BY <1>2 DEF Items
<1>4. new \in [1 .. n -> Items]
  BY <1>3
<1>5. new \in Seq(Items) /\ Len(new) = n
  BY <1>4, FunIsSeq
<1> HIDE DEF new
<1>6. s \o new \in Seq(Items) /\ Len(s \o new) = Len(s) + n
  BY <1>5, ConcatProperties
<1>7. QED
  BY <1>6 DEF new

LEMMA InitInv == Init => IndInv
<1> SUFFICES ASSUME Init PROVE IndInv
  OBVIOUS
<1>1. <<>> \in Seq(Items)
  OBVIOUS
<1>2. MaxItems \in Nat /\ MaxBulk \in Nat
  BY RWQueueAssumption
<1>3. TypeOK
  BY <1>1, <1>2, RWQueueAssumption DEF Init, TypeOK
<1>4. CallInv /\ SleepInv
  BY DEF Init, CallInv, SleepInv, Threads
<1>5. QED
  BY <1>3, <1>4 DEF IndInv

LEMMA CallStep ==
  ASSUME IndInv, NEW t \in Threads, NEW n \in 1 .. MaxBulk,
         NEW op \in PutCalls \cup TakeCalls, Call(t, op, n),
         t \in Producers => next[t] + n <= MaxItems + 1
  PROVE  IndInv'
<1> USE DEF IndInv, Call, callVars, history
<1>1. n \in 0 .. MaxBulk /\ n > 0
  BY RWQueueAssumption
<1>2. TypeOK'
  BY <1>1 DEF TypeOK
<1>3. CallInv'
  BY <1>1 DEF CallInv, TypeOK, Threads
<1>4. SleepInv'
  BY DEF SleepInv, TypeOK
<1>5. QED
  BY <1>2, <1>3, <1>4

LEMMA SleepStep ==
  ASSUME IndInv, NEW t \in Threads, NEW a \in Nat, AtWork(t),
         a < Chunk(t, a), Sleep(t, Chunk(t, a))
  PROVE  IndInv'
<1> USE DEF IndInv, Sleep, callVars, history
<1> DEFINE n == Chunk(t, a)
<1>1. n = 1 /\ 1 \in 0 .. MaxBulk /\ rem[t] > 0
  <2>1. n \in 1 .. rem[t] /\ rem[t] \in 1 .. MaxBulk /\ (n <= a \/ n = 1)
    BY ChunkFacts
  <2>2. QED
    BY <2>1, RWQueueAssumption
<1> HIDE DEF n
<1>2. num' = [num EXCEPT ![t] = n]
  BY DEF n
<1>3. TypeOK'
  BY <1>1, <1>2 DEF TypeOK
<1>4. CallInv'
  BY <1>1 DEF CallInv, TypeOK, AtWork
<1>5. SleepInv'
  BY <1>1, <1>2 DEF SleepInv, TypeOK
<1>6. QED
  BY <1>3, <1>4, <1>5

LEMMA PushStep ==
  ASSUME IndInv, NEW p \in Producers, NEW n \in 1 .. rem[p], AtWork(p),
         Push(p, n)
  PROVE  /\ IndInv'
         /\ Len(queue') = Len(queue) + n
<1> USE DEF IndInv, callVars, history
<1>1. /\ p \in Threads
      /\ rem[p] \in 0 .. MaxBulk
      /\ next[p] \in Nat /\ next[p] > 0
      /\ next[p] + rem[p] <= MaxItems + 1
      /\ MaxItems \in Nat /\ MaxBulk \in Nat
  BY RWQueueAssumption DEF TypeOK, CallInv, AtWork, Threads
<1>2. n \in Nat /\ n > 0 /\ n \in 0 .. MaxBulk /\ next[p] + n <= MaxItems + 1
  BY <1>1
<1>3. queue' \in Seq(Items) /\ Len(queue') = Len(queue) + n
  <2>1. queue \in Seq(Items)
    BY DEF TypeOK
  <2>2. queue' = queue \o [i \in 1 .. n |-> <<p, next[p] + i - 1>>]
    BY DEF Push
  <2>3. QED
    BY <1>1, <1>2, <2>1, <2>2, PushFacts
<1>4. /\ next' = [next EXCEPT ![p] = next[p] + n]
      /\ num' = [num EXCEPT ![p] = n]
      /\ rem' = [rem EXCEPT ![p] = rem[p] - n]
      /\ pc' = [pc EXCEPT ![p] = "notify"]
      /\ UNCHANGED <<use, capacity, running, call, want, owner, told, got, dropped>>
  BY DEF Push
<1>5. next[p] + n \in 1 .. MaxItems + 1 /\ rem[p] - n \in 0 .. MaxBulk
  BY <1>1, <1>2
<1>6. TypeOK'
  <2>1. rem' \in [Threads -> 0 .. MaxBulk]
    BY <1>1, <1>4, <1>5 DEF TypeOK
  <2>2. \A t \in Threads : rem'[t] <= want'[t]
    BY <1>1, <1>2, <1>4 DEF TypeOK
  <2>3. next' \in [Producers -> 1 .. MaxItems + 1]
    BY <1>4, <1>5 DEF TypeOK
  <2>4. num' \in [Threads -> 0 .. MaxBulk]
    BY <1>1, <1>2, <1>4 DEF TypeOK
  <2>5. QED
    BY <1>3, <1>4, <2>1, <2>2, <2>3, <2>4 DEF TypeOK
<1>7. CallInv'
  <2>1. \A t \in Threads : pc'[t] \in {"begin", "asleep", "woken"} => rem'[t] > 0
    BY <1>1, <1>4 DEF CallInv, TypeOK
  <2>2. next'[p] + rem'[p] <= MaxItems + 1
    BY <1>1, <1>2, <1>4 DEF TypeOK
  <2>3. \A q \in Producers : pc'[q] # "idle" => next'[q] + rem'[q] <= MaxItems + 1
    BY <1>1, <1>4, <2>2 DEF CallInv, TypeOK, Threads
  <2>4. QED
    BY <2>1, <2>3 DEF CallInv
<1>8. SleepInv'
  BY <1>1, <1>4 DEF SleepInv, TypeOK
<1>9. QED
  BY <1>3, <1>6, <1>7, <1>8

\* A thread only changes where it is, and owes nothing new.
LEMMA PcStep ==
  ASSUME IndInv, NEW T, \A t \in Threads \ T : pc'[t] = pc[t],
         pc' \in [Threads -> {"idle", "begin", "asleep", "woken", "notify"}],
         \A t \in T \cap Threads :
           \/ pc[t] = "asleep" /\ pc'[t] = "woken"
           \/ pc'[t] = "idle"
           \/ pc[t] = "notify" /\ pc'[t] = "begin" /\ rem[t] # 0,
         UNCHANGED <<use, queue, capacity, running, call, want, rem, num, next, got,
                     dropped>>,
         owner' \in {<<>>, <<"has_room">>, <<"has_items", "has_room">>},
         told' \in [Producers -> Nat]
  PROVE  IndInv'
<1> USE DEF IndInv
<1>1. TypeOK'
  BY DEF TypeOK
<1>2. \A t \in Threads : rem[t] \in Nat
  BY RWQueueAssumption DEF TypeOK
<1>3. CallInv'
  BY <1>2 DEF CallInv, Threads
<1>4. SleepInv'
  BY DEF SleepInv
<1>5. QED
  BY <1>1, <1>3, <1>4

LEMMA ToldFacts ==
  ASSUME TypeOK, NEW p \in Producers
  PROVE  [told EXCEPT ![p] = @ + want[p] - rem[p]] \in [Producers -> Nat]
<1>1. want[p] \in Nat /\ rem[p] \in Nat /\ rem[p] <= want[p] /\ told[p] \in Nat
  BY RWQueueAssumption DEF TypeOK, Threads
<1>2. told[p] + want[p] - rem[p] \in Nat
  BY <1>1
<1>3. QED
  BY <1>2 DEF TypeOK

LEMMA PutReturnsStep ==
  ASSUME IndInv, NEW p \in Producers, PutReturns(p)
  PROVE  IndInv'
<1> USE DEF IndInv, PutReturns, callVars, history
<1>1. /\ next[p] \in Nat /\ rem[p] \in Nat /\ next[p] > 0
      /\ next[p] + rem[p] <= MaxItems + 1
      /\ MaxItems \in Nat
  BY RWQueueAssumption DEF TypeOK, CallInv, AtWork, Threads
<1>2. told' \in [Producers -> Nat]
  BY ToldFacts
<1>3. next' \in [Producers -> 1 .. MaxItems + 1]
  <2>1. next[p] + rem[p] \in 1 .. MaxItems + 1
    BY <1>1
  <2>2. QED
    BY <2>1 DEF TypeOK
<1>4. TypeOK'
  BY <1>2, <1>3 DEF TypeOK
<1>5. CallInv'
  <2>1. \A q \in Producers : pc'[q] # "idle" => pc[q] # "idle" /\ next'[q] = next[q]
    BY DEF TypeOK, Threads
  <2>2. QED
    BY <2>1 DEF CallInv, TypeOK, Threads
<1>6. SleepInv'
  BY DEF SleepInv, TypeOK
<1>7. QED
  BY <1>4, <1>5, <1>6

\* A consumer takes its chunk from the front.
LEMMA TakeChunkStep ==
  ASSUME IndInv, NEW c \in Consumers, TakeChunk(c)
  PROVE  /\ IndInv'
         /\ Len(queue') <= Len(queue)
<1> USE DEF IndInv, callVars, history
<1> DEFINE n == Chunk(c, Len(queue))
<1>1. /\ c \in Threads /\ c \notin Producers
      /\ Len(queue) \in Nat
      /\ MaxBulk \in Nat
  BY RWQueueAssumption, LenProperties DEF TypeOK, Threads
<1>2. n \in 1 .. rem[c] /\ rem[c] \in 1 .. MaxBulk /\ n <= Len(queue)
  BY <1>1, ChunkFacts DEF TakeChunk
<1>3. /\ got' = got \o SubSeq(queue, 1, n)
      /\ queue' = SubSeq(queue, n + 1, Len(queue))
      /\ num' = [num EXCEPT ![c] = n]
      /\ rem' = [rem EXCEPT ![c] = rem[c] - n]
      /\ pc' = [pc EXCEPT ![c] = "notify"]
      /\ UNCHANGED <<use, capacity, running, call, want, owner, next, told, dropped>>
  BY DEF TakeChunk
<1> HIDE DEF n
<1>4. \A i \in 1 .. Len(queue) : queue[i] \in Items
  BY ElementOfSeq DEF TypeOK
<1>5. n \in Int /\ n + 1 \in Int /\ Len(queue) \in Int
  BY <1>1, <1>2
<1>6. SubSeq(queue, 1, n) \in Seq(Items)
  <2>1. \A i \in 1 .. n : queue[i] \in Items
    BY <1>1, <1>2, <1>4
  <2>2. QED
    BY <1>5, <2>1, SubSeqProperties
<1>7. queue' \in Seq(Items) /\ Len(queue') <= Len(queue)
  <2>1. \A i \in n + 1 .. Len(queue) : queue[i] \in Items
    BY <1>1, <1>2, <1>4
  <2>2. /\ queue' \in Seq(Items)
        /\ Len(queue') = IF n + 1 <= Len(queue) THEN Len(queue) - (n + 1) + 1 ELSE 0
    BY <1>3, <1>5, <2>1, SubSeqProperties
  <2>3. QED
    BY <1>1, <1>2, <2>2
<1>8. got' \in Seq(Items)
  BY <1>3, <1>6, ConcatProperties DEF TypeOK
<1>9. rem[c] - n \in 0 .. MaxBulk /\ n \in 0 .. MaxBulk
  BY <1>1, <1>2
<1>10. TypeOK'
  <2>1. rem' \in [Threads -> 0 .. MaxBulk] /\ num' \in [Threads -> 0 .. MaxBulk]
    BY <1>1, <1>3, <1>9 DEF TypeOK
  <2>2. \A t \in Threads : rem'[t] <= want'[t]
    BY <1>1, <1>2, <1>3 DEF TypeOK
  <2>3. QED
    BY <1>3, <1>7, <1>8, <2>1, <2>2 DEF TypeOK
<1>11. CallInv'
  BY <1>1, <1>3 DEF CallInv, TypeOK, Threads
<1>12. SleepInv'
  BY <1>1, <1>3 DEF SleepInv, TypeOK
<1>13. QED
  BY <1>7, <1>10, <1>11, <1>12

LEMMA TakeReturnsStep ==
  ASSUME IndInv, NEW c \in Consumers, TakeReturns(c)
  PROVE  IndInv'
<1> USE DEF IndInv, TakeReturns, callVars, history
<1>1. c \in Threads /\ c \notin Producers /\ rem[c] \in 0 .. MaxBulk /\ 0 \in 0 .. MaxBulk
  BY RWQueueAssumption DEF Threads, TypeOK
<1>2. \A t \in Threads : rem'[t] = IF t = c /\ call[c] = "Dequeue" THEN 0 ELSE rem[t]
  BY <1>1 DEF TypeOK
<1>3. TypeOK'
  <2>1. rem' \in [Threads -> 0 .. MaxBulk]
    BY <1>1 DEF TypeOK
  <2>2. \A t \in Threads : want[t] \in Nat
    BY RWQueueAssumption DEF TypeOK
  <2>3. \A t \in Threads : rem'[t] <= want'[t]
    BY <1>2, <2>2 DEF TypeOK
  <2>4. QED
    BY <2>1, <2>3 DEF TypeOK
<1>4. CallInv'
  BY <1>1, <1>2 DEF CallInv, TypeOK, Threads
<1>5. SleepInv'
  BY <1>1 DEF SleepInv, TypeOK
<1>6. QED
  BY <1>3, <1>4, <1>5

\* What notify_one does to the threads.
LEMMA NotifyFacts ==
  ASSUME TypeOK, NEW t \in Threads, pc[t] = "notify", NEW S \in SUBSET Threads,
         NotifyOne(t, S)
  PROVE  /\ pc' \in [Threads -> {"idle", "begin", "asleep", "woken", "notify"}]
         /\ pc'[t] = "idle" \/ (pc'[t] = "begin" /\ rem[t] # 0)
         /\ \A u \in Threads \ {t} :
              pc'[u] = pc[u] \/ (pc[u] = "asleep" /\ pc'[u] = "woken" /\ u \in S)
         /\ \A u \in S : S = {u} => pc'[u] # "asleep"
<1> DEFINE asleep == {u \in S : pc[u] = "asleep"}
           after == IF rem[t] = 0 \/ call[t] \in Nonblocking THEN "idle" ELSE "begin"
<1>1. after \in {"idle", "begin"} /\ (after = "begin" => rem[t] # 0)
  OBVIOUS
<1>2. t \notin asleep
  OBVIOUS
<1>3. IF asleep = {}
        THEN pc' = [pc EXCEPT ![t] = after]
        ELSE \E u \in asleep : pc' = [pc EXCEPT ![t] = after, ![u] = "woken"]
  BY DEF NotifyOne
<1> HIDE DEF after
<1>4. CASE asleep = {}
  BY <1>1, <1>3, <1>4 DEF TypeOK
<1>5. CASE asleep # {}
  <2>1. PICK u \in asleep : pc' = [pc EXCEPT ![t] = after, ![u] = "woken"]
    BY <1>3, <1>5
  <2>2. QED
    BY <1>1, <1>2, <2>1 DEF TypeOK
<1>6. QED
  BY <1>4, <1>5

LEMMA NotifyStep ==
  ASSUME IndInv,
         \/ \E p \in Producers : PutNotifies(p)
         \/ \E c \in Consumers : TakeNotifies(c)
  PROVE  IndInv'
<1>1. ASSUME NEW p \in Producers, PutNotifies(p)
      PROVE  IndInv'
  <2>1. TypeOK /\ p \in Threads /\ Consumers \in SUBSET Threads
    BY DEF IndInv, Threads
  <2>2. pc[p] = "notify" /\ NotifyOne(p, Consumers)
    BY <1>1 DEF PutNotifies
  <2>3. /\ pc' \in [Threads -> {"idle", "begin", "asleep", "woken", "notify"}]
        /\ pc'[p] = "idle" \/ (pc'[p] = "begin" /\ rem[p] # 0)
        /\ \A u \in Threads \ {p} :
             pc'[u] = pc[u] \/ (pc[u] = "asleep" /\ pc'[u] = "woken")
    BY <2>1, <2>2, NotifyFacts
  <2>4. told' \in [Producers -> Nat]
    BY <1>1, <2>1, ToldFacts DEF PutNotifies, TypeOK
  <2>5. UNCHANGED <<use, queue, capacity, running, call, want, rem, num, next, got,
                    dropped, owner>>
    BY <1>1 DEF PutNotifies, callVars, history
  <2> DEFINE T == {u \in Threads : pc'[u] # pc[u]}
  <2>6. \A t \in T \cap Threads :
           \/ pc[t] = "asleep" /\ pc'[t] = "woken"
           \/ pc'[t] = "idle"
           \/ pc[t] = "notify" /\ pc'[t] = "begin" /\ rem[t] # 0
    BY <2>2, <2>3
  <2>7. \A t \in Threads \ T : pc'[t] = pc[t]
    OBVIOUS
  <2>8. owner' \in {<<>>, <<"has_room">>, <<"has_items", "has_room">>}
    BY <2>1, <2>5 DEF TypeOK
  <2> HIDE DEF T
  <2>9. QED
    BY <2>3, <2>4, <2>5, <2>6, <2>7, <2>8, PcStep
<1>2. ASSUME NEW c \in Consumers, TakeNotifies(c)
      PROVE  IndInv'
  <2>1. TypeOK /\ c \in Threads /\ Producers \in SUBSET Threads
    BY DEF IndInv, Threads
  <2>2. pc[c] = "notify" /\ NotifyOne(c, Producers)
    BY <1>2 DEF TakeNotifies
  <2>3. /\ pc' \in [Threads -> {"idle", "begin", "asleep", "woken", "notify"}]
        /\ pc'[c] = "idle" \/ (pc'[c] = "begin" /\ rem[c] # 0)
        /\ \A u \in Threads \ {c} :
             pc'[u] = pc[u] \/ (pc[u] = "asleep" /\ pc'[u] = "woken")
    BY <2>1, <2>2, NotifyFacts
  <2>4. /\ UNCHANGED <<use, queue, capacity, running, call, want, rem, num, next, got,
                       dropped>>
        /\ owner' \in {<<>>, <<"has_room">>, <<"has_items", "has_room">>}
        /\ told' \in [Producers -> Nat]
    BY <1>2, <2>1 DEF TakeNotifies, callVars, history, TypeOK
  <2> DEFINE T == {u \in Threads : pc'[u] # pc[u]}
  <2>5. \A t \in T \cap Threads :
           \/ pc[t] = "asleep" /\ pc'[t] = "woken"
           \/ pc'[t] = "idle"
           \/ pc[t] = "notify" /\ pc'[t] = "begin" /\ rem[t] # 0
    BY <2>2, <2>3
  <2>6. \A t \in Threads \ T : pc'[t] = pc[t]
    OBVIOUS
  <2> HIDE DEF T
  <2>7. QED
    BY <2>3, <2>4, <2>5, <2>6, PcStep
<1>3. QED
  BY <1>1, <1>2

LEMMA OwnerStep ==
  ASSUME IndInv, Owner \/ \E t \in Threads : SpuriousWakeup(t)
  PROVE  IndInv'
<1> USE DEF IndInv, callVars, history
<1>1. CASE Start \/ Stop \/ Resize
  <2>1. use.capacities \subseteq Nat \ {0}
    BY RWQueueAssumption DEF TypeOK
  <2>2. TypeOK'
    BY <1>1, <2>1 DEF TypeOK, Start, Stop, Resize
  <2>3. CallInv' /\ SleepInv'
    BY <1>1 DEF CallInv, SleepInv, Start, Stop, Resize
  <2>4. QED
    BY <2>2, <2>3
<1>2. CASE Clear
  <2>1. \A i \in DOMAIN queue : queue[i] \in Items
    BY LenProperties, ElementOfSeq DEF TypeOK
  <2>2. <<>> \in Seq(Items)
    OBVIOUS
  <2>3. dropped' \subseteq Items
    BY <1>2, <2>1 DEF Clear, TypeOK
  <2>4. TypeOK'
    BY <1>2, <2>2, <2>3 DEF TypeOK, Clear
  <2>5. CallInv' /\ SleepInv'
    BY <1>2 DEF CallInv, SleepInv, Clear
  <2>6. QED
    BY <2>4, <2>5
<1>3. CASE NotifyAll
  <2>1. owner' \in {<<>>, <<"has_room">>, <<"has_items", "has_room">>}
    <3>1. owner = <<"has_room">> \/ owner = <<"has_items", "has_room">>
      BY <1>3 DEF NotifyAll, TypeOK
    <3>2. owner' = Tail(owner)
      BY <1>3 DEF NotifyAll
    <3>3. Tail(<<"has_room">>) = <<>> /\ Tail(<<"has_items", "has_room">>) = <<"has_room">>
      OBVIOUS
    <3>4. QED
      BY <3>1, <3>2, <3>3
  <2>2. /\ pc' \in [Threads -> {"idle", "begin", "asleep", "woken", "notify"}]
        /\ \A t \in Threads : pc'[t] = pc[t] \/ (pc[t] = "asleep" /\ pc'[t] = "woken")
    BY <1>3 DEF NotifyAll, TypeOK
  <2>3. /\ UNCHANGED <<use, queue, capacity, running, call, want, rem, num, next, got,
                       dropped>>
        /\ told' \in [Producers -> Nat]
    BY <1>3 DEF NotifyAll, TypeOK
  <2> DEFINE T == {u \in Threads : pc'[u] # pc[u]}
  <2>4. /\ \A t \in T \cap Threads : pc[t] = "asleep" /\ pc'[t] = "woken"
        /\ \A t \in Threads \ T : pc'[t] = pc[t]
    BY <2>2
  <2> HIDE DEF T
  <2>5. QED
    BY <2>1, <2>2, <2>3, <2>4, PcStep
<1>4. ASSUME NEW t \in Threads, SpuriousWakeup(t) PROVE IndInv'
  <2>1. TypeOK'
    BY <1>4 DEF SpuriousWakeup, TypeOK
  <2>2. CallInv' /\ SleepInv'
    BY <1>4 DEF SpuriousWakeup, TypeOK, CallInv, SleepInv
  <2>3. QED
    BY <2>1, <2>2
<1>5. QED
  BY <1>1, <1>2, <1>3, <1>4 DEF Owner

\* A producer's chunk, whichever operation it is in.
LEMMA PutStep ==
  ASSUME IndInv, NEW p \in Producers, PutChunk(p) \/ PutAvailable(p)
  PROVE  \E n \in 1 .. rem[p] : AtWork(p) /\ Push(p, n)
<1>1. p \in Threads /\ Free(p) \in Nat /\ Len(queue) \in Nat /\ capacity \in Nat
  BY FreeFacts, RWQueueAssumption, LenProperties DEF IndInv, TypeOK, Threads
<1>2. CASE PutChunk(p)
  <2>1. AtWork(p) /\ Push(p, Chunk(p, Free(p)))
    BY <1>2 DEF PutChunk
  <2>2. QED
    BY <1>1, <2>1, ChunkFacts
<1>3. CASE PutAvailable(p)
  <2>1. /\ AtWork(p) /\ Len(queue) < capacity
        /\ Push(p, Clamp(capacity - Len(queue), 1, rem[p]))
    BY <1>3 DEF PutAvailable
  <2>2. rem[p] \in 1 .. MaxBulk
    BY <1>1, <2>1, ChunkFacts
  <2>3. capacity - Len(queue) \in Nat /\ rem[p] \in Nat /\ rem[p] > 0
    BY <1>1, <2>1, <2>2, RWQueueAssumption
  <2>4. QED
    BY <2>1, <2>3, ClampFacts
<1>4. QED
  BY <1>2, <1>3

\* Every step of the queue preserves the inductive invariant.
THEOREM Inductive == IndInv /\ [Next]_vars => IndInv'
<1> SUFFICES ASSUME IndInv, [Next]_vars PROVE IndInv'
  OBVIOUS
<1>1. CASE UNCHANGED vars
  BY <1>1 DEF vars, IndInv, TypeOK, CallInv, SleepInv
<1>2. ASSUME NEW p \in Producers, CallPut(p) PROVE IndInv'
  <2>1. p \in Threads /\ use.puts \subseteq PutCalls
    BY RWQueueAssumption DEF Threads, IndInv, TypeOK
  <2>2. QED
    BY <1>2, <2>1, CallStep DEF CallPut
<1>3. ASSUME NEW c \in Consumers, CallTake(c) PROVE IndInv'
  <2>1. c \in Threads /\ c \notin Producers /\ use.takes \subseteq TakeCalls
    BY RWQueueAssumption DEF Threads, IndInv, TypeOK
  <2>2. QED
    BY <1>3, <2>1, CallStep DEF CallTake
<1>4. ASSUME NEW p \in Producers, RunPut(p) PROVE IndInv'
  <2>1. CASE WaitForRoom(p)
    <3>1. p \in Threads /\ Free(p) \in Nat
      BY FreeFacts DEF IndInv, Threads
    <3>2. QED
      BY <2>1, <3>1, SleepStep DEF WaitForRoom
  <2>2. CASE PutChunk(p) \/ PutAvailable(p)
    BY <2>2, PutStep, PushStep
  <2>3. QED
    BY <1>4, <2>1, <2>2, PutReturnsStep, NotifyStep DEF RunPut
<1>5. ASSUME NEW c \in Consumers, RunTake(c) PROVE IndInv'
  <2>1. CASE WaitForItems(c)
    <3>1. c \in Threads /\ Len(queue) \in Nat
      BY LenProperties DEF IndInv, TypeOK, Threads
    <3>2. QED
      BY <2>1, <3>1, SleepStep DEF WaitForItems
  <2>2. QED
    BY <1>5, <2>1, TakeChunkStep, TakeReturnsStep, NotifyStep DEF RunTake
<1>6. QED
  BY <1>1, <1>2, <1>3, <1>4, <1>5, OwnerStep DEF Next

THEOREM Invariance == Spec => []IndInv
<1>1. QED
  BY InitInv, Inductive, PTL DEF Spec

\* Type correctness, for any number of threads.
THEOREM TypeCorrect == Spec => []TypeOK
<1>1. IndInv => TypeOK
  BY DEF IndInv
<1>2. QED
  BY <1>1, Invariance, PTL

\* A chunk computed before the sleep still fits after it, however many
\* threads use the queue and whoever stops, clears or resizes it.
THEOREM ChunkFits == Spec => []ChunkInRange
<1>1. IndInv => ChunkInRange
  <2> SUFFICES ASSUME IndInv, NEW c \in Consumers, AtWork(c), queue # <<>>
               PROVE  Chunk(c, Len(queue)) <= Len(queue)
    BY DEF ChunkInRange
  <2>1. c \in Threads /\ Len(queue) \in Nat /\ Len(queue) # 0
    BY LenProperties, EmptySeq DEF IndInv, TypeOK, Threads
  <2>2. \/ Chunk(c, Len(queue)) <= Len(queue)
        \/ Chunk(c, Len(queue)) = 1
    BY <2>1, ChunkFacts
  <2>3. QED
    BY <2>1, <2>2
<1>2. QED
  BY <1>1, Invariance, PTL

-----------------------------------------------------------------------------
(* The capacity *)

Blocks == ~ (use.puts \subseteq Nonblocking)

\* What a producer calls is among the operations of this use of the queue;
\* where producers may block, the queue never exceeds its capacity, so that
\* the difference of the two never wraps round.
UseInv ==
  /\ capacity \in use.capacities
  /\ \A p \in Producers : pc[p] # "idle" => call[p] \in use.puts
  /\ \A p \in Producers : pc[p] = "asleep" => call[p] \notin Nonblocking
  /\ Blocks => Len(queue) <= capacity

\* The queue grows only when a producer puts items, and these fit.
LEMMA PutFits ==
  ASSUME IndInv, UseInv, NEW p \in Producers, PutChunk(p) \/ PutAvailable(p)
  PROVE  Len(queue') <= capacity
<1>1. /\ p \in Threads /\ Free(p) \in Nat /\ Len(queue) \in Nat /\ capacity \in Nat
      /\ AtWork(p) /\ rem[p] \in 1 .. MaxBulk
  BY FreeFacts, ChunkFacts, RWQueueAssumption, LenProperties
  DEF IndInv, TypeOK, Threads, PutChunk, PutAvailable
<1>2. CASE PutChunk(p)
  <2> DEFINE n == Chunk(p, Free(p))
  <2>1. Push(p, n) /\ Free(p) >= n /\ call[p] \notin Nonblocking /\ pc[p] # "idle"
    BY <1>2 DEF PutChunk, AtWork
  <2>2. n \in 1 .. rem[p]
    BY <1>1, ChunkFacts
  <2> HIDE DEF n
  <2>3. Len(queue) <= capacity
    BY <2>1 DEF UseInv, Blocks
  <2>4. Free(p) = capacity - Len(queue)
    BY <2>3 DEF Free
  <2>5. Len(queue') = Len(queue) + n
    BY <1>1, <2>1, <2>2, PushStep
  <2>6. QED
    BY <1>1, <2>1, <2>2, <2>4, <2>5
<1>3. CASE PutAvailable(p)
  <2> DEFINE n == Clamp(capacity - Len(queue), 1, rem[p])
  <2>1. Push(p, n) /\ Len(queue) < capacity
    BY <1>3 DEF PutAvailable
  <2>2. capacity - Len(queue) \in Nat /\ capacity - Len(queue) > 0 /\ rem[p] \in Nat /\ rem[p] > 0
    BY <1>1, <2>1, RWQueueAssumption
  <2>3. n \in 1 .. rem[p] /\ n <= capacity - Len(queue)
    <3> DEFINE room == capacity - Len(queue)
               high == rem[p]
    <3>1. room \in Nat /\ room > 0 /\ high \in Nat /\ high > 0
      BY <2>2
    <3> HIDE DEF room, high
    <3>2. /\ Clamp(room, 1, high) \in 1 .. high
          /\ Clamp(room, 1, high) <= room \/ room = 0
      BY <3>1, ClampFacts
    <3>3. Clamp(room, 1, high) <= room
      BY <3>1, <3>2
    <3>4. QED
      BY <3>2, <3>3 DEF room, high
  <2> HIDE DEF n
  <2>4. Len(queue') = Len(queue) + n
    BY <1>1, <2>1, <2>3, PushStep
  <2>5. QED
    BY <1>1, <2>2, <2>3, <2>4
<1>4. QED
  BY <1>2, <1>3

\* What each step does to the variables that the capacity depends on.
LEMMA UseStep ==
  ASSUME IndInv, UseInv, [Next]_vars
  PROVE  /\ UseInv'
         /\ Len(queue') > Len(queue) => Len(queue') <= capacity
<1> USE DEF callVars, history
<1>0. /\ TypeOK /\ Len(queue) \in Nat /\ Producers \subseteq Threads /\ Consumers \subseteq Threads
      /\ Producers \cap Consumers = {}
      /\ capacity \in Nat
  BY RWQueueAssumption, LenProperties DEF IndInv, TypeOK, Threads
<1>1. CASE UNCHANGED vars
  BY <1>0, <1>1 DEF vars, UseInv, Blocks
<1>2. ASSUME NEW p \in Producers, CallPut(p)
      PROVE  UseInv' /\ Len(queue') = Len(queue)
  <2>1. PICK op \in use.puts, n \in 1 .. MaxBulk : Call(p, op, n)
    BY <1>2 DEF CallPut
  <2>2. QED
    BY <1>0, <2>1 DEF Call, UseInv, Blocks, TypeOK
<1>3. ASSUME NEW c \in Consumers, CallTake(c)
      PROVE  UseInv' /\ Len(queue') = Len(queue)
  <2>1. PICK op \in use.takes, n \in 1 .. MaxBulk : Call(c, op, n)
    BY <1>3 DEF CallTake
  <2>2. QED
    BY <1>0, <2>1 DEF Call, UseInv, Blocks, TypeOK
<1>4. ASSUME NEW p \in Producers, WaitForRoom(p)
      PROVE  UseInv' /\ Len(queue') = Len(queue)
  BY <1>0, <1>4 DEF WaitForRoom, Sleep, AtWork, UseInv, Blocks, TypeOK
<1>5. ASSUME NEW p \in Producers, PutChunk(p) \/ PutAvailable(p)
      PROVE  UseInv' /\ Len(queue') <= capacity
  <2>1. Len(queue') <= capacity
    BY <1>5, PutFits
  <2>2. /\ pc' = [pc EXCEPT ![p] = "notify"] /\ pc[p] # "idle"
        /\ UNCHANGED <<use, capacity, call>>
    BY <1>5 DEF PutChunk, PutAvailable, Push, AtWork
  <2>3. QED
    BY <1>0, <2>1, <2>2 DEF UseInv, Blocks, TypeOK
<1>6. ASSUME NEW p \in Producers, PutReturns(p)
      PROVE  UseInv' /\ Len(queue') = Len(queue)
  BY <1>0, <1>6 DEF PutReturns, AtWork, UseInv, Blocks, TypeOK
<1>7. ASSUME NEW p \in Producers, PutNotifies(p)
      PROVE  UseInv' /\ Len(queue') = Len(queue)
  <2>1. /\ pc[p] = "notify"
        /\ \A t \in Producers : pc'[t] # "idle" => pc[t] # "idle"
        /\ \A t \in Producers : pc'[t] = "asleep" => pc[t] = "asleep"
    BY <1>0, <1>7, NotifyFacts DEF PutNotifies
  <2>2. UNCHANGED <<use, capacity, call, queue>>
    BY <1>7 DEF PutNotifies
  <2>3. QED
    BY <2>1, <2>2 DEF UseInv, Blocks
<1>8. ASSUME NEW c \in Consumers, TakeNotifies(c)
      PROVE  UseInv' /\ Len(queue') = Len(queue)
  <2>1. /\ pc[c] = "notify"
        /\ \A t \in Producers : pc'[t] # "idle" => pc[t] # "idle"
        /\ \A t \in Producers : pc'[t] = "asleep" => pc[t] = "asleep"
    BY <1>0, <1>8, NotifyFacts DEF TakeNotifies
  <2>2. UNCHANGED <<use, capacity, call, queue>>
    BY <1>8 DEF TakeNotifies
  <2>3. QED
    BY <2>1, <2>2 DEF UseInv, Blocks
<1>9. ASSUME NEW c \in Consumers, WaitForItems(c) \/ TakeReturns(c)
      PROVE  UseInv' /\ Len(queue') = Len(queue)
  <2>1. UNCHANGED <<use, capacity, call, queue>>
    BY <1>9 DEF WaitForItems, TakeReturns, Sleep
  <2>2. \A p \in Producers : pc'[p] = pc[p]
    <3>1. \A p \in Producers : p # c
      BY <1>0
    <3>2. CASE WaitForItems(c)
      BY <1>0, <3>1, <3>2 DEF WaitForItems, Sleep, TypeOK
    <3>3. CASE TakeReturns(c)
      BY <1>0, <3>1, <3>3 DEF TakeReturns, TypeOK
    <3>4. QED
      BY <1>9, <3>2, <3>3
  <2>3. QED
    BY <2>1, <2>2 DEF UseInv, Blocks
<1>10. ASSUME NEW c \in Consumers, TakeChunk(c)
       PROVE  UseInv' /\ Len(queue') <= Len(queue)
  <2>1. Len(queue') <= Len(queue) /\ Len(queue') \in Nat
    BY <1>10, TakeChunkStep, LenProperties DEF IndInv, TypeOK
  <2>2. UNCHANGED <<use, capacity, call>> /\ pc' = [pc EXCEPT ![c] = "notify"]
    BY <1>10 DEF TakeChunk
  <2>3. QED
    BY <1>0, <2>1, <2>2 DEF UseInv, Blocks, TypeOK
<1>11. ASSUME NEW t \in Threads, SpuriousWakeup(t)
       PROVE  UseInv' /\ Len(queue') = Len(queue)
  BY <1>0, <1>11 DEF SpuriousWakeup, UseInv, Blocks, TypeOK
<1>12. CASE Start \/ Stop
  BY <1>0, <1>12 DEF Start, Stop, UseInv, Blocks
<1>13. CASE Clear
  <2>1. Len(<<>>) = 0
    OBVIOUS
  <2>2. queue' = <<>> /\ UNCHANGED <<use, capacity, call, pc>>
    BY <1>13 DEF Clear
  <2>3. QED
    BY <1>0, <2>1, <2>2 DEF UseInv, Blocks
<1>14. CASE NotifyAll
  BY <1>0, <1>14 DEF NotifyAll, UseInv, Blocks, TypeOK
<1>15. CASE Resize
  <2>1. Blocks => capacity' = capacity
    BY <1>15, RWQueueAssumption DEF Resize, UseInv, Blocks, IndInv, TypeOK
  <2>2. QED
    BY <1>0, <1>15, <2>1 DEF Resize, UseInv, Blocks
<1>16. QED
  <2>1. ASSUME NEW p \in Producers, RunPut(p)
        PROVE  UseInv' /\ (Len(queue') > Len(queue) => Len(queue') <= capacity)
    BY <1>0, <1>4, <1>5, <1>6, <1>7, <2>1 DEF RunPut
  <2>2. ASSUME NEW c \in Consumers, RunTake(c)
        PROVE  UseInv' /\ (Len(queue') > Len(queue) => Len(queue') <= capacity)
    <3>1. CASE TakeChunk(c)
      <4>1. UseInv' /\ Len(queue') <= Len(queue) /\ Len(queue') \in Nat
        BY <1>10, <3>1, TakeChunkStep, LenProperties DEF IndInv, TypeOK
      <4>2. QED
        BY <1>0, <4>1
    <3>2. QED
      BY <1>0, <1>8, <1>9, <2>2, <3>1 DEF RunTake
  <2>3. QED
    BY <1>0, <1>1, <1>2, <1>3, <1>11, <1>12, <1>13, <1>14, <1>15, <2>1, <2>2
    DEF Next, Owner

THEOREM UseInvariance == Spec => [](IndInv /\ UseInv)
<1>1. Init => UseInv
  <2>1. Len(<<>>) = 0
    OBVIOUS
  <2>2. QED
    BY <2>1, RWQueueAssumption DEF Init, UseInv, Threads
<1>2. IndInv /\ UseInv /\ [Next]_vars => UseInv'
  BY UseStep
<1>3. QED
  BY <1>1, <1>2, Invariance, PTL DEF Spec

\* No step that puts items leaves more of them than the capacity, for any
\* number of producers in the middle of a bulk call, whoever resizes.
THEOREM CapacityKept == Spec => CapacityRespected
<1>1. IndInv /\ UseInv /\ [Next]_vars
        => [Len(queue') > Len(queue) => Len(queue') <= capacity]_vars
  BY UseStep
<1>2. QED
  BY <1>1, UseInvariance, PTL DEF Spec, CapacityRespected

-----------------------------------------------------------------------------
(* Wake-ups *)

\* With one thread on either side, no notification is missing: whoever makes
\* the condition of a sleeper true is about to notify it.
THEOREM WakeupKept ==
  ASSUME NEW p, NEW c, Producers = {p}, Consumers = {c}
  PROVE  Spec => []NoLostWakeup
<1> USE DEF callVars, history
<1> DEFINE
      CWaits == pc[c] = "asleep" /\ (~ running \/ Len(queue) >= num[c])
      PWaits == pc[p] = "asleep" /\ (~ running \/ Free(p) >= num[p])
      COk == CWaits => pc[p] = "notify" \/ (owner # <<>> /\ Head(owner) = "has_items")
      POk == PWaits => pc[c] = "notify" \/ owner # <<>>
<1>0. NoLostWakeup <=> COk /\ POk
  BY DEF NoLostWakeup
<1>1. Init => COk /\ POk
  BY DEF Init, Threads
<1>2. ASSUME IndInv, UseInv, COk, POk, [Next]_vars
      PROVE  (COk /\ POk)'
  <2>0. /\ TypeOK /\ p \in Producers /\ c \in Consumers /\ p # c
        /\ Threads = {p, c} /\ DOMAIN pc = {p, c}
    BY <1>2, RWQueueAssumption DEF IndInv, TypeOK, Threads
  <2> USE <1>2, <2>0
  <2>1. CASE UNCHANGED vars
    BY <2>1 DEF vars, Free
  <2>2. CASE CallPut(p) \/ CallTake(c)
    <3>1. /\ UNCHANGED <<queue, capacity, running, num, owner>>
          /\ \/ pc[p] = "idle" /\ pc' = [pc EXCEPT ![p] = "begin"]
             \/ /\ pc[c] = "idle" /\ pc' = [pc EXCEPT ![c] = "begin"]
                /\ call'[p] = call[p]
      BY <2>2 DEF CallPut, CallTake, Call, TypeOK
    <3>2. QED
      BY <3>1 DEF Free
  <2>3. CASE WaitForRoom(p)
    <3>1. /\ running /\ Free(p) < Chunk(p, Free(p)) /\ Free(p) \in Nat
          /\ num' = [num EXCEPT ![p] = Chunk(p, Free(p))]
          /\ pc' = [pc EXCEPT ![p] = "asleep"]
          /\ UNCHANGED <<queue, capacity, running, call, owner>>
          /\ AtWork(p)
      BY <2>3, FreeFacts DEF WaitForRoom, Sleep
    <3>2. Chunk(p, Free(p)) \in Nat
      BY <3>1, ChunkFacts, RWQueueAssumption
    <3>3. num'[p] = Chunk(p, Free(p)) /\ Free(p)' = Free(p) /\ num'[c] = num[c]
      BY <3>1 DEF Free, TypeOK
    <3>4. POk'
      BY <3>1, <3>2, <3>3
    <3>5. COk'
      BY <3>1, <3>3 DEF AtWork
    <3>6. QED
      BY <3>4, <3>5
  <2>4. CASE PutChunk(p) \/ PutAvailable(p)
    <3>1. pc' = [pc EXCEPT ![p] = "notify"]
      BY <2>4 DEF PutChunk, PutAvailable, Push
    <3>2. QED
      BY <3>1
  <2>5. CASE PutReturns(p)
    BY <2>5 DEF PutReturns, AtWork
  <2>6. CASE PutNotifies(p)
    <3>1. pc'[c] # "asleep" /\ pc'[p] # "asleep"
      BY <2>6, NotifyFacts DEF PutNotifies
    <3>2. QED
      BY <3>1
  <2>7. CASE WaitForItems(c)
    <3>1. /\ running /\ Len(queue) < Chunk(c, Len(queue)) /\ Len(queue) \in Nat
          /\ num' = [num EXCEPT ![c] = Chunk(c, Len(queue))]
          /\ pc' = [pc EXCEPT ![c] = "asleep"]
          /\ UNCHANGED <<queue, capacity, running, call, owner>>
          /\ AtWork(c)
      BY <2>7, LenProperties DEF WaitForItems, Sleep, TypeOK
    <3>2. Chunk(c, Len(queue)) \in Nat
      BY <3>1, ChunkFacts, RWQueueAssumption
    <3>3. num'[c] = Chunk(c, Len(queue)) /\ Free(p)' = Free(p) /\ num'[p] = num[p]
      BY <3>1 DEF Free, TypeOK
    <3>4. COk'
      BY <3>1, <3>2, <3>3
    <3>5. POk'
      BY <3>1, <3>3 DEF AtWork
    <3>6. QED
      BY <3>4, <3>5
  <2>8. CASE TakeChunk(c)
    <3>1. pc' = [pc EXCEPT ![c] = "notify"]
      BY <2>8 DEF TakeChunk
    <3>2. QED
      BY <3>1
  <2>9. CASE TakeReturns(c)
    BY <2>9 DEF TakeReturns, AtWork
  <2>10. CASE TakeNotifies(c)
    <3>1. pc'[c] # "asleep" /\ pc'[p] # "asleep"
      BY <2>10, NotifyFacts DEF TakeNotifies
    <3>2. QED
      BY <3>1
  <2>11. ASSUME NEW t \in Threads, SpuriousWakeup(t) PROVE (COk /\ POk)'
    <3>1. /\ UNCHANGED <<queue, capacity, running, call, num, owner>>
          /\ pc[t] = "asleep" /\ pc' = [pc EXCEPT ![t] = "woken"]
      BY <2>11 DEF SpuriousWakeup
    <3>2. QED
      BY <3>1 DEF Free
  <2>12. CASE Start
    BY <2>12 DEF Start, Free
  <2>13. CASE Stop
    BY <2>13 DEF Stop
  <2>14. CASE Clear
    <3>1. Len(queue') = 0 /\ (pc[c] = "asleep" => num[c] = 1)
      BY <2>14 DEF Clear, IndInv, SleepInv
    <3>2. UNCHANGED <<running, pc, num>> /\ owner = <<>> /\ owner' # <<>>
      BY <2>14 DEF Clear
    <3>3. QED
      BY <3>1, <3>2
  <2>15. CASE NotifyAll
    <3>1. /\ UNCHANGED <<queue, capacity, running, call, num>> /\ owner # <<>>
          /\ owner' = Tail(owner)
          /\ pc' = [t \in Threads |->
                      IF pc[t] = "asleep" /\
                         t \in (IF Head(owner) = "has_items" THEN Consumers ELSE Producers)
                        THEN "woken" ELSE pc[t]]
      BY <2>15 DEF NotifyAll
    <3>2. CASE owner = <<"has_room">>
      <4>1. Head(owner) = "has_room"
        BY <3>2
      <4>2. pc'[p] # "asleep" /\ pc'[c] = pc[c] /\ (pc[p] = "notify" => pc'[p] = "notify")
        BY <3>1, <4>1
      <4>3. QED
        BY <3>1, <4>1, <4>2
    <3>3. CASE owner = <<"has_items", "has_room">>
      <4>1. Head(owner) = "has_items" /\ owner' = <<"has_room">> /\ owner' # <<>>
        BY <3>1, <3>3
      <4>2. pc'[c] # "asleep"
        BY <3>1, <4>1
      <4>3. QED
        BY <4>1, <4>2
    <3>4. QED
      BY <3>1, <3>2, <3>3 DEF TypeOK
  <2>16. CASE Resize
    <3>1. UNCHANGED <<queue, running, pc, call, num, owner>>
      BY <2>16 DEF Resize
    <3>2. pc[p] = "asleep" => capacity' = capacity
      <4>1. pc[p] = "asleep" => Blocks
        BY DEF UseInv, Blocks
      <4>2. Blocks => capacity' = capacity
        BY <2>16, RWQueueAssumption DEF Resize, UseInv, Blocks, TypeOK
      <4>3. QED
        BY <4>1, <4>2
    <3>3. QED
      BY <3>1, <3>2 DEF Free
  <2>17. QED
    <3>1. \A q \in Producers : q = p
      OBVIOUS
    <3>2. \A d \in Consumers : d = c
      OBVIOUS
    <3>3. CASE Next
      BY <2>2, <2>3, <2>4, <2>5, <2>6, <2>7, <2>8, <2>9, <2>10, <2>11, <2>12,
         <2>13, <2>14, <2>15, <2>16, <3>1, <3>2, <3>3
      DEF Next, RunPut, RunTake, Owner
    <3>4. QED
      BY <2>1, <3>3
<1> HIDE DEF COk, POk
<1>3. IndInv /\ UseInv /\ COk /\ POk /\ [Next]_vars => (COk /\ POk)'
  BY <1>2
<1>4. Spec => [](COk /\ POk)
  BY <1>1, <1>3, UseInvariance, PTL DEF Spec
<1>5. QED
  BY <1>0, <1>4, PTL

-----------------------------------------------------------------------------
(* What was delivered, and what the producers were told *)

\* How many of the items of a sequence are a producer's own.
CountOf(s, p) == Cardinality({i \in DOMAIN s : s[i][1] = p})

DroppedOf(p) == {x \in dropped : x[1] = p}

\* All items that were not dropped, the delivered ones first.
Stream == got \o queue

\* Each producer's items are numbered upwards along the stream, below its
\* next number; what was dropped came before what is queued.
OrderInv ==
  /\ \A i, j \in 1 .. Len(Stream) :
       i < j /\ Stream[i][1] = Stream[j][1] => Stream[i][2] < Stream[j][2]
  /\ \A i \in 1 .. Len(Stream) : Stream[i][2] < next[Stream[i][1]]
  /\ \A x \in dropped : x[2] < next[x[1]]
  /\ \A x \in dropped : \A j \in 1 .. Len(queue) :
       x[1] = queue[j][1] => x[2] < queue[j][2]

\* What a producer was told, and will be told of the call it is in
Put(p) == told[p] + (IF pc[p] = "idle" THEN 0 ELSE want[p] - rem[p])

CountInv ==
  \A p \in Producers :
    Put(p) = CountOf(got, p) + CountOf(queue, p) + Cardinality(DroppedOf(p))

LEMMA ItemFacts ==
  ASSUME NEW x \in Items
  PROVE  x[1] \in Producers /\ x[2] \in 1 .. MaxItems /\ x = <<x[1], x[2]>>
  BY DEF Items

LEMMA CountType ==
  ASSUME NEW s \in Seq(Items), NEW p
  PROVE  /\ IsFiniteSet({i \in DOMAIN s : s[i][1] = p})
         /\ CountOf(s, p) \in Nat
<1>1. DOMAIN s = 1 .. Len(s) /\ Len(s) \in Nat
  BY LenProperties
<1>2. IsFiniteSet(1 .. Len(s))
  BY <1>1, FS_Interval
<1>3. IsFiniteSet({i \in DOMAIN s : s[i][1] = p})
  BY <1>1, <1>2, FS_Subset
<1>4. QED
  BY <1>3, FS_CardinalityType DEF CountOf

\* A one-to-one map keeps the cardinality.
LEMMA SameCount ==
  ASSUME NEW S, NEW T, IsFiniteSet(S), NEW f \in [S -> T],
         \A x, y \in S : f[x] = f[y] => x = y,
         \A z \in T : \E x \in S : f[x] = z
  PROVE  IsFiniteSet(T) /\ Cardinality(T) = Cardinality(S)
<1>1. f \in Bijection(S, T)
  BY DEF Bijection, Injection, Surjection, IsInjective
<1>2. ExistsBijection(S, T)
  BY <1>1 DEF ExistsBijection
<1>3. QED
  BY <1>2, FS_Bijection

\* Disjoint sets
LEMMA SumCount ==
  ASSUME NEW S, NEW T, IsFiniteSet(S), IsFiniteSet(T), S \cap T = {}
  PROVE  /\ Cardinality(S) \in Nat /\ Cardinality(T) \in Nat
         /\ Cardinality(S \cup T) = Cardinality(S) + Cardinality(T)
<1>1. Cardinality(S \cup T) = Cardinality(S) + Cardinality(T) - Cardinality(S \cap T)
  BY FS_Union
<1>2. Cardinality(S \cap T) = 0
  BY FS_EmptySet
<1>3. Cardinality(S) \in Nat /\ Cardinality(T) \in Nat
  BY FS_CardinalityType
<1>4. QED
  BY <1>1, <1>2, <1>3

\* Counting adds up over a concatenation.
LEMMA CountConcat ==
  ASSUME NEW s \in Seq(Items), NEW t \in Seq(Items), NEW p
  PROVE  CountOf(s \o t, p) = CountOf(s, p) + CountOf(t, p)
<1> DEFINE A == {i \in DOMAIN s : s[i][1] = p}
           B == {i \in DOMAIN t : t[i][1] = p}
           C == {i \in DOMAIN (s \o t) : (s \o t)[i][1] = p}
           D == {i + Len(s) : i \in B}
           f == [i \in B |-> i + Len(s)]
<1>1. /\ Len(s) \in Nat /\ DOMAIN s = 1 .. Len(s)
      /\ Len(t) \in Nat /\ DOMAIN t = 1 .. Len(t)
  BY LenProperties
<1>2. /\ s \o t \in Seq(Items) /\ Len(s \o t) = Len(s) + Len(t)
      /\ \A i \in 1 .. Len(s) + Len(t) :
           (s \o t)[i] = IF i <= Len(s) THEN s[i] ELSE t[i - Len(s)]
  BY ConcatProperties
<1>3. DOMAIN (s \o t) = 1 .. Len(s) + Len(t)
  BY <1>2, LenProperties
<1>4. IsFiniteSet(A) /\ IsFiniteSet(B)
  BY CountType
<1>5. B \subseteq Int
  BY <1>1
<1>6. /\ f \in [B -> D]
      /\ \A x, y \in B : f[x] = f[y] => x = y
      /\ \A z \in D : \E x \in B : f[x] = z
  BY <1>1, <1>5
<1> HIDE DEF f
<1>7. IsFiniteSet(D) /\ Cardinality(D) = Cardinality(B)
  BY <1>4, <1>6, SameCount
<1>8. C = A \cup D
  <2>1. ASSUME NEW i \in C PROVE i \in A \cup D
    <3>1. i \in 1 .. Len(s) + Len(t) /\ (s \o t)[i][1] = p
      BY <1>3
    <3>2. CASE i <= Len(s)
      BY <1>1, <1>2, <3>1, <3>2
    <3>3. CASE ~ (i <= Len(s))
      <4>1. i - Len(s) \in B /\ i = (i - Len(s)) + Len(s)
        BY <1>1, <1>2, <3>1, <3>3
      <4>2. QED
        BY <4>1
    <3>4. QED
      BY <3>2, <3>3
  <2>2. ASSUME NEW i \in A PROVE i \in C
    BY <1>1, <1>2, <1>3
  <2>3. ASSUME NEW i \in B PROVE i + Len(s) \in C
    <3>1. i + Len(s) \in 1 .. Len(s) + Len(t) /\ ~ (i + Len(s) <= Len(s)) /\ (i + Len(s)) - Len(s) = i
      BY <1>1
    <3>2. (s \o t)[i + Len(s)] = t[i]
      BY <1>2, <3>1
    <3>3. QED
      BY <1>3, <3>1, <3>2
  <2>4. QED
    BY <2>1, <2>2, <2>3
<1>9. A \cap D = {}
  BY <1>1
<1> HIDE DEF A, B, C, D
<1>10. Cardinality(C) = Cardinality(A) + Cardinality(B)
  BY <1>4, <1>7, <1>8, <1>9, SumCount
<1>11. QED
  BY <1>10 DEF CountOf, A, B, C

LEMMA CountEmpty ==
  ASSUME NEW p
  PROVE  CountOf(<<>>, p) = 0
<1>1. {i \in DOMAIN <<>> : <<>>[i][1] = p} = {}
  OBVIOUS
<1>2. QED
  BY <1>1, FS_EmptySet DEF CountOf

\* All items that a call appends are the caller's.
LEMMA CountPushed ==
  ASSUME NEW p, NEW n \in Nat, NEW s, DOMAIN s = 1 .. n,
         \A i \in 1 .. n : s[i][1] = p
  PROVE  /\ CountOf(s, p) = n
         /\ \A q : q # p => CountOf(s, q) = 0
<1>1. CountOf(s, p) = n
  <2>1. {i \in DOMAIN s : s[i][1] = p} = 1 .. n
    OBVIOUS
  <2>2. Cardinality(1 .. n) = n
    BY FS_Interval
  <2>3. QED
    BY <2>1, <2>2 DEF CountOf
<1>2. ASSUME NEW q, q # p PROVE CountOf(s, q) = 0
  <2>1. {i \in DOMAIN s : s[i][1] = q} = {}
    BY <1>2
  <2>2. QED
    BY <2>1, FS_EmptySet DEF CountOf
<1>3. QED
  BY <1>1, <1>2

\* The items of a producer that were dropped are finitely many.
LEMMA DroppedFinite ==
  ASSUME TypeOK, NEW p \in Producers
  PROVE  IsFiniteSet(DroppedOf(p)) /\ Cardinality(DroppedOf(p)) \in Nat
<1>1. IsFiniteSet({p}) /\ IsFiniteSet(1 .. MaxItems)
  <2>1. MaxItems \in Int /\ 1 \in Int
    BY RWQueueAssumption
  <2>2. IsFiniteSet(1 .. MaxItems)
    BY <2>1, FS_Interval
  <2>3. QED
    BY <2>2, FS_Singleton
<1>2. IsFiniteSet({p} \X (1 .. MaxItems))
  BY <1>1, FS_Product
<1>3. DroppedOf(p) \subseteq {p} \X (1 .. MaxItems)
  BY ItemFacts DEF DroppedOf, TypeOK, Items
<1>4. IsFiniteSet(DroppedOf(p))
  BY <1>2, <1>3, FS_Subset
<1>5. QED
  BY <1>4, FS_CardinalityType

\* A step that moves no item, and after which every producer has put as many
\* items as before, preserves both invariants.
LEMMA QuietStep ==
  ASSUME IndInv, OrderInv, CountInv, UNCHANGED <<queue, got, dropped>>,
         \A p \in Producers : next'[p] \in Nat /\ next'[p] >= next[p] /\ Put(p)' = Put(p)
  PROVE  OrderInv' /\ CountInv'
<1>1. Stream \in Seq(Items) /\ Stream' = Stream
  BY ConcatProperties DEF Stream, IndInv, TypeOK
<1>2. \A i \in 1 .. Len(Stream) : Stream[i][1] \in Producers /\ Stream[i][2] \in Nat
  BY <1>1, ElementOfSeq, ItemFacts, RWQueueAssumption
<1>3. \A x \in dropped : x[1] \in Producers /\ x[2] \in Nat
  BY ItemFacts, RWQueueAssumption DEF IndInv, TypeOK
<1>4. \A p \in Producers : next[p] \in Nat
  BY RWQueueAssumption DEF IndInv, TypeOK
<1>5. \A i \in 1 .. Len(Stream) : Stream[i][2] < next'[Stream[i][1]]
  <2> TAKE i \in 1 .. Len(Stream)
  <2> DEFINE q == Stream[i][1]
             k == Stream[i][2]
  <2>1. q \in Producers /\ k \in Nat /\ k < next[q]
    BY <1>2 DEF OrderInv
  <2> HIDE DEF q, k
  <2>2. k < next'[q]
    BY <1>4, <2>1
  <2>3. QED
    BY <2>2 DEF q, k
<1>6. \A x \in dropped : x[2] < next'[x[1]]
  <2> TAKE x \in dropped
  <2> DEFINE q == x[1]
             k == x[2]
  <2>1. q \in Producers /\ k \in Nat /\ k < next[q]
    BY <1>3 DEF OrderInv
  <2> HIDE DEF q, k
  <2>2. k < next'[q]
    BY <1>4, <2>1
  <2>3. QED
    BY <2>2 DEF q, k
<1>7. OrderInv'
  BY <1>1, <1>5, <1>6 DEF OrderInv
<1>8. CountInv'
  <2>1. \A p \in Producers : CountOf(got, p)' = CountOf(got, p) /\ CountOf(queue, p)' = CountOf(queue, p)
    BY DEF CountOf
  <2>2. \A p \in Producers : DroppedOf(p)' = DroppedOf(p)
    BY DEF DroppedOf
  <2>3. QED
    BY <2>1, <2>2 DEF CountInv
<1>9. QED
  BY <1>7, <1>8

LEMMA PushCounts ==
  ASSUME IndInv, OrderInv, CountInv, NEW p \in Producers, NEW n \in 1 .. rem[p],
         AtWork(p), Push(p, n)
  PROVE  OrderInv' /\ CountInv'
<1> USE DEF callVars, history
<1> DEFINE new == [i \in 1 .. n |-> <<p, next[p] + i - 1>>]
<1>1. /\ p \in Threads /\ rem[p] \in 0 .. MaxBulk /\ want[p] \in Nat
      /\ next[p] \in Nat /\ next[p] > 0
      /\ next[p] + rem[p] <= MaxItems + 1
      /\ MaxItems \in Nat /\ MaxBulk \in Nat
      /\ told[p] \in Nat
      /\ pc[p] # "idle"
  BY RWQueueAssumption DEF IndInv, TypeOK, CallInv, AtWork, Threads
<1>2. n \in Nat /\ n > 0 /\ next[p] + n <= MaxItems + 1
  BY <1>1
<1>3. new \in Seq(Items) /\ Len(new) = n
  <2>1. \A i \in 1 .. n : next[p] + i - 1 \in 1 .. MaxItems
    BY <1>1, <1>2
  <2>2. \A i \in 1 .. n : <<p, next[p] + i - 1>> \in Items
    BY <2>1 DEF Items
  <2>3. new \in [1 .. n -> Items]
    BY <2>2
  <2>4. QED
    BY <1>2, <2>3, FunIsSeq
<1>4. \A i \in 1 .. n : new[i][1] = p /\ new[i][2] = next[p] + i - 1
  OBVIOUS
<1>5. /\ queue' = queue \o new
      /\ next' = [next EXCEPT ![p] = next[p] + n]
      /\ rem' = [rem EXCEPT ![p] = rem[p] - n]
      /\ pc' = [pc EXCEPT ![p] = "notify"]
      /\ UNCHANGED <<want, told, got, dropped>>
  BY DEF Push
<1>6. queue \in Seq(Items) /\ got \in Seq(Items) /\ Stream \in Seq(Items)
  BY ConcatProperties DEF IndInv, TypeOK, Stream
<1> DEFINE m == Len(Stream)
<1>7. /\ m \in Nat
      /\ \A i \in 1 .. m : Stream[i] \in Items
      /\ Len(queue) \in Nat
      /\ \A i \in 1 .. Len(queue) : queue[i] \in Items
  BY <1>6, LenProperties, ElementOfSeq
<1> HIDE DEF new
<1>8. Stream' = Stream \o new
  <2>1. (got \o queue) \o new = got \o (queue \o new)
    BY <1>3, <1>6, ConcatAssociative
  <2>2. QED
    BY <1>5, <2>1 DEF Stream
<1>n. \A q \in Producers :
        /\ next[q] \in Nat
        /\ next'[q] \in Nat
        /\ next'[q] = IF q = p THEN next[p] + n ELSE next[q]
  <2>1. next \in [Producers -> 1 .. MaxItems + 1]
    BY DEF IndInv, TypeOK
  <2>2. \A q \in Producers : next[q] \in Nat
    BY <1>1, <2>1
  <2>3. QED
    BY <1>1, <1>2, <1>5, <2>1, <2>2
<1>9. /\ Len(Stream') = m + n
      /\ \A i \in 1 .. m + n : Stream'[i] = IF i <= m THEN Stream[i] ELSE new[i - m]
      /\ Len(queue') = Len(queue) + n
      /\ \A i \in 1 .. Len(queue) + n :
           queue'[i] = IF i <= Len(queue) THEN queue[i] ELSE new[i - Len(queue)]
  BY <1>3, <1>5, <1>6, <1>8, ConcatProperties
<1> HIDE DEF m
<1>10. \A i \in 1 .. m : /\ Stream[i][1] \in Producers /\ Stream[i][2] \in Nat
                         /\ Stream[i][2] < next[Stream[i][1]]
  BY <1>7, ItemFacts, RWQueueAssumption DEF OrderInv, m
<1>11. \A i \in 1 .. m + n : i > m => /\ i - m \in 1 .. n
                                      /\ Stream'[i][1] = p
                                      /\ Stream'[i][2] = next[p] + (i - m) - 1
  <2> SUFFICES ASSUME NEW i \in 1 .. m + n, i > m
               PROVE  /\ i - m \in 1 .. n
                      /\ Stream'[i][1] = p
                      /\ Stream'[i][2] = next[p] + (i - m) - 1
    OBVIOUS
  <2>1. i - m \in 1 .. n /\ ~ (i <= m)
    BY <1>2, <1>7
  <2>2. Stream'[i] = new[i - m]
    BY <1>9, <2>1
  <2>3. QED
    BY <1>4, <2>1, <2>2
<1>12. ASSUME NEW i \in 1 .. m + n, NEW j \in 1 .. m + n, i < j, Stream'[i][1] = Stream'[j][1]
       PROVE  Stream'[i][2] < Stream'[j][2]
  <2>1. CASE j <= m
    <3>1. i \in 1 .. m /\ j \in 1 .. m
      BY <1>2, <1>7, <1>12, <2>1 DEF m
    <3>2. Stream'[i] = Stream[i] /\ Stream'[j] = Stream[j]
      BY <1>7, <1>9, <1>12, <2>1, <3>1
    <3>3. QED
      BY <1>12, <3>1, <3>2 DEF OrderInv, m
  <2>2. CASE j > m /\ i <= m
    <3>1. i \in 1 .. m /\ Stream'[i] = Stream[i]
      BY <1>2, <1>7, <1>9, <1>12, <2>2
    <3>2. Stream[i][1] = p /\ Stream'[j][2] = next[p] + (j - m) - 1 /\ j - m \in 1 .. n
      BY <1>11, <1>12, <2>2, <3>1
    <3>3. Stream[i][2] \in Nat /\ Stream[i][2] < next[p]
      BY <1>10, <3>1, <3>2
    <3>4. next[p] \in Nat /\ j - m \in Nat /\ j - m >= 1
      BY <1>1, <3>2
    <3>5. next[p] <= next[p] + (j - m) - 1
      BY <3>4
    <3>6. QED
      BY <3>1, <3>2, <3>3, <3>4, <3>5
  <2>3. CASE i > m
    <3>1. /\ Stream'[i][2] = next[p] + (i - m) - 1 /\ i - m \in 1 .. n
          /\ Stream'[j][2] = next[p] + (j - m) - 1 /\ j - m \in 1 .. n
      BY <1>2, <1>7, <1>11, <1>12, <2>3
    <3>2. QED
      BY <1>1, <1>2, <1>7, <1>12, <3>1
  <2>4. QED
    BY <1>2, <1>7, <2>1, <2>2, <2>3
<1>13. ASSUME NEW i \in 1 .. m + n PROVE Stream'[i][2] < next'[Stream'[i][1]]
  <2>1. CASE i <= m
    <3>1. i \in 1 .. m /\ Stream'[i] = Stream[i]
      BY <1>2, <1>7, <1>9, <2>1
    <3> DEFINE q == Stream[i][1]
               k == Stream[i][2]
    <3>2. q \in Producers /\ k \in Nat /\ k < next[q]
      BY <1>10, <3>1
    <3> HIDE DEF q, k
    <3>3. k < next'[q]
      BY <1>1, <1>2, <1>n, <3>2
    <3>4. QED
      BY <3>1, <3>3 DEF q, k
  <2>2. CASE i > m
    <3>1. /\ Stream'[i][2] = next[p] + (i - m) - 1 /\ i - m \in 1 .. n
          /\ Stream'[i][1] = p
      BY <1>11, <2>2
    <3>2. QED
      BY <1>1, <1>2, <1>7, <1>n, <3>1
  <2>3. QED
    BY <1>2, <1>7, <2>1, <2>2
<1>14. ASSUME NEW x \in dropped
       PROVE  /\ x[2] < next'[x[1]]
              /\ \A j \in 1 .. Len(queue) + n : x[1] = queue'[j][1] => x[2] < queue'[j][2]
  <2> DEFINE q == x[1]
             k == x[2]
  <2>1. q \in Producers /\ k \in Nat /\ k < next[q]
    BY <1>14, ItemFacts, RWQueueAssumption DEF OrderInv, IndInv, TypeOK
  <2>2. \A j \in 1 .. Len(queue) : q = queue[j][1] => k < queue[j][2]
    BY <1>14 DEF OrderInv
  <2> HIDE DEF q, k
  <2>3. k < next'[q]
    BY <1>1, <1>2, <1>n, <2>1
  <2>4. ASSUME NEW j \in 1 .. Len(queue) + n, q = queue'[j][1] PROVE k < queue'[j][2]
    <3>1. CASE j <= Len(queue)
      <4>1. j \in 1 .. Len(queue) /\ queue'[j] = queue[j]
        BY <1>2, <1>7, <1>9, <3>1
      <4>2. QED
        BY <2>2, <2>4, <4>1
    <3>2. CASE j > Len(queue)
      <4>1. j - Len(queue) \in 1 .. n /\ queue'[j] = new[j - Len(queue)]
        BY <1>2, <1>7, <1>9, <3>2
      <4>2. queue'[j][1] = p /\ queue'[j][2] = next[p] + (j - Len(queue)) - 1
        BY <1>4, <4>1
      <4>3. QED
        BY <1>1, <1>2, <1>7, <2>1, <2>4, <4>1, <4>2
    <3>3. QED
      BY <1>2, <1>7, <3>1, <3>2
  <2>5. QED
    BY <2>3, <2>4 DEF q, k
<1>15. OrderInv'
  BY <1>5, <1>9, <1>12, <1>13, <1>14 DEF OrderInv
<1>16. CountInv'
  <2> SUFFICES ASSUME NEW q \in Producers
               PROVE  Put(q)' = CountOf(got, q)' + CountOf(queue, q)' + Cardinality(DroppedOf(q)')
    BY DEF CountInv
  <2>1. CountOf(queue, q)' = CountOf(queue, q) + (IF q = p THEN n ELSE 0)
    <3>1. CountOf(new, q) = IF q = p THEN n ELSE 0
      <4>1. DOMAIN new = 1 .. n
        BY DEF new
      <4>2. \A i \in 1 .. n : new[i][1] = p
        BY <1>4
      <4>3. n \in Nat
        BY <1>2
      <4>4. CountOf(new, p) = n /\ \A r : r # p => CountOf(new, r) = 0
        BY <4>1, <4>2, <4>3, CountPushed
      <4>5. QED
        BY <4>4
    <3>2. CountOf(queue \o new, q) = CountOf(queue, q) + CountOf(new, q)
      BY <1>3, <1>6, CountConcat
    <3>3. CountOf(queue, q)' = CountOf(queue \o new, q)
      BY <1>5 DEF CountOf
    <3>4. QED
      BY <3>1, <3>2, <3>3
  <2>2. CountOf(got, q)' = CountOf(got, q) /\ DroppedOf(q)' = DroppedOf(q)
    BY <1>5 DEF CountOf, DroppedOf
  <2>3. Put(q)' = Put(q) + (IF q = p THEN n ELSE 0)
    <3>1. /\ q \in Threads /\ rem[q] \in Nat /\ want[q] \in Nat /\ told[q] \in Nat
          /\ rem'[q] = IF q = p THEN rem[p] - n ELSE rem[q]
          /\ pc'[q] = IF q = p THEN "notify" ELSE pc[q]
      BY <1>1, <1>5, RWQueueAssumption DEF IndInv, TypeOK, Threads
    <3>2. QED
      BY <1>1, <1>2, <1>5, <3>1 DEF Put
  <2>4. CountOf(got, q) \in Nat /\ CountOf(queue, q) \in Nat /\ Cardinality(DroppedOf(q)) \in Nat
    BY <1>6, CountType, DroppedFinite DEF IndInv
  <2>5. Put(q) = CountOf(got, q) + CountOf(queue, q) + Cardinality(DroppedOf(q))
    BY DEF CountInv
  <2>6. QED
    BY <1>2, <2>1, <2>2, <2>3, <2>4, <2>5
<1>17. QED
  BY <1>15, <1>16

LEMMA TakeCounts ==
  ASSUME IndInv, OrderInv, CountInv, NEW c \in Consumers, TakeChunk(c)
  PROVE  OrderInv' /\ CountInv'
<1> USE DEF callVars, history
<1> DEFINE n == Chunk(c, Len(queue))
           front == SubSeq(queue, 1, n)
           rest == SubSeq(queue, n + 1, Len(queue))
<1>1. /\ c \in Threads /\ c \notin Producers
      /\ Len(queue) \in Nat
      /\ queue \in Seq(Items) /\ got \in Seq(Items)
      /\ \A i \in 1 .. Len(queue) : queue[i] \in Items
  BY RWQueueAssumption, LenProperties, ElementOfSeq DEF IndInv, TypeOK, Threads
<1>2. n \in 1 .. Len(queue) /\ rem[c] \in 1 .. MaxBulk
  <2>1. n \in 1 .. rem[c] /\ rem[c] \in 1 .. MaxBulk /\ n <= Len(queue)
    BY <1>1, ChunkFacts DEF TakeChunk
  <2>2. QED
    BY <1>1, <2>1, RWQueueAssumption
<1>3. /\ got' = got \o front
      /\ queue' = rest
      /\ rem' = [rem EXCEPT ![c] = rem[c] - n]
      /\ pc' = [pc EXCEPT ![c] = "notify"]
      /\ UNCHANGED <<want, next, told, dropped>>
  BY DEF TakeChunk
<1> HIDE DEF n
<1>4. front \in Seq(Items)
  <2>1. 1 \in Int /\ n \in Int /\ \A i \in 1 .. n : queue[i] \in Items
    BY <1>1, <1>2
  <2>2. QED
    BY <2>1, SubSeqProperties
<1>5. /\ rest \in Seq(Items)
      /\ Len(rest) = Len(queue) - n
      /\ \A i \in 1 .. Len(rest) : i + n \in 1 .. Len(queue) /\ rest[i] = queue[i + n]
  <2>1. n + 1 \in Int /\ Len(queue) \in Int /\ \A i \in n + 1 .. Len(queue) : queue[i] \in Items
    BY <1>1, <1>2
  <2>2. /\ rest \in Seq(Items)
        /\ Len(rest) = IF n + 1 <= Len(queue) THEN Len(queue) - (n + 1) + 1 ELSE 0
        /\ \A i \in 1 .. Len(queue) - (n + 1) + 1 : rest[i] = queue[(n + 1) + i - 1]
    BY <2>1, SubSeqProperties
  <2>3. QED
    BY <1>1, <1>2, <2>2
<1>6. front \o rest = queue
  <2>1. 1 \in 1 .. Len(queue) + 1 /\ n \in 1 - 1 .. Len(queue) /\ Len(queue) \in n .. Len(queue)
    BY <1>1, <1>2
  <2>2. front \o rest = SubSeq(queue, 1, Len(queue))
    BY <1>1, <2>1, ConcatAdjacentSubSeq
  <2>3. QED
    BY <1>1, <2>2, SubSeqFull
<1> HIDE DEF front, rest
<1>7. Stream' = Stream
  <2>1. (got \o front) \o rest = got \o (front \o rest)
    <3>1. got \in Seq(Items) /\ front \in Seq(Items) /\ rest \in Seq(Items)
      BY <1>1, <1>4, <1>5
    <3>2. QED
      BY <3>1, ConcatAssociative
  <2>2. QED
    BY <1>3, <1>6, <2>1 DEF Stream
<1>8. OrderInv'
  <2>1. \A x \in dropped : \A j \in 1 .. Len(rest) : x[1] = rest[j][1] => x[2] < rest[j][2]
    BY <1>5 DEF OrderInv
  <2>2. QED
    BY <1>3, <1>7, <2>1 DEF OrderInv
<1>9. CountInv'
  <2> SUFFICES ASSUME NEW q \in Producers
               PROVE  Put(q)' = CountOf(got, q)' + CountOf(queue, q)' + Cardinality(DroppedOf(q)')
    BY DEF CountInv
  <2>1. CountOf(got, q)' = CountOf(got, q) + CountOf(front, q)
    <3>1. CountOf(got, q)' = CountOf(got \o front, q)
      BY <1>3 DEF CountOf
    <3>2. QED
      BY <1>1, <1>4, <3>1, CountConcat
  <2>2. CountOf(queue, q) = CountOf(front, q) + CountOf(rest, q)
    BY <1>4, <1>5, <1>6, CountConcat
  <2>3. CountOf(queue, q)' = CountOf(rest, q)
    BY <1>3 DEF CountOf
  <2>4. DroppedOf(q)' = DroppedOf(q)
    BY <1>3 DEF DroppedOf
  <2>5. Put(q)' = Put(q)
    BY <1>1, <1>3 DEF Put, IndInv, TypeOK, Threads
  <2>6. /\ CountOf(got, q) \in Nat /\ CountOf(front, q) \in Nat /\ CountOf(rest, q) \in Nat
        /\ Cardinality(DroppedOf(q)) \in Nat
    BY <1>1, <1>4, <1>5, CountType, DroppedFinite DEF IndInv
  <2>7. Put(q) = CountOf(got, q) + CountOf(queue, q) + Cardinality(DroppedOf(q))
    BY DEF CountInv
  <2>8. QED
    BY <2>1, <2>2, <2>3, <2>4, <2>5, <2>6, <2>7
<1>10. QED
  BY <1>8, <1>9

LEMMA ClearCounts ==
  ASSUME IndInv, OrderInv, CountInv, Clear
  PROVE  OrderInv' /\ CountInv'
<1> USE DEF callVars, history
<1>1. /\ queue' = <<>>
      /\ dropped' = dropped \cup {queue[i] : i \in DOMAIN queue}
      /\ UNCHANGED <<pc, want, rem, next, told, got>>
  BY DEF Clear
<1>2. /\ queue \in Seq(Items) /\ got \in Seq(Items) /\ Stream \in Seq(Items)
      /\ DOMAIN queue = 1 .. Len(queue) /\ Len(queue) \in Nat /\ Len(got) \in Nat
      /\ Len(Stream) = Len(got) + Len(queue)
      /\ \A i \in 1 .. Len(queue) : queue[i] \in Items
  BY LenProperties, ElementOfSeq, ConcatProperties DEF IndInv, TypeOK, Stream
<1>3. \A i \in 1 .. Len(got) : i \in 1 .. Len(Stream) /\ Stream[i] = got[i]
  BY <1>2, ConcatProperties DEF Stream
<1>4. \A i \in 1 .. Len(queue) : Len(got) + i \in 1 .. Len(Stream) /\ Stream[Len(got) + i] = queue[i]
  <2> TAKE i \in 1 .. Len(queue)
  <2>1. Len(got) + i \in 1 .. Len(got) + Len(queue) /\ ~ (Len(got) + i <= Len(got))
        /\ (Len(got) + i) - Len(got) = i
    BY <1>2
  <2>2. QED
    BY <1>2, <2>1, ConcatProperties DEF Stream
<1>5. Stream' = got
  BY <1>1, <1>2, ConcatEmptySeq DEF Stream
<1>6. OrderInv'
  <2>1. \A x \in dropped' : x[2] < next[x[1]]
    <3>1. \A i \in 1 .. Len(queue) : queue[i][2] < next[queue[i][1]]
      <4> TAKE i \in 1 .. Len(queue)
      <4>1. Len(got) + i \in 1 .. Len(Stream) /\ Stream[Len(got) + i] = queue[i]
        BY <1>4
      <4>2. QED
        BY <4>1 DEF OrderInv
    <3>2. QED
      BY <1>1, <1>2, <3>1 DEF OrderInv
  <2>2. Len(queue') = 0
    BY <1>1
  <2>3. \A i, j \in 1 .. Len(got) : i < j /\ got[i][1] = got[j][1] => got[i][2] < got[j][2]
    BY <1>3 DEF OrderInv
  <2>4. \A i \in 1 .. Len(got) : got[i][2] < next[got[i][1]]
    BY <1>3 DEF OrderInv
  <2>5. \A j \in 1 .. Len(queue') : FALSE
    BY <2>2
  <2>6. QED
    BY <1>1, <1>5, <2>1, <2>3, <2>4, <2>5 DEF OrderInv
<1>7. CountInv'
  <2> SUFFICES ASSUME NEW q \in Producers
               PROVE  Put(q)' = CountOf(got, q)' + CountOf(queue, q)' + Cardinality(DroppedOf(q)')
    BY DEF CountInv
  <2> DEFINE I == {i \in DOMAIN queue : queue[i][1] = q}
             Q == {queue[i] : i \in I}
             f == [i \in I |-> queue[i]]
  <2>1. ASSUME NEW i \in 1 .. Len(queue), NEW j \in 1 .. Len(queue), i < j, queue[i][1] = queue[j][1]
        PROVE  queue[i][2] < queue[j][2]
    <3>1. Len(got) + i < Len(got) + j
      BY <1>2, <2>1
    <3>2. /\ Len(got) + i \in 1 .. Len(Stream) /\ Stream[Len(got) + i] = queue[i]
          /\ Len(got) + j \in 1 .. Len(Stream) /\ Stream[Len(got) + j] = queue[j]
      BY <1>4
    <3>3. Stream[Len(got) + i][2] < Stream[Len(got) + j][2]
      BY <2>1, <3>1, <3>2 DEF OrderInv
    <3>4. QED
      BY <3>2, <3>3
  <2>2. \A i, j \in I : queue[i] = queue[j] => i = j
    <3> SUFFICES ASSUME NEW i \in I, NEW j \in I, queue[i] = queue[j], i # j PROVE FALSE
      OBVIOUS
    <3>1. i \in 1 .. Len(queue) /\ j \in 1 .. Len(queue)
      BY <1>2
    <3>2. queue[i][2] \in Nat
      BY <1>2, <3>1, ItemFacts, RWQueueAssumption
    <3>3. CASE i < j
      BY <2>1, <3>1, <3>2, <3>3
    <3>4. CASE j < i
      BY <2>1, <3>1, <3>2, <3>4
    <3>5. QED
      BY <1>2, <3>1, <3>3, <3>4
  <2>3. /\ f \in [I -> Q]
        /\ \A x, y \in I : f[x] = f[y] => x = y
        /\ \A z \in Q : \E x \in I : f[x] = z
    BY <2>2
  <2>4. IsFiniteSet(I) /\ Cardinality(I) = CountOf(queue, q)
    BY <1>2, CountType DEF CountOf
  <2> HIDE DEF f
  <2>5. IsFiniteSet(Q) /\ Cardinality(Q) = CountOf(queue, q)
    BY <2>3, <2>4, SameCount
  <2>6. DroppedOf(q)' = DroppedOf(q) \cup Q
    BY <1>1 DEF DroppedOf
  <2>7. DroppedOf(q) \cap Q = {}
    <3> SUFFICES ASSUME NEW x \in DroppedOf(q), NEW i \in I, x = queue[i] PROVE FALSE
      OBVIOUS
    <3>1. x \in dropped /\ i \in 1 .. Len(queue)
      BY <1>2 DEF DroppedOf
    <3>2. x[2] \in Nat
      BY <1>2, <3>1, ItemFacts, RWQueueAssumption
    <3>3. x[2] < queue[i][2]
      BY <3>1 DEF OrderInv
    <3>4. QED
      BY <3>2, <3>3
  <2>8. IsFiniteSet(DroppedOf(q)) /\ Cardinality(DroppedOf(q)) \in Nat
    BY DroppedFinite DEF IndInv
  <2> HIDE DEF I, Q
  <2>9. CountOf(queue, q) \in Nat /\ CountOf(got, q) \in Nat
    BY <1>2, CountType
  <2>10. Cardinality(DroppedOf(q)') = Cardinality(DroppedOf(q)) + CountOf(queue, q)
    BY <2>5, <2>6, <2>7, <2>8, SumCount
  <2>11. CountOf(queue, q)' = 0
    <3>1. CountOf(queue, q)' = CountOf(<<>>, q)
      BY <1>1 DEF CountOf
    <3>2. QED
      BY <3>1, CountEmpty
  <2>12. CountOf(got, q)' = CountOf(got, q) /\ Put(q)' = Put(q)
    BY <1>1 DEF CountOf, Put
  <2>13. Put(q) = CountOf(got, q) + CountOf(queue, q) + Cardinality(DroppedOf(q))
    BY DEF CountInv
  <2>14. QED
    BY <2>8, <2>9, <2>10, <2>11, <2>12, <2>13
<1>8. QED
  BY <1>6, <1>7

LEMMA InitHistory == Init => OrderInv /\ CountInv
<1> SUFFICES ASSUME Init PROVE OrderInv /\ CountInv
  OBVIOUS
<1>1. got = <<>> /\ queue = <<>> /\ dropped = {}
  BY DEF Init
<1>2. Len(Stream) = 0 /\ Len(queue) = 0
  BY <1>1 DEF Stream
<1>3. \A i \in 1 .. Len(Stream) : FALSE
  BY <1>2
<1>4. OrderInv
  BY <1>1, <1>3 DEF OrderInv
<1>5. \A p \in Producers : Put(p) = 0
  BY DEF Init, Put, Threads
<1>6. \A p \in Producers : Cardinality(DroppedOf(p)) = 0
  <2>1. \A p \in Producers : DroppedOf(p) = {}
    BY <1>1 DEF DroppedOf
  <2>2. QED
    BY <2>1, FS_EmptySet
<1>7. \A p \in Producers : CountOf(got, p) = 0 /\ CountOf(queue, p) = 0
  BY <1>1, CountEmpty
<1>8. QED
  BY <1>4, <1>5, <1>6, <1>7 DEF CountInv

\* Every step preserves the order and the counts.
LEMMA HistoryStep ==
  ASSUME IndInv, OrderInv, CountInv, [Next]_vars
  PROVE  OrderInv' /\ CountInv'
<1> USE DEF callVars, history
<1>0. /\ TypeOK /\ Producers \subseteq Threads /\ Consumers \subseteq Threads
      /\ Producers \cap Consumers = {}
      /\ \A p \in Producers :
           /\ next[p] \in Nat /\ told[p] \in Nat /\ want[p] \in Nat /\ rem[p] \in Nat
           /\ rem[p] <= want[p]
  BY RWQueueAssumption DEF IndInv, TypeOK, Threads
<1> DEFINE Quiet == /\ UNCHANGED <<queue, got, dropped>>
                    /\ \A p \in Producers :
                         next'[p] \in Nat /\ next'[p] >= next[p] /\ Put(p)' = Put(p)
<1>1. Quiet => OrderInv' /\ CountInv'
  BY QuietStep
\* Only where the producers are may change, and none of them returns.
<1>2. ASSUME UNCHANGED <<queue, got, dropped, next, told>>,
             \A p \in Producers : /\ want'[p] = want[p] /\ rem'[p] = rem[p]
                                  /\ pc'[p] = "idle" <=> pc[p] = "idle"
      PROVE  Quiet
  BY <1>0, <1>2 DEF Put
<1>3. CASE UNCHANGED vars
  BY <1>2, <1>1, <1>3 DEF vars
<1>4. ASSUME NEW p \in Producers, CallPut(p) PROVE Quiet
  <2>1. PICK op \in use.puts, n \in 1 .. MaxBulk : Call(p, op, n)
    BY <1>4 DEF CallPut
  <2>2. n \in Nat
    OBVIOUS
  <2>3. \A q \in Producers : Put(q)' = Put(q)
    BY <1>0, <2>1, <2>2 DEF Call, Put, TypeOK
  <2>4. QED
    BY <1>0, <2>1, <2>3 DEF Call
<1>5. ASSUME NEW c \in Consumers, CallTake(c) PROVE Quiet
  <2>1. PICK op \in use.takes, n \in 1 .. MaxBulk : Call(c, op, n)
    BY <1>5 DEF CallTake
  <2>2. /\ UNCHANGED <<queue, got, dropped, next, told>>
        /\ \A p \in Producers : want'[p] = want[p] /\ rem'[p] = rem[p] /\ pc'[p] = pc[p]
    BY <1>0, <2>1 DEF Call, TypeOK
  <2>3. QED
    BY <1>2, <2>2
<1>6. ASSUME NEW p \in Producers, WaitForRoom(p) PROVE Quiet
  <2>1. /\ UNCHANGED <<queue, got, dropped, next, told, want, rem>>
        /\ \A q \in Producers : pc'[q] = "idle" <=> pc[q] = "idle"
    BY <1>0, <1>6 DEF WaitForRoom, AtWork, Sleep, TypeOK
  <2>2. QED
    BY <1>2, <2>1
<1>7. ASSUME NEW p \in Producers, PutChunk(p) \/ PutAvailable(p) PROVE OrderInv' /\ CountInv'
  BY <1>7, PutStep, PushCounts
<1>8. ASSUME NEW p \in Producers, PutReturns(p) PROVE Quiet
  <2>1. /\ UNCHANGED <<queue, got, dropped, want, rem>>
        /\ told' = [told EXCEPT ![p] = told[p] + want[p] - rem[p]]
        /\ next' = [next EXCEPT ![p] = IF call[p] \in Nonblocking THEN next[p] ELSE next[p] + rem[p]]
        /\ pc' = [pc EXCEPT ![p] = "idle"] /\ pc[p] # "idle"
    BY <1>8 DEF PutReturns, AtWork
  <2>2. \A q \in Producers : next'[q] \in Nat /\ next'[q] >= next[q]
    BY <1>0, <2>1 DEF TypeOK
  <2>3. \A q \in Producers : Put(q)' = Put(q)
    <3> TAKE q \in Producers
    <3>1. CASE q = p
      <4>1. told'[p] = told[p] + want[p] - rem[p] /\ pc'[p] = "idle"
        BY <1>0, <2>1 DEF TypeOK
      <4>2. told[p] \in Nat /\ want[p] \in Int /\ rem[p] \in Int
        BY <1>0, RWQueueAssumption DEF TypeOK
      <4>3. QED
        BY <2>1, <3>1, <4>1, <4>2 DEF Put
    <3>2. CASE q # p
      <4>1. told'[q] = told[q] /\ pc'[q] = pc[q]
        BY <1>0, <2>1, <3>2 DEF TypeOK
      <4>2. QED
        BY <2>1, <4>1 DEF Put
    <3>3. QED
      BY <3>1, <3>2
  <2>4. QED
    BY <2>1, <2>2, <2>3
<1>9. ASSUME NEW p \in Producers, PutNotifies(p) PROVE Quiet
  <2>1. /\ pc[p] = "notify" /\ NotifyOne(p, Consumers)
        /\ UNCHANGED <<queue, got, dropped, want, rem, next>>
        /\ told' = IF pc'[p] = "idle" THEN [told EXCEPT ![p] = told[p] + want[p] - rem[p]] ELSE told
    BY <1>9 DEF PutNotifies
  <2>2. \A q \in Producers \ {p} : pc'[q] = pc[q]
    BY <1>0, <2>1, NotifyFacts
  <2>3. \A q \in Producers : Put(q)' = Put(q)
    <3>1. CASE pc'[p] = "idle"
      <4> TAKE q \in Producers
      <4>1. CASE q = p
        <5>1. told'[p] = told[p] + want[p] - rem[p]
          BY <1>0, <2>1, <3>1 DEF TypeOK
        <5>2. told[p] \in Nat /\ want[p] \in Int /\ rem[p] \in Int
          BY <1>0, RWQueueAssumption DEF TypeOK
        <5>3. QED
          BY <2>1, <3>1, <4>1, <5>1, <5>2 DEF Put
      <4>2. CASE q # p
        <5>1. told'[q] = told[q] /\ pc'[q] = pc[q]
          BY <1>0, <2>1, <2>2, <4>2 DEF TypeOK
        <5>2. QED
          BY <2>1, <5>1 DEF Put
      <4>3. QED
        BY <4>1, <4>2
    <3>2. CASE pc'[p] # "idle"
      BY <1>0, <2>1, <2>2, <3>2 DEF Put
    <3>3. QED
      BY <3>1, <3>2
  <2>4. QED
    BY <1>0, <2>1, <2>3
<1>10. ASSUME NEW c \in Consumers, TakeNotifies(c) PROVE Quiet
  <2>1. /\ pc[c] = "notify" /\ NotifyOne(c, Producers)
        /\ UNCHANGED <<queue, got, dropped, want, rem, next, told>>
    BY <1>10 DEF TakeNotifies
  <2>2. \A q \in Producers : pc'[q] = "idle" <=> pc[q] = "idle"
    BY <1>0, <2>1, NotifyFacts
  <2>3. QED
    BY <1>2, <2>1, <2>2
<1>11. ASSUME NEW c \in Consumers, WaitForItems(c) \/ TakeReturns(c) PROVE Quiet
  <2>1. /\ UNCHANGED <<queue, got, dropped, want, next, told>>
        /\ \A q \in Producers : rem'[q] = rem[q] /\ pc'[q] = pc[q]
    BY <1>0, <1>11 DEF WaitForItems, Sleep, TakeReturns, TypeOK
  <2>2. QED
    BY <1>2, <2>1
<1>12. ASSUME NEW t \in Threads, SpuriousWakeup(t) PROVE Quiet
  <2>1. /\ UNCHANGED <<queue, got, dropped, want, rem, next, told>>
        /\ \A q \in Producers : pc'[q] = "idle" <=> pc[q] = "idle"
    BY <1>0, <1>12 DEF SpuriousWakeup, TypeOK
  <2>2. QED
    BY <1>2, <2>1
<1>13. CASE Start \/ Stop \/ Resize
  <2>1. UNCHANGED <<queue, got, dropped, want, rem, next, told, pc>>
    BY <1>13 DEF Start, Stop, Resize
  <2>2. QED
    BY <1>1, <1>2, <2>1
<1>14. CASE NotifyAll
  <2>1. /\ UNCHANGED <<queue, got, dropped, want, rem, next, told>>
        /\ \A q \in Producers : pc'[q] = "idle" <=> pc[q] = "idle"
    BY <1>0, <1>14 DEF NotifyAll, TypeOK
  <2>2. QED
    BY <1>1, <1>2, <2>1
<1> HIDE DEF Quiet
<1>15. QED
  <2>1. ASSUME NEW p \in Producers, RunPut(p) PROVE OrderInv' /\ CountInv'
    BY <1>1, <1>6, <1>7, <1>8, <1>9, <2>1 DEF RunPut
  <2>2. ASSUME NEW c \in Consumers, RunTake(c) PROVE OrderInv' /\ CountInv'
    BY <1>1, <1>10, <1>11, <2>2, TakeCounts DEF RunTake
  <2>3. QED
    BY <1>1, <1>3, <1>4, <1>5, <1>12, <1>13, <1>14, <2>1, <2>2, ClearCounts DEF Next, Owner

\* Items arrive once and in the order of their producer, and a producer knows
\* how many of its items the queue took, for any number of threads and however
\* their rounds interleave with Stop, Start, Clear and Resize.
THEOREM Delivery == Spec => []DeliveredAsTold
<1>1. IndInv /\ OrderInv /\ CountInv /\ [Next]_vars => (OrderInv /\ CountInv)'
  BY HistoryStep
<1>2. Spec => [](IndInv /\ OrderInv /\ CountInv)
  BY <1>1, InitHistory, Invariance, PTL DEF Spec
<1>3. IndInv /\ OrderInv => DeliveredInOrder
  <2> SUFFICES ASSUME IndInv, OrderInv, NEW i \in DOMAIN got, NEW j \in DOMAIN got,
                      i < j, got[i][1] = got[j][1]
               PROVE  got[i][2] < got[j][2]
    BY DEF DeliveredInOrder
  <2>1. got \in Seq(Items) /\ queue \in Seq(Items)
    BY DEF IndInv, TypeOK
  <2>2. DOMAIN got = 1 .. Len(got) /\ Len(got) \in Nat /\ Len(queue) \in Nat
    BY <2>1, LenProperties
  <2>3. \A k \in 1 .. Len(got) : k \in 1 .. Len(Stream) /\ Stream[k] = got[k]
    BY <2>1, <2>2, ConcatProperties DEF Stream
  <2>4. QED
    BY <2>2, <2>3 DEF OrderInv
<1>4. CountInv /\ IndInv => ToldExactly
  <2> SUFFICES ASSUME CountInv, IndInv, NEW p \in Producers, pc[p] = "idle"
               PROVE  told[p] = CountOf(got, p) + CountOf(queue, p) + Cardinality(DroppedOf(p))
    BY DEF ToldExactly, CountOf, DroppedOf
  <2>1. Put(p) = told[p]
    BY DEF Put, IndInv, TypeOK
  <2>2. QED
    BY <2>1 DEF CountInv
<1>5. IndInv /\ OrderInv /\ CountInv => DeliveredAsTold
  BY <1>3, <1>4 DEF DeliveredAsTold
<1>6. QED
  BY <1>2, <1>5, PTL
=============================================================================
