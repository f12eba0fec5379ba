------------------------------ MODULE PicProofs ------------------------------
(***************************************************************************)
(* hardware/pic.cpp: the timer events and the two interrupt controllers.   *)
(*                                                                         *)
(* The timer events for any number of entries, events and delays, any      *)
(* length of a tick and any cost of an instruction: no entry leaks, the    *)
(* list stays sorted, and no handler is called early or later than the     *)
(* instruction and the interrupts under way allow.                         *)
(*                                                                         *)
(* The interrupt controllers with any lines: PIC_IRQCheck and the request  *)
(* of the cascade line, which the code keeps by hand, are what the         *)
(* registers of the two controllers say, and interrupts nest by priority.  *)
(* The operators take the state of the controllers, and so do the lemmas   *)
(* about them.                                                             *)
(***************************************************************************)
EXTENDS PicEvents, Pic8259, FiniteSetTheorems, TLAPS

-----------------------------------------------------------------------------
(* The timer events *)

Now == TickIndexND * Sub

\* when the slice of the CPU ends
SliceEnd == (CPU_CycleMax - left) * Sub

\* parts of a cycle by which an interrupt can delay what is due
PerRaise == (MaxInstruction + IrqGrace - 1) * Sub

\* No event is overdue by more than MaxLate; while the CPU has cycles, its
\* slice ends within a cycle of the first event, but for interrupts raised in
\* it; and only a tick that is used up ends.
TimeInv ==
  /\ \A i \in DOMAIN queue : Now <= queue[i].index + MaxLate
  /\ phase = "cpu" /\ cycles > 0 =>
       \A i \in DOMAIN queue :
         SliceEnd <= queue[i].index + Sub - 1 + raises * PerRaise
  /\ phase = "border" => left <= 0
  /\ free \in Nat

IndInv == QueueIntact /\ TimeInv /\ ServedInTime
-----------------------------------------------------------------------------
(* Lemmas: arithmetic *)

LEMMA Distributes ==
  ASSUME NEW a \in Int, NEW b \in Int, NEW s \in Int
  PROVE  /\ a * s \in Int
         /\ (a + b) * s = a * s + b * s
         /\ (a - b) * s = a * s - b * s
BY SMT

LEMMA Monotone ==
  ASSUME NEW a \in Int, NEW b \in Int, NEW s \in Nat, a <= b
  PROVE  a * s <= b * s
<1>1. (b - a) * s >= 0
  <2>1. b - a \in Nat
    OBVIOUS
  <2>2. \A m, n \in Nat : m * n >= 0
    BY SMT
  <2>3. QED
    BY <2>1, <2>2
<1>2. (b - a) * s = b * s - a * s
  BY Distributes
<1>3. a * s \in Int /\ b * s \in Int
  BY Distributes
<1>4. QED
  BY <1>1, <1>2, <1>3

\* The conversion to cycles never rounds up what is still to come.
LEMMA TruncatedFacts ==
  ASSUME NEW parts \in Int
  PROVE  /\ Truncated(parts) \in Int
         /\ parts >= 0 => Truncated(parts) >= 0 /\ Truncated(parts) * Sub <= parts
         /\ Truncated(parts) > 0 => parts >= 0
<1>1. Sub \in Nat /\ Sub > 0
  BY PicAssumption
<1>2. \A x \in Int : x \div Sub \in Int /\ (x >= 0 => x \div Sub >= 0)
  BY <1>1, SMT
<1>3. \A x \in Int : (x \div Sub) * Sub <= x
  BY <1>1, SMT
<1>4. CASE parts >= 0
  BY <1>2, <1>3, <1>4 DEF Truncated
<1>5. CASE parts < 0
  <2>1. - parts \in Int /\ - parts >= 0
    BY <1>5
  <2>2. PICK d \in Int : d = (- parts) \div Sub /\ d >= 0
    BY <1>2, <2>1
  <2>3. Truncated(parts) = - d
    BY <1>5, <2>2 DEF Truncated
  <2>4. QED
    BY <1>5, <2>2, <2>3
<1>6. QED
  BY <1>4, <1>5

\* How the bound on lateness is made up.
LEMMA LateFacts ==
  ASSUME NEW r \in Nat
  PROVE  /\ Sub \in Nat /\ Sub > 0
         /\ MaxInstruction * Sub \in Nat /\ MaxInstruction * Sub >= Sub
         /\ IrqGrace * Sub \in Nat /\ IrqGrace * Sub >= Sub
         /\ PerRaise \in Nat /\ PerRaise = MaxInstruction * Sub + IrqGrace * Sub - Sub
         /\ r * PerRaise \in Nat
         /\ MaxInstruction * Sub - 1 + r * (MaxInstruction + IrqGrace - 1) * Sub
              = MaxInstruction * Sub - 1 + r * PerRaise
<1>1. /\ Sub \in Nat /\ Sub > 0
      /\ MaxInstruction \in Nat /\ MaxInstruction >= 1
      /\ IrqGrace \in Nat /\ IrqGrace >= 1
  BY PicAssumption
<1>2. \A m, n \in Nat : m * n \in Nat
  BY SMT
<1>3. 1 * Sub = Sub
  BY <1>1
<1>4. MaxInstruction * Sub >= Sub /\ IrqGrace * Sub >= Sub
  BY <1>1, <1>3, Monotone
<1>5. PerRaise = MaxInstruction * Sub + IrqGrace * Sub - Sub
  <2>1. (MaxInstruction + IrqGrace) * Sub = MaxInstruction * Sub + IrqGrace * Sub
    BY <1>1, Distributes
  <2>2. (MaxInstruction + IrqGrace - 1) * Sub = (MaxInstruction + IrqGrace) * Sub - 1 * Sub
    <3>1. MaxInstruction + IrqGrace \in Int
      BY <1>1
    <3>2. QED
      BY <1>1, <3>1, Distributes
  <2>3. QED
    BY <1>1, <1>3, <2>1, <2>2 DEF PerRaise
<1>6. MaxInstruction * Sub \in Nat /\ IrqGrace * Sub \in Nat
  BY <1>1, <1>2
<1>7. PerRaise \in Nat
  BY <1>1, <1>4, <1>5, <1>6
<1>8. r * PerRaise \in Nat
  BY <1>2, <1>7
<1>9. r * (MaxInstruction + IrqGrace - 1) * Sub = r * PerRaise
  <2>1. \A x, y, z \in Int : x * y * z = x * (y * z)
    BY SMT
  <2>2. MaxInstruction + IrqGrace - 1 \in Int
    BY <1>1
  <2>3. QED
    BY <1>1, <2>1, <2>2 DEF PerRaise
<1>10. QED
  BY <1>1, <1>4, <1>5, <1>6, <1>7, <1>8, <1>9

LEMMA ClockFacts ==
  ASSUME NEW l \in Int, NEW c \in Int
  PROVE  /\ (CPU_CycleMax - l - c) * Sub \in Int /\ c * Sub \in Int
         /\ (CPU_CycleMax - l) * Sub = (CPU_CycleMax - l - c) * Sub + c * Sub
<1>1. Sub \in Int /\ CPU_CycleMax - l \in Int
  BY PicAssumption
<1>2. (CPU_CycleMax - l - c) * Sub = (CPU_CycleMax - l) * Sub - c * Sub
  BY <1>1, Distributes
<1>3. (CPU_CycleMax - l) * Sub \in Int /\ c * Sub \in Int
  BY <1>1, Distributes
<1>4. QED
  BY <1>1, <1>2, <1>3

LEMMA TimeFacts ==
  ASSUME TypeOK
  PROVE  /\ raises \in Nat /\ raises * PerRaise \in Nat
         /\ MaxLate \in Nat /\ MaxLate = MaxInstruction * Sub - 1 + raises * PerRaise
         /\ Now \in Int /\ cycles * Sub \in Int
         /\ SliceEnd = Now + cycles * Sub
<1>1. left \in Int /\ cycles \in Int /\ raises \in Nat
  BY PicAssumption DEF TypeOK
<1>2. /\ Sub \in Nat /\ Sub > 0 /\ MaxInstruction * Sub \in Nat /\ MaxInstruction * Sub >= Sub
      /\ raises * PerRaise \in Nat
      /\ MaxInstruction * Sub - 1 + raises * (MaxInstruction + IrqGrace - 1) * Sub
           = MaxInstruction * Sub - 1 + raises * PerRaise
  BY <1>1, LateFacts
<1>3. MaxLate = MaxInstruction * Sub - 1 + raises * PerRaise
  BY <1>2 DEF MaxLate
<1>4. MaxLate \in Nat
  BY <1>2, <1>3
<1>5. Now \in Int /\ cycles * Sub \in Int /\ SliceEnd = Now + cycles * Sub
  BY <1>1, ClockFacts DEF Now, TickIndexND, SliceEnd
<1>6. QED
  BY <1>1, <1>2, <1>3, <1>4, <1>5

LEMMA NextTimeFacts ==
  ASSUME TypeOK'
  PROVE  /\ raises' \in Nat /\ raises' * PerRaise \in Nat
         /\ MaxLate' \in Nat /\ MaxLate' = MaxInstruction * Sub - 1 + raises' * PerRaise
         /\ Now' \in Int /\ cycles' * Sub \in Int
         /\ SliceEnd' = Now' + cycles' * Sub
<1>1. left' \in Int /\ cycles' \in Int /\ raises' \in Nat
  BY PicAssumption DEF TypeOK
<1>2. /\ Sub \in Nat /\ Sub > 0 /\ MaxInstruction * Sub \in Nat /\ MaxInstruction * Sub >= Sub
      /\ raises' * PerRaise \in Nat
      /\ MaxInstruction * Sub - 1 + raises' * (MaxInstruction + IrqGrace - 1) * Sub
           = MaxInstruction * Sub - 1 + raises' * PerRaise
  BY <1>1, LateFacts
<1>3. MaxLate' = MaxInstruction * Sub - 1 + raises' * PerRaise
  BY <1>2 DEF MaxLate
<1>4. MaxLate' \in Nat
  BY <1>2, <1>3
<1>5. Now' \in Int /\ cycles' * Sub \in Int /\ SliceEnd' = Now' + cycles' * Sub
  BY <1>1, ClockFacts DEF Now, TickIndexND, SliceEnd
<1>6. QED
  BY <1>1, <1>2, <1>3, <1>4, <1>5

\* The clock stands while what the CPU gives up goes back to the tick.
LEMMA ClockStands ==
  ASSUME TypeOK, TypeOK', left' + cycles' = left + cycles
  PROVE  Now' = Now
<1>1. left \in Int /\ cycles \in Int /\ CPU_CycleMax \in Int
  BY PicAssumption DEF TypeOK
<1>2. PICK l \in Int, c \in Int : l = left' /\ c = cycles'
  BY DEF TypeOK
<1>3. l + c = left + cycles
  BY <1>2
<1>4. CPU_CycleMax - l - c = CPU_CycleMax - left - cycles
  BY <1>1, <1>3
<1>5. QED
  BY <1>2, <1>4 DEF Now, TickIndexND

-----------------------------------------------------------------------------
(* Lemmas: the list *)

Sorted == \A i, j \in DOMAIN queue : i < j => queue[i].index <= queue[j].index

LEMMA ConcatFacts ==
  ASSUME NEW S, NEW a \in Seq(S), NEW b \in Seq(S)
  PROVE  a \o b \in Seq(S) /\ Len(a \o b) = Len(a) + Len(b)
OBVIOUS

\* AddEntry keeps the list sorted and adds the new entry to it.
LEMMA InsertFacts ==
  ASSUME NEW e \in Entry, queue \in Seq(Entry), Sorted, Insert(e)
  PROVE  /\ queue' \in Seq(Entry) /\ Len(queue') = Len(queue) + 1
         /\ \A i \in DOMAIN queue' :
              queue'[i] = e \/ \E j \in DOMAIN queue : queue'[i] = queue[j]
         /\ Sorted'
<1>1. PICK n \in 0 .. Len(queue) :
        /\ \A i \in 1 .. n : queue[i].index <= e.index
        /\ n < Len(queue) => queue[n + 1].index > e.index
        /\ queue' = SubSeq(queue, 1, n) \o <<e>> \o SubSeq(queue, n + 1, Len(queue))
  BY DEF Insert
<1> DEFINE before == SubSeq(queue, 1, n)
           after == SubSeq(queue, n + 1, Len(queue))
<1>2. /\ before \in Seq(Entry) /\ Len(before) = n
      /\ \A i \in 1 .. n : before[i] = queue[i]
  OBVIOUS
<1>3. /\ after \in Seq(Entry) /\ Len(after) = Len(queue) - n
      /\ \A i \in 1 .. Len(queue) - n : after[i] = queue[n + i]
  OBVIOUS
<1>4. /\ before \o <<e>> \in Seq(Entry) /\ Len(before \o <<e>>) = n + 1
      /\ \A i \in 1 .. n : (before \o <<e>>)[i] = queue[i]
      /\ (before \o <<e>>)[n + 1] = e
  <2> HIDE DEF before
  <2>1. QED
    BY <1>2
<1>5. /\ queue' \in Seq(Entry) /\ Len(queue') = Len(queue) + 1
      /\ \A i \in 1 .. n : queue'[i] = queue[i]
      /\ queue'[n + 1] = e
      /\ \A i \in n + 2 .. Len(queue) + 1 : queue'[i] = queue[i - 1]
  <2> DEFINE front == before \o <<e>>
  <2>1. front \in Seq(Entry) /\ Len(front) = n + 1 /\ queue' = front \o after
    BY <1>1, <1>4
  <2> HIDE DEF front, after
  <2>2. queue' \in Seq(Entry) /\ Len(queue') = Len(queue) + 1
    <3>1. front \o after \in Seq(Entry) /\ Len(front \o after) = Len(front) + Len(after)
      BY <1>3, <2>1, ConcatFacts
    <3>2. Len(queue) \in Nat /\ n \in Nat
      OBVIOUS
    <3>3. QED
      BY <1>3, <2>1, <3>1, <3>2
  <2>3. \A i \in 1 .. n + 1 : queue'[i] = front[i]
    BY <1>3, <2>1
  <2>4. \A i \in n + 2 .. Len(queue) + 1 : queue'[i] = after[i - (n + 1)]
    BY <1>3, <2>1
  <2>5. \A i \in n + 2 .. Len(queue) + 1 : after[i - (n + 1)] = queue[i - 1]
    <3>1. TAKE i \in n + 2 .. Len(queue) + 1
    <3>2. i - (n + 1) \in 1 .. Len(queue) - n /\ n + (i - (n + 1)) = i - 1
      OBVIOUS
    <3>3. QED
      BY <1>3, <3>2
  <2>6. (\A i \in 1 .. n : front[i] = queue[i]) /\ front[n + 1] = e
    BY <1>4 DEF front
  <2>7. QED
    BY <2>2, <2>3, <2>4, <2>5, <2>6
<1> HIDE DEF before, after
<1>6. DOMAIN queue = 1 .. Len(queue) /\ DOMAIN queue' = 1 .. Len(queue) + 1
  BY <1>5
<1>7. ASSUME NEW i \in DOMAIN queue'
      PROVE  queue'[i] = e \/ \E j \in DOMAIN queue : queue'[i] = queue[j]
  <2>1. CASE i \in 1 .. n
    BY <1>5, <1>6, <2>1
  <2>2. CASE i = n + 1
    BY <1>5, <2>2
  <2>3. CASE i \in n + 2 .. Len(queue) + 1
    <3>1. i - 1 \in DOMAIN queue
      BY <1>6, <2>3
    <3>2. QED
      BY <1>5, <2>3, <3>1
  <2>4. QED
    BY <1>6, <2>1, <2>2, <2>3
<1>8. \A j \in DOMAIN queue : queue[j].index \in Int
  <2>1. \A j \in DOMAIN queue : queue[j] \in Entry
    OBVIOUS
  <2>2. QED
    BY <2>1 DEF Entry
<1>9. e.index \in Int
  BY DEF Entry
<1>10. \A j \in n + 1 .. Len(queue) : e.index <= queue[j].index
  <2>1. TAKE j \in n + 1 .. Len(queue)
  <2>2. queue[n + 1].index > e.index /\ n + 1 \in DOMAIN queue /\ j \in DOMAIN queue
    BY <1>1, <1>6
  <2>3. queue[n + 1].index <= queue[j].index
    <3>1. CASE j = n + 1
      BY <1>8, <2>2, <3>1
    <3>2. CASE j > n + 1
      BY <2>2, <3>2 DEF Sorted
    <3>3. QED
      BY <3>1, <3>2
  <2>4. QED
    BY <1>8, <1>9, <2>2, <2>3
<1>11. ASSUME NEW i \in DOMAIN queue', NEW j \in DOMAIN queue', i < j
       PROVE  queue'[i].index <= queue'[j].index
  <2>1. CASE j \in 1 .. n
    <3>1. i \in DOMAIN queue /\ j \in DOMAIN queue /\ i \in 1 .. n
      BY <1>6, <1>11, <2>1
    <3>2. QED
      BY <1>5, <1>11, <2>1, <3>1 DEF Sorted
  <2>2. CASE j = n + 1
    <3>1. i \in 1 .. n
      BY <1>6, <1>11, <2>2
    <3>2. QED
      BY <1>1, <1>5, <2>2, <3>1
  <2>3. CASE j \in n + 2 .. Len(queue) + 1
    <3>1. j - 1 \in DOMAIN queue /\ j - 1 \in n + 1 .. Len(queue) /\ queue'[j] = queue[j - 1]
      BY <1>5, <1>6, <2>3
    <3>2. CASE i \in 1 .. n
      <4>1. i \in DOMAIN queue /\ i < j - 1
        BY <1>6, <2>3, <3>2
      <4>2. QED
        BY <1>5, <3>1, <3>2, <4>1 DEF Sorted
    <3>3. CASE i = n + 1
      BY <1>5, <1>10, <3>1, <3>3
    <3>4. CASE i \in n + 2 .. Len(queue) + 1
      <4>1. i - 1 \in DOMAIN queue /\ i - 1 < j - 1 /\ queue'[i] = queue[i - 1]
        BY <1>5, <1>6, <1>11, <2>3, <3>4
      <4>2. QED
        BY <3>1, <4>1 DEF Sorted
    <3>5. QED
      BY <1>6, <3>2, <3>3, <3>4
  <2>4. QED
    BY <1>6, <2>1, <2>2, <2>3
<1>12. Sorted'
  BY <1>11 DEF Sorted
<1>13. QED
  BY <1>5, <1>7, <1>12

\* Removing events leaves a sorted list of the others.
LEMMA KeepFacts ==
  ASSUME NEW kept, kept \subseteq DOMAIN queue, queue \in Seq(Entry), Sorted, Keep(kept)
  PROVE  /\ queue' \in Seq(Entry) /\ Len(queue') = Cardinality(kept)
         /\ Cardinality(kept) \in 0 .. Len(queue)
         /\ \A i \in DOMAIN queue' : \E j \in DOMAIN queue : queue'[i] = queue[j]
         /\ Sorted'
<1>1. DOMAIN queue = 1 .. Len(queue) /\ Len(queue) \in Nat
  OBVIOUS
<1>2. /\ IsFiniteSet(1 .. Len(queue)) /\ Cardinality(1 .. Len(queue)) = Len(queue)
  <2>1. Len(queue) \in Int /\ 1 \in Int
    BY <1>1
  <2>2. Cardinality(1 .. Len(queue)) = IF 1 > Len(queue) THEN 0 ELSE Len(queue) - 1 + 1
    BY <2>1, FS_Interval
  <2>3. IsFiniteSet(1 .. Len(queue))
    BY <2>1, FS_Interval
  <2>4. QED
    BY <1>1, <2>2, <2>3
<1>3. Cardinality(kept) \in 0 .. Len(queue)
  <2>1. IsFiniteSet(kept) /\ Cardinality(kept) <= Len(queue)
    BY <1>1, <1>2, FS_Subset
  <2>2. QED
    BY <1>1, <2>1, FS_CardinalityType
<1>4. PICK at \in [1 .. Cardinality(kept) -> kept] :
        /\ \A i, j \in DOMAIN at : i < j => at[i] < at[j]
        /\ queue' = [i \in DOMAIN at |-> queue[at[i]]]
  BY DEF Keep
<1>5. \A i \in 1 .. Cardinality(kept) : at[i] \in DOMAIN queue /\ queue'[i] = queue[at[i]]
  BY <1>4
<1>6. queue' \in Seq(Entry) /\ Len(queue') = Cardinality(kept)
  <2>1. queue' \in [1 .. Cardinality(kept) -> Entry]
    <3>1. \A j \in DOMAIN queue : queue[j] \in Entry
      OBVIOUS
    <3>2. QED
      BY <1>4, <1>5, <3>1
  <2>2. QED
    BY <1>3, <2>1
<1>7. Sorted'
  BY <1>4, <1>5, <1>6 DEF Sorted
<1>8. QED
  BY <1>3, <1>5, <1>6, <1>7
-----------------------------------------------------------------------------
(* The steps *)

\* Outside of handlers no entry is being served.
LEMMA ServingFacts ==
  ASSUME TypeOK
  PROVE  /\ phase = "handler" => serving \in Entry /\ serving # None /\ serving.index \in Int
         /\ phase # "handler" => serving = None
<1>1. ASSUME NEW x \in Entry
      PROVE  x # None
  <2>1. Len(x.event) = 2
    BY PicAssumption DEF Entry
  <2>2. Len(None.event) = 0
    BY DEF None
  <2>3. Len(x.event) # Len(None.event)
    BY <2>1, <2>2
  <2>4. QED
    BY <2>3, Zenon
<1>2. QED
  BY <1>1 DEF TypeOK, Entry

LEMMA EntryIndex ==
  ASSUME queue \in Seq(Entry)
  PROVE  \A i \in DOMAIN queue : queue[i].index \in Int
<1>1. \A i \in DOMAIN queue : queue[i] \in Entry
  OBVIOUS
<1>2. QED
  BY <1>1 DEF Entry

LEMMA InitInv ==
  ASSUME Init
  PROVE  IndInv
<1>1. CPU_CycleMax \in Int /\ MaxRaises \in Nat /\ PIC_QUEUESIZE \in Nat
  BY PicAssumption
<1>2. DOMAIN queue = {} /\ queue \in Seq(Entry) /\ Len(queue) = 0
  BY DEF Init
<1>3. QueueIntact
  BY <1>1, <1>2 DEF Init, QueueIntact, TypeOK
<1>4. TimeInv
  BY <1>1, <1>2 DEF Init, TimeInv
<1>5. QED
  BY <1>3, <1>4 DEF Init, IndInv, ServedInTime

\* While the list and what is being served stay, the clock decides.
LEMMA SameQueue ==
  ASSUME QueueIntact, TypeOK', UNCHANGED <<queue, free, serving>>
  PROVE  QueueIntact'
BY DEF QueueIntact

LEMMA InstructionStep ==
  ASSUME IndInv, NEW n \in 1 .. MaxInstruction, Instruction(n)
  PROVE  IndInv'
<1>1. /\ Sub \in Nat /\ Sub > 0 /\ n \in Int /\ n <= MaxInstruction /\ MaxInstruction \in Int
  BY PicAssumption
<1>2. /\ QueueIntact /\ TypeOK /\ TimeInv /\ left \in Int /\ cycles \in Int /\ cycles >= 1
      /\ phase = "cpu" /\ cycles' = cycles - n
      /\ UNCHANGED <<phase, queue, free, serving, left, raises>>
  BY DEF IndInv, QueueIntact, TypeOK, Instruction
<1>3. TypeOK' /\ QueueIntact'
  <2>1. TypeOK'
    BY <1>1, <1>2 DEF TypeOK
  <2>2. QED
    BY <1>2, <2>1, SameQueue
<1>4. cycles' * Sub = cycles * Sub - n * Sub /\ n * Sub \in Int
  BY <1>1, <1>2, Distributes
<1>5. n * Sub <= MaxInstruction * Sub
  BY <1>1, Monotone
<1>6. cycles * Sub >= Sub
  <2>1. 1 * Sub <= cycles * Sub
    BY <1>1, <1>2, Monotone
  <2>2. QED
    BY <1>1, <2>1
<1>7. SliceEnd' = SliceEnd
  BY <1>2 DEF SliceEnd
<1>8. /\ MaxLate' = MaxLate /\ MaxLate = MaxInstruction * Sub - 1 + raises * PerRaise
      /\ raises * PerRaise \in Nat /\ MaxInstruction * Sub \in Nat
      /\ Now \in Int /\ Now' \in Int /\ cycles * Sub \in Int
      /\ SliceEnd = Now + cycles * Sub /\ SliceEnd' = Now' + cycles' * Sub
  BY <1>2, <1>3, TimeFacts, NextTimeFacts, LateFacts
<1>9. Now' <= SliceEnd + MaxInstruction * Sub - Sub
  BY <1>1, <1>4, <1>5, <1>6, <1>7, <1>8
<1>10. TimeInv'
  <2>1. ASSUME NEW i \in DOMAIN queue
        PROVE  /\ Now' <= queue[i].index + MaxLate
               /\ SliceEnd <= queue[i].index + Sub - 1 + raises * PerRaise
    <3>1. queue[i].index \in Int
      BY <1>2, EntryIndex DEF TypeOK
    <3>2. SliceEnd <= queue[i].index + Sub - 1 + raises * PerRaise
      BY <1>2 DEF TimeInv
    <3>3. SliceEnd \in Int
      BY <1>8
    <3>4. QED
      BY <1>1, <1>8, <1>9, <3>1, <3>2, <3>3
  <2>2. QED
    BY <1>2, <1>7, <1>8, <2>1 DEF TimeInv
<1>11. QED
  BY <1>2, <1>3, <1>10 DEF IndInv, ServedInTime
LEMMA ActivateIRQStep ==
  ASSUME IndInv, ActivateIRQ
  PROVE  IndInv'
<1>1. /\ Sub \in Nat /\ Sub > 0 /\ IrqGrace \in Nat /\ IrqGrace > 0 /\ MaxRaises \in Nat
  BY PicAssumption
<1>2. /\ QueueIntact /\ TypeOK /\ TimeInv /\ left \in Int /\ cycles \in Int
      /\ raises \in Nat /\ raises < MaxRaises /\ phase = "cpu" /\ raises' = raises + 1
      /\ UNCHANGED <<phase, queue, free, serving>>
  BY <1>1 DEF IndInv, QueueIntact, TypeOK, ActivateIRQ
<1>3. \/ /\ cycles # 0
         /\ left' = left + cycles - IrqGrace /\ cycles' = IrqGrace
      \/ cycles = 0 /\ left' = left /\ cycles' = cycles
  BY <1>1 DEF ActivateIRQ, cpuVars
<1>4. TypeOK' /\ QueueIntact'
  <2>1. left' \in Int /\ cycles' \in Int
    BY <1>1, <1>2, <1>3
  <2>2. raises' \in 0 .. MaxRaises
    BY <1>1, <1>2
  <2>3. TypeOK'
    BY <1>2, <2>1, <2>2 DEF TypeOK
  <2>4. QED
    BY <1>2, <2>3, SameQueue
<1>5. Now' = Now
  <2>1. left' + cycles' = left + cycles
    BY <1>1, <1>2, <1>3
  <2>2. QED
    BY <1>2, <1>4, <2>1, ClockStands
<1>6. raises' * PerRaise = raises * PerRaise + PerRaise
  <2>1. PerRaise \in Nat
    BY <1>2, LateFacts
  <2>2. (raises + 1) * PerRaise = raises * PerRaise + 1 * PerRaise
    BY <1>2, <2>1, Distributes
  <2>3. QED
    BY <1>2, <2>1, <2>2
<1>7. /\ MaxLate' = MaxInstruction * Sub - 1 + raises' * PerRaise
      /\ MaxLate = MaxInstruction * Sub - 1 + raises * PerRaise
      /\ raises * PerRaise \in Nat /\ MaxInstruction * Sub \in Nat
      /\ MaxInstruction * Sub >= Sub
      /\ PerRaise \in Nat /\ PerRaise = MaxInstruction * Sub + IrqGrace * Sub - Sub
      /\ IrqGrace * Sub \in Nat
      /\ Now \in Int /\ cycles * Sub \in Int
      /\ SliceEnd = Now + cycles * Sub /\ SliceEnd' = Now' + cycles' * Sub
  BY <1>2, <1>4, TimeFacts, NextTimeFacts, LateFacts
<1>8. TimeInv'
  <2>1. ASSUME NEW i \in DOMAIN queue
        PROVE  /\ Now' <= queue[i].index + MaxLate'
               /\ cycles' > 0 => SliceEnd' <= queue[i].index + Sub - 1 + raises' * PerRaise
    <3>1. queue[i].index \in Int
      BY <1>2, EntryIndex DEF TypeOK
    <3>2. Now <= queue[i].index + MaxLate
      BY <1>2 DEF TimeInv
    <3>3. Now' <= queue[i].index + MaxLate'
      BY <1>5, <1>6, <1>7, <3>1, <3>2
    <3>4. CASE cycles # 0
      <4>1. SliceEnd' = Now + IrqGrace * Sub
        BY <1>3, <1>5, <1>7, <3>4
      <4>2. SliceEnd' <= queue[i].index + Sub - 1 + raises' * PerRaise
        BY <1>1, <1>6, <1>7, <3>1, <3>2, <4>1
      <4>3. QED
        BY <3>3, <4>2
    <3>5. CASE cycles = 0
      BY <1>3, <3>3, <3>5
    <3>6. QED
      BY <3>4, <3>5
  <2>2. QED
    BY <1>2, <2>1 DEF TimeInv
<1>9. QED
  BY <1>2, <1>4, <1>8 DEF IndInv, ServedInTime

LEMMA RunQueueStep ==
  ASSUME IndInv, RunQueue
  PROVE  IndInv'
<1>1. /\ QueueIntact /\ TypeOK /\ TimeInv /\ left \in Int /\ cycles \in Int
      /\ phase = "cpu" /\ left' = left + cycles /\ cycles' = 0
      /\ phase' = (IF left + cycles <= 0 THEN "border" ELSE "serve")
      /\ UNCHANGED <<queue, free, serving, raises>>
  BY DEF IndInv, QueueIntact, TypeOK, RunQueue
<1>2. TypeOK' /\ QueueIntact'
  <2>1. TypeOK'
    BY <1>1 DEF TypeOK
  <2>2. QED
    BY <1>1, <2>1, SameQueue
<1>3. Now' = Now
  <2>1. left' + cycles' = left + cycles
    BY <1>1
  <2>2. QED
    BY <1>1, <1>2, <2>1, ClockStands
<1>4. MaxLate' = MaxLate
  BY <1>1 DEF MaxLate
<1>5. TimeInv'
  BY <1>1, <1>3, <1>4 DEF TimeInv
<1>6. QED
  BY <1>1, <1>2, <1>5 DEF IndInv, ServedInTime

LEMMA ServeStep ==
  ASSUME IndInv, Serve
  PROVE  IndInv'
<1>1. /\ QueueIntact /\ TypeOK /\ TimeInv /\ queue \in Seq(Entry) /\ queue # <<>>
      /\ phase = "serve" /\ Head(queue).index <= Now
      /\ serving' = Head(queue) /\ queue' = Tail(queue) /\ phase' = "handler"
      /\ UNCHANGED <<free, left, cycles, raises>>
  BY DEF IndInv, QueueIntact, TypeOK, Serve, Due, Now, cpuVars
<1>2. /\ Len(queue) \in Nat /\ Len(queue) >= 1 /\ DOMAIN queue = 1 .. Len(queue)
      /\ 1 \in DOMAIN queue /\ Head(queue) = queue[1] /\ queue[1] \in Entry
  BY <1>1
<1>3. /\ queue' \in Seq(Entry) /\ Len(queue') = Len(queue) - 1
      /\ DOMAIN queue' = 1 .. Len(queue) - 1
      /\ \A i \in DOMAIN queue' : i + 1 \in DOMAIN queue /\ queue'[i] = queue[i + 1]
  BY <1>1, <1>2
<1>4. TypeOK'
  BY <1>1, <1>2, <1>3 DEF TypeOK
<1>5. QueueIntact'
  <2>1. serving = None /\ serving' # None
    <3>1. serving' \in Entry
      BY <1>1, <1>2
    <3>2. Len(serving'.event) = 2
      BY <3>1, PicAssumption DEF Entry
    <3>3. Len(None.event) = 0
      BY DEF None
    <3>4. Len(serving'.event) # Len(None.event)
      BY <3>2, <3>3
    <3>5. serving' # None
      BY <3>4, Zenon
    <3>6. QED
      BY <1>1, <3>5, ServingFacts
  <2>2. free + Len(queue) = PIC_QUEUESIZE
    BY <1>1, <2>1 DEF QueueIntact, TimeInv
  <2>3. free' + Len(queue') + 1 = PIC_QUEUESIZE
    BY <1>1, <1>2, <1>3, <2>2 DEF TimeInv
  <2>4. \A i, j \in DOMAIN queue' : i < j => queue'[i].index <= queue'[j].index
    <3>1. TAKE i, j \in DOMAIN queue'
    <3>2. i \in Int /\ j \in Int
      BY <1>2, <1>3
    <3>3. QED
      BY <1>1, <1>3, <3>2 DEF QueueIntact
  <2>5. QED
    BY <1>4, <2>1, <2>3, <2>4 DEF QueueIntact
<1>6. /\ Now' = Now /\ MaxLate' = MaxLate /\ Now \in Int /\ MaxLate \in Nat
      /\ TickIndexND' * Sub = Now
  BY <1>1, TimeFacts DEF Now, TickIndexND, MaxLate
<1>7. TimeInv'
  BY <1>1, <1>3, <1>6 DEF TimeInv
<1>8. ServedInTime'
  <2>1. serving'.index = queue[1].index /\ queue[1].index \in Int
    BY <1>1, <1>2 DEF Entry
  <2>2. queue[1].index <= Now /\ Now <= queue[1].index + MaxLate
    BY <1>1, <1>2 DEF TimeInv
  <2>3. Now - queue[1].index \in 0 .. MaxLate
    BY <1>6, <2>1, <2>2
  <2>4. QED
    BY <1>6, <2>1, <2>3 DEF ServedInTime
<1>9. QED
  BY <1>5, <1>7, <1>8 DEF IndInv

LEMMA HandlerReturnsStep ==
  ASSUME IndInv, HandlerReturns
  PROVE  IndInv'
<1>1. /\ QueueIntact /\ TypeOK /\ TimeInv /\ queue \in Seq(Entry) /\ free \in Nat
      /\ phase = "handler" /\ serving' = None /\ free' = free + 1 /\ phase' = "serve"
      /\ UNCHANGED <<queue, left, cycles, raises>>
  BY DEF IndInv, QueueIntact, TypeOK, TimeInv, HandlerReturns, cpuVars
<1>2. TypeOK'
  BY <1>1 DEF TypeOK
<1>3. QueueIntact'
  <2>1. serving # None
    BY <1>1, ServingFacts
  <2>2. free + Len(queue) + 1 = PIC_QUEUESIZE
    BY <1>1, <2>1 DEF QueueIntact
  <2>3. free' + Len(queue') = PIC_QUEUESIZE
    BY <1>1, <2>2
  <2>4. free' + Len(queue') + 0 = PIC_QUEUESIZE
    BY <1>1, <2>3
  <2>5. QED
    BY <1>1, <1>2, <2>4 DEF QueueIntact
<1>4. TimeInv'
  BY <1>1 DEF TimeInv, Now, TickIndexND, MaxLate
<1>5. QED
  BY <1>1, <1>3, <1>4 DEF IndInv, ServedInTime
\* The slice ends less than a cycle after the first event.
LEMMA SliceFacts ==
  ASSUME TypeOK, queue # <<>>, Head(queue).index > Now
  PROVE  Slice \in Int /\ Slice * Sub < Head(queue).index - Now + Sub
<1> DEFINE h == Head(queue).index - Now
           n == Truncated(h)
<1>1. Sub \in Nat /\ Sub > 0 /\ left \in Int /\ Now \in Int
  BY PicAssumption, TimeFacts DEF TypeOK
<1>2. Head(queue).index \in Int
  <2>1. Head(queue) \in Entry
    BY DEF TypeOK
  <2>2. QED
    BY <2>1 DEF Entry
<1>3. h \in Int /\ h > 0
  BY <1>1, <1>2
<1> HIDE DEF h
<1>4. n \in Int /\ n >= 0 /\ n * Sub <= h
  BY <1>3, TruncatedFacts
<1>5. Slice = LET some == IF n = 0 THEN 1 ELSE n
              IN  IF some < left THEN some ELSE left
  BY DEF Slice, Now, h
<1> HIDE DEF n
<1>6. Slice \in Int /\ (Slice <= 1 \/ Slice <= n)
  BY <1>1, <1>4, <1>5
<1>7. 1 * Sub = Sub /\ n * Sub \in Int /\ Slice * Sub \in Int
  BY <1>1, <1>4, <1>6, Distributes
<1>8. CASE Slice <= 1
  <2>1. Slice * Sub <= 1 * Sub
    BY <1>1, <1>6, <1>8, Monotone
  <2>2. Slice * Sub < h + Sub
    BY <1>1, <1>3, <1>7, <2>1
  <2>3. QED
    BY <1>6, <2>2 DEF h
<1>9. CASE Slice <= n
  <2>1. Slice * Sub <= n * Sub
    BY <1>1, <1>4, <1>6, <1>9, Monotone
  <2>2. Slice * Sub < h + Sub
    BY <1>1, <1>3, <1>4, <1>7, <2>1
  <2>3. QED
    BY <1>6, <2>2 DEF h
<1>10. QED
  BY <1>6, <1>8, <1>9

LEMMA ResumeStep ==
  ASSUME IndInv, Resume
  PROVE  IndInv'
<1>1. Sub \in Nat /\ Sub > 0 /\ MaxRaises \in Nat
  BY PicAssumption
<1>2. /\ QueueIntact /\ TypeOK /\ TimeInv /\ queue \in Seq(Entry) /\ free \in Nat
      /\ left \in Int /\ cycles = 0 /\ ~ Due
      /\ phase = "serve" /\ cycles' = Slice /\ left' = left - Slice /\ phase' = "cpu"
      /\ raises' = 0 /\ UNCHANGED <<queue, free, serving>>
  BY DEF IndInv, QueueIntact, TypeOK, TimeInv, Resume
<1>3. Now \in Int
  BY <1>2, TimeFacts
<1>4. /\ DOMAIN queue = 1 .. Len(queue) /\ Len(queue) \in Nat
      /\ queue = <<>> <=> DOMAIN queue = {}
      /\ queue # <<>> => Head(queue) = queue[1] /\ 1 \in DOMAIN queue
      /\ \A i \in DOMAIN queue : queue[i].index \in Int
  BY <1>2, EntryIndex
<1>5. queue # <<>> => Head(queue).index > Now
  BY <1>2, <1>3, <1>4 DEF Due, Now
<1>6. Slice \in Int
  <2>1. CASE queue = <<>>
    BY <1>2, <2>1 DEF Slice
  <2>2. CASE queue # <<>>
    BY <1>2, <1>5, <2>2, SliceFacts
  <2>3. QED
    BY <2>1, <2>2
<1>7. TypeOK' /\ QueueIntact'
  <2>1. serving = None
    BY <1>2, ServingFacts
  <2>2. TypeOK'
    BY <1>1, <1>2, <1>6, <2>1 DEF TypeOK
  <2>3. QED
    BY <1>2, <2>2, SameQueue
<1>8. Now' = Now
  <2>1. left' + cycles' = left + cycles
    BY <1>2, <1>6
  <2>2. QED
    BY <1>2, <1>7, <2>1, ClockStands
<1>9. MaxLate' \in Nat /\ raises' * PerRaise \in Nat /\ SliceEnd' = Now' + cycles' * Sub
  BY <1>7, NextTimeFacts
<1>10. ASSUME NEW i \in DOMAIN queue
       PROVE  /\ Now' <= queue[i].index + MaxLate'
              /\ SliceEnd' <= queue[i].index + Sub - 1 + raises' * PerRaise
  <2>1. queue # <<>>
    BY <1>4
  <2>2. queue[1].index > Now /\ queue[1].index <= queue[i].index
    BY <1>2, <1>4, <1>5, <2>1 DEF QueueIntact
  <2>3. Slice * Sub < queue[1].index - Now + Sub
    BY <1>2, <1>4, <1>5, <2>1, SliceFacts
  <2>4. Slice * Sub \in Int
    BY <1>1, <1>6, Distributes
  <2>5. queue[1].index \in Int /\ queue[i].index \in Int
    BY <1>4, <2>1
  <2>6. SliceEnd' = Now + Slice * Sub
    BY <1>2, <1>8, <1>9
  <2>7. QED
    BY <1>1, <1>3, <1>8, <1>9, <2>2, <2>3, <2>4, <2>5, <2>6
<1>11. TimeInv'
  BY <1>2, <1>10 DEF TimeInv
<1>12. QED
  BY <1>2, <1>7, <1>11 DEF IndInv, ServedInTime

LEMMA AddTickStep ==
  ASSUME IndInv, AddTick
  PROVE  IndInv'
<1> DEFINE tick == CPU_CycleMax * Sub
<1>1. Sub \in Nat /\ CPU_CycleMax \in Nat
  BY PicAssumption
<1>2. /\ QueueIntact /\ TypeOK /\ TimeInv /\ queue \in Seq(Entry) /\ free \in Nat
      /\ left \in Int /\ cycles = 0 /\ left <= 0
      /\ phase = "border" /\ left' = CPU_CycleMax /\ cycles' = 0 /\ phase' = "cpu"
      /\ queue' = [i \in DOMAIN queue |-> [queue[i] EXCEPT !.index = @ - tick]]
      /\ UNCHANGED <<free, serving, raises>>
  BY DEF IndInv, QueueIntact, TypeOK, TimeInv, AddTick
<1>3. tick \in Int
  BY <1>1, Distributes
<1>4. Now >= tick /\ Now \in Int
  <2>1. Now = (CPU_CycleMax - left) * Sub
    BY <1>1, <1>2 DEF Now, TickIndexND
  <2>2. CPU_CycleMax - left \in Int /\ CPU_CycleMax <= CPU_CycleMax - left
    BY <1>1, <1>2
  <2>3. CPU_CycleMax * Sub <= (CPU_CycleMax - left) * Sub
    BY <1>1, <2>2, Monotone
  <2>4. Now \in Int
    BY <1>2, TimeFacts
  <2>5. QED
    BY <1>3, <2>1, <2>3, <2>4
<1>5. Now' = 0
  <2>1. CPU_CycleMax - left' - cycles' = 0
    BY <1>1, <1>2
  <2>2. 0 * Sub = 0
    BY <1>1
  <2>3. QED
    BY <2>1, <2>2 DEF Now, TickIndexND
<1> HIDE DEF tick
<1>6. /\ DOMAIN queue' = DOMAIN queue /\ queue' \in Seq(Entry) /\ Len(queue') = Len(queue)
      /\ \A i \in DOMAIN queue : queue[i].index \in Int
      /\ \A i \in DOMAIN queue : queue'[i].index = queue[i].index - tick
  <2>1. \A i \in DOMAIN queue : queue[i] \in Entry
    BY <1>2
  <2>2. \A i \in DOMAIN queue :
          /\ queue[i].index \in Int
          /\ [queue[i] EXCEPT !.index = @ - tick] \in Entry
          /\ [queue[i] EXCEPT !.index = @ - tick].index = queue[i].index - tick
    BY <1>3, <2>1 DEF Entry
  <2>3. DOMAIN queue = 1 .. Len(queue) /\ Len(queue) \in Nat
    BY <1>2
  <2>4. queue' \in [1 .. Len(queue) -> Entry]
    BY <1>2, <2>2, <2>3
  <2>5. queue' \in Seq(Entry) /\ Len(queue') = Len(queue)
    BY <2>3, <2>4
  <2>6. QED
    BY <1>2, <2>2, <2>3, <2>5
<1>7. TypeOK' /\ QueueIntact'
  <2>1. serving = None
    BY <1>2, ServingFacts
  <2>2. TypeOK'
    BY <1>1, <1>2, <1>6, <2>1 DEF TypeOK
  <2>3. \A i, j \in DOMAIN queue' : i < j => queue'[i].index <= queue'[j].index
    <3>1. TAKE i, j \in DOMAIN queue'
    <3>2. i < j => queue[i].index <= queue[j].index
      BY <1>2, <1>6 DEF QueueIntact
    <3>3. QED
      BY <1>3, <1>6, <3>2
  <2>4. QED
    BY <1>2, <1>6, <2>1, <2>2, <2>3 DEF QueueIntact
<1>8. TimeInv'
  <2>1. MaxLate' = MaxLate /\ MaxLate \in Nat
    BY <1>2, TimeFacts DEF MaxLate
  <2>2. ASSUME NEW i \in DOMAIN queue
        PROVE  Now' <= queue'[i].index + MaxLate'
    <3>1. Now <= queue[i].index + MaxLate
      BY <1>2 DEF TimeInv
    <3>2. QED
      BY <1>3, <1>4, <1>5, <1>6, <2>1, <3>1
  <2>3. QED
    BY <1>2, <1>6, <2>2 DEF TimeInv
<1>9. QED
  BY <1>2, <1>7, <1>8 DEF IndInv, ServedInTime
LEMMA KeepStep ==
  ASSUME IndInv, NEW kept, kept \subseteq DOMAIN queue, Keep(kept)
  PROVE  IndInv'
<1>1. /\ QueueIntact /\ TypeOK /\ TimeInv /\ ServedInTime /\ queue \in Seq(Entry) /\ free \in Nat
      /\ Len(queue) \in Nat /\ Sorted
      /\ free' = free + Len(queue) - Cardinality(kept)
      /\ UNCHANGED <<phase, serving, left, cycles, raises>>
  BY DEF IndInv, QueueIntact, TypeOK, TimeInv, Keep, cpuVars, Sorted
<1>2. /\ queue' \in Seq(Entry) /\ Len(queue') = Cardinality(kept)
      /\ Cardinality(kept) \in 0 .. Len(queue)
      /\ \A i \in DOMAIN queue' : \E j \in DOMAIN queue : queue'[i] = queue[j]
      /\ Sorted'
  BY <1>1, KeepFacts
<1>3. TypeOK'
  BY <1>1, <1>2 DEF TypeOK
<1>4. QueueIntact'
  <2>1. free' + Len(queue') = free + Len(queue) /\ free' \in Nat
    BY <1>1, <1>2
  <2>2. QED
    BY <1>1, <1>2, <1>3, <2>1 DEF QueueIntact, Sorted
<1>5. /\ Now' = Now /\ SliceEnd' = SliceEnd /\ MaxLate' = MaxLate
  BY <1>1 DEF Now, TickIndexND, SliceEnd, MaxLate
<1>6. TimeInv'
  <2>1. free' \in Nat
    BY <1>1, <1>2
  <2>2. QED
    BY <1>1, <1>2, <1>5, <2>1 DEF TimeInv
<1>7. ServedInTime'
  BY <1>1, <1>5 DEF ServedInTime, Now
<1>8. QED
  BY <1>4, <1>6, <1>7 DEF IndInv

\* The slice that is left when an event was added ends before the first event.
LEMMA ShortenFacts ==
  ASSUME TypeOK, NEW next \in Entry, ShortenSlice(next)
  PROVE  /\ left' \in Int /\ cycles' \in Int /\ left' + cycles' = left + cycles
         /\ cycles = 0 => left' = left /\ cycles' = 0
         /\ cycles' > 0 => Now + cycles' * Sub <= next.index
<1> DEFINE h == next.index - Now
<1>1. /\ Sub \in Nat /\ left \in Int /\ cycles \in Int /\ Now \in Int /\ next.index \in Int
  BY PicAssumption, TimeFacts DEF TypeOK, Entry
<1>2. h \in Int
  BY <1>1
<1>3. \/ Truncated(h) < cycles /\ left' = left + cycles /\ cycles' = 0
      \/ ~ (Truncated(h) < cycles) /\ left' = left /\ cycles' = cycles
  BY DEF ShortenSlice, cpuVars, Now
<1> HIDE DEF h
<1>4. PICK n \in Int : /\ n = Truncated(h)
                       /\ h >= 0 => n >= 0 /\ n * Sub <= h
                       /\ n > 0 => h >= 0
  BY <1>2, TruncatedFacts
<1>5. /\ left' \in Int /\ cycles' \in Int /\ left' + cycles' = left + cycles
      /\ cycles = 0 => left' = left /\ cycles' = 0
  BY <1>1, <1>3
<1>6. ASSUME cycles' > 0
      PROVE  Now + cycles' * Sub <= next.index
  <2>1. cycles' = cycles /\ cycles > 0 /\ cycles <= n
    BY <1>1, <1>3, <1>4, <1>6
  <2>2. cycles * Sub <= n * Sub /\ cycles * Sub \in Int /\ n * Sub \in Int
    BY <1>1, <2>1, Monotone, Distributes
  <2>3. n * Sub <= h
    BY <1>4, <1>1, <2>1
  <2>4. cycles * Sub <= h
    BY <1>2, <2>2, <2>3
  <2>5. QED
    BY <1>1, <2>1, <2>2, <2>4 DEF h
<1>7. QED
  BY <1>5, <1>6

LEMMA AddEventStep ==
  ASSUME IndInv, NEW e \in Events, NEW delay \in Delays, AddEvent(e, delay)
  PROVE  IndInv'
<1> DEFINE from == IF serving # None THEN serving.index ELSE TickIndexND * Sub
           entry == [event |-> e, index |-> from + delay]
<1>1. /\ QueueIntact /\ TypeOK /\ TimeInv /\ ServedInTime /\ queue \in Seq(Entry) /\ free \in Nat
      /\ Len(queue) \in Nat /\ Sorted /\ free > 0 /\ free' = free - 1
      /\ Insert(entry) /\ ShortenSlice(Head(queue'))
      /\ UNCHANGED <<phase, serving, raises>>
  BY DEF IndInv, QueueIntact, TypeOK, TimeInv, AddEvent, Sorted
<1>2. /\ Now \in Int /\ MaxLate \in Nat /\ raises * PerRaise \in Nat
      /\ Sub \in Nat /\ Sub > 0
  BY <1>1, TimeFacts, PicAssumption
<1>3. from \in Int /\ Now <= from + MaxLate
  <2>1. CASE phase = "handler"
    <3>1. from = serving.index /\ serving.index \in Int
      BY <1>1, <2>1, ServingFacts
    <3>2. Now - serving.index \in 0 .. MaxLate
      BY <1>1, <2>1 DEF ServedInTime, Now
    <3>3. QED
      BY <1>2, <3>1, <3>2
  <2>2. CASE phase # "handler"
    <3>1. from = Now
      BY <1>1, <2>2, ServingFacts DEF Now
    <3>2. QED
      BY <1>2, <3>1
  <2>3. QED
    BY <2>1, <2>2
<1> HIDE DEF from
<1>4. /\ delay \in Nat /\ entry \in Entry /\ entry.index \in Int
      /\ Now <= entry.index + MaxLate
  <2>1. delay \in Nat
    BY PicAssumption
  <2>2. from + delay \in Int /\ Now <= from + delay + MaxLate
    BY <1>2, <1>3, <2>1
  <2>3. QED
    BY <2>1, <2>2 DEF Entry
<1> HIDE DEF entry
<1>5. /\ queue' \in Seq(Entry) /\ Len(queue') = Len(queue) + 1
      /\ \A i \in DOMAIN queue' :
           queue'[i] = entry \/ \E j \in DOMAIN queue : queue'[i] = queue[j]
      /\ Sorted'
  BY <1>1, <1>4, InsertFacts
<1>6. /\ DOMAIN queue' = 1 .. Len(queue) + 1 /\ 1 \in DOMAIN queue'
      /\ Head(queue') = queue'[1] /\ queue'[1] \in Entry
      /\ \A i \in DOMAIN queue' : queue'[i] \in Entry /\ queue'[i].index \in Int
  <2>1. queue' # <<>> /\ DOMAIN queue' = 1 .. Len(queue) + 1
    BY <1>1, <1>5
  <2>2. /\ 1 \in DOMAIN queue' /\ Head(queue') = queue'[1]
    BY <1>1, <1>5, <2>1
  <2>3. \A i \in DOMAIN queue' : queue'[i] \in Entry
    BY <1>5
  <2>4. QED
    BY <2>1, <2>2, <2>3 DEF Entry
<1>7. /\ left' \in Int /\ cycles' \in Int /\ left' + cycles' = left + cycles
      /\ cycles = 0 => left' = left /\ cycles' = 0
      /\ cycles' > 0 => Now + cycles' * Sub <= queue'[1].index
  BY <1>1, <1>6, ShortenFacts
<1>8. TypeOK'
  BY <1>1, <1>5, <1>7 DEF TypeOK
<1>9. QueueIntact'
  <2>1. free' + Len(queue') = free + Len(queue)
    BY <1>1, <1>5
  <2>2. QED
    BY <1>1, <1>5, <1>8, <2>1 DEF QueueIntact, Sorted
<1>10. Now' = Now /\ MaxLate' = MaxLate
  <2>1. Now' = Now
    BY <1>1, <1>7, <1>8, ClockStands
  <2>2. QED
    BY <1>1, <2>1 DEF MaxLate
<1>11. TimeInv'
  <2>1. ASSUME NEW i \in DOMAIN queue'
        PROVE  Now <= queue'[i].index + MaxLate
    BY <1>1, <1>4, <1>5 DEF TimeInv
  <2>2. ASSUME NEW i \in DOMAIN queue', cycles' > 0
        PROVE  SliceEnd' <= queue'[i].index + Sub - 1 + raises * PerRaise
    <3>1. queue'[1].index <= queue'[i].index
      BY <1>5, <1>6 DEF Sorted
    <3>2. SliceEnd' = Now' + cycles' * Sub /\ cycles' * Sub \in Int
      BY <1>8, NextTimeFacts
    <3>3. PICK c \in Int : c = cycles' * Sub
      BY <3>2
    <3>4. PICK x \in Int, y \in Int : x = queue'[1].index /\ y = queue'[i].index
      BY <1>6
    <3>5. PICK z \in Int : z = SliceEnd' /\ z = Now + c
      BY <1>2, <1>10, <3>2, <3>3
    <3>6. Now + c <= x /\ x <= y
      BY <1>7, <2>2, <3>1, <3>3, <3>4
    <3>7. z <= y + Sub - 1 + raises * PerRaise
      BY <1>2, <3>5, <3>6
    <3>8. QED
      BY <3>4, <3>5, <3>7
  <2>3. phase = "border" => left' <= 0
    BY <1>1, <1>7 DEF TimeInv, TypeOK
  <2>4. free' \in Nat
    BY <1>1
  <2>5. QED
    BY <1>1, <1>10, <2>1, <2>2, <2>3, <2>4 DEF TimeInv
<1>12. ServedInTime'
  BY <1>1, <1>10 DEF ServedInTime, Now
<1>13. QED
  BY <1>9, <1>11, <1>12 DEF IndInv

-----------------------------------------------------------------------------
(* The theorems *)

\* Every step of devices, the CPU and PIC_RunQueue keeps the invariant.
THEOREM Inductive == Spec => []IndInv
<1>1. Init => IndInv
  BY InitInv
<1>2. IndInv /\ [Next]_vars => IndInv'
  <2> SUFFICES ASSUME IndInv, [Next]_vars
               PROVE  IndInv'
    OBVIOUS
  <2>1. CASE Devices
    <3>1. ASSUME NEW e \in Events, NEW d \in Delays, AddEvent(e, d)
          PROVE  IndInv'
      BY <3>1, AddEventStep
    <3>2. ASSUME NEW e \in Events, RemoveEvents(e[1])
          PROVE  IndInv'
      BY <3>2, KeepStep DEF RemoveEvents
    <3>3. ASSUME NEW e \in Events, RemoveSpecificEvents(e)
          PROVE  IndInv'
      BY <3>3, KeepStep DEF RemoveSpecificEvents
    <3>4. QED
      BY <2>1, <3>1, <3>2, <3>3 DEF Devices
  <2>2. CASE Execute
    BY <2>2, InstructionStep DEF Execute
  <2>3. CASE ActivateIRQ
    BY <2>3, ActivateIRQStep
  <2>4. CASE RunQueue
    BY <2>4, RunQueueStep
  <2>5. CASE Serve
    BY <2>5, ServeStep
  <2>6. CASE HandlerReturns
    BY <2>6, HandlerReturnsStep
  <2>7. CASE Resume
    BY <2>7, ResumeStep
  <2>8. CASE AddTick
    BY <2>8, AddTickStep
  <2>9. CASE UNCHANGED vars
    BY <2>9 DEF vars, IndInv, QueueIntact, TypeOK, TimeInv, ServedInTime, Now,
                TickIndexND, SliceEnd, MaxLate
  <2>10. QED
    BY <2>1, <2>2, <2>3, <2>4, <2>5, <2>6, <2>7, <2>8, <2>9 DEF Next
<1>3. QED
  BY <1>1, <1>2, PTL DEF Spec

\* PIC_AddEvent, the removals and PIC_RunQueue leak no entry of the array and
\* leave the list sorted, with any number of entries.
THEOREM Intact == Spec => []QueueIntact
<1>1. IndInv => QueueIntact
  BY DEF IndInv
<1>2. QED
  BY <1>1, Inductive, PTL

\* PIC_RunQueue calls a handler neither early nor later than the instruction
\* under way and the interrupts raised in the slice allow.
THEOREM InTime == Spec => []ServedInTime
<1>1. IndInv => ServedInTime
  BY DEF IndInv
<1>2. QED
  BY <1>1, Inductive, PTL

-----------------------------------------------------------------------------
(* The interrupt controllers *)

Pics == [p : Controller("p"), s : Controller("s"), check : BOOLEAN]

\* The active line is that of the most important interrupt in service; in
\* special mask mode it is that of the last one.
Remembers(x) ==
  /\ ~ x.unordered => x.active_irq = Lowest(x.isr)
  /\ x.active_irq # NoLine => x.active_irq \in x.isr

Signalled(c) == ~ c.p.special /\ Ready(c.p) # {} => c.check

Cascaded(c) ==
  /\ ~ c.s.special /\ Ready(c.s) # {} => Cascade \in c.p.irr
  /\ Cascade \in c.p.irr => Ready(c.s) # {}

Fine(c) == c \in Pics /\ Remembers(c.p) /\ Remembers(c.s)

\* without automatic ends of interrupt
Exact(c) ==
  /\ ~ c.p.auto_eoi /\ ~ c.s.auto_eoi
  /\ Signalled(c) /\ Cascaded(c)

\* what every call does but the start of an interrupt
Step(c, r) ==
  /\ Fine(r)
  /\ Exact(c) => Exact(r)
  /\ r.p.isr \subseteq c.p.isr /\ r.s.isr \subseteq c.s.isr

-----------------------------------------------------------------------------
(* Lemmas: lines *)

LEMMA LineFacts ==
  /\ Lines("p") \subseteq 0 .. 7 /\ Lines("s") \subseteq 0 .. 7
  /\ Cascade \in Lines("p")
BY Pic8259Assumption DEF Lines, Cascade

LEMMA LowestFacts ==
  ASSUME NEW S, S \subseteq 0 .. 7
  PROVE  /\ S = {} => Lowest(S) = NoLine
         /\ S # {} => /\ Lowest(S) \in S
                      /\ \A k \in S : Lowest(S) <= k
<1>1. CASE S = {}
  BY <1>1 DEF Lowest
<1>2. CASE S # {}
  <2>1. \E l \in S : \A k \in S : l <= k
    <3>1. \A k \in S : k \in Int /\ (k = 0 \/ k = 1 \/ k = 2 \/ k = 3 \/ k = 4 \/ k = 5 \/ k = 6 \/ k = 7)
      OBVIOUS
    <3>2. CASE 0 \in S \/ 1 \in S \/ 2 \in S \/ 3 \in S
      BY <3>1, <3>2
    <3>3. CASE 0 \notin S /\ 1 \notin S /\ 2 \notin S /\ 3 \notin S
      <4>1. \A k \in S : k \in Int /\ (k = 4 \/ k = 5 \/ k = 6 \/ k = 7)
        BY <3>1, <3>3
      <4>2. 4 \in S \/ 5 \in S \/ 6 \in S \/ 7 \in S
        BY <1>2, <4>1
      <4>3. QED
        BY <4>1, <4>2
    <3>4. QED
      BY <3>2, <3>3
  <2>2. Lowest(S) = CHOOSE l \in S : \A k \in S : l <= k
    BY <1>2 DEF Lowest
  <2>3. QED
    BY <1>2, <2>1, <2>2
<1>3. QED
  BY <1>1, <1>2

LEMMA ReadyFacts ==
  ASSUME NEW n \in Names, NEW x \in Controller(n)
  PROVE  /\ Ready(x) \subseteq Possible(x) /\ Possible(x) \subseteq x.irr
         /\ Possible(x) \cap x.isr = {}
         /\ x.irr \subseteq 0 .. 7 /\ x.isr \subseteq 0 .. 7
BY LineFacts DEF Names, Controller, Ready, Possible
-----------------------------------------------------------------------------
(* Lemmas: the functions of PIC_Controller *)

\* all but the requests
Same(x, y) ==
  /\ x.isr = y.isr /\ x.imr = y.imr /\ x.active_irq = y.active_irq
  /\ x.special = y.special /\ x.auto_eoi = y.auto_eoi /\ x.unordered = y.unordered

LEMMA SameReady ==
  ASSUME NEW x, NEW y, Same(x, y)
  PROVE  /\ x.irr = y.irr => Ready(x) = Ready(y) /\ Possible(x) = Possible(y)
         /\ \A l : x.irr = y.irr \cup {l} => Ready(x) \ {l} = Ready(y) \ {l}
         /\ \A l : x.irr = y.irr \ {l} => Ready(x) = Ready(y) \ {l}
         /\ Remembers(y) => Remembers(x)
BY DEF Same, Ready, Possible, Remembers

LEMMA RaisePrimaryFacts ==
  ASSUME NEW c \in Pics, NEW l \in Lines("p"), NEW r, r = RaisePrimary(c, l)
  PROVE  /\ r \in Pics /\ r.s = c.s
         /\ Same(r.p, c.p) /\ r.p.irr = c.p.irr \cup {l}
         /\ Signalled(c) => Signalled(r)
<1>1. CASE l \in c.p.irr
  <2>1. r = c /\ r.p.irr = c.p.irr \cup {l}
    BY <1>1 DEF RaisePrimary
  <2>2. QED
    BY <2>1 DEF Same
<1>2. CASE l \notin c.p.irr
  <2> DEFINE up == [c EXCEPT !.p.irr = @ \cup {l}]
  <2>1. /\ up \in Pics /\ up.s = c.s /\ up.check = c.check
        /\ Same(up.p, c.p) /\ up.p.irr = c.p.irr \cup {l}
    BY DEF Pics, Controller, Same
  <2>2. r = [up EXCEPT !.check = @ \/ l \in Ready(up.p)]
    BY <1>2 DEF RaisePrimary
  <2> HIDE DEF up
  <2>3. r \in Pics /\ r.p = up.p /\ r.s = up.s /\ r.check = (up.check \/ l \in Ready(up.p))
    BY <2>1, <2>2 DEF Pics
  <2>4. Ready(up.p) \ {l} = Ready(c.p) \ {l}
    BY <2>1, SameReady
  <2>5. Signalled(c) => Signalled(r)
    BY <2>1, <2>3, <2>4 DEF Signalled, Same
  <2>6. QED
    BY <2>1, <2>3, <2>5
<1>3. QED
  BY <1>1, <1>2

LEMMA LowerPrimaryFacts ==
  ASSUME NEW c \in Pics, NEW l \in Lines("p"), NEW r, r = LowerPrimary(c, l)
  PROVE  /\ r \in Pics /\ r.s = c.s
         /\ Same(r.p, c.p) /\ r.p.irr = c.p.irr \ {l}
         /\ Signalled(c) => Signalled(r)
<1>1. CASE l \notin c.p.irr
  <2>1. r = c /\ r.p.irr = c.p.irr \ {l}
    BY <1>1 DEF LowerPrimary
  <2>2. QED
    BY <2>1 DEF Same
<1>2. CASE l \in c.p.irr
  <2> DEFINE down == [c EXCEPT !.p.irr = @ \ {l}]
  <2>1. /\ down \in Pics /\ down.s = c.s /\ down.check = c.check
        /\ Same(down.p, c.p) /\ down.p.irr = c.p.irr \ {l}
    BY DEF Pics, Controller, Same
  <2>2. r = IF l \in Ready(c.p) THEN [down EXCEPT !.check = Ready(down.p) # {}]
            ELSE down
    BY <1>2 DEF LowerPrimary
  <2> HIDE DEF down
  <2>3. Ready(down.p) = Ready(c.p) \ {l}
    BY <2>1, SameReady
  <2>4. CASE l \in Ready(c.p)
    <3>1. r \in Pics /\ r.p = down.p /\ r.s = down.s /\ r.check = (Ready(down.p) # {})
      BY <2>1, <2>2, <2>4 DEF Pics
    <3>2. QED
      BY <2>1, <3>1 DEF Signalled
  <2>5. CASE l \notin Ready(c.p)
    BY <2>1, <2>2, <2>3, <2>5 DEF Signalled, Same
  <2>6. QED
    BY <2>4, <2>5
<1>3. QED
  BY <1>1, <1>2

LEMMA CheckPrimary ==
  ASSUME NEW c \in Pics, NEW r, r = CheckForIrq(c, "p")
  PROVE  r \in Pics /\ r.s = c.s /\ r.p = c.p /\ Signalled(r)
<1>1. r = [c EXCEPT !.check = Ready(c.p) # {}]
  BY DEF CheckForIrq
<1>2. r \in Pics /\ r.s = c.s /\ r.p = c.p /\ r.check = (Ready(c.p) # {})
  BY <1>1 DEF Pics
<1>3. QED
  BY <1>2 DEF Signalled

LEMMA CheckSecondary ==
  ASSUME NEW c \in Pics, NEW r, r = CheckForIrq(c, "s")
  PROVE  /\ r \in Pics /\ r.s = c.s /\ Same(r.p, c.p)
         /\ Cascaded(r)
         /\ Signalled(c) => Signalled(r)
<1>1. CASE Ready(c.s) # {}
  <2>1. r = RaisePrimary(c, Cascade)
    BY <1>1 DEF CheckForIrq
  <2>2. /\ r \in Pics /\ r.s = c.s /\ Same(r.p, c.p)
        /\ r.p.irr = c.p.irr \cup {Cascade} /\ (Signalled(c) => Signalled(r))
    BY <2>1, LineFacts, RaisePrimaryFacts
  <2>3. QED
    BY <1>1, <2>2 DEF Cascaded
<1>2. CASE Ready(c.s) = {}
  <2>1. r = LowerPrimary(c, Cascade)
    BY <1>2 DEF CheckForIrq
  <2>2. /\ r \in Pics /\ r.s = c.s /\ Same(r.p, c.p)
        /\ r.p.irr = c.p.irr \ {Cascade} /\ (Signalled(c) => Signalled(r))
    BY <2>1, LineFacts, LowerPrimaryFacts
  <2>3. QED
    BY <1>2, <2>2 DEF Cascaded
<1>3. QED
  BY <1>1, <1>2
-----------------------------------------------------------------------------
(* The calls of the devices *)

LEMMA RaiseStep ==
  ASSUME NEW c, Fine(c), NEW n \in Names, NEW l \in Lines(n), <<n, l>> # <<"p", Cascade>>,
         NEW r, r = RaiseIrq(c, n, l)
  PROVE  Step(c, r)
<1>1. c \in Pics /\ Remembers(c.p) /\ Remembers(c.s)
  BY DEF Fine
<1>2. CASE n = "p"
  <2>1. l # Cascade /\ l \in Lines("p") /\ r = RaisePrimary(c, l)
    BY <1>2 DEF RaiseIrq
  <2>2. /\ r \in Pics /\ r.s = c.s
        /\ Same(r.p, c.p) /\ r.p.irr = c.p.irr \cup {l}
        /\ Signalled(c) => Signalled(r)
    BY <1>1, <2>1, RaisePrimaryFacts
  <2>3. QED
    BY <1>1, <2>1, <2>2, SameReady DEF Step, Fine, Exact, Cascaded, Same
<1>3. CASE n = "s"
  <2> DEFINE up == [c EXCEPT !.s.irr = @ \cup {l}]
  <2>1. l \in Lines("s")
    BY <1>3
  <2>2. /\ up \in Pics /\ up.p = c.p /\ up.check = c.check
        /\ Same(up.s, c.s) /\ up.s.irr = c.s.irr \cup {l}
    BY <1>1, <2>1 DEF Pics, Controller, Same
  <2>3. r = IF l \notin c.s.irr /\ l \in Ready(up.s) THEN RaisePrimary(up, Cascade) ELSE up
    BY <1>3 DEF RaiseIrq
  <2> HIDE DEF up
  <2>4. /\ Ready(up.s) \ {l} = Ready(c.s) \ {l} /\ Remembers(up.s)
        /\ up.s.irr = c.s.irr => Ready(up.s) = Ready(c.s)
    <3>1. Ready(up.s) \ {l} = Ready(c.s) \ {l}
      BY <2>2, SameReady
    <3>2. Remembers(up.s)
      BY <1>1, <2>2, SameReady
    <3>3. up.s.irr = c.s.irr => Ready(up.s) = Ready(c.s)
      BY <2>2, SameReady
    <3>4. QED
      BY <3>1, <3>2, <3>3
  <2>5. Signalled(c) => Signalled(up)
    BY <2>2 DEF Signalled
  <2>6. CASE l \notin c.s.irr /\ l \in Ready(up.s)
    <3>1. /\ r \in Pics /\ r.s = up.s /\ Same(r.p, up.p)
          /\ r.p.irr = up.p.irr \cup {Cascade}
          /\ Signalled(up) => Signalled(r)
      BY <2>2, <2>3, <2>6, LineFacts, RaisePrimaryFacts
    <3>2. Remembers(r.p)
      BY <1>1, <2>2, <3>1, SameReady
    <3>3. QED
      BY <2>2, <2>4, <2>5, <2>6, <3>1, <3>2 DEF Step, Fine, Exact, Cascaded, Same
  <2>7. CASE l \in c.s.irr \/ l \notin Ready(up.s)
    <3>1. r = up
      BY <2>3, <2>7
    <3>2. Ready(up.s) = Ready(c.s)
      <4>1. CASE l \in c.s.irr
        BY <2>2, <2>4, <4>1
      <4>2. CASE l \notin c.s.irr
        <5>1. l \notin Ready(up.s)
          BY <2>7, <4>2
        <5>2. l \notin Ready(c.s)
          BY <4>2 DEF Ready, Possible
        <5>3. QED
          BY <2>4, <5>1, <5>2
      <4>3. QED
        BY <4>1, <4>2
    <3>3. QED
      BY <1>1, <2>2, <2>4, <2>5, <3>1, <3>2 DEF Step, Fine, Exact, Cascaded, Same
  <2>8. QED
    BY <2>6, <2>7
<1>4. QED
  BY <1>2, <1>3 DEF Names

LEMMA LowerStep ==
  ASSUME NEW c, Fine(c), NEW n \in Names, NEW l \in Lines(n), <<n, l>> # <<"p", Cascade>>,
         NEW r, r = LowerIrq(c, n, l)
  PROVE  Step(c, r)
<1>1. c \in Pics /\ Remembers(c.p) /\ Remembers(c.s)
  BY DEF Fine
<1>2. CASE n = "p"
  <2>1. l # Cascade /\ l \in Lines("p") /\ r = LowerPrimary(c, l)
    BY <1>2 DEF LowerIrq
  <2>2. /\ r \in Pics /\ r.s = c.s
        /\ Same(r.p, c.p) /\ r.p.irr = c.p.irr \ {l}
        /\ Signalled(c) => Signalled(r)
    BY <1>1, <2>1, LowerPrimaryFacts
  <2>3. QED
    BY <1>1, <2>1, <2>2, SameReady DEF Step, Fine, Exact, Cascaded, Same
<1>3. CASE n = "s"
  <2> DEFINE down == [c EXCEPT !.s.irr = @ \ {l}]
  <2>1. /\ down \in Pics /\ down.p = c.p /\ down.check = c.check
        /\ Same(down.s, c.s) /\ down.s.irr = c.s.irr \ {l}
    BY <1>1 DEF Pics, Controller, Same
  <2>2. r = IF l \in Ready(c.s) THEN CheckForIrq(down, "s") ELSE down
    BY <1>3 DEF LowerIrq
  <2> HIDE DEF down
  <2>3. Ready(down.s) = Ready(c.s) \ {l} /\ Remembers(down.s)
    BY <1>1, <2>1, SameReady
  <2>4. Signalled(c) => Signalled(down)
    BY <2>1 DEF Signalled
  <2>5. CASE l \in Ready(c.s)
    <3>1. /\ r \in Pics /\ r.s = down.s /\ Same(r.p, down.p) /\ Cascaded(r)
          /\ Signalled(down) => Signalled(r)
      BY <2>1, <2>2, <2>5, CheckSecondary
    <3>2. Remembers(r.p)
      BY <1>1, <2>1, <3>1, SameReady
    <3>3. QED
      BY <2>1, <2>3, <2>4, <3>1, <3>2 DEF Step, Fine, Exact, Same
  <2>6. CASE l \notin Ready(c.s)
    <3>1. r = down /\ Ready(down.s) = Ready(c.s)
      BY <2>2, <2>3, <2>6
    <3>2. QED
      BY <1>1, <2>1, <2>3, <2>4, <3>1 DEF Step, Fine, Exact, Cascaded, Same
  <2>7. QED
    BY <2>5, <2>6
<1>4. QED
  BY <1>2, <1>3 DEF Names

\* A mask is set; also by the first initialization word.
LEMMA MaskStep ==
  ASSUME NEW c, Fine(c), NEW n \in Names, NEW masked \in SUBSET Lines(n),
         NEW r, r = SetImr(c, n, masked)
  PROVE  Step(c, r)
<1> DEFINE changed == (c[n].imr \ masked) \cup (masked \ c[n].imr)
           new == [c EXCEPT ![n].imr = masked]
<1>1. c \in Pics /\ Remembers(c.p) /\ Remembers(c.s)
  BY DEF Fine
<1>2. r = IF (c[n].irr \cap changed) \ c[n].isr # {} THEN CheckForIrq(new, n) ELSE new
  BY DEF SetImr
<1>3. CASE n = "p"
  <2>1. /\ new \in Pics /\ new.s = c.s /\ new.check = c.check
        /\ new.p.irr = c.p.irr /\ new.p.isr = c.p.isr /\ new.p.imr = masked
        /\ new.p.active_irq = c.p.active_irq /\ new.p.special = c.p.special
        /\ new.p.auto_eoi = c.p.auto_eoi /\ new.p.unordered = c.p.unordered
    BY <1>1, <1>3 DEF Pics, Controller
  <2>2. Remembers(new.p)
    BY <1>1, <2>1 DEF Remembers
  <2>3. CASE (c[n].irr \cap changed) \ c[n].isr # {}
    <3>1. r = CheckForIrq(new, "p")
      BY <1>2, <1>3, <2>3
    <3> HIDE DEF new, changed
    <3>2. r \in Pics /\ r.s = new.s /\ r.p = new.p /\ Signalled(r)
      BY <2>1, <3>1, CheckPrimary
    <3>3. QED
      BY <1>1, <2>1, <2>2, <3>2 DEF Step, Fine, Exact, Cascaded
  <2>4. CASE (c[n].irr \cap changed) \ c[n].isr = {}
    <3>1. r = new
      BY <1>2, <2>4
    <3>2. (c.p.irr \ masked) \ c.p.isr = (c.p.irr \ c.p.imr) \ c.p.isr
      BY <1>3, <2>4
    <3> HIDE DEF new, changed
    <3>3. Ready(new.p) = Ready(c.p)
      BY <2>1, <3>2 DEF Ready, Possible
    <3>4. QED
      BY <1>1, <2>1, <2>2, <3>1, <3>3 DEF Step, Fine, Exact, Cascaded, Signalled
  <2>5. QED
    BY <2>3, <2>4
<1>4. CASE n = "s"
  <2>1. /\ new \in Pics /\ new.p = c.p /\ new.check = c.check
        /\ new.s.irr = c.s.irr /\ new.s.isr = c.s.isr /\ new.s.imr = masked
        /\ new.s.active_irq = c.s.active_irq /\ new.s.special = c.s.special
        /\ new.s.auto_eoi = c.s.auto_eoi /\ new.s.unordered = c.s.unordered
    BY <1>1, <1>4 DEF Pics, Controller
  <2>2. Remembers(new.s)
    BY <1>1, <2>1 DEF Remembers
  <2>3. Signalled(c) => Signalled(new)
    BY <2>1 DEF Signalled
  <2>4. CASE (c[n].irr \cap changed) \ c[n].isr # {}
    <3>1. r = CheckForIrq(new, "s")
      BY <1>2, <1>4, <2>4
    <3> HIDE DEF new, changed
    <3>2. /\ r \in Pics /\ r.s = new.s /\ Same(r.p, new.p) /\ Cascaded(r)
          /\ Signalled(new) => Signalled(r)
      BY <2>1, <3>1, CheckSecondary
    <3>3. Remembers(r.p)
      BY <1>1, <2>1, <3>2, SameReady
    <3>4. QED
      BY <2>1, <2>2, <2>3, <3>2, <3>3 DEF Step, Fine, Exact, Same
  <2>5. CASE (c[n].irr \cap changed) \ c[n].isr = {}
    <3>1. r = new
      BY <1>2, <2>5
    <3>2. (c.s.irr \ masked) \ c.s.isr = (c.s.irr \ c.s.imr) \ c.s.isr
      BY <1>4, <2>5
    <3> HIDE DEF new, changed
    <3>3. Ready(new.s) = Ready(c.s)
      BY <2>1, <3>2 DEF Ready, Possible
    <3>4. QED
      BY <1>1, <2>1, <2>2, <2>3, <3>1, <3>3 DEF Step, Fine, Exact, Cascaded
  <2>6. QED
    BY <2>4, <2>5
<1>5. QED
  BY <1>3, <1>4 DEF Names
-----------------------------------------------------------------------------
(* The calls of the guest *)

LEMMA ActiveFacts ==
  ASSUME NEW n \in Names, NEW x \in Controller(n),
         x.active_irq = Lowest(x.isr)
  PROVE  Remembers(x)
BY LowestFacts, ReadyFacts DEF Remembers

\* check_after_EOI finds the line that is active now, and what it uncovers.
LEMMA EoiStep ==
  ASSUME NEW c, Fine(c), NEW n \in Names, NEW l,
         NEW r, r = AfterEoi([c EXCEPT ![n].isr = @ \ {l}], n)
  PROVE  Step(c, r)
<1> DEFINE cleared == [c EXCEPT ![n].isr = @ \ {l}]
           new == [cleared EXCEPT ![n].active_irq = Lowest(cleared[n].isr),
                                  ![n].unordered = FALSE]
<1>1. c \in Pics /\ Remembers(c.p) /\ Remembers(c.s)
  BY DEF Fine
<1>2. r = IF Possible(new[n]) # {} THEN CheckForIrq(new, n) ELSE new
  BY DEF AfterEoi
<1>3. CASE n = "p"
  <2>1. /\ cleared \in Pics /\ cleared.s = c.s /\ cleared.check = c.check
        /\ cleared.p.isr = c.p.isr \ {l} /\ cleared.p.irr = c.p.irr
        /\ cleared.p.auto_eoi = c.p.auto_eoi /\ cleared[n] = cleared.p
    BY <1>1, <1>3 DEF Pics, Controller
  <2> HIDE DEF cleared
  <2>2. Lowest(cleared.p.isr) \in Lines("p") \cup {NoLine}
    <3>1. cleared.p.isr \subseteq Lines("p") /\ cleared.p.isr \subseteq 0 .. 7
      BY <2>1, LineFacts DEF Pics, Controller
    <3>2. QED
      BY <3>1, LowestFacts
  <2>3. /\ new \in Pics /\ new.s = c.s /\ new.check = c.check
        /\ new.p.isr = c.p.isr \ {l} /\ new.p.irr = c.p.irr
        /\ new.p.auto_eoi = c.p.auto_eoi
        /\ new.p.active_irq = Lowest(new.p.isr) /\ new[n] = new.p
    BY <1>3, <2>1, <2>2 DEF Pics, Controller
  <2> HIDE DEF new
  <2>4. new.p \in Controller("p")
    BY <2>3 DEF Pics
  <2>5. Remembers(new.p) /\ Ready(new.p) \subseteq Possible(new.p)
    BY <2>3, <2>4, ActiveFacts, ReadyFacts DEF Names
  <2>6. CASE Possible(new[n]) # {}
    <3>1. r \in Pics /\ r.s = new.s /\ r.p = new.p /\ Signalled(r)
      BY <1>2, <1>3, <2>3, <2>6, CheckPrimary
    <3>2. QED
      BY <1>1, <2>3, <2>5, <3>1 DEF Step, Fine, Exact, Cascaded
  <2>7. CASE Possible(new[n]) = {}
    <3>1. r = new /\ Ready(new.p) = {}
      BY <1>2, <2>3, <2>5, <2>7
    <3>2. QED
      BY <1>1, <2>3, <2>5, <3>1 DEF Step, Fine, Exact, Cascaded, Signalled
  <2>8. QED
    BY <2>6, <2>7
<1>4. CASE n = "s"
  <2>1. /\ cleared \in Pics /\ cleared.p = c.p /\ cleared.check = c.check
        /\ cleared.s.isr = c.s.isr \ {l} /\ cleared.s.irr = c.s.irr
        /\ cleared.s.imr = c.s.imr
        /\ cleared.s.auto_eoi = c.s.auto_eoi /\ cleared[n] = cleared.s
    BY <1>1, <1>4 DEF Pics, Controller
  <2> HIDE DEF cleared
  <2>2. Lowest(cleared.s.isr) \in Lines("s") \cup {NoLine}
    <3>1. cleared.s.isr \subseteq Lines("s") /\ cleared.s.isr \subseteq 0 .. 7
      BY <2>1, LineFacts DEF Pics, Controller
    <3>2. QED
      BY <3>1, LowestFacts
  <2>3. /\ new \in Pics /\ new.p = c.p /\ new.check = c.check
        /\ new.s.isr = c.s.isr \ {l} /\ new.s.irr = c.s.irr /\ new.s.imr = c.s.imr
        /\ new.s.auto_eoi = c.s.auto_eoi
        /\ new.s.active_irq = Lowest(new.s.isr) /\ new[n] = new.s
    BY <1>4, <2>1, <2>2 DEF Pics, Controller
  <2> HIDE DEF new
  <2>4. new.s \in Controller("s") /\ c.s \in Controller("s")
    BY <1>1, <2>3 DEF Pics
  <2>5. Remembers(new.s) /\ Ready(new.s) \subseteq Possible(new.s)
    BY <2>3, <2>4, ActiveFacts, ReadyFacts DEF Names
  <2>6. Signalled(c) => Signalled(new)
    BY <2>3 DEF Signalled
  <2>7. CASE Possible(new[n]) # {}
    <3>1. /\ r \in Pics /\ r.s = new.s /\ Same(r.p, new.p) /\ Cascaded(r)
          /\ Signalled(new) => Signalled(r)
      BY <1>2, <1>4, <2>3, <2>7, CheckSecondary
    <3>2. Remembers(r.p)
      BY <1>1, <2>3, <3>1, SameReady
    <3>3. QED
      BY <2>3, <2>5, <2>6, <3>1, <3>2 DEF Step, Fine, Exact, Same
  <2>8. CASE Possible(new[n]) = {}
    <3>1. r = new /\ Ready(new.s) = {}
      BY <1>2, <2>3, <2>5, <2>8
    <3>2. Possible(c.s) \subseteq Possible(new.s)
      BY <2>3 DEF Possible
    <3>3. Ready(c.s) = {}
      BY <2>3, <2>4, <2>8, <3>2, ReadyFacts DEF Names
    <3>4. QED
      BY <1>1, <2>3, <2>5, <2>6, <3>1, <3>3 DEF Step, Fine, Exact, Cascaded
  <2>9. QED
    BY <2>7, <2>8
<1>5. QED
  BY <1>3, <1>4 DEF Names

LEMMA SpecialStep ==
  ASSUME NEW c, Fine(c), NEW n \in Names, NEW special \in BOOLEAN,
         NEW r, r = CheckForIrq([c EXCEPT ![n].special = special], n)
  PROVE  Step(c, r)
<1> DEFINE new == [c EXCEPT ![n].special = special]
<1>1. c \in Pics /\ Remembers(c.p) /\ Remembers(c.s)
  BY DEF Fine
<1>2. CASE n = "p"
  <2>1. /\ new \in Pics /\ new.s = c.s /\ new.p.irr = c.p.irr /\ new.p.isr = c.p.isr
        /\ new.p.active_irq = c.p.active_irq /\ new.p.unordered = c.p.unordered
        /\ new.p.auto_eoi = c.p.auto_eoi
    BY <1>1, <1>2 DEF Pics, Controller
  <2> HIDE DEF new
  <2>2. r \in Pics /\ r.s = new.s /\ r.p = new.p /\ Signalled(r)
    BY <1>2, <2>1, CheckPrimary DEF new
  <2>3. Remembers(r.p)
    BY <1>1, <2>1, <2>2 DEF Remembers
  <2>4. QED
    BY <1>1, <2>1, <2>2, <2>3 DEF Step, Fine, Exact, Cascaded
<1>3. CASE n = "s"
  <2>1. /\ new \in Pics /\ new.p = c.p /\ new.s.irr = c.s.irr /\ new.s.isr = c.s.isr
        /\ new.s.active_irq = c.s.active_irq /\ new.s.unordered = c.s.unordered
        /\ new.s.auto_eoi = c.s.auto_eoi /\ new.check = c.check
    BY <1>1, <1>3 DEF Pics, Controller
  <2>0. r = CheckForIrq(new, "s")
    BY <1>3
  <2> HIDE DEF new
  <2>2. /\ r \in Pics /\ r.s = new.s /\ Same(r.p, new.p) /\ Cascaded(r)
        /\ Signalled(new) => Signalled(r)
    BY <2>0, <2>1, CheckSecondary
  <2>3. Remembers(r.s) /\ Remembers(r.p)
    <3>1. Remembers(r.s)
      BY <1>1, <2>1, <2>2 DEF Remembers
    <3>2. QED
      BY <1>1, <2>1, <2>2, <3>1, SameReady
  <2>4. Signalled(c) => Signalled(new)
    BY <2>1 DEF Signalled
  <2>5. QED
    BY <2>1, <2>2, <2>3, <2>4 DEF Step, Fine, Exact, Same
<1>4. QED
  BY <1>2, <1>3 DEF Names

\* the words that are expected after the first one
LEMMA WordsFacts ==
  ASSUME NEW single \in BOOLEAN, NEW needs4 \in BOOLEAN
  PROVE  <<"ICW2">> \o (IF single THEN <<>> ELSE <<"ICW3">>)
                    \o (IF single \/ needs4 THEN <<"ICW4">> ELSE <<>>)
           \in Seq({"ICW2", "ICW3", "ICW4"})
<1> DEFINE S == {"ICW2", "ICW3", "ICW4"}
           three == IF single THEN <<>> ELSE <<"ICW3">>
           four == IF single \/ needs4 THEN <<"ICW4">> ELSE <<>>
<1>1. "ICW2" \in S /\ "ICW3" \in S /\ "ICW4" \in S
  OBVIOUS
<1> HIDE DEF S
<1>2. three \in Seq(S) /\ four \in Seq(S) /\ <<"ICW2">> \in Seq(S)
  BY <1>1
<1> HIDE DEF three, four
<1>3. <<"ICW2">> \o three \in Seq(S)
  BY <1>2
<1>4. (<<"ICW2">> \o three) \o four \in Seq(S)
  BY <1>2, <1>3
<1>5. QED
  BY <1>4 DEF S, three, four

Worded(c, n, words, auto) == [c EXCEPT ![n].icw = words, ![n].auto_eoi = auto]

\* An initialization word changes nothing that is served.
LEMMA WordStep ==
  ASSUME NEW c, Fine(c), NEW n \in Names, NEW words \in Seq({"ICW2", "ICW3", "ICW4"}),
         NEW auto \in BOOLEAN,
         NEW r, r = Worded(c, n, words, auto)
  PROVE  /\ Fine(r) /\ r.p.isr = c.p.isr /\ r.s.isr = c.s.isr
         /\ Exact(c) /\ ~ auto => Exact(r)
<1>1. c \in Pics /\ Remembers(c.p) /\ Remembers(c.s)
  BY DEF Fine
<1> DEFINE Alike(x, y) ==
             /\ x.irr = y.irr /\ x.isr = y.isr /\ x.imr = y.imr
             /\ x.active_irq = y.active_irq /\ x.special = y.special
             /\ x.unordered = y.unordered
<1>2. /\ r \in Pics /\ r.check = c.check /\ Alike(r.p, c.p) /\ Alike(r.s, c.s)
      /\ r.p.auto_eoi \in {c.p.auto_eoi, auto} /\ r.s.auto_eoi \in {c.s.auto_eoi, auto}
  <2>1. CASE n = "p"
    BY <1>1, <2>1 DEF Pics, Controller, Worded
  <2>2. CASE n = "s"
    BY <1>1, <2>2 DEF Pics, Controller, Worded
  <2>3. QED
    BY <2>1, <2>2 DEF Names
<1>3. /\ Ready(r.p) = Ready(c.p) /\ Ready(r.s) = Ready(c.s)
      /\ Remembers(r.p) /\ Remembers(r.s)
  BY <1>1, <1>2 DEF Ready, Possible, Remembers
<1>4. QED
  BY <1>2, <1>3 DEF Fine, Exact, Signalled, Cascaded
-----------------------------------------------------------------------------
(* The start of an interrupt *)

\* what start_irq makes of its controller
Started(x, l) ==
  IF x.auto_eoi THEN [x EXCEPT !.irr = @ \ {l}]
  ELSE [x EXCEPT !.irr = @ \ {l}, !.active_irq = l, !.isr = @ \cup {l},
                 !.unordered = @ \/ x.special]

\* The interrupts that start are more important than those in service.
Nests(x, y) ==
  \A l \in y.isr \ x.isr : ~ y.unordered => \A k \in x.isr : l < k

LEMMA StartedFacts ==
  ASSUME NEW n \in Names, NEW x \in Controller(n), Remembers(x),
         NEW l, l = Lowest(Ready(x)), Ready(x) # {}, NEW y, y = Started(x, l)
  PROVE  /\ y \in Controller(n) /\ Remembers(y) /\ Nests(x, y)
         /\ y.irr = x.irr \ {l} /\ l \in x.irr
         /\ y.auto_eoi = x.auto_eoi /\ y.special = x.special
         /\ ~ x.auto_eoi /\ ~ x.special => Ready(y) = {}
<1>1. /\ Ready(x) \subseteq Possible(x) /\ Possible(x) \subseteq x.irr
      /\ Possible(x) \cap x.isr = {}
      /\ x.irr \subseteq 0 .. 7 /\ x.isr \subseteq 0 .. 7
  BY ReadyFacts
<1>2. l \in Ready(x) /\ (\A k \in Ready(x) : l <= k) /\ l \in Int
  <2>1. Ready(x) \subseteq 0 .. 7
    BY <1>1
  <2>2. l \in Ready(x) /\ \A k \in Ready(x) : l <= k
    BY <2>1, LowestFacts
  <2>3. QED
    BY <2>1, <2>2
<1>3. l \in Lines(n) /\ x.irr \subseteq Lines(n) /\ x.isr \subseteq Lines(n) /\ l \in x.irr
  BY <1>1, <1>2 DEF Controller
<1>4. CASE x.auto_eoi
  <2>1. /\ y \in Controller(n) /\ y.irr = x.irr \ {l} /\ y.isr = x.isr
        /\ y.active_irq = x.active_irq /\ y.unordered = x.unordered
        /\ y.auto_eoi = x.auto_eoi /\ y.special = x.special
    BY <1>3, <1>4 DEF Started, Controller
  <2>2. QED
    BY <1>3, <1>4, <2>1 DEF Remembers, Nests
<1>5. CASE ~ x.auto_eoi
  <2>1. /\ y \in Controller(n) /\ y.irr = x.irr \ {l} /\ y.isr = x.isr \cup {l}
        /\ y.active_irq = l /\ y.unordered = (x.unordered \/ x.special)
        /\ y.auto_eoi = x.auto_eoi /\ y.special = x.special /\ y.imr = x.imr
    BY <1>3, <1>5 DEF Started, Controller
  <2>2. ASSUME ~ y.unordered
        PROVE  \A k \in x.isr : l < k
    <3>1. ~ x.special /\ x.active_irq = Lowest(x.isr)
      BY <2>1, <2>2 DEF Remembers
    <3>2. l < Lowest(x.isr)
      BY <1>2, <3>1 DEF Ready
    <3>3. TAKE k \in x.isr
    <3>4. Lowest(x.isr) \in x.isr /\ Lowest(x.isr) <= k
      BY <1>1, LowestFacts
    <3>5. Lowest(x.isr) \in Int /\ k \in Int
      BY <1>1, <3>4
    <3>6. QED
      BY <1>2, <3>2, <3>4, <3>5
  <2>3. Nests(x, y)
    BY <2>1, <2>2 DEF Nests
  <2>4. Remembers(y)
    <3>1. ASSUME ~ y.unordered
          PROVE  l = Lowest(y.isr)
      <4>1. y.isr \subseteq 0 .. 7 /\ y.isr # {} /\ l \in y.isr
        BY <1>1, <1>2, <2>1
      <4>2. Lowest(y.isr) \in y.isr /\ Lowest(y.isr) <= l
        BY <4>1, LowestFacts
      <4>3. \A k \in y.isr : l <= k
        BY <1>1, <1>2, <2>1, <2>2, <3>1
      <4>4. Lowest(y.isr) \in Int
        BY <4>1, <4>2
      <4>5. QED
        BY <1>2, <4>2, <4>3, <4>4
    <3>2. QED
      BY <2>1, <3>1 DEF Remembers
  <2>5. ~ x.special => Ready(y) = {}
    <3>1. ASSUME ~ x.special, NEW k \in Ready(y)
          PROVE  FALSE
      <4>1. k \in x.irr /\ k \notin x.imr /\ k \notin x.isr /\ k # l /\ k < l
        BY <2>1, <3>1 DEF Ready, Possible
      <4>2. k \in Int /\ l < x.active_irq
        <5>1. l < x.active_irq
          BY <1>2, <3>1 DEF Ready
        <5>2. QED
          BY <1>1, <4>1, <5>1
      <4>3. x.active_irq \in Int
        BY LineFacts DEF Controller, NoLine, Names
      <4>4. k \in Ready(x)
        BY <1>2, <4>1, <4>2, <4>3 DEF Ready, Possible
      <4>5. QED
        BY <1>2, <4>1, <4>2, <4>4
    <3>2. QED
      BY <3>1
  <2>6. QED
    BY <1>3, <2>1, <2>3, <2>4, <2>5
<1>6. QED
  BY <1>4, <1>5

LEMMA StartIrqFacts ==
  ASSUME NEW c \in Pics, NEW l, NEW r
  PROVE  /\ r = StartIrq(c, "p", l) /\ Started(c.p, l) \in Controller("p") =>
              /\ r \in Pics /\ r.check = c.check
              /\ r.p = Started(c.p, l) /\ r.s = c.s
         /\ r = StartIrq(c, "s", l) /\ Started(c.s, l) \in Controller("s") =>
              /\ r \in Pics /\ r.check = c.check
              /\ r.s = Started(c.s, l) /\ r.p = c.p
<1>1. r = StartIrq(c, "p", l) =>
        r = [c EXCEPT !.p = Started(c.p, l)]
  BY DEF Pics, Controller, StartIrq, Started
<1>2. r = StartIrq(c, "s", l) =>
        r = [c EXCEPT !.s = Started(c.s, l)]
  BY DEF Pics, Controller, StartIrq, Started
<1>3. QED
  BY <1>1, <1>2 DEF Pics

\* PIC_runIRQs starts the most important line, of both controllers if it is
\* that of the cascade.
LEMMA RunIRQsStep ==
  ASSUME Fine(pics), RunIRQs
  PROVE  /\ Fine(pics') /\ IF_' \in BOOLEAN
         /\ Exact(pics) => Exact(pics')
         /\ Nests(pics.p, pics'.p) /\ Nests(pics.s, pics'.s)
<1> DEFINE l == Lowest(Ready(pics.p))
           k == Lowest(Ready(pics.s))
<1>1. /\ pics \in Pics /\ Remembers(pics.p) /\ Remembers(pics.s)
      /\ pics.p \in Controller("p") /\ pics.s \in Controller("s")
      /\ "p" \in Names /\ "s" \in Names
  BY DEF Fine, Pics, Names
<1>2. Ready(pics.p) \subseteq 0 .. 7 /\ Ready(pics.s) \subseteq 0 .. 7
  BY <1>1, ReadyFacts
<1>3. /\ l = NoLine <=> Ready(pics.p) = {}
      /\ k = NoLine <=> Ready(pics.s) = {}
      /\ l # NoLine => l \in Ready(pics.p)
  BY <1>2, LowestFacts DEF NoLine
<1> DEFINE d == CASE l = NoLine -> pics
                  [] l = Cascade /\ k = NoLine -> pics
                  [] l = Cascade /\ k # NoLine ->
                       StartIrq(StartIrq(pics, "s", k), "p", Cascade)
                  [] OTHER -> StartIrq(pics, "p", l)
<1>4. pics' = [d EXCEPT !.check = FALSE] /\ IF_' = (d = pics)
  BY DEF RunIRQs, Taken
<1>5. /\ l = NoLine => d = pics
      /\ l = Cascade /\ k = NoLine => d = pics
      /\ l = Cascade /\ k # NoLine =>
           d = StartIrq(StartIrq(pics, "s", k), "p", Cascade)
      /\ l # NoLine /\ l # Cascade => d = StartIrq(pics, "p", l)
  <2> HIDE DEF l, k
  <2>1. NoLine # Cascade
    BY DEF NoLine, Cascade
  <2>2. QED
    BY <2>1
<1> HIDE DEF l, k, d
<1>6. IF_' \in BOOLEAN
  BY <1>4
<1>7. ASSUME d \in Pics
      PROVE  pics' \in Pics /\ pics'.p = d.p /\ pics'.s = d.s
  BY <1>4, <1>7 DEF Pics
<1>8. CASE l = NoLine
  <2>1. pics' \in Pics /\ pics'.p = pics.p /\ pics'.s = pics.s
    BY <1>1, <1>5, <1>7, <1>8
  <2>2. QED
    BY <1>1, <1>3, <1>6, <1>8, <2>1 DEF Fine, Exact, Signalled, Cascaded, Nests
<1>9. CASE l = Cascade /\ k = NoLine
  <2>1. pics' \in Pics /\ pics'.p = pics.p /\ pics'.s = pics.s
    BY <1>1, <1>5, <1>7, <1>9
  <2>2. Cascade \in pics.p.irr
    BY <1>1, <1>3, <1>9, ReadyFacts DEF NoLine, Cascade
  <2>3. ~ Exact(pics)
    BY <1>3, <1>9, <2>2 DEF Exact, Cascaded
  <2>4. QED
    BY <1>1, <1>6, <2>1, <2>3 DEF Fine, Nests
<1>10. CASE l = Cascade /\ k # NoLine
  <2>1. Ready(pics.p) # {} /\ Ready(pics.s) # {}
    BY <1>3, <1>10 DEF NoLine, Cascade
  <2>2. PICK x : x = Started(pics.p, Cascade)
    OBVIOUS
  <2>3. PICK y : y = Started(pics.s, k)
    OBVIOUS
  <2>4. /\ x \in Controller("p") /\ Remembers(x) /\ Nests(pics.p, x)
        /\ x.irr = pics.p.irr \ {Cascade}
        /\ x.auto_eoi = pics.p.auto_eoi /\ x.special = pics.p.special
        /\ ~ pics.p.auto_eoi /\ ~ pics.p.special => Ready(x) = {}
    BY <1>1, <1>10, <2>1, <2>2, StartedFacts DEF l
  <2>5. /\ y \in Controller("s") /\ Remembers(y) /\ Nests(pics.s, y)
        /\ y.auto_eoi = pics.s.auto_eoi /\ y.special = pics.s.special
        /\ ~ pics.s.auto_eoi /\ ~ pics.s.special => Ready(y) = {}
    BY <1>1, <2>1, <2>3, StartedFacts DEF k
  <2>6. PICK e : e = StartIrq(pics, "s", k)
    OBVIOUS
  <2>7. e \in Pics /\ e.s = y /\ e.p = pics.p
    BY <1>1, <2>3, <2>5, <2>6, StartIrqFacts
  <2>8. d \in Pics /\ d.p = x /\ d.s = y
    BY <1>5, <1>10, <2>2, <2>4, <2>6, <2>7, StartIrqFacts
  <2>9. pics' \in Pics /\ pics'.p = x /\ pics'.s = y
    BY <1>7, <2>8
  <2>10. QED
    BY <1>6, <2>4, <2>5, <2>9 DEF Fine, Exact, Signalled, Cascaded
<1>11. CASE l # NoLine /\ l # Cascade
  <2>1. Ready(pics.p) # {}
    BY <1>3, <1>11
  <2>2. PICK x : x = Started(pics.p, l)
    OBVIOUS
  <2>3. /\ x \in Controller("p") /\ Remembers(x) /\ Nests(pics.p, x)
        /\ x.irr = pics.p.irr \ {l}
        /\ x.auto_eoi = pics.p.auto_eoi /\ x.special = pics.p.special
        /\ ~ pics.p.auto_eoi /\ ~ pics.p.special => Ready(x) = {}
    BY <1>1, <2>1, <2>2, StartedFacts DEF l
  <2>4. d \in Pics /\ d.p = x /\ d.s = pics.s
    BY <1>1, <1>5, <1>11, <2>2, <2>3, StartIrqFacts
  <2>5. pics' \in Pics /\ pics'.p = x /\ pics'.s = pics.s
    BY <1>7, <2>4
  <2>6. QED
    BY <1>1, <1>6, <1>11, <2>3, <2>5 DEF Fine, Exact, Signalled, Cascaded, Nests
<1>12. QED
  BY <1>8, <1>9, <1>10, <1>11

-----------------------------------------------------------------------------
(* The theorems *)

LEMMA DeviceStep ==
  ASSUME Fine(pics), IF_ \in BOOLEAN, Device
  PROVE  Step(pics, pics') /\ IF_' \in BOOLEAN
<1>1. ASSUME NEW n \in Names, NEW l \in Lines(n) \ (IF n = "p" THEN {Cascade} ELSE {}),
             PIC_ActivateIRQ(n, l) \/ PIC_DeActivateIRQ(n, l)
      PROVE  Step(pics, pics') /\ IF_' \in BOOLEAN
  <2>1. l \in Lines(n) /\ <<n, l>> # <<"p", Cascade>>
    OBVIOUS
  <2>2. IF_' \in BOOLEAN
    BY <1>1 DEF PIC_ActivateIRQ, PIC_DeActivateIRQ
  <2>3. CASE pics' = RaiseIrq(pics, n, l)
    BY <2>1, <2>2, <2>3, RaiseStep
  <2>4. CASE pics' = LowerIrq(pics, n, l)
    BY <2>1, <2>2, <2>4, LowerStep
  <2>5. QED
    BY <1>1, <2>3, <2>4 DEF PIC_ActivateIRQ, PIC_DeActivateIRQ
<1>2. ASSUME NEW n \in Names, NEW l \in Lines(n), NEW masked \in BOOLEAN,
             SetIRQMask(n, l, masked)
      PROVE  Step(pics, pics') /\ IF_' \in BOOLEAN
  <2>1. PICK m : /\ m = IF masked THEN pics[n].imr \cup {l} ELSE pics[n].imr \ {l}
                 /\ pics' = SetImr(pics, n, m)
    BY <1>2 DEF SetIRQMask
  <2>2. pics[n].imr \subseteq Lines(n)
    BY DEF Fine, Pics, Controller, Names
  <2>3. m \in SUBSET Lines(n)
    BY <2>1, <2>2
  <2>4. QED
    BY <1>2, <2>1, <2>3, MaskStep DEF SetIRQMask
<1>3. QED
  BY <1>1, <1>2 DEF Device
LEMMA GuestStep ==
  ASSUME Fine(pics), IF_ \in BOOLEAN, Guest
  PROVE  /\ Fine(pics') /\ IF_' \in BOOLEAN
         /\ AutoEoi = FALSE /\ Exact(pics) => Exact(pics')
         /\ pics'.p.isr \subseteq pics.p.isr /\ pics'.s.isr \subseteq pics.s.isr
<1> DEFINE Goal == /\ Fine(pics') /\ IF_' \in BOOLEAN
                   /\ AutoEoi = FALSE /\ Exact(pics) => Exact(pics')
                   /\ pics'.p.isr \subseteq pics.p.isr
                   /\ pics'.s.isr \subseteq pics.s.isr
<1>1. ASSUME Step(pics, pics'), UNCHANGED IF_
      PROVE  Goal
  BY <1>1 DEF Step
<1>2. ASSUME NEW n \in Names, NEW i \in Inits, WriteICW1(n, i[2], i[3])
      PROVE  Goal
  <2> DEFINE words == <<"ICW2">> \o (IF i[2] THEN <<>> ELSE <<"ICW3">>)
                                 \o (IF i[2] \/ i[3] THEN <<"ICW4">> ELSE <<>>)
  <2>1. PICK q : /\ q = SetImr(pics, n, {})
                 /\ pics' = [q EXCEPT ![n].icw = words] /\ UNCHANGED IF_
    BY <1>2 DEF WriteICW1
  <2>2. Step(pics, q)
    BY <2>1, MaskStep
  <2>3. words \in Seq({"ICW2", "ICW3", "ICW4"})
    <3>1. i[2] \in BOOLEAN /\ i[3] \in BOOLEAN
      BY Pic8259Assumption
    <3>2. QED
      BY <3>1, WordsFacts
  <2> HIDE DEF words
  <2>4. PICK a : a = q[n].auto_eoi
    OBVIOUS
  <2>5. a \in BOOLEAN /\ pics' = Worded(q, n, words, a)
    <3>1. q \in Pics
      BY <2>2 DEF Step, Fine
    <3>2. CASE n = "p"
      BY <2>1, <2>4, <3>1, <3>2 DEF Pics, Controller, Worded
    <3>3. CASE n = "s"
      BY <2>1, <2>4, <3>1, <3>3 DEF Pics, Controller, Worded
    <3>4. QED
      BY <3>2, <3>3 DEF Names
  <2>6. /\ Fine(pics') /\ pics'.p.isr = q.p.isr /\ pics'.s.isr = q.s.isr
        /\ Exact(q) /\ ~ a => Exact(pics')
    <3>1. Fine(q)
      BY <2>2 DEF Step
    <3>2. QED
      BY <2>3, <2>5, <3>1, WordStep
  <2>7. Exact(q) => ~ a
    BY <2>4 DEF Exact, Names
  <2>8. QED
    BY <2>1, <2>2, <2>6, <2>7 DEF Step
<1>3. ASSUME NEW n \in Names, NEW special \in BOOLEAN, WriteOCW3(n, special)
      PROVE  Goal
  BY <1>1, <1>3, SpecialStep DEF WriteOCW3
<1>4. ASSUME NEW n \in Names, NEW l, SpecificEOI(n, l)
      PROVE  Goal
  BY <1>1, <1>4, EoiStep DEF SpecificEOI
<1>5. ASSUME NEW n \in Names, NonspecificEOI(n)
      PROVE  Goal
  BY <1>1, <1>5, EoiStep DEF NonspecificEOI
<1>6. ASSUME NEW n \in Names, NEW masked \in SUBSET Lines(n), WriteMask(n, masked)
      PROVE  Goal
  BY <1>1, <1>6, MaskStep DEF WriteMask
<1>7. ASSUME NEW n \in Names, NEW auto \in BOOLEAN, auto => AutoEoi, WriteICW(n, auto)
      PROVE  Goal
  <2>1. pics \in Pics
    BY DEF Fine
  <2>2. /\ pics[n].icw \in Seq({"ICW2", "ICW3", "ICW4"}) /\ pics[n].icw # <<>>
        /\ pics[n].auto_eoi \in BOOLEAN
    BY <1>7, <2>1 DEF WriteICW, Pics, Controller, Names
  <2>3. PICK words : words = Tail(pics[n].icw)
    OBVIOUS
  <2>4. words \in Seq({"ICW2", "ICW3", "ICW4"})
    BY <2>2, <2>3
  <2>5. PICK a : a = IF Head(pics[n].icw) = "ICW4" THEN auto ELSE pics[n].auto_eoi
    OBVIOUS
  <2>6. pics' = Worded(pics, n, words, a) /\ UNCHANGED IF_
    <3>1. CASE n = "p"
      BY <1>7, <2>1, <2>3, <2>5, <3>1 DEF WriteICW, Pics, Controller, Worded
    <3>2. CASE n = "s"
      BY <1>7, <2>1, <2>3, <2>5, <3>2 DEF WriteICW, Pics, Controller, Worded
    <3>3. QED
      BY <3>1, <3>2 DEF Names
  <2>7. a \in BOOLEAN /\ (Exact(pics) /\ AutoEoi = FALSE => ~ a)
    BY <1>7, <2>2, <2>5 DEF Exact, Names
  <2>8. /\ Fine(pics') /\ pics'.p.isr = pics.p.isr /\ pics'.s.isr = pics.s.isr
        /\ Exact(pics) /\ ~ a => Exact(pics')
    BY <2>4, <2>6, <2>7, WordStep
  <2>9. QED
    BY <2>6, <2>7, <2>8
<1>8. QED
  BY <1>2, <1>3, <1>4, <1>5, <1>6, <1>7 DEF Guest

LEMMA InitFine ==
  ASSUME Init8259
  PROVE  Fine(pics) /\ IF_ \in BOOLEAN /\ Exact(pics)
<1> PICK enabled \in {{0}, {0, 1}} :
      pics = [p |-> Reset(Primary \ {0, 1}), s |-> Reset(Secondary \ enabled),
              check |-> FALSE]
  BY DEF Init8259
<1>1. Primary \ {0, 1} \subseteq Lines("p") /\ Secondary \ enabled \subseteq Lines("s")
  BY DEF Lines
<1>2. pics \in Pics
  BY <1>1 DEF Reset, Pics, Controller
<1>3. Ready(pics.p) = {} /\ Ready(pics.s) = {}
  BY DEF Reset, Ready, Possible
<1>4. Remembers(pics.p) /\ Remembers(pics.s)
  BY DEF Reset, Remembers, Lowest
<1>5. QED
  BY <1>2, <1>3, <1>4 DEF Init8259, Reset, Fine, Exact, Signalled, Cascaded

LEMMA NextStep ==
  ASSUME Fine(pics), IF_ \in BOOLEAN, [Next8259]_vars8259
  PROVE  /\ Fine(pics') /\ IF_' \in BOOLEAN
         /\ AutoEoi = FALSE /\ Exact(pics) => Exact(pics')
         /\ Nests(pics.p, pics'.p) /\ Nests(pics.s, pics'.s)
<1>1. CASE Device
  BY <1>1, DeviceStep DEF Step, Nests
<1>2. CASE Guest
  BY <1>2, GuestStep DEF Nests
<1>3. CASE RunIRQs
  BY <1>3, RunIRQsStep
<1>4. CASE UNCHANGED pics /\ IF_' \in BOOLEAN
  BY <1>4 DEF Nests
<1>5. QED
  BY <1>1, <1>2, <1>3, <1>4 DEF Next8259, vars8259, SetIF

\* A started interrupt interrupts only less important ones, whatever the guest
\* programs: also with automatic ends of interrupt.
THEOREM NestedKept == Spec8259 => Nested
<1> DEFINE Inv == Fine(pics) /\ IF_ \in BOOLEAN
<1>1. Init8259 => Inv
  BY InitFine
<1>2. Inv /\ [Next8259]_vars8259 => Inv'
  BY NextStep
<1>3. Inv /\ [Next8259]_vars8259 =>
        [\A x \in Names : \A l \in pics'[x].isr \ pics[x].isr :
           ~ pics'[x].unordered => \A k \in pics[x].isr : l < k]_vars8259
  BY NextStep DEF Nests, Names
<1> HIDE DEF Inv
<1>4. QED
  BY <1>1, <1>2, <1>3, PTL DEF Spec8259, Nested

\* Without automatic ends of interrupt, what the code keeps by hand is exact.
THEOREM ExactInvariance ==
  ASSUME AutoEoi = FALSE
  PROVE  Spec8259 => [](Fine(pics) /\ IF_ \in BOOLEAN /\ Exact(pics))
<1> DEFINE Inv == Fine(pics) /\ IF_ \in BOOLEAN /\ Exact(pics)
<1>1. Init8259 => Inv
  BY InitFine
<1>2. Inv /\ [Next8259]_vars8259 => Inv'
  BY NextStep
<1>3. QED
  BY <1>1, <1>2, PTL DEF Spec8259

\* PIC_IRQCheck is set while there is an interrupt that PIC_runIRQs would
\* start, with any lines, outside special mask mode.
THEOREM SignalKept ==
  ASSUME AutoEoi = FALSE
  PROVE  Spec8259 => []ReadyIsSignalled
<1>1. Exact(pics) => ReadyIsSignalled
  BY DEF Exact, Signalled, ReadyIsSignalled
<1>2. QED
  BY <1>1, ExactInvariance, PTL

\* The cascade line asks for exactly what the secondary controller has, so
\* that secondary_startIRQ always finds a line to start.
THEOREM CascadeKept ==
  ASSUME AutoEoi = FALSE
  PROVE  Spec8259 => []CascadeExact
<1>1. Fine(pics) /\ IF_ \in BOOLEAN /\ Exact(pics) => CascadeExact
  BY DEF Fine, Exact, Cascaded, CascadeExact, TypeOK8259, Pics
<1>2. QED
  BY <1>1, ExactInvariance, PTL
=============================================================================
