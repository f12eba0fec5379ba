----------------------------- MODULE PicEvents -----------------------------
(***************************************************************************)
(* The timer events of the machine and the budget of CPU cycles            *)
(* (hardware/pic.cpp, and the loop in dosbox.cpp that calls it).  Devices  *)
(* ask for a handler to be called after a delay.  PIC_RunQueue calls the   *)
(* handlers that are due and gives the CPU cycles until the next one; the  *)
(* last instruction may take more than is left.  A tick is CycleMax        *)
(* cycles.                                                                 *)
(*                                                                         *)
(* Indexes are fractions of a tick in the code.  Here they count parts of  *)
(* a cycle, Sub of them in one, so that an event can be due between two    *)
(* cycles, and the conversions to whole cycles truncate as they do there.  *)
(* A handler may add and remove events, with a delay that is not zero.     *)
(***************************************************************************)
EXTENDS Integers, Sequences, FiniteSets

CONSTANTS
  Events,         \* what can be scheduled: <<handler, value>>
  PIC_QUEUESIZE,  \* the entries
  CPU_CycleMax,   \* cycles in a tick
  Sub,            \* parts of a cycle in which indexes are counted
  Delays,         \* the delays that devices ask for, in these parts
  MaxInstruction, \* cycles that one instruction takes, with its I/O, at most
  IrqGrace,       \* cycles the CPU runs on when an interrupt is raised (2)
  MaxRaises       \* bound on the interrupts raised in one slice of the CPU

ASSUME PicAssumption ==
  /\ PIC_QUEUESIZE \in Nat \ {0} /\ CPU_CycleMax \in Nat \ {0}
  /\ Sub \in Nat \ {0}
  /\ \A e \in Events : Len(e) = 2
  /\ Delays \subseteq Nat \ {0}
  /\ MaxInstruction \in Nat \ {0} /\ IrqGrace \in Nat \ {0} /\ MaxRaises \in Nat

VARIABLES
  phase,   \* where the emulation thread is
  queue,   \* the list from next_entry on
  free,    \* the entries in the list from free_entry on
  serving, \* the entry whose handler is running, none outside
  left,    \* CPU_CycleLeft
  cycles,  \* CPU_Cycles
  raises   \* history: interrupts raised since the slice was given

vars == <<phase, queue, free, serving, left, cycles, raises>>
cpuVars == <<left, cycles>>

None == [event |-> <<>>]

Init ==
  /\ phase = "cpu"
  /\ queue = <<>>
  /\ free = PIC_QUEUESIZE
  /\ serving = None
  /\ left = CPU_CycleMax /\ cycles = 0
  /\ raises = 0

\* PIC_TickIndexND
TickIndexND == CPU_CycleMax - left - cycles

\* A conversion to an integer, which truncates towards zero.
Truncated(parts) == IF parts >= 0 THEN parts \div Sub ELSE - ((- parts) \div Sub)

-----------------------------------------------------------------------------
(* Adding and removing events *)

\* The list is searched for the first entry that is due later; the new one
\* goes before it.
Insert(e) ==
  \E n \in 0 .. Len(queue) :
    /\ \A i \in 1 .. n : queue[i].index <= e.index
    /\ n < Len(queue) => queue[n + 1].index > e.index
    /\ queue' = SubSeq(queue, 1, n) \o <<e>> \o SubSeq(queue, n + 1, Len(queue))

\* Mutant: the CPU keeps the cycles it has.
KeepSlice(next) == UNCHANGED cpuVars

\* The CPU is stopped if the first event comes before its slice ends.
ShortenSlice(next) ==
  IF Truncated(next.index - TickIndexND * Sub) < cycles
    THEN left' = left + cycles /\ cycles' = 0
    ELSE UNCHANGED cpuVars

\* The machine runs code that may use events: a handler, an instruction, a
\* command of the bridge, a tick handler, or host events at the border of a tick.
Busy == phase \in {"cpu", "handler", "border"}

\* PIC_AddEvent: in a handler the delay counts from when its event was due.
\* Without a free entry the event is dropped, which changes nothing.
AddEvent(e, delay) ==
  LET from == IF serving # None THEN serving.index ELSE TickIndexND * Sub
      entry == [event |-> e, index |-> from + delay]
  IN  /\ Busy
      /\ free > 0
      /\ free' = free - 1
      /\ Insert(entry)
      /\ ShortenSlice(Head(queue'))
      /\ UNCHANGED <<phase, serving, raises>>

\* The entries at the places kept stay in the list, in their order.
Keep(kept) ==
  /\ Busy
  /\ \E at \in [1 .. Cardinality(kept) -> kept] :
       /\ \A i, j \in DOMAIN at : i < j => at[i] < at[j]
       /\ queue' = [i \in DOMAIN at |-> queue[at[i]]]
  /\ free' = free + Len(queue) - Cardinality(kept)
  /\ UNCHANGED <<phase, serving, cpuVars, raises>>

\* PIC_RemoveEvents
RemoveEvents(h) == Keep({i \in DOMAIN queue : queue[i].event[1] # h})

\* PIC_RemoveSpecificEvents
RemoveSpecificEvents(e) == Keep({i \in DOMAIN queue : queue[i].event # e})

-----------------------------------------------------------------------------
(* The CPU *)

\* An instruction, its I/O included.
Instruction(n) ==
  /\ phase = "cpu" /\ cycles > 0
  /\ cycles' = cycles - n
  /\ UNCHANGED <<phase, queue, free, serving, left, raises>>

\* PIC_ActivateIRQ, for a line that is taken by the primary controller
ActivateIRQ ==
  /\ phase = "cpu" /\ raises < MaxRaises
  /\ raises' = raises + 1
  /\ IF cycles # 0
       THEN left' = left + cycles - IrqGrace /\ cycles' = IrqGrace
       ELSE UNCHANGED cpuVars
  /\ UNCHANGED <<phase, queue, free, serving>>

-----------------------------------------------------------------------------
(* PIC_RunQueue and TIMER_AddTick *)

\* The CPU core has come back, with its slice used up or to call a native
\* handler.
RunQueue ==
  /\ phase = "cpu"
  /\ left' = left + cycles /\ cycles' = 0
  /\ phase' = IF left + cycles <= 0 THEN "border" ELSE "serve"
  /\ UNCHANGED <<queue, free, serving, raises>>

Due == queue # <<>> /\ Head(queue).index <= TickIndexND * Sub

Serve ==
  /\ phase = "serve" /\ Due
  /\ serving' = Head(queue)
  /\ queue' = Tail(queue)
  /\ phase' = "handler"
  /\ UNCHANGED <<free, cpuVars, raises>>

\* Mutant: an entry is kept if its handler added events.
HandlerReturnsLeaky ==
  /\ phase = "handler"
  /\ serving' = None
  /\ free' = IF queue # <<>> /\ Head(queue).event = serving.event
               THEN free ELSE free + 1
  /\ phase' = "serve"
  /\ UNCHANGED <<queue, cpuVars, raises>>

\* The entry becomes free only now.
HandlerReturns ==
  /\ phase = "handler"
  /\ serving' = None
  /\ free' = free + 1
  /\ phase' = "serve"
  /\ UNCHANGED <<queue, cpuVars, raises>>

\* Mutant: an event within the next cycle gives the CPU no cycles.
SliceTruncated ==
  IF queue = <<>> THEN left
  ELSE LET n == Truncated(Head(queue).index - TickIndexND * Sub)
       IN  IF n < left THEN n ELSE left

\* The cycles until the next event, at least one, within the tick.
Slice ==
  IF queue = <<>> THEN left
  ELSE LET n == Truncated(Head(queue).index - TickIndexND * Sub)
           some == IF n = 0 THEN 1 ELSE n
       IN  IF some < left THEN some ELSE left

Resume ==
  /\ phase = "serve" /\ ~ Due
  /\ cycles' = Slice
  /\ left' = left - Slice
  /\ phase' = "cpu"
  /\ raises' = 0
  /\ UNCHANGED <<queue, free, serving>>

\* TIMER_AddTick
AddTick ==
  /\ phase = "border"
  /\ left' = CPU_CycleMax /\ cycles' = 0
  /\ queue' = [i \in DOMAIN queue |->
                 [queue[i] EXCEPT !.index = @ - CPU_CycleMax * Sub]]
  /\ phase' = "cpu"
  /\ UNCHANGED <<free, serving, raises>>

-----------------------------------------------------------------------------

Devices ==
  \E e \in Events :
    \/ \E d \in Delays : AddEvent(e, d)
    \/ RemoveEvents(e[1])
    \/ RemoveSpecificEvents(e)

Execute == \E n \in 1 .. MaxInstruction : Instruction(n)

Next ==
  \/ Devices
  \/ Execute
  \/ ActivateIRQ
  \/ RunQueue
  \/ Serve
  \/ HandlerReturns
  \/ Resume
  \/ AddTick

Spec == Init /\ [][Next]_vars

(***************************************************************************)
(* Fairness.  The loop goes on and handlers return.  Each time the CPU     *)
(* core is entered with cycles to use it executes an instruction, also     *)
(* when it comes back early: strong fairness, since the loop may be        *)
(* between two entries again and again.                                    *)
(***************************************************************************)
FairSpec ==
  /\ Spec
  /\ SF_vars(Execute)
  /\ WF_vars(RunQueue) /\ WF_vars(Serve) /\ WF_vars(HandlerReturns)
  /\ WF_vars(Resume) /\ WF_vars(AddTick)

-----------------------------------------------------------------------------
(* Properties *)

Entry == [event : Events, index : Int]

\* Every variable keeps its type; the CPU is only let run with cycles.
TypeOK ==
  /\ phase \in {"cpu", "serve", "handler", "border"}
  /\ queue \in Seq(Entry)
  /\ serving \in (IF phase = "handler" THEN Entry ELSE {None})
  /\ left \in Int /\ cycles \in Int
  /\ phase # "cpu" => cycles = 0
  /\ phase \in {"serve", "handler"} => left > 0
  /\ raises \in 0 .. MaxRaises

\* No entry of the fixed array leaks or is in two lists, however handlers
\* remove and add events while their own entry is in neither list: the queue
\* is full only when PIC_QUEUESIZE events are really scheduled or running.  Its
\* first entry is the first event due, which is all that PIC_RunQueue looks at,
\* also for events added from handlers that run late and across a tick.
QueueIntact ==
  /\ TypeOK
  /\ free + Len(queue) + (IF serving = None THEN 0 ELSE 1) = PIC_QUEUESIZE
  /\ \A i, j \in DOMAIN queue : i < j => queue[i].index <= queue[j].index

\* parts of a cycle by which an event can be late: what one instruction
\* exceeds its slice by, and more for each interrupt raised in the slice
MaxLate == MaxInstruction * Sub - 1 + raises * (MaxInstruction + IrqGrace - 1) * Sub

\* A handler is never called early, and no later than the instruction under
\* way takes, whoever shortened, used up or overran the slice of the CPU, and
\* whether or not a tick ended in between.
ServedInTime ==
  phase = "handler" => TickIndexND * Sub - serving.index \in 0 .. MaxLate

Scheduled(e) == \E i \in DOMAIN queue : queue[i].event = e

\* What has been scheduled is called or removed: an event is never stuck
\* behind others, behind the border of ticks or in a loop without cycles.
EventuallyCalled ==
  \A e \in Events : Scheduled(e) ~> serving.event = e \/ ~ Scheduled(e)
=============================================================================
