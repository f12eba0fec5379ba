------------------------------ MODULE Pic8259 ------------------------------
(***************************************************************************)
(* The two interrupt controllers (hardware/pic.cpp).  Devices raise and    *)
(* lower lines, the guest programs the controllers and acknowledges        *)
(* interrupts, and the emulation loop starts one when PIC_IRQCheck says    *)
(* that there is one.  The secondary controller is line 2 of the primary.  *)
(*                                                                         *)
(* The flag and the request bit of line 2 are kept by hand at each change, *)
(* and never computed from the registers: this is what can go wrong.       *)
(*                                                                         *)
(* As in the code, the functions nest: they are operators from the state   *)
(* of the controllers to their new state, and each outermost call is an    *)
(* action.  Left out: the register that a read returns, vectors, rotation  *)
(* (which the code does not implement) and the PCjr, whose line 6 cannot   *)
(* be masked.                                                              *)
(***************************************************************************)
EXTENDS Integers, Sequences

CONSTANTS
  Primary,    \* the lines of the primary controller that devices use
  Secondary,  \* the lines of the secondary controller
  Inits,      \* the first initialization words that the guest writes: which
              \* controller ("p", "s"), single mode, ICW4 announced
  AutoEoi     \* whether it may ask for automatic ends of interrupt

Cascade == 2
NoLine == 8

ASSUME Pic8259Assumption ==
  /\ Primary \subseteq 0 .. 7 /\ Cascade \notin Primary
  /\ Secondary \subseteq 0 .. 7
  /\ Inits \subseteq {"p", "s"} \X BOOLEAN \X BOOLEAN
  /\ AutoEoi \in BOOLEAN

VARIABLES
  pics, \* the controllers: p, s, and PIC_IRQCheck
  IF_   \* the interrupt flag of the CPU

vars8259 == <<pics, IF_>>

Names == {"p", "s"}
Lines(x) == IF x = "p" THEN Primary \cup {Cascade} ELSE Secondary

Reset(masked) ==
  [irr |-> {}, isr |-> {}, imr |-> masked, active_irq |-> NoLine,
   special |-> FALSE, auto_eoi |-> FALSE,
   icw |-> <<>>,         \* the initialization words that are still expected
   unordered |-> FALSE]  \* history: a line was started in special mask mode
                         \* since the last end of interrupt

\* Timer, keyboard, cascade and clock are enabled, and on an EGA or better the
\* line 9.
Init8259 ==
  /\ \E enabled \in {{0}, {0, 1}} :
       pics = [p |-> Reset(Primary \ {0, 1}), s |-> Reset(Secondary \ enabled),
               check |-> FALSE]
  /\ IF_ = FALSE

-----------------------------------------------------------------------------
(* PIC_Controller *)

Possible(x) == (x.irr \ x.imr) \ x.isr

\* the lines that may interrupt what is in service
Ready(x) == {l \in Possible(x) : x.special \/ l < x.active_irq}

Lowest(S) == IF S = {} THEN NoLine ELSE CHOOSE l \in S : \A k \in S : l <= k

\* raise_irq of the primary controller, with activate
RaisePrimary(c, l) ==
  IF l \in c.p.irr THEN c
  ELSE LET up == [c EXCEPT !.p.irr = @ \cup {l}]
       IN  [up EXCEPT !.check = @ \/ l \in Ready(up.p)]

\* lower_irq of the primary controller, with check_for_irq
LowerPrimary(c, l) ==
  IF l \notin c.p.irr THEN c
  ELSE LET down == [c EXCEPT !.p.irr = @ \ {l}]
       IN  IF l \in Ready(c.p) THEN [down EXCEPT !.check = Ready(down.p) # {}]
           ELSE down

\* check_for_irq, with activate and deactivate
CheckForIrq(c, x) ==
  IF x = "p" THEN [c EXCEPT !.check = Ready(c.p) # {}]
  ELSE IF Ready(c.s) # {} THEN RaisePrimary(c, Cascade)
  ELSE LowerPrimary(c, Cascade)

\* raise_irq
RaiseIrq(c, x, l) ==
  IF x = "p" THEN RaisePrimary(c, l)
  ELSE LET up == [c EXCEPT !.s.irr = @ \cup {l}]
       IN  IF l \notin c.s.irr /\ l \in Ready(up.s)
             THEN RaisePrimary(up, Cascade) ELSE up

\* Mutant: the primary controller is not told.
LowerIrqAlone(c, x, l) ==
  IF x = "p" THEN LowerPrimary(c, l) ELSE [c EXCEPT !.s.irr = @ \ {l}]

\* lower_irq
LowerIrq(c, x, l) ==
  IF x = "p" THEN LowerPrimary(c, l)
  ELSE LET down == [c EXCEPT !.s.irr = @ \ {l}]
       IN  IF l \in Ready(c.s) THEN CheckForIrq(down, "s") ELSE down

\* set_imr: the check is only made when it may matter
SetImr(c, x, masked) ==
  LET changed == (c[x].imr \ masked) \cup (masked \ c[x].imr)
      new == [c EXCEPT ![x].imr = masked]
  IN  IF (c[x].irr \cap changed) \ c[x].isr # {} THEN CheckForIrq(new, x) ELSE new

\* Mutant: the lines that the primary controller has left are not looked for.
AfterEoiNoCheck(c, x) ==
  LET new == [c EXCEPT ![x].active_irq = Lowest(c[x].isr), ![x].unordered = FALSE]
  IN  IF x = "s" /\ Possible(new[x]) # {} THEN CheckForIrq(new, x) ELSE new

\* Mutant: no line is active any more.
AfterEoiNoneActive(c, x) ==
  LET new == [c EXCEPT ![x].active_irq = NoLine, ![x].unordered = FALSE]
  IN  IF Possible(new[x]) # {} THEN CheckForIrq(new, x) ELSE new

\* Mutant: the line that was active stays so.
AfterEoiKeepsActive(c, x) ==
  LET new == [c EXCEPT ![x].unordered = FALSE]
  IN  IF Possible(new[x]) # {} THEN CheckForIrq(new, x) ELSE new

\* check_after_EOI, with update_active_irq
AfterEoi(c, x) ==
  LET new == [c EXCEPT ![x].active_irq = Lowest(c[x].isr), ![x].unordered = FALSE]
  IN  IF Possible(new[x]) # {} THEN CheckForIrq(new, x) ELSE new

\* start_irq
StartIrq(c, x, l) ==
  LET taken == [c EXCEPT ![x].irr = @ \ {l}]
  IN  IF c[x].auto_eoi THEN taken
      ELSE [taken EXCEPT ![x].active_irq = l, ![x].isr = @ \cup {l},
                           ![x].unordered = @ \/ c[x].special]

-----------------------------------------------------------------------------
(* The devices *)

\* PIC_ActivateIRQ; a line is either of the primary or of the secondary
PIC_ActivateIRQ(x, l) == pics' = RaiseIrq(pics, x, l) /\ UNCHANGED IF_

\* PIC_DeActivateIRQ
PIC_DeActivateIRQ(x, l) == pics' = LowerIrq(pics, x, l) /\ UNCHANGED IF_

\* PIC_SetIRQMask
SetIRQMask(x, l, masked) ==
  /\ pics' = SetImr(pics, x, IF masked THEN pics[x].imr \cup {l}
                             ELSE pics[x].imr \ {l})
  /\ UNCHANGED IF_

-----------------------------------------------------------------------------
(* The guest programs a controller *)

\* write_command with ICW1.  In single mode ICW3 is not expected, but ICW4 is,
\* also when it was not announced.
WriteICW1(x, single, needs4) ==
  LET words == <<"ICW2">> \o (IF single THEN <<>> ELSE <<"ICW3">>)
                          \o (IF single \/ needs4 THEN <<"ICW4">> ELSE <<>>)
  IN  /\ pics' = [SetImr(pics, x, {}) EXCEPT ![x].icw = words]
      /\ UNCHANGED IF_

\* write_command with OCW3 that sets or resets the special mask mode
WriteOCW3(x, special) ==
  /\ pics' = CheckForIrq([pics EXCEPT ![x].special = special], x)
  /\ UNCHANGED IF_

\* write_command with OCW2, a specific end of interrupt
SpecificEOI(x, l) ==
  /\ pics' = AfterEoi([pics EXCEPT ![x].isr = @ \ {l}], x)
  /\ UNCHANGED IF_

\* write_command with OCW2, a nonspecific end of interrupt
NonspecificEOI(x) ==
  /\ pics[x].active_irq # NoLine
  /\ pics' = AfterEoi([pics EXCEPT ![x].isr = @ \ {pics[x].active_irq}], x)
  /\ UNCHANGED IF_

\* write_data: a mask
WriteMask(x, masked) ==
  /\ pics[x].icw = <<>>
  /\ pics' = SetImr(pics, x, masked)
  /\ UNCHANGED IF_

\* write_data: an initialization word, of which ICW4 has an effect
WriteICW(x, auto) ==
  /\ pics[x].icw # <<>>
  /\ pics' = [pics EXCEPT ![x].icw = Tail(@),
                          ![x].auto_eoi = IF Head(pics[x].icw) = "ICW4" THEN auto ELSE @]
  /\ UNCHANGED IF_

-----------------------------------------------------------------------------
(* The CPU *)

\* external: STI, CLI, POPF and IRET
SetIF(on) == IF_ # on /\ IF_' = on /\ UNCHANGED pics

\* The line that PIC_runIRQs starts.
Taken(c) == Lowest(Ready(c.p))

\* PIC_runIRQs, with primary_startIRQ and secondary_startIRQ.  CPU_HW_Interrupt
\* clears the interrupt flag.
RunIRQs ==
  LET l == Taken(pics)
      k == Lowest(Ready(pics.s))
      started == CASE l = NoLine -> pics
                   [] l = Cascade /\ k = NoLine -> pics
                   [] l = Cascade /\ k # NoLine ->
                        StartIrq(StartIrq(pics, "s", k), "p", Cascade)
                   [] OTHER -> StartIrq(pics, "p", l)
  IN  /\ IF_ /\ pics.check
      /\ pics' = [started EXCEPT !.check = FALSE]
      /\ IF_' = (started = pics)

-----------------------------------------------------------------------------

Device ==
  \E x \in Names :
    \/ \E l \in Lines(x) \ (IF x = "p" THEN {Cascade} ELSE {}) :
         PIC_ActivateIRQ(x, l) \/ PIC_DeActivateIRQ(x, l)
    \/ \E l \in Lines(x), masked \in BOOLEAN : SetIRQMask(x, l, masked)

Guest ==
  \E x \in Names :
    \/ \E i \in Inits : i[1] = x /\ WriteICW1(x, i[2], i[3])
    \/ \E special \in BOOLEAN : WriteOCW3(x, special)
    \/ \E l \in Lines(x) : SpecificEOI(x, l)
    \/ NonspecificEOI(x)
    \/ \E masked \in SUBSET Lines(x) : WriteMask(x, masked)
    \/ \E auto \in BOOLEAN : (auto => AutoEoi) /\ WriteICW(x, auto)

Next8259 ==
  \/ Device
  \/ Guest
  \/ RunIRQs
  \/ \E on \in BOOLEAN : SetIF(on)

Spec8259 == Init8259 /\ [][Next8259]_vars8259

\* The guest acknowledges interrupts and enables them again; while it does,
\* the loop gets to see it between two of its critical sections.
FairSpec8259 ==
  /\ Spec8259
  /\ \A x \in Names : WF_vars8259(NonspecificEOI(x))
  /\ WF_vars8259(SetIF(TRUE))
  /\ SF_vars8259(RunIRQs)

-----------------------------------------------------------------------------
(* Properties *)

Controller(x) ==
  [irr : SUBSET Lines(x), isr : SUBSET Lines(x), imr : SUBSET Lines(x),
   active_irq : Lines(x) \cup {NoLine}, special : BOOLEAN, auto_eoi : BOOLEAN,
   icw : Seq({"ICW2", "ICW3", "ICW4"}), unordered : BOOLEAN]

\* Every register keeps its type.
TypeOK8259 ==
  /\ pics.p \in Controller("p") /\ pics.s \in Controller("s")
  /\ pics.check \in BOOLEAN
  /\ IF_ \in BOOLEAN

\* An interrupt that could be taken is never overlooked: whatever raised,
\* unmasked or uncovered it set PIC_IRQCheck, and nothing cleared it since.
\* In special mask mode the flag is cleared with other lines left.
ReadyIsSignalled == ~ pics.p.special /\ Ready(pics.p) # {} => pics.check

\* The request of the cascade line is what the secondary controller asks for:
\* it asks when it has a line to serve, and the primary never starts an
\* interrupt of it that is gone ("IRQ 2 is active, but IRQ is not active").
CascadeExact ==
  /\ TypeOK8259
  /\ ~ pics.s.special /\ Ready(pics.s) # {} => Cascade \in pics.p.irr
  /\ Cascade \in pics.p.irr => Ready(pics.s) # {}

\* A started interrupt, of the secondary controller as well, interrupts only
\* less important ones, although only the line that was active last is
\* remembered; unless one was started in special mask mode since the last end
\* of interrupt.
Nested ==
  [][\A x \in Names : \A l \in pics'[x].isr \ pics[x].isr :
       ~ pics'[x].unordered => \A k \in pics[x].isr : l < k]_vars8259

\* While lines wait for a guest that acknowledges and enables interrupts,
\* interrupts go on being started (outside special mask mode).
InterruptsGoOn ==
  \/ []<>(pics.p.special \/ pics.p.irr \ pics.p.imr = {})
  \/ []<><<RunIRQs /\ pics'.p.irr # pics.p.irr>>_vars8259
=============================================================================
