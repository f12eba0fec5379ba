------------------------------- MODULE I8042 -------------------------------
(***************************************************************************)
(* The keyboard controller (hardware/input/intel8042.cpp) between the      *)
(* guest and two devices that call back into it: the keyboard with its     *)
(* buffer of scancodes (keyboard.cpp) and the PS/2 mouse                   *)
(* (mouseif_ps2_bios.cpp).                                                 *)
(*                                                                         *)
(* The static variables of the three files are the fields of one record,   *)
(* and a function of the code is an operator that maps it, because the     *)
(* functions nest: a flush of the controller notifies a device, which puts *)
(* a frame into the controller, which may flush it.  Inside a flush the    *)
(* buffer has just been emptied, so the devices then put their frames      *)
(* without a flush (PutKey, PutAux), and the nesting ends.                 *)
(*                                                                         *)
(* A byte is its source and the mark that lets it skip the delay; a        *)
(* scancode in the keyboard's buffer is its length.  Interrupt requests,   *)
(* translation, LEDs and the accesses of the VMware interface are left     *)
(* out: the guest of the model reads whenever it likes.                    *)
(***************************************************************************)
EXTENDS Integers, Sequences, FiniteSets

CONSTANTS
  Keys,           \* the lengths of the scancodes of the keys
  AuxLen,         \* the length of a frame of the mouse
  BufferSize,     \* bytes in the controller
  KeyBufferSize,  \* scancodes in the keyboard
  DumpLen,        \* bytes of a diagnostic dump
  Commands,       \* the bytes that the guest writes to port 0x64
  DataBytes,      \* the bytes that the guest writes to port 0x60
  Unsolicited     \* whether it sends parameters that no command asked for

Parameterized == {"WriteByteConfig", "SimulateInputKbd", "SimulateInputAux",
                  "WriteAux", "WriteRam"}

Answered == {"ReadByteConfig", "TestPortAux", "TestController", "TestPortKbd",
             "DiagnosticDump"}

PortCommands == {"DisablePortAux", "EnablePortAux", "DisablePortKbd",
                 "EnablePortKbd"}

PlainBytes == {"0", "1", "2"}

KbdCommands == {"SetLeds", "CodeSet", "Set3Key", "Echo", "Identify",
                "ClearEnable", "DefaultDisable", "Reset"}

\* What one flush may let in, and an answer of three bytes, fit.
ASSUME I8042Assumption ==
  /\ Keys \subseteq Nat \ {0} /\ Keys # {}
  /\ AuxLen \in Nat \ {0}
  /\ BufferSize \in Nat /\ KeyBufferSize \in Nat \ {0}
  /\ \A k \in Keys : AuxLen + k + 3 <= BufferSize
  /\ DumpLen \in 1 .. BufferSize
  /\ Commands \subseteq Parameterized \cup Answered \cup PortCommands \cup {"ReadRam"}
  /\ DataBytes \subseteq PlainBytes \cup KbdCommands
  /\ Unsolicited \in BOOLEAN

VARIABLE s

Init ==
  s = [ \* the controller
        buf |-> <<>>,         \* buffer
        new |-> FALSE,        \* is_data_new
        from |-> "none",      \* is_data_from_aux, is_data_from_kbd
        waitKbd |-> 0,        \* waiting_bytes_from_kbd
        waitAux |-> 0,        \* waiting_bytes_from_aux
        offKbd |-> FALSE,     \* is_disabled_kbd
        offAux |-> FALSE,     \* is_disabled_aux
        dump |-> FALSE,       \* is_diagnostic_dump
        timer |-> FALSE,      \* delay_running, the opposite of delay_expired
        cmd |-> "none",       \* current_command
        \* the keyboard
        keys |-> <<>>,        \* buffer
        latch |-> FALSE,      \* buffer_overflowed
        repeat |-> 0,         \* repeat.key
        scanning |-> TRUE,    \* is_scanning
        kbdCmd |-> "none",    \* current_command
        \* the mouse
        moved |-> FALSE,      \* has_data_for_frame
        auxTimer |-> FALSE,   \* delay_running, the opposite of delay_expired
        reporting |-> FALSE ] \* should_report()

-----------------------------------------------------------------------------
(* The buffer of the controller *)

IsReadyForKbdFrame(c) == c.waitKbd = 0 /\ ~ c.offKbd /\ ~ c.dump
IsReadyForAuxFrame(c) == c.waitAux = 0 /\ ~ c.offAux /\ ~ c.dump

\* a frame of the mouse, whose bytes after the first skip the delay, and
\* bytes that are added one at a time
AuxFrame == [i \in 1 .. AuxLen |-> [src |-> "aux", skip |-> i > 1]]
Bytes(src, n) == [i \in 1 .. n |-> [src |-> src, skip |-> src = "ctl"]]

\* Mutant: the byte that is in the data port is overwritten.
TransferOverwrites(c) ==
  IF c.buf = <<>> \/ (c.timer /\ ~ Head(c.buf).skip) THEN c
  ELSE [c EXCEPT !.buf = Tail(@), !.from = Head(c.buf).src,
                 !.new = TRUE, !.timer = TRUE]

\* maybe_transfer_buffer of the controller: a byte goes to the data port
Transfer(c) ==
  IF c.new \/ c.buf = <<>> \/ (c.timer /\ ~ Head(c.buf).skip) THEN c
  ELSE [c EXCEPT !.buf = Tail(@), !.from = Head(c.buf).src,
                 !.new = TRUE, !.timer = TRUE]

Disabled(c, src) == (src = "kbd" /\ c.offKbd) \/ (src = "aux" /\ c.offAux)

\* buffer_add for each byte.  Only the first call of maybe_transfer_buffer
\* can have an effect, and it looks at the head of the buffer only.
Put(c, bytes) ==
  LET src == Head(bytes).src
  IN  IF Disabled(c, src) THEN c
      ELSE Transfer([c EXCEPT
             !.buf = @ \o bytes,
             !.waitKbd = IF src = "kbd" THEN @ + Len(bytes) ELSE @,
             !.waitAux = IF src = "aux" THEN @ + Len(bytes) ELSE @])

-----------------------------------------------------------------------------
(* The devices send what they have *)

CanSendKey(c) == c.keys # <<>> /\ IsReadyForKbdFrame(c)
CanSendAux(c) == c.moved /\ ~ c.auxTimer /\ IsReadyForAuxFrame(c)

\* maybe_transfer_buffer of the keyboard and maybe_transfer_frame of the
\* mouse, into a buffer with room
PutKey(c) ==
  IF ~ CanSendKey(c) THEN c
  ELSE [Put(c, Bytes("kbd", Head(c.keys))) EXCEPT !.keys = Tail(@)]

PutAux(c) ==
  LET built == [c EXCEPT !.auxTimer = TRUE, !.moved = FALSE]
  IN  IF ~ CanSendAux(c) THEN c
      ELSE IF c.reporting THEN Put(built, AuxFrame) ELSE built

\* Mutant: the latch stays.
KeepLatch(c) == c

\* KEYBOARD_NotifyReadyForFrame, before it sends
ClearLatch(c) == [c EXCEPT !.latch = FALSE]

\* the comparisons of readiness before and after
BecameReadyKbd(old, c) == ~ IsReadyForKbdFrame(old) /\ IsReadyForKbdFrame(c)
BecameReadyAux(old, c) == ~ IsReadyForAuxFrame(old) /\ IsReadyForAuxFrame(c)

\* Mutant: the waiting bytes are not forgotten.
EmptiedKeepsCount(c) ==
  [c EXCEPT !.new = FALSE, !.from = "none", !.buf = <<>>, !.waitAux = 0]

\* flush_buffer with should_skip_device_notify
Emptied(c) ==
  [c EXCEPT !.new = FALSE, !.from = "none", !.buf = <<>>,
            !.waitAux = 0, !.waitKbd = 0]

\* flush_buffer
Flush(c) ==
  LET d == Emptied(c)
      e == IF BecameReadyAux(c, d) THEN PutAux(d) ELSE d
  IN  IF BecameReadyKbd(c, e) THEN PutKey(ClearLatch(e)) ELSE e

\* enforce_buffer_space
MakeRoom(c, n) == IF Len(c.buf) + n > BufferSize THEN Flush(c) ELSE c

\* I8042_AddKbdByte and I8042_AddAuxByte, for each byte, and I8042_AddAuxFrame
AddBytes(c, bytes) ==
  IF Disabled(c, Head(bytes).src) THEN c ELSE Put(MakeRoom(c, Len(bytes)), bytes)

\* The devices do not change and stay ready when room is made for them.
SendKey(c) == IF CanSendKey(c) THEN PutKey(MakeRoom(c, Head(c.keys))) ELSE c
NotifyKbd(c) == SendKey(ClearLatch(c))
NotifyAux(c) ==
  PutAux(IF CanSendAux(c) /\ c.reporting THEN MakeRoom(c, AuxLen) ELSE c)

\* The devices that the controller was not ready for in state old are told
\* when it is in state c.
NotifyDevices(old, c) ==
  LET d == IF BecameReadyAux(old, c) THEN NotifyAux(c) ELSE c
  IN  IF BecameReadyKbd(old, d) THEN NotifyKbd(d) ELSE d

-----------------------------------------------------------------------------
(* The keyboard *)

ClearKeys(c) == [c EXCEPT !.keys = <<>>, !.latch = FALSE, !.repeat = 0]

\* KEYBOARD_AddKey
AddKey(c, key, pressed) ==
  LET held == [c EXCEPT !.repeat = IF pressed THEN key
                                   ELSE IF @ = key THEN 0 ELSE @]
  IN  IF ~ c.scanning THEN c
      ELSE IF c.latch THEN held
      ELSE IF Len(c.keys) = KeyBufferSize
        THEN [held EXCEPT !.keys = <<>>, !.latch = TRUE]
        ELSE SendKey([held EXCEPT !.keys = Append(@, key)])

Reply(c, n) == AddBytes(c, Bytes("kbd", n))

\* execute_command(command)
RunKbdCommand(c, byte) ==
  CASE byte = "SetLeds" -> [Reply(c, 1) EXCEPT !.kbdCmd = byte]
    [] byte \in {"CodeSet", "Set3Key"} ->
         [ClearKeys(Reply(c, 1)) EXCEPT !.kbdCmd = byte]
    [] byte = "Echo" -> Reply(c, 1)
    [] byte = "Identify" -> Reply(c, 3)
    [] byte = "ClearEnable" -> [ClearKeys(Reply(c, 1)) EXCEPT !.scanning = TRUE]
    [] byte = "DefaultDisable" ->
         [ClearKeys(Reply(c, 1)) EXCEPT !.scanning = FALSE]
    [] byte = "Reset" ->
         Reply([ClearKeys(Reply(c, 1)) EXCEPT !.scanning = TRUE], 1)

\* execute_command(command, param); only the first scancode set is built in
RunKbdParameter(c, cmd, byte) ==
  CASE cmd = "SetLeds" -> Reply(c, 1)
    [] cmd = "CodeSet" /\ byte = "0" -> Reply(c, 2)
    [] cmd = "CodeSet" /\ byte = "1" -> Reply(ClearKeys(c), 1)
    [] cmd = "CodeSet" /\ byte = "2" -> Reply([c EXCEPT !.kbdCmd = cmd], 1)
    [] cmd = "Set3Key" -> ClearKeys(Reply(c, 1))

\* KEYBOARD_PortWrite
KbdPortWrite(c, byte) ==
  LET done == [c EXCEPT !.kbdCmd = "none"]
  IN  IF byte \in KbdCommands /\ c.kbdCmd # "Set3Key"
        THEN RunKbdCommand(done, byte)
      ELSE IF c.kbdCmd # "none" THEN RunKbdParameter(done, c.kbdCmd, byte)
      ELSE c

-----------------------------------------------------------------------------
(* The commands of the controller *)

\* Mutant: the flush notifies the devices, which send before the answer.
AnswerAfterDevices(c, n) == Put(Flush(c), Bytes("ctl", n))

Answer(c, n) == Put(Emptied(c), Bytes("ctl", n))

\* execute_command(command)
Execute(c, cmd) ==
  CASE cmd = "ReadByteConfig" -> Answer(c, 1)
    [] cmd = "TestPortAux" -> Answer([c EXCEPT !.offAux = TRUE], 1)
    [] cmd = "TestPortKbd" -> Answer([c EXCEPT !.offKbd = TRUE], 1)
    [] cmd = "TestController" ->
         Answer([c EXCEPT !.offAux = TRUE, !.offKbd = TRUE], 1)
    [] cmd = "DiagnosticDump" -> Answer([c EXCEPT !.dump = TRUE], DumpLen)
    [] cmd = "ReadRam" ->
         IF Len(c.buf) >= BufferSize THEN Emptied(c)
         ELSE Put(c, Bytes("ctl", 1))
    [] cmd = "DisablePortAux" -> [c EXCEPT !.offAux = TRUE]
    [] cmd = "EnablePortAux" -> [c EXCEPT !.offAux = FALSE]
    [] cmd = "DisablePortKbd" -> [c EXCEPT !.offKbd = TRUE]
    [] cmd = "EnablePortKbd" -> [c EXCEPT !.offKbd = FALSE]
    [] cmd \in Parameterized -> [c EXCEPT !.cmd = cmd]

\* MOUSEPS2_PortWrite: an acknowledgement alone, with the answer to a
\* command, or with the frame that the guest polls for
AuxPortWrite(c) ==
  {[AddBytes(c, [i \in 1 .. n |-> [src |-> "aux", skip |-> FALSE]])
      EXCEPT !.reporting = r] : n \in {1, 2}, r \in BOOLEAN}
    \cup {[AddBytes(AddBytes(c, SubSeq(AuxFrame, 1, 1)), AuxFrame)
             EXCEPT !.moved = FALSE]}

\* the bits of the configuration byte that disable the ports
WithConfig(c, kbd, aux) == [c EXCEPT !.offKbd = kbd, !.offAux = aux]

\* execute_command(command, param)
ExecuteParameter(c, cmd) ==
  CASE cmd = "WriteByteConfig" ->
         {WithConfig(c, kbd, aux) : kbd \in BOOLEAN, aux \in BOOLEAN}
    [] cmd = "SimulateInputKbd" -> {Put(Emptied(c), Bytes("kbd", 1))}
    [] cmd = "SimulateInputAux" -> {Put(Emptied(c), SubSeq(AuxFrame, 1, 1))}
    [] cmd = "WriteAux" -> AuxPortWrite([c EXCEPT !.timer = TRUE])
    [] cmd = "WriteRam" -> {c}

-----------------------------------------------------------------------------
(* The guest *)

\* The last byte of a diagnostic dump is about to be read.
FinishDump(c) ==
  LET over == [c EXCEPT !.dump = FALSE]
  IN  IF c.dump /\ c.buf = <<>> THEN NotifyDevices(c, over) ELSE c

CountAux(c) ==
  LET less == [c EXCEPT !.waitAux = @ - 1]
  IN  IF c.from # "aux" THEN c
      ELSE IF IsReadyForAuxFrame(less) THEN NotifyAux(less) ELSE less

CountKbd(c) ==
  LET less == [c EXCEPT !.waitKbd = @ - 1]
  IN  IF c.from # "kbd" THEN c
      ELSE IF IsReadyForKbdFrame(less) THEN NotifyKbd(less) ELSE less

\* read_data_port_byte; a read of an old byte changes nothing
ReadData ==
  /\ s.new
  /\ s' = [CountKbd(CountAux(FinishDump(s)))
             EXCEPT !.new = FALSE, !.from = "none", !.timer = TRUE]

\* write_command_port.  A dump that is under way is abandoned.
WriteCommand(cmd) ==
  LET started == IF s.dump THEN Emptied([s EXCEPT !.dump = FALSE]) ELSE s
      c == Execute([started EXCEPT !.cmd = "none"], cmd)
  IN  s' = NotifyDevices(s, c)

\* Mutant: nobody is notified after a parameter.
WriteParameterQuietly ==
  /\ s.cmd # "none"
  /\ s' \in ExecuteParameter(Emptied([s EXCEPT !.cmd = "none"]), s.cmd)

\* write_data_port: the parameter of a command
WriteParameter ==
  /\ s.cmd # "none"
  /\ \E c \in ExecuteParameter(Emptied([s EXCEPT !.cmd = "none"]), s.cmd) :
       s' = NotifyDevices(s, c)

\* write_data_port: a byte for the keyboard, whose port is enabled first
WriteKeyboard(byte) ==
  /\ s.cmd = "none"
  /\ byte \in PlainBytes /\ ~ Unsolicited => s.kbdCmd # "none"
  /\ LET c == Flush([s EXCEPT !.offKbd = FALSE])
     IN  s' = KbdPortWrite([c EXCEPT !.timer = TRUE], byte)

-----------------------------------------------------------------------------
(* The host and the timers *)

PressKey(key) == s' = AddKey(s, key, TRUE)
ReleaseKey(key) == s' = AddKey(s, key, FALSE)

\* typematic_tick, when the countdown is over
RepeatKey ==
  /\ s.repeat # 0
  /\ s.keys = <<>> /\ IsReadyForKbdFrame(s)
  /\ s' = AddKey(s, s.repeat, TRUE)

\* KEYBOARD_ClrBuffer
ClrBuffer == s' = ClearKeys(s)

\* MOUSEPS2_NotifyMoved, MOUSEPS2_NotifyButton, MOUSEPS2_NotifyWheel
MoveMouse == s' = NotifyAux([s EXCEPT !.moved = TRUE])

\* delay_handler of the controller and of the mouse
Delay ==
  /\ s.timer
  /\ s' = Transfer([s EXCEPT !.timer = FALSE])

AuxDelay ==
  /\ s.auxTimer
  /\ s' = NotifyAux([s EXCEPT !.auxTimer = FALSE])

GuestWrites ==
  \/ \E cmd \in Commands : WriteCommand(cmd)
  \/ WriteParameter
  \/ \E byte \in DataBytes : WriteKeyboard(byte)

Guest ==
  \/ ReadData
  \/ GuestWrites

Host ==
  \/ \E key \in Keys : PressKey(key) \/ ReleaseKey(key)
  \/ RepeatKey \/ ClrBuffer \/ MoveMouse

Next == Guest \/ Host \/ Delay \/ AuxDelay

Spec == Init /\ [][Next]_s

\* Timers expire, and the guest reads the bytes that it is given.
FairSpec == Spec /\ WF_s(ReadData) /\ WF_s(Delay)

-----------------------------------------------------------------------------
(* Properties *)

TypeOK ==
  /\ s.buf \in Seq([src : {"kbd", "aux", "ctl"}, skip : BOOLEAN])
  /\ Len(s.buf) <= BufferSize
  /\ s.new \in BOOLEAN
  /\ s.from \in (IF s.new THEN {"kbd", "aux", "ctl"} ELSE {"none"})
  /\ s.waitKbd \in Nat /\ s.waitAux \in Nat
  /\ s.cmd \in Parameterized \cup {"none"}
  /\ s.keys \in Seq(Keys) /\ Len(s.keys) <= KeyBufferSize
  /\ s.kbdCmd \in KbdCommands \cup {"none"}
  /\ s.repeat \in Keys \cup {0}

\* bytes of a source that the guest has not read yet
Unread(c, src) ==
  Cardinality({i \in DOMAIN c.buf : c.buf[i].src = src})
    + (IF c.new /\ c.from = src THEN 1 ELSE 0)

\* The counters by which the controller decides whether it is ready for a
\* device count the bytes of the device that the guest has not read, however
\* reads, flushes and frames nest (the asserts of read_data_port_byte).
WaitingExact ==
  /\ TypeOK
  /\ s.waitKbd = Unread(s, "kbd") /\ s.waitAux = Unread(s, "aux")

\* A device that has something to send is never left alone with a controller
\* that would take it: whatever made the controller ready told the device.
NotKeptWaiting ==
  /\ s.keys # <<>> => ~ IsReadyForKbdFrame(s)
  /\ s.moved /\ ~ s.auxTimer => ~ IsReadyForAuxFrame(s)

\* The controller refuses an enabled device only while there is a byte that
\* the guest can read, or that a running timer will show it: the guest can
\* always end the refusal, also that of a diagnostic dump it abandons.
RefusalEnds ==
  /\ (~ s.offKbd /\ ~ IsReadyForKbdFrame(s)) \/ (~ s.offAux /\ ~ IsReadyForAuxFrame(s))
       => s.new \/ s.buf # <<>>
  /\ s.buf # <<>> /\ ~ s.new => s.timer

\* Nobody waits for somebody who waits for him.
NoStall == NotKeptWaiting /\ RefusalEnds

\* what the guest reads next
First(c) == IF c.new THEN c.from ELSE IF c.buf = <<>> THEN "none" ELSE Head(c.buf).src

\* The byte that follows a command with an answer is the answer, also when
\* the command makes the controller ready for devices with frames to send.
AnswerFirst ==
  [][\A cmd \in Answered \cap Commands : WriteCommand(cmd) => First(s') = "ctl"]_s

\* Keys are not lost for ever: once the guest does nothing but read, an
\* overflow ends, while the keyboard is enabled and no diagnostic dump is on,
\* whatever the user types meanwhile.
LatchReleased ==
  <>[][~ GuestWrites]_s => []<>(~ s.latch \/ s.offKbd \/ s.dump)
=============================================================================
