------------------------------- MODULE Mixer -------------------------------
(***************************************************************************)
(* Who waits for whom in the sound output (audio/mixer.cpp, the sound      *)
(* cards that run on the main thread, midi/fluidsynth.cpp).                *)
(*                                                                         *)
(*   main       runs the machine; on a tick each awake card puts frames    *)
(*              into its queue and the capture takes frames from its own;  *)
(*              sends messages to the synthesizer; reconfigures; exits     *)
(*   mixer      pulls a block from every channel under mixer.mutex, hands  *)
(*              it to the capture and, without the mutex, to final_output  *)
(*   callback   SDL's thread, takes frames from final_output               *)
(*   renderer   the synthesizer's thread, from work_fifo to the frame FIFO *)
(*                                                                         *)
(* Of a queue only its length and its running flag are kept: module        *)
(* RWQueue shows that its sleepers are woken.  A call takes or puts what   *)
(* it can and sleeps when that is nothing.                                 *)
(***************************************************************************)
EXTENDS Naturals, Sequences

CONSTANTS
  Cards,        \* the sound cards that run on the main thread
  ResetFirst,   \* those whose Destroy resets the pointer before it locks
  HaltOnly,     \* those that disable their channel and leave the queue running
  Fittings,     \* the machines: what they have (cards, "synth", "sdl",
                \* "capture") and the blocksize, the frames of one round
  TickFrames,   \* the frames of a tick
  OutputSize, CaptureSize, FifoSize, WorkSize,   \* the sizes of the queues
  MaxLead,      \* bound on the frames by which the machine's time is ahead of
                \* the blocks pulled from the synthesizer: real time
  Burst         \* bound on the MIDI messages beyond one for each frame pulled

Synth == "synth"
Channels == Cards \cup {Synth}
Threads == {"main", "mixer", "callback", "renderer"}

ASSUME MixerAssumption ==
  /\ Synth \notin Cards /\ ResetFirst \subseteq Cards /\ HaltOnly \subseteq Cards
  /\ Fittings \subseteq [has : SUBSET (Channels \cup {"sdl", "capture"}),
                          blocksize : Nat \ {0}]
  /\ {TickFrames, OutputSize, FifoSize, WorkSize, MaxLead} \subseteq Nat \ {0}
  /\ {CaptureSize, Burst} \subseteq Nat

\* One round of the mixer is enough for a tick of the capture, and fits.
ASSUME CaptureAssumption ==
  \A f \in Fittings :
    "capture" \in f.has => TickFrames <= f.blocksize /\ f.blocksize <= CaptureSize

\* The work queue has room for the messages by which the synthesizer may fall
\* behind: one for each frame of a block and of twice the lead, and the burst.
KeepsPace ==
  \A f \in Fittings :
    Synth \in f.has => 2 * MaxLead + Burst + f.blocksize <= WorkSize + 2

VARIABLES
  fitted,      \* the machine, one of Fittings
  \* the main thread
  prog,        \* the rest of the operation under way, step by step
  closing,     \* DOSBOX_DestroyModules
  linked,      \* the cards whose global pointer is set
  \* mixer.channels, and the queues the channels pull from
  channels, enabled, size, running,
  \* the rest of the mixer
  holder, depth,   \* mixer.mutex, a recursive one
  mixer,           \* the mixer thread: pc, channels to do, channel, frames
  quit,            \* thread_should_quit
  output, outputRunning, callback, capture,
  \* the synthesizer; pending is the time since last_rendered_ms, in frames
  work, workRunning, pending, renderer,
  lead, burst      \* what MaxLead and Burst bound

queues == <<channels, enabled, size, running>>
lock == <<holder, depth>>
out == <<output, outputRunning, callback>>
midi == <<work, workRunning, pending, renderer, lead, burst>>
vars == <<fitted, prog, closing, linked, queues, lock, mixer, quit, out,
          capture, midi>>

Fitted == fitted.has
Block == fitted.blocksize

Least(a, b) == IF a < b THEN a ELSE b

\* The cards size their queue to two blocks, the synthesizer by time.
Capacity(c) == IF c = Synth THEN FifoSize ELSE 2 * Block

Init ==
  /\ fitted \in Fittings
  /\ prog = <<>> /\ closing = FALSE /\ quit = FALSE
  /\ linked = Fitted \cap Cards
  /\ channels = Fitted \cap Channels /\ enabled = {}
  /\ size = [c \in Channels |-> 0] /\ running = [c \in Channels |-> TRUE]
  /\ holder = "none" /\ depth = 0
  /\ mixer = [pc |-> "loop", todo |-> {}, at |-> "none", rem |-> 0]
  /\ output = 0 /\ outputRunning = TRUE /\ callback = 0 /\ capture = 0
  /\ work = <<>> /\ workRunning = (Synth \in Fitted) /\ pending = 0 /\ lead = 0
  /\ burst = 0
  /\ renderer = [pc |-> IF Synth \in Fitted THEN "loop" ELSE "done", rem |-> 0]

-----------------------------------------------------------------------------
(* The operations of the main thread, as sequences of steps *)

Steps ==
  [op : {"stop", "start", "acquire", "release", "link", "unlink", "disable",
         "register", "erase", "halt", "stopWork", "stopFifo", "joinRenderer",
         "quit", "stopOutput", "joinMixer", "send", "ask", "take"},
   on : Channels, n : Nat]

Do(op) == <<[op |-> op, on |-> Synth, n |-> 0]>>
DoOn(op, c) == <<[op |-> op, on |-> c, n |-> 0]>>
DoN(op, n) == <<[op |-> op, on |-> Synth, n |-> n]>>

\* Mutant: the queues are not stopped.
LockOnly == Do("acquire")

LockMixerThread == Do("stop") \o Do("acquire")

\* Mutant: the mutex is given back first.
ReleaseFirst == Do("release") \o Do("start")

UnlockMixerThread == Do("start") \o Do("release")

DeregisterChannel(c) ==
  LockMixerThread \o DoOn("erase", c) \o UnlockMixerThread

Destructor(c) ==
  LockMixerThread \o DoOn("disable", c) \o DeregisterChannel(c)
  \o UnlockMixerThread

\* Some Destroy functions lock and then reset the pointer, which runs the
\* destructor; two reset the pointer, which is null when the destructor
\* locks.
Destroy(c) ==
  IF c \in ResetFirst THEN DoOn("unlink", c) \o Destructor(c)
  ELSE LockMixerThread \o DoOn("unlink", c) \o Destructor(c)
       \o UnlockMixerThread

\* The constructor locks, adds a channel (which locks again) and unlocks
\* before the pointer is set.
Create(c) ==
  LockMixerThread \o LockMixerThread \o DoOn("register", c)
  \o UnlockMixerThread \o UnlockMixerThread \o DoOn("link", c)

DestroySynth ==
  LockMixerThread \o DoOn("disable", Synth) \o Do("stopWork")
  \o Do("stopFifo") \o Do("joinRenderer") \o DeregisterChannel(Synth)
  \o UnlockMixerThread

\* A card stops playing: ReelMagic disables its channel and stops the queue,
\* a GUS that is reset only disables its channel.
Halt(c) ==
  DoOn("disable", c) \o IF c \in HaltOnly THEN <<>> ELSE DoOn("halt", c)

\* Mutant: final_output is not stopped.
CloseQuietly == Do("quit") \o Do("joinMixer")

CloseAudioDevice == Do("quit") \o Do("stopOutput") \o Do("joinMixer")

Idle == prog = <<>> /\ ~ quit

Begin(p) ==
  /\ Idle
  /\ prog' = p
  /\ UNCHANGED <<fitted, closing, linked, queues, lock, mixer, quit, out,
                 capture, midi>>

Reconfigure ==
  \/ ~ closing /\ Begin(LockMixerThread \o UnlockMixerThread)
  \/ \E c \in linked : Begin(Destroy(c))
  \/ ~ closing /\ \E c \in (Fitted \cap Cards) \ channels : Begin(Create(c))

HaltCard == ~ closing /\ \E c \in linked : c \in enabled /\ Begin(Halt(c))

\* The cards are destroyed before the synthesizer, and that before the mixer.
ShutDown ==
  /\ closing /\ linked = {}
  /\ Begin(IF Synth \in channels THEN DestroySynth ELSE CloseAudioDevice)

Exit ==
  /\ Idle /\ ~ closing
  /\ closing' = TRUE
  /\ UNCHANGED <<fitted, prog, linked, queues, lock, mixer, quit, out, capture,
                 midi>>

\* A register access: the channel is enabled again.
WakeUp ==
  /\ Idle /\ ~ closing
  /\ \E c \in linked \ enabled :
       /\ enabled' = enabled \cup {c}
       /\ running' = [running EXCEPT ![c] = TRUE]
  /\ UNCHANGED <<fitted, prog, closing, linked, channels, size, lock, mixer,
                 quit, out, capture, midi>>

\* Every card that is awake adds a tick of frames, as far as there is room;
\* then the capture asks how many frames there are.  For a synthesizer that is
\* awake time passes.
Tick ==
  /\ Idle /\ ~ closing
  /\ size' = [c \in Channels |->
                IF c \in linked \cap enabled /\ running[c]
                THEN Least(size[c] + TickFrames, Capacity(c)) ELSE size[c]]
  /\ prog' = IF "capture" \in Fitted THEN Do("ask") ELSE <<>>
  /\ LET n == IF Synth \in channels \cap enabled THEN Least(TickFrames, MaxLead - lead)
              ELSE 0
     IN  pending' = pending + n /\ lead' = lead + n
  /\ UNCHANGED <<fitted, closing, linked, channels, enabled, running, lock,
                 mixer, quit, out, capture, work, workRunning, burst, renderer>>

\* A message carries the frames to be rendered before it; it finds a channel
\* that slept awake again, and carries none then.
SendMidiMessage ==
  /\ Idle /\ ~ closing /\ Synth \in channels /\ burst < Burst
  /\ enabled' = enabled \cup {Synth}
  /\ prog' = DoN("send", IF Synth \in enabled THEN pending ELSE 0)
  /\ pending' = 0
  /\ burst' = burst + 1
  /\ UNCHANGED <<fitted, closing, linked, channels, size, running, lock, mixer,
                 quit, out, capture, work, workRunning, lead, renderer>>

\* MIXER_Mute discards what is queued; the mixer then queues silence instead.
Mute ==
  /\ Idle /\ ~ closing /\ "sdl" \in Fitted
  /\ output' = 0
  /\ UNCHANGED <<fitted, prog, closing, linked, queues, lock, mixer, quit,
                 outputRunning, callback, capture, midi>>

-----------------------------------------------------------------------------
(* The steps of the main thread *)

At(op) == prog # <<>> /\ Head(prog).op = op
Subject == Head(prog).on
Done == prog' = Tail(prog)

StopCards ==
  /\ At("stop") /\ Done
  /\ running' = [c \in Channels |-> running[c] /\ c \notin linked]
  /\ UNCHANGED <<fitted, closing, linked, channels, enabled, size, lock, mixer,
                 quit, out, capture, midi>>

StartCards ==
  /\ At("start") /\ Done
  /\ running' = [c \in Channels |-> running[c] \/ c \in linked]
  /\ UNCHANGED <<fitted, closing, linked, channels, enabled, size, lock, mixer,
                 quit, out, capture, midi>>

Acquire ==
  /\ At("acquire") /\ Done
  /\ holder # "mixer"
  /\ holder' = "main" /\ depth' = depth + 1
  /\ UNCHANGED <<fitted, closing, linked, queues, mixer, quit, out, capture,
                 midi>>

Release ==
  /\ At("release") /\ Done
  /\ depth' = depth - 1
  /\ holder' = IF depth = 1 THEN "none" ELSE "main"
  /\ UNCHANGED <<fitted, closing, linked, queues, mixer, quit, out, capture,
                 midi>>

ChangePointer ==
  /\ \/ At("link") /\ linked' = linked \cup {Subject}
     \/ At("unlink") /\ linked' = linked \ {Subject}
  /\ Done
  /\ UNCHANGED <<fitted, closing, queues, lock, mixer, quit, out, capture,
                 midi>>

\* A new card has a new queue, which is empty and runs.
ChangeChannel ==
  /\ \/ /\ At("disable")
        /\ enabled' = enabled \ {Subject}
        /\ UNCHANGED <<channels, size, running>>
     \/ /\ At("erase")
        /\ channels' = channels \ {Subject}
        /\ UNCHANGED <<enabled, size, running>>
     \/ /\ At("register")
        /\ channels' = channels \cup {Subject}
        /\ size' = [size EXCEPT ![Subject] = 0]
        /\ running' = [running EXCEPT ![Subject] = TRUE]
        /\ UNCHANGED enabled
     \/ /\ At("halt") \/ At("stopFifo")
        /\ running' = [running EXCEPT ![Subject] = FALSE]
        /\ UNCHANGED <<channels, enabled, size>>
  /\ Done
  /\ UNCHANGED <<fitted, closing, linked, lock, mixer, quit, out, capture,
                 midi>>

StopWork ==
  /\ At("stopWork") /\ Done
  /\ workRunning' = FALSE
  /\ UNCHANGED <<fitted, closing, linked, queues, lock, mixer, quit, out,
                 capture, work, pending, lead, burst, renderer>>

Join ==
  /\ \/ At("joinRenderer") /\ renderer.pc = "done"
     \/ At("joinMixer") /\ mixer.pc = "done"
  /\ Done
  /\ UNCHANGED <<fitted, closing, linked, queues, lock, mixer, quit, out,
                 capture, midi>>

CloseStep ==
  /\ \/ At("quit") /\ quit' = TRUE /\ UNCHANGED outputRunning
     \/ At("stopOutput") /\ outputRunning' = FALSE /\ UNCHANGED quit
  /\ Done
  /\ UNCHANGED <<fitted, closing, linked, queues, lock, mixer, output, callback,
                 capture, midi>>

\* work_fifo.Enqueue: sleeps while the queue is full.
EnqueueWork ==
  /\ At("send") /\ Done
  /\ Len(work) < WorkSize
  /\ work' = Append(work, Head(prog).n)
  /\ UNCHANGED <<fitted, closing, linked, queues, lock, mixer, quit, out,
                 capture, workRunning, pending, lead, burst, renderer>>

\* capture_callback: a tick of frames, or what the queue had when asked.
AskForSize ==
  /\ At("ask")
  /\ prog' = IF capture = 0 THEN <<>>
             ELSE DoN("take", Least(TickFrames, capture))
  /\ UNCHANGED <<fitted, closing, linked, queues, lock, mixer, quit, out,
                 capture, midi>>

TakeCapture ==
  /\ At("take") /\ capture > 0
  /\ LET n == Least(capture, Head(prog).n)
     IN /\ capture' = capture - n
        /\ prog' = IF n = Head(prog).n THEN <<>>
                   ELSE DoN("take", Head(prog).n - n)
  /\ UNCHANGED <<fitted, closing, linked, queues, lock, mixer, quit, out, midi>>

MainStep ==
  \/ StopCards \/ StartCards \/ Release \/ ChangePointer \/ ChangeChannel
  \/ StopWork \/ Join \/ CloseStep \/ EnqueueWork \/ AskForSize \/ TakeCapture

-----------------------------------------------------------------------------
(* The mixer thread *)

MixerAt(pc) == mixer.pc = pc

MixerLoop ==
  /\ MixerAt("loop")
  /\ mixer' = [mixer EXCEPT !.pc = IF quit THEN "done" ELSE "lock"]
  /\ UNCHANGED <<fitted, prog, closing, linked, queues, lock, quit, out,
                 capture, midi>>

\* The mixer thread between two channels
StillToMix(todo) == [pc |-> "mix", todo |-> todo, at |-> "none", rem |-> 0]

\* Mutant: the lock is given back before the channels are mixed.
MixUnlocked ==
  /\ MixerAt("lock") /\ holder = "none"
  /\ mixer' = StillToMix(channels)
  /\ UNCHANGED <<fitted, prog, closing, linked, queues, lock, quit, out,
                 capture, midi>>

MixerLocks ==
  /\ MixerAt("lock") /\ holder = "none"
  /\ holder' = "mixer" /\ depth' = 1
  /\ mixer' = StillToMix(channels)
  /\ UNCHANGED <<fitted, prog, closing, linked, queues, quit, out, capture,
                 midi>>

\* MixerChannel::Mix, channel after channel; a disabled one is passed over.
Mix ==
  /\ MixerAt("mix")
  /\ \E c \in mixer.todo :
       mixer' = IF c \in enabled
                THEN [pc |-> "pull", todo |-> mixer.todo \ {c}, at |-> c,
                      rem |-> Block]
                ELSE [mixer EXCEPT !.todo = @ \ {c}]
  /\ UNCHANGED <<fitted, prog, closing, linked, queues, lock, quit, out,
                 capture, midi>>

\* A channel that was woken half a second ago or more: to the synthesizer,
\* which every message wakes, nothing has been sent for many rounds, in which
\* all that was has been rendered.
MaySleep(c) == c = Synth => burst = 0 /\ work = <<>> /\ renderer.rem <= 1

\* The handler of a channel takes frames from the queue.  With the last one
\* the synthesizer notes the time, and a channel may fall asleep.
Pull ==
  /\ MixerAt("pull") /\ size[mixer.at] > 0
  /\ LET n == Least(size[mixer.at], mixer.rem)
         last == n = mixer.rem
     IN /\ size' = [size EXCEPT ![mixer.at] = @ - n]
        /\ mixer' = IF last THEN StillToMix(mixer.todo)
                    ELSE [mixer EXCEPT !.rem = @ - n]
        /\ enabled' \in {enabled} \cup
             IF last /\ MaySleep(mixer.at) THEN {enabled \ {mixer.at}} ELSE {}
        /\ IF last /\ mixer.at = Synth
           THEN /\ pending' = 0 /\ burst' = burst - Least(burst, Block)
                /\ lead' = IF enabled' = enabled THEN lead - Least(lead, Block) ELSE 0
           ELSE UNCHANGED <<pending, lead, burst>>
  /\ UNCHANGED <<fitted, prog, closing, linked, channels, running, lock, quit,
                 out, capture, work, workRunning, renderer>>

\* The queue was stopped: silence takes the place of the missing frames.
AddSilence ==
  /\ MixerAt("pull") /\ size[mixer.at] = 0 /\ ~ running[mixer.at]
  /\ mixer' = StillToMix(mixer.todo)
  /\ UNCHANGED <<fitted, prog, closing, linked, queues, lock, quit, out,
                 capture, midi>>

\* The end of mix_samples: a capture queue without room for the block is
\* cleared first.
MakeRoom ==
  /\ MixerAt("mix") /\ mixer.todo = {} /\ "capture" \in Fitted
  /\ capture' = IF capture + Block > CaptureSize THEN 0 ELSE capture
  /\ mixer' = [mixer EXCEPT !.pc = "record"]
  /\ UNCHANGED <<fitted, prog, closing, linked, queues, lock, quit, out, midi>>

Record ==
  /\ MixerAt("record")
  /\ capture' = Least(capture + Block, CaptureSize)
  /\ mixer' = [mixer EXCEPT !.pc = "unlock"]
  /\ UNCHANGED <<fitted, prog, closing, linked, queues, lock, quit, out, midi>>

\* Without sound the block is discarded and the thread naps.
MixerUnlocks ==
  /\ \/ MixerAt("unlock")
     \/ MixerAt("mix") /\ mixer.todo = {} /\ "capture" \notin Fitted
  /\ holder' = "none" /\ depth' = 0
  /\ mixer' = IF "sdl" \in Fitted THEN [mixer EXCEPT !.pc = "out", !.rem = Block]
              ELSE [mixer EXCEPT !.pc = "loop"]
  /\ UNCHANGED <<fitted, prog, closing, linked, queues, quit, out, capture,
                 midi>>

\* final_output.BulkEnqueue
PutOutput ==
  /\ MixerAt("out")
  /\ \/ /\ ~ outputRunning
        /\ mixer' = [mixer EXCEPT !.pc = "loop", !.rem = 0]
        /\ UNCHANGED output
     \/ /\ outputRunning /\ output < OutputSize
        /\ LET n == Least(OutputSize - output, mixer.rem)
           IN /\ output' = output + n
              /\ mixer' = [mixer EXCEPT !.rem = @ - n,
                                        !.pc = IF n = mixer.rem THEN "loop" ELSE "out"]
  /\ UNCHANGED <<fitted, prog, closing, linked, queues, lock, quit,
                 outputRunning, callback, capture, midi>>

MixerStep ==
  \/ MixerLoop \/ Mix \/ Pull \/ AddSilence \/ MakeRoom \/ Record
  \/ MixerUnlocks \/ PutOutput

-----------------------------------------------------------------------------
(* The audio callback and the renderer *)

\* SDL asks for a block: what the queue has at this moment will be taken.
Callback ==
  /\ "sdl" \in Fitted /\ callback = 0
  /\ callback' = Least(output, Block)
  /\ UNCHANGED <<fitted, prog, closing, linked, queues, lock, mixer, quit,
                 output, outputRunning, capture, midi>>

TakeOutput ==
  /\ callback > 0
  /\ \/ /\ output > 0
        /\ LET n == Least(output, callback)
           IN output' = output - n /\ callback' = callback - n
     \/ output = 0 /\ ~ outputRunning /\ callback' = 0 /\ UNCHANGED output
  /\ UNCHANGED <<fitted, prog, closing, linked, queues, lock, mixer, quit,
                 outputRunning, capture, midi>>

\* Render: with no work a frame is rendered ahead; otherwise the frames that a
\* message carries, and the message is played.
Render ==
  /\ renderer.pc = "loop"
  /\ IF ~ workRunning THEN renderer' = [pc |-> "done", rem |-> 0] /\ UNCHANGED work
     ELSE IF work = <<>> THEN renderer' = [pc |-> "put", rem |-> 1] /\ UNCHANGED work
     ELSE /\ work' = Tail(work)
          /\ renderer' = [pc |-> IF Head(work) > 0 THEN "put" ELSE "loop",
                          rem |-> Head(work)]
  /\ UNCHANGED <<fitted, prog, closing, linked, queues, lock, mixer, quit, out,
                 capture, workRunning, pending, lead, burst>>

\* audio_frame_fifo.BulkEnqueue
PutFrames ==
  /\ renderer.pc = "put"
  /\ \/ /\ ~ running[Synth]
        /\ renderer' = [pc |-> "loop", rem |-> 0] /\ UNCHANGED size
     \/ /\ running[Synth] /\ size[Synth] < FifoSize
        /\ LET n == Least(FifoSize - size[Synth], renderer.rem)
           IN /\ size' = [size EXCEPT ![Synth] = @ + n]
              /\ renderer' = [pc |-> IF n = renderer.rem THEN "loop" ELSE "put",
                              rem |-> renderer.rem - n]
  /\ UNCHANGED <<fitted, prog, closing, linked, channels, enabled, running,
                 lock, mixer, quit, out, capture, work, workRunning, pending,
                 lead, burst>>

Next ==
  \/ Reconfigure \/ HaltCard \/ ShutDown \/ Exit \/ WakeUp \/ Tick
  \/ SendMidiMessage \/ Mute \/ MainStep \/ Acquire
  \/ MixerStep \/ MixerLocks
  \/ Callback \/ TakeOutput
  \/ Render \/ PutFrames

Spec == Init /\ [][Next]_vars

\* Every thread goes on when it can, the machine ticks, an exit is carried
\* through, and whoever wants the mutex gets it in the end if it is given back
\* again and again.  SDL may stop asking for frames.
FairSpec ==
  /\ Spec
  /\ WF_vars(MainStep) /\ SF_vars(Acquire)
  /\ SF_vars(Tick)
  /\ WF_vars(closing /\ (Reconfigure \/ ShutDown))
  /\ SF_vars(MixerStep) /\ SF_vars(MixerLocks)
  /\ WF_vars(TakeOutput) /\ WF_vars(Render) /\ WF_vars(PutFrames)

-----------------------------------------------------------------------------
(* Properties *)

\* Who cannot go on before another thread has done something.
WaitsFor(t, u) ==
  CASE t = "main" /\ u = "mixer" ->
         \/ At("acquire") /\ holder = "mixer"
         \/ At("take") /\ capture = 0
         \/ At("joinMixer") /\ ~ MixerAt("done")
    [] t = "main" /\ u = "renderer" ->
         \/ At("send") /\ Len(work) >= WorkSize
         \/ At("joinRenderer") /\ renderer.pc # "done"
    [] t = "mixer" /\ u = "main" ->
         \/ MixerAt("lock") /\ holder = "main"
         \/ /\ MixerAt("pull") /\ mixer.at \in Cards
            /\ size[mixer.at] = 0 /\ running[mixer.at]
    [] t = "mixer" /\ u = "renderer" ->
         /\ MixerAt("pull") /\ mixer.at = Synth
         /\ size[Synth] = 0 /\ running[Synth]
    [] t = "mixer" /\ u = "callback" ->
         MixerAt("out") /\ outputRunning /\ output >= OutputSize
    [] t = "callback" /\ u = "mixer" ->
         callback > 0 /\ output = 0 /\ outputRunning
    [] t = "renderer" /\ u = "mixer" ->
         renderer.pc = "put" /\ running[Synth] /\ size[Synth] >= FifoSize
    [] OTHER -> FALSE

\* Every variable keeps its type and every queue its bound.
TypeOK ==
  /\ fitted \in Fittings
  /\ prog \in Seq(Steps)
  /\ closing \in BOOLEAN /\ quit \in BOOLEAN
  /\ linked \subseteq Fitted \cap Cards
  /\ channels \subseteq Fitted \cap Channels /\ enabled \subseteq Channels
  /\ size \in [Channels -> Nat] /\ running \in [Channels -> BOOLEAN]
  /\ \A c \in Channels : size[c] <= Capacity(c)
  /\ holder \in {"none", "main", "mixer"} /\ depth \in 0 .. 3
  /\ mixer \in [pc : {"loop", "lock", "mix", "pull", "record", "unlock", "out", "done"},
                todo : SUBSET Channels, at : Channels \cup {"none"}, rem : 0 .. Block]
  /\ output \in 0 .. OutputSize /\ outputRunning \in BOOLEAN
  /\ callback \in 0 .. Block
  /\ capture \in 0 .. CaptureSize
  /\ work \in Seq(0 .. MaxLead) /\ Len(work) <= WorkSize
  /\ workRunning \in BOOLEAN
  /\ lead \in 0 .. MaxLead /\ pending \in 0 .. lead /\ burst \in 0 .. Burst
  /\ renderer \in [pc : {"loop", "put", "done"}, rem : 0 .. MaxLead]

\* The threads never wait for each other in a circle: the main thread for the
\* mutex, for the work queue, for the capture or for the end of a thread, and
\* the mixer thread, meanwhile, for frames that the main thread alone makes
\* ("to avoid a deadlock").
NoCircularWait ==
  \A S \in (SUBSET Threads) \ {{}} : \E t \in S : \A u \in S : ~ WaitsFor(t, u)

\* The mixer thread is never in a channel that is gone, nor is one left to be
\* visited in this round: what it would read has been destroyed.
NoDanglingChannel ==
  /\ TypeOK
  /\ MixerAt("pull") => mixer.at \in channels
  /\ MixerAt("pull") \/ MixerAt("mix") => mixer.todo \subseteq channels

\* A card that plays is cut short only while the main thread is about to get
\* the mutex or has it: stopped queues run again before the mixer thread mixes again.
SilenceOnlyForALock ==
  [][AddSilence /\ mixer.at \in enabled => At("acquire") \/ holder = "main"]_vars

\* No wait lasts for ever, not even that of the callback that finds its queue
\* cleared; but the mixer thread waits as long as the host's sound card asks
\* for nothing, and the renderer as long as its channel sleeps.
EveryWaitEnds ==
  \A t \in Threads :
    []<>(\A u \in Threads :
           WaitsFor(t, u) => u = "callback" \/ (t = "renderer" /\ Synth \notin enabled))
=============================================================================
