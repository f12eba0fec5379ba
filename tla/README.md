# dosbox-automation: a TLA+ verification project

dosbox-automation is a DOS emulator that can be driven from outside: an
embedded HTTP server exposes the emulated machine (memory, registers, ports,
input, screen, files, capture) and an embedded Lua engine runs scripts in step
with the emulated frames. This project models the parts of it where several
threads, timers or callbacks meet, checks the models with TLC and proves the
properties that matter most with TLAPS.

## 1. The system

Threads. One *emulation thread* runs `normal_loop` (`src/src/dosbox.cpp`): PIC
events, queued web commands, the CPU core, native DOS/BIOS handlers, and once
per displayed frame the frame hook. *HTTP worker threads* run the request
handlers. The *mixer thread* and the audio callback, the capture threads and
some sound-device threads exchange data with the emulation through `RWQueue`.

| Component | State it keeps | Operations | Interacts with |
|---|---|---|---|
| Command bridge (`webserver/bridge.cpp`) | queue of pointers to commands, mutex, condition variable | `ExecuteCommand` (worker), `ProcessRequests` (emulation) | every endpoint that touches the machine |
| Web server (`webserver/webserver.cpp`) | listening socket, session token, routes | start, stop, request dispatch, authentication | bridge, endpoints |
| Input replay (`webserver/input.cpp`) | two queues of events, replay flags, start frame | `ExecutePicBased`, `ExecuteFrameBased`, `pic_input_handler`, `ReplayDispatchFrame` | timer events, keyboard, mouse, end of frame |
| Input recording (`webserver/input.cpp`) | recording and paused flags, event list, base times | start, pause, stop, event hooks | keyboard, mouse, frame counter |
| Keyboard (`hardware/input/keyboard.cpp`) | eight scancodes, overflow latch, repetition, scan state | add key, transfer, repeat, commands of the guest, clear | 8042 controller |
| 8042 controller (`hardware/input/intel8042.cpp`) | byte buffer, data port, waiting bytes, delay timer, disabled flags | write command, write data, read data, add keyboard or mouse bytes | keyboard, mouse |
| Timer events (`hardware/pic.cpp`) | sorted list of events, free list of 512 entries | add, remove, run queue | all timed devices |
| Interrupt controllers (`hardware/pic.cpp`) | request, service and mask registers, `PIC_IRQCheck` | raise, lower, start, end of interrupt, initialization | all devices with interrupts, the CPU |
| `RWQueue` (`misc/rwqueue.cpp`) | bounded queue, running flag, two condition variables | enqueue, dequeue, bulk and nonblocking forms, start, stop, clear, resize | mixer, sound cards, MIDI, capture |
| Mixer (`audio/mixer.cpp`) | channels, master mutex, output queues, state | mixer thread, audio callback, lock and unlock, close | sound cards through `RWQueue`, emulation |
| Frame tap (`webserver/frame_tap.cpp`) | requested flag, delivered frame, raw frame of the renderer | `RequestAndWait` (worker), `Deliver` (emulation) | renderer |
| Freeze table (`webserver/freeze.cpp`) | frozen addresses and values | add, remove, clear, list, apply per frame | guest memory |
| Lua engine (`lua/*.cpp`) | script state, wait condition, deadlines | load, start, dispatch frame, reap, stop | bridge, end of frame, keyboard |
| Archive cache (`dos/archive/archive_cache.cpp`, `archive_lock.cpp`) | one directory per archive with record, members and lock file; trash | acquire, serve a member, end of a lease, clean up, purge | other engines through the file system, archive drives |
| Archive drives (`dos/drive_archive.cpp`, `dos/archive/`) | mounted trees, helper process | mount, open, read | DOS drives, archive cache |
| CPU, DOS, BIOS, video, sound hardware, front end | the emulated machine | sequential | each other, on the emulation thread |

`PROJECT.json` lists every component with its sources, also the ones that are
not modelled, and under `hazards` each place where the code can go wrong in a
way that a test would hardly reach.

### What is hard

* **Pointers across threads and timeouts.** A request handler waits with a
  timeout for a command that lives on its own stack, and the emulation thread
  has a pointer to it.
* **Recursion of the emulation loop.** Native DOS and BIOS handlers, and
  instructions that fault, run the loop again from inside.
* **Condition variables.** Notifications are given after the mutex is released;
  bulk operations compute a size, sleep, and use the size afterwards; owners
  stop and clear queues under their users.
* **Callbacks that nest.** A read of the keyboard controller notifies the
  keyboard, which puts a frame into the controller that is being read.
* **Chains of timer events**, of which each must schedule the next, and
  back-pressure against a buffer that empties itself when it overflows.
* **A lock held across a wait.** The mixer thread sleeps in the queue of a card
  with the mixer's mutex held, and the thread that fills the queue wants the
  mutex.
* **Processes that share a directory.** Engines coordinate through lock files,
  renames and a record alone, and may die between any two calls.
* **Summaries kept by hand.** `PIC_IRQCheck`, the cascade line, the free list of
  timer events and the flags of a script's wait say what other state already
  says, and every change has to keep them true.

### What makes the components correct

* Bridge: no pointer outlives its command; what a caller is told is what
  happened; every call returns; the order of calls is kept.
* `RWQueue`: items arrive once and in order; the capacity is kept; no thread
  sleeps beside work it could do; `Stop` ends every call.
* Controller and keyboard: the counts of waiting bytes are exact; nobody waits
  for somebody who waits for him; answers come before device data; an overflow
  ends.
* Replay: every accepted sequence arrives completely, in order, not early, and
  no key is dispatched into an overflow.
* Recording: a stop returns what the user typed since the start, and nothing of
  a replay.
* Frame tap: a request gets a frame of its own or times out, and no copy is
  forgotten or given to two.
* Timer events: no entry is lost, no handler is called early, none later than
  the instruction under way allows, and all are called.
* Interrupt controllers: no interrupt is overlooked; interrupts nest by their
  importance and go on.
* Mixer: nobody waits in a circle, every wait ends, no channel is used after it
  is gone, and no card is cut short without need.
* Lua scripts: a wait ends when its condition holds or its time is up, with the
  right answer; no typed key is lost.
* Archive cache: a mounted entry is not taken away, the cap holds, and what dead
  engines leave is removed.
* For the component still to be modelled: a freeze touches its own bytes only.

## 2. Modules

| Module | What it is |
|---|---|
| `CommandService` | abstract specification of what the bridge promises |
| `Bridge` | the bridge and the emulation loop that serves it |
| `RWQueue`, `RWQueueProofs` | the bounded queue; proofs |
| `I8042`, `I8042Proofs` | keyboard controller, keyboard and the mouse's side of the port; proofs |
| `InputReplay`, `InputReplayProofs` | replay of input sequences; proofs |
| `InputRecording` | extends `InputReplay` with the recording of input; proofs in `InputReplayProofs` |
| `FrameTap` | web requests for the picture, the tap and the present path |
| `WebServerProofs` | proofs about `Bridge` (its invariants, and that it implements `CommandService`) and `FrameTap` |
| `PicEvents` | timer events and the slices of CPU cycles between them |
| `Pic8259` | the two interrupt controllers |
| `PicProofs` | proofs about `PicEvents` and `Pic8259` |
| `Mixer`, `MixerProofs` | the threads of the sound output; proofs |
| `LuaScript`, `LuaScriptProofs` | the script engine; proofs |
| `ArchiveCache`, `ArchiveCacheProofs` | the store of unpacked archives, shared by engines that may die; proofs |
| `MCBridge`, `MCRWQueue`, `MCI8042`, `MCInputRecording`, `MCFrameTap`, `MCPicEvents`, `MCPic8259`, `MCMixer`, `MCLuaScript`, `MCArchiveCache` | the instances for TLC |

Two proof modules are about two components each and extend both, so the names of
`FrameTap` and `Pic8259` that every specification has (`InitTap`, `Spec8259` and so
on) carry a suffix.

Definitions marked *Mutant* stand before the definition they vary. Each is a
plausible mistake in the code; with it in place the property named in
`PROJECT.json` fails. No specification uses them.

### Bridge

Each element of `Commands` is one call of `ExecuteCommand` with its command
object. `queue`, `done`, `next` and `locked` are `Bridge::queue`,
`Command::done`, the iterator of `ProcessRequests` and whether the emulation
thread holds `mtx`. The worker's critical sections are single steps, since it
never sleeps or calls out inside one. `condition_variable::wait_for` is taken
apart: the deadline passes (`Deadline`), the wait ends with a timeout
(`Expire`), and only after the mutex has been got again the predicate is
evaluated (`TimeOut`), so that a batch can run in between; wakeups may be
spurious. The emulation thread is its call stack of loops, native handlers and
batches. A batch is one step per command. A command in `Faulting` may run the
machine in its middle. `MaxDepth` bounds the nesting of handlers; the code has
no bound.

The closing of the server is left out: `Bridge` has no operation for it.

### RWQueue

What is done under the mutex is one step (`PutChunk`, `TakeChunk`,
`PutAvailable`, `Start`, `Stop`, `Clear`, `Resize`), going to sleep is a step
(`WaitForRoom`, `WaitForItems`), and each notification is a step of its own,
because the code gives it after the unlock. The bulk calls are loops over
chunks; `num` is the size computed before a sleep and used after it. `Free`
keeps the unsigned wrap-around of `capacity - queue.size()`. Items are pairs of
producer and number, so that order, loss and duplication can be told apart.
The single-item calls are bulk calls of one item, and a move-only item is the
same as any other. `Uses` lists the ways in which the program uses a queue
(which calls its producer and its consumer make, which capacities it gets), and
a behaviour is of one of them.

### I8042

All static variables of the three files are fields of the record `s`, and each
function is an operator from record to record. That is the shape of the code:
the functions nest through callbacks, and every outermost call is one action. A
byte is its source and whether it may skip the delay; a scancode is its length.
Commands that differ only in the value they answer with are one. The nesting is
cut where the code cannot go deeper: inside a flush the buffer is empty, so a
notified device finds room without another flush (`I8042Assumption` states the
sizes for which this is so; the code's sizes, 64 bytes in the controller and
frames of a few bytes, satisfy it).

Left out: interrupt lines (the guest of the model may read at any moment), the
translation of scancodes, LEDs, A20 and reset, the VMware interface, and the
mouse's accumulation of movement (it has something to send or has not).

### InputReplay

`pic` and `frm` are the two queues of events, `chain` counts the scheduled
`pic_input_handler` events. `RenderFrame` is the increment of the frame counter
and the whole of `ReplayDispatchFrame`: the loop dispatches the longest prefix of
the queue that is due, within the limit, and finds room; `KbdAfter` is the
keyboard after a part of that prefix. The keyboard is reduced to how many
scancodes it holds, its latch and whether the controller is ready; `GuestReads`
stands for everything the guest does with the controller (module `I8042`).
`HostKey` is a key from anywhere else: the user, a script, a repetition. A key
that the keyboard ignores because its scanning is off is not considered, nor
are the delays between timer events: a scheduled event comes at some time. The
history `sent` has the events in the order in which they were dispatched.

### InputRecording

The requests that start, pause and stop a recording run on threads of the web
server. Their test (`Check`) and their change (`Start`, `Pause`) are two
critical sections in the code and two steps here; a start is done on the
emulation thread or withdrawn after a second (`StartTimesOut`, see `Bridge`).
`Hooked` is the hook in the keyboard; a replay dispatches its events with
`in_replay_dispatch` set. The history `log` has the keys and the pauses since
the last start. `Sessions` says which replays and requests come together. The
hooks of the mouse do what that of the keyboard does. Times in milliseconds, the
status query and the form of the answer are left out.

### FrameTap

A copy of the picture is the name of its buffer. A request goes through
`GetFrame` either to the tap (`Request`, `Take`, `TimeOutRequest`) or to the raw frame
(`GetShared`), then encodes and frees (`Answer`) or ends with an exception
(`Throw`; what it did not free is in `lost`). The emulation thread goes from
`EndUpdate` or `HostRate` through `MaybePresent`, `PresentFrame`, `LookAtRequest`
to `Deliver`, each a step, because the flag is read without the mutex in three
places. Pixels and encoders are left out, and so is a display that is off: the
request then times out.

### PicEvents

`queue` is the list of scheduled events, `free` the number of entries in the
free list, `serving` the entry whose handler runs and which is in neither,
`left` and `cycles` are `CPU_CycleLeft` and `CPU_Cycles`. `Execute` is an
instruction, which may take more cycles than are left; `Devices` is what a
device does from an instruction, `ActivateIRQ` the shortening of a slice by an
interrupt. `RunQueue` gives the cycles back and, with `Serve`, `HandlerReturns`
and `Resume`, is `PIC_RunQueue`; `AddTick` is `TIMER_AddTick` with the indexes
moved by one tick. The code's indexes are floating-point fractions of a tick;
the model counts `Sub` parts of a cycle and truncates where the code converts.
The number of cycles in a tick, which the automatic setting changes between
ticks, is constant. A handler that runs the machine recursively and a handler
that asks for a delay of 0 are left out.

### Pic8259

A controller is a record of its registers, `pics` has both and `check`, which
is `PIC_IRQCheck`. The functions of the code nest (the secondary controller
raises and lowers a line of the primary) and are operators from record to
record; each outermost call is an action. Left out: the register that a read
returns, vectors, rotation, which the code does not implement, and the PCjr.

### Mixer

Four threads. The main thread's operations (a tick, waking, halting, creating
and destroying a card, a MIDI message, mute, exit) are sequences of steps in
`prog`, because other threads run between their steps (`Steps` are what a step can
be); the recursive mutex is `holder` and `depth`. Of a queue the length and the
running flag are kept; that its sleepers are woken is shown for `RWQueue`. Of the
MIDI work queue each message is kept, with the frames it asks for: the time since
`last_rendered_ms`, in whole frames (`pending`; the fraction that rounding up adds is
left out). Two counters bound what the guest and real time allow: `lead` is the
emulated time by which the machine is ahead of the blocks pulled from the synthesizer
(at most `MaxLead`), `burst` the messages beyond one for each frame pulled (at most
`Burst`). `Fittings` are machines: which of cards, synthesizer, sound output and
capture they have, and the size of a block. The states On and Muted queue the same
number of frames. Samples, effects, fast-forward and the MIXER command are left out.

### LuaScript

All of it happens on the emulation thread. There is one action per branch of
`DispatchFrame`, one for the reaper of stalled waits, one per API call that
yields (possible while `inside` a resume), and one each for load, start and
stop. The screen shows the text waited for not, in another case, or exactly.
Deadlines in frames are absolute, as in the code; the wall-clock ceilings are
countdowns. The keyboard is its buffer of `Slots` scancodes, the byte in the
controller and the overflow latch; others type into it. The histories `call` and
`due` are the call the script is in and the keys the guest has still to read.
Assumed: the keyboard scans, is not in secure mode and its controller is not
flushed; a script makes no coroutines of its own and reads no memory that is
paged out.

### ArchiveCache

Engines are processes with one lease each. A lock belongs to the file that was
opened, everything else goes by the path; so directories are objects (`Dirs`),
`live` says which is at the path of an entry and `trash` which were moved away.
Every call of the file system that another engine could come between is a step:
opening a lock file (`OpenLock`, `NextEntry`) and locking it (`LockShared`,
`LockExclusive`), reading the record, clearing the members, the temporary file
of a record and its rename (`WriteTemp`, `RenameTemp`), the test for foreign
files, the rename into the trash and the deletion there (`Retire`, `RenameAway`,
`Remove`). `Serve`, `MeasureAgain`, `WritePart` and `FinishPart` are `MemberFile`
with `RoomFor` and `write_member`; `BeginCleanup` to `CleanupDone` are
`CleanupToFit`. `platform` decides two things: on Windows the lock is given back
before the rename, and a directory with an open file keeps its name. `Crash`
releases the locks of an engine and leaves its files, which then belong to
a member of `Corpses`, one for each death. `MaxMounts` and `MaxCrashes` are bounds of the model; `Dirs` has one
directory more than can be in use.

The age of an entry is recent or old, and evictions come in any order, where the
code takes the oldest first. Left out: scratch directories, archives that change
under their name, files of strangers, the tag, and several members in an archive.

## 3. Runs

| Run | Shows | Bounds |
|---|---|---|
| `Bridge` | `NoDanglingCommand`, `OutcomesExact`, `EveryCallReturns`, `ServiceSpec` (refinement) | three calls, one of which may fault, three frames of stack |
| `RWQueue` | order, counts, wakeups, capacity, `StopEndsCalls` | one producer, one consumer, calls of up to 3 items, 4 items; capacity 2 with blocking calls, 1 and 3 in turn as a card's queue |
| `I8042` | counts, readiness, no stall, `LatchReleased`, `AnswerFirst` | a key of two bytes, 7 bytes in the controller, one scancode in the keyboard, 11 commands, 8 data bytes |
| `InputRecording` | replay: completeness, order, room, earliness, end; recording: `StopReturnsRecording` | two timed and two framed sequences without requests; one with start, pause and stop; two starts, pause and stop without a replay; 2 keys of the user, 2 scancodes, 2 events per frame |
| `FrameTap` | `OneOwner`, `RequestEnds` | two requests at a time, six buffers, one exception |
| `PicEvents` | `QueueIntact`, `ServedInTime`, `EventuallyCalled` | three entries, three cycles per tick of two parts, delays of half a cycle and of more than a tick, instructions of up to two cycles, one interrupt per slice |
| `Pic8259` | `ReadyIsSignalled`, `CascadeExact`, `Nested`, `InterruptsGoOn` | line 3 of the primary controller, 0 and 1 of the secondary, no automatic end of interrupt |
| `Mixer` | `NoCircularWait`, `NoDanglingChannel`, `SilenceOnlyForALock`, `EveryWaitEnds` | three machines of two cards, synthesizer, output and capture; blocks of one and two frames, queues of one to three |
| `MixerDestroy` | *violation* of `NoCircularWait` | one card whose pointer is reset first |
| `LuaScript` | `WaitMatchesCall`, `KeysAccounted`, `ReturnsRight`, `TypeReturnsClean`, `StalledWaitEnds` | waits of 0 and 2 frames, four slots, a ceiling of 2, four frames |
| `ArchiveCache` | `WindowsKeepsEntry`, `CapNearlyHolds`, `UnusedEntriesGo` | two engines, one archive, two mounts (three on Windows), one death, both platforms, a cap of one member |
| `ArchiveRace` | *violation* of `LeaseKeepsEntry` | two engines, two mounts, no death, not Windows |

The type invariants of `Bridge` and `RWQueue` have theorems of their own; in the
other modules the type invariant is a conjunct of one of the invariants.

Why the bounds are enough. *Bridge*: three calls give a command that is first,
in the middle and last of a batch, with one timing out and one arriving
meanwhile; three frames of stack are a loop in a handler in a loop. *RWQueue*:
a call of 3 items does not fit a capacity of 2, so it takes two chunks and a
sleep; the program has one producer and one consumer on every queue. *I8042*:
7 bytes are the least that hold a frame of each device and the longest answer of
the keyboard, which is all that can come together (see the proof); one scancode is a keyboard that overflows on the
second key; the commands left out differ from one of the eleven only in what
they answer or in the port they disable. *InputRecording*: with 2 scancodes the
keyboard has the room that the test asks for only when it is empty, and with a
limit of 2 events per frame the limit is reached. Calls come in the frames up
to `MaxStart`, and `MaxFrame` leaves the last of their events a frame to be
dispatched in; the counter then stands still, frames go on. Two starts both pass
their test, and a pause comes between test and start. *FrameTap*: two requests
are one behind the other; six buffers are one for each place that can hold one,
one for the exception, and one more to be copied into. *PicEvents*: with three
entries the list is filled while one is being served; a delay of seven parts
is a whole tick and half a cycle. *Pic8259*: two lines on the secondary
controller nest there, and one on the primary is less important than both.
*Mixer*: a block of two frames is put into an output queue of three in two
parts, and needs two ticks of a card; a synthesizer that is a frame behind, with a
message more than there are frames, fills the work queue of two while the main thread
sends the next. *LuaScript*: four slots are what a shifted
character needs, so typing waits for an empty buffer; the timeouts end in and
between frames that can still be drawn. *ArchiveCache*: two engines are one that
cleans up and one that mounts, twice one after the other or both at once; with a
cap of one member, the member and what a dead engine has left of it are one too
many, and the entry is evicted. The two safety properties were checked by hand
with two archives on Windows as well (2.2 million states).

Deadlock is checked except where the system may stop: a fault blocks everyone
(`Bridge`), a queue whose items have all been used may be left alone (`RWQueue`),
the program exits (`Mixer`), the frames of a behaviour are used up (`LuaScript`).

### Fairness

* Bridge: a worker that can run does, and deadlines pass; a batch that was
  begun is worked off. Nothing is assumed about the emulation thread beginning
  one, so `EveryCallReturns` covers an emulation that hangs in a mount or has
  been shut down. It is stated for commands that do not fault.
* RWQueue: each thread that is inside a call and can go on does. New calls,
  `Stop`, `Start` and `Clear` are not fair.
* I8042: the guest reads what the controller shows it and the delay timers
  fire; nothing makes it write or a user type.
* InputRecording: timer events are run, frames are rendered, and the guest reads
  its keyboard. The keys of the user are bounded by `MaxHostKeys`; somebody who
  filled the keyboard for ever would hold a replay up for ever. Requests are not
  fair.
* FrameTap: the present path goes on, a worker that has its frame goes on, and
  one that waits for the mutex of the requests gets it in the end (strong
  fairness: others may come before it, again and again). No deadline has to pass.
* PicEvents: instructions are executed (strongly fair, because the loop leaves
  the CPU for the queue between them), handlers return, the loop goes on.
* Pic8259: the guest ends its interrupts and enables interrupts in the end; an
  interrupt that can be started again and again is.
* Mixer: each thread that can go on does; the mutex, which two threads take in
  turn, is got in the end by each; ticks go on while nothing else is under way.
  SDL need not ask for frames.
* ArchiveCache: an engine that has begun an operation goes on with it, unless it
  dies, and entries grow old. Nobody has to mount, to unmount or to clean up.
  `UnusedEntriesGo` is about an engine that cleans up again and again (the code
  does at each opening of the store and whenever it is full) after the others
  have become idle: two that clean up in step can keep each other's directories
  open on Windows for ever.
* LuaScript: time passes and the main loop looks for stalled waits. Frames, the
  guest and the script need not go on.

### What the violations show

* `MixerDestroy`: `mixer.cpp:275-279` says that locking stops the queues of the
  cards "to avoid a deadlock". The Tandy DAC and the PS/1 card are destroyed by
  resetting their global `unique_ptr`, which is null before the destructor locks
  the mixer; the lock then does not find the card's queue, and a mixer thread
  that sleeps in it with the mutex held waits for the thread that waits for the
  mutex.

* `ArchiveRace`: `archive_cache.h:114` promises "The entry for this archive, locked
  shared for the lease's life". `TryAcquire` opens the lock file and locks it
  without a look whether it is still the one at the path. A clean-up in between
  moves the directory away; if a third mount makes a new one, the first goes on
  there with a lock on a deleted file, and the next clean-up may take its files.
  A clean-up that is itself delayed between opening and locking can likewise
  retire a directory that it has not locked. Windows does not rename a directory
  with an open file, which `WindowsKeepsEntry` shows to be enough.

### Observations without a run

* `openapi.json:6` promises that endpoints run "atomically between emulated CPU
  steps". A command that faults (`paging.cpp:174`) runs the guest in its own
  middle, and the nested loop waits for a mutex its own thread holds. In the run
  `Bridge` this happens; `EveryCallReturns` excepts it.
* A plain byte written to port 60h that no command asked for enables the keyboard
  port before `flush_buffer` (`intel8042.cpp:1036`) samples whether the keyboard
  could send; the keyboard became ready without being told, and keeps dropping
  keys although the controller is empty, until the next event notifies it. With
  `Unsolicited = TRUE` the run `I8042` violates `NoStall`.
* Archive cache. An engine that dies between the temporary record and its rename
  leaves a file that `HoldsOnlyOurs` (`archive_cache.cpp:258`) takes for foreign:
  neither age nor a purge removes the entry (`UnusedEntriesGo` excepts it), and in
  the trash it stays too. Two first mounts at once both find no record, and the
  second deletes the members that the first has been served (`ReadRecord`,
  `ClearFiles`). Use does not make an entry young: only the end of a lease records
  it. `MakeScratch` and `SweepLeftovers` have the window of `ArchiveRace` too.

* `RWQueue::BulkEnqueue` gives one notification per chunk. With two sleeping
  consumers one would stay asleep beside an item; no queue of the program has two.
* `BulkDequeue` on a stopped queue that is not empty takes items, where
  `rwqueue.h:136` says that it returns 0 at once. A consumer that loops until
  it gets nothing so drains the queue before it ends.
* `Resize` below the contents makes `capacity - queue.size()` wrap in the
  blocking bulk enqueue. Only consumers of nonblocking producers resize.
* With 64 unread answers in the controller a read notifies the keyboard in its
  middle, the frame that comes flushes the buffer, and the read then goes on
  counting: `waiting_bytes_from_kbd` keeps a byte that is gone. The guest has to
  leave 64 answers unread, which only the commands that read the controller's RAM
  allow (`intel8042.cpp:806`), because they do not flush. With `"ReadRam"` among
  the `Commands` `WaitingExact` is violated; the theorems exclude it.
* After a read the controller waits for its delay also when the next byte is
  marked to skip it.
* A framed replay started between two frames dispatches the events of relative
  frames 0 and 1 in the same frame, because the counter is incremented before
  the first dispatch: recorded neighbours at the very start come together.
* A sequence that begins at frame 0 and time 0 is counted from its second event
  (`input.cpp:305`), and the distance between the two is lost: with such a
  sequence in `Body`, `NeverEarly` is violated. A recorded sequence begins at frame
  0 and time 0 only if its first key comes at the very start.
* `openapi.json:6` also says that endpoints "never run during native DOS
  functions"; `normal_loop` (`dosbox.cpp:127`) serves the queue also when a native
  handler runs it recursively.
* Recording. Two starts can both pass the test that should answer the second
  with "Already recording" (`openapi.json:847`), and the second discards what the
  first has recorded; a pause that comes after a stop answers "recording". Keys
  that the overflow latch drops are recorded, since the hook comes after
  `buffer_add` (`keyboard.cpp:687`). A held key was recorded with its repetitions,
  and the keyboard repeats the replayed key again.
* Frame tap. `GetFrame` (`video.cpp:261-265`) does not free its copy when the
  parameter `quality` is refused or an encoder throws. A request that comes
  between the reading of the pixels and `Deliver` gets a picture from just before
  it.
* Timer events. A handler that asks for a delay of 0 is called again at once, for
  ever. The cycles by which an instruction overruns a tick are forgotten at its
  border, so `PIC_FullIndex` can step back. A handler that schedules itself again
  while all entries are used is dropped, with a warning.
* Interrupt controllers. With automatic ends of interrupt, and in special mask
  mode, `PIC_IRQCheck` is cleared with lines left; when special mask mode ends,
  `active_irq` is not computed again; an ICW1 that announces no ICW4 still waits for
  one (`pic.cpp:214`).
* Mixer. `Gus::Reset` (`gus.cpp:1190-1193`) disables its channel and leaves its
  queue running: with `HaltOnly = {"gus"}` `EveryWaitEnds` is violated, as the mixer
  thread keeps the mutex until the card is used again. A MIDI work queue that is
  full can close a circle of main thread, renderer and mixer thread: with
  `WorkSize = 1` TLC finds it. `KeepsPace` (section 4) is the condition that excludes
  it, which `MCMixer` assumes of its machines. `CaptureAssumption` asks for a block of
  at least a tick, which a rate of 96000 Hz with a block of 64 does not meet. The audio callback can sleep when a
  mute clears its queue between `Size` and `BulkDequeue`; it wakes at the next block.
* Lua. In a coroutine made by the script a wait yields to the script and leaves
  its flag set. So does a wait or a `type` that cannot yield: the flag and the queue
  are set before `lua_yield` (`lua_api.cpp:241-242`, `584-588`), which raises an error
  when a C function is in between (a comparator of `table.sort`, a callback of
  `string.gsub`), and under `pcall` the script goes on with the flag set. Both are left
  out of the model: its scripts wait and type outside of such calls. A page fault in `mem_read` runs the machine inside a resume, and a
  nested frame, stop or load meets the running coroutine. While the guest has
  disabled scanning, `type` loses its keys without notice; an overflow by the user
  can lose the release of a shift key. The reaper answers `false` without a look at
  the screen. `wait_frames` has no ceiling by design.
* Freezes. The end of a frozen range (`freeze.cpp:103`) is a 32-bit sum that can
  wrap round.

## 4. Proofs

All proofs hold for every value of the constants that satisfies the named
assumptions (`BridgeAssumption`, `RWQueueAssumption`, `I8042Assumption`,
`ReplayAssumption`, `FrameTapAssumption`, `PicAssumption`, `Pic8259Assumption`,
`LuaAssumption`, `MixerAssumption`, `CaptureAssumption`, `CacheAssumption`). These
say what kind of values the constants are, and three times something about the
program: only queues whose producers never block are resized in use (the queues of
cards, `mixer.h:524`), the controller's buffer holds a frame of each device and the
longest answer, and a block of the mixer is at least a tick and fits the capture
queue. The runs evaluate them. Where a theorem needs more it says so in its ASSUME.

| Module | Theorem | Property | Beyond the assumptions |
|---|---|---|---|
| `WebServerProofs` | `TypeCorrect`, `NoDangling`, `Outcomes`, `Refinement` | `TypeOK`, `NoDanglingCommand`, `OutcomesExact`, `ServiceSpec` | |
| | `SingleOwner` | `OneOwner` | |
| `RWQueueProofs` | `TypeCorrect`, `ChunkFits`, `CapacityKept`, `Delivery` | `TypeOK`, `ChunkInRange`, `CapacityRespected`, `DeliveredAsTold` | |
| | `WakeupKept` | `NoLostWakeup` | one producer, one consumer |
| `I8042Proofs` | `CountersExact`, `AnswerComesFirst` | `WaitingExact`, `AnswerFirst` | no reading of the controller's RAM |
| | `NobodyStalls` | `NoStall` | and no parameter that was not asked for |
| `InputReplayProofs` | `ChainWhole`, `RoomForEveryKey`, `EveryEventOnceInOrder` | `OneHandler`, `NoKeyRefused`, `SentInOrder` | |
| | `NotBeforeItsFrame` | `OnTime`: no event before the frame that the code computes for it | |
| | `DistanceToTheFirst` | `NeverEarly` | no sequence begins at frame 0 and time 0 (`BeginsLater`) |
| | `RecordingKeepsReplay`, `ReplayBesideRecording` | `RecSpec` implements `Spec`, so the above hold beside a recording | |
| | `StopIsTheRecording` | `StopReturnsRecording` | |
| `PicProofs` | `Intact`, `InTime` | `QueueIntact`, `ServedInTime` | |
| | `NestedKept` | `Nested` | |
| | `SignalKept`, `CascadeKept` | `ReadyIsSignalled`, `CascadeExact` | no automatic end of interrupt |
| `MixerProofs` | `NoChannelDangles`, `SilenceForALockOnly` | `NoDanglingChannel`, `SilenceOnlyForALock` | |
| | `NoDeadlock` | `NoCircularWait` | no card resets its pointer first, and the work queue has room for the lead, a block and the burst (`KeepsPace`) |
| `LuaScriptProofs` | `NoWaitLeftBehind`, `RightReturns`, `NoTypedKeyLost`, `TypeComesBackClean` | `WaitMatchesCall`, `ReturnsRight`, `KeysAccounted`, `TypeReturnsClean` | |
| `ArchiveCacheProofs` | `LeaseSurvivesOnWindows`, `CapHoldsButForOthers` | `WindowsKeepsEntry`, `CapNearlyHolds` | |

Every invariant and every action property that a passing run checks has its
theorem.

The extra hypotheses are not artefacts of the proofs: without each of them TLC
finds the property violated (section 3, observations; with two consumers, and
likewise with two producers, `NoLostWakeup`).

**Induction over data.** The library's induction theorems take an operator, which
the provers here cannot instantiate. Where a proof needs induction, over the
length of a sequence or the size of a set, it goes through a set of numbers:
`LeastNumber` derives from the well-foundedness of `<` that a set of numbers has a
least one, and `SetInduction` follows. A recursive function is used through its
definition, as a CHOOSE, after a lemma that such a function exists.

**WebServerProofs, the bridge.** `IndInv` adds to `TypeOK`: the queue has no duplicates and
holds exactly the waiting commands that are not done, with those of the running
batch (`QueueInv`); within a batch the commands before the iterator are done and
outside a batch none is (`BatchInv`); `done` means executed, and nothing is
executed twice (`DoneInv`); the outcome agrees with `done` (`OutcomeInv`); a
batch on the stack holds the mutex, and there is at most one (`StackInv`).
`NoDanglingCommand` is not inductive by itself: that `TimeOut` removes the last
pointer needs that there is only one, which needs that a command enters the
queue once and leaves it before its `done` is set again. `Inductive` has one
lemma per action. From it follow `TypeCorrect`, `NoDangling`, `Outcomes`, and
`Refinement`: the pending commands of `CommandService` are the part of the queue
from the iterator on, so `Enqueue` submits, `ExecuteNext` executes, `TimeOut`
withdraws or succeeds, `Wake` succeeds, and everything else stutters.

**RWQueueProofs.** `IndInv` is `TypeOK`, the relation between the counters of a
call (`CallInv`), and `SleepInv`: only a chunk of one item is ever slept for,
since a chunk is clamped to what is available but at least one. This is why the
size computed before the sleep is right after it, whatever happened meanwhile:
`ChunkFits` would not be inductive without it.

`CapacityKept` adds `UseInv`: what a producer calls is among the operations of this
use of the queue, so that where producers may block the capacity never changes and
the queue never exceeds it. Only then does `capacity - queue.size()` not wrap, and
a chunk put after a sleep still fit. For `WakeupKept` the invariant says, for each of the two
conditions, that a sleeper beside a true condition has a notification before it:
the other thread is about to give it, or a call of `Stop` is. That one is enough
needs that there is one sleeper; it also needs that a thread that goes to sleep
has just found its condition false under the mutex. `Delivery` rests on a count
(`CountInv`): for each producer, what it was told and will be told of the call
under way equals what was delivered, is queued or was dropped; and on an order
(`OrderInv`): the numbers of its items increase from what was delivered through
what is queued, below its next one.

**I8042Proofs.** The functions of the code nest, so the lemmas are about the
operators on the record and the invariant has a form for the middle of a read:
`Sound(c, k, a)` says that the counters are exact but for the byte of the keyboard
(k) or of the mouse (a) that is being read and has been counted already; that what
is unread leaves room for a frame of every device that may send (`Load`); and that
a byte in the buffer is in the port or waits for a running timer (`Shown`). From
`Load` follows what makes the rest tractable: a device that the controller is
ready for always finds room, so `enforce_buffer_space` never flushes, and no
notification happens inside a notification. `NobodyStalls` adds `Lively`: what
waits is refused, and a dump that locks the devices out is not read yet. The
lemma about `NotifyDevices` compares readiness before and after, as the code
does. `AnswerComesFirst` follows from what `Put` does to the first byte.

**InputReplayProofs.** `ChainWhole`: `OneHandler` with the type of the queue is
inductive; a call starts a chain only if there is none, and the handler
schedules itself exactly when events are left. `RoomForEveryKey`: what passes
the test for two free slots, in the keyboard as the events before it left it,
is not dropped.

`EveryEventOnceInOrder` is about `Stream`, what was sent and then what is queued.
The invariant (`OrderInv`) is `SentInOrder` itself, said of the streams of the timed
and of the framed events: a dispatch moves a prefix over and leaves the stream as it
is, and an accepted call appends a block with all its numbers to a stream that had
none of them (`DispatchMoves`, `AddBlock`). How far a dispatch gets depends on the
keyboard after each event before, a recursive function (`AfterExists`).
`NotBeforeItsFrame` adds (`FrameInv`) that the replay is active exactly while framed
events are left, so that no call is accepted meanwhile, and that all of these belong
to a call that began in the frame the replay counts from. What the code promises is `OnTime`, the distance to
`FrameBase`, which is the first event unless the sequence begins at frame 0 and time
0; with `BeginsLater` it is `NeverEarly`.

`RecordingKeepsReplay`: each step of `InputRecording` is a step of `InputReplay` or
leaves its variables alone. `StopIsTheRecording` rests on `ActiveInv`: while a
recording is active its buffer matches the log since the last start, key by key,
with its base frame that of the log's first entry, and it is paused exactly if the
log has an odd number of pauses. This holds although a start, a pause and a stop
are tested in one critical section and done in another, since what each of them
does is right whatever the test found.

**WebServerProofs, the frame tap.** `OwnInv` says which phases of the request and of the
emulation thread own a buffer, that an owned buffer is in use and a buffer in use
is owned, and that no two of tap, renderer and requests own the same
(`TapInv`, `OwnedInUse`, `InUseOwned`, `OwnedOnce`). `OneOwner`, a cardinality, follows.

**PicProofs, timer events.** `QueueIntact` is inductive with the types. `ServedInTime` is
not: why an event cannot be missed is in `TimeInv`. No event is overdue by more
than `MaxLate` even while it is queued; while the CPU has cycles left its slice ends
within a cycle of the first event, but for what raised interrupts took away and
gave back; a tick ends only when its cycles are used up. Whatever schedules,
removes or serves an event, or shortens the slice, has to keep the relation between
the slice and the first entry; this is what `AddEvent` does when it cuts the slice.

**PicProofs, interrupt controllers.** `Remembers` says that `active_irq` is the most important line in
service, and `Signalled` and `Cascaded` what `check` and the cascade line have to be,
with `Exact` for both controllers in step. Each operator of the code is shown to
keep them for one controller; the actions follow by the cascade. Automatic ends of
interrupt leave `active_irq` behind, so that only `NestedKept` covers them.

**LuaScriptProofs.** `NoWaitLeftBehind` and `RightReturns`. `IndInv` is the types,
that the engine's frame number is up to date whenever a script runs
(`UpToDate`), that each deadline is the frame of the call plus what it asked for
(`Deadlines`), `WaitMatchesCall`, and that a resume is under way only in state
Running. `WaitMatchesCall` alone does not tell when a wait ends; the deadlines
have to belong to the call the script is in, and to have been computed from the
frame in which it was made.

`NoTypedKeyLost` is about the keyboard's buffer, the byte in the controller and the
script's queue together (`KeysInv`). The lemmas say what `Typed` and `StrokesOf`
make of an appended, a transferred and a read key, and that keys offered to a buffer
with room for a whole stroke are all taken. `TypeComesBackClean` follows: with nothing
left to type and the buffer empty, what is due is the byte in the controller.

**MixerProofs.** The main thread carries out its operations step by step, so an
invariant has to speak of the steps still to come. A `Knowledge` is what the main
thread can rely on before a step: how often it has the mutex, whether it has
stopped the queues, which card is without its pointer, what is disabled or gone.
`Allowed` is what a step needs to know and `After` what is known after it; each
operation of the code is shown to lead from one knowledge to the next (`Leads`), and
`PlanInv` says that the rest of the operation under way does, and that what is
known is true. With the relations between mutex, queues, channels and threads
(`LockInv`, `ChannelInv`, `CaptureInv`, `RenderInv`) this is inductive, one lemma per step.
`NoChannelDangles` follows because a channel is erased only with the mutex held;
`SilenceForALockOnly` because a queue is stopped only on the way to the mutex, and
started again before the mutex is released.

`NoDeadlock` needs two hypotheses. `ResetFirst = {}`: no card resets its pointer
before its destructor locks the mixer (`MixerDestroy` has the circle otherwise).
`KeepsPace`: the work queue has room for the messages by which real time lets the
synthesizer fall behind, `2 * MaxLead + Burst + blocksize <= WorkSize + 2`. `MaxLead`
bounds how far the emulated time is ahead of the blocks pulled, `Burst` how many
messages there are beyond one for each frame pulled; how the frames are spread over the
messages does not matter. For the program's values (a work queue of 10410 messages,
`midi.h:61`, a block of 1024 frames) and a machine that is at most 50 ms ahead, 2400
frames at 48 kHz, 4588 messages may come at once, beyond one for each frame pulled,
which are 48000 a second: the hundreds of messages in a few milliseconds that `midi.h:56` tells of are
well within. Only an emulation that runs away from real time, as in fast-forward, is
not. TLC shows that the bound is exact for blocks of one frame: with a work queue that
is one message shorter it finds the circle.

`PaceInv` says why. Let `acc[i]` be the frames rendered, being rendered and carried by
the first `i` messages of the work queue (`Backlog`; a running sum that is asserted to
exist, so that no induction over the queue is needed). The first part of `InTime`: all
these frames, with those of the message being sent and the time not yet asked for, are
no more than `Most`, the FIFO with twice the lead and a block, since a message carries
the emulated time since the last one (`last_rendered_ms`, `fluidsynth.cpp:940`) and the
time is only `MaxLead` ahead of what is pulled. The second: the messages behind the
`i`-th, counted one frame each, are below that bound but for the burst. A pull lowers
both sides (`Drain`); a renderer without work starts afresh one frame ahead
(`FreshStart`); the message that is queued is covered by the first part. So when the
renderer is stuck, with the FIFO full and a frame in its hands, the second part for
`i = 0` leaves a place in the work queue, and the main thread is not stuck behind it.
The circles that remain are excluded
case by case: whoever holds the mutex and waits does so for running queues, which
the main thread stops before it waits for the mutex.

**ArchiveCacheProofs.** `FsInv`: the entries have a directory each, none of which is
in the trash, and a directory that is neither holds no member; so a new directory
adds nothing to what is measured, and a file written in one entry adds nothing to
another. `EngineInv` says what each step of an engine finds in its own state.
`Keeps`, for Windows: what an engine has opened for a mount, from the opening of the
lock file to the end of the lease, is the directory at the path. It is kept because
only `RenameAway` takes a directory from its path, and not one with an open file;
the lease alone would not be inductive, since the lock is taken on a file that was
opened before. `CapNearlyHolds` counts the engines between the test and the write:
only `WritePart` adds to what is used, and then one engine fewer is between; only
`MeasureAgain` lets one more pass, and then there is room for it. A death leaves as
many parts as there were. The sum over all archives is handled by `SumBound`.

**Only model-checked.** Liveness (`EveryCallReturns`, `StopEndsCalls`,
`LatchReleased`, `ReplayEnds`, `RequestEnds`, `EventuallyCalled`, `InterruptsGoOn`,
`EveryWaitEnds`, `StalledWaitEnds`, `UnusedEntriesGo`), which the proof system does
not reach: it has no rules for fairness and `ENABLED`.

## 5. Plan

To be modelled: `Freeze` (32-bit sums, a table that changes while it is applied),
and the scratch directories of `ArchiveCache`.

An abstract specification worth stating: a queue as a sequence that `RWQueue`
implements.

## 6. Not modelled, and why

The instruction set, the FPU, video and sound synthesis, the DOS kernel, BIOS
services, configuration, shell and the front end are sequential and mostly data;
a model small enough for TLC would leave out what could be wrong in them. The
routes and the parsing of the web server are input and output around the bridge.
Vendored libraries (HTTP server, JSON, Lua, OPL and MT-32 emulation) are not this
program's code.

## 7. Checking

    tlc -config Bridge.cfg MCBridge
    tlapm WebServerProofs.tla

and likewise for the other runs and proof modules. The longest run takes about
three minutes, a proof module between half a minute and four.
