----------------------------- MODULE LuaScript -----------------------------
(***************************************************************************)
(* The Lua script that drives the machine (lua/lua_coroutine.cpp,          *)
(* lua/lua_api.cpp, lua/lua_bridge_commands.cpp), all of it on the         *)
(* emulation thread.  A script runs as a coroutine that is resumed at the  *)
(* end of a video frame; wait_frames, wait_for_text and type leave it.     *)
(* Frames may stop coming, the guest may stop reading keys, and the main   *)
(* loop then ends a wait after a ceiling of wall-clock time.               *)
(*                                                                         *)
(* Kept of the data: how the screen shows the text that is waited for, and *)
(* the characters to be typed.  The keyboard scans and is not waiting for  *)
(* secure mode; the script makes no coroutines of its own, does not wait   *)
(* or type where Lua cannot yield (inside a C function's callback) and     *)
(* touches no memory that is paged out (see the README).                   *)
(***************************************************************************)
EXTENDS Naturals, Sequences, SequencesExt

CONSTANTS
  Texts,      \* the texts that a script types, sequences of characters
  Shifted,    \* the characters that need the shift key
  Unmapped,   \* the characters that no key makes
  Timeouts,   \* the numbers of frames that a script waits
  Slots,      \* the slots of the keyboard's buffer
  Ceiling,    \* the wall-clock ceiling of a wait
  MaxFrame    \* bound on the frames of a behaviour

Chars == UNION {{s[i] : i \in DOMAIN s} : s \in Texts}

ASSUME LuaAssumption ==
  /\ Texts \subseteq Seq(Chars)
  /\ Chars \cap {"shift", "other"} = {}    \* names of keys
  /\ Timeouts \subseteq Nat
  /\ Slots \in Nat /\ Slots >= 4    \* the strokes of a shifted character
  /\ Ceiling \in Nat \ {0} /\ MaxFrame \in Nat

VARIABLES
  frame,     \* rendered_frame_count
  screen,    \* the text waited for is shown: "no", "folded" (in another case), "exact"
  kbd,       \* the keyboard: its buffer, the byte in the controller, the latch
  loaded,    \* has_loaded_script
  state,     \* ScriptState
  inside,    \* a lua_resume is under way
  answer,    \* what the resume returns to the script
  current_frame,
  wait_until_frame,
  \* wait_for_text; text_wall and type_wall are the time left before the ceiling
  waiting_for_text, wait_text_ignorecase, wait_text_deadline, text_wall,
  \* type
  injecting_type, pending_keys, type_wall,
  \* history: the call that the script has not come back from, and the typed
  \* keys that the guest has still to read
  call, due

env == <<frame, screen, kbd>>
text == <<waiting_for_text, wait_text_ignorecase, wait_text_deadline, text_wall>>
typing == <<injecting_type, pending_keys, type_wall>>
waits == <<wait_until_frame, text, typing>>
vars == <<env, loaded, state, inside, answer, current_frame, waits, call, due>>

Active == {"Running", "Yielded"}
NoCall == [op |-> "none", at |-> 0, n |-> 0]

-----------------------------------------------------------------------------
(* The keyboard *)

Event(k, down) == [key |-> k, down |-> down]

\* One press or release is one slot.
Strokes(c) ==
  LET key == <<Event(c, TRUE), Event(c, FALSE)>>
  IN IF c \in Shifted
     THEN <<Event("shift", TRUE)>> \o key \o <<Event("shift", FALSE)>> ELSE key

StrokesOf(s) == FlattenSeq([i \in DOMAIN s |-> Strokes(s[i])])

\* maybe_transfer_buffer: the controller takes one when it has none.
Transferred(k) ==
  IF k.port = <<>> /\ k.buffer # <<>>
  THEN [k EXCEPT !.port = <<Head(k.buffer)>>, !.buffer = Tail(k.buffer)] ELSE k

\* A full buffer is discarded, with all that follows until the controller
\* has room.
AddKey(k, e) ==
  IF k.overflowed THEN k
  ELSE IF Len(k.buffer) = Slots THEN [k EXCEPT !.buffer = <<>>, !.overflowed = TRUE]
  ELSE Transferred([k EXCEPT !.buffer = Append(@, e)])

\* the keyboard after the events es, one after the other
AddKeys(k, es) ==
  LET after[i \in 0 .. Len(es)] ==
        IF i = 0 THEN k ELSE AddKey(after[i - 1], es[i])
  IN  after[Len(es)]

FreeSlots(k) == IF k.overflowed THEN 0 ELSE Slots - Len(k.buffer)
BufferEmpty(k) == ~ k.overflowed /\ k.buffer = <<>>

\* the elements of s that are not in T
Without(s, T) ==
  FlattenSeq([i \in DOMAIN s |-> IF s[i] \in T THEN <<>> ELSE <<s[i]>>])

\* a key from elsewhere, pressed or released
Other == Event("other", TRUE)

\* What the keyboard and the controller hold of typed keys
Typed(k) == Without(k.port \o k.buffer, {Other})

TextToStrokes(s) == Without(s, Unmapped)

\* Mutant: every stroke is taken to need two slots.
OfferTwo(acc, c) ==
  IF acc.left # <<>> \/ FreeSlots(acc.kbd) < 2
  THEN [acc EXCEPT !.left = Append(@, c)]
  ELSE [acc EXCEPT !.kbd = AddKeys(@, Strokes(c))]

\* A stroke goes to the keyboard only as a whole and in its turn.
Offer(acc, c) ==
  IF acc.left # <<>> \/ FreeSlots(acc.kbd) < Len(Strokes(c))
  THEN [acc EXCEPT !.left = Append(@, c)]
  ELSE [acc EXCEPT !.kbd = AddKeys(@, Strokes(c))]

DrainPendingKeys(k, keys) ==
  LET after[i \in 0 .. Len(keys)] ==
        IF i = 0 THEN [kbd |-> k, left |-> <<>>] ELSE Offer(after[i - 1], keys[i])
  IN  after[Len(keys)]

-----------------------------------------------------------------------------
(* The commands of the bridge *)

Init ==
  /\ frame = 0 /\ screen = "no"
  /\ kbd = [buffer |-> <<>>, port |-> <<>>, overflowed |-> FALSE]
  /\ loaded = FALSE /\ state = "Idle" /\ inside = FALSE /\ answer = "none"
  /\ current_frame = 0 /\ wait_until_frame = 0
  /\ waiting_for_text = FALSE /\ wait_text_ignorecase = FALSE
  /\ wait_text_deadline = 0 /\ text_wall = 0
  /\ injecting_type = FALSE /\ pending_keys = <<>> /\ type_wall = 0
  /\ call = NoCall /\ due = <<>>

\* Mutant: the typing is forgotten.
CleanupText ==
  /\ wait_until_frame' = 0
  /\ waiting_for_text' = FALSE /\ text_wall' = 0
  /\ UNCHANGED <<wait_text_ignorecase, wait_text_deadline, typing>>

Cleanup ==
  /\ wait_until_frame' = 0
  /\ waiting_for_text' = FALSE /\ text_wall' = 0
  /\ injecting_type' = FALSE /\ pending_keys' = <<>> /\ type_wall' = 0
  /\ UNCHANGED <<wait_text_ignorecase, wait_text_deadline>>

\* The interpreter is made anew; the source may not compile.
Load ==
  /\ ~ inside /\ state \notin Active
  /\ loaded' \in BOOLEAN
  /\ UNCHANGED <<env, state, inside, answer, current_frame, waits, call, due>>

\* The script runs from the next frame on.
Start ==
  /\ ~ inside /\ state \notin Active /\ loaded
  /\ Cleanup
  /\ state' = "Running" /\ current_frame' = 0
  /\ UNCHANGED <<env, loaded, inside, answer, call, due>>

Stop ==
  /\ ~ inside /\ state \in Active
  /\ Cleanup
  /\ state' = "Idle"
  /\ call' = NoCall /\ due' = Typed(kbd)
  /\ UNCHANGED <<env, loaded, inside, answer, current_frame>>

-----------------------------------------------------------------------------
(* The end of a frame *)

ResumeWith(result) ==
  /\ state' = "Running" /\ inside' = TRUE
  /\ answer' = result /\ call' = NoCall

StillWaiting == UNCHANGED <<state, inside, answer, call>>

NextFrame ==
  /\ ~ inside /\ frame < MaxFrame
  /\ frame' = frame + 1
  /\ UNCHANGED <<screen, loaded>>

FrameWithoutScript ==
  /\ NextFrame /\ state \notin Active
  /\ UNCHANGED <<kbd, state, inside, answer, current_frame, waits, call, due>>

\* Mutant: the frame is not noted before the script runs.
FrameStartsLate ==
  /\ NextFrame /\ state = "Running"
  /\ ResumeWith("none")
  /\ UNCHANGED <<kbd, current_frame, waits, due>>

\* A script that was started is resumed for the first time.
FrameStarts ==
  /\ NextFrame /\ state = "Running"
  /\ current_frame' = frame'
  /\ ResumeWith("none")
  /\ UNCHANGED <<kbd, waits, due>>

Found(ignorecase) == screen = "exact" \/ (ignorecase /\ screen = "folded")

\* CheckWaitForText: first the screen, then the two deadlines.
FrameChecksText ==
  /\ NextFrame /\ state = "Yielded" /\ waiting_for_text
  /\ current_frame' = frame'
  /\ LET found == Found(wait_text_ignorecase)
         late == current_frame' >= wait_text_deadline \/ text_wall = 0
     IN IF found \/ late
        THEN /\ waiting_for_text' = FALSE
             /\ ResumeWith(IF found THEN "true" ELSE "false")
        ELSE StillWaiting /\ UNCHANGED waiting_for_text
  /\ UNCHANGED <<kbd, wait_until_frame, wait_text_ignorecase,
                 wait_text_deadline, text_wall, typing, due>>

\* What is left to be typed is dropped; only the ceiling leaves any.
FinishTypeInjection(k) ==
  /\ injecting_type' = FALSE /\ pending_keys' = <<>>
  /\ ResumeWith("none")
  /\ due' = IF type_wall = 0 THEN Typed(k) ELSE due

\* Mutant: the guest need not have taken the keys from the buffer.
FrameTypesHasty ==
  /\ NextFrame /\ state = "Yielded" /\ ~ waiting_for_text /\ injecting_type
  /\ current_frame' = frame'
  /\ LET drained == DrainPendingKeys(kbd, pending_keys)
     IN /\ kbd' = drained.kbd
        /\ IF drained.left = <<>> \/ type_wall = 0 THEN FinishTypeInjection(kbd')
           ELSE /\ pending_keys' = drained.left
                /\ StillWaiting /\ UNCHANGED <<injecting_type, due>>
  /\ UNCHANGED <<wait_until_frame, text, type_wall>>

FrameTypes ==
  /\ NextFrame /\ state = "Yielded" /\ ~ waiting_for_text /\ injecting_type
  /\ current_frame' = frame'
  /\ LET drained == DrainPendingKeys(kbd, pending_keys)
         done == drained.left = <<>> /\ BufferEmpty(drained.kbd)
     IN /\ kbd' = drained.kbd
        /\ IF done \/ type_wall = 0 THEN FinishTypeInjection(kbd')
           ELSE /\ pending_keys' = drained.left
                /\ StillWaiting /\ UNCHANGED <<injecting_type, due>>
  /\ UNCHANGED <<wait_until_frame, text, type_wall>>

\* wait_frames, or a yield of the script's own
FrameCounts ==
  /\ NextFrame /\ state = "Yielded" /\ ~ waiting_for_text /\ ~ injecting_type
  /\ current_frame' = frame'
  /\ IF current_frame' < wait_until_frame THEN StillWaiting ELSE ResumeWith("none")
  /\ UNCHANGED <<kbd, waits, due>>

\* Mutant: the reaper knows one wait only.
ReapTextOnly ==
  /\ ~ inside /\ state = "Yielded"
  /\ waiting_for_text /\ text_wall = 0
  /\ waiting_for_text' = FALSE
  /\ ResumeWith("false")
  /\ UNCHANGED <<env, loaded, current_frame, wait_until_frame,
                 wait_text_ignorecase, wait_text_deadline, text_wall, typing, due>>

\* Between frames, in the main loop: only the wall-clock ceiling counts.
ReapStalledWaits ==
  /\ ~ inside /\ state = "Yielded"
  /\ \/ /\ waiting_for_text /\ text_wall = 0
        /\ waiting_for_text' = FALSE
        /\ ResumeWith("false")
        /\ UNCHANGED <<injecting_type, pending_keys, due>>
     \/ /\ ~ waiting_for_text /\ injecting_type /\ type_wall = 0
        /\ FinishTypeInjection(kbd)
        /\ UNCHANGED waiting_for_text
  /\ UNCHANGED <<env, loaded, current_frame, wait_until_frame,
                 wait_text_ignorecase, wait_text_deadline, text_wall, type_wall>>

-----------------------------------------------------------------------------
(* What the script does while it runs *)

Leave(op, n) ==
  /\ inside
  /\ inside' = FALSE /\ state' = "Yielded" /\ answer' = "none"
  /\ call' = [op |-> op, at |-> frame, n |-> n]
  /\ UNCHANGED <<env, loaded, current_frame>>

LuaWaitFrames ==
  /\ \E n \in Timeouts : Leave("frames", n) /\ wait_until_frame' = current_frame + n
  /\ UNCHANGED <<text, typing, due>>

\* If the text is on the screen already the call returns at once.
LuaWaitForText ==
  /\ \E n \in Timeouts, ignorecase \in BOOLEAN :
       /\ ~ Found(ignorecase)
       /\ Leave("text", n)
       /\ wait_text_ignorecase' = ignorecase
       /\ wait_text_deadline' = current_frame + n
  /\ waiting_for_text' = TRUE /\ text_wall' = Ceiling
  /\ UNCHANGED <<wait_until_frame, typing, due>>

\* With nothing that could be typed the call returns at once.
LuaType ==
  /\ \E s \in Texts :
       /\ TextToStrokes(s) # <<>>
       /\ pending_keys' = TextToStrokes(s)
       /\ due' = due \o StrokesOf(pending_keys')
  /\ Leave("type", 0)
  /\ injecting_type' = TRUE /\ type_wall' = Ceiling
  /\ UNCHANGED <<wait_until_frame, text>>

\* coroutine.yield()
LuaYield == Leave("yield", 0) /\ UNCHANGED <<waits, due>>

\* A key from elsewhere.  If the buffer overflows the typed keys in it are lost.
OtherKey ==
  /\ kbd' = AddKey(kbd, Other)
  /\ due' = IF kbd'.overflowed /\ ~ kbd.overflowed
            THEN Typed(kbd') \o StrokesOf(pending_keys) ELSE due

LuaKey ==
  /\ inside
  /\ OtherKey
  /\ UNCHANGED <<frame, screen, loaded, state, inside, answer, current_frame,
                 waits, call>>

\* The script returns, fails or goes beyond its limits.
ScriptEnds ==
  /\ inside
  /\ inside' = FALSE /\ answer' = "none"
  /\ state' \in {"Completed", "Error"}
  /\ UNCHANGED <<env, loaded, current_frame, waits, call, due>>

-----------------------------------------------------------------------------
(* The rest of the world *)

\* The guest reads the controller; KEYBOARD_NotifyReadyForFrame clears the
\* latch and hands over the next key.
GuestReads ==
  /\ ~ inside /\ kbd.port # <<>>
  /\ kbd' = Transferred([kbd EXCEPT !.port = <<>>, !.overflowed = FALSE])
  /\ due' = IF Head(kbd.port) = Other THEN due ELSE Tail(due)
  /\ UNCHANGED <<frame, screen, loaded, state, inside, answer, current_frame,
                 waits, call>>

GuestDraws ==
  /\ ~ inside
  /\ screen' \in {"no", "folded", "exact"} \ {screen}
  /\ UNCHANGED <<frame, kbd, loaded, state, inside, answer, current_frame, waits,
                 call, due>>

UserTypes ==
  /\ ~ inside
  /\ OtherKey
  /\ UNCHANGED <<frame, screen, loaded, state, inside, answer, current_frame,
                 waits, call>>

TimePasses ==
  /\ ~ inside /\ text_wall + type_wall > 0
  /\ text_wall' = IF text_wall = 0 THEN 0 ELSE text_wall - 1
  /\ type_wall' = IF type_wall = 0 THEN 0 ELSE type_wall - 1
  /\ UNCHANGED <<env, loaded, state, inside, answer, current_frame,
                 wait_until_frame, waiting_for_text, wait_text_ignorecase,
                 wait_text_deadline, injecting_type, pending_keys, call, due>>

Next ==
  \/ Load \/ Start \/ Stop
  \/ FrameWithoutScript \/ FrameStarts \/ FrameChecksText \/ FrameTypes
  \/ FrameCounts \/ ReapStalledWaits
  \/ LuaWaitFrames \/ LuaWaitForText \/ LuaType \/ LuaYield \/ LuaKey
  \/ ScriptEnds
  \/ GuestReads \/ GuestDraws \/ UserTypes \/ TimePasses

\* The main loop goes on and time passes; frames need not come, the guest
\* need not read, and a script may run to its limits.
Spec == Init /\ [][Next]_vars
FairSpec == Spec /\ WF_vars(ReapStalledWaits) /\ WF_vars(TimePasses)

-----------------------------------------------------------------------------
(* Properties *)

KeyEvents == [key : Chars \cup {"shift", "other"}, down : BOOLEAN]

\* Every variable keeps its type, the buffer its bound.
TypeOK ==
  /\ frame \in 0 .. MaxFrame /\ current_frame \in 0 .. frame
  /\ state \in {"Idle", "Running", "Yielded", "Completed", "Error"}
  /\ inside => state = "Running"
  /\ kbd \in [buffer : Seq(KeyEvents), port : Seq(KeyEvents), overflowed : BOOLEAN]
  /\ Len(kbd.buffer) <= Slots /\ Len(kbd.port) <= 1
  /\ pending_keys \in Seq(Chars) /\ due \in Seq(KeyEvents)
  /\ text_wall \in 0 .. Ceiling /\ type_wall \in 0 .. Ceiling

\* The flags that choose what a frame does agree with the call that the script
\* is in: a stop, an error, a timeout or a new script leaves no wait behind
\* that would end a later call with another call's answer.
WaitMatchesCall ==
  /\ waiting_for_text <=> call.op = "text"
  /\ injecting_type <=> call.op = "type"
  /\ state = "Yielded" <=> call.op # "none"
  /\ pending_keys # <<>> => injecting_type

\* Typed keys are neither lost nor doubled nor reordered on their way through
\* the queue, the keyboard's buffer and the controller, whatever others type
\* meanwhile, unless it is others that make the buffer overflow.
KeysAccounted == TypeOK /\ due = Typed(kbd) \o StrokesOf(pending_keys)

\* A script comes back from a wait with the right result and no sooner than it
\* asked: true with the text on the screen, false at the end of a frame that does
\* not show it, after the timeout in frames or the ceiling, or between frames
\* after the ceiling, without a look; wait_frames after that many frames.
ReturnsRight ==
  [][~ inside /\ inside' =>
       /\ call.op = "text" =>
            \/ answer' = "true" /\ Found(wait_text_ignorecase)
            \/ /\ answer' = "false"
               /\ frame' # frame => ~ Found(wait_text_ignorecase)
               /\ (frame' # frame /\ frame' >= call.at + call.n) \/ text_wall = 0
       /\ call.op # "text" => answer' = "none"
       /\ call.op = "frames" => frame' > call.at /\ frame' >= call.at + call.n]_vars

\* type returns when the guest has taken all but the last key event, so that
\* what the script does next cannot make the buffer overflow on them; only the
\* ceiling ends it sooner.
TypeReturnsClean ==
  [][call.op = "type" /\ inside' => type_wall = 0 \/ (kbd'.buffer = <<>> /\ Len(due') <= 1)]_vars

\* wait_for_text and type end, even if no frame is drawn any more and the
\* guest reads no keys.
StalledWaitEnds == \A op \in {"text", "type"} : (call.op = op) ~> (call.op # op)
=============================================================================
