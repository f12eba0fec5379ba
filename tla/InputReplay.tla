---------------------------- MODULE InputReplay ----------------------------
(***************************************************************************)
(* Replay of input sequences (webserver/input.cpp).  A call hands over a   *)
(* sequence of key and mouse events.  Without frame numbers they are       *)
(* dispatched by a chain of timer events, of which each schedules the      *)
(* next; with frame numbers, at the end of each rendered frame.            *)
(* Both hold back a key while the keyboard has little room.                *)
(*                                                                         *)
(* Everything here runs on the emulation thread; the calls reach it        *)
(* through the bridge (module Bridge).  The delays of the timer events are *)
(* left out: a scheduled event comes at some time.  The keyboard is        *)
(* reduced to its buffer, its overflow latch and whether the controller    *)
(* would take a scancode; module I8042 has them in full.                   *)
(***************************************************************************)
EXTENDS Naturals, Sequences, FiniteSets

CONSTANTS
  Calls,          \* the calls, and for each of them
  Body,           \* its events, [key : BOOLEAN, frame : Nat, t : Nat]
  FrameBased,     \* the calls whose events have frame numbers
  KeyBufferSize,  \* buffer_size of the keyboard
  FrameLimit,     \* events dispatched in one frame (500)
  MaxFrame,       \* bound on the frame counter
  MaxStart,       \* bound on the frame in which a framed call comes
  MaxHostKeys     \* bound on the keys that come from elsewhere

ASSUME ReplayAssumption ==
  /\ FrameBased \subseteq Calls
  /\ \A c \in Calls : Body[c] \in Seq([key : BOOLEAN, frame : Nat, t : Nat])
  /\ KeyBufferSize \in Nat /\ KeyBufferSize >= 2
  /\ FrameLimit \in Nat \ {0}
  /\ MaxFrame \in Nat /\ MaxStart \in Nat /\ MaxHostKeys \in Nat

VARIABLES
  pic,      \* pending_events
  chain,    \* the pic_input_handler events that are scheduled
  frm,      \* frame_pending_events
  active,   \* frame_replay_active
  start,    \* frame_replay_start
  frame,    \* the rendered frames
  kbd,      \* the keyboard
  hostKeys, \* how many keys came from elsewhere
  outcome,  \* what each call was told
  began,    \* history: the frame in which a framed call was accepted
  sent,     \* history: the events dispatched by timer and by frame, in order
  refused   \* history: a key of a replay was dropped by the keyboard

picVars == <<pic, chain>>
frmVars == <<frm, active, start>>
callVars == <<outcome, began>>
sentVars == <<sent, refused>>
vars == <<picVars, frmVars, frame, kbd, hostKeys, callVars, sentVars>>

\* An event of a queue: the call, the number, whether it is a key, its frame.
Event(c, i, f) == [call |-> c, n |-> i, key |-> Body[c][i].key, frame |-> f]

Init ==
  /\ pic = <<>> /\ chain = 0
  /\ frm = <<>> /\ active = FALSE /\ start = 0
  /\ frame = 0
  /\ kbd = [held |-> 0, latch |-> FALSE, ready |-> TRUE]
  /\ hostKeys = 0
  /\ outcome = [c \in Calls |-> "none"]
  /\ began = [c \in Calls |-> 0]
  /\ sent = [pic |-> <<>>, frm |-> <<>>]
  /\ refused = FALSE

-----------------------------------------------------------------------------
(* The calls *)

Timed(c) == [i \in DOMAIN Body[c] |-> Event(c, i, 0)]

Told(c, what) == outcome' = [outcome EXCEPT ![c] = what]

\* ExecutePicBased
ExecutePicBased(c) ==
  /\ outcome[c] = "none" /\ c \notin FrameBased
  /\ IF pic # <<>>
       THEN Told(c, "busy") /\ UNCHANGED picVars
       ELSE /\ Told(c, "ok")
            /\ pic' = pic \o Timed(c)
            /\ chain' = chain + (IF Body[c] = <<>> THEN 0 ELSE 1)
  /\ UNCHANGED <<frmVars, frame, kbd, hostKeys, began, sentVars>>

\* The frame that the frames of a sequence are counted from: that of the
\* first event that is not at frame 0 and time 0.
FrameBase(c) ==
  LET late == {i \in DOMAIN Body[c] : Body[c][i].frame > 0 \/ Body[c][i].t > 0}
  IN  IF late = {} THEN 0
      ELSE Body[c][CHOOSE i \in late : \A j \in late : i <= j].frame

Minus(a, b) == IF a >= b THEN a - b ELSE 0

\* Mutant: frames are counted from the last event.
NormalizedFromLast(c) ==
  [i \in DOMAIN Body[c] |->
     Event(c, i, Minus(Body[c][i].frame, Body[c][Len(Body[c])].frame))]

Normalized(c) ==
  [i \in DOMAIN Body[c] |-> Event(c, i, Minus(Body[c][i].frame, FrameBase(c)))]

\* ExecuteFrameBased
ExecuteFrameBased(c) ==
  /\ outcome[c] = "none" /\ c \in FrameBased
  /\ frame <= MaxStart
  /\ IF active
       THEN Told(c, "busy") /\ UNCHANGED <<frmVars, began>>
       ELSE /\ Told(c, "ok")
            /\ frm' = frm \o Normalized(c)
            /\ active' = (frm' # <<>>)
            /\ start' = IF frm' # <<>> THEN frame ELSE start
            /\ began' = [began EXCEPT ![c] = frame]
  /\ UNCHANGED <<picVars, frame, kbd, hostKeys, sentVars>>

-----------------------------------------------------------------------------
(* The keyboard: how many scancodes it holds, its overflow latch, and      *)
(* whether the controller would take a scancode.                           *)

FreeSlots(k) == IF k.latch THEN 0 ELSE KeyBufferSize - k.held

\* a key that comes is dropped
Drops(k) == k.latch \/ k.held = KeyBufferSize

\* KEYBOARD_AddKey: the first scancode goes on to a controller that is ready.
AddKey(k) ==
  IF k.latch THEN k
  ELSE IF k.held = KeyBufferSize THEN [k EXCEPT !.held = 0, !.latch = TRUE]
  ELSE [k EXCEPT !.held = IF k.ready THEN @ ELSE @ + 1, !.ready = FALSE]

\* The guest takes what the controller has; the keyboard is notified.
GuestReads ==
  /\ ~ kbd.ready
  /\ kbd' = [held |-> Minus(kbd.held, 1), latch |-> FALSE,
             ready |-> kbd.held = 0]
  /\ UNCHANGED <<picVars, frmVars, frame, hostKeys, callVars, sentVars>>

\* Keys of the user, of scripts and of the repetition of a held key.
HostKey ==
  /\ hostKeys < MaxHostKeys
  /\ kbd' = AddKey(kbd)
  /\ hostKeys' = hostKeys + 1
  /\ UNCHANGED <<picVars, frmVars, frame, callVars, sentVars>>

\* Mutant: keys are dispatched whatever room there is.
BlockedNever(e, k) == FALSE

\* the test for room before a key is dispatched
Blocked(e, k) == e.key /\ FreeSlots(k) < 2

\* the keyboard after the first n events of q
KbdAfter(q, n) ==
  LET after[i \in 0 .. Len(q)] ==
        IF i = 0 THEN kbd
        ELSE IF q[i].key THEN AddKey(after[i - 1]) ELSE after[i - 1]
  IN  after[n]

\* Once those before it are dispatched, the i-th event of q finds its room.
FindsRoom(q, i) == ~ Blocked(q[i], KbdAfter(q, i - 1))

\* dispatch_input_event, of the first n events of the queue q
Dispatch(name, q, n) ==
  /\ sent' = [sent EXCEPT ![name] = @ \o SubSeq(q, 1, n)]
  /\ kbd' = KbdAfter(q, n)
  /\ refused' = (refused \/ \E i \in 1 .. n :
                              q[i].key /\ Drops(KbdAfter(q, i - 1)))

-----------------------------------------------------------------------------
(* Dispatch by timer *)

\* Mutant: no retry is scheduled when the keyboard has no room.
PicHandlerGivesUp ==
  /\ chain > 0
  /\ IF pic = <<>> \/ ~ FindsRoom(pic, 1)
       THEN chain' = chain - 1 /\ UNCHANGED <<pic, kbd, sentVars>>
     ELSE /\ Dispatch("pic", pic, 1)
          /\ pic' = Tail(pic)
          /\ chain' = IF Tail(pic) = <<>> THEN chain - 1 ELSE chain
  /\ UNCHANGED <<frmVars, frame, hostKeys, callVars>>

\* pic_input_handler.  With events left it schedules itself again, for the
\* next event or for a retry.
PicHandler ==
  /\ chain > 0
  /\ IF pic = <<>>
       THEN chain' = chain - 1 /\ UNCHANGED <<pic, kbd, sentVars>>
     ELSE IF ~ FindsRoom(pic, 1) THEN UNCHANGED <<picVars, kbd, sentVars>>
     ELSE /\ Dispatch("pic", pic, 1)
          /\ pic' = Tail(pic)
          /\ chain' = IF Tail(pic) = <<>> THEN chain - 1 ELSE chain
  /\ UNCHANGED <<frmVars, frame, hostKeys, callVars>>

-----------------------------------------------------------------------------
(* Dispatch by frame *)

\* the next frame; the counter stops at its bound
NextFrame == IF frame < MaxFrame THEN frame + 1 ELSE frame

\* the loop of ReplayDispatchFrame comes to its n-th event
Reaches(n) ==
  /\ n <= Len(frm) /\ n <= FrameLimit
  /\ \A i \in 1 .. n : frm[i].frame <= NextFrame - start /\ FindsRoom(frm, i)

\* the loop ends after n events
EndsAfter(n) == Reaches(n) /\ ~ Reaches(n + 1)

\* Mutant: the replay is over after one call.
RenderFrameOnce ==
  /\ frame' = NextFrame
  /\ IF ~ active THEN UNCHANGED <<frmVars, kbd, sentVars>>
     ELSE \E n \in 0 .. Len(frm) :
            /\ EndsAfter(n)
            /\ Dispatch("frm", frm, n)
            /\ frm' = SubSeq(frm, n + 1, Len(frm))
            /\ active' = FALSE
            /\ UNCHANGED start
  /\ UNCHANGED <<picVars, hostKeys, callVars>>

\* Mutant: an event that did not fit into the frame is lost.
RenderFrameDrops ==
  /\ frame' = NextFrame
  /\ IF ~ active THEN UNCHANGED <<frmVars, kbd, sentVars>>
     ELSE \E n \in 0 .. Len(frm) :
            /\ EndsAfter(n)
            /\ Dispatch("frm", frm, n)
            /\ frm' = SubSeq(frm, n + 2, Len(frm))
            /\ active' = (frm' # <<>>)
            /\ UNCHANGED start
  /\ UNCHANGED <<picVars, hostKeys, callVars>>

\* A frame is rendered and ReplayDispatchFrame is called.
RenderFrame ==
  /\ frame' = NextFrame
  /\ IF ~ active THEN UNCHANGED <<frmVars, kbd, sentVars>>
     ELSE \E n \in 0 .. Len(frm) :
            /\ EndsAfter(n)
            /\ Dispatch("frm", frm, n)
            /\ frm' = SubSeq(frm, n + 1, Len(frm))
            /\ active' = (frm' # <<>>)
            /\ UNCHANGED start
  /\ UNCHANGED <<picVars, hostKeys, callVars>>

Next ==
  \/ \E c \in Calls : ExecutePicBased(c) \/ ExecuteFrameBased(c)
  \/ GuestReads \/ HostKey
  \/ PicHandler
  \/ RenderFrame

Spec == Init /\ [][Next]_vars

\* The emulation goes on: timer events come, frames are rendered, and the
\* guest reads its keyboard.
Fairness == WF_vars(GuestReads) /\ WF_vars(PicHandler) /\ WF_vars(RenderFrame)

FairSpec == Spec /\ Fairness

-----------------------------------------------------------------------------
(* Properties *)

TimedEvents == UNION {{Timed(c)[i] : i \in DOMAIN Body[c]} : c \in Calls \ FrameBased}
FramedEvents == UNION {{Normalized(c)[i] : i \in DOMAIN Body[c]} : c \in FrameBased}

\* The types; the keyboard never holds more scancodes than it has room for.
TypeOK ==
  /\ pic \in Seq(TimedEvents) /\ frm \in Seq(FramedEvents)
  /\ chain \in Nat
  /\ active \in BOOLEAN /\ frame \in 0 .. MaxFrame /\ start \in 0 .. frame
  /\ kbd \in [held : 0 .. KeyBufferSize, latch : BOOLEAN, ready : BOOLEAN]
  /\ hostKeys \in 0 .. MaxHostKeys
  /\ outcome \in [Calls -> {"none", "ok", "busy"}]
  /\ began \in [Calls -> 0 .. MaxStart]
  /\ sent \in [pic : Seq(TimedEvents), frm : Seq(FramedEvents)]
  /\ refused \in BOOLEAN

\* The chain of timer events neither breaks nor doubles: one handler is
\* scheduled while events are left, none otherwise, through retries and the
\* start of the next sequence.
OneHandler == chain = IF pic = <<>> THEN 0 ELSE 1

\* what was and what will be dispatched on the way that a call takes
Stream(c) == IF c \in FrameBased THEN sent.frm \o frm ELSE sent.pic \o pic

\* where the events of a call are in a sequence, and their numbers
PlacesOf(c, s) == {k \in DOMAIN s : s[k].call = c}
NumbersOf(c, s) == {s[k].n : k \in PlacesOf(c, s)}

\* Of an accepted call every event is dispatched once and in order, although
\* two sequences, timed and framed, run at the same time and each can be held
\* up: what was sent and then what is queued has each of its numbers, from the
\* first to the last; of a refused call nothing is sent.
SentInOrder ==
  /\ TypeOK
  /\ \A c \in Calls :
       /\ NumbersOf(c, Stream(c)) = IF outcome[c] = "ok" THEN DOMAIN Body[c] ELSE {}
       /\ \A k, l \in PlacesOf(c, Stream(c)) :
            k < l => Stream(c)[k].n < Stream(c)[l].n

\* A replayed key always finds room in the keyboard, also when two replays
\* and a user type at the same time ("instead of dispatching into the
\* overflow latch").
NoKeyRefused == ~ refused

\* the numbers of the events of a framed call that this step dispatches
NewlySent(c) ==
  {sent'.frm[k].n : k \in PlacesOf(c, sent'.frm) \ DOMAIN sent.frm}

\* A framed event is not dispatched before its distance to the first event
\* has passed ("the first event is at frame 0").
NeverEarly ==
  [][\A c \in FrameBased : \A i \in NewlySent(c) :
       frame' + Body[c][1].frame >= began[c] + Body[c][i].frame]_vars

\* Every accepted sequence is dispatched to its end, whatever holds it up.
ReplayEnds ==
  \A c \in Calls :
    outcome[c] = "ok" ~> NumbersOf(c, sent.pic \o sent.frm) = DOMAIN Body[c]
=============================================================================
