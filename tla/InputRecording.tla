--------------------------- MODULE InputRecording ---------------------------
(***************************************************************************)
(* Recording of input (webserver/input.cpp) beside the replay of it.  Web  *)
(* requests start, pause and stop a recording; hooks in the keyboard note  *)
(* the user's keys with the frame they come in.  A replay goes through the *)
(* same hooks, which it tells to look away.                                *)
(*                                                                         *)
(* The requests run on threads of their own.  Each call under rec_mutex is *)
(* a step; a start is only asked for there and done on the emulation       *)
(* thread (module Bridge).  The hooks of the mouse do what that of the     *)
(* keyboard does.                                                          *)
(***************************************************************************)
EXTENDS InputReplay

CONSTANTS
  Requests,  \* the web requests, and for each of them
  Does,      \* "start", "pause" or "stop"
  Sessions   \* which calls and which requests come together

ASSUME RecordingAssumption ==
  /\ Does \in [Requests -> {"start", "pause", "stop"}]
  /\ Sessions \subseteq [calls : SUBSET Calls, requests : SUBSET Requests]

VARIABLES
  session,  \* one of Sessions
  rec,      \* rec_active, rec_paused, rec_start_frame, rec_buffer
  req,      \* where each request is in its handler
  answer,   \* what it was told, and the events it got
  log       \* history: the last start, and the pauses and keys since then,
            \* with their frames

reqVars == <<req, answer>>
all == <<vars, session, rec, reqVars, log>>

RecInit ==
  /\ Init
  /\ session \in Sessions
  /\ rec = [active |-> FALSE, paused |-> FALSE, start |-> 0, buffer |-> <<>>]
  /\ req = [r \in Requests |-> "none"]
  /\ answer = [r \in Requests |-> [told |-> "none", events |-> <<>>]]
  /\ log = <<>>

Entry(what, n) == [what |-> what, n |-> n, frame |-> frame]

\* only what comes after a start can be part of a recording
Logged(what, n) ==
  log' = IF what = "start" THEN <<Entry(what, n)>>
         ELSE IF log = <<>> THEN log
         ELSE Append(log, Entry(what, n))

-----------------------------------------------------------------------------
(* The handlers *)

Reply(r, what, events) ==
  /\ req' = [req EXCEPT ![r] = "done"]
  /\ answer' = [answer EXCEPT ![r] = [told |-> what, events |-> events]]

Comes(r, what) == r \in session.requests /\ req[r] = "none" /\ Does[r] = what

\* PostStart and PostPause: the test, after which the mutex is given back
Check(r) ==
  /\ Comes(r, "start") \/ Comes(r, "pause")
  /\ IF rec.active = (Does[r] = "start")
       THEN Reply(r, "409", <<>>)
       ELSE req' = [req EXCEPT ![r] = "checked"] /\ UNCHANGED answer
  /\ UNCHANGED <<vars, session, rec, log>>

\* Mutant: a pause is kept.
StartStillPaused(r) ==
  /\ req[r] = "checked" /\ Does[r] = "start"
  /\ rec' = [rec EXCEPT !.active = TRUE, !.start = frame, !.buffer = <<>>]
  /\ Reply(r, "ok", <<>>)
  /\ Logged("start", 0)
  /\ UNCHANGED <<vars, session>>

\* StartOnEmulationThread, whatever has been started since the test
Start(r) ==
  /\ req[r] = "checked" /\ Does[r] = "start"
  /\ rec' = [active |-> TRUE, paused |-> FALSE, start |-> frame, buffer |-> <<>>]
  /\ Reply(r, "ok", <<>>)
  /\ Logged("start", 0)
  /\ UNCHANGED <<vars, session>>

\* The emulation did not get to it in a second: the command is withdrawn.
StartTimesOut(r) ==
  /\ req[r] = "checked" /\ Does[r] = "start"
  /\ Reply(r, "500", <<>>)
  /\ UNCHANGED <<vars, session, rec, log>>

\* Pause, on a recording that may have been stopped or started since
Pause(r) ==
  /\ req[r] = "checked" /\ Does[r] = "pause"
  /\ rec' = [rec EXCEPT !.paused = IF rec.active THEN ~ @ ELSE @]
  /\ req' = [req EXCEPT ![r] = "paused"]
  /\ Logged("pause", 0)
  /\ UNCHANGED <<vars, session, answer>>

\* IsPaused, for the answer
TellPaused(r) ==
  /\ req[r] = "paused"
  /\ Reply(r, IF rec.paused THEN "paused" ELSE "recording", <<>>)
  /\ UNCHANGED <<vars, session, rec, log>>

\* PostStop
Stop(r) ==
  /\ Comes(r, "stop")
  /\ IF ~ rec.active
       THEN Reply(r, "409", <<>>) /\ UNCHANGED rec
       ELSE /\ Reply(r, "ok", rec.buffer)
            /\ rec' = [rec EXCEPT !.active = FALSE, !.paused = FALSE, !.buffer = <<>>]
  /\ UNCHANGED <<vars, session, log>>

-----------------------------------------------------------------------------
(* The hooks *)

\* hook_keyboard and OnKeyEvent
Hooked(in_replay_dispatch, n) ==
  IF in_replay_dispatch \/ ~ rec.active \/ rec.paused THEN rec
  ELSE [rec EXCEPT !.buffer = Append(@, [n |-> n, frame |-> frame - rec.start])]

\* A key of the user, dropped by the keyboard or not
UserKey ==
  /\ HostKey
  /\ rec' = Hooked(FALSE, hostKeys')
  /\ Logged("key", hostKeys')
  /\ UNCHANGED <<session, reqVars>>

\* A step that may dispatch replayed events
Replaying(A) ==
  /\ A
  /\ rec' = IF sent' = sent THEN rec ELSE Hooked(TRUE, 0)
  /\ UNCHANGED <<session, reqVars, log>>

Call == \E c \in session.calls : ExecutePicBased(c) \/ ExecuteFrameBased(c)

Handler(r) ==
  Check(r) \/ Start(r) \/ StartTimesOut(r) \/ Pause(r) \/ TellPaused(r) \/ Stop(r)

Unrecorded(A) == A /\ UNCHANGED <<session, rec, reqVars, log>>

RecNext ==
  \/ Unrecorded(Call) \/ Unrecorded(GuestReads)
  \/ UserKey
  \/ Replaying(PicHandler) \/ Replaying(RenderFrame)
  \/ \E r \in Requests : Handler(r)

RecSpec == RecInit /\ [][RecNext]_all

\* As without recordings; nobody has to send requests.
RecFairSpec ==
  /\ RecSpec
  /\ WF_all(Unrecorded(GuestReads))
  /\ WF_all(Replaying(PicHandler)) /\ WF_all(Replaying(RenderFrame))

-----------------------------------------------------------------------------
(* Properties *)

\* the keys since the last start that no pause hides
Recordable ==
  {i \in DOMAIN log :
     /\ log[i].what = "key"
     /\ Cardinality({j \in 1 .. i : log[j].what = "pause"}) % 2 = 0}

\* A stop returns the keys that the user pressed since the last start while
\* the recording was not paused, each once, in their order and with their
\* distance to the start in frames, and nothing of the replays that ran
\* meanwhile, although starts, pauses and stops are tested first and done
\* later.
StopReturnsRecording ==
  [][\A r \in Requests :
       req[r] = "none" /\ answer'[r].told = "ok" =>
         LET e == answer'[r].events
         IN  /\ Len(e) = Cardinality(Recordable)
             /\ \A i \in Recordable :
                  LET k == Cardinality({j \in Recordable : j <= i})
                  IN  e[k] = [n |-> log[i].n, frame |-> log[i].frame - log[1].frame]]_all
=============================================================================
