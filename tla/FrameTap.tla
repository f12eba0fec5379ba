----------------------------- MODULE FrameTap ------------------------------
(***************************************************************************)
(* How a web request gets the picture on the screen (webserver/video.cpp): *)
(* the rendered frame through the tap that the present path fills          *)
(* (webserver/frame_tap.cpp), or the raw frame that the renderer leaves at *)
(* the end of each update (gui/render/render.cpp).                         *)
(*                                                                         *)
(* Both hand over deep copies, which the request has to free.  Here a copy *)
(* is the name of its buffer; pixels and formats are left out.  Critical   *)
(* sections are single steps.  The present path runs on the emulation      *)
(* thread, each request on a thread of its own.                            *)
(***************************************************************************)
EXTENDS Naturals, FiniteSets

CONSTANTS
  Workers,   \* the threads that serve requests
  Copies,    \* the buffers that deep_copy allocates
  MaxLost    \* bound on the requests that end with an exception

None == "none"

ASSUME FrameTapAssumption ==
  /\ IsFiniteSet(Workers) /\ IsFiniteSet(Copies)
  /\ None \notin Workers \cup Copies
  /\ MaxLost \in Nat
  /\ Cardinality(Copies) > Cardinality(Workers) + MaxLost + 2

VARIABLES
  worker,    \* where each worker is in GetFrame
  serializer, \* the worker that holds request_serializer, or none
  requested, has_frame, frame,
  shared,    \* shared_frame
  present,   \* where the emulation thread is in the present path
  got,       \* the image of each worker
  inUse,     \* the buffers that are allocated
  lost       \* history: the buffers of requests that ended with an exception

tap == <<requested, has_frame, frame>>
varsTap == <<worker, serializer, tap, shared, present, got, inUse, lost>>

InitTap ==
  /\ worker = [w \in Workers |-> "idle"]
  /\ serializer = None
  /\ requested = FALSE /\ has_frame = FALSE /\ frame = None
  /\ shared = None
  /\ present = "idle"
  /\ got = [w \in Workers |-> None]
  /\ inUse = {} /\ lost = {}

\* the buffer that new returns
Fresh == CHOOSE c \in Copies : c \notin inUse

-----------------------------------------------------------------------------
(* The requests: VideoHandlers::GetFrame *)

GetFrame(w, mode) ==
  /\ worker[w] = "idle"
  /\ worker' = [worker EXCEPT ![w] = mode]
  /\ UNCHANGED <<serializer, tap, shared, present, got, inUse, lost>>

\* RequestAndWait, up to the wait
Request(w) ==
  /\ worker[w] = "rendered"
  /\ serializer = None
  /\ serializer' = w
  /\ has_frame' = FALSE /\ requested' = TRUE
  /\ worker' = [worker EXCEPT ![w] = "waiting"]
  /\ UNCHANGED <<frame, shared, present, got, inUse, lost>>

\* RequestAndWait returns the frame, when it is notified or at its deadline.
Take(w) ==
  /\ worker[w] = "waiting" /\ has_frame
  /\ requested' = FALSE /\ has_frame' = FALSE /\ frame' = None
  /\ got' = [got EXCEPT ![w] = frame]
  /\ serializer' = None
  /\ worker' = [worker EXCEPT ![w] = "encode"]
  /\ UNCHANGED <<shared, present, inUse, lost>>

\* RequestAndWait times out, and the answer is 503.
TimeOutRequest(w) ==
  /\ worker[w] = "waiting" /\ ~ has_frame
  /\ requested' = FALSE
  /\ serializer' = None
  /\ worker' = [worker EXCEPT ![w] = "idle"]
  /\ UNCHANGED <<has_frame, frame, shared, present, got, inUse, lost>>

\* The raw frame: RENDER_HasSharedFrame and RENDER_GetSharedFrame.  Once there
\* is one, there always is.
GetShared(w) ==
  /\ worker[w] = "raw"
  /\ IF shared = None
       THEN worker' = [worker EXCEPT ![w] = "idle"] /\ UNCHANGED <<got, inUse>>
       ELSE /\ worker' = [worker EXCEPT ![w] = "encode"]
            /\ got' = [got EXCEPT ![w] = Fresh]
            /\ inUse' = inUse \cup {Fresh}
  /\ UNCHANGED <<serializer, tap, shared, present, lost>>

\* The image is encoded and freed.
Answer(w) ==
  /\ worker[w] = "encode"
  /\ worker' = [worker EXCEPT ![w] = "idle"]
  /\ inUse' = inUse \ {got[w]}
  /\ got' = [got EXCEPT ![w] = None]
  /\ UNCHANGED <<serializer, tap, shared, present, lost>>

\* The parameter "quality" is refused, or an encoder fails: the exception
\* leaves GetFrame before free.
Throw(w) ==
  /\ worker[w] = "encode"
  /\ Cardinality(lost) < MaxLost
  /\ lost' = lost \cup {got[w]}
  /\ worker' = [worker EXCEPT ![w] = "idle"]
  /\ got' = [got EXCEPT ![w] = None]
  /\ UNCHANGED <<serializer, tap, shared, present, inUse>>

-----------------------------------------------------------------------------
(* The emulation thread *)

\* RENDER_UpdateSharedFrame at the end of an update; GFX_EndUpdate may then
\* present the frame.
EndUpdate ==
  /\ present = "idle"
  /\ inUse' = (inUse \ {shared}) \cup {Fresh}
  /\ shared' = Fresh
  /\ present' = "maybe"
  /\ UNCHANGED <<worker, serializer, tap, got, lost>>

\* normal_loop may present a frame between two updates.
HostRate ==
  /\ present = "idle"
  /\ present' = "maybe"
  /\ UNCHANGED <<worker, serializer, tap, shared, got, inUse, lost>>

\* Mutant: a request does not force a present.
PresentWhenDue(due) ==
  /\ present = "maybe"
  /\ present' = IF due THEN "drawing" ELSE "idle"
  /\ UNCHANGED <<worker, serializer, tap, shared, got, inUse, lost>>

\* GFX_MaybePresentFrame: due when the time for a frame has come, or when a
\* capture wants one.
MaybePresent(due) ==
  /\ present = "maybe"
  /\ present' = IF due \/ requested THEN "drawing" ELSE "idle"
  /\ UNCHANGED <<worker, serializer, tap, shared, got, inUse, lost>>

\* PresentFrame: the pixels are read if somebody wants them.
PresentFrame(capturing) ==
  /\ present = "drawing"
  /\ present' = IF capturing \/ requested THEN "read" ELSE "idle"
  /\ UNCHANGED <<worker, serializer, tap, shared, got, inUse, lost>>

\* Deliver: the look at the flag without the mutex
LookAtRequest ==
  /\ present = "read"
  /\ present' = IF requested THEN "deliver" ELSE "idle"
  /\ UNCHANGED <<worker, serializer, tap, shared, got, inUse, lost>>

\* Mutant: the flag is not looked at again.
DeliverUnasked ==
  /\ present = "deliver"
  /\ present' = "idle"
  /\ IF has_frame
       THEN UNCHANGED <<has_frame, frame, inUse>>
       ELSE /\ frame' = Fresh /\ has_frame' = TRUE
            /\ inUse' = inUse \cup {Fresh}
  /\ UNCHANGED <<worker, serializer, requested, shared, got, lost>>

\* Deliver, with the mutex held: the request may have ended meanwhile, and
\* another may have come.
Deliver ==
  /\ present = "deliver"
  /\ present' = "idle"
  /\ IF ~ requested \/ has_frame
       THEN UNCHANGED <<has_frame, frame, inUse>>
       ELSE /\ frame' = Fresh /\ has_frame' = TRUE
            /\ inUse' = inUse \cup {Fresh}
  /\ UNCHANGED <<worker, serializer, requested, shared, got, lost>>

Presenting ==
  \/ EndUpdate \/ HostRate
  \/ \E due \in BOOLEAN : MaybePresent(due)
  \/ \E capturing \in BOOLEAN : PresentFrame(capturing)
  \/ LookAtRequest \/ Deliver

NextTap ==
  \/ \E w \in Workers :
       \/ \E mode \in {"rendered", "raw"} : GetFrame(w, mode)
       \/ Request(w) \/ Take(w) \/ TimeOutRequest(w) \/ GetShared(w)
       \/ Answer(w) \/ Throw(w)
  \/ Presenting

SpecTap == InitTap /\ [][NextTap]_varsTap

\* Frames go on being drawn (sdl.draw.active), also if none is ever due to be
\* presented; a worker goes on and gets the mutex in the end.  No deadline has
\* to pass.
FairSpecTap ==
  /\ SpecTap
  /\ WF_varsTap(Presenting)
  /\ \A w \in Workers :
       WF_varsTap(Take(w)) /\ WF_varsTap(Answer(w)) /\ SF_varsTap(Request(w))

-----------------------------------------------------------------------------
(* Properties *)

TypeOKTap ==
  /\ worker \in [Workers -> {"idle", "rendered", "raw", "waiting", "encode"}]
  /\ serializer \in Workers \cup {None}
  /\ requested \in BOOLEAN /\ has_frame \in BOOLEAN
  /\ frame \in Copies \cup {None} /\ shared \in Copies \cup {None}
  /\ present \in {"idle", "maybe", "drawing", "read", "deliver"}
  /\ got \in [Workers -> Copies \cup {None}]

Encoding == {w \in Workers : worker[w] = "encode"}

\* who has to free a buffer
Owners(c) ==
  {w \in Encoding : got[w] = c}
    \cup (IF has_frame /\ frame = c THEN {"tap"} ELSE {})
    \cup (IF shared = c THEN {"shared"} ELSE {})
    \cup (IF c \in lost THEN {"nobody"} ELSE {})

\* Every buffer that is allocated has one owner: the tap, the renderer or one
\* request ("each gets its own frame"); a deadline that passes while a frame
\* is delivered leaves none behind and hands none out twice.  Only a request
\* that ends with an exception forgets to free its own.
OneOwner ==
  /\ TypeOKTap
  /\ \A c \in Copies : Cardinality(Owners(c)) = IF c \in inUse THEN 1 ELSE 0

\* A request for the rendered frame ends while frames are drawn, whether or
\* not one is due and whoever asked before it.
RequestEnds ==
  \A w \in Workers :
    worker[w] \in {"rendered", "waiting"} ~> worker[w] \in {"encode", "idle"}
=============================================================================
