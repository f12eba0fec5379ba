------------------------- MODULE InputReplayProofs -------------------------
(***************************************************************************)
(* The replay of input, for any number of sequences of any length, any     *)
(* size of the keyboard's buffer and any limit per frame: every event is   *)
(* sent once, in order, not early and into a keyboard that has room.       *)
(* Recording beside it changes none of this, and a stop returns what the   *)
(* user typed.                                                             *)
(***************************************************************************)
EXTENDS InputRecording, WellFoundedInduction, FiniteSetTheorems, SequenceTheorems, TLAPS

\* The events that a timed call may queue.
Events == {Event(c, i, 0) : c \in Calls, i \in Nat}

\* What the proof needs to know of the queue of timed events.
PicInv == pic \in Seq(Events)

ChainInv == PicInv /\ OneHandler

\* The events of a call are a sequence that is empty when the call's is.
LEMMA TimedFacts ==
  ASSUME NEW c \in Calls
  PROVE  /\ Timed(c) \in Seq(Events)
         /\ <<>> \o Timed(c) = Timed(c)
         /\ Timed(c) = <<>> <=> Body[c] = <<>>
<1>1. Body[c] \in Seq([key : BOOLEAN, frame : Nat, t : Nat])
  BY ReplayAssumption
<1>2. DOMAIN Body[c] = 1 .. Len(Body[c]) /\ Len(Body[c]) \in Nat
  BY <1>1
<1>3. \A i \in 1 .. Len(Body[c]) : Event(c, i, 0) \in Events
  BY DEF Events
<1>4. Timed(c) = [i \in 1 .. Len(Body[c]) |-> Event(c, i, 0)]
  BY <1>2 DEF Timed
<1>5. Timed(c) \in Seq(Events) /\ Len(Timed(c)) = Len(Body[c])
  BY <1>2, <1>3, <1>4
<1>6. <<>> \o Timed(c) = Timed(c)
  BY <1>5
<1>7. QED
  BY <1>1, <1>5, <1>6

\* pic_input_handler keeps the chain whole: it schedules itself again exactly
\* when events are left.
LEMMA PicHandlerKeeps ==
  ASSUME ChainInv, PicHandler
  PROVE  ChainInv'
<1> USE DEF ChainInv, PicInv, OneHandler
<1>1. chain = 1 /\ pic # <<>>
  BY DEF PicHandler
<1>2. CASE UNCHANGED picVars
  BY <1>2 DEF picVars
<1>3. CASE pic' = Tail(pic) /\ chain' = IF Tail(pic) = <<>> THEN chain - 1 ELSE chain
  BY <1>1, <1>3
<1>4. QED
  BY <1>1, <1>2, <1>3 DEF PicHandler

\* A call starts a chain only when none is running.
LEMMA ExecuteKeeps ==
  ASSUME ChainInv, NEW c \in Calls, ExecutePicBased(c)
  PROVE  ChainInv'
<1> USE DEF ChainInv, PicInv, OneHandler
<1>1. CASE pic # <<>>
  BY <1>1 DEF ExecutePicBased, picVars
<1>2. CASE pic = <<>>
  <2>1. pic' = <<>> \o Timed(c) /\ chain' = 0 + (IF Body[c] = <<>> THEN 0 ELSE 1)
    BY <1>2 DEF ExecutePicBased, Timed
  <2>2. QED
    BY <2>1, TimedFacts
<1>3. QED
  BY <1>1, <1>2

\* The chain of timer events neither breaks nor doubles (pic_input_handler,
\* ExecutePicBased): one handler is scheduled while events are left, none
\* otherwise.
THEOREM ChainWhole == Spec => []OneHandler
<1>1. Init => ChainInv
  BY DEF Init, ChainInv, PicInv, OneHandler
<1>2. ChainInv /\ [Next]_vars => ChainInv'
  <2> SUFFICES ASSUME ChainInv, [Next]_vars PROVE ChainInv'
    OBVIOUS
  <2>1. CASE UNCHANGED picVars
    BY <2>1 DEF picVars, ChainInv, PicInv, OneHandler
  <2>2. CASE \E c \in Calls : ExecutePicBased(c)
    BY <2>2, ExecuteKeeps
  <2>3. CASE PicHandler
    BY <2>3, PicHandlerKeeps
  <2>4. QED
    BY <2>1, <2>2, <2>3
    DEF Next, vars, ExecuteFrameBased, GuestReads, HostKey, RenderFrame
<1>3. QED
  BY <1>1, <1>2, PTL DEF Spec, ChainInv

-----------------------------------------------------------------------------

\* Events that find room are dispatched without a loss.
LEMMA DispatchKeeps ==
  ASSUME NEW q, NEW n \in Nat, NEW name, Dispatch(name, q, n), ~ refused,
         \A i \in 1 .. n : FindsRoom(q, i)
  PROVE  ~ refused'
<1>1. ASSUME NEW i \in 1 .. n, q[i].key PROVE ~ Drops(KbdAfter(q, i - 1))
  <2>1. ~ (FreeSlots(KbdAfter(q, i - 1)) < 2)
    BY <1>1 DEF FindsRoom, Blocked
  <2>2. QED
    BY <2>1, ReplayAssumption DEF FreeSlots, Drops
<1>2. QED
  BY <1>1 DEF Dispatch

\* A key of a replay always finds room in the keyboard (KEYBOARD_AddKey),
\* whatever else types and however slowly the guest reads.
THEOREM RoomForEveryKey == Spec => []NoKeyRefused
<1>1. Init => NoKeyRefused
  BY DEF Init, NoKeyRefused
<1>2. NoKeyRefused /\ [Next]_vars => NoKeyRefused'
  <2> SUFFICES ASSUME ~ refused, [Next]_vars PROVE ~ refused'
    BY DEF NoKeyRefused
  <2>1. CASE UNCHANGED sentVars
    BY <2>1 DEF sentVars
  <2>2. CASE Dispatch("pic", pic, 1) /\ FindsRoom(pic, 1)
    <3>1. \A i \in 1 .. 1 : FindsRoom(pic, i)
      BY <2>2
    <3>2. QED
      BY <2>2, <3>1, DispatchKeeps
  <2>3. CASE \E n \in Nat : Dispatch("frm", frm, n) /\ Reaches(n)
    BY <2>3, DispatchKeeps DEF Reaches
  <2>4. PicHandler => UNCHANGED sentVars \/ (Dispatch("pic", pic, 1) /\ FindsRoom(pic, 1))
    BY DEF PicHandler, sentVars
  <2>5. RenderFrame => UNCHANGED sentVars \/ \E n \in Nat : Dispatch("frm", frm, n) /\ Reaches(n)
    BY DEF RenderFrame, sentVars, EndsAfter
  <2>6. QED
    BY <2>1, <2>2, <2>3, <2>4, <2>5
    DEF Next, vars, ExecutePicBased, ExecuteFrameBased, GuestReads, HostKey
<1>3. QED
  BY <1>1, <1>2, PTL DEF Spec

-----------------------------------------------------------------------------
(* Induction.  The library's theorems quantify over predicates; these      *)
(* quantify over sets instead, which the provers can instantiate.          *)

\* A set of numbers has a least one.
LEMMA LeastNumber ==
  ASSUME NEW T, T \subseteq Nat, T # {}
  PROVE  \E m \in T : \A k \in T : m <= k
<1> DEFINE R == {ss \in Nat \X Nat : ss[1] < ss[2]}
<1>1. IsWellFoundedOn(R, Nat)
  BY NatLessThanWellFounded, Zenon DEF OpToRel
<1> HIDE DEF R
<1>2. PICK m \in T : \A y \in T : ~ (<<y, m>> \in R)
  BY <1>1, WFMin
<1>3. \A y \in T : ~ (y < m)
  BY <1>2 DEF R
<1>4. QED
  BY <1>3

\* Induction over the natural numbers
LEMMA SetInduction ==
  ASSUME NEW T, 0 \in T, \A n \in Nat : n \in T => n + 1 \in T
  PROVE  \A n \in Nat : n \in T
<1> DEFINE U == Nat \ T
<1> SUFFICES ASSUME U # {} PROVE FALSE
  OBVIOUS
<1>1. PICK m \in U : \A k \in U : m <= k
  BY LeastNumber
<1>2. m # 0 /\ m - 1 \in Nat /\ m - 1 \notin U
  BY <1>1
<1>3. (m - 1) + 1 = m
  BY <1>2
<1>4. QED
  BY <1>1, <1>2, <1>3

-----------------------------------------------------------------------------
(* The keyboard while events are dispatched *)

Keyboards == [held : 0 .. KeyBufferSize, latch : BOOLEAN, ready : BOOLEAN]

LEMMA AddKeyType ==
  ASSUME NEW k \in Keyboards
  PROVE  AddKey(k) \in Keyboards
<1>1. KeyBufferSize \in Nat
  BY ReplayAssumption
<1>2. k.held \in 0 .. KeyBufferSize /\ k.latch \in BOOLEAN /\ k.ready \in BOOLEAN
  BY DEF Keyboards
<1>3. CASE k.latch
  BY <1>3 DEF AddKey
<1>4. CASE ~ k.latch /\ k.held = KeyBufferSize
  <2>1. AddKey(k) = [k EXCEPT !.held = 0, !.latch = TRUE] /\ 0 \in 0 .. KeyBufferSize
    BY <1>1, <1>4 DEF AddKey
  <2>2. QED
    BY <2>1 DEF Keyboards
<1>5. CASE ~ k.latch /\ k.held # KeyBufferSize
  <2>1. k.held + 1 \in 0 .. KeyBufferSize
    BY <1>1, <1>2, <1>5
  <2>2. QED
    BY <1>2, <1>5, <2>1 DEF AddKey, Keyboards
<1>6. QED
  BY <1>3, <1>4, <1>5

\* the function that KbdAfter is defined by
IsAfter(f, q) ==
  f = [i \in 0 .. Len(q) |->
         IF i = 0 THEN kbd
         ELSE IF q[i].key THEN AddKey(f[i - 1]) ELSE f[i - 1]]

LEMMA AfterExists ==
  ASSUME NEW q, Len(q) \in Nat
  PROVE  \E f : IsAfter(f, q)
<1> DEFINE Step(i, x) == IF q[i].key THEN AddKey(x) ELSE x
           Part(f, m) == /\ f = [i \in 0 .. m |-> f[i]] /\ f[0] = kbd
                         /\ \A i \in 1 .. m : f[i] = Step(i, f[i - 1])
           T == {m \in Nat : \E f : Part(f, m)}
<1>1. 0 \in T
  <2> DEFINE f == [i \in 0 .. 0 |-> kbd]
  <2>1. f = [i \in 0 .. 0 |-> f[i]] /\ f[0] = kbd
    OBVIOUS
  <2>2. \A i \in 1 .. 0 : f[i] = Step(i, f[i - 1])
    OBVIOUS
  <2>3. Part(f, 0)
    BY <2>1, <2>2
  <2> HIDE DEF Part
  <2>4. QED
    BY <2>3
<1>2. ASSUME NEW m \in Nat, m \in T PROVE m + 1 \in T
  <2>1. PICK f : Part(f, m)
    BY <1>2
  <2> DEFINE g == [i \in 0 .. m + 1 |-> IF i = m + 1 THEN Step(m + 1, f[m]) ELSE f[i]]
  <2>2. \A i \in 0 .. m : g[i] = f[i]
    BY <1>2
  <2>3. g[m + 1] = Step(m + 1, f[m])
    BY <1>2
  <2>4. g = [i \in 0 .. m + 1 |-> g[i]] /\ g[0] = kbd
    BY <1>2, <2>1, <2>2
  <2> HIDE DEF g
  <2>5. ASSUME NEW i \in 1 .. m + 1 PROVE g[i] = Step(i, g[i - 1])
    <3>1. CASE i = m + 1
      <4>1. g[m] = f[m] /\ (m + 1) - 1 = m
        BY <1>2, <2>2
      <4>2. QED
        BY <2>3, <3>1, <4>1
    <3>2. CASE i # m + 1
      <4>1. i \in 1 .. m /\ i \in 0 .. m /\ i - 1 \in 0 .. m
        BY <1>2, <3>2
      <4>2. g[i] = f[i] /\ g[i - 1] = f[i - 1]
        BY <2>2, <4>1
      <4>3. f[i] = Step(i, f[i - 1])
        BY <2>1, <4>1
      <4>4. QED
        BY <4>2, <4>3
    <3>3. QED
      BY <3>1, <3>2
  <2>6. Part(g, m + 1)
    BY <2>4, <2>5
  <2> HIDE DEF Part
  <2>7. QED
    BY <2>6
<1>3. Len(q) \in T
  <2> HIDE DEF T
  <2>1. \A n \in Nat : n \in T
    BY <1>1, <1>2, SetInduction
  <2>2. QED
    BY <2>1
<1>4. PICK f : Part(f, Len(q))
  BY <1>3
<1>5. \A i \in 0 .. Len(q) :
        f[i] = IF i = 0 THEN kbd ELSE IF q[i].key THEN AddKey(f[i - 1]) ELSE f[i - 1]
  BY <1>4
<1>6. QED
  BY <1>4, <1>5 DEF IsAfter

LEMMA KbdAfterType ==
  ASSUME NEW q, Len(q) \in Nat, NEW n \in 0 .. Len(q), kbd \in Keyboards
  PROVE  KbdAfter(q, n) \in Keyboards
<1> DEFINE f == CHOOSE g : IsAfter(g, q)
<1>1. KbdAfter(q, n) = f[n]
  BY DEF KbdAfter, IsAfter
<1>2. IsAfter(f, q)
  BY AfterExists
<1> HIDE DEF f
<1>3. \A i \in 0 .. Len(q) :
        f[i] = IF i = 0 THEN kbd ELSE IF q[i].key THEN AddKey(f[i - 1]) ELSE f[i - 1]
  BY <1>2 DEF IsAfter
<1> DEFINE T == {i \in Nat : i <= Len(q) => f[i] \in Keyboards}
<1>4. 0 \in T
  BY <1>3
<1>5. ASSUME NEW i \in Nat, i \in T PROVE i + 1 \in T
  <2> SUFFICES ASSUME i + 1 <= Len(q) PROVE f[i + 1] \in Keyboards
    BY <1>5
  <2>1. i \in 0 .. Len(q) /\ i + 1 \in 0 .. Len(q) /\ i + 1 # 0 /\ (i + 1) - 1 = i
    BY <1>5
  <2>2. f[i] \in Keyboards
    BY <1>5, <2>1
  <2>3. f[i + 1] = IF q[i + 1].key THEN AddKey(f[i]) ELSE f[i]
    BY <1>3, <2>1
  <2>4. QED
    BY <2>2, <2>3, AddKeyType
<1>6. n \in T
  <2> HIDE DEF T
  <2>1. \A i \in Nat : i \in T
    BY <1>4, <1>5, SetInduction
  <2>2. QED
    BY <2>1
<1>7. QED
  BY <1>1, <1>6

-----------------------------------------------------------------------------
(* The queues *)

LEMMA BodyFacts ==
  ASSUME NEW c \in Calls
  PROVE  /\ DOMAIN Body[c] = 1 .. Len(Body[c]) /\ Len(Body[c]) \in Nat
         /\ \A i \in 1 .. Len(Body[c]) : /\ Body[c][i].frame \in Nat
                                         /\ Body[c][i].t \in Nat
<1>1. Body[c] \in Seq([key : BOOLEAN, frame : Nat, t : Nat])
  BY ReplayAssumption
<1>2. \A i \in 1 .. Len(Body[c]) : Body[c][i] \in [key : BOOLEAN, frame : Nat, t : Nat]
  BY <1>1, ElementOfSeq
<1>3. QED
  BY <1>1, <1>2, LenProperties

LEMMA EventFields ==
  \A c, i, f : Event(c, i, f).call = c /\ Event(c, i, f).n = i /\ Event(c, i, f).frame = f
BY DEF Event

\* The events of a call are numbered from the first to the last.
Block(b, c) ==
  /\ Len(b) = Len(Body[c])
  /\ \A i \in 1 .. Len(Body[c]) : b[i].call = c /\ b[i].n = i

LEMMA TimedBlock ==
  ASSUME NEW c \in Calls, c \notin FrameBased
  PROVE  Timed(c) \in Seq(TimedEvents) /\ Block(Timed(c), c)
<1>1. DOMAIN Body[c] = 1 .. Len(Body[c]) /\ Len(Body[c]) \in Nat
  BY BodyFacts
<1>2. \A i \in 1 .. Len(Body[c]) : Timed(c)[i] = Event(c, i, 0)
  BY <1>1 DEF Timed
<1>3. \A i \in 1 .. Len(Body[c]) : Timed(c)[i] \in TimedEvents
  BY <1>1 DEF TimedEvents
<1>4. Timed(c) = [i \in 1 .. Len(Body[c]) |-> Timed(c)[i]]
  BY <1>1 DEF Timed
<1>5. Timed(c) \in Seq(TimedEvents) /\ Len(Timed(c)) = Len(Body[c])
  <2>1. Timed(c) \in [1 .. Len(Body[c]) -> TimedEvents]
    BY <1>3, <1>4
  <2>2. QED
    BY <1>1, <2>1
<1>6. QED
  <2>1. \A i \in 1 .. Len(Body[c]) : Timed(c)[i].call = c /\ Timed(c)[i].n = i
    BY <1>2, EventFields
  <2>2. QED
    BY <1>5, <2>1 DEF Block

LEMMA FramedBlock ==
  ASSUME NEW c \in FrameBased
  PROVE  Normalized(c) \in Seq(FramedEvents) /\ Block(Normalized(c), c)
<1>1. DOMAIN Body[c] = 1 .. Len(Body[c]) /\ Len(Body[c]) \in Nat
  BY BodyFacts, ReplayAssumption
<1>2. \A i \in 1 .. Len(Body[c]) :
        Normalized(c)[i] = Event(c, i, Minus(Body[c][i].frame, FrameBase(c)))
  BY <1>1 DEF Normalized
<1>3. \A i \in 1 .. Len(Body[c]) : Normalized(c)[i] \in FramedEvents
  BY <1>1 DEF FramedEvents
<1>4. Normalized(c) = [i \in 1 .. Len(Body[c]) |-> Normalized(c)[i]]
  BY <1>1 DEF Normalized
<1>5. Normalized(c) \in Seq(FramedEvents) /\ Len(Normalized(c)) = Len(Body[c])
  <2>1. Normalized(c) \in [1 .. Len(Body[c]) -> FramedEvents]
    BY <1>3, <1>4
  <2>2. QED
    BY <1>1, <2>1
<1>6. QED
  <2>1. \A i \in 1 .. Len(Body[c]) : Normalized(c)[i].call = c /\ Normalized(c)[i].n = i
    BY <1>2, EventFields
  <2>2. QED
    BY <1>5, <2>1 DEF Block

LEMMA Assoc == \A E : \A s, t, u \in Seq(E) : (s \o t) \o u = s \o (t \o u)
BY ConcatAssociative

Taken(q, n) == SubSeq(q, 1, n)
Left(q, n) == SubSeq(q, n + 1, Len(q))

\* A queue is cut in two without a loss.
LEMMA CutFacts ==
  ASSUME NEW E, NEW s \in Seq(E), NEW q \in Seq(E), NEW n \in 0 .. Len(q)
  PROVE  /\ Taken(q, n) \in Seq(E) /\ Len(Taken(q, n)) = n
         /\ Left(q, n) \in Seq(E)
         /\ s \o Taken(q, n) \in Seq(E)
         /\ (s \o Taken(q, n)) \o Left(q, n) = s \o q
<1>1. Len(q) \in Nat /\ \A i \in 1 .. Len(q) : q[i] \in E
  BY ElementOfSeq, LenProperties
<1>2. n \in Int /\ 1 \in Int /\ n + 1 \in Int /\ Len(q) \in Int
  BY <1>1
<1>3. (\A i \in 1 .. n : q[i] \in E) /\ (\A i \in n + 1 .. Len(q) : q[i] \in E)
  BY <1>1
<1>4. SubSeq(q, 1, n) \in Seq(E) /\ Len(SubSeq(q, 1, n)) = n
  BY <1>1, <1>2, <1>3, SubSeqProperties
<1>5. SubSeq(q, n + 1, Len(q)) \in Seq(E)
  BY <1>2, <1>3, SubSeqProperties
<1>6. SubSeq(q, 1, n) \o SubSeq(q, n + 1, Len(q)) = q
  <2>1. 1 \in 1 .. Len(q) + 1 /\ n \in 1 - 1 .. Len(q) /\ Len(q) \in n .. Len(q)
    BY <1>1
  <2>2. SubSeq(q, 1, n) \o SubSeq(q, n + 1, Len(q)) = SubSeq(q, 1, Len(q))
    BY <2>1, ConcatAdjacentSubSeq
  <2>3. QED
    BY <2>2, SubSeqFull
<1>7. s \o SubSeq(q, 1, n) \in Seq(E)
  BY <1>4, ConcatProperties
<1>8. (s \o SubSeq(q, 1, n)) \o SubSeq(q, n + 1, Len(q))
        = s \o (SubSeq(q, 1, n) \o SubSeq(q, n + 1, Len(q)))
  <2> DEFINE a == SubSeq(q, 1, n)
             b == SubSeq(q, n + 1, Len(q))
  <2>1. a \in Seq(E) /\ b \in Seq(E)
    BY <1>4, <1>5
  <2> HIDE DEF a, b
  <2>2. (s \o a) \o b = s \o (a \o b)
    BY <2>1, Assoc, SMTT(30)
  <2>3. QED
    BY <2>2 DEF a, b
<1>9. QED
  BY <1>4, <1>5, <1>6, <1>7, <1>8 DEF Taken, Left

\* the order of the events of a call in a sequence
Ordered(c, s) == \A k, l \in PlacesOf(c, s) : k < l => s[k].n < s[l].n

\* A block is added for a call that has no events, and others are not disturbed.
LEMMA AddBlock ==
  ASSUME NEW E, NEW s \in Seq(E), NEW b \in Seq(E), NEW c \in Calls, Block(b, c),
         NumbersOf(c, s) = {}
  PROVE  /\ NumbersOf(c, s \o b) = DOMAIN Body[c] /\ Ordered(c, s \o b)
         /\ \A d : d # c => /\ NumbersOf(d, s \o b) = NumbersOf(d, s)
                            /\ Ordered(d, s) => Ordered(d, s \o b)
<1> DEFINE t == s \o b
           m == Len(s)
<1>1. /\ m \in Nat /\ Len(b) \in Nat /\ DOMAIN s = 1 .. m
      /\ DOMAIN Body[c] = 1 .. Len(b)
  BY LenProperties, BodyFacts DEF Block
<1>2. /\ t \in Seq(E) /\ Len(t) = m + Len(b)
      /\ \A i \in 1 .. m + Len(b) : t[i] = IF i <= m THEN s[i] ELSE b[i - m]
  BY ConcatProperties
<1>3. DOMAIN t = 1 .. m + Len(b)
  BY <1>2, LenProperties
<1> HIDE DEF t, m
<1>4. PlacesOf(c, s) = {}
  BY DEF NumbersOf
<1>5. \A i \in 1 .. m : i \in DOMAIN t /\ t[i] = s[i]
  BY <1>1, <1>2, <1>3
<1>6. \A i \in 1 .. Len(b) : /\ m + i \in DOMAIN t /\ t[m + i].call = c
                             /\ t[m + i].n = i
  <2> TAKE i \in 1 .. Len(b)
  <2>1. m + i \in 1 .. m + Len(b) /\ ~ (m + i <= m) /\ (m + i) - m = i
    BY <1>1
  <2>2. t[m + i] = b[i]
    BY <1>2, <2>1
  <2>3. QED
    BY <1>3, <2>1, <2>2 DEF Block
<1>7. \A k \in DOMAIN t : k \in 1 .. m \/ \E i \in 1 .. Len(b) : k = m + i
  <2> TAKE k \in DOMAIN t
  <2>1. CASE k <= m
    BY <1>1, <1>3, <2>1
  <2>2. CASE ~ (k <= m)
    <3>1. k - m \in 1 .. Len(b) /\ k = m + (k - m)
      BY <1>1, <1>3, <2>2
    <3>2. QED
      BY <3>1
  <2>3. QED
    BY <2>1, <2>2
<1>8. \A k \in PlacesOf(c, t) : \E i \in 1 .. Len(b) : k = m + i /\ t[k].n = i
  <2> TAKE k \in PlacesOf(c, t)
  <2>1. k \in DOMAIN t /\ t[k].call = c
    BY DEF PlacesOf
  <2>2. k \notin 1 .. m
    BY <1>1, <1>4, <1>5, <2>1 DEF PlacesOf
  <2>3. QED
    BY <1>6, <1>7, <2>1, <2>2
<1>9. NumbersOf(c, t) = 1 .. Len(b)
  <2>1. ASSUME NEW i \in 1 .. Len(b) PROVE i \in NumbersOf(c, t)
    <3>1. m + i \in PlacesOf(c, t) /\ t[m + i].n = i
      BY <1>6 DEF PlacesOf
    <3>2. QED
      BY <3>1 DEF NumbersOf
  <2>2. ASSUME NEW x \in NumbersOf(c, t) PROVE x \in 1 .. Len(b)
    BY <1>8 DEF NumbersOf
  <2>3. QED
    BY <2>1, <2>2
<1>10. Ordered(c, t)
  <2> SUFFICES ASSUME NEW k \in PlacesOf(c, t), NEW l \in PlacesOf(c, t), k < l
               PROVE  t[k].n < t[l].n
    BY DEF Ordered
  <2>1. PICK i \in 1 .. Len(b) : k = m + i /\ t[k].n = i
    BY <1>8
  <2>2. PICK j \in 1 .. Len(b) : l = m + j /\ t[l].n = j
    BY <1>8
  <2>3. QED
    BY <1>1, <2>1, <2>2
<1>11. ASSUME NEW d, d # c
       PROVE  /\ NumbersOf(d, t) = NumbersOf(d, s)
              /\ Ordered(d, s) => Ordered(d, t)
  <2>1. PlacesOf(d, t) = PlacesOf(d, s)
    <3>1. ASSUME NEW k \in PlacesOf(d, t) PROVE k \in PlacesOf(d, s)
      <4>1. k \in DOMAIN t /\ t[k].call = d
        BY <3>1 DEF PlacesOf
      <4>2. k \in 1 .. m
        BY <1>6, <1>7, <1>11, <4>1
      <4>3. QED
        BY <1>1, <1>5, <4>1, <4>2 DEF PlacesOf
    <3>2. ASSUME NEW k \in PlacesOf(d, s) PROVE k \in PlacesOf(d, t)
      BY <1>1, <1>5, <3>2 DEF PlacesOf
    <3>3. QED
      BY <3>1, <3>2
  <2>2. \A k \in PlacesOf(d, s) : t[k] = s[k]
    BY <1>1, <1>5 DEF PlacesOf
  <2>3. QED
    BY <2>1, <2>2 DEF NumbersOf, Ordered
<1>12. QED
  BY <1>1, <1>9, <1>10, <1>11 DEF t

\* What is dispatched of a queue goes from its front to the end of what was sent.
LEMMA DispatchMoves ==
  ASSUME TypeOK, NEW name \in {"pic", "frm"}, NEW E, NEW q \in Seq(E),
         sent[name] \in Seq(E), NEW n \in 0 .. Len(q), Dispatch(name, q, n)
  PROVE  /\ sent' = [sent EXCEPT ![name] = @ \o SubSeq(q, 1, n)]
         /\ sent[name] \o SubSeq(q, 1, n) \in Seq(E)
         /\ (sent[name] \o SubSeq(q, 1, n)) \o SubSeq(q, n + 1, Len(q)) = sent[name] \o q
         /\ SubSeq(q, n + 1, Len(q)) \in Seq(E)
         /\ kbd' \in Keyboards /\ refused' \in BOOLEAN
<1>1. Len(q) \in Nat
  BY LenProperties
<1>2. kbd \in Keyboards /\ refused \in BOOLEAN
  BY DEF TypeOK, Keyboards
<1>3. KbdAfter(q, n) \in Keyboards
  BY <1>1, <1>2, KbdAfterType
<1>4. sent' = [sent EXCEPT ![name] = @ \o SubSeq(q, 1, n)] /\ kbd' \in Keyboards
  BY <1>3 DEF Dispatch
<1>5. refused' \in BOOLEAN
  BY <1>2 DEF Dispatch
<1>6. /\ sent[name] \o Taken(q, n) \in Seq(E) /\ Left(q, n) \in Seq(E)
      /\ (sent[name] \o Taken(q, n)) \o Left(q, n) = sent[name] \o q
  <2> DEFINE s == sent[name]
  <2>1. s \in Seq(E)
    OBVIOUS
  <2> HIDE DEF s
  <2>2. s \o Taken(q, n) \in Seq(E) /\ Left(q, n) \in Seq(E)
    BY <2>1, CutFacts
  <2>3. (s \o Taken(q, n)) \o Left(q, n) = s \o q
    BY <2>1, CutFacts, SMTT(30)
  <2>4. QED
    BY <2>2, <2>3 DEF s
<1>7. QED
  BY <1>4, <1>5, <1>6 DEF Taken, Left

\* what SentInOrder says of the events of a call, in its queue
InOrder(c, s, what) ==
  /\ NumbersOf(c, s) = IF what = "ok" THEN DOMAIN Body[c] ELSE {}
  /\ Ordered(c, s)

PicStream == sent.pic \o pic
FrmStream == sent.frm \o frm

OrderInv ==
  /\ TypeOK
  /\ \A c \in Calls \ FrameBased : InOrder(c, PicStream, outcome[c])
  /\ \A c \in FrameBased : InOrder(c, FrmStream, outcome[c])

LEMMA OrderInvIsSentInOrder == OrderInv <=> SentInOrder
<1>1. ASSUME NEW c \in FrameBased
      PROVE  c \in Calls /\ Stream(c) = FrmStream
  BY ReplayAssumption DEF Stream, FrmStream
<1>2. ASSUME NEW c \in Calls \ FrameBased PROVE Stream(c) = PicStream
  BY DEF Stream, PicStream
<1>3. OrderInv => SentInOrder
  <2> SUFFICES ASSUME OrderInv, NEW c \in Calls
               PROVE  InOrder(c, Stream(c), outcome[c])
    BY DEF OrderInv, SentInOrder, InOrder, Ordered
  <2>1. QED
    BY <1>1, <1>2 DEF OrderInv
<1>4. SentInOrder => OrderInv
  <2> SUFFICES ASSUME SentInOrder PROVE OrderInv
    OBVIOUS
  <2>1. TypeOK /\ \A c \in Calls : InOrder(c, Stream(c), outcome[c])
    BY DEF SentInOrder, InOrder, Ordered
  <2>2. QED
    BY <1>1, <1>2, <2>1 DEF OrderInv
<1>5. QED
  BY <1>3, <1>4

LEMMA InitInOrder == Init => OrderInv
<1> SUFFICES ASSUME Init PROVE OrderInv
  OBVIOUS
<1>1. TypeOK
  <2>1. KeyBufferSize \in Nat /\ MaxFrame \in Nat /\ MaxStart \in Nat /\ MaxHostKeys \in Nat
    BY ReplayAssumption
  <2>2. <<>> \in Seq(TimedEvents) /\ <<>> \in Seq(FramedEvents)
    BY EmptySeq
  <2>3. 0 \in 0 .. KeyBufferSize /\ 0 \in 0 .. MaxFrame /\ 0 \in 0 .. MaxStart /\ 0 \in 0 .. MaxHostKeys
    BY <2>1
  <2>4. kbd \in Keyboards
    BY <2>3 DEF Init, Keyboards
  <2>5. outcome \in [Calls -> {"none", "ok", "busy"}] /\ began \in [Calls -> 0 .. MaxStart]
    BY <2>3 DEF Init
  <2>6. sent \in [pic : Seq(TimedEvents), frm : Seq(FramedEvents)]
    BY <2>2 DEF Init
  <2>7. /\ pic \in Seq(TimedEvents) /\ frm \in Seq(FramedEvents)
        /\ refused \in BOOLEAN /\ active \in BOOLEAN
    BY <2>2 DEF Init
  <2>8. chain \in Nat /\ frame \in 0 .. MaxFrame /\ start \in 0 .. frame /\ hostKeys \in 0 .. MaxHostKeys
    BY <2>3 DEF Init
  <2>9. QED
    BY <2>4, <2>5, <2>6, <2>7, <2>8 DEF TypeOK, Keyboards
<1>2. <<>> \o <<>> = <<>> /\ DOMAIN <<>> = {}
  OBVIOUS
<1>3. ASSUME NEW c PROVE NumbersOf(c, <<>>) = {} /\ Ordered(c, <<>>)
  BY DEF NumbersOf, PlacesOf, Ordered
<1>4. PicStream = <<>> /\ FrmStream = <<>>
  BY <1>2 DEF Init, PicStream, FrmStream
<1>5. \A c \in Calls : outcome[c] # "ok"
  BY DEF Init
<1>6. QED
  BY <1>1, <1>3, <1>4, <1>5, ReplayAssumption DEF OrderInv, InOrder

\* A timed call is refused, or its events follow all that its queue ever held.
LEMMA ExecutePicInOrder ==
  ASSUME OrderInv, NEW c \in Calls, ExecutePicBased(c)
  PROVE  OrderInv'
<1>1. TypeOK /\ outcome[c] = "none" /\ c \notin FrameBased
  BY DEF OrderInv, ExecutePicBased
<1>2. /\ UNCHANGED <<frm, active, start, frame, kbd, hostKeys, began, sent, refused>>
  BY DEF ExecutePicBased, frmVars, sentVars
<1>3. FrmStream' = FrmStream
  BY <1>2 DEF FrmStream
<1>4. \A d \in FrameBased : d # c /\ d \in Calls
  BY <1>1, ReplayAssumption
<1>5. outcome \in [Calls -> {"none", "ok", "busy"}]
  BY <1>1 DEF TypeOK
<1>6. CASE pic # <<>>
  <2>1. outcome' = [outcome EXCEPT ![c] = "busy"] /\ UNCHANGED <<pic, chain>>
    BY <1>6 DEF ExecutePicBased, Told, picVars
  <2>2. TypeOK'
    BY <1>1, <1>2, <2>1 DEF TypeOK
  <2>3. PicStream' = PicStream
    BY <1>2, <2>1 DEF PicStream
  <2>4. \A d \in Calls : outcome'[d] = "ok" <=> outcome[d] = "ok"
    BY <1>1, <1>5, <2>1
  <2>5. QED
    BY <1>3, <1>4, <2>2, <2>3, <2>4 DEF OrderInv, InOrder
<1>7. CASE pic = <<>>
  <2>1. /\ outcome' = [outcome EXCEPT ![c] = "ok"]
        /\ pic' = pic \o Timed(c)
        /\ chain' = chain + (IF Body[c] = <<>> THEN 0 ELSE 1)
    BY <1>7 DEF ExecutePicBased, Told
  <2>2. /\ pic \in Seq(TimedEvents) /\ sent.pic \in Seq(TimedEvents)
        /\ Timed(c) \in Seq(TimedEvents) /\ Block(Timed(c), c)
    BY <1>1, TimedBlock DEF TypeOK
  <2>3. pic' \in Seq(TimedEvents)
    BY <2>1, <2>2, ConcatProperties
  <2>4. chain' \in Nat
    BY <1>1, <2>1 DEF TypeOK
  <2>5. outcome' \in [Calls -> {"none", "ok", "busy"}]
    BY <1>5, <2>1
  <2>6. TypeOK'
    BY <1>1, <1>2, <2>3, <2>4, <2>5 DEF TypeOK
  <2>7. PicStream \in Seq(TimedEvents)
    BY <2>2, ConcatProperties DEF PicStream
  <2>8. PicStream' = PicStream \o Timed(c)
    <3> DEFINE a == sent.pic
               b == pic
               d == Timed(c)
    <3>1. a \in Seq(TimedEvents) /\ b \in Seq(TimedEvents) /\ d \in Seq(TimedEvents)
      BY <2>2
    <3> HIDE DEF a, b, d
    <3>2. (a \o b) \o d = a \o (b \o d)
      BY <3>1, Assoc
    <3>3. (sent.pic \o pic) \o Timed(c) = sent.pic \o (pic \o Timed(c))
      BY <3>2 DEF a, b, d
    <3>4. QED
      BY <1>2, <2>1, <3>3 DEF PicStream
  <2>9. InOrder(c, PicStream, outcome[c])
    BY <1>1 DEF OrderInv
  <2>10. NumbersOf(c, PicStream) = {}
    BY <1>1, <2>9 DEF InOrder
  <2>11. /\ NumbersOf(c, PicStream') = DOMAIN Body[c] /\ Ordered(c, PicStream')
         /\ \A d : d # c => /\ NumbersOf(d, PicStream') = NumbersOf(d, PicStream)
                            /\ Ordered(d, PicStream) => Ordered(d, PicStream')
    BY <2>2, <2>7, <2>8, <2>10, AddBlock
  <2>12. outcome'[c] = "ok" /\ \A d \in Calls : d # c => outcome'[d] = outcome[d]
    BY <1>5, <2>1
  <2>13. ASSUME NEW d \in Calls \ FrameBased PROVE InOrder(d, PicStream', outcome'[d])
    <3>1. CASE d = c
      BY <2>11, <2>12, <3>1 DEF InOrder
    <3>2. CASE d # c
      BY <2>11, <2>12, <3>2 DEF InOrder, OrderInv
    <3>3. QED
      BY <3>1, <3>2
  <2>14. \A d \in FrameBased : InOrder(d, FrmStream', outcome'[d])
    BY <1>3, <1>4, <2>12 DEF OrderInv
  <2>15. QED
    BY <2>6, <2>13, <2>14 DEF OrderInv
<1>8. QED
  BY <1>6, <1>7

\* The same of a framed call.
LEMMA ExecuteFrameInOrder ==
  ASSUME OrderInv, NEW c \in Calls, ExecuteFrameBased(c)
  PROVE  OrderInv'
<1>1. TypeOK /\ outcome[c] = "none" /\ c \in FrameBased /\ frame <= MaxStart
  BY DEF OrderInv, ExecuteFrameBased
<1>2. UNCHANGED <<pic, chain, frame, kbd, hostKeys, sent, refused>>
  BY DEF ExecuteFrameBased, picVars, sentVars
<1>3. PicStream' = PicStream
  BY <1>2 DEF PicStream
<1>4. \A d \in Calls \ FrameBased : d # c
  BY <1>1
<1>5. outcome \in [Calls -> {"none", "ok", "busy"}]
  BY <1>1 DEF TypeOK
<1>6. CASE active
  <2>1. outcome' = [outcome EXCEPT ![c] = "busy"] /\ UNCHANGED <<frm, active, start, began>>
    BY <1>6 DEF ExecuteFrameBased, Told, frmVars
  <2>2. TypeOK'
    BY <1>1, <1>2, <2>1 DEF TypeOK
  <2>3. FrmStream' = FrmStream
    BY <1>2, <2>1 DEF FrmStream
  <2>4. \A d \in Calls : outcome'[d] = "ok" <=> outcome[d] = "ok"
    BY <1>1, <1>5, <2>1
  <2>5. QED
    BY <1>3, <2>2, <2>3, <2>4, ReplayAssumption DEF OrderInv, InOrder
<1>7. CASE ~ active
  <2>1. /\ outcome' = [outcome EXCEPT ![c] = "ok"]
        /\ frm' = frm \o Normalized(c)
        /\ active' = (frm' # <<>>)
        /\ start' = IF frm' # <<>> THEN frame ELSE start
        /\ began' = [began EXCEPT ![c] = frame]
    BY <1>7 DEF ExecuteFrameBased, Told
  <2>2. /\ frm \in Seq(FramedEvents) /\ sent.frm \in Seq(FramedEvents)
        /\ Normalized(c) \in Seq(FramedEvents) /\ Block(Normalized(c), c)
    BY <1>1, FramedBlock DEF TypeOK
  <2>3. frm' \in Seq(FramedEvents)
    BY <2>1, <2>2, ConcatProperties
  <2>4. active' \in BOOLEAN /\ start' \in 0 .. frame
    <3>1. start \in 0 .. frame /\ frame \in Nat
      BY <1>1, ReplayAssumption DEF TypeOK
    <3>2. QED
      BY <2>1, <3>1
  <2>5. began' \in [Calls -> 0 .. MaxStart]
    <3>1. frame \in 0 .. MaxStart
      BY <1>1, ReplayAssumption DEF TypeOK
    <3>2. QED
      BY <1>1, <2>1, <3>1 DEF TypeOK
  <2>6. outcome' \in [Calls -> {"none", "ok", "busy"}]
    BY <1>5, <2>1
  <2>7. TypeOK'
    BY <1>1, <1>2, <2>3, <2>4, <2>5, <2>6 DEF TypeOK
  <2>8. FrmStream \in Seq(FramedEvents)
    BY <2>2, ConcatProperties DEF FrmStream
  <2>9. FrmStream' = FrmStream \o Normalized(c)
    <3> DEFINE a == sent.frm
               b == frm
               d == Normalized(c)
    <3>1. a \in Seq(FramedEvents) /\ b \in Seq(FramedEvents) /\ d \in Seq(FramedEvents)
      BY <2>2
    <3> HIDE DEF a, b, d
    <3>2. (a \o b) \o d = a \o (b \o d)
      BY <3>1, Assoc
    <3>3. (sent.frm \o frm) \o Normalized(c) = sent.frm \o (frm \o Normalized(c))
      BY <3>2 DEF a, b, d
    <3>4. QED
      BY <1>2, <2>1, <3>3 DEF FrmStream
  <2>10. NumbersOf(c, FrmStream) = {}
    BY <1>1 DEF InOrder, OrderInv
  <2>11. /\ NumbersOf(c, FrmStream') = DOMAIN Body[c] /\ Ordered(c, FrmStream')
         /\ \A d : d # c => /\ NumbersOf(d, FrmStream') = NumbersOf(d, FrmStream)
                            /\ Ordered(d, FrmStream) => Ordered(d, FrmStream')
    BY <2>2, <2>8, <2>9, <2>10, AddBlock
  <2>12. outcome'[c] = "ok" /\ \A d \in Calls : d # c => outcome'[d] = outcome[d]
    BY <1>5, <2>1
  <2>13. ASSUME NEW d \in FrameBased PROVE InOrder(d, FrmStream', outcome'[d])
    <3>1. CASE d = c
      BY <2>11, <2>12, <3>1 DEF InOrder
    <3>2. CASE d # c
      BY <2>11, <2>12, <3>2, ReplayAssumption DEF InOrder, OrderInv
    <3>3. QED
      BY <3>1, <3>2
  <2>14. \A d \in Calls \ FrameBased : InOrder(d, PicStream', outcome'[d])
    BY <1>3, <1>4, <2>12 DEF OrderInv
  <2>15. QED
    BY <2>7, <2>13, <2>14 DEF OrderInv
<1>8. QED
  BY <1>6, <1>7

\* A step that leaves both streams and the answers alone
LEMMA StreamsKept ==
  ASSUME OrderInv, TypeOK', PicStream' = PicStream, FrmStream' = FrmStream,
         UNCHANGED outcome
  PROVE  OrderInv'
BY DEF OrderInv

LEMMA KeyboardInOrder ==
  ASSUME OrderInv, GuestReads \/ HostKey
  PROVE  OrderInv'
<1>1. TypeOK
  BY DEF OrderInv
<1>2. UNCHANGED <<pic, chain, frm, active, start, frame, outcome, began, sent, refused>>
  BY DEF GuestReads, HostKey, picVars, frmVars, callVars, sentVars
<1>3. kbd \in Keyboards /\ kbd.held \in 0 .. KeyBufferSize /\ KeyBufferSize \in Nat
  BY <1>1, ReplayAssumption DEF TypeOK, Keyboards
<1>4. kbd' \in Keyboards /\ hostKeys' \in 0 .. MaxHostKeys
  <2>1. CASE GuestReads
    <3>1. Minus(kbd.held, 1) \in 0 .. KeyBufferSize
      BY <1>3 DEF Minus
    <3>2. QED
      BY <1>1, <2>1, <3>1 DEF GuestReads, Keyboards, TypeOK
  <2>2. CASE HostKey
    <3>1. hostKeys' \in 0 .. MaxHostKeys
      BY <1>1, <2>2, ReplayAssumption DEF HostKey, TypeOK
    <3>2. QED
      BY <1>3, <2>2, <3>1, AddKeyType DEF HostKey
  <2>3. QED
    BY <2>1, <2>2
<1>5. TypeOK'
  BY <1>1, <1>2, <1>4 DEF TypeOK, Keyboards
<1>6. PicStream' = PicStream /\ FrmStream' = FrmStream
  BY <1>2 DEF PicStream, FrmStream
<1>7. QED
  BY <1>2, <1>5, <1>6, StreamsKept

LEMMA PicHandlerInOrder ==
  ASSUME OrderInv, PicHandler
  PROVE  OrderInv'
<1>1. TypeOK
  BY DEF OrderInv
<1>2. UNCHANGED <<frm, active, start, frame, hostKeys, outcome, began>> /\ chain > 0
  BY DEF PicHandler, frmVars, callVars
<1>3. CASE UNCHANGED <<pic, kbd, sentVars>>
  <2>1. chain' \in Nat
    BY <1>1, <1>2 DEF PicHandler, TypeOK, picVars
  <2>2. TypeOK'
    BY <1>1, <1>2, <1>3, <2>1 DEF TypeOK, sentVars
  <2>3. PicStream' = PicStream /\ FrmStream' = FrmStream
    BY <1>2, <1>3 DEF PicStream, FrmStream, sentVars
  <2>4. QED
    BY <1>2, <2>2, <2>3, StreamsKept
<1>4. CASE /\ pic # <<>> /\ Dispatch("pic", pic, 1) /\ pic' = Tail(pic)
           /\ chain' = IF Tail(pic) = <<>> THEN chain - 1 ELSE chain
  <2>1. pic \in Seq(TimedEvents) /\ sent["pic"] \in Seq(TimedEvents)
    BY <1>1 DEF TypeOK
  <2>2. Len(pic) \in Nat /\ 1 \in 0 .. Len(pic)
    BY <1>4, <2>1, EmptySeq, LenProperties
  <2>3. Tail(pic) = SubSeq(pic, 1 + 1, Len(pic))
    BY <1>4, <2>1, TailIsSubSeq
  <2>4. /\ sent' = [sent EXCEPT !["pic"] = @ \o SubSeq(pic, 1, 1)]
        /\ sent["pic"] \o SubSeq(pic, 1, 1) \in Seq(TimedEvents)
        /\ (sent["pic"] \o SubSeq(pic, 1, 1)) \o SubSeq(pic, 1 + 1, Len(pic))
             = sent["pic"] \o pic
        /\ SubSeq(pic, 1 + 1, Len(pic)) \in Seq(TimedEvents)
        /\ kbd' \in Keyboards /\ refused' \in BOOLEAN
    BY <1>1, <1>4, <2>1, <2>2, DispatchMoves
  <2>5. sent'.pic = sent["pic"] \o SubSeq(pic, 1, 1) /\ sent'.frm = sent.frm
    BY <1>1, <2>4 DEF TypeOK
  <2>6. sent' \in [pic : Seq(TimedEvents), frm : Seq(FramedEvents)]
    BY <1>1, <2>4 DEF TypeOK
  <2>7. chain' \in Nat /\ pic' \in Seq(TimedEvents)
    BY <1>1, <1>2, <1>4, <2>3, <2>4 DEF TypeOK
  <2>8. TypeOK'
    BY <1>1, <1>2, <2>4, <2>6, <2>7 DEF TypeOK, Keyboards
  <2>9. PicStream' = PicStream
    BY <1>4, <2>3, <2>4, <2>5 DEF PicStream
  <2>10. FrmStream' = FrmStream
    BY <1>2, <2>5 DEF FrmStream
  <2>11. QED
    BY <1>2, <2>8, <2>9, <2>10, StreamsKept
<1>5. QED
  BY <1>3, <1>4 DEF PicHandler, picVars

LEMMA RenderFrameInOrder ==
  ASSUME OrderInv, RenderFrame
  PROVE  OrderInv'
<1>1. TypeOK
  BY DEF OrderInv
<1>2. UNCHANGED <<pic, chain, hostKeys, outcome, began>> /\ frame' = NextFrame
  BY DEF RenderFrame, picVars, callVars
<1>3. /\ frame' \in 0 .. MaxFrame /\ frame <= frame' /\ frame \in Nat /\ frame' \in Nat
      /\ start \in 0 .. frame'
  BY <1>1, <1>2, ReplayAssumption DEF NextFrame, TypeOK
<1>4. CASE ~ active
  <2>1. UNCHANGED <<frm, active, start, kbd, sent, refused>>
    BY <1>4 DEF RenderFrame, frmVars, sentVars
  <2>2. TypeOK'
    BY <1>1, <1>2, <1>3, <2>1 DEF TypeOK
  <2>3. PicStream' = PicStream /\ FrmStream' = FrmStream
    BY <1>2, <2>1 DEF PicStream, FrmStream
  <2>4. QED
    BY <1>2, <2>2, <2>3, StreamsKept
<1>5. CASE active
  <2>1. PICK n \in 0 .. Len(frm) :
          /\ Dispatch("frm", frm, n)
          /\ frm' = SubSeq(frm, n + 1, Len(frm))
          /\ active' = (frm' # <<>>)
          /\ UNCHANGED start
    BY <1>5 DEF RenderFrame
  <2>2. frm \in Seq(FramedEvents) /\ sent["frm"] \in Seq(FramedEvents)
    BY <1>1 DEF TypeOK
  <2>3. /\ sent' = [sent EXCEPT !["frm"] = @ \o SubSeq(frm, 1, n)]
        /\ sent["frm"] \o SubSeq(frm, 1, n) \in Seq(FramedEvents)
        /\ (sent["frm"] \o SubSeq(frm, 1, n)) \o SubSeq(frm, n + 1, Len(frm))
             = sent["frm"] \o frm
        /\ SubSeq(frm, n + 1, Len(frm)) \in Seq(FramedEvents)
        /\ kbd' \in Keyboards /\ refused' \in BOOLEAN
    BY <1>1, <2>1, <2>2, DispatchMoves
  <2>4. sent'.frm = sent["frm"] \o SubSeq(frm, 1, n) /\ sent'.pic = sent.pic
    BY <1>1, <2>3 DEF TypeOK
  <2>5. sent' \in [pic : Seq(TimedEvents), frm : Seq(FramedEvents)]
    BY <1>1, <2>3 DEF TypeOK
  <2>6. active' \in BOOLEAN
    BY <2>1
  <2>7. TypeOK'
    BY <1>1, <1>2, <1>3, <2>1, <2>3, <2>5, <2>6 DEF TypeOK, Keyboards
  <2>8. FrmStream' = FrmStream
    BY <2>1, <2>3, <2>4 DEF FrmStream
  <2>9. PicStream' = PicStream
    BY <1>2, <2>4 DEF PicStream
  <2>10. QED
    BY <1>2, <2>7, <2>8, <2>9, StreamsKept
<1>6. QED
  BY <1>4, <1>5

LEMMA NextInOrder ==
  ASSUME OrderInv, [Next]_vars
  PROVE  OrderInv'
<1>1. CASE UNCHANGED vars
  <2>1. UNCHANGED <<pic, chain, frm, active, start, frame, kbd, hostKeys, outcome,
                    began, sent, refused>>
    BY <1>1 DEF vars, picVars, frmVars, callVars, sentVars
  <2>2. TypeOK'
    BY <2>1 DEF OrderInv, TypeOK
  <2>3. PicStream' = PicStream /\ FrmStream' = FrmStream
    BY <2>1 DEF PicStream, FrmStream
  <2>4. QED
    BY <2>1, <2>2, <2>3, StreamsKept
<1>2. QED
  BY <1>1, ExecutePicInOrder, ExecuteFrameInOrder, KeyboardInOrder,
     PicHandlerInOrder, RenderFrameInOrder DEF Next

\* Of an accepted call every event is dispatched once and in order, through
\* retries, full keyboards, the limit per frame and a second sequence that runs
\* at the same time (pic_input_handler, ReplayDispatchFrame); of a refused call
\* none.
THEOREM EveryEventOnceInOrder == Spec => []SentInOrder
<1>1. Init => OrderInv
  BY InitInOrder
<1>2. OrderInv /\ [Next]_vars => OrderInv'
  BY NextInOrder
<1>3. OrderInv => SentInOrder
  BY OrderInvIsSentInOrder
<1>4. QED
  BY <1>1, <1>2, <1>3, PTL DEF Spec

-----------------------------------------------------------------------------
(* The frames of the events *)

\* A replay is active while framed events are left, all of them of calls that
\* were accepted in the frame that it counts from.
FrameInv ==
  /\ OrderInv
  /\ active <=> frm # <<>>
  /\ \A k \in 1 .. Len(frm) : began[frm[k].call] = start

\* An event of a framed call, with its frame counted from FrameBase
FramedFields(e) ==
  /\ e.call \in FrameBased /\ e.n \in DOMAIN Body[e.call]
  /\ e.frame = Minus(Body[e.call][e.n].frame, FrameBase(e.call))

LEMMA FramedEventFields == \A e \in FramedEvents : FramedFields(e)
<1> SUFFICES ASSUME NEW e \in FramedEvents PROVE FramedFields(e)
  OBVIOUS
<1>1. PICK c \in FrameBased : e \in {Normalized(c)[i] : i \in DOMAIN Body[c]}
  BY DEF FramedEvents
<1>2. PICK i \in DOMAIN Body[c] : e = Normalized(c)[i]
  BY <1>1
<1>3. e = Event(c, i, Minus(Body[c][i].frame, FrameBase(c)))
  BY <1>2 DEF Normalized
<1>4. e.call = c /\ e.n = i /\ e.frame = Minus(Body[c][i].frame, FrameBase(c))
  BY <1>3, EventFields
<1>5. QED
  BY <1>1, <1>2, <1>4 DEF FramedFields

LEMMA FrameBaseType ==
  ASSUME NEW c \in FrameBased
  PROVE  FrameBase(c) \in Nat
<1> DEFINE late == {i \in DOMAIN Body[c] : Body[c][i].frame > 0 \/ Body[c][i].t > 0}
           i0 == CHOOSE i \in late : \A j \in late : i <= j
<1>1. c \in Calls
  BY ReplayAssumption
<1>2. DOMAIN Body[c] \subseteq Nat /\ \A i \in DOMAIN Body[c] : Body[c][i].frame \in Nat
  BY <1>1, BodyFacts
<1>3. CASE late = {}
  BY <1>3 DEF FrameBase
<1>4. CASE late # {}
  <2>1. late \subseteq Nat
    BY <1>2
  <2>2. \E i \in late : \A j \in late : i <= j
    <3> HIDE DEF late
    <3>1. QED
      BY <1>4, <2>1, LeastNumber
  <2>3. i0 \in late
    BY <2>2
  <2>4. FrameBase(c) = Body[c][i0].frame
    BY <1>4 DEF FrameBase
  <2>5. QED
    BY <1>2, <2>3, <2>4
<1>5. QED
  BY <1>3, <1>4

LEMMA ExecuteFrameStarts ==
  ASSUME FrameInv, OrderInv', NEW c \in Calls, ExecuteFrameBased(c)
  PROVE  FrameInv'
<1>1. TypeOK /\ c \in FrameBased
  BY DEF FrameInv, OrderInv, ExecuteFrameBased
<1>2. CASE active
  BY <1>2 DEF FrameInv, ExecuteFrameBased, frmVars
<1>3. CASE ~ active
  <2>1. /\ frm' = frm \o Normalized(c)
        /\ active' = (frm' # <<>>)
        /\ start' = IF frm' # <<>> THEN frame ELSE start
        /\ began' = [began EXCEPT ![c] = frame]
    BY <1>3 DEF ExecuteFrameBased
  <2>2. frm = <<>>
    BY <1>3 DEF FrameInv
  <2>3. Normalized(c) \in Seq(FramedEvents) /\ Block(Normalized(c), c)
    BY <1>1, FramedBlock
  <2>4. frm' = Normalized(c)
    BY <2>1, <2>2, <2>3
  <2>5. began'[c] = frame
    BY <1>1, <2>1 DEF TypeOK
  <2>6. \A k \in 1 .. Len(frm') : frm'[k].call = c
    BY <2>3, <2>4 DEF Block
  <2>7. \A k \in 1 .. Len(frm') : frm' # <<>>
    BY <2>3, <2>4
  <2>8. QED
    BY <2>1, <2>5, <2>6, <2>7 DEF FrameInv
<1>4. QED
  BY <1>2, <1>3

LEMMA RenderFrameStarts ==
  ASSUME FrameInv, OrderInv', RenderFrame
  PROVE  FrameInv'
<1>1. TypeOK /\ UNCHANGED began
  BY DEF FrameInv, OrderInv, RenderFrame, callVars
<1>2. CASE ~ active
  BY <1>1, <1>2 DEF FrameInv, RenderFrame, frmVars
<1>3. CASE active
  <2>1. PICK n \in 0 .. Len(frm) :
          /\ frm' = SubSeq(frm, n + 1, Len(frm))
          /\ active' = (frm' # <<>>)
          /\ UNCHANGED start
    BY <1>3 DEF RenderFrame
  <2>2. frm \in Seq(FramedEvents) /\ Len(frm) \in Nat
    BY <1>1, LenProperties DEF TypeOK
  <2>3. /\ Len(frm') = Len(frm) - n
        /\ \A k \in 1 .. Len(frm') : frm'[k] = frm[n + k]
    BY <2>1, <2>2
  <2>4. ASSUME NEW k \in 1 .. Len(frm') PROVE began'[frm'[k].call] = start'
    <3>1. n + k \in 1 .. Len(frm) /\ frm'[k] = frm[n + k]
      BY <2>2, <2>3
    <3>2. QED
      BY <1>1, <2>1, <3>1 DEF FrameInv
  <2>5. QED
    BY <2>1, <2>4 DEF FrameInv
<1>4. QED
  BY <1>2, <1>3

LEMMA InitFrame == Init => FrameInv
<1> SUFFICES ASSUME Init PROVE FrameInv
  OBVIOUS
<1>1. OrderInv
  BY InitInOrder
<1>2. frm = <<>> /\ active = FALSE /\ Len(<<>>) = 0
  BY DEF Init
<1>3. QED
  BY <1>1, <1>2 DEF FrameInv

LEMMA NextFrameInv ==
  ASSUME FrameInv, [Next]_vars
  PROVE  FrameInv'
<1>1. OrderInv'
  BY NextInOrder DEF FrameInv
<1>2. CASE UNCHANGED <<frm, active, start, began>>
  BY <1>1, <1>2 DEF FrameInv
<1>3. CASE \E c \in Calls : ExecuteFrameBased(c)
  BY <1>1, <1>3, ExecuteFrameStarts
<1>4. CASE RenderFrame
  BY <1>1, <1>4, RenderFrameStarts
<1>5. CASE UNCHANGED vars
  BY <1>2, <1>5 DEF vars, frmVars, callVars
<1>6. CASE GuestReads \/ HostKey \/ PicHandler \/ \E c \in Calls : ExecutePicBased(c)
  BY <1>2, <1>6 DEF GuestReads, HostKey, PicHandler, ExecutePicBased, frmVars, callVars
<1>7. QED
  BY <1>3, <1>4, <1>5, <1>6 DEF Next

\* In this step no framed event is dispatched before its frame, counted from
\* FrameBase.
OnTime ==
  \A c \in FrameBased : \A i \in NewlySent(c) :
    i \in DOMAIN Body[c] /\ frame' + FrameBase(c) >= began[c] + Body[c][i].frame

\* What a step sends beyond what was sent before was taken from the queue, and
\* its frame had come.
LEMMA DispatchedOnTime ==
  ASSUME FrameInv, [Next]_vars
  PROVE  OnTime
<1> SUFFICES ASSUME NEW c \in FrameBased, NEW i \in NewlySent(c)
             PROVE  i \in DOMAIN Body[c] /\ frame' + FrameBase(c) >= began[c] + Body[c][i].frame
  BY DEF OnTime
<1>1. TypeOK /\ TypeOK'
  BY NextInOrder DEF FrameInv, OrderInv
<1>2. PICK k \in PlacesOf(c, sent'.frm) \ DOMAIN sent.frm : i = sent'.frm[k].n
  BY DEF NewlySent
<1>3. k \in DOMAIN sent'.frm /\ sent'.frm[k].call = c /\ k \notin DOMAIN sent.frm
  BY <1>2 DEF PlacesOf
<1>4. sent'.frm # sent.frm
  BY <1>3
<1>5. RenderFrame /\ active
  <2>1. CASE UNCHANGED sent
    BY <1>4, <2>1
  <2>2. CASE PicHandler
    <3>1. CASE UNCHANGED sentVars
      BY <1>4, <3>1 DEF sentVars
    <3>2. CASE Dispatch("pic", pic, 1)
      BY <1>1, <1>4, <3>2 DEF Dispatch, TypeOK
    <3>3. QED
      BY <2>2, <3>1, <3>2 DEF PicHandler
  <2>3. CASE RenderFrame
    BY <1>4, <2>3 DEF RenderFrame, sentVars
  <2>4. QED
    BY <2>1, <2>2, <2>3
    DEF Next, vars, ExecutePicBased, ExecuteFrameBased, GuestReads, HostKey, sentVars
<1>6. PICK n \in 0 .. Len(frm) : Reaches(n) /\ Dispatch("frm", frm, n)
  BY <1>5 DEF RenderFrame, EndsAfter
<1>7. /\ frm \in Seq(FramedEvents) /\ sent.frm \in Seq(FramedEvents)
      /\ Len(frm) \in Nat /\ Len(sent.frm) \in Nat /\ DOMAIN sent.frm = 1 .. Len(sent.frm)
  BY <1>1, LenProperties DEF TypeOK
<1>8. sent'.frm = sent.frm \o SubSeq(frm, 1, n)
  BY <1>1, <1>6 DEF Dispatch, TypeOK
<1>9. PICK j \in 1 .. n : sent'.frm[k] = frm[j]
  <2> DEFINE s == sent.frm
             a == SubSeq(frm, 1, n)
             m == Len(s)
  <2>1. a \in Seq(FramedEvents) /\ Len(a) = n /\ \A j \in 1 .. n : a[j] = frm[j]
    BY <1>7
  <2>2. s \in Seq(FramedEvents) /\ m \in Nat /\ k \notin 1 .. m /\ sent'.frm = s \o a
    BY <1>3, <1>7, <1>8
  <2> HIDE DEF s, a
  <2>3. k \in 1 .. m + n /\ (s \o a)[k] = a[k - m] /\ k - m \in 1 .. n
    <3>1. s \o a \in Seq(FramedEvents) /\ Len(s \o a) = m + n /\ DOMAIN (s \o a) = 1 .. m + n
      <4>1. s \o a \in Seq(FramedEvents) /\ Len(s \o a) = m + n
        BY <2>1, <2>2, ConcatProperties
      <4>2. QED
        BY <4>1, LenProperties
    <3>2. k \in 1 .. m + n
      BY <1>3, <2>2, <3>1
    <3>3. k - m \in 1 .. n
      BY <2>2, <3>2
    <3>4. QED
      BY <2>1, <2>2, <3>2, <3>3
  <2>4. QED
    BY <2>1, <2>2, <2>3
<1>10. j \in 1 .. Len(frm) /\ frm[j].frame <= NextFrame - start
  BY <1>6, <1>7 DEF Reaches
<1>11. FramedFields(frm[j]) /\ frm[j].call = c /\ frm[j].n = i
  <2>1. frm[j] \in FramedEvents
    BY <1>7, <1>10, ElementOfSeq
  <2>2. QED
    BY <1>2, <1>3, <1>9, <2>1, FramedEventFields
<1>12. began[c] = start
  BY <1>10, <1>11 DEF FrameInv
<1>13. /\ i \in DOMAIN Body[c]
       /\ Minus(Body[c][i].frame, FrameBase(c)) <= NextFrame - start
  BY <1>10, <1>11 DEF FramedFields
<1>14. frame' = NextFrame /\ frame' \in Nat /\ start \in Nat /\ start <= frame'
  <2>1. frame' = NextFrame
    BY <1>5 DEF RenderFrame
  <2>2. frame \in Nat /\ MaxFrame \in Nat /\ start \in 0 .. frame
    BY <1>1, ReplayAssumption DEF TypeOK
  <2>3. QED
    BY <2>1, <2>2 DEF NextFrame
<1>15. FrameBase(c) \in Nat /\ Body[c][i].frame \in Nat
  BY <1>13, FrameBaseType, BodyFacts, ReplayAssumption
<1>16. QED
  BY <1>12, <1>13, <1>14, <1>15 DEF Minus

\* A framed event is not dispatched before its frame has come, counted from the
\* frame that the call was accepted in and, in the sequence, from the first event
\* that is not at frame 0 and time 0 (ReplayDispatchFrame, ExecuteFrameBased).
THEOREM NotBeforeItsFrame == Spec => [][OnTime]_vars
<1>1. Init => FrameInv
  BY InitFrame
<1>2. FrameInv /\ [Next]_vars => FrameInv'
  BY NextFrameInv
<1>3. FrameInv /\ [Next]_vars => OnTime
  BY DispatchedOnTime
<1>4. QED
  BY <1>1, <1>2, <1>3, PTL DEF Spec

\* No framed sequence begins at frame 0 and time 0.
BeginsLater == \A c \in FrameBased : Body[c] # <<>> => Body[c][1].frame > 0 \/ Body[c][1].t > 0

LEMMA BaseIsFirst ==
  ASSUME BeginsLater, NEW c \in FrameBased, DOMAIN Body[c] # {}
  PROVE  FrameBase(c) = Body[c][1].frame
<1> DEFINE late == {i \in DOMAIN Body[c] : Body[c][i].frame > 0 \/ Body[c][i].t > 0}
           i0 == CHOOSE i \in late : \A j \in late : i <= j
<1>1. DOMAIN Body[c] = 1 .. Len(Body[c]) /\ Len(Body[c]) \in Nat /\ Body[c] # <<>>
  BY BodyFacts, ReplayAssumption
<1>2. 1 \in late
  BY <1>1 DEF BeginsLater
<1>3. \A j \in late : 1 <= j /\ (j <= 1 => j = 1)
  BY <1>1
<1>4. i0 \in late /\ \A j \in late : i0 <= j
  <2>1. \E i \in late : \A j \in late : i <= j
    BY <1>2, <1>3
  <2>2. QED
    BY <2>1
<1>5. i0 = 1
  BY <1>2, <1>3, <1>4
<1>6. FrameBase(c) = IF late = {} THEN 0 ELSE Body[c][i0].frame
  BY DEF FrameBase
<1>7. QED
  BY <1>2, <1>5, <1>6

\* Of sequences that begin after frame 0 or time 0, no event comes before its
\* distance to the first one has passed.
THEOREM DistanceToTheFirst ==
  ASSUME BeginsLater
  PROVE  Spec => NeverEarly
<1> DEFINE Step == \A c \in FrameBased : \A i \in NewlySent(c) :
                     frame' + Body[c][1].frame >= began[c] + Body[c][i].frame
<1>1. OnTime => Step
  <2> SUFFICES ASSUME OnTime, NEW c \in FrameBased, NEW i \in NewlySent(c)
               PROVE  frame' + Body[c][1].frame >= began[c] + Body[c][i].frame
    OBVIOUS
  <2>1. i \in DOMAIN Body[c] /\ frame' + FrameBase(c) >= began[c] + Body[c][i].frame
    BY DEF OnTime
  <2>2. FrameBase(c) = Body[c][1].frame
    BY <2>1, BaseIsFirst
  <2>3. QED
    BY <2>1, <2>2
<1>2. Spec => [][OnTime]_vars
  BY NotBeforeItsFrame
<1> HIDE DEF Step
<1>3. Spec => [][Step]_vars
  BY <1>1, <1>2, PTL
<1>4. QED
  BY <1>3 DEF NeverEarly, Step

-----------------------------------------------------------------------------
(* Recording beside the replay *)

Noted == [n : Nat, frame : Int]

Entries == [what : {"start", "pause", "key"}, n : Nat, frame : Nat]

\* the pauses among the first i entries of the log
PausesIn(g, i) == {j \in 1 .. i : g[j].what = "pause"}

\* the keys of a log that no pause hides
KeysOf(g) ==
  {i \in DOMAIN g : g[i].what = "key" /\ Cardinality(PausesIn(g, i)) % 2 = 0}

UpTo(g, i) == {j \in KeysOf(g) : j <= i}

\* e holds what KeysOf(g) tells to keep
Matches(e, g) ==
  /\ Len(e) = Cardinality(KeysOf(g))
  /\ \A i \in KeysOf(g) :
       e[Cardinality(UpTo(g, i))] = [n |-> g[i].n, frame |-> g[i].frame - g[1].frame]

RecTypeOK ==
  /\ session \in Sessions
  /\ rec \in [active : BOOLEAN, paused : BOOLEAN, start : Nat, buffer : Seq(Noted)]
  /\ req \in [Requests -> {"none", "checked", "paused", "done"}]
  /\ log \in Seq(Entries)
  /\ DOMAIN answer = Requests
  /\ \A r \in Requests : req[r] = "none" => answer[r].told # "ok"

\* While a recording is active its buffer is what the log since the last start
\* tells to keep, and it is paused after an odd number of pauses.
ActiveInv ==
  rec.active =>
    /\ log # <<>> /\ rec.start = log[1].frame
    /\ rec.paused <=> Cardinality(PausesIn(log, Len(log))) % 2 = 1
    /\ Matches(rec.buffer, log)

RecInv == OrderInv /\ RecTypeOK /\ ActiveInv

LEMMA FinitePauses ==
  ASSUME NEW g \in Seq(Entries), NEW i \in 0 .. Len(g)
  PROVE  IsFiniteSet(PausesIn(g, i)) /\ Cardinality(PausesIn(g, i)) \in Nat
<1>1. i \in Int /\ 1 \in Int
  BY LenProperties
<1>2. IsFiniteSet(1 .. i)
  BY <1>1, FS_Interval
<1>3. PausesIn(g, i) \subseteq 1 .. i
  BY DEF PausesIn
<1>4. QED
  BY <1>2, <1>3, FS_Subset, FS_CardinalityType

LEMMA FiniteKeys ==
  ASSUME NEW g \in Seq(Entries)
  PROVE  IsFiniteSet(KeysOf(g)) /\ Cardinality(KeysOf(g)) \in Nat
<1>1. DOMAIN g = 1 .. Len(g) /\ Len(g) \in Int /\ 1 \in Int
  BY LenProperties
<1>2. IsFiniteSet(1 .. Len(g))
  BY <1>1, FS_Interval
<1>3. KeysOf(g) \subseteq 1 .. Len(g)
  BY <1>1 DEF KeysOf
<1>4. QED
  BY <1>2, <1>3, FS_Subset, FS_CardinalityType

\* What an entry at the end of a log changes
LEMMA AppendEntry ==
  ASSUME NEW g \in Seq(Entries), NEW x \in Entries
  PROVE  LET h == Append(g, x)
             m == Len(g) + 1
         IN  /\ h \in Seq(Entries) /\ Len(h) = m /\ DOMAIN h = 1 .. m /\ h # <<>> /\ h[m] = x
             /\ \A i \in 1 .. Len(g) : h[i] = g[i]
             /\ \A i \in 0 .. Len(g) : PausesIn(h, i) = PausesIn(g, i)
             /\ x.what # "pause" => PausesIn(h, m) = PausesIn(g, Len(g))
             /\ x.what = "pause" => PausesIn(h, m) = PausesIn(g, Len(g)) \cup {m}
<1> DEFINE h == Append(g, x)
           m == Len(g) + 1
<1>1. Len(g) \in Nat /\ DOMAIN g = 1 .. Len(g)
  BY LenProperties
<1>2. /\ h \in Seq(Entries) /\ Len(h) = m /\ h # <<>>
      /\ \A i \in 1 .. Len(g) : h[i] = g[i]
      /\ h[m] = x
  BY <1>1, AppendProperties
<1>3. DOMAIN h = 1 .. m
  BY <1>2, LenProperties
<1> HIDE DEF h
<1>4. ASSUME NEW i \in 0 .. Len(g) PROVE PausesIn(h, i) = PausesIn(g, i)
  <2>1. \A j \in 1 .. i : j \in 1 .. Len(g)
    BY <1>1
  <2>2. QED
    BY <1>2, <2>1 DEF PausesIn
<1>5. \A j \in 1 .. m : j \in 1 .. Len(g) \/ j = m
  BY <1>1
<1>6. m \in 1 .. m /\ (\A j \in 1 .. Len(g) : j \in 1 .. m)
  BY <1>1
<1>7. x.what # "pause" => PausesIn(h, m) = PausesIn(g, Len(g))
  BY <1>2, <1>5, <1>6 DEF PausesIn
<1>8. x.what = "pause" => PausesIn(h, m) = PausesIn(g, Len(g)) \cup {m}
  BY <1>2, <1>5, <1>6 DEF PausesIn
<1>9. QED
  BY <1>2, <1>3, <1>4, <1>7, <1>8 DEF h

\* An entry that is no key, or a hidden one, changes nothing of what is kept.
LEMMA NothingMore ==
  ASSUME NEW g \in Seq(Entries), g # <<>>, NEW x \in Entries, NEW e,
         x.what = "key" => Cardinality(PausesIn(g, Len(g))) % 2 # 0,
         Matches(e, g)
  PROVE  Matches(e, Append(g, x))
<1> DEFINE h == Append(g, x)
           m == Len(g) + 1
<1>1. Len(g) \in Nat /\ DOMAIN g = 1 .. Len(g) /\ 1 \in 1 .. Len(g)
  BY LenProperties, EmptySeq
<1>2. /\ DOMAIN h = 1 .. m /\ h[m] = x
      /\ \A i \in 1 .. Len(g) : h[i] = g[i]
      /\ \A i \in 0 .. Len(g) : PausesIn(h, i) = PausesIn(g, i)
      /\ x.what # "pause" => PausesIn(h, m) = PausesIn(g, Len(g))
  BY AppendEntry
<1> HIDE DEF h
<1>3. \A j \in 1 .. m : j \in 1 .. Len(g) \/ j = m
  BY <1>1
<1>4. \A j \in 1 .. Len(g) : j \in 1 .. m /\ j \in 0 .. Len(g)
  BY <1>1
<1>5. m \notin KeysOf(h)
  <2> SUFFICES ASSUME m \in KeysOf(h) PROVE FALSE
    OBVIOUS
  <2>1. x.what = "key" /\ Cardinality(PausesIn(h, m)) % 2 = 0
    BY <1>2 DEF KeysOf
  <2>2. PausesIn(h, m) = PausesIn(g, Len(g))
    BY <1>2, <2>1
  <2>3. QED
    BY <2>1, <2>2
<1>6. KeysOf(h) = KeysOf(g)
  <2>1. ASSUME NEW i \in KeysOf(h) PROVE i \in KeysOf(g)
    <3>1. i \in 1 .. Len(g)
      BY <1>2, <1>3, <1>5, <2>1 DEF KeysOf
    <3>2. QED
      BY <1>1, <1>2, <1>4, <2>1, <3>1 DEF KeysOf
  <2>2. ASSUME NEW i \in KeysOf(g) PROVE i \in KeysOf(h)
    <3>1. i \in 1 .. Len(g)
      BY <1>1, <2>2 DEF KeysOf
    <3>2. QED
      BY <1>2, <1>4, <2>2, <3>1 DEF KeysOf
  <2>3. QED
    BY <2>1, <2>2
<1>7. \A i \in KeysOf(g) : i \in 1 .. Len(g)
  BY <1>1 DEF KeysOf
<1>8. \A i : UpTo(h, i) = UpTo(g, i)
  BY <1>6 DEF UpTo
<1>9. Matches(e, h)
  BY <1>1, <1>2, <1>6, <1>7, <1>8 DEF Matches
<1>10. QED
  BY <1>9 DEF h

\* A key that no pause hides is kept, behind the others.
LEMMA OneMore ==
  ASSUME NEW g \in Seq(Entries), g # <<>>, NEW x \in Entries, NEW e \in Seq(Noted),
         x.what = "key", Cardinality(PausesIn(g, Len(g))) % 2 = 0,
         Matches(e, g), NEW y \in Noted,
         y = [n |-> x.n, frame |-> x.frame - g[1].frame]
  PROVE  Matches(Append(e, y), Append(g, x))
<1> DEFINE h == Append(g, x)
           d == Append(e, y)
           m == Len(g) + 1
           K == Cardinality(KeysOf(g))
<1>1. Len(g) \in Nat /\ DOMAIN g = 1 .. Len(g) /\ 1 \in 1 .. Len(g)
  BY LenProperties, EmptySeq
<1>2. /\ DOMAIN h = 1 .. m /\ h[m] = x
      /\ \A i \in 1 .. Len(g) : h[i] = g[i]
      /\ \A i \in 0 .. Len(g) : PausesIn(h, i) = PausesIn(g, i)
      /\ x.what # "pause" => PausesIn(h, m) = PausesIn(g, Len(g))
  BY AppendEntry
<1>3. IsFiniteSet(KeysOf(g)) /\ K \in Nat /\ Len(e) = K
  BY FiniteKeys DEF Matches
<1>4. Len(d) = K + 1 /\ d[K + 1] = y /\ \A i \in 1 .. K : d[i] = e[i]
  BY <1>3, AppendProperties
<1> HIDE DEF h, d
<1>5. \A j \in 1 .. m : j \in 1 .. Len(g) \/ j = m
  BY <1>1
<1>6. \A j \in 1 .. Len(g) : j \in 1 .. m /\ j \in 0 .. Len(g) /\ j < m /\ j # m
  BY <1>1
<1>7. \A i \in KeysOf(g) : i \in 1 .. Len(g)
  BY <1>1 DEF KeysOf
<1>8. KeysOf(h) = KeysOf(g) \cup {m} /\ m \notin KeysOf(g)
  <2>1. m \in KeysOf(h)
    <3>1. m \in DOMAIN h /\ PausesIn(h, m) = PausesIn(g, Len(g))
      BY <1>1, <1>2
    <3>2. QED
      BY <1>2, <3>1 DEF KeysOf
  <2>2. ASSUME NEW i \in KeysOf(h), i # m PROVE i \in KeysOf(g)
    <3>1. i \in 1 .. Len(g)
      BY <1>2, <1>5, <2>2 DEF KeysOf
    <3>2. QED
      BY <1>1, <1>2, <1>6, <2>2, <3>1 DEF KeysOf
  <2>3. ASSUME NEW i \in KeysOf(g) PROVE i \in KeysOf(h)
    <3>1. i \in 1 .. Len(g)
      BY <1>7, <2>3
    <3>2. QED
      BY <1>2, <1>6, <2>3, <3>1 DEF KeysOf
  <2>4. QED
    BY <1>6, <1>7, <2>1, <2>2, <2>3
<1>9. Cardinality(KeysOf(h)) = K + 1
  BY <1>3, <1>8, FS_AddElement
<1>10. \A i \in KeysOf(g) : UpTo(h, i) = UpTo(g, i)
  <2> TAKE i \in KeysOf(g)
  <2>1. i \in Nat /\ ~ (m <= i)
    BY <1>1, <1>7
  <2>2. QED
    BY <1>8, <2>1 DEF UpTo
<1>11. UpTo(h, m) = KeysOf(h)
  <2>1. \A i \in KeysOf(h) : i <= m
    BY <1>1, <1>7, <1>8
  <2>2. QED
    BY <2>1 DEF UpTo
<1>12. \A i \in KeysOf(g) : Cardinality(UpTo(g, i)) \in 1 .. K
  <2> TAKE i \in KeysOf(g)
  <2>1. UpTo(g, i) \subseteq KeysOf(g) /\ i \in UpTo(g, i)
    BY <1>7 DEF UpTo
  <2>2. IsFiniteSet(UpTo(g, i)) /\ Cardinality(UpTo(g, i)) <= K
    BY <1>3, <2>1, FS_Subset
  <2>3. Cardinality(UpTo(g, i)) \in Nat /\ Cardinality(UpTo(g, i)) # 0
    BY <2>1, <2>2, FS_CardinalityType, FS_EmptySet
  <2>4. QED
    BY <1>3, <2>2, <2>3
<1>13. h[1] = g[1]
  BY <1>1, <1>2
<1>14. ASSUME NEW i \in KeysOf(h)
       PROVE  d[Cardinality(UpTo(h, i))] = [n |-> h[i].n, frame |-> h[i].frame - h[1].frame]
  <2>1. CASE i = m
    BY <1>2, <1>4, <1>9, <1>11, <1>13, <2>1
  <2>2. CASE i # m
    <3>1. i \in KeysOf(g) /\ i \in 1 .. Len(g)
      BY <1>7, <1>8, <1>14, <2>2
    <3>2. /\ Cardinality(UpTo(h, i)) = Cardinality(UpTo(g, i))
          /\ Cardinality(UpTo(g, i)) \in 1 .. K
      BY <1>10, <1>12, <3>1
    <3>3. d[Cardinality(UpTo(h, i))] = e[Cardinality(UpTo(g, i))]
      BY <1>4, <3>2
    <3>4. QED
      BY <1>2, <1>13, <3>1, <3>3 DEF Matches
  <2>3. QED
    BY <2>1, <2>2
<1>15. Matches(d, h)
  BY <1>4, <1>9, <1>14 DEF Matches
<1>16. QED
  BY <1>15 DEF d, h

\* A step of the whole is one of the replay or leaves it alone.
LEMMA RecordingStep ==
  ASSUME session \in Sessions, [RecNext]_all
  PROVE  [Next]_vars /\ session' = session
<1>1. session.calls \subseteq Calls
  BY RecordingAssumption
<1>2. CASE UNCHANGED all
  BY <1>2 DEF all
<1>3. CASE Unrecorded(Call)
  BY <1>1, <1>3 DEF Unrecorded, Call, Next
<1>4. CASE Unrecorded(GuestReads) \/ Replaying(PicHandler) \/ Replaying(RenderFrame)
  BY <1>4 DEF Unrecorded, Replaying, Next
<1>5. CASE UserKey
  BY <1>5 DEF UserKey, Next
<1>6. CASE \E r \in Requests : Handler(r)
  BY <1>6 DEF Handler, Check, Start, StartTimesOut, Pause, TellPaused, Stop
<1>7. QED
  BY <1>2, <1>3, <1>4, <1>5, <1>6 DEF RecNext

\* Recording does not disturb the replay: its requests and hooks take no step
\* that the replay alone could not take.
THEOREM RecordingKeepsReplay == RecSpec => Spec
<1>1. RecInit => Init /\ session \in Sessions
  BY DEF RecInit
<1>2. session \in Sessions /\ [RecNext]_all => [Next]_vars /\ (session \in Sessions)'
  BY RecordingStep
<1>3. QED
  BY <1>1, <1>2, PTL DEF RecSpec, Spec

\* What is proved of the replay holds beside recordings.
THEOREM ReplayBesideRecording ==
  RecSpec => /\ [](OneHandler /\ SentInOrder /\ NoKeyRefused)
             /\ [][OnTime]_vars
BY RecordingKeepsReplay, ChainWhole, EveryEventOnceInOrder, RoomForEveryKey,
   NotBeforeItsFrame, PTL

-----------------------------------------------------------------------------

\* An entry of the log has the frame of the step and a number.
LEMMA LoggedFacts ==
  ASSUME TypeOK, log \in Seq(Entries), NEW what \in {"pause", "key"}, NEW n \in Nat,
         Logged(what, n)
  PROVE  /\ Entry(what, n) \in Entries
         /\ log = <<>> => log' = log
         /\ log # <<>> => log' = Append(log, Entry(what, n))
         /\ log' \in Seq(Entries)
<1>1. frame \in Nat
  BY ReplayAssumption DEF TypeOK
<1>2. Entry(what, n) \in Entries
  BY <1>1 DEF Entry, Entries
<1>3. log' = IF log = <<>> THEN log ELSE Append(log, Entry(what, n))
  BY DEF Logged
<1>4. QED
  BY <1>2, <1>3, AppendProperties

\* A step that leaves the recording, its log and the requests alone
LEMMA RecordingKept ==
  ASSUME RecInv, OrderInv', session' = session, rec' = rec, log' = log,
         req' = req, answer' = answer
  PROVE  RecInv'
BY DEF RecInv, RecTypeOK, ActiveInv

\* A request is answered, and not with a recording before it was tested.
LEMMA ReplyFacts ==
  ASSUME RecTypeOK, NEW r \in Requests, NEW what, NEW events, Reply(r, what, events)
  PROVE  /\ req' \in [Requests -> {"none", "checked", "paused", "done"}]
         /\ DOMAIN answer' = Requests
         /\ \A q \in Requests : req'[q] = "none" => answer'[q].told # "ok"
         /\ req'[r] = "done" /\ answer'[r] = [told |-> what, events |-> events]
         /\ \A q \in Requests : q # r => req'[q] = req[q] /\ answer'[q] = answer[q]
<1>1. /\ req' = [req EXCEPT ![r] = "done"]
      /\ answer' = [answer EXCEPT ![r] = [told |-> what, events |-> events]]
  BY DEF Reply
<1>2. req \in [Requests -> {"none", "checked", "paused", "done"}] /\ DOMAIN answer = Requests
  BY DEF RecTypeOK
<1>3. \A q \in Requests : q # r => req'[q] = req[q] /\ answer'[q] = answer[q]
  BY <1>1, <1>2
<1>4. req'[r] = "done" /\ answer'[r] = [told |-> what, events |-> events]
  BY <1>1, <1>2
<1>5. req' \in [Requests -> {"none", "checked", "paused", "done"}] /\ DOMAIN answer' = Requests
  BY <1>1, <1>2
<1>6. ASSUME NEW q \in Requests, req'[q] = "none" PROVE answer'[q].told # "ok"
  BY <1>3, <1>4, <1>6 DEF RecTypeOK
<1>7. QED
  BY <1>3, <1>4, <1>5, <1>6

LEMMA CheckKeeps ==
  ASSUME RecInv, OrderInv', NEW r \in Requests, Check(r)
  PROVE  RecInv'
<1>1. UNCHANGED <<session, rec, log>> /\ RecTypeOK /\ req[r] = "none"
  BY DEF Check, RecInv, Comes
<1>2. CASE Reply(r, "409", <<>>)
  BY <1>1, <1>2, ReplyFacts DEF RecInv, RecTypeOK, ActiveInv
<1>3. CASE req' = [req EXCEPT ![r] = "checked"] /\ UNCHANGED answer
  <2>1. req' \in [Requests -> {"none", "checked", "paused", "done"}]
    BY <1>1, <1>3 DEF RecTypeOK
  <2>2. \A q \in Requests : req'[q] = "none" => req[q] = "none"
    BY <1>1, <1>3 DEF RecTypeOK
  <2>3. RecTypeOK'
    BY <1>1, <1>3, <2>1, <2>2 DEF RecTypeOK
  <2>4. QED
    BY <1>1, <2>3 DEF RecInv, ActiveInv
<1>4. QED
  BY <1>2, <1>3 DEF Check

LEMMA StartKeeps ==
  ASSUME RecInv, OrderInv', NEW r \in Requests, Start(r)
  PROVE  RecInv'
<1>1. /\ RecTypeOK /\ TypeOK /\ session' = session
      /\ rec' = [active |-> TRUE, paused |-> FALSE, start |-> frame, buffer |-> <<>>]
      /\ Reply(r, "ok", <<>>)
      /\ log' = <<Entry("start", 0)>>
  BY DEF Start, RecInv, OrderInv, Logged
<1>2. frame \in Nat
  BY <1>1, ReplayAssumption DEF TypeOK
<1>3. Entry("start", 0) \in Entries /\ Entry("start", 0).what = "start" /\ Entry("start", 0).frame = frame
  BY <1>2 DEF Entry, Entries
<1>4. log' \in Seq(Entries) /\ Len(log') = 1 /\ DOMAIN log' = 1 .. 1 /\ log'[1] = Entry("start", 0) /\ log' # <<>>
  BY <1>1, <1>3
<1>5. rec' \in [active : BOOLEAN, paused : BOOLEAN, start : Nat, buffer : Seq(Noted)]
  BY <1>1, <1>2
<1>6. RecTypeOK'
  BY <1>1, <1>4, <1>5, ReplyFacts DEF RecTypeOK
<1> DEFINE g == log'
<1>7. PausesIn(g, 1) = {} /\ KeysOf(g) = {}
  BY <1>3, <1>4 DEF PausesIn, KeysOf
<1>8. Cardinality({}) = 0
  BY FS_EmptySet
<1>9. Matches(<<>>, g)
  BY <1>7, <1>8 DEF Matches
<1>10. ActiveInv'
  <2>1. log' # <<>> /\ rec'.start = log'[1].frame
    BY <1>1, <1>3, <1>4
  <2>2. rec'.paused = FALSE /\ Cardinality(PausesIn(log', Len(log'))) = 0
    BY <1>1, <1>4, <1>7, <1>8
  <2>3. rec'.buffer = <<>>
    BY <1>1
  <2>4. QED
    BY <1>9, <2>1, <2>2, <2>3 DEF ActiveInv
<1>11. QED
  BY <1>6, <1>10 DEF RecInv

LEMMA PauseKeeps ==
  ASSUME RecInv, OrderInv', NEW r \in Requests, Pause(r)
  PROVE  RecInv'
<1>1. /\ RecTypeOK /\ TypeOK /\ UNCHANGED <<session, answer>> /\ req[r] = "checked"
      /\ rec' = [rec EXCEPT !.paused = IF rec.active THEN ~ rec.paused ELSE rec.paused]
      /\ req' = [req EXCEPT ![r] = "paused"]
      /\ Logged("pause", 0)
  BY DEF Pause, RecInv, OrderInv
<1>2. log \in Seq(Entries) /\ rec \in [active : BOOLEAN, paused : BOOLEAN, start : Nat, buffer : Seq(Noted)]
  BY <1>1 DEF RecTypeOK
<1>3. /\ Entry("pause", 0) \in Entries /\ log' \in Seq(Entries)
      /\ log # <<>> => log' = Append(log, Entry("pause", 0))
  BY <1>1, <1>2, LoggedFacts
<1>4. /\ rec' \in [active : BOOLEAN, paused : BOOLEAN, start : Nat, buffer : Seq(Noted)]
      /\ rec'.active = rec.active /\ rec'.start = rec.start /\ rec'.buffer = rec.buffer
      /\ rec.active => rec'.paused = ~ rec.paused
  BY <1>1, <1>2
<1>5. RecTypeOK'
  <2>1. req' \in [Requests -> {"none", "checked", "paused", "done"}]
    BY <1>1 DEF RecTypeOK
  <2>2. \A q \in Requests : req'[q] = "none" => req[q] = "none"
    BY <1>1 DEF RecTypeOK
  <2>3. QED
    BY <1>1, <1>3, <1>4, <2>1, <2>2 DEF RecTypeOK
<1>6. ActiveInv'
  <2> SUFFICES ASSUME rec.active
               PROVE  /\ log' # <<>> /\ rec'.start = log'[1].frame
                      /\ rec'.paused <=> Cardinality(PausesIn(log', Len(log'))) % 2 = 1
                      /\ Matches(rec'.buffer, log')
    BY <1>4 DEF ActiveInv
  <2>1. /\ log # <<>> /\ rec.start = log[1].frame
        /\ rec.paused <=> Cardinality(PausesIn(log, Len(log))) % 2 = 1
        /\ Matches(rec.buffer, log)
    BY DEF RecInv, ActiveInv
  <2> DEFINE x == Entry("pause", 0)
             h == Append(log, x)
             m == Len(log) + 1
             P == PausesIn(log, Len(log))
  <2>2. x \in Entries /\ x.what = "pause" /\ log' = h
    BY <1>3, <2>1 DEF Entry
  <2>3. Len(log) \in Nat /\ 1 \in 1 .. Len(log) /\ Len(log) \in 0 .. Len(log)
    BY <1>2, <2>1, LenProperties, EmptySeq
  <2>4. /\ Len(h) = m /\ h # <<>> /\ h[1] = log[1]
        /\ PausesIn(h, m) = P \cup {m}
    BY <1>2, <2>2, <2>3, AppendEntry
  <2>5. Matches(rec.buffer, h)
    BY <1>2, <2>1, <2>2, NothingMore
  <2>6. IsFiniteSet(P) /\ Cardinality(P) \in Nat /\ m \notin P
    <3>1. IsFiniteSet(P) /\ Cardinality(P) \in Nat
      BY <1>2, <2>3, FinitePauses
    <3>2. m \notin 1 .. Len(log)
      BY <2>3
    <3>3. QED
      BY <3>1, <3>2 DEF PausesIn
  <2>7. Cardinality(P \cup {m}) = Cardinality(P) + 1
    BY <2>6, FS_AddElement
  <2>8. (Cardinality(P) + 1) % 2 = 1 <=> Cardinality(P) % 2 # 1
    BY <2>6
  <2>9. rec'.paused <=> Cardinality(PausesIn(h, m)) % 2 = 1
    BY <1>2, <1>4, <2>1, <2>4, <2>7, <2>8
  <2>10. QED
    BY <1>4, <2>1, <2>2, <2>4, <2>5, <2>9
<1>7. QED
  BY <1>5, <1>6 DEF RecInv

LEMMA AnswerKeeps ==
  ASSUME RecInv, OrderInv', NEW r \in Requests,
         StartTimesOut(r) \/ TellPaused(r) \/ Stop(r)
  PROVE  RecInv'
<1>1. /\ RecTypeOK /\ UNCHANGED <<session, log>>
      /\ \E what, events : Reply(r, what, events)
  BY DEF StartTimesOut, TellPaused, Stop, RecInv
<1>2. CASE rec' = rec
  BY <1>1, <1>2, ReplyFacts DEF RecInv, RecTypeOK, ActiveInv
<1>3. CASE rec' = [rec EXCEPT !.active = FALSE, !.paused = FALSE, !.buffer = <<>>]
  <2>1. rec' \in [active : BOOLEAN, paused : BOOLEAN, start : Nat, buffer : Seq(Noted)] /\ ~ rec'.active
    <3>1. rec \in [active : BOOLEAN, paused : BOOLEAN, start : Nat, buffer : Seq(Noted)]
      BY <1>1 DEF RecTypeOK
    <3>2. <<>> \in Seq(Noted)
      BY EmptySeq
    <3>3. QED
      BY <1>3, <3>1, <3>2
  <2>2. RecTypeOK'
    BY <1>1, <2>1, ReplyFacts DEF RecTypeOK
  <2>3. QED
    BY <2>1, <2>2 DEF RecInv, ActiveInv
<1>4. QED
  BY <1>2, <1>3 DEF StartTimesOut, TellPaused, Stop

LEMMA UserKeyKeeps ==
  ASSUME RecInv, OrderInv', UserKey
  PROVE  RecInv'
<1> DEFINE n == hostKeys'
           x == Entry("key", n)
           y == [n |-> n, frame |-> frame - rec.start]
<1>1. /\ RecTypeOK /\ TypeOK /\ UNCHANGED <<session, req, answer>>
      /\ rec' = Hooked(FALSE, n)
      /\ Logged("key", n)
  BY DEF UserKey, RecInv, OrderInv, reqVars
<1>2. n \in Nat /\ frame \in Nat
  <2>1. TypeOK'
    BY DEF OrderInv
  <2>2. QED
    BY <1>1, <2>1, ReplayAssumption DEF TypeOK
<1>3. log \in Seq(Entries) /\ rec \in [active : BOOLEAN, paused : BOOLEAN, start : Nat, buffer : Seq(Noted)]
  BY <1>1 DEF RecTypeOK
<1>4. /\ x \in Entries /\ log' \in Seq(Entries)
      /\ log # <<>> => log' = Append(log, x)
  BY <1>1, <1>2, <1>3, LoggedFacts
<1>5. y \in Noted
  BY <1>2, <1>3 DEF Noted
<1>6. /\ x.what = "key" /\ x.n = n /\ x.frame = frame
  BY DEF Entry
<1> HIDE DEF x
<1>7. rec' = IF rec.active /\ ~ rec.paused THEN [rec EXCEPT !.buffer = Append(rec.buffer, y)] ELSE rec
  BY <1>1, <1>3 DEF Hooked
<1> HIDE DEF y
<1>8. /\ rec' \in [active : BOOLEAN, paused : BOOLEAN, start : Nat, buffer : Seq(Noted)]
      /\ rec'.active = rec.active /\ rec'.start = rec.start /\ rec'.paused = rec.paused
      /\ rec'.buffer = IF rec.active /\ ~ rec.paused THEN Append(rec.buffer, y) ELSE rec.buffer
  <2>1. Append(rec.buffer, y) \in Seq(Noted)
    BY <1>3, <1>5, AppendProperties
  <2>2. QED
    BY <1>3, <1>7, <2>1
<1>9. RecTypeOK'
  BY <1>1, <1>4, <1>8 DEF RecTypeOK
<1>10. ActiveInv'
  <2> SUFFICES ASSUME rec.active
               PROVE  /\ log' # <<>> /\ rec'.start = log'[1].frame
                      /\ rec'.paused <=> Cardinality(PausesIn(log', Len(log'))) % 2 = 1
                      /\ Matches(rec'.buffer, log')
    BY <1>8 DEF ActiveInv
  <2>1. /\ log # <<>> /\ rec.start = log[1].frame
        /\ rec.paused <=> Cardinality(PausesIn(log, Len(log))) % 2 = 1
        /\ Matches(rec.buffer, log)
    BY DEF RecInv, ActiveInv
  <2> DEFINE h == Append(log, x)
             m == Len(log) + 1
             P == PausesIn(log, Len(log))
  <2>2. log' = h
    BY <1>4, <2>1
  <2>3. Len(log) \in Nat /\ 1 \in 1 .. Len(log) /\ Len(log) \in 0 .. Len(log)
    BY <1>3, <2>1, LenProperties, EmptySeq
  <2>4. Len(h) = m /\ h # <<>> /\ h[1] = log[1] /\ PausesIn(h, m) = P
    BY <1>3, <1>4, <1>6, <2>3, AppendEntry
  <2>5. Cardinality(P) \in Nat
    BY <1>3, <2>3, FinitePauses
  <2>6. Matches(rec'.buffer, h)
    <3>1. CASE rec.paused
      <4>1. Cardinality(P) % 2 # 0
        BY <2>1, <2>5, <3>1
      <4>2. QED
        BY <1>3, <1>4, <1>8, <2>1, <3>1, <4>1, NothingMore
    <3>2. CASE ~ rec.paused
      <4>1. Cardinality(P) % 2 = 0
        BY <2>1, <2>5, <3>2
      <4>2. y = [n |-> x.n, frame |-> x.frame - log[1].frame]
        BY <1>6, <2>1 DEF y
      <4>3. rec.buffer \in Seq(Noted)
        BY <1>3
      <4>4. Matches(Append(rec.buffer, y), h)
        BY <1>3, <1>4, <1>5, <1>6, <2>1, <4>1, <4>2, <4>3, OneMore
      <4>5. QED
        BY <1>8, <3>2, <4>4
    <3>3. QED
      BY <3>1, <3>2
  <2>7. QED
    BY <1>8, <2>1, <2>2, <2>4, <2>6
<1>11. QED
  BY <1>9, <1>10 DEF RecInv

LEMMA InitRecInv == RecInit => RecInv
<1> SUFFICES ASSUME RecInit PROVE RecInv
  OBVIOUS
<1>1. OrderInv
  BY InitInOrder DEF RecInit
<1>2. RecTypeOK
  BY DEF RecInit, RecTypeOK
<1>3. ActiveInv
  BY DEF RecInit, ActiveInv
<1>4. QED
  BY <1>1, <1>2, <1>3 DEF RecInv

LEMMA NextRecInv ==
  ASSUME RecInv, [RecNext]_all
  PROVE  RecInv'
<1>1. [Next]_vars /\ session' = session
  BY RecordingStep DEF RecInv, RecTypeOK
<1>2. OrderInv'
  BY <1>1, NextInOrder DEF RecInv
<1>3. CASE UNCHANGED all \/ Unrecorded(Call) \/ Unrecorded(GuestReads)
  BY <1>2, <1>3, RecordingKept DEF all, Unrecorded, reqVars
<1>4. CASE Replaying(PicHandler) \/ Replaying(RenderFrame)
  BY <1>2, <1>4, RecordingKept DEF Replaying, Hooked, reqVars
<1>5. CASE UserKey
  BY <1>2, <1>5, UserKeyKeeps
<1>6. ASSUME NEW r \in Requests, Handler(r) PROVE RecInv'
  BY <1>2, <1>6, CheckKeeps, StartKeeps, PauseKeeps, AnswerKeeps DEF Handler
<1>7. QED
  BY <1>3, <1>4, <1>5, <1>6 DEF RecNext

\* A stop that succeeds finds the recording as ActiveInv describes it.
LEMMA StopReturns ==
  ASSUME RecInv, [RecNext]_all, NEW r \in Requests, req[r] = "none", answer'[r].told = "ok"
  PROVE  rec.active /\ answer'[r].events = rec.buffer
<1>1. RecTypeOK
  BY DEF RecInv
<1>2. answer'[r] # answer[r]
  BY <1>1 DEF RecTypeOK
<1>3. PICK q \in Requests : Handler(q)
  BY <1>2 DEF RecNext, all, Unrecorded, Replaying, UserKey, reqVars
<1>4. CASE Check(q)
  <2>1. CASE Reply(q, "409", <<>>)
    <3>1. q = r
      BY <1>1, <1>2, <2>1, ReplyFacts
    <3>2. answer'[r] = [told |-> "409", events |-> <<>>]
      BY <1>1, <2>1, <3>1, ReplyFacts
    <3>3. QED
      BY <3>2
  <2>2. CASE UNCHANGED answer
    BY <1>2, <2>2
  <2>3. QED
    BY <1>4, <2>1, <2>2 DEF Check
<1>5. CASE Start(q) \/ StartTimesOut(q) \/ TellPaused(q)
  <2>1. req[q] # "none" /\ \E what, events : Reply(q, what, events)
    BY <1>5 DEF Start, StartTimesOut, TellPaused
  <2>2. q # r
    BY <2>1
  <2>3. QED
    BY <1>1, <1>2, <2>1, <2>2, ReplyFacts
<1>6. CASE Pause(q)
  BY <1>2, <1>6 DEF Pause
<1>7. CASE Stop(q)
  <2>1. CASE ~ rec.active
    <3>1. Reply(q, "409", <<>>)
      BY <1>7, <2>1 DEF Stop
    <3>2. q = r
      BY <1>1, <1>2, <3>1, ReplyFacts
    <3>3. answer'[r] = [told |-> "409", events |-> <<>>]
      BY <1>1, <3>1, <3>2, ReplyFacts
    <3>4. QED
      BY <3>3
  <2>2. CASE rec.active
    <3>1. Reply(q, "ok", rec.buffer)
      BY <1>7, <2>2 DEF Stop
    <3>2. q = r
      BY <1>1, <1>2, <3>1, ReplyFacts
    <3>3. answer'[r] = [told |-> "ok", events |-> rec.buffer]
      BY <1>1, <3>1, <3>2, ReplyFacts
    <3>4. QED
      BY <2>2, <3>3
  <2>3. QED
    BY <2>1, <2>2
<1>8. QED
  BY <1>3, <1>4, <1>5, <1>6, <1>7 DEF Handler

\* A stop returns exactly the user's keys since the last start that no pause
\* hides, each once, in order and with its distance to the start, whatever
\* starts, pauses, stops and replays came between the tests of the requests and
\* what they do (PostStart, PostPause, PostStop, OnKeyEvent).
THEOREM StopIsTheRecording == RecSpec => StopReturnsRecording
<1> DEFINE Step ==
      \A r \in Requests :
        req[r] = "none" /\ answer'[r].told = "ok" =>
          LET e == answer'[r].events
          IN  /\ Len(e) = Cardinality(Recordable)
              /\ \A i \in Recordable :
                   LET k == Cardinality({j \in Recordable : j <= i})
                   IN  e[k] = [n |-> log[i].n, frame |-> log[i].frame - log[1].frame]
<1>1. Recordable = KeysOf(log) /\ \A i : {j \in Recordable : j <= i} = UpTo(log, i)
  BY DEF Recordable, KeysOf, UpTo, PausesIn
<1>2. RecInv /\ [RecNext]_all => Step
  <2> SUFFICES ASSUME RecInv, [RecNext]_all, NEW r \in Requests,
                      req[r] = "none", answer'[r].told = "ok"
               PROVE  LET e == answer'[r].events
                      IN  /\ Len(e) = Cardinality(Recordable)
                          /\ \A i \in Recordable :
                               LET k == Cardinality({j \in Recordable : j <= i})
                               IN  e[k] = [n |-> log[i].n, frame |-> log[i].frame - log[1].frame]
    OBVIOUS
  <2>1. rec.active /\ answer'[r].events = rec.buffer
    BY StopReturns
  <2>2. Matches(answer'[r].events, log)
    BY <2>1 DEF RecInv, ActiveInv
  <2>3. QED
    BY <1>1, <2>2 DEF Matches
<1> HIDE DEF Step
<1>3. RecSpec => [][Step]_all
  BY <1>2, InitRecInv, NextRecInv, PTL DEF RecSpec
<1>4. QED
  BY <1>3 DEF StopReturnsRecording, Step
=============================================================================
