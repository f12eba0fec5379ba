----------------------------- MODULE I8042Proofs -----------------------------
(***************************************************************************)
(* The keyboard controller with buffers and frames of any size: the        *)
(* counters of waiting bytes are exact, nobody is left waiting, and an     *)
(* answer is read before anything else.  Proved for guests that do not     *)
(* read the controller's memory: those commands alone can fill the buffer. *)
(* The operators take the record of the state, and so do the lemmas.       *)
(***************************************************************************)
EXTENDS I8042, FiniteSetTheorems, SequenceTheorems, TLAPS

Sources == {"kbd", "aux", "ctl"}
Byte == [src : Sources, skip : BOOLEAN]

State ==
  [buf : Seq(Byte), new : BOOLEAN, from : Sources \cup {"none"},
   waitKbd : Nat, waitAux : Nat, offKbd : BOOLEAN, offAux : BOOLEAN,
   dump : BOOLEAN, timer : BOOLEAN, cmd : Parameterized \cup {"none"},
   keys : Seq(Keys), latch : BOOLEAN, repeat : Keys \cup {0},
   scanning : BOOLEAN, kbdCmd : {"none", "SetLeds", "CodeSet", "Set3Key"},
   moved : BOOLEAN, auxTimer : BOOLEAN, reporting : BOOLEAN]

\* the bytes of a source in a buffer, and in the data port
In(buf, src) == Cardinality({i \in DOMAIN buf : buf[i].src = src})
Port(c, src) == IF c.new /\ c.from = src THEN 1 ELSE 0

\* What is unread leaves room for a frame of each device that may send.
Load(c) ==
  /\ Unread(c, "aux") <= AuxLen + 1
  /\ Unread(c, "ctl") <= 1
  /\ Unread(c, "kbd") + Unread(c, "ctl") <= BufferSize - AuxLen

\* The counters are exact, but for the byte of the keyboard (k) and of the
\* mouse (a) that is being read and has already been counted.
Counted(c, k, a) ==
  /\ c.waitKbd + k = Unread(c, "kbd") /\ c.waitAux + a = Unread(c, "aux")
  /\ k = 1 => c.new /\ c.from = "kbd"
  /\ a = 1 => c.new /\ c.from = "aux"

\* The port and the timer: there is a byte in the port or one on its way.
Shown(c) ==
  /\ c.new <=> c.from # "none"
  /\ c.buf # <<>> /\ ~ c.new => c.timer

Sound(c, k, a) ==
  /\ c \in State
  /\ Shown(c)
  /\ Counted(c, k, a)
  /\ Len(c.buf) <= BufferSize /\ Len(c.keys) <= KeyBufferSize
  /\ ~ c.dump => Load(c)

\* what the devices have to send
KeyWaits(c) == c.keys # <<>>
FrameWaits(c) == c.moved /\ ~ c.auxTimer

\* Nothing waits for a controller that would take it.
KeyTold(c) == KeyWaits(c) => ~ IsReadyForKbdFrame(c)
FrameTold(c) == FrameWaits(c) => ~ IsReadyForAuxFrame(c)

\* A dump is not mixed with a command that waits for its parameter.
Base(c) == Sound(c, 0, 0) /\ (c.dump => c.cmd = "none")

\* Only a dump that is not read yet keeps the devices out.
Lively(c) == KeyTold(c) /\ FrameTold(c) /\ (c.dump => c.new \/ c.buf # <<>>)

-----------------------------------------------------------------------------
(* Counting bytes *)

LEMMA InType ==
  ASSUME NEW b \in Seq(Byte), NEW x
  PROVE  /\ IsFiniteSet({i \in DOMAIN b : b[i].src = x})
         /\ In(b, x) \in Nat
<1>1. DOMAIN b = 1 .. Len(b) /\ Len(b) \in Nat
  BY LenProperties
<1>2. IsFiniteSet(1 .. Len(b))
  BY <1>1, FS_Interval
<1>3. IsFiniteSet({i \in DOMAIN b : b[i].src = x})
  BY <1>1, <1>2, FS_Subset
<1>4. QED
  BY <1>3, FS_CardinalityType DEF In

\* A one-to-one map keeps the cardinality.
LEMMA SameNumber ==
  ASSUME NEW S, NEW T, IsFiniteSet(S), NEW f \in [S -> T],
         \A x, y \in S : f[x] = f[y] => x = y,
         \A z \in T : \E x \in S : f[x] = z
  PROVE  IsFiniteSet(T) /\ Cardinality(T) = Cardinality(S)
<1>1. f \in Bijection(S, T)
  BY DEF Bijection, Injection, Surjection, IsInjective
<1>2. ExistsBijection(S, T)
  BY <1>1 DEF ExistsBijection
<1>3. QED
  BY <1>2, FS_Bijection

LEMMA DisjointNumber ==
  ASSUME NEW S, NEW T, IsFiniteSet(S), IsFiniteSet(T), S \cap T = {}
  PROVE  /\ Cardinality(S) \in Nat /\ Cardinality(T) \in Nat
         /\ IsFiniteSet(S \cup T)
         /\ Cardinality(S \cup T) = Cardinality(S) + Cardinality(T)
<1>1. /\ IsFiniteSet(S \cup T)
      /\ Cardinality(S \cup T) = Cardinality(S) + Cardinality(T) - Cardinality(S \cap T)
  BY FS_Union
<1>2. Cardinality(S \cap T) = 0
  BY FS_EmptySet
<1>3. Cardinality(S) \in Nat /\ Cardinality(T) \in Nat
  BY FS_CardinalityType
<1>4. QED
  BY <1>1, <1>2, <1>3

LEMMA InConcat ==
  ASSUME NEW b \in Seq(Byte), NEW t \in Seq(Byte), NEW x
  PROVE  In(b \o t, x) = In(b, x) + In(t, x)
<1> DEFINE A == {i \in DOMAIN b : b[i].src = x}
           B == {i \in DOMAIN t : t[i].src = x}
           C == {i \in DOMAIN (b \o t) : (b \o t)[i].src = x}
           D == {i + Len(b) : i \in B}
           f == [i \in B |-> i + Len(b)]
<1>1. /\ Len(b) \in Nat /\ DOMAIN b = 1 .. Len(b)
      /\ Len(t) \in Nat /\ DOMAIN t = 1 .. Len(t)
  BY LenProperties
<1>2. /\ b \o t \in Seq(Byte) /\ Len(b \o t) = Len(b) + Len(t)
      /\ \A i \in 1 .. Len(b) + Len(t) :
           (b \o t)[i] = IF i <= Len(b) THEN b[i] ELSE t[i - Len(b)]
  BY ConcatProperties
<1>3. DOMAIN (b \o t) = 1 .. Len(b) + Len(t)
  BY <1>2, LenProperties
<1>4. IsFiniteSet(A) /\ IsFiniteSet(B)
  BY InType
<1>5. B \subseteq Int
  BY <1>1
<1>6. /\ f \in [B -> D]
      /\ \A y, z \in B : f[y] = f[z] => y = z
      /\ \A z \in D : \E y \in B : f[y] = z
  BY <1>1, <1>5
<1> HIDE DEF f
<1>7. IsFiniteSet(D) /\ Cardinality(D) = Cardinality(B)
  BY <1>4, <1>6, SameNumber
<1>8. C = A \cup D
  <2>1. ASSUME NEW i \in C PROVE i \in A \cup D
    <3>1. i \in 1 .. Len(b) + Len(t) /\ (b \o t)[i].src = x
      BY <1>3
    <3>2. CASE i <= Len(b)
      BY <1>1, <1>2, <3>1, <3>2
    <3>3. CASE ~ (i <= Len(b))
      <4>1. i - Len(b) \in B /\ i = (i - Len(b)) + Len(b)
        BY <1>1, <1>2, <3>1, <3>3
      <4>2. QED
        BY <4>1
    <3>4. QED
      BY <3>2, <3>3
  <2>2. ASSUME NEW i \in A PROVE i \in C
    BY <1>1, <1>2, <1>3
  <2>3. ASSUME NEW i \in B PROVE i + Len(b) \in C
    <3>1. i + Len(b) \in 1 .. Len(b) + Len(t) /\ ~ (i + Len(b) <= Len(b)) /\ (i + Len(b)) - Len(b) = i
      BY <1>1
    <3>2. (b \o t)[i + Len(b)] = t[i]
      BY <1>2, <3>1
    <3>3. QED
      BY <1>3, <3>1, <3>2
  <2>4. QED
    BY <2>1, <2>2, <2>3
<1>9. A \cap D = {}
  BY <1>1
<1> HIDE DEF A, B, C, D
<1>10. Cardinality(C) = Cardinality(A) + Cardinality(B)
  BY <1>4, <1>7, <1>8, <1>9, DisjointNumber
<1>11. QED
  BY <1>10 DEF In, A, B, C

LEMMA InEmpty ==
  ASSUME NEW x
  PROVE  In(<<>>, x) = 0
<1>1. {i \in DOMAIN <<>> : <<>>[i].src = x} = {}
  OBVIOUS
<1>2. QED
  BY <1>1, FS_EmptySet DEF In

\* bytes that are added together: at least one, all of one source
OneSource(b, src) ==
  /\ b \in Seq(Byte) /\ b # <<>>
  /\ \A i \in DOMAIN b : b[i].src = src

LEMMA InOneSource ==
  ASSUME NEW b, NEW x, OneSource(b, x)
  PROVE  /\ In(b, x) = Len(b)
         /\ \A y : y # x => In(b, y) = 0
         /\ Len(b) \in Nat \ {0} /\ Head(b).src = x
<1>1. DOMAIN b = 1 .. Len(b) /\ Len(b) \in Nat /\ Len(b) # 0
  BY LenProperties, EmptySeq DEF OneSource
<1>2. {i \in DOMAIN b : b[i].src = x} = 1 .. Len(b)
  BY <1>1 DEF OneSource
<1>3. Cardinality(1 .. Len(b)) = Len(b)
  BY <1>1, FS_Interval
<1>4. ASSUME NEW y, y # x PROVE In(b, y) = 0
  <2>1. {i \in DOMAIN b : b[i].src = y} = {}
    BY <1>4 DEF OneSource
  <2>2. QED
    BY <2>1, FS_EmptySet DEF In
<1>5. 1 \in DOMAIN b /\ Head(b) = b[1]
  BY <1>1 DEF OneSource
<1>6. QED
  BY <1>1, <1>2, <1>3, <1>4, <1>5 DEF In, OneSource

\* The first byte of a buffer leaves it.
LEMMA InTail ==
  ASSUME NEW b \in Seq(Byte), b # <<>>
  PROVE  /\ Tail(b) \in Seq(Byte) /\ Head(b) \in Byte
         /\ Len(Tail(b)) = Len(b) - 1
         /\ In(b, Head(b).src) = In(Tail(b), Head(b).src) + 1
         /\ \A y : y # Head(b).src => In(b, y) = In(Tail(b), y)
<1>1. /\ Tail(b) \in Seq(Byte) /\ Head(b) \in Byte
      /\ Len(Tail(b)) = Len(b) - 1
  BY HeadTailProperties
<1> DEFINE h == <<Head(b)>>
<1>2. b = h \o Tail(b)
  BY SMT
<1>3. OneSource(h, Head(b).src) /\ Len(h) = 1
  BY <1>1 DEF OneSource
<1>4. h \in Seq(Byte)
  BY <1>3 DEF OneSource
<1> HIDE DEF h
<1>5. /\ In(h, Head(b).src) = 1
      /\ \A y : y # Head(b).src => In(h, y) = 0
  BY <1>3, InOneSource
<1>6. ASSUME NEW y
      PROVE  In(b, y) = In(h, y) + In(Tail(b), y) /\ In(Tail(b), y) \in Nat
  <2>1. In(h \o Tail(b), y) = In(h, y) + In(Tail(b), y)
    BY <1>1, <1>4, InConcat
  <2>2. In(Tail(b), y) \in Nat
    BY <1>1, InType
  <2>3. QED
    BY <1>2, <2>1, <2>2
<1>7. QED
  BY <1>1, <1>5, <1>6

LEMMA InSum ==
  ASSUME NEW b \in Seq(Byte)
  PROVE  Len(b) = In(b, "kbd") + In(b, "aux") + In(b, "ctl")
<1> DEFINE A == {i \in DOMAIN b : b[i].src = "kbd"}
           B == {i \in DOMAIN b : b[i].src = "aux"}
           C == {i \in DOMAIN b : b[i].src = "ctl"}
<1>1. DOMAIN b = 1 .. Len(b) /\ Len(b) \in Nat
  BY LenProperties
<1>2. Cardinality(1 .. Len(b)) = Len(b)
  BY <1>1, FS_Interval
<1>3. ASSUME NEW i \in DOMAIN b PROVE b[i].src \in Sources
  <2>1. b[i] \in Byte
    BY <1>1, ElementOfSeq
  <2>2. QED
    BY <2>1 DEF Byte
<1>4. 1 .. Len(b) = (A \cup B) \cup C
  BY <1>1, <1>3 DEF Sources
<1>5. A \cap B = {} /\ (A \cup B) \cap C = {}
  OBVIOUS
<1>6. IsFiniteSet(A) /\ IsFiniteSet(B) /\ IsFiniteSet(C)
  BY InType
<1> HIDE DEF A, B, C
<1>7. /\ IsFiniteSet(A \cup B)
      /\ Cardinality(A) \in Nat /\ Cardinality(B) \in Nat
      /\ Cardinality(A \cup B) = Cardinality(A) + Cardinality(B)
  BY <1>5, <1>6, DisjointNumber
<1>8. /\ Cardinality(C) \in Nat
      /\ Cardinality((A \cup B) \cup C) = Cardinality(A \cup B) + Cardinality(C)
  BY <1>5, <1>6, <1>7, DisjointNumber
<1>9. QED
  BY <1>2, <1>4, <1>7, <1>8 DEF In, A, B, C

-----------------------------------------------------------------------------
(* The port *)

LEMMA UnreadFacts ==
  ASSUME NEW c, c.buf \in Seq(Byte), NEW x
  PROVE  /\ In(c.buf, x) \in Nat /\ Port(c, x) \in {0, 1}
         /\ Unread(c, x) = In(c.buf, x) + Port(c, x)
  BY InType DEF Unread, In, Port

\* The buffer holds no more than is unread, and one byte less when there is
\* one in the port.
LEMMA UnreadSum ==
  ASSUME NEW c \in State, Shown(c)
  PROVE  /\ Len(c.buf) \in Nat
         /\ \A x : Unread(c, x) \in Nat
         /\ c.new => Len(c.buf) + 1 = Unread(c, "kbd") + Unread(c, "aux") + Unread(c, "ctl")
         /\ ~ c.new => Len(c.buf) = Unread(c, "kbd") + Unread(c, "aux") + Unread(c, "ctl")
<1>1. /\ c.buf \in Seq(Byte) /\ c.new \in BOOLEAN
      /\ c.from \in Sources \cup {"none"}
  BY DEF State
<1>2. Len(c.buf) \in Nat /\ Len(c.buf) = In(c.buf, "kbd") + In(c.buf, "aux") + In(c.buf, "ctl")
  BY <1>1, InSum, LenProperties
<1>3. \A x : /\ In(c.buf, x) \in Nat /\ Port(c, x) \in {0, 1}
            /\ Unread(c, x) = In(c.buf, x) + Port(c, x)
  BY <1>1, UnreadFacts
<1>4. c.new => Port(c, "kbd") + Port(c, "aux") + Port(c, "ctl") = 1
  BY <1>1 DEF Port, Shown, Sources
<1>5. ~ c.new => Port(c, "kbd") = 0 /\ Port(c, "aux") = 0 /\ Port(c, "ctl") = 0
  BY <1>1 DEF Port
<1>6. /\ Unread(c, "kbd") = In(c.buf, "kbd") + Port(c, "kbd")
      /\ Unread(c, "aux") = In(c.buf, "aux") + Port(c, "aux")
      /\ Unread(c, "ctl") = In(c.buf, "ctl") + Port(c, "ctl")
      /\ In(c.buf, "kbd") \in Nat /\ In(c.buf, "aux") \in Nat /\ In(c.buf, "ctl") \in Nat
      /\ Port(c, "kbd") \in Nat /\ Port(c, "aux") \in Nat /\ Port(c, "ctl") \in Nat
  BY <1>3
<1>7. \A x : Unread(c, x) \in Nat
  BY <1>3
<1>8. ASSUME c.new
      PROVE  Len(c.buf) + 1 = Unread(c, "kbd") + Unread(c, "aux") + Unread(c, "ctl")
  BY <1>2, <1>4, <1>6, <1>8
<1>9. ASSUME ~ c.new
      PROVE  Len(c.buf) = Unread(c, "kbd") + Unread(c, "aux") + Unread(c, "ctl")
  BY <1>2, <1>5, <1>6, <1>9
<1>10. QED
  BY <1>2, <1>7, <1>8, <1>9

\* What a transfer and a device that sends leave alone
SameSettings(c, r) ==
  /\ r.offKbd = c.offKbd /\ r.offAux = c.offAux /\ r.dump = c.dump
  /\ r.cmd = c.cmd /\ r.repeat = c.repeat /\ r.scanning = c.scanning
  /\ r.kbdCmd = c.kbdCmd /\ r.reporting = c.reporting

SameDevices(c, r) ==
  /\ r.keys = c.keys /\ r.latch = c.latch
  /\ r.moved = c.moved /\ r.auxTimer = c.auxTimer

\* A byte in the port stays there, and stays the first.
PortKept(c, r) ==
  /\ c.new => r.new /\ r.from = c.from
  /\ First(c) # "none" => First(r) = First(c)

LEMMA TransferFacts ==
  ASSUME NEW c \in State, c.new <=> c.from # "none", NEW r, r = Transfer(c)
  PROVE  /\ r \in State /\ Shown(r)
         /\ \A x : Unread(r, x) = Unread(c, x)
         /\ Len(r.buf) <= Len(c.buf)
         /\ r.waitKbd = c.waitKbd /\ r.waitAux = c.waitAux
         /\ SameSettings(c, r) /\ SameDevices(c, r)
         /\ c.new => r.new /\ r.from = c.from
         /\ First(r) = First(c)
<1>1. /\ c.buf \in Seq(Byte) /\ c.new \in BOOLEAN /\ c.timer \in BOOLEAN
      /\ c.from \in Sources \cup {"none"} /\ Len(c.buf) \in Nat
  BY LenProperties DEF State
<1>2. CASE c.new \/ c.buf = <<>> \/ (c.timer /\ ~ Head(c.buf).skip)
  <2>1. r = c
    BY <1>2 DEF Transfer
  <2>2. QED
    BY <1>1, <1>2, <2>1 DEF Shown, SameSettings, SameDevices
<1>3. CASE ~ c.new /\ c.buf # <<>> /\ ~ (c.timer /\ ~ Head(c.buf).skip)
  <2>1. r = [c EXCEPT !.buf = Tail(@), !.from = Head(c.buf).src,
                      !.new = TRUE, !.timer = TRUE]
    BY <1>3 DEF Transfer
  <2>2. /\ Tail(c.buf) \in Seq(Byte) /\ Head(c.buf) \in Byte
        /\ Len(Tail(c.buf)) = Len(c.buf) - 1
        /\ In(c.buf, Head(c.buf).src) = In(Tail(c.buf), Head(c.buf).src) + 1
        /\ \A y : y # Head(c.buf).src => In(c.buf, y) = In(Tail(c.buf), y)
    BY <1>1, <1>3, InTail
  <2>3. Head(c.buf).src \in Sources
    BY <2>2 DEF Byte
  <2>4. /\ r \in State
        /\ r.buf = Tail(c.buf) /\ r.new = TRUE /\ r.timer = TRUE
        /\ r.from = Head(c.buf).src
        /\ r.waitKbd = c.waitKbd /\ r.waitAux = c.waitAux
        /\ SameSettings(c, r) /\ SameDevices(c, r)
    <3>1. r \in State
      BY <2>1, <2>2, <2>3 DEF State
    <3>2. /\ r.buf = Tail(c.buf) /\ r.new = TRUE /\ r.timer = TRUE
          /\ r.from = Head(c.buf).src
          /\ r.waitKbd = c.waitKbd /\ r.waitAux = c.waitAux
      BY <2>1 DEF State
    <3>3. SameSettings(c, r)
      BY <2>1 DEF State, SameSettings
    <3>4. SameDevices(c, r)
      BY <2>1 DEF State, SameDevices
    <3>5. QED
      BY <3>1, <3>2, <3>3, <3>4
  <2>5. Shown(r)
    BY <2>3, <2>4 DEF Shown, Sources
  <2>6. ASSUME NEW x PROVE Unread(r, x) = Unread(c, x)
    <3>1. /\ In(c.buf, x) \in Nat /\ Unread(c, x) = In(c.buf, x) + Port(c, x)
          /\ In(r.buf, x) \in Nat /\ Unread(r, x) = In(r.buf, x) + Port(r, x)
      BY <1>1, <2>2, <2>4, UnreadFacts
    <3>2. Port(c, x) = 0
      BY <1>3 DEF Port
    <3>3. CASE x = Head(c.buf).src
      <4>1. Port(r, x) = 1
        BY <2>4, <3>3 DEF Port
      <4>2. QED
        BY <2>2, <2>4, <3>1, <3>2, <3>3, <4>1
    <3>4. CASE x # Head(c.buf).src
      <4>1. Port(r, x) = 0
        BY <2>4, <3>4 DEF Port
      <4>2. QED
        BY <2>2, <2>4, <3>1, <3>2, <3>4, <4>1
    <3>5. QED
      BY <3>3, <3>4
  <2>7. First(r) = First(c)
    BY <1>3, <2>4 DEF First
  <2>8. QED
    BY <1>1, <1>3, <2>2, <2>4, <2>5, <2>6, <2>7
<1>4. QED
  BY <1>2, <1>3

\* buffer_add of bytes of one source
LEMMA PutFacts ==
  ASSUME NEW c \in State, Shown(c), NEW src \in Sources,
         NEW b, OneSource(b, src), ~ Disabled(c, src), NEW r, r = Put(c, b)
  PROVE  /\ r \in State /\ Shown(r)
         /\ Unread(r, src) = Unread(c, src) + Len(b)
         /\ \A x : x # src => Unread(r, x) = Unread(c, x)
         /\ src = "kbd" => r.waitKbd = c.waitKbd + Len(b)
         /\ src # "kbd" => r.waitKbd = c.waitKbd
         /\ src = "aux" => r.waitAux = c.waitAux + Len(b)
         /\ src # "aux" => r.waitAux = c.waitAux
         /\ Len(r.buf) <= Len(c.buf) + Len(b)
         /\ SameSettings(c, r) /\ SameDevices(c, r)
         /\ PortKept(c, r)
         /\ First(c) = "none" => First(r) = src
         /\ First(r) # "none"
<1> DEFINE k == IF src = "kbd" THEN c.waitKbd + Len(b) ELSE c.waitKbd
           a == IF src = "aux" THEN c.waitAux + Len(b) ELSE c.waitAux
           d == [c EXCEPT !.buf = c.buf \o b, !.waitKbd = k, !.waitAux = a]
<1>1. /\ Head(b).src = src /\ Len(b) \in Nat \ {0}
      /\ In(b, src) = Len(b) /\ \A y : y # src => In(b, y) = 0
      /\ b \in Seq(Byte) /\ b # <<>>
  BY InOneSource DEF OneSource
<1>2. /\ c.buf \in Seq(Byte) /\ c.new \in BOOLEAN /\ c.from \in Sources \cup {"none"}
      /\ c.waitKbd \in Nat /\ c.waitAux \in Nat /\ Len(c.buf) \in Nat
  BY LenProperties DEF State
<1>3. r = Transfer(d)
  BY <1>1 DEF Put, State
<1>4. /\ c.buf \o b \in Seq(Byte) /\ Len(c.buf \o b) = Len(c.buf) + Len(b)
      /\ c.buf \o b # <<>>
      /\ c.buf = <<>> => Head(c.buf \o b) = Head(b)
      /\ c.buf # <<>> => Head(c.buf \o b) = Head(c.buf)
  <2>1. c.buf \o b \in Seq(Byte) /\ Len(c.buf \o b) = Len(c.buf) + Len(b)
    BY <1>1, <1>2, ConcatProperties
  <2>2. Len(c.buf \o b) # 0
    BY <1>1, <1>2, <2>1
  <2>3. c.buf \o b # <<>>
    BY <2>2, EmptySeq
  <2>4. c.buf = <<>> => c.buf \o b = b
    BY <1>1, ConcatEmptySeq
  <2>5. ASSUME c.buf # <<>> PROVE Head(c.buf \o b) = Head(c.buf)
    <3>1. Len(c.buf) # 0
      BY <1>2, <2>5, EmptySeq
    <3>2. (c.buf \o b)[1] = c.buf[1]
      BY <1>1, <1>2, <3>1, ConcatProperties
    <3>3. QED
      BY <1>2, <2>1, <2>3, <2>5, <3>2
  <2>6. QED
    BY <2>1, <2>3, <2>4, <2>5
<1>5. /\ d \in State /\ d.buf = c.buf \o b
      /\ d.new = c.new /\ d.from = c.from
      /\ src = "kbd" => d.waitKbd = c.waitKbd + Len(b)
      /\ src # "kbd" => d.waitKbd = c.waitKbd
      /\ src = "aux" => d.waitAux = c.waitAux + Len(b)
      /\ src # "aux" => d.waitAux = c.waitAux
      /\ SameSettings(c, d) /\ SameDevices(c, d)
  <2>1. k \in Nat /\ a \in Nat
    BY <1>1, <1>2
  <2> HIDE DEF k, a
  <2>2. /\ d \in State /\ d.buf = c.buf \o b
        /\ d.new = c.new /\ d.from = c.from
        /\ d.waitKbd = k /\ d.waitAux = a
        /\ SameSettings(c, d) /\ SameDevices(c, d)
    BY <1>4, <2>1 DEF State, SameSettings, SameDevices
  <2>3. QED
    BY <2>2 DEF k, a
<1> HIDE DEF d
<1>6. ASSUME NEW x PROVE /\ Unread(d, x) = Unread(c, x) + In(b, x)
                         /\ Unread(c, x) \in Nat
  <2>1. In(d.buf, x) = In(c.buf, x) + In(b, x) /\ In(b, x) \in Nat
    BY <1>1, <1>2, <1>5, InConcat, InType
  <2>2. /\ In(c.buf, x) \in Nat /\ Port(c, x) \in {0, 1}
        /\ Unread(c, x) = In(c.buf, x) + Port(c, x)
        /\ Unread(d, x) = In(d.buf, x) + Port(d, x)
    BY <1>2, <1>4, <1>5, UnreadFacts
  <2>3. Port(d, x) = Port(c, x)
    BY <1>5 DEF Port
  <2>4. QED
    BY <2>1, <2>2, <2>3
<1>7. /\ First(c) # "none" => First(d) = First(c)
      /\ First(c) = "none" => First(d) = src
      /\ First(d) # "none"
  <2>1. c.buf # <<>> => Head(c.buf).src # "none"
    BY <1>2, InTail DEF Byte, Sources
  <2>2. QED
    BY <1>1, <1>2, <1>4, <1>5, <2>1 DEF First, Shown, Sources
<1>8. d.new <=> d.from # "none"
  BY <1>5 DEF Shown
<1>9. /\ r \in State /\ Shown(r)
      /\ \A x : Unread(r, x) = Unread(d, x)
      /\ Len(r.buf) <= Len(d.buf)
      /\ r.waitKbd = d.waitKbd /\ r.waitAux = d.waitAux
      /\ SameSettings(d, r) /\ SameDevices(d, r)
      /\ d.new => r.new /\ r.from = d.from
      /\ First(r) = First(d)
  BY <1>3, <1>5, <1>8, TransferFacts
<1>10. SameSettings(c, r) /\ SameDevices(c, r)
  BY <1>5, <1>9 DEF SameSettings, SameDevices
<1>11. PortKept(c, r)
  BY <1>5, <1>7, <1>9 DEF PortKept
<1>12. Unread(r, src) = Unread(c, src) + Len(b) /\ \A x : x # src => Unread(r, x) = Unread(c, x)
  BY <1>1, <1>6, <1>9
<1>13. QED
  BY <1>4, <1>5, <1>7, <1>9, <1>10, <1>11, <1>12
-----------------------------------------------------------------------------
(* The devices send *)

\* an array of n bytes of a source
LEMMA ArrayFacts ==
  ASSUME NEW src \in Sources, NEW n \in Nat \ {0}, NEW b,
         DOMAIN b = 1 .. n, b = [i \in 1 .. n |-> b[i]],
         \A i \in 1 .. n : b[i] \in Byte /\ b[i].src = src
  PROVE  OneSource(b, src) /\ Len(b) = n
<1>1. b \in Seq(Byte) /\ Len(b) = n
  BY IsASeq, LenProperties
<1>2. b # <<>>
  BY <1>1, EmptySeq
<1>3. QED
  BY <1>1, <1>2 DEF OneSource

LEMMA BytesFacts ==
  ASSUME NEW src \in Sources, NEW n \in Nat \ {0}
  PROVE  OneSource(Bytes(src, n), src) /\ Len(Bytes(src, n)) = n
<1> DEFINE b == Bytes(src, n)
<1>1. /\ DOMAIN b = 1 .. n /\ b = [i \in 1 .. n |-> b[i]]
      /\ \A i \in 1 .. n : b[i] \in Byte /\ b[i].src = src
  BY DEF Bytes, Byte
<1> HIDE DEF b
<1>2. OneSource(b, src) /\ Len(b) = n
  BY <1>1, ArrayFacts
<1>3. QED
  BY <1>2 DEF b

LEMMA AuxFrameFacts ==
  /\ OneSource(AuxFrame, "aux") /\ Len(AuxFrame) = AuxLen
  /\ OneSource(SubSeq(AuxFrame, 1, 1), "aux") /\ Len(SubSeq(AuxFrame, 1, 1)) = 1
<1>1. AuxLen \in Nat \ {0} /\ "aux" \in Sources
  BY I8042Assumption DEF Sources
<1>2. /\ DOMAIN AuxFrame = 1 .. AuxLen
      /\ AuxFrame = [i \in 1 .. AuxLen |-> AuxFrame[i]]
      /\ \A i \in 1 .. AuxLen : AuxFrame[i] \in Byte /\ AuxFrame[i].src = "aux"
  BY <1>1 DEF AuxFrame, Byte
<1>3. OneSource(AuxFrame, "aux") /\ Len(AuxFrame) = AuxLen
  BY <1>1, <1>2, ArrayFacts
<1> DEFINE b == SubSeq(AuxFrame, 1, 1)
<1>4. AuxFrame \in Seq(Byte)
  BY <1>3 DEF OneSource
<1>5. b = [i \in 1 .. 1 |-> AuxFrame[i]]
  BY <1>1, <1>3, <1>4
<1>6. /\ DOMAIN b = 1 .. 1 /\ b = [i \in 1 .. 1 |-> b[i]]
      /\ \A i \in 1 .. 1 : b[i] \in Byte /\ b[i].src = "aux"
  BY <1>1, <1>2, <1>5
<1> HIDE DEF b
<1>7. OneSource(b, "aux") /\ Len(b) = 1
  <2>1. 1 \in Nat \ {0}
    OBVIOUS
  <2>2. QED
    BY <1>1, <1>6, <2>1, ArrayFacts
<1>8. QED
  BY <1>3, <1>7 DEF b

LEMMA AckFacts ==
  ASSUME NEW n \in {1, 2}
  PROVE  LET b == [i \in 1 .. n |-> [src |-> "aux", skip |-> FALSE]]
         IN  OneSource(b, "aux") /\ Len(b) = n
<1> DEFINE b == [i \in 1 .. n |-> [src |-> "aux", skip |-> FALSE]]
<1>1. n \in Nat \ {0} /\ "aux" \in Sources
  BY DEF Sources
<1>2. /\ DOMAIN b = 1 .. n /\ b = [i \in 1 .. n |-> b[i]]
      /\ \A i \in 1 .. n : b[i] \in Byte /\ b[i].src = "aux"
  BY DEF Byte, Sources
<1> HIDE DEF b
<1>3. OneSource(b, "aux") /\ Len(b) = n
  BY <1>1, <1>2, ArrayFacts
<1>4. QED
  BY <1>3 DEF b

\* Nothing about the bytes changes.
SameBytes(c, r) ==
  /\ r.buf = c.buf /\ r.new = c.new /\ r.from = c.from
  /\ r.waitKbd = c.waitKbd /\ r.waitAux = c.waitAux

LEMMA SameBytesFacts ==
  ASSUME NEW k, NEW a, NEW c, Sound(c, k, a), NEW r \in State, SameBytes(c, r),
         c.timer => r.timer, r.dump = c.dump, Len(r.keys) <= KeyBufferSize
  PROVE  /\ Sound(r, k, a)
         /\ \A x : Unread(r, x) = Unread(c, x)
         /\ PortKept(c, r) /\ First(r) = First(c)
<1>1. \A x : Unread(r, x) = Unread(c, x)
  BY DEF Unread, SameBytes
<1>2. First(r) = First(c)
  BY DEF First, SameBytes
<1>3. Shown(r)
  BY DEF Shown, SameBytes, Sound
<1>4. Counted(r, k, a)
  BY <1>1 DEF Counted, SameBytes, Sound
<1>5. ~ r.dump => Load(r)
  BY <1>1 DEF Load, Sound
<1>6. QED
  BY <1>1, <1>2, <1>3, <1>4, <1>5 DEF Sound, SameBytes, PortKept

\* n bytes of a source can be added.
Fits(c, src, n) ==
  /\ Len(c.buf) + n <= BufferSize
  /\ ~ c.dump /\ src = "aux" => Unread(c, "aux") + n <= AuxLen + 1
  /\ ~ c.dump /\ src = "kbd" =>
       Unread(c, "kbd") + n + Unread(c, "ctl") <= BufferSize - AuxLen
  /\ ~ c.dump /\ src = "ctl" =>
       /\ Unread(c, "ctl") + n <= 1
       /\ Unread(c, "kbd") + Unread(c, "ctl") + n <= BufferSize - AuxLen

LEMMA PutSound ==
  ASSUME NEW k \in {0, 1}, NEW a \in {0, 1}, NEW c, Sound(c, k, a),
         NEW src \in Sources, NEW b, OneSource(b, src), ~ Disabled(c, src),
         Fits(c, src, Len(b)), NEW r, r = Put(c, b)
  PROVE  Sound(r, k, a)
<1>1. c \in State /\ Shown(c) /\ Counted(c, k, a)
  BY DEF Sound
<1>2. /\ r \in State /\ Shown(r)
      /\ Unread(r, src) = Unread(c, src) + Len(b)
      /\ \A x : x # src => Unread(r, x) = Unread(c, x)
      /\ src = "kbd" => r.waitKbd = c.waitKbd + Len(b)
      /\ src # "kbd" => r.waitKbd = c.waitKbd
      /\ src = "aux" => r.waitAux = c.waitAux + Len(b)
      /\ src # "aux" => r.waitAux = c.waitAux
      /\ Len(r.buf) <= Len(c.buf) + Len(b)
      /\ SameSettings(c, r) /\ SameDevices(c, r)
      /\ PortKept(c, r)
  BY <1>1, PutFacts
<1>3. /\ Len(b) \in Nat /\ BufferSize \in Nat /\ AuxLen \in Nat
      /\ c.waitKbd \in Nat /\ c.waitAux \in Nat /\ Len(c.buf) \in Nat /\ Len(r.buf) \in Nat
      /\ \A x : Unread(c, x) \in Nat
  BY <1>1, <1>2, InOneSource, I8042Assumption, UnreadSum DEF State
<1>4. Unread(c, "kbd") \in Nat /\ Unread(c, "aux") \in Nat /\ Unread(c, "ctl") \in Nat
  BY <1>3
<1>5. src \in {"kbd", "aux", "ctl"}
  BY DEF Sources
<1>6. Counted(r, k, a)
  <2>1. k = 1 => r.new /\ r.from = "kbd"
    BY <1>1, <1>2 DEF Counted, PortKept
  <2>2. a = 1 => r.new /\ r.from = "aux"
    BY <1>1, <1>2 DEF Counted, PortKept
  <2>3. c.waitKbd + k = Unread(c, "kbd") /\ c.waitAux + a = Unread(c, "aux")
    BY <1>1 DEF Counted
  <2>4. r.waitKbd + k = Unread(r, "kbd")
    <3>1. CASE src = "kbd"
      <4>1. r.waitKbd = c.waitKbd + Len(b) /\ Unread(r, "kbd") = Unread(c, "kbd") + Len(b)
        BY <1>2, <3>1
      <4>2. QED
        BY <1>3, <1>4, <2>3, <4>1
    <3>2. CASE src # "kbd"
      <4>1. r.waitKbd = c.waitKbd /\ Unread(r, "kbd") = Unread(c, "kbd")
        BY <1>2, <3>2
      <4>2. QED
        BY <2>3, <4>1
    <3>3. QED
      BY <3>1, <3>2
  <2>5. r.waitAux + a = Unread(r, "aux")
    <3>1. CASE src = "aux"
      <4>1. r.waitAux = c.waitAux + Len(b) /\ Unread(r, "aux") = Unread(c, "aux") + Len(b)
        BY <1>2, <3>1
      <4>2. QED
        BY <1>3, <1>4, <2>3, <4>1
    <3>2. CASE src # "aux"
      <4>1. r.waitAux = c.waitAux /\ Unread(r, "aux") = Unread(c, "aux")
        BY <1>2, <3>2
      <4>2. QED
        BY <2>3, <4>1
    <3>3. QED
      BY <3>1, <3>2
  <2>6. QED
    BY <2>1, <2>2, <2>4, <2>5 DEF Counted
<1>7. Len(r.buf) <= BufferSize
  BY <1>2, <1>3 DEF Fits
<1>8. ASSUME ~ r.dump PROVE Load(r)
  <2>1. ~ c.dump /\ Load(c)
    BY <1>2, <1>8 DEF SameSettings, Sound
  <2>2. CASE src = "kbd"
    BY <1>2, <1>3, <1>4, <2>1, <2>2 DEF Load, Fits
  <2>3. CASE src = "aux"
    BY <1>2, <1>3, <1>4, <2>1, <2>3 DEF Load, Fits
  <2>4. CASE src = "ctl"
    <3>1. /\ Unread(r, "ctl") = Unread(c, "ctl") + Len(b)
          /\ Unread(r, "kbd") = Unread(c, "kbd") /\ Unread(r, "aux") = Unread(c, "aux")
      BY <1>2, <2>4
    <3>2. /\ Unread(c, "ctl") + Len(b) <= 1
          /\ Unread(c, "kbd") + Unread(c, "ctl") + Len(b) <= BufferSize - AuxLen
      BY <2>1, <2>4 DEF Fits
    <3>3. QED
      BY <1>3, <1>4, <2>1, <3>1, <3>2 DEF Load
  <2>5. QED
    BY <1>5, <2>2, <2>3, <2>4
<1>9. Len(r.keys) <= KeyBufferSize
  BY <1>2 DEF SameDevices, Sound
<1>10. QED
  BY <1>2, <1>6, <1>7, <1>8, <1>9 DEF Sound

\* A device that may send finds room.
LEMMA KeyFits ==
  ASSUME NEW k \in {0, 1}, NEW a \in {0, 1}, NEW c, Sound(c, k, a), CanSendKey(c)
  PROVE  /\ Head(c.keys) \in Keys /\ Head(c.keys) \in Nat \ {0}
         /\ Tail(c.keys) \in Seq(Keys) /\ Len(Tail(c.keys)) = Len(c.keys) - 1
         /\ Fits(c, "kbd", Head(c.keys))
         /\ ~ Disabled(c, "kbd")
<1>1. /\ c \in State /\ Shown(c) /\ Counted(c, k, a)
      /\ c.keys # <<>> /\ c.waitKbd = 0 /\ ~ c.offKbd /\ ~ c.dump /\ Load(c)
  BY DEF Sound, CanSendKey, IsReadyForKbdFrame
<1>2. /\ Head(c.keys) \in Keys
      /\ Tail(c.keys) \in Seq(Keys) /\ Len(Tail(c.keys)) = Len(c.keys) - 1
  BY <1>1, HeadTailProperties DEF State
<1>3. /\ Head(c.keys) \in Nat \ {0} /\ AuxLen \in Nat /\ BufferSize \in Nat
      /\ AuxLen + Head(c.keys) + 3 <= BufferSize
  BY <1>2, I8042Assumption
<1>4. /\ Len(c.buf) \in Nat
      /\ \A x : Unread(c, x) \in Nat
      /\ ~ c.new => Len(c.buf) = Unread(c, "kbd") + Unread(c, "aux") + Unread(c, "ctl")
      /\ c.new => Len(c.buf) + 1 = Unread(c, "kbd") + Unread(c, "aux") + Unread(c, "ctl")
  BY <1>1, UnreadSum
<1>5. Unread(c, "kbd") \in Nat /\ Unread(c, "aux") \in Nat /\ Unread(c, "ctl") \in Nat
  BY <1>4
<1>6. Unread(c, "kbd") = k /\ (k = 1 => c.new)
  BY <1>1 DEF Counted
<1>7. Unread(c, "aux") <= AuxLen + 1 /\ Unread(c, "ctl") <= 1
  BY <1>1 DEF Load
<1>8. Len(c.buf) + Head(c.keys) <= BufferSize
  <2>1. ASSUME c.new PROVE Len(c.buf) <= AuxLen + 2
    <3>1. Len(c.buf) + 1 = k + Unread(c, "aux") + Unread(c, "ctl")
      BY <1>4, <1>6, <2>1
    <3>2. k \in Nat /\ k <= 1 /\ Len(c.buf) \in Nat
      BY <1>4
    <3>3. QED
      BY <1>3, <1>5, <1>7, <3>1, <3>2
  <2>2. ASSUME ~ c.new PROVE Len(c.buf) <= AuxLen + 2
    <3>1. k = 0
      BY <1>6, <2>2
    <3>2. Len(c.buf) = 0 + Unread(c, "aux") + Unread(c, "ctl")
      BY <1>4, <1>6, <2>2, <3>1
    <3>3. QED
      BY <1>3, <1>4, <1>5, <1>7, <3>2
  <2>3. Len(c.buf) <= AuxLen + 2
    BY <2>1, <2>2
  <2>4. PICK h \in Nat : h = Head(c.keys)
    BY <1>3
  <2>5. PICK n \in Nat : n = Len(c.buf)
    BY <1>4
  <2>6. AuxLen + h + 3 <= BufferSize /\ n <= AuxLen + 2
    BY <1>3, <2>3, <2>4, <2>5
  <2>7. n + h <= BufferSize
    BY <1>3, <2>6
  <2>8. QED
    BY <2>4, <2>5, <2>7
<1>9. Unread(c, "kbd") + Head(c.keys) + Unread(c, "ctl") <= BufferSize - AuxLen
  BY <1>3, <1>5, <1>6, <1>7
<1>10. Fits(c, "kbd", Head(c.keys))
  BY <1>8, <1>9 DEF Fits
<1>11. QED
  BY <1>1, <1>2, <1>3, <1>10 DEF Disabled

LEMMA FrameFits ==
  ASSUME NEW k \in {0, 1}, NEW a \in {0, 1}, NEW c, Sound(c, k, a), CanSendAux(c)
  PROVE  Fits(c, "aux", AuxLen) /\ ~ Disabled(c, "aux")
<1>1. /\ c \in State /\ Shown(c) /\ Counted(c, k, a)
      /\ c.waitAux = 0 /\ ~ c.offAux /\ ~ c.dump /\ Load(c)
  BY DEF Sound, CanSendAux, IsReadyForAuxFrame
<1>2. AuxLen \in Nat /\ BufferSize \in Nat
  BY I8042Assumption
<1>3. /\ Len(c.buf) \in Nat
      /\ \A x : Unread(c, x) \in Nat
      /\ ~ c.new => Len(c.buf) = Unread(c, "kbd") + Unread(c, "aux") + Unread(c, "ctl")
      /\ c.new => Len(c.buf) + 1 = Unread(c, "kbd") + Unread(c, "aux") + Unread(c, "ctl")
  BY <1>1, UnreadSum
<1>4. Unread(c, "kbd") \in Nat /\ Unread(c, "aux") \in Nat /\ Unread(c, "ctl") \in Nat
  BY <1>3
<1>5. Unread(c, "aux") = a /\ (a = 1 => c.new)
  BY <1>1 DEF Counted
<1>6. Unread(c, "kbd") + Unread(c, "ctl") <= BufferSize - AuxLen
  BY <1>1 DEF Load
<1>7. Len(c.buf) + AuxLen <= BufferSize
  <2>1. CASE c.new
    BY <1>2, <1>3, <1>4, <1>5, <1>6, <2>1
  <2>2. CASE ~ c.new
    <3>1. a = 0
      BY <1>5, <2>2
    <3>2. QED
      BY <1>2, <1>3, <1>4, <1>5, <1>6, <2>2, <3>1
  <2>3. QED
    BY <2>1, <2>2
<1>8. Unread(c, "aux") + AuxLen <= AuxLen + 1
  BY <1>2, <1>5
<1>9. QED
  BY <1>1, <1>7, <1>8 DEF Fits, Disabled
LEMMA PutKeyFacts ==
  ASSUME NEW k \in {0, 1}, NEW a \in {0, 1}, NEW c, Sound(c, k, a),
         NEW r, r = PutKey(c)
  PROVE  /\ Sound(r, k, a) /\ SameSettings(c, r) /\ PortKept(c, r)
         /\ r.waitAux = c.waitAux /\ r.moved = c.moved /\ r.auxTimer = c.auxTimer
         /\ KeyTold(r) /\ (KeyWaits(r) => KeyWaits(c))
         /\ ~ CanSendKey(c) => r = c
         /\ \A x : x # "kbd" => Unread(r, x) = Unread(c, x)
         /\ \/ Unread(r, "kbd") = Unread(c, "kbd")
            \/ \E n \in Keys : Unread(r, "kbd") = Unread(c, "kbd") + n
<1>1. CASE ~ CanSendKey(c)
  <2>1. r = c
    BY <1>1 DEF PutKey
  <2>2. KeyTold(c)
    BY <1>1 DEF KeyTold, KeyWaits, CanSendKey
  <2>3. QED
    BY <2>1, <2>2 DEF SameSettings, PortKept
<1>2. CASE CanSendKey(c)
  <2> DEFINE n == Head(c.keys)
             b == Bytes("kbd", n)
             d == Put(c, b)
  <2>1. /\ n \in Keys /\ n \in Nat \ {0}
        /\ Tail(c.keys) \in Seq(Keys) /\ Len(Tail(c.keys)) = Len(c.keys) - 1
        /\ Fits(c, "kbd", n) /\ ~ Disabled(c, "kbd")
    BY <1>2, KeyFits
  <2>2. "kbd" \in Sources /\ "aux" # "kbd"
    BY DEF Sources
  <2>3. OneSource(b, "kbd") /\ Len(b) = n
    BY <2>1, <2>2, BytesFacts
  <2>4. r = [d EXCEPT !.keys = Tail(@)]
    BY <1>2 DEF PutKey
  <2> HIDE DEF n, b, d
  <2>5. c \in State /\ Shown(c) /\ c.waitKbd \in Nat
    BY DEF Sound, State
  <2>6. /\ d \in State /\ Shown(d)
        /\ Unread(d, "kbd") = Unread(c, "kbd") + n
        /\ \A x : x # "kbd" => Unread(d, x) = Unread(c, x)
        /\ d.waitKbd = c.waitKbd + n
        /\ d.waitAux = c.waitAux
        /\ SameSettings(c, d) /\ SameDevices(c, d)
        /\ PortKept(c, d)
    BY <2>1, <2>2, <2>3, <2>5, PutFacts DEF d
  <2>7. Sound(d, k, a)
    BY <2>1, <2>2, <2>3, PutSound DEF d
  <2>8. d.keys = c.keys /\ d.moved = c.moved /\ d.auxTimer = c.auxTimer
    BY <2>6 DEF SameDevices
  <2>9. /\ r \in State /\ SameBytes(d, r) /\ SameSettings(d, r)
        /\ r.keys = Tail(c.keys) /\ (d.timer => r.timer)
        /\ r.moved = c.moved /\ r.auxTimer = c.auxTimer
    <3>1. r = [d EXCEPT !.keys = Tail(c.keys)] /\ d \in State
      BY <2>4, <2>6, <2>8 DEF State
    <3>2. r \in State
      BY <2>1, <3>1 DEF State
    <3>3. /\ SameBytes(d, r) /\ SameSettings(d, r)
          /\ r.timer = d.timer /\ r.keys = Tail(c.keys)
          /\ r.moved = d.moved /\ r.auxTimer = d.auxTimer
      BY <3>1 DEF State, SameBytes, SameSettings
    <3>4. QED
      BY <2>8, <3>2, <3>3
  <2>10. Len(r.keys) <= KeyBufferSize
    <3>1. Len(c.keys) <= KeyBufferSize /\ Len(c.keys) \in Nat /\ KeyBufferSize \in Nat
      BY I8042Assumption, LenProperties DEF Sound, State
    <3>2. QED
      BY <2>1, <2>9, <3>1
  <2>11. r.dump = d.dump
    BY <2>9 DEF SameSettings
  <2>12. /\ Sound(r, k, a) /\ PortKept(d, r) /\ First(r) = First(d)
         /\ \A x : Unread(r, x) = Unread(d, x)
    <3>1. r \in State /\ SameBytes(d, r) /\ (d.timer => r.timer)
      BY <2>9
    <3>2. QED
      BY <2>7, <2>10, <2>11, <3>1, SameBytesFacts
  <2>13. SameSettings(c, r)
    BY <2>6, <2>9 DEF SameSettings
  <2>14. PortKept(c, r)
    BY <2>6, <2>9, <2>12 DEF PortKept, SameBytes
  <2>15. r.waitKbd # 0
    BY <2>1, <2>5, <2>6, <2>9 DEF SameBytes
  <2>16. KeyTold(r)
    BY <2>15 DEF KeyTold, IsReadyForKbdFrame
  <2>17. KeyWaits(c)
    BY <1>2 DEF CanSendKey, KeyWaits
  <2>18. /\ r.waitAux = c.waitAux
         /\ \A x : x # "kbd" => Unread(r, x) = Unread(c, x)
         /\ \E m \in Keys : Unread(r, "kbd") = Unread(c, "kbd") + m
    BY <2>1, <2>6, <2>9, <2>12 DEF SameBytes
  <2>19. QED
    BY <1>2, <2>9, <2>12, <2>13, <2>14, <2>16, <2>17, <2>18
<1>3. QED
  BY <1>1, <1>2

LEMMA PutAuxFacts ==
  ASSUME NEW k \in {0, 1}, NEW a \in {0, 1}, NEW c, Sound(c, k, a),
         NEW r, r = PutAux(c)
  PROVE  /\ Sound(r, k, a) /\ SameSettings(c, r) /\ PortKept(c, r)
         /\ r.waitKbd = c.waitKbd /\ r.keys = c.keys
         /\ FrameTold(r) /\ (FrameWaits(r) => FrameWaits(c))
         /\ ~ CanSendAux(c) => r = c
         /\ \A x : x # "aux" => Unread(r, x) = Unread(c, x)
         /\ Unread(r, "aux") \in {Unread(c, "aux"), Unread(c, "aux") + AuxLen}
<1>1. CASE ~ CanSendAux(c)
  <2>1. r = c
    BY <1>1 DEF PutAux
  <2>2. FrameTold(c)
    BY <1>1 DEF FrameTold, FrameWaits, CanSendAux
  <2>3. QED
    BY <2>1, <2>2 DEF SameSettings, PortKept
<1>2. CASE CanSendAux(c)
  <2> DEFINE d == [c EXCEPT !.auxTimer = TRUE, !.moved = FALSE]
  <2>1. c \in State /\ Len(c.keys) <= KeyBufferSize
    BY DEF Sound
  <2>2. /\ d \in State /\ SameBytes(c, d) /\ SameSettings(c, d)
        /\ d.timer = c.timer /\ d.keys = c.keys /\ d.dump = c.dump
        /\ d.moved = FALSE
    BY <2>1 DEF State, SameBytes, SameSettings
  <2>3. r = IF c.reporting THEN Put(d, AuxFrame) ELSE d
    BY <1>2 DEF PutAux
  <2> HIDE DEF d
  <2>4. /\ Sound(d, k, a) /\ PortKept(c, d) /\ First(d) = First(c)
        /\ \A x : Unread(d, x) = Unread(c, x)
    BY <2>1, <2>2, SameBytesFacts
  <2>5. Fits(c, "aux", AuxLen) /\ ~ Disabled(c, "aux")
    BY <1>2, FrameFits
  <2>6. Fits(d, "aux", AuxLen)
    BY <2>2, <2>4, <2>5 DEF Fits, SameBytes
  <2>7. ~ Disabled(d, "aux")
    BY <2>2, <2>5 DEF Disabled, SameSettings
  <2>8. FrameWaits(c)
    BY <1>2 DEF CanSendAux, FrameWaits
  <2>9. CASE ~ c.reporting
    <3>1. r = d
      BY <2>3, <2>9
    <3>2. ~ FrameWaits(r)
      BY <2>2, <3>1 DEF FrameWaits
    <3>3. QED
      BY <1>2, <2>2, <2>4, <2>8, <3>1, <3>2 DEF FrameTold, SameBytes
  <2>10. CASE c.reporting
    <3>1. r = Put(d, AuxFrame)
      BY <2>3, <2>10
    <3>2. OneSource(AuxFrame, "aux") /\ Len(AuxFrame) = AuxLen /\ "aux" \in Sources /\ "aux" # "kbd"
      BY AuxFrameFacts DEF Sources
    <3>3. d \in State /\ Shown(d)
      BY <2>4 DEF Sound
    <3>4. /\ Unread(r, "aux") = Unread(d, "aux") + AuxLen
          /\ \A x : x # "aux" => Unread(r, x) = Unread(d, x)
          /\ r.waitKbd = d.waitKbd
          /\ SameSettings(d, r) /\ SameDevices(d, r)
          /\ PortKept(d, r)
      BY <2>7, <3>1, <3>2, <3>3, PutFacts
    <3>5. Sound(r, k, a)
      BY <2>4, <2>6, <2>7, <3>1, <3>2, PutSound
    <3>6. SameSettings(c, r)
      BY <2>2, <3>4 DEF SameSettings
    <3>7. PortKept(c, r)
      BY <2>2, <2>4, <3>4 DEF PortKept, SameBytes
    <3>8. ~ FrameWaits(r) /\ r.keys = c.keys
      BY <2>2, <3>4 DEF FrameWaits, SameDevices
    <3>9. QED
      BY <1>2, <2>2, <2>4, <2>8, <3>4, <3>5, <3>6, <3>7, <3>8 DEF FrameTold, SameBytes
  <2>11. c.reporting \in BOOLEAN
    BY <2>1 DEF State
  <2>12. QED
    BY <2>9, <2>10, <2>11
<1>3. QED
  BY <1>1, <1>2

\* Devices that may send find room, so nothing is flushed for them.
LEMMA SendKeyPuts ==
  ASSUME NEW k \in {0, 1}, NEW a \in {0, 1}, NEW c, Sound(c, k, a)
  PROVE  SendKey(c) = PutKey(c)
<1>1. CASE ~ CanSendKey(c)
  BY <1>1 DEF SendKey, PutKey
<1>2. CASE CanSendKey(c)
  <2>1. Fits(c, "kbd", Head(c.keys)) /\ Head(c.keys) \in Nat
    BY <1>2, KeyFits
  <2>2. Len(c.buf) \in Nat /\ BufferSize \in Nat
    BY I8042Assumption, LenProperties DEF Sound, State
  <2>3. ~ (Len(c.buf) + Head(c.keys) > BufferSize)
    BY <2>1, <2>2 DEF Fits
  <2>4. MakeRoom(c, Head(c.keys)) = c
    BY <2>3 DEF MakeRoom
  <2>5. QED
    BY <1>2, <2>4 DEF SendKey
<1>3. QED
  BY <1>1, <1>2

LEMMA NotifyAuxPuts ==
  ASSUME NEW k \in {0, 1}, NEW a \in {0, 1}, NEW c, Sound(c, k, a)
  PROVE  NotifyAux(c) = PutAux(c)
<1>1. CASE ~ CanSendAux(c)
  BY <1>1 DEF NotifyAux
<1>2. CASE CanSendAux(c)
  <2>1. Fits(c, "aux", AuxLen)
    BY <1>2, FrameFits
  <2>2. Len(c.buf) \in Nat /\ BufferSize \in Nat /\ AuxLen \in Nat
    BY I8042Assumption, LenProperties DEF Sound, State
  <2>3. ~ (Len(c.buf) + AuxLen > BufferSize)
    BY <2>1, <2>2 DEF Fits
  <2>4. MakeRoom(c, AuxLen) = c
    BY <2>3 DEF MakeRoom
  <2>5. QED
    BY <2>4 DEF NotifyAux
<1>3. QED
  BY <1>1, <1>2

\* KEYBOARD_NotifyReadyForFrame
LEMMA NotifyKbdFacts ==
  ASSUME NEW k \in {0, 1}, NEW a \in {0, 1}, NEW c, Sound(c, k, a),
         NEW r, r = NotifyKbd(c)
  PROVE  /\ r = PutKey(ClearLatch(c))
         /\ Sound(r, k, a) /\ SameSettings(c, r) /\ PortKept(c, r)
         /\ r.waitAux = c.waitAux /\ r.moved = c.moved /\ r.auxTimer = c.auxTimer
         /\ KeyTold(r) /\ (KeyWaits(r) => KeyWaits(c))
         /\ \A x : x # "kbd" => Unread(r, x) = Unread(c, x)
         /\ \/ Unread(r, "kbd") = Unread(c, "kbd")
            \/ \E n \in Keys : Unread(r, "kbd") = Unread(c, "kbd") + n
<1> DEFINE d == ClearLatch(c)
<1>1. c \in State /\ Len(c.keys) <= KeyBufferSize
  BY DEF Sound
<1>2. /\ d \in State /\ SameBytes(c, d) /\ SameSettings(c, d)
      /\ d.timer = c.timer /\ d.keys = c.keys /\ d.dump = c.dump
      /\ d.moved = c.moved /\ d.auxTimer = c.auxTimer
  BY <1>1 DEF State, SameBytes, SameSettings, ClearLatch
<1> HIDE DEF d
<1>3. /\ Sound(d, k, a) /\ First(d) = First(c)
      /\ \A x : Unread(d, x) = Unread(c, x)
  BY <1>1, <1>2, SameBytesFacts
<1>4. r = PutKey(d)
  BY <1>3, SendKeyPuts DEF NotifyKbd, d
<1>5. /\ Sound(r, k, a) /\ SameSettings(d, r) /\ PortKept(d, r)
      /\ r.waitAux = d.waitAux /\ r.moved = d.moved /\ r.auxTimer = d.auxTimer
      /\ KeyTold(r) /\ (KeyWaits(r) => KeyWaits(d))
      /\ \A x : x # "kbd" => Unread(r, x) = Unread(d, x)
      /\ \/ Unread(r, "kbd") = Unread(d, "kbd")
         \/ \E n \in Keys : Unread(r, "kbd") = Unread(d, "kbd") + n
  BY <1>3, <1>4, PutKeyFacts
<1>6. SameSettings(c, r)
  BY <1>2, <1>5 DEF SameSettings
<1>7. PortKept(c, r)
  BY <1>2, <1>3, <1>5 DEF PortKept, SameBytes
<1>8. KeyWaits(r) => KeyWaits(c)
  BY <1>2, <1>5 DEF KeyWaits
<1>9. r = PutKey(ClearLatch(c))
  BY <1>4 DEF d
<1>10. r.waitAux = c.waitAux /\ r.moved = c.moved /\ r.auxTimer = c.auxTimer
  BY <1>2, <1>5 DEF SameBytes
<1>11. QED
  BY <1>3, <1>5, <1>6, <1>7, <1>8, <1>9, <1>10
-----------------------------------------------------------------------------
(* Devices are told, and the buffer is flushed *)

\* What devices that send do not disturb
Sends(c, r) ==
  /\ SameSettings(c, r) /\ PortKept(c, r)
  /\ KeyWaits(r) => KeyWaits(c)
  /\ FrameWaits(r) => FrameWaits(c)

LEMMA NotifyFacts ==
  ASSUME NEW k \in {0, 1}, NEW a \in {0, 1}, NEW c, Sound(c, k, a),
         NEW old, NEW r, r = NotifyDevices(old, c)
  PROVE  /\ Sound(r, k, a) /\ Sends(c, r)
         /\ c.dump => r = c
         /\ Unread(r, "ctl") = Unread(c, "ctl")
         /\ Unread(r, "aux") \in {Unread(c, "aux"), Unread(c, "aux") + AuxLen}
         /\ \/ Unread(r, "kbd") = Unread(c, "kbd")
            \/ \E n \in Keys : Unread(r, "kbd") = Unread(c, "kbd") + n
         /\ KeyTold(old) /\ (KeyWaits(c) => KeyWaits(old)) => KeyTold(r)
         /\ FrameTold(old) /\ (FrameWaits(c) => FrameWaits(old)) => FrameTold(r)
<1> DEFINE d == IF BecameReadyAux(old, c) THEN NotifyAux(c) ELSE c
<1>1. r = IF BecameReadyKbd(old, d) THEN NotifyKbd(d) ELSE d
  BY DEF NotifyDevices
<1>2. /\ Sound(d, k, a) /\ SameSettings(c, d) /\ PortKept(c, d)
      /\ d.waitKbd = c.waitKbd /\ d.keys = c.keys
      /\ FrameWaits(d) => FrameWaits(c)
      /\ c.dump => d = c
      /\ \A x : x # "aux" => Unread(d, x) = Unread(c, x)
      /\ Unread(d, "aux") \in {Unread(c, "aux"), Unread(c, "aux") + AuxLen}
      /\ FrameTold(old) /\ (FrameWaits(c) => FrameWaits(old)) => FrameTold(d)
  <2>1. CASE BecameReadyAux(old, c)
    <3>1. d = PutAux(c)
      BY <2>1, NotifyAuxPuts
    <3>2. ~ c.dump
      BY <2>1 DEF BecameReadyAux, IsReadyForAuxFrame
    <3> HIDE DEF d
    <3>3. QED
      BY <3>1, <3>2, PutAuxFacts
  <2>2. CASE ~ BecameReadyAux(old, c)
    <3>1. d = c
      BY <2>2
    <3>2. FrameTold(old) /\ (FrameWaits(c) => FrameWaits(old)) => FrameTold(c)
      BY <2>2 DEF BecameReadyAux, FrameTold
    <3> HIDE DEF d
    <3>3. SameSettings(c, c) /\ PortKept(c, c)
      BY DEF SameSettings, PortKept
    <3>4. QED
      BY <3>1, <3>2, <3>3
  <2>3. QED
    BY <2>1, <2>2
<1> HIDE DEF d
<1>3. /\ Sound(r, k, a) /\ SameSettings(d, r) /\ PortKept(d, r)
      /\ r.waitAux = d.waitAux /\ r.moved = d.moved /\ r.auxTimer = d.auxTimer
      /\ KeyWaits(r) => KeyWaits(d)
      /\ d.dump => r = d
      /\ \A x : x # "kbd" => Unread(r, x) = Unread(d, x)
      /\ \/ Unread(r, "kbd") = Unread(d, "kbd")
         \/ \E n \in Keys : Unread(r, "kbd") = Unread(d, "kbd") + n
      /\ KeyTold(old) /\ (KeyWaits(d) => KeyWaits(old)) => KeyTold(r)
  <2>1. CASE BecameReadyKbd(old, d)
    <3>1. r = NotifyKbd(d)
      BY <1>1, <2>1
    <3>2. ~ d.dump
      BY <2>1 DEF BecameReadyKbd, IsReadyForKbdFrame
    <3>3. QED
      BY <1>2, <3>1, <3>2, NotifyKbdFacts
  <2>2. CASE ~ BecameReadyKbd(old, d)
    <3>1. r = d
      BY <1>1, <2>2
    <3>2. KeyTold(old) /\ (KeyWaits(d) => KeyWaits(old)) => KeyTold(d)
      BY <2>2 DEF BecameReadyKbd, KeyTold
    <3>3. SameSettings(d, d) /\ PortKept(d, d)
      BY DEF SameSettings, PortKept
    <3>4. QED
      BY <1>2, <3>1, <3>2, <3>3
  <2>3. QED
    BY <2>1, <2>2
<1>4. KeyWaits(d) <=> KeyWaits(c)
  BY <1>2 DEF KeyWaits
<1>5. FrameWaits(r) <=> FrameWaits(d)
  BY <1>3 DEF FrameWaits
<1>6. FrameTold(r) <=> FrameTold(d)
  BY <1>3, <1>5 DEF FrameTold, IsReadyForAuxFrame, SameSettings
<1>7. SameSettings(c, r)
  BY <1>2, <1>3 DEF SameSettings
<1>8. PortKept(c, r)
  BY <1>2, <1>3 DEF PortKept
<1>9. Sends(c, r)
  BY <1>2, <1>3, <1>4, <1>5, <1>7, <1>8 DEF Sends
<1>10. c.dump => r = c
  BY <1>2, <1>3 DEF SameSettings
<1>11. Unread(r, "ctl") = Unread(c, "ctl") /\ Unread(r, "aux") = Unread(d, "aux")
  BY <1>2, <1>3
<1>12. Unread(d, "kbd") = Unread(c, "kbd")
  BY <1>2
<1>13. QED
  BY <1>2, <1>3, <1>4, <1>6, <1>9, <1>10, <1>11, <1>12

LEMMA EmptiedFacts ==
  ASSUME NEW c \in State, Len(c.keys) <= KeyBufferSize, NEW r, r = Emptied(c)
  PROVE  /\ Sound(r, 0, 0) /\ SameSettings(c, r) /\ SameDevices(c, r)
         /\ r.buf = <<>> /\ ~ r.new /\ r.waitKbd = 0 /\ r.waitAux = 0
         /\ \A x : Unread(r, x) = 0
         /\ Len(r.buf) = 0 /\ First(r) = "none"
<1>1. <<>> \in Seq(Byte) /\ Len(<<>>) = 0
  OBVIOUS
<1>2. /\ r \in State /\ SameSettings(c, r) /\ SameDevices(c, r)
      /\ r.buf = <<>> /\ r.new = FALSE /\ r.from = "none"
      /\ r.waitKbd = 0 /\ r.waitAux = 0
  BY <1>1 DEF Emptied, State, SameSettings, SameDevices
<1>3. ASSUME NEW x PROVE Unread(r, x) = 0
  <2>1. Unread(r, x) = In(r.buf, x) + Port(r, x)
    BY <1>1, <1>2, UnreadFacts
  <2>2. Port(r, x) = 0
    BY <1>2 DEF Port
  <2>3. In(r.buf, x) = 0
    BY <1>2, InEmpty
  <2>4. QED
    BY <2>1, <2>2, <2>3
<1>4. Unread(r, "kbd") = 0 /\ Unread(r, "aux") = 0 /\ Unread(r, "ctl") = 0
  BY <1>3
<1>5. AuxLen \in Nat /\ BufferSize \in Nat /\ AuxLen <= BufferSize
  <2>1. PICK n \in Keys : TRUE
    BY I8042Assumption
  <2>2. n \in Nat /\ AuxLen \in Nat /\ BufferSize \in Nat /\ AuxLen + n + 3 <= BufferSize
    BY I8042Assumption
  <2>3. QED
    BY <2>2
<1>6. Load(r)
  BY <1>4, <1>5 DEF Load
<1>7. Counted(r, 0, 0)
  BY <1>2, <1>4 DEF Counted
<1>8. Shown(r)
  BY <1>2 DEF Shown
<1>9. Sound(r, 0, 0)
  BY <1>1, <1>2, <1>5, <1>6, <1>7, <1>8 DEF Sound, SameDevices
<1>10. QED
  BY <1>1, <1>2, <1>3, <1>9 DEF First

\* n more bytes of the keyboard fit after a flush.
Room(c, n) ==
  /\ Unread(c, "ctl") = 0 /\ Unread(c, "aux") <= AuxLen
  /\ Unread(c, "kbd") + AuxLen + n <= BufferSize

\* flush_buffer
LEMMA FlushFacts ==
  ASSUME NEW c \in State, Len(c.keys) <= KeyBufferSize, NEW r, r = Flush(c)
  PROVE  /\ Sound(r, 0, 0) /\ Room(r, 3)
         /\ SameSettings(c, r)
         /\ FrameTold(c) => FrameTold(r)
<1> DEFINE d == Emptied(c)
           e == IF BecameReadyAux(c, d) THEN PutAux(d) ELSE d
<1>1. /\ Sound(d, 0, 0) /\ SameSettings(c, d) /\ SameDevices(c, d)
      /\ Unread(d, "kbd") = 0 /\ Unread(d, "aux") = 0 /\ Unread(d, "ctl") = 0
  BY EmptiedFacts
<1>2. r = IF BecameReadyKbd(c, e) THEN PutKey(ClearLatch(e)) ELSE e
  BY DEF Flush
<1> HIDE DEF d
<1>3. 0 \in {0, 1}
  OBVIOUS
<1>4. NotifyAux(d) = PutAux(d)
  BY <1>1, <1>3, NotifyAuxPuts
<1>5. Sound(e, 0, 0)
  <2>1. Sound(PutAux(d), 0, 0)
    BY <1>1, <1>3, PutAuxFacts
  <2>2. QED
    BY <1>1, <2>1
<1>6. e = IF BecameReadyAux(c, d) THEN NotifyAux(d) ELSE d
  BY <1>4
<1> HIDE DEF e
<1>7. NotifyKbd(e) = PutKey(ClearLatch(e))
  BY <1>3, <1>5, NotifyKbdFacts
<1>8. r = NotifyDevices(c, d)
  BY <1>2, <1>6, <1>7 DEF NotifyDevices
<1>9. /\ Sound(r, 0, 0) /\ Sends(d, r)
      /\ Unread(r, "ctl") = Unread(d, "ctl")
      /\ Unread(r, "aux") \in {Unread(d, "aux"), Unread(d, "aux") + AuxLen}
      /\ \/ Unread(r, "kbd") = Unread(d, "kbd")
         \/ \E n \in Keys : Unread(r, "kbd") = Unread(d, "kbd") + n
      /\ FrameTold(c) /\ (FrameWaits(d) => FrameWaits(c)) => FrameTold(r)
  BY <1>1, <1>3, <1>8, NotifyFacts
<1>10. FrameWaits(d) => FrameWaits(c)
  BY <1>1 DEF SameDevices, FrameWaits
<1>11. SameSettings(c, r)
  BY <1>1, <1>9 DEF Sends, SameSettings
<1>12. Room(r, 3)
  <2>1. PICK m \in Keys : TRUE
    BY I8042Assumption
  <2>2. /\ Keys \subseteq Nat /\ AuxLen \in Nat /\ BufferSize \in Nat
        /\ \A n \in Keys : AuxLen + n + 3 <= BufferSize
    BY I8042Assumption
  <2>3. Unread(r, "ctl") = 0
    BY <1>1, <1>9
  <2>4. Unread(r, "aux") \in {0, AuxLen}
    BY <1>1, <1>9, <2>2
  <2>5. Unread(r, "aux") <= AuxLen
    BY <2>2, <2>4
  <2>6. Unread(r, "kbd") = 0 \/ \E n \in Keys : Unread(r, "kbd") = n
    BY <1>1, <1>9, <2>2
  <2>7. CASE Unread(r, "kbd") = 0
    <3>1. m \in Nat /\ AuxLen + m + 3 <= BufferSize
      BY <2>2
    <3>2. 0 + AuxLen + 3 <= BufferSize
      BY <2>2, <3>1
    <3>3. QED
      BY <2>3, <2>5, <2>7, <3>2 DEF Room
  <2>8. CASE \E n \in Keys : Unread(r, "kbd") = n
    <3>1. PICK n \in Keys : Unread(r, "kbd") = n
      BY <2>8
    <3>2. n \in Nat /\ AuxLen + n + 3 <= BufferSize
      BY <2>2
    <3>3. n + AuxLen + 3 <= BufferSize
      BY <2>2, <3>2
    <3>4. QED
      BY <2>3, <2>5, <3>1, <3>3 DEF Room
  <2>9. QED
    BY <2>6, <2>7, <2>8
<1>13. QED
  BY <1>9, <1>10, <1>11, <1>12
-----------------------------------------------------------------------------
(* The keyboard answers *)

\* The ports and the mouse are left alone.
SamePorts(c, r) ==
  /\ r.offKbd = c.offKbd /\ r.offAux = c.offAux /\ r.dump = c.dump
  /\ r.cmd = c.cmd /\ r.waitAux = c.waitAux
  /\ r.moved = c.moved /\ r.auxTimer = c.auxTimer

\* A change of the keyboard alone
Adjusted(c, r) ==
  /\ r \in State /\ SameBytes(c, r) /\ SamePorts(c, r)
  /\ c.timer => r.timer
  /\ Len(r.keys) <= KeyBufferSize

LEMMA AdjustedFacts ==
  ASSUME NEW c, Sound(c, 0, 0), NEW r, Adjusted(c, r)
  PROVE  /\ Sound(r, 0, 0) /\ SamePorts(c, r)
         /\ \A m : Room(c, m) => Room(r, m)
         /\ First(r) = First(c) /\ r.waitKbd = c.waitKbd
<1>1. /\ r \in State /\ SameBytes(c, r) /\ SamePorts(c, r)
      /\ c.timer => r.timer
      /\ Len(r.keys) <= KeyBufferSize
  BY DEF Adjusted
<1>2. r.dump = c.dump /\ r.waitKbd = c.waitKbd
  BY <1>1 DEF SamePorts, SameBytes
<1>3. /\ Sound(r, 0, 0) /\ First(r) = First(c)
      /\ \A x : Unread(r, x) = Unread(c, x)
  BY <1>1, <1>2, SameBytesFacts
<1>4. ASSUME NEW m, Room(c, m) PROVE Room(r, m)
  BY <1>3, <1>4 DEF Room
<1>5. QED
  BY <1>1, <1>2, <1>3, <1>4

LEMMA ClearKeysFacts ==
  ASSUME NEW c, Sound(c, 0, 0)
  PROVE  Adjusted(c, ClearKeys(c))
<1> DEFINE r == ClearKeys(c)
<1>1. c \in State
  BY DEF Sound
<1>2. <<>> \in Seq(Keys) /\ Len(<<>>) = 0 /\ KeyBufferSize \in Nat
  BY I8042Assumption
<1>3. r = [c EXCEPT !.keys = <<>>, !.latch = FALSE, !.repeat = 0]
  BY DEF ClearKeys
<1>4. r \in State
  BY <1>1, <1>2, <1>3 DEF State
<1>5. /\ SameBytes(c, r) /\ SamePorts(c, r) /\ r.timer = c.timer /\ r.keys = <<>>
  BY <1>1, <1>3 DEF State, SameBytes, SamePorts
<1> HIDE DEF r
<1>6. Adjusted(c, r)
  BY <1>2, <1>4, <1>5 DEF Adjusted
<1>7. QED
  BY <1>6 DEF r

LEMMA KbdCmdFacts ==
  ASSUME NEW c, Sound(c, 0, 0), NEW v \in {"none", "SetLeds", "CodeSet", "Set3Key"}
  PROVE  Adjusted(c, [c EXCEPT !.kbdCmd = v])
<1> DEFINE r == [c EXCEPT !.kbdCmd = v]
<1>1. c \in State /\ Len(c.keys) <= KeyBufferSize
  BY DEF Sound
<1>2. r \in State
  BY <1>1 DEF State
<1>3. SameBytes(c, r) /\ SamePorts(c, r) /\ r.timer = c.timer /\ r.keys = c.keys
  BY <1>1 DEF State, SameBytes, SamePorts
<1> HIDE DEF r
<1>4. Adjusted(c, r)
  BY <1>1, <1>2, <1>3 DEF Adjusted
<1>5. QED
  BY <1>4 DEF r

LEMMA ScanningFacts ==
  ASSUME NEW c, Sound(c, 0, 0), NEW v \in BOOLEAN
  PROVE  Adjusted(c, [c EXCEPT !.scanning = v])
<1> DEFINE r == [c EXCEPT !.scanning = v]
<1>1. c \in State /\ Len(c.keys) <= KeyBufferSize
  BY DEF Sound
<1>2. r \in State
  BY <1>1 DEF State
<1>3. SameBytes(c, r) /\ SamePorts(c, r) /\ r.timer = c.timer /\ r.keys = c.keys
  BY <1>1 DEF State, SameBytes, SamePorts
<1> HIDE DEF r
<1>4. Adjusted(c, r)
  BY <1>1, <1>2, <1>3 DEF Adjusted
<1>5. QED
  BY <1>4 DEF r

\* I8042_AddKbdByte, I8042_AddAuxByte and I8042_AddAuxFrame where there is room
LEMMA AddPuts ==
  ASSUME NEW c, Sound(c, 0, 0), NEW src \in Sources, NEW b, OneSource(b, src),
         ~ Disabled(c, src), Fits(c, src, Len(b))
  PROVE  AddBytes(c, b) = Put(c, b)
<1>1. Head(b).src = src /\ Len(b) \in Nat
  BY InOneSource
<1>2. Len(c.buf) \in Nat /\ BufferSize \in Nat
  BY I8042Assumption, LenProperties DEF Sound, State
<1>3. ~ (Len(c.buf) + Len(b) > BufferSize)
  BY <1>1, <1>2 DEF Fits
<1>4. MakeRoom(c, Len(b)) = c
  BY <1>3 DEF MakeRoom
<1>5. QED
  BY <1>1, <1>4 DEF AddBytes

\* The keyboard has answered.
Replied(c, r) ==
  /\ Sound(r, 0, 0) /\ SamePorts(c, r)
  /\ r.waitKbd # 0 /\ First(r) # "none"

LEMMA ReplyFacts ==
  ASSUME NEW c, Sound(c, 0, 0), ~ c.offKbd, NEW m \in Nat, NEW n \in 1 .. m,
         Room(c, m), NEW r, r = Reply(c, n)
  PROVE  Replied(c, r) /\ Room(r, m - n)
<1> DEFINE b == Bytes("kbd", n)
<1>1. "kbd" \in Sources /\ n \in Nat \ {0} /\ 0 \in {0, 1}
  BY DEF Sources
<1>2. OneSource(b, "kbd") /\ Len(b) = n
  BY <1>1, BytesFacts
<1>3. c \in State /\ Shown(c) /\ ~ Disabled(c, "kbd") /\ c.waitKbd \in Nat
  BY DEF Sound, State, Disabled
<1>4. /\ Len(c.buf) \in Nat
      /\ \A x : Unread(c, x) \in Nat
      /\ ~ c.new => Len(c.buf) = Unread(c, "kbd") + Unread(c, "aux") + Unread(c, "ctl")
      /\ c.new => Len(c.buf) + 1 = Unread(c, "kbd") + Unread(c, "aux") + Unread(c, "ctl")
  BY <1>3, UnreadSum
<1>5. /\ Unread(c, "kbd") \in Nat /\ Unread(c, "aux") \in Nat
      /\ AuxLen \in Nat /\ BufferSize \in Nat
  BY <1>4, I8042Assumption
<1>6. /\ Unread(c, "ctl") = 0 /\ Unread(c, "aux") <= AuxLen
      /\ Unread(c, "kbd") + AuxLen + m <= BufferSize
  BY DEF Room
<1>7. Len(c.buf) <= Unread(c, "kbd") + AuxLen
  <2>1. CASE c.new
    BY <1>4, <1>5, <1>6, <2>1
  <2>2. CASE ~ c.new
    BY <1>4, <1>5, <1>6, <2>2
  <2>3. QED
    BY <2>1, <2>2
<1>8. Len(c.buf) + n <= BufferSize
  BY <1>1, <1>4, <1>5, <1>6, <1>7
<1>9. Unread(c, "kbd") + n + 0 <= BufferSize - AuxLen
  BY <1>1, <1>5, <1>6
<1>10. Fits(c, "kbd", n)
  BY <1>6, <1>8, <1>9 DEF Fits
<1> HIDE DEF b
<1>11. r = Put(c, b)
  BY <1>1, <1>2, <1>3, <1>10, AddPuts DEF Reply, b
<1>12. Sound(r, 0, 0)
  BY <1>1, <1>2, <1>3, <1>10, <1>11, PutSound
<1>13. /\ Unread(r, "kbd") = Unread(c, "kbd") + n
       /\ \A x : x # "kbd" => Unread(r, x) = Unread(c, x)
       /\ r.waitKbd = c.waitKbd + n /\ r.waitAux = c.waitAux
       /\ SameSettings(c, r) /\ SameDevices(c, r)
       /\ First(r) # "none"
  <2>1. "aux" # "kbd"
    OBVIOUS
  <2>2. QED
    BY <1>1, <1>2, <1>3, <1>11, <2>1, PutFacts
<1>14. Room(r, m - n)
  <2>1. Unread(r, "ctl") = 0 /\ Unread(r, "aux") <= AuxLen
    BY <1>6, <1>13
  <2>2. Unread(r, "kbd") + AuxLen + (m - n) <= BufferSize
    BY <1>1, <1>5, <1>6, <1>13
  <2>3. QED
    BY <2>1, <2>2 DEF Room
<1>15. r.waitKbd # 0
  BY <1>1, <1>3, <1>13
<1>16. SamePorts(c, r)
  BY <1>13 DEF SamePorts, SameSettings, SameDevices
<1>17. QED
  BY <1>12, <1>13, <1>14, <1>15, <1>16 DEF Replied

\* Changes of the keyboard before and after an answer
LEMMA RepliedThen ==
  ASSUME NEW c, NEW d, Replied(c, d), NEW r, Adjusted(d, r)
  PROVE  Replied(c, r)
<1>1. /\ Sound(r, 0, 0) /\ SamePorts(d, r)
      /\ First(r) = First(d) /\ r.waitKbd = d.waitKbd
  BY AdjustedFacts DEF Replied
<1>2. QED
  BY <1>1 DEF Replied, SamePorts

LEMMA ThenReplied ==
  ASSUME NEW c, NEW d, SamePorts(c, d), NEW r, Replied(d, r)
  PROVE  Replied(c, r)
  BY DEF Replied, SamePorts

\* execute_command of the keyboard
LEMMA KbdCommandFacts ==
  ASSUME NEW c, Sound(c, 0, 0), ~ c.offKbd, Room(c, 3), NEW byte \in KbdCommands,
         NEW r, r = RunKbdCommand(c, byte)
  PROVE  Replied(c, r)
<1> DEFINE d == Reply(c, 1)
<1>1. 3 \in Nat /\ 1 \in 1 .. 3 /\ 3 \in 1 .. 3 /\ 2 \in Nat /\ 1 \in 1 .. 2 /\ 3 - 1 = 2
  OBVIOUS
<1>2. Replied(c, d) /\ Room(d, 2)
  BY <1>1, ReplyFacts
<1>3. Sound(d, 0, 0)
  BY <1>2 DEF Replied
<1>4. Adjusted(d, ClearKeys(d))
  BY <1>3, ClearKeysFacts
<1> DEFINE e == ClearKeys(d)
<1>5. Sound(e, 0, 0) /\ Replied(c, e)
  BY <1>2, <1>3, <1>4, AdjustedFacts, RepliedThen
<1>6. Room(e, 2)
  BY <1>2, <1>3, <1>4, AdjustedFacts
<1> DEFINE f(v) == [e EXCEPT !.scanning = v]
<1>7. ASSUME NEW v \in BOOLEAN PROVE Adjusted(e, f(v))
  BY <1>5, ScanningFacts
<1>8. byte \in {"SetLeds", "CodeSet", "Set3Key", "Echo", "Identify",
                "ClearEnable", "DefaultDisable", "Reset"}
  BY DEF KbdCommands
<1>9. CASE byte = "SetLeds"
  <2>1. r = [d EXCEPT !.kbdCmd = byte]
    BY <1>9 DEF RunKbdCommand
  <2> HIDE DEF d
  <2>2. byte \in {"none", "SetLeds", "CodeSet", "Set3Key"}
    BY <1>9
  <2>3. Adjusted(d, r)
    BY <1>3, <2>1, <2>2, KbdCmdFacts
  <2>4. QED
    BY <1>2, <2>3, RepliedThen
<1>10. CASE byte \in {"CodeSet", "Set3Key"}
  <2>1. r = [e EXCEPT !.kbdCmd = byte]
    BY <1>10 DEF RunKbdCommand
  <2> HIDE DEF e
  <2>2. byte \in {"none", "SetLeds", "CodeSet", "Set3Key"}
    BY <1>10
  <2>3. Adjusted(e, r)
    BY <1>5, <2>1, <2>2, KbdCmdFacts
  <2>4. QED
    BY <1>5, <2>3, RepliedThen
<1>11. CASE byte = "Echo"
  <2>1. r = d
    BY <1>11 DEF RunKbdCommand
  <2>2. QED
    BY <1>2, <2>1
<1>12. CASE byte = "Identify"
  <2>1. r = Reply(c, 3)
    BY <1>12 DEF RunKbdCommand
  <2>2. QED
    BY <1>1, <2>1, ReplyFacts
<1>13. CASE byte = "ClearEnable"
  <2>1. r = f(TRUE)
    BY <1>13 DEF RunKbdCommand
  <2> HIDE DEF e, f
  <2>2. QED
    BY <1>5, <1>7, <2>1, RepliedThen
<1>14. CASE byte = "DefaultDisable"
  <2>1. r = f(FALSE)
    BY <1>14 DEF RunKbdCommand
  <2> HIDE DEF e, f
  <2>2. QED
    BY <1>5, <1>7, <2>1, RepliedThen
<1>15. CASE byte = "Reset"
  <2> DEFINE g == f(TRUE)
  <2>1. r = Reply(g, 1)
    BY <1>15 DEF RunKbdCommand
  <2>2. Adjusted(e, g)
    BY <1>7
  <2> HIDE DEF e, f, g
  <2>3. /\ Sound(g, 0, 0) /\ SamePorts(e, g) /\ Room(g, 2)
    BY <1>5, <1>6, <2>2, AdjustedFacts
  <2>4. Replied(c, g)
    BY <1>5, <2>2, RepliedThen
  <2>5. ~ g.offKbd /\ SamePorts(c, g)
    BY <2>4 DEF Replied, SamePorts
  <2>6. Replied(g, r)
    BY <1>1, <2>1, <2>3, <2>5, ReplyFacts
  <2>7. QED
    BY <2>5, <2>6, ThenReplied
<1>16. QED
  BY <1>8, <1>9, <1>10, <1>11, <1>12, <1>13, <1>14, <1>15
LEMMA KbdParameterFacts ==
  ASSUME NEW c, Sound(c, 0, 0), ~ c.offKbd, Room(c, 3),
         NEW cmd \in {"SetLeds", "CodeSet", "Set3Key"},
         NEW byte, cmd = "CodeSet" => byte \in PlainBytes,
         NEW r, r = RunKbdParameter(c, cmd, byte)
  PROVE  Replied(c, r)
<1> DEFINE d == Reply(c, 1)
<1>1. 3 \in Nat /\ 1 \in 1 .. 3 /\ 2 \in 1 .. 3
  OBVIOUS
<1>2. Replied(c, d)
  BY <1>1, ReplyFacts
<1>3. Sound(d, 0, 0)
  BY <1>2 DEF Replied
<1>4. CASE cmd = "SetLeds"
  <2>1. r = d
    BY <1>4 DEF RunKbdParameter
  <2>2. QED
    BY <1>2, <2>1
<1>5. CASE cmd = "CodeSet" /\ byte = "0"
  <2>1. r = Reply(c, 2)
    BY <1>5 DEF RunKbdParameter
  <2>2. QED
    BY <1>1, <2>1, ReplyFacts
<1>6. CASE cmd = "CodeSet" /\ byte = "1"
  <2> DEFINE e == ClearKeys(c)
  <2>1. r = Reply(e, 1)
    BY <1>6 DEF RunKbdParameter
  <2>2. Adjusted(c, e)
    BY ClearKeysFacts
  <2> HIDE DEF e
  <2>3. Sound(e, 0, 0) /\ SamePorts(c, e) /\ Room(e, 3)
    BY <2>2, AdjustedFacts
  <2>4. ~ e.offKbd
    BY <2>3 DEF SamePorts
  <2>5. Replied(e, r)
    BY <1>1, <2>1, <2>3, <2>4, ReplyFacts
  <2>6. QED
    BY <2>3, <2>5, ThenReplied
<1>7. CASE cmd = "CodeSet" /\ byte = "2"
  <2> DEFINE e == [c EXCEPT !.kbdCmd = cmd]
  <2>1. r = Reply(e, 1)
    BY <1>7 DEF RunKbdParameter
  <2>2. cmd \in {"none", "SetLeds", "CodeSet", "Set3Key"}
    OBVIOUS
  <2>3. Adjusted(c, e)
    BY <2>2, KbdCmdFacts
  <2> HIDE DEF e
  <2>4. Sound(e, 0, 0) /\ SamePorts(c, e) /\ Room(e, 3)
    BY <2>3, AdjustedFacts
  <2>5. ~ e.offKbd
    BY <2>4 DEF SamePorts
  <2>6. Replied(e, r)
    BY <1>1, <2>1, <2>4, <2>5, ReplyFacts
  <2>7. QED
    BY <2>4, <2>6, ThenReplied
<1>8. CASE cmd = "Set3Key"
  <2>1. r = ClearKeys(d)
    BY <1>8 DEF RunKbdParameter
  <2> HIDE DEF d
  <2>2. Adjusted(d, r)
    BY <1>3, <2>1, ClearKeysFacts
  <2>3. QED
    BY <1>2, <2>2, RepliedThen
<1>9. QED
  BY <1>4, <1>5, <1>6, <1>7, <1>8 DEF PlainBytes

\* KEYBOARD_PortWrite.  Only a parameter that no command asked for is not
\* answered.
LEMMA KbdPortFacts ==
  ASSUME NEW c, Sound(c, 0, 0), ~ c.offKbd, Room(c, 3),
         NEW byte \in PlainBytes \cup KbdCommands, NEW r, r = KbdPortWrite(c, byte)
  PROVE  /\ Sound(r, 0, 0) /\ SamePorts(c, r)
         /\ byte \in KbdCommands \/ c.kbdCmd # "none" => Replied(c, r)
<1> DEFINE d == [c EXCEPT !.kbdCmd = "none"]
<1>1. c.kbdCmd \in {"none", "SetLeds", "CodeSet", "Set3Key"}
  BY DEF Sound, State
<1>2. "none" \in {"none", "SetLeds", "CodeSet", "Set3Key"}
  OBVIOUS
<1>3. Adjusted(c, d)
  BY <1>2, KbdCmdFacts
<1>4. r = IF byte \in KbdCommands /\ c.kbdCmd # "Set3Key" THEN RunKbdCommand(d, byte)
          ELSE IF c.kbdCmd # "none" THEN RunKbdParameter(d, c.kbdCmd, byte)
          ELSE c
  BY DEF KbdPortWrite
<1> HIDE DEF d
<1>5. Sound(d, 0, 0) /\ SamePorts(c, d) /\ Room(d, 3)
  BY <1>3, AdjustedFacts
<1>6. ~ d.offKbd
  BY <1>5 DEF SamePorts
<1>7. CASE byte \in KbdCommands /\ c.kbdCmd # "Set3Key"
  <2>1. r = RunKbdCommand(d, byte)
    BY <1>4, <1>7
  <2>2. Replied(d, r)
    BY <1>5, <1>6, <1>7, <2>1, KbdCommandFacts
  <2>3. Replied(c, r)
    BY <1>5, <2>2, ThenReplied
  <2>4. QED
    BY <2>3 DEF Replied
<1>8. CASE ~ (byte \in KbdCommands /\ c.kbdCmd # "Set3Key") /\ c.kbdCmd # "none"
  <2>1. r = RunKbdParameter(d, c.kbdCmd, byte)
    BY <1>4, <1>8
  <2>2. c.kbdCmd \in {"SetLeds", "CodeSet", "Set3Key"}
    BY <1>1, <1>8
  <2>3. c.kbdCmd = "CodeSet" => byte \in PlainBytes
    BY <1>8
  <2>4. Replied(d, r)
    BY <1>5, <1>6, <2>1, <2>2, <2>3, KbdParameterFacts
  <2>5. Replied(c, r)
    BY <1>5, <2>4, ThenReplied
  <2>6. QED
    BY <2>5 DEF Replied
<1>9. CASE ~ (byte \in KbdCommands /\ c.kbdCmd # "Set3Key") /\ c.kbdCmd = "none"
  <2>1. r = c
    BY <1>4, <1>9
  <2>2. byte \notin KbdCommands
    BY <1>9
  <2>3. QED
    BY <1>9, <2>1, <2>2 DEF SamePorts
<1>10. QED
  BY <1>7, <1>8, <1>9

-----------------------------------------------------------------------------
(* The steps *)

\* A step keeps the counters, and, if it is told, that nobody is left waiting.
Keeps(c, r, told) == Base(r) /\ (told /\ Lively(c) => Lively(r))

\* write_data_port: the byte goes to the keyboard.
LEMMA KeyboardStep ==
  ASSUME Base(s), NEW byte \in DataBytes, WriteKeyboard(byte)
  PROVE  Keeps(s, s', ~ Unsolicited)
<1> DEFINE o == [s EXCEPT !.offKbd = FALSE]
           f == Flush(o)
           t == [f EXCEPT !.timer = TRUE]
<1>1. s' = KbdPortWrite(t, byte)
  BY DEF WriteKeyboard
<1>2. s \in State /\ Len(s.keys) <= KeyBufferSize /\ s.cmd = "none"
  BY DEF Base, Sound, WriteKeyboard
<1>3. /\ o \in State /\ o.keys = s.keys /\ o.offKbd = FALSE /\ o.cmd = s.cmd
      /\ o.offAux = s.offAux /\ o.dump = s.dump /\ o.waitAux = s.waitAux
      /\ o.moved = s.moved /\ o.auxTimer = s.auxTimer /\ o.kbdCmd = s.kbdCmd
  BY <1>2 DEF State
<1> HIDE DEF o
<1>4. Sound(f, 0, 0) /\ Room(f, 3) /\ SameSettings(o, f) /\ (FrameTold(o) => FrameTold(f))
  BY <1>2, <1>3, FlushFacts
<1>5. FrameTold(s) => FrameTold(o)
  BY <1>3 DEF FrameTold, FrameWaits, IsReadyForAuxFrame
<1> HIDE DEF f
<1>6. f \in State /\ Len(f.keys) <= KeyBufferSize
  BY <1>4 DEF Sound
<1>7. /\ t \in State /\ SameBytes(f, t) /\ SamePorts(f, t) /\ t.timer = TRUE
      /\ t.keys = f.keys /\ t.kbdCmd = f.kbdCmd
  BY <1>6 DEF State, SameBytes, SamePorts
<1> HIDE DEF t
<1>8. Adjusted(f, t)
  BY <1>6, <1>7 DEF Adjusted
<1>9. Sound(t, 0, 0) /\ Room(t, 3)
  BY <1>4, <1>8, AdjustedFacts
<1>10. ~ t.offKbd /\ t.cmd = "none" /\ t.kbdCmd = s.kbdCmd
  BY <1>2, <1>3, <1>4, <1>7 DEF SamePorts, SameSettings
<1>11. byte \in PlainBytes \cup KbdCommands
  BY I8042Assumption
<1>12. /\ Sound(s', 0, 0) /\ SamePorts(t, s')
       /\ byte \in KbdCommands \/ t.kbdCmd # "none" => Replied(t, s')
  BY <1>1, <1>9, <1>10, <1>11, KbdPortFacts
<1>13. s'.cmd = "none"
  BY <1>10, <1>12 DEF SamePorts
<1>14. ASSUME ~ Unsolicited, Lively(s) PROVE Lively(s')
  <2>1. byte \in KbdCommands \/ t.kbdCmd # "none"
    BY <1>10, <1>11, <1>14 DEF WriteKeyboard
  <2>2. s'.waitKbd # 0 /\ First(s') # "none"
    BY <1>12, <2>1 DEF Replied
  <2>3. KeyTold(s')
    BY <2>2 DEF KeyTold, IsReadyForKbdFrame
  <2>4. FrameTold(f)
    BY <1>4, <1>5, <1>14 DEF Lively
  <2>5. FrameTold(s')
    BY <1>7, <1>12, <2>4 DEF FrameTold, FrameWaits, IsReadyForAuxFrame, SamePorts
  <2>6. s'.new \/ s'.buf # <<>>
    BY <2>2 DEF First
  <2>7. QED
    BY <2>3, <2>5, <2>6 DEF Lively
<1>15. QED
  BY <1>12, <1>13, <1>14 DEF Keeps, Base
\* What write_data_port and write_command_port make of the state before they
\* tell the devices
Prepared(c, r) ==
  /\ Sound(r, 0, 0)
  /\ KeyWaits(r) => KeyWaits(c)
  /\ FrameWaits(r) => FrameWaits(c)
  /\ r.dump => r.cmd = "none" /\ First(r) # "none"

LEMMA TellStep ==
  ASSUME NEW c, NEW d, Prepared(c, d), NEW r, r = NotifyDevices(c, d)
  PROVE  Keeps(c, r, TRUE) /\ (First(d) # "none" => First(r) = First(d))
<1>1. 0 \in {0, 1}
  OBVIOUS
<1>2. /\ Sound(r, 0, 0) /\ Sends(d, r) /\ (d.dump => r = d)
      /\ KeyTold(c) /\ (KeyWaits(d) => KeyWaits(c)) => KeyTold(r)
      /\ FrameTold(c) /\ (FrameWaits(d) => FrameWaits(c)) => FrameTold(r)
  BY <1>1, NotifyFacts DEF Prepared
<1>3. r.dump = d.dump /\ r.cmd = d.cmd /\ PortKept(d, r)
  BY <1>2 DEF Sends, SameSettings
<1>4. First(d) # "none" => First(r) = First(d)
  BY <1>3 DEF PortKept
<1>5. r.dump => r.new \/ r.buf # <<>>
  <2>1. r.dump => First(r) # "none"
    BY <1>3, <1>4 DEF Prepared
  <2>2. QED
    BY <2>1 DEF First
<1>6. QED
  BY <1>2, <1>3, <1>4, <1>5 DEF Keeps, Base, Lively, Prepared

LEMMA SizeFacts ==
  /\ AuxLen \in Nat \ {0} /\ BufferSize \in Nat
  /\ AuxLen + 4 <= BufferSize
<1>1. PICK n \in Keys : TRUE
  BY I8042Assumption
<1>2. n \in Nat \ {0} /\ AuxLen \in Nat \ {0} /\ BufferSize \in Nat /\ AuxLen + n + 3 <= BufferSize
  BY I8042Assumption
<1>3. QED
  BY <1>2

LEMMA AnswerFacts ==
  ASSUME NEW c \in State, Len(c.keys) <= KeyBufferSize, NEW n \in Nat \ {0},
         n <= BufferSize, c.dump \/ n = 1, NEW r, r = Answer(c, n)
  PROVE  /\ Sound(r, 0, 0) /\ SameSettings(c, r) /\ SameDevices(c, r)
         /\ First(r) = "ctl"
<1> DEFINE d == Emptied(c)
           b == Bytes("ctl", n)
<1>1. /\ Sound(d, 0, 0) /\ SameSettings(c, d) /\ SameDevices(c, d)
      /\ \A x : Unread(d, x) = 0
      /\ Len(d.buf) = 0 /\ First(d) = "none"
  BY EmptiedFacts
<1>2. "ctl" \in Sources /\ "ctl" # "kbd" /\ "ctl" # "aux" /\ 0 \in {0, 1}
  BY DEF Sources
<1>3. OneSource(b, "ctl") /\ Len(b) = n
  BY <1>2, BytesFacts
<1>4. r = Put(d, b)
  BY DEF Answer
<1> HIDE DEF d, b
<1>5. ~ Disabled(d, "ctl")
  BY DEF Disabled
<1>6. Fits(d, "ctl", n)
  <2>1. Len(d.buf) + n <= BufferSize
    BY <1>1
  <2>2. ~ d.dump => n = 1
    BY <1>1 DEF SameSettings
  <2>3. Unread(d, "ctl") = 0 /\ Unread(d, "kbd") = 0
    BY <1>1
  <2>4. 0 + 0 + 1 <= BufferSize - AuxLen
    BY SizeFacts
  <2>5. QED
    BY <1>2, <2>1, <2>2, <2>3, <2>4 DEF Fits
<1>7. Sound(r, 0, 0)
  BY <1>1, <1>2, <1>3, <1>4, <1>5, <1>6, PutSound
<1>8. d \in State /\ Shown(d)
  BY <1>1 DEF Sound
<1>9. SameSettings(d, r) /\ SameDevices(d, r) /\ First(r) = "ctl"
  BY <1>1, <1>2, <1>3, <1>4, <1>5, <1>8, PutFacts
<1>10. QED
  BY <1>1, <1>7, <1>9 DEF SameSettings, SameDevices

\* execute_command without a parameter
LEMMA ExecuteFacts ==
  ASSUME NEW c, Sound(c, 0, 0), ~ c.dump, c.cmd = "none",
         NEW cmd \in Commands, cmd # "ReadRam", NEW r, r = Execute(c, cmd)
  PROVE  Prepared(c, r) /\ (cmd \in Answered => First(r) = "ctl")
<1>1. c \in State /\ Len(c.keys) <= KeyBufferSize
  BY DEF Sound
<1>2. 1 \in Nat \ {0} /\ 1 <= BufferSize
  BY SizeFacts
<1>3. cmd \in Parameterized \cup Answered \cup PortCommands
  BY I8042Assumption
<1>4. ASSUME NEW d, d \in State, d.keys = c.keys, d.moved = c.moved, d.auxTimer = c.auxTimer,
             ~ d.dump, r = Answer(d, 1)
      PROVE  Prepared(c, r) /\ First(r) = "ctl"
  <2>1. Len(d.keys) <= KeyBufferSize
    BY <1>1, <1>4
  <2>2. /\ Sound(r, 0, 0) /\ SameSettings(d, r) /\ SameDevices(d, r)
        /\ First(r) = "ctl"
    BY <1>2, <1>4, <2>1, AnswerFacts
  <2>3. QED
    BY <1>4, <2>2 DEF Prepared, KeyWaits, FrameWaits, SameSettings, SameDevices
<1>5. ASSUME r \in State, SameBytes(c, r), r.timer = c.timer, r.dump = c.dump, SameDevices(c, r)
      PROVE  Prepared(c, r)
  <2>1. Len(r.keys) <= KeyBufferSize /\ (c.timer => r.timer)
    BY <1>1, <1>5 DEF SameDevices
  <2>2. Sound(r, 0, 0)
    BY <1>5, <2>1, SameBytesFacts
  <2>3. QED
    BY <1>5, <2>2 DEF Prepared, KeyWaits, FrameWaits, SameDevices
<1>6. CASE cmd = "ReadByteConfig"
  <2>1. r = Answer(c, 1)
    BY <1>6 DEF Execute, Parameterized
  <2>2. QED
    BY <1>1, <1>4, <2>1
<1>7. CASE cmd = "TestPortAux"
  <2> DEFINE d == [c EXCEPT !.offAux = TRUE]
  <2>1. r = Answer(d, 1)
    BY <1>7 DEF Execute, Parameterized
  <2>2. /\ d \in State /\ d.keys = c.keys /\ d.moved = c.moved
        /\ d.auxTimer = c.auxTimer /\ d.dump = c.dump
    BY <1>1 DEF State
  <2> HIDE DEF d
  <2>3. QED
    BY <1>4, <2>1, <2>2
<1>8. CASE cmd = "TestPortKbd"
  <2> DEFINE d == [c EXCEPT !.offKbd = TRUE]
  <2>1. r = Answer(d, 1)
    BY <1>8 DEF Execute, Parameterized
  <2>2. /\ d \in State /\ d.keys = c.keys /\ d.moved = c.moved
        /\ d.auxTimer = c.auxTimer /\ d.dump = c.dump
    BY <1>1 DEF State
  <2> HIDE DEF d
  <2>3. QED
    BY <1>4, <2>1, <2>2
<1>9. CASE cmd = "TestController"
  <2> DEFINE d == [c EXCEPT !.offAux = TRUE, !.offKbd = TRUE]
  <2>1. r = Answer(d, 1)
    BY <1>9 DEF Execute, Parameterized
  <2>2. /\ d \in State /\ d.keys = c.keys /\ d.moved = c.moved
        /\ d.auxTimer = c.auxTimer /\ d.dump = c.dump
    BY <1>1 DEF State
  <2> HIDE DEF d
  <2>3. QED
    BY <1>4, <2>1, <2>2
<1>10. CASE cmd = "DiagnosticDump"
  <2> DEFINE d == [c EXCEPT !.dump = TRUE]
  <2>1. r = Answer(d, DumpLen)
    BY <1>10 DEF Execute, Parameterized
  <2>2. /\ d \in State /\ d.keys = c.keys /\ d.moved = c.moved
        /\ d.auxTimer = c.auxTimer /\ d.dump = TRUE /\ d.cmd = "none"
    BY <1>1 DEF State
  <2> HIDE DEF d
  <2>3. DumpLen \in Nat \ {0} /\ DumpLen <= BufferSize /\ Len(d.keys) <= KeyBufferSize
    BY <1>1, <2>2, I8042Assumption
  <2>4. /\ Sound(r, 0, 0) /\ SameSettings(d, r) /\ SameDevices(d, r)
        /\ First(r) = "ctl"
    BY <2>1, <2>2, <2>3, AnswerFacts
  <2>5. QED
    BY <2>2, <2>4 DEF Prepared, KeyWaits, FrameWaits, SameSettings, SameDevices
<1>11. CASE cmd \in PortCommands
  <2>1. \/ r = [c EXCEPT !.offAux = TRUE] \/ r = [c EXCEPT !.offAux = FALSE]
        \/ r = [c EXCEPT !.offKbd = TRUE] \/ r = [c EXCEPT !.offKbd = FALSE]
    BY <1>11 DEF Execute, PortCommands, Parameterized
  <2>2. /\ r \in State /\ SameBytes(c, r) /\ r.timer = c.timer
        /\ r.dump = c.dump /\ SameDevices(c, r)
    <3>1. \E off \in BOOLEAN : r = [c EXCEPT !.offAux = off] \/ r = [c EXCEPT !.offKbd = off]
      BY <2>1
    <3>2. PICK off \in BOOLEAN : r = [c EXCEPT !.offAux = off] \/ r = [c EXCEPT !.offKbd = off]
      BY <3>1
    <3>3. CASE r = [c EXCEPT !.offAux = off]
      BY <1>1, <3>3 DEF State, SameBytes, SameDevices
    <3>4. CASE r = [c EXCEPT !.offKbd = off]
      BY <1>1, <3>4 DEF State, SameBytes, SameDevices
    <3>5. QED
      BY <3>2, <3>3, <3>4
  <2>3. cmd \notin Answered
    BY <1>11 DEF PortCommands, Answered
  <2>4. QED
    BY <1>5, <2>2, <2>3
<1>12. CASE cmd \in Parameterized
  <2>1. cmd \notin Answered
    BY <1>12 DEF Parameterized, Answered
  <2>2. r = [c EXCEPT !.cmd = cmd]
    BY <1>12 DEF Execute, Parameterized
  <2>3. r \in State
    BY <1>1, <1>12, <2>2 DEF State
  <2>4. /\ SameBytes(c, r) /\ r.timer = c.timer
        /\ r.dump = c.dump /\ SameDevices(c, r)
    BY <1>1, <2>2 DEF State, SameBytes, SameDevices
  <2>5. QED
    BY <1>5, <2>1, <2>3, <2>4
<1>13. QED
  BY <1>3, <1>6, <1>7, <1>8, <1>9, <1>10, <1>11, <1>12 DEF Answered

\* write_command_port
LEMMA CommandStep ==
  ASSUME Base(s), NEW cmd \in Commands, cmd # "ReadRam", WriteCommand(cmd)
  PROVE  Keeps(s, s', TRUE) /\ (cmd \in Answered => First(s') = "ctl")
<1> DEFINE o == [s EXCEPT !.dump = FALSE]
           started == IF s.dump THEN Emptied(o) ELSE s
           p == [started EXCEPT !.cmd = "none"]
           c == Execute(p, cmd)
<1>1. s' = NotifyDevices(s, c)
  BY DEF WriteCommand
<1>2. s \in State /\ Len(s.keys) <= KeyBufferSize /\ Sound(s, 0, 0)
  BY DEF Base, Sound
<1>3. /\ Sound(started, 0, 0) /\ ~ started.dump /\ SameDevices(s, started)
  <2>1. CASE s.dump
    <3>1. started = Emptied(o)
      BY <2>1
    <3>2. o \in State /\ o.keys = s.keys /\ ~ o.dump /\ SameDevices(s, o)
      BY <1>2 DEF State, SameDevices
    <3> HIDE DEF o, started
    <3>3. Sound(started, 0, 0) /\ SameSettings(o, started) /\ SameDevices(o, started)
      BY <1>2, <3>1, <3>2, EmptiedFacts
    <3>4. QED
      BY <3>2, <3>3 DEF SameSettings, SameDevices
  <2>2. CASE ~ s.dump
    <3>1. started = s
      BY <2>2
    <3>2. QED
      BY <1>2, <2>2, <3>1 DEF SameDevices
  <2>3. QED
    BY <2>1, <2>2
<1> HIDE DEF started
<1>4. started \in State /\ Len(started.keys) <= KeyBufferSize
  BY <1>3 DEF Sound
<1>5. /\ p \in State /\ SameBytes(started, p) /\ p.timer = started.timer
      /\ p.dump = started.dump /\ SameDevices(started, p) /\ p.cmd = "none"
  BY <1>4 DEF State, SameBytes, SameDevices
<1> HIDE DEF p
<1>6. Len(p.keys) <= KeyBufferSize /\ (started.timer => p.timer)
  BY <1>4, <1>5 DEF SameDevices
<1>7. Sound(p, 0, 0)
  BY <1>3, <1>5, <1>6, SameBytesFacts
<1>8. ~ p.dump
  BY <1>3, <1>5
<1>9. Prepared(p, c) /\ (cmd \in Answered => First(c) = "ctl")
  BY <1>5, <1>7, <1>8, ExecuteFacts
<1> HIDE DEF c
<1>10. Prepared(s, c)
  BY <1>3, <1>5, <1>9 DEF Prepared, KeyWaits, FrameWaits, SameDevices
<1>11. Keeps(s, s', TRUE) /\ (First(c) # "none" => First(s') = First(c))
  BY <1>1, <1>10, TellStep
<1>12. QED
  BY <1>9, <1>11
\* The mouse answers into a buffer that has nothing but its own bytes.
LEMMA AddAuxFacts ==
  ASSUME NEW c, Sound(c, 0, 0), ~ c.dump, NEW b, OneSource(b, "aux"),
         Unread(c, "kbd") = 0, Unread(c, "ctl") = 0,
         Unread(c, "aux") + Len(b) <= AuxLen + 1, NEW r, r = AddBytes(c, b)
  PROVE  /\ Sound(r, 0, 0) /\ SameSettings(c, r) /\ SameDevices(c, r)
         /\ Unread(r, "kbd") = 0 /\ Unread(r, "ctl") = 0
         /\ Unread(r, "aux") \in {Unread(c, "aux"), Unread(c, "aux") + Len(b)}
<1>1. Head(b).src = "aux" /\ Len(b) \in Nat /\ "aux" \in Sources /\ 0 \in {0, 1}
  BY InOneSource DEF Sources
<1>2. CASE Disabled(c, "aux")
  <2>1. r = c
    BY <1>1, <1>2 DEF AddBytes
  <2>2. QED
    BY <2>1 DEF SameSettings, SameDevices
<1>3. CASE ~ Disabled(c, "aux")
  <2>1. c \in State /\ Shown(c)
    BY DEF Sound
  <2>2. /\ Len(c.buf) \in Nat
        /\ \A x : Unread(c, x) \in Nat
        /\ ~ c.new => Len(c.buf) = Unread(c, "kbd") + Unread(c, "aux") + Unread(c, "ctl")
        /\ c.new => Len(c.buf) + 1 = Unread(c, "kbd") + Unread(c, "aux") + Unread(c, "ctl")
    BY <2>1, UnreadSum
  <2>3. Unread(c, "aux") \in Nat
    BY <2>2
  <2>4. Len(c.buf) <= Unread(c, "aux")
    <3>1. CASE c.new
      BY <2>2, <2>3, <3>1
    <3>2. CASE ~ c.new
      BY <2>2, <2>3, <3>2
    <3>3. QED
      BY <3>1, <3>2
  <2>5. Len(c.buf) + Len(b) <= BufferSize
    BY <1>1, <2>2, <2>3, <2>4, SizeFacts
  <2>6. Fits(c, "aux", Len(b))
    BY <2>5 DEF Fits
  <2>7. r = Put(c, b)
    BY <1>1, <1>3, <2>6, AddPuts
  <2>8. Sound(r, 0, 0)
    BY <1>1, <1>3, <2>6, <2>7, PutSound
  <2>9. /\ Unread(r, "aux") = Unread(c, "aux") + Len(b)
        /\ \A x : x # "aux" => Unread(r, x) = Unread(c, x)
        /\ SameSettings(c, r) /\ SameDevices(c, r)
    BY <1>1, <1>3, <2>1, <2>7, PutFacts
  <2>10. QED
    BY <2>8, <2>9
<1>4. QED
  BY <1>2, <1>3

\* MOUSEPS2_PortWrite
LEMMA AuxPortFacts ==
  ASSUME NEW c, Sound(c, 0, 0), ~ c.dump, \A x : Unread(c, x) = 0,
         NEW r \in AuxPortWrite(c)
  PROVE  Prepared(c, r)
<1>1. Unread(c, "kbd") = 0 /\ Unread(c, "aux") = 0 /\ Unread(c, "ctl") = 0
  OBVIOUS
<1>2. AuxLen \in Nat \ {0}
  BY SizeFacts
<1>3. ASSUME NEW n \in {1, 2}, NEW v \in BOOLEAN,
             r = [AddBytes(c, [i \in 1 .. n |-> [src |-> "aux", skip |-> FALSE]])
                    EXCEPT !.reporting = v]
      PROVE  Prepared(c, r)
  <2> DEFINE b == [i \in 1 .. n |-> [src |-> "aux", skip |-> FALSE]]
             d == AddBytes(c, b)
  <2>1. OneSource(b, "aux") /\ Len(b) = n
    BY AckFacts
  <2>2. r = [d EXCEPT !.reporting = v]
    BY <1>3
  <2> HIDE DEF b
  <2>3. Unread(c, "aux") + Len(b) <= AuxLen + 1
    BY <1>1, <1>2, <2>1
  <2>4. Sound(d, 0, 0) /\ SameSettings(c, d) /\ SameDevices(c, d)
    BY <1>1, <2>1, <2>3, AddAuxFacts
  <2> HIDE DEF d
  <2>5. d \in State /\ Len(d.keys) <= KeyBufferSize
    BY <2>4 DEF Sound
  <2>6. /\ r \in State /\ SameBytes(d, r) /\ r.timer = d.timer
        /\ r.dump = d.dump /\ SameDevices(d, r)
    BY <2>2, <2>5 DEF State, SameBytes, SameDevices
  <2>7. Len(r.keys) <= KeyBufferSize /\ (d.timer => r.timer)
    BY <2>5, <2>6 DEF SameDevices
  <2>8. Sound(r, 0, 0)
    BY <2>4, <2>6, <2>7, SameBytesFacts
  <2>9. ~ r.dump
    BY <2>4, <2>6 DEF SameSettings
  <2>10. QED
    BY <2>4, <2>6, <2>8, <2>9 DEF Prepared, KeyWaits, FrameWaits, SameDevices
<1>4. ASSUME r = [AddBytes(AddBytes(c, SubSeq(AuxFrame, 1, 1)), AuxFrame) EXCEPT !.moved = FALSE]
      PROVE  Prepared(c, r)
  <2> DEFINE b == SubSeq(AuxFrame, 1, 1)
             d == AddBytes(c, b)
             e == AddBytes(d, AuxFrame)
  <2>1. /\ OneSource(b, "aux") /\ Len(b) = 1
        /\ OneSource(AuxFrame, "aux") /\ Len(AuxFrame) = AuxLen
    BY AuxFrameFacts
  <2>2. r = [e EXCEPT !.moved = FALSE]
    BY <1>4
  <2> HIDE DEF b
  <2>3. Unread(c, "aux") + Len(b) <= AuxLen + 1
    BY <1>1, <1>2, <2>1
  <2>4. /\ Sound(d, 0, 0) /\ SameSettings(c, d) /\ SameDevices(c, d)
        /\ Unread(d, "kbd") = 0 /\ Unread(d, "ctl") = 0
        /\ Unread(d, "aux") \in {Unread(c, "aux"), Unread(c, "aux") + Len(b)}
    BY <1>1, <2>1, <2>3, AddAuxFacts
  <2> HIDE DEF d
  <2>5. Unread(d, "aux") \in {0, 1}
    BY <1>1, <2>1, <2>4
  <2>6. Unread(d, "aux") + Len(AuxFrame) <= AuxLen + 1
    BY <1>2, <2>1, <2>5
  <2>7. ~ d.dump
    BY <2>4 DEF SameSettings
  <2>8. Sound(e, 0, 0) /\ SameSettings(d, e) /\ SameDevices(d, e)
    BY <2>1, <2>4, <2>6, <2>7, AddAuxFacts
  <2> HIDE DEF e
  <2>9. e \in State /\ Len(e.keys) <= KeyBufferSize
    BY <2>8 DEF Sound
  <2>10. /\ r \in State /\ SameBytes(e, r) /\ r.timer = e.timer
         /\ r.dump = e.dump /\ r.keys = e.keys /\ r.moved = FALSE
    BY <2>2, <2>9 DEF State, SameBytes
  <2>11. Len(r.keys) <= KeyBufferSize /\ (e.timer => r.timer)
    BY <2>9, <2>10
  <2>12. Sound(r, 0, 0)
    BY <2>8, <2>10, <2>11, SameBytesFacts
  <2>13. ~ r.dump
    BY <2>7, <2>8, <2>10 DEF SameSettings
  <2>14. QED
    BY <2>4, <2>8, <2>10, <2>12, <2>13 DEF Prepared, KeyWaits, FrameWaits, SameDevices
<1>5. QED
  BY <1>3, <1>4 DEF AuxPortWrite

\* Setting a flag keeps the record a state.
LEMMA FlagFacts ==
  ASSUME NEW c \in State, NEW v \in BOOLEAN
  PROVE  /\ [c EXCEPT !.timer = v] \in State
         /\ [c EXCEPT !.offKbd = v] \in State
         /\ [c EXCEPT !.offAux = v] \in State
<1>1. [c EXCEPT !.timer = v] \in State
  BY DEF State
<1>2. [c EXCEPT !.offKbd = v] \in State
  BY DEF State
<1>3. [c EXCEPT !.offAux = v] \in State
  BY DEF State
<1>4. QED
  BY <1>1, <1>2, <1>3

\* execute_command with a parameter
LEMMA ParameterFacts ==
  ASSUME NEW o \in State, Len(o.keys) <= KeyBufferSize, ~ o.dump, o.cmd = "none",
         NEW cmd \in Parameterized, NEW c, c = Emptied(o),
         NEW r \in ExecuteParameter(c, cmd)
  PROVE  Prepared(o, r)
<1>1. /\ Sound(c, 0, 0) /\ SameSettings(o, c) /\ SameDevices(o, c)
      /\ \A x : Unread(c, x) = 0
      /\ Len(c.buf) = 0 /\ First(c) = "none"
  BY EmptiedFacts
<1>2. c \in State /\ Len(c.keys) <= KeyBufferSize /\ ~ c.dump /\ Shown(c)
  BY <1>1 DEF Sound, SameSettings
<1>3. ASSUME Prepared(c, r) PROVE Prepared(o, r)
  BY <1>1, <1>3 DEF Prepared, KeyWaits, FrameWaits, SameDevices
<1>4. ASSUME NEW src \in {"kbd", "aux"}, NEW b, OneSource(b, src), Len(b) = 1,
             NEW d, d = Emptied(c), r = Put(d, b)
      PROVE  Prepared(c, r)
  <2>1. /\ Sound(d, 0, 0) /\ SameSettings(c, d) /\ SameDevices(c, d)
        /\ \A x : Unread(d, x) = 0
        /\ Len(d.buf) = 0 /\ First(d) = "none"
    BY <1>2, <1>4, EmptiedFacts
  <2>2. d \in State /\ Shown(d) /\ ~ d.dump
    BY <1>2, <2>1 DEF Sound, SameSettings
  <2>3. src \in Sources /\ 0 \in {0, 1} /\ Head(b).src = src
    BY <1>4, InOneSource DEF Sources
  <2>4. CASE Disabled(d, src)
    <3>1. r = d
      BY <1>4, <2>3, <2>4 DEF Put
    <3>2. QED
      BY <2>1, <2>2, <3>1 DEF Prepared, KeyWaits, FrameWaits, SameDevices
  <2>5. CASE ~ Disabled(d, src)
    <3>1. Unread(d, "kbd") = 0 /\ Unread(d, "aux") = 0 /\ Unread(d, "ctl") = 0
      BY <2>1
    <3>2. 0 + 1 <= BufferSize /\ 0 + 1 <= AuxLen + 1 /\ 0 + 1 + 0 <= BufferSize - AuxLen
      BY SizeFacts
    <3>3. Fits(d, src, Len(b))
      BY <1>4, <2>1, <3>1, <3>2 DEF Fits
    <3>4. Sound(r, 0, 0)
      BY <1>4, <2>1, <2>3, <2>5, <3>3, PutSound
    <3>5. SameSettings(d, r) /\ SameDevices(d, r)
      BY <1>4, <2>2, <2>3, <2>5, PutFacts
    <3>6. QED
      BY <2>1, <2>2, <3>4, <3>5 DEF Prepared, KeyWaits, FrameWaits, SameDevices, SameSettings
  <2>6. QED
    BY <2>4, <2>5
<1>5. CASE cmd = "WriteByteConfig"
  <2>1. PICK k \in BOOLEAN, a \in BOOLEAN : r = WithConfig(c, k, a)
    BY <1>5 DEF ExecuteParameter
  <2>2. /\ r \in State /\ SameBytes(c, r) /\ r.timer = c.timer
        /\ r.dump = c.dump /\ SameDevices(c, r)
    <3>1. r = [c EXCEPT !.offKbd = k, !.offAux = a]
      BY <2>1 DEF WithConfig
    <3>2. r \in State
      <4> DEFINE e == [c EXCEPT !.offKbd = k]
      <4>1. e \in State
        BY <1>2, FlagFacts
      <4>2. r = [e EXCEPT !.offAux = a]
        BY <1>2, <3>1 DEF State
      <4> HIDE DEF e
      <4>3. QED
        BY <4>1, <4>2, FlagFacts
    <3>3. /\ SameBytes(c, r) /\ r.timer = c.timer
          /\ r.dump = c.dump /\ SameDevices(c, r)
      BY <1>2, <3>1 DEF State, SameBytes, SameDevices
    <3>4. QED
      BY <3>2, <3>3
  <2>3. Len(r.keys) <= KeyBufferSize /\ (c.timer => r.timer)
    BY <1>2, <2>2 DEF SameDevices
  <2>4. Sound(r, 0, 0)
    BY <1>1, <2>2, <2>3, SameBytesFacts
  <2>5. QED
    BY <1>2, <1>3, <2>2, <2>4 DEF Prepared, KeyWaits, FrameWaits, SameDevices
<1>6. CASE cmd = "SimulateInputKbd"
  <2>1. r = Put(Emptied(c), Bytes("kbd", 1))
    BY <1>6 DEF ExecuteParameter
  <2>2. "kbd" \in Sources /\ 1 \in Nat \ {0}
    BY DEF Sources
  <2>3. OneSource(Bytes("kbd", 1), "kbd") /\ Len(Bytes("kbd", 1)) = 1
    BY <2>2, BytesFacts
  <2>4. QED
    BY <1>3, <1>4, <2>1, <2>3
<1>7. CASE cmd = "SimulateInputAux"
  <2>1. r = Put(Emptied(c), SubSeq(AuxFrame, 1, 1))
    BY <1>7 DEF ExecuteParameter
  <2>2. OneSource(SubSeq(AuxFrame, 1, 1), "aux") /\ Len(SubSeq(AuxFrame, 1, 1)) = 1
    BY AuxFrameFacts
  <2>3. QED
    BY <1>3, <1>4, <2>1, <2>2
<1>8. CASE cmd = "WriteAux"
  <2> DEFINE d == [c EXCEPT !.timer = TRUE]
  <2>1. r \in AuxPortWrite(d)
    BY <1>8 DEF ExecuteParameter
  <2>2. /\ d \in State /\ SameBytes(c, d) /\ d.timer = TRUE
        /\ d.dump = c.dump /\ SameDevices(c, d)
    <3>1. d \in State
      BY <1>2, FlagFacts
    <3>2. SameBytes(c, d)
      BY <1>2 DEF State, SameBytes
    <3>3. d.timer = TRUE /\ d.dump = c.dump /\ SameDevices(c, d)
      BY <1>2 DEF State, SameDevices
    <3>4. QED
      BY <3>1, <3>2, <3>3
  <2> HIDE DEF d
  <2>3. Len(d.keys) <= KeyBufferSize /\ (c.timer => d.timer)
    BY <1>2, <2>2 DEF SameDevices
  <2>4. Sound(d, 0, 0) /\ \A x : Unread(d, x) = Unread(c, x)
    BY <1>1, <2>2, <2>3, SameBytesFacts
  <2>5. ~ d.dump /\ \A x : Unread(d, x) = 0
    BY <1>1, <1>2, <2>2, <2>4
  <2>6. Prepared(d, r)
    BY <2>1, <2>4, <2>5, AuxPortFacts
  <2>7. QED
    BY <1>3, <2>2, <2>6 DEF Prepared, KeyWaits, FrameWaits, SameDevices
<1>9. CASE cmd = "WriteRam"
  <2>1. r = c
    BY <1>9 DEF ExecuteParameter
  <2>2. QED
    BY <1>1, <1>2, <1>3, <2>1 DEF Prepared
<1>10. QED
  BY <1>5, <1>6, <1>7, <1>8, <1>9 DEF Parameterized

\* write_data_port: the byte is the parameter of a command.
LEMMA ParameterStep ==
  ASSUME Base(s), WriteParameter
  PROVE  Keeps(s, s', TRUE)
<1> DEFINE o == [s EXCEPT !.cmd = "none"]
<1>1. s \in State /\ Len(s.keys) <= KeyBufferSize /\ s.cmd # "none" /\ ~ s.dump
  BY DEF Base, Sound, WriteParameter
<1>2. s.cmd \in Parameterized
  BY <1>1 DEF State
<1>3. PICK c \in ExecuteParameter(Emptied(o), s.cmd) : s' = NotifyDevices(s, c)
  BY DEF WriteParameter
<1>4. o \in State /\ o.keys = s.keys /\ o.dump = s.dump /\ o.cmd = "none" /\ SameDevices(s, o)
  BY <1>1 DEF State, SameDevices
<1> HIDE DEF o
<1>5. Prepared(o, c)
  BY <1>1, <1>2, <1>3, <1>4, ParameterFacts
<1>6. Prepared(s, c)
  BY <1>4, <1>5 DEF Prepared, KeyWaits, FrameWaits, SameDevices
<1>7. QED
  BY <1>3, <1>6, TellStep
\* The last byte of a dump is about to be read.
LEMMA FinishFacts ==
  ASSUME NEW c, Base(c), c.new, NEW r, r = FinishDump(c)
  PROVE  /\ Sound(r, 0, 0) /\ r.new /\ r.from = c.from
         /\ r.dump => r.cmd = "none" /\ r.buf # <<>>
         /\ Lively(c) => KeyTold(r) /\ FrameTold(r)
<1>1. c \in State /\ Shown(c) /\ Sound(c, 0, 0) /\ Len(c.keys) <= KeyBufferSize
  BY DEF Base, Sound
<1>2. CASE ~ (c.dump /\ c.buf = <<>>)
  <2>1. r = c
    BY <1>2 DEF FinishDump
  <2>2. QED
    BY <1>1, <1>2, <2>1 DEF Base, Lively
<1>3. CASE c.dump /\ c.buf = <<>>
  <2> DEFINE over == [c EXCEPT !.dump = FALSE]
  <2>1. r = NotifyDevices(c, over)
    BY <1>3 DEF FinishDump
  <2>2. /\ over \in State /\ SameBytes(c, over) /\ over.timer = c.timer
        /\ over.dump = FALSE /\ SameDevices(c, over)
    BY <1>1 DEF State, SameBytes, SameDevices
  <2> HIDE DEF over
  <2>3. \A x : Unread(over, x) = Unread(c, x)
    BY <2>2 DEF Unread, SameBytes
  <2>4. Shown(over) /\ Counted(over, 0, 0)
    BY <1>1, <2>2, <2>3 DEF Shown, Counted, SameBytes, Sound
  <2>5. Load(over)
    <3>1. /\ \A x : Unread(c, x) \in Nat
          /\ Len(c.buf) + 1 = Unread(c, "kbd") + Unread(c, "aux") + Unread(c, "ctl")
      BY <1>1, UnreadSum
    <3>2. Len(c.buf) = 0
      BY <1>3
    <3>3. Unread(c, "kbd") \in Nat /\ Unread(c, "aux") \in Nat /\ Unread(c, "ctl") \in Nat
      BY <3>1
    <3>4. 1 = Unread(c, "kbd") + Unread(c, "aux") + Unread(c, "ctl")
      BY <3>1, <3>2
    <3>5. /\ Unread(c, "aux") <= AuxLen + 1 /\ Unread(c, "ctl") <= 1
          /\ Unread(c, "kbd") + Unread(c, "ctl") <= BufferSize - AuxLen
      BY <3>3, <3>4, SizeFacts
    <3>6. QED
      BY <2>3, <3>5 DEF Load
  <2>6. Sound(over, 0, 0)
    BY <1>1, <2>2, <2>4, <2>5 DEF Sound, SameBytes, SameDevices
  <2>7. 0 \in {0, 1}
    OBVIOUS
  <2>8. /\ Sound(r, 0, 0) /\ Sends(over, r)
        /\ KeyTold(c) /\ (KeyWaits(over) => KeyWaits(c)) => KeyTold(r)
        /\ FrameTold(c) /\ (FrameWaits(over) => FrameWaits(c)) => FrameTold(r)
    BY <2>1, <2>6, <2>7, NotifyFacts
  <2>9. (KeyWaits(over) => KeyWaits(c)) /\ (FrameWaits(over) => FrameWaits(c))
    BY <2>2 DEF KeyWaits, FrameWaits, SameDevices
  <2>10. over.new /\ over.from = c.from
    BY <2>2 DEF SameBytes
  <2>11. r.new /\ r.from = c.from /\ ~ r.dump
    BY <2>2, <2>8, <2>10 DEF Sends, PortKept, SameSettings
  <2>12. QED
    BY <2>8, <2>9, <2>11 DEF Lively
<1>4. QED
  BY <1>2, <1>3

\* What is kept while the byte in the port is read
Reading(c, r, k, a) ==
  /\ Sound(r, k, a) /\ r.new /\ r.from = c.from
  /\ r.dump = c.dump /\ r.cmd = c.cmd
  /\ r.dump => r.buf = c.buf
  /\ KeyTold(c) /\ FrameTold(c) => KeyTold(r) /\ FrameTold(r)

LEMMA CountAuxFacts ==
  ASSUME NEW c, Sound(c, 0, 0), c.new, c.from = "aux", NEW r, r = CountAux(c)
  PROVE  Reading(c, r, 0, 1)
<1> DEFINE less == [c EXCEPT !.waitAux = c.waitAux - 1]
<1>1. /\ c \in State /\ Shown(c) /\ c.waitAux \in Nat /\ c.buf \in Seq(Byte)
      /\ c.waitAux + 0 = Unread(c, "aux") /\ Counted(c, 0, 0)
  BY DEF Sound, State, Counted
<1>2. r = IF IsReadyForAuxFrame(less) THEN NotifyAux(less) ELSE less
  BY <1>1 DEF CountAux, State
<1>3. c.waitAux - 1 \in Nat
  <2>1. /\ In(c.buf, "aux") \in Nat
        /\ Unread(c, "aux") = In(c.buf, "aux") + Port(c, "aux")
    BY <1>1, UnreadFacts
  <2>2. Port(c, "aux") = 1
    BY DEF Port
  <2>3. QED
    BY <1>1, <2>1, <2>2
<1>4. /\ less \in State /\ less.waitAux = c.waitAux - 1
      /\ less.buf = c.buf /\ less.new = c.new /\ less.from = c.from
      /\ less.waitKbd = c.waitKbd /\ less.timer = c.timer
      /\ SameSettings(c, less) /\ SameDevices(c, less)
  BY <1>1, <1>3 DEF State, SameSettings, SameDevices
<1> HIDE DEF less
<1>5. \A x : Unread(less, x) = Unread(c, x)
  BY <1>4 DEF Unread
<1>6. Counted(less, 0, 1)
  <2>1. less.waitAux + 1 = Unread(less, "aux")
    BY <1>1, <1>4, <1>5
  <2>2. QED
    BY <1>1, <1>4, <1>5, <2>1 DEF Counted
<1>7. Shown(less)
  BY <1>1, <1>4 DEF Shown
<1>8. ~ less.dump => Load(less)
  BY <1>4, <1>5 DEF Sound, Load, SameSettings
<1>9. Sound(less, 0, 1)
  BY <1>4, <1>6, <1>7, <1>8 DEF Sound, SameDevices
<1>10. KeyTold(c) <=> KeyTold(less)
  BY <1>4 DEF KeyTold, KeyWaits, IsReadyForKbdFrame, SameSettings, SameDevices
<1>11. CASE IsReadyForAuxFrame(less)
  <2>1. 0 \in {0, 1} /\ 1 \in {0, 1}
    OBVIOUS
  <2>2. r = PutAux(less)
    BY <1>2, <1>9, <1>11, <2>1, NotifyAuxPuts
  <2>3. /\ Sound(r, 0, 1) /\ SameSettings(less, r) /\ PortKept(less, r)
        /\ r.waitKbd = less.waitKbd /\ r.keys = less.keys
        /\ FrameTold(r)
    BY <1>9, <2>1, <2>2, PutAuxFacts
  <2>4. KeyTold(less) <=> KeyTold(r)
    BY <2>3 DEF KeyTold, KeyWaits, IsReadyForKbdFrame, SameSettings
  <2>5. r.new /\ r.from = c.from
    BY <1>4, <2>3 DEF PortKept
  <2>6. r.dump = c.dump /\ r.cmd = c.cmd /\ ~ r.dump
    BY <1>4, <1>11, <2>3 DEF SameSettings, IsReadyForAuxFrame
  <2>7. QED
    BY <1>10, <2>3, <2>4, <2>5, <2>6 DEF Reading
<1>12. CASE ~ IsReadyForAuxFrame(less)
  <2>1. r = less
    BY <1>2, <1>12
  <2>2. FrameTold(r)
    BY <1>12, <2>1 DEF FrameTold
  <2>3. QED
    BY <1>4, <1>9, <1>10, <2>1, <2>2 DEF Reading, SameSettings
<1>13. QED
  BY <1>11, <1>12

LEMMA CountKbdFacts ==
  ASSUME NEW c, Sound(c, 0, 0), c.new, c.from = "kbd", NEW r, r = CountKbd(c)
  PROVE  Reading(c, r, 1, 0)
<1> DEFINE less == [c EXCEPT !.waitKbd = c.waitKbd - 1]
<1>1. /\ c \in State /\ Shown(c) /\ c.waitKbd \in Nat /\ c.buf \in Seq(Byte)
      /\ c.waitKbd + 0 = Unread(c, "kbd") /\ Counted(c, 0, 0)
  BY DEF Sound, State, Counted
<1>2. r = IF IsReadyForKbdFrame(less) THEN NotifyKbd(less) ELSE less
  BY <1>1 DEF CountKbd, State
<1>3. c.waitKbd - 1 \in Nat
  <2>1. /\ In(c.buf, "kbd") \in Nat
        /\ Unread(c, "kbd") = In(c.buf, "kbd") + Port(c, "kbd")
    BY <1>1, UnreadFacts
  <2>2. Port(c, "kbd") = 1
    BY DEF Port
  <2>3. QED
    BY <1>1, <2>1, <2>2
<1>4. /\ less \in State /\ less.waitKbd = c.waitKbd - 1
      /\ less.buf = c.buf /\ less.new = c.new /\ less.from = c.from
      /\ less.waitAux = c.waitAux /\ less.timer = c.timer
      /\ SameSettings(c, less) /\ SameDevices(c, less)
  BY <1>1, <1>3 DEF State, SameSettings, SameDevices
<1> HIDE DEF less
<1>5. \A x : Unread(less, x) = Unread(c, x)
  BY <1>4 DEF Unread
<1>6. Counted(less, 1, 0)
  <2>1. less.waitKbd + 1 = Unread(less, "kbd")
    BY <1>1, <1>4, <1>5
  <2>2. QED
    BY <1>1, <1>4, <1>5, <2>1 DEF Counted
<1>7. Shown(less)
  BY <1>1, <1>4 DEF Shown
<1>8. ~ less.dump => Load(less)
  BY <1>4, <1>5 DEF Sound, Load, SameSettings
<1>9. Sound(less, 1, 0)
  BY <1>4, <1>6, <1>7, <1>8 DEF Sound, SameDevices
<1>10. FrameTold(c) <=> FrameTold(less)
  BY <1>4 DEF FrameTold, FrameWaits, IsReadyForAuxFrame, SameSettings, SameDevices
<1>11. CASE IsReadyForKbdFrame(less)
  <2>1. 0 \in {0, 1} /\ 1 \in {0, 1}
    OBVIOUS
  <2>2. r = NotifyKbd(less)
    BY <1>2, <1>11
  <2>3. /\ Sound(r, 1, 0) /\ SameSettings(less, r) /\ PortKept(less, r)
        /\ r.waitAux = less.waitAux /\ r.moved = less.moved /\ r.auxTimer = less.auxTimer
        /\ KeyTold(r)
    BY <1>9, <2>1, <2>2, NotifyKbdFacts
  <2>4. FrameTold(less) <=> FrameTold(r)
    BY <2>3 DEF FrameTold, FrameWaits, IsReadyForAuxFrame, SameSettings
  <2>5. r.new /\ r.from = c.from
    BY <1>4, <2>3 DEF PortKept
  <2>6. r.dump = c.dump /\ r.cmd = c.cmd /\ ~ r.dump
    BY <1>4, <1>11, <2>3 DEF SameSettings, IsReadyForKbdFrame
  <2>7. QED
    BY <1>10, <2>3, <2>4, <2>5, <2>6 DEF Reading
<1>12. CASE ~ IsReadyForKbdFrame(less)
  <2>1. r = less
    BY <1>2, <1>12
  <2>2. KeyTold(r)
    BY <1>12, <2>1 DEF KeyTold
  <2>3. QED
    BY <1>4, <1>9, <1>10, <2>1, <2>2 DEF Reading, SameSettings
<1>13. QED
  BY <1>11, <1>12

\* The byte leaves the port.
Taken(c) == [c EXCEPT !.new = FALSE, !.from = "none", !.timer = TRUE]

LEMMA ReadFacts ==
  ASSUME NEW k \in {0, 1}, NEW a \in {0, 1}, NEW c, Sound(c, k, a), c.new,
         k = 1 <=> c.from = "kbd", a = 1 <=> c.from = "aux",
         NEW r, r = Taken(c)
  PROVE  /\ Sound(r, 0, 0) /\ r.buf = c.buf /\ r.dump = c.dump /\ r.cmd = c.cmd
         /\ KeyTold(c) => KeyTold(r)
         /\ FrameTold(c) => FrameTold(r)
<1>1. c \in State /\ Shown(c) /\ Counted(c, k, a) /\ c.waitKbd \in Nat /\ c.waitAux \in Nat
  BY DEF Sound, State
<1>2. /\ r \in State /\ r.buf = c.buf /\ r.new = FALSE /\ r.from = "none" /\ r.timer = TRUE
      /\ r.waitKbd = c.waitKbd /\ r.waitAux = c.waitAux
      /\ SameSettings(c, r) /\ SameDevices(c, r)
  BY <1>1 DEF Taken, State, SameSettings, SameDevices
<1>3. ASSUME NEW x PROVE /\ Unread(c, x) = Unread(r, x) + Port(c, x)
                         /\ Unread(r, x) \in Nat /\ Port(c, x) \in {0, 1}
  <2>1. c.buf \in Seq(Byte) /\ r.buf \in Seq(Byte)
    BY <1>1, <1>2 DEF State
  <2>2. /\ In(c.buf, x) \in Nat /\ Unread(c, x) = In(c.buf, x) + Port(c, x)
        /\ Unread(r, x) = In(r.buf, x) + Port(r, x) /\ Port(c, x) \in {0, 1}
    BY <2>1, UnreadFacts
  <2>3. Port(r, x) = 0
    BY <1>2 DEF Port
  <2>4. QED
    BY <1>2, <2>2, <2>3
<1>4. Port(c, "kbd") = k /\ Port(c, "aux") = a
  BY DEF Port
<1>5. /\ Unread(c, "kbd") = Unread(r, "kbd") + k /\ Unread(r, "kbd") \in Nat
      /\ Unread(c, "aux") = Unread(r, "aux") + a /\ Unread(r, "aux") \in Nat
      /\ Unread(c, "ctl") = Unread(r, "ctl") + Port(c, "ctl") /\ Unread(r, "ctl") \in Nat
      /\ Port(c, "ctl") \in {0, 1}
  BY <1>3, <1>4
<1>6. Counted(r, 0, 0)
  <2>1. c.waitKbd + k = Unread(c, "kbd") /\ c.waitAux + a = Unread(c, "aux")
    BY <1>1 DEF Counted
  <2>2. c.waitKbd + 0 = Unread(r, "kbd") /\ c.waitAux + 0 = Unread(r, "aux")
    BY <1>1, <1>5, <2>1
  <2>3. QED
    BY <1>2, <2>2 DEF Counted
<1>7. ASSUME ~ r.dump PROVE Load(r)
  <2>1. Load(c)
    BY <1>2, <1>7 DEF Sound, SameSettings
  <2>2. QED
    BY <1>5, <2>1, SizeFacts DEF Load
<1>8. Shown(r)
  BY <1>2 DEF Shown
<1>9. Sound(r, 0, 0)
  BY <1>2, <1>6, <1>7, <1>8 DEF Sound, SameDevices
<1>10. KeyTold(c) => KeyTold(r)
  BY <1>2 DEF KeyTold, KeyWaits, IsReadyForKbdFrame, SameSettings, SameDevices
<1>11. FrameTold(c) => FrameTold(r)
  BY <1>2 DEF FrameTold, FrameWaits, IsReadyForAuxFrame, SameSettings, SameDevices
<1>12. QED
  BY <1>2, <1>9, <1>10, <1>11 DEF SameSettings

\* read_data_port_byte
LEMMA ReadStep ==
  ASSUME Base(s), ReadData
  PROVE  Keeps(s, s', TRUE)
<1> DEFINE f == FinishDump(s)
           g == CountAux(f)
           h == CountKbd(g)
<1>1. s.new /\ s' = [h EXCEPT !.new = FALSE, !.from = "none", !.timer = TRUE]
  BY DEF ReadData
<1>2. /\ Sound(f, 0, 0) /\ f.new /\ f.from = s.from
      /\ f.dump => f.cmd = "none" /\ f.buf # <<>>
      /\ Lively(s) => KeyTold(f) /\ FrameTold(f)
  BY <1>1, FinishFacts
<1> HIDE DEF f
<1>3. f.from \in {"kbd", "aux", "ctl"}
  BY <1>2 DEF Sound, State, Shown, Sources
<1>4. 0 \in {0, 1} /\ 1 \in {0, 1}
  OBVIOUS
<1>5. \E k \in {0, 1}, a \in {0, 1} :
        Reading(f, h, k, a) /\ (k = 1 <=> f.from = "kbd") /\ (a = 1 <=> f.from = "aux")
  <2>1. CASE f.from = "aux"
    <3>1. Reading(f, g, 0, 1)
      BY <1>2, <2>1, CountAuxFacts
    <3> HIDE DEF g
    <3>2. h = g
      BY <2>1, <3>1 DEF CountKbd, Reading
    <3>3. QED
      BY <2>1, <3>1, <3>2
  <2>2. CASE f.from = "kbd"
    <3>1. g = f
      BY <2>2 DEF CountAux
    <3> HIDE DEF g
    <3>2. Reading(f, h, 1, 0)
      BY <1>2, <2>2, <3>1, CountKbdFacts
    <3>3. QED
      BY <2>2, <3>2
  <2>3. CASE f.from = "ctl"
    <3>1. g = f
      BY <2>3 DEF CountAux
    <3> HIDE DEF g
    <3>2. h = f
      BY <2>3, <3>1 DEF CountKbd
    <3>3. Reading(f, h, 0, 0)
      BY <1>2, <3>2 DEF Reading
    <3>4. QED
      BY <2>3, <3>3
  <2>4. QED
    BY <1>3, <2>1, <2>2, <2>3
<1> HIDE DEF h
<1>6. PICK k \in {0, 1}, a \in {0, 1} :
        Reading(f, h, k, a) /\ (k = 1 <=> f.from = "kbd") /\ (a = 1 <=> f.from = "aux")
  BY <1>5
<1>7. /\ Sound(h, k, a) /\ h.new /\ h.from = f.from
      /\ h.dump = f.dump /\ h.cmd = f.cmd
      /\ h.dump => h.buf = f.buf
      /\ KeyTold(f) /\ FrameTold(f) => KeyTold(h) /\ FrameTold(h)
  BY <1>6 DEF Reading
<1>8. k = 1 <=> h.from = "kbd"
  BY <1>6, <1>7
<1>9. a = 1 <=> h.from = "aux"
  BY <1>6, <1>7
<1>10. /\ Sound(s', 0, 0) /\ s'.buf = h.buf /\ s'.dump = h.dump /\ s'.cmd = h.cmd
       /\ KeyTold(h) => KeyTold(s')
       /\ FrameTold(h) => FrameTold(s')
  <2>1. s' = Taken(h)
    BY <1>1 DEF Taken
  <2>2. QED
    BY <1>7, <1>8, <1>9, <2>1, ReadFacts
<1>11. s'.dump => s'.cmd = "none" /\ s'.buf # <<>>
  BY <1>2, <1>7, <1>10
<1>12. QED
  BY <1>2, <1>7, <1>10, <1>11 DEF Keeps, Base, Lively
\* Nothing happens in the controller, and no device gets something to send.
LEMMA QuietStep ==
  ASSUME NEW c, Base(c), NEW r \in State, SameBytes(c, r), c.timer => r.timer,
         r.offKbd = c.offKbd, r.offAux = c.offAux, r.dump = c.dump, r.cmd = c.cmd,
         Len(r.keys) <= KeyBufferSize,
         KeyWaits(r) => KeyWaits(c), FrameWaits(r) => FrameWaits(c)
  PROVE  Keeps(c, r, TRUE)
<1>1. Sound(r, 0, 0)
  BY SameBytesFacts DEF Base
<1>2. KeyTold(c) => KeyTold(r)
  BY DEF KeyTold, IsReadyForKbdFrame, SameBytes
<1>3. FrameTold(c) => FrameTold(r)
  BY DEF FrameTold, IsReadyForAuxFrame, SameBytes
<1>4. QED
  BY <1>1, <1>2, <1>3 DEF Keeps, Base, Lively, SameBytes

\* KEYBOARD_AddKey
LEMMA AddKeyFacts ==
  ASSUME NEW c, Base(c), NEW key \in Keys, NEW pressed \in BOOLEAN,
         NEW r, r = AddKey(c, key, pressed)
  PROVE  Keeps(c, r, TRUE)
<1> DEFINE v == IF pressed THEN key ELSE IF c.repeat = key THEN 0 ELSE c.repeat
           held == [c EXCEPT !.repeat = v]
<1>1. /\ c \in State /\ Sound(c, 0, 0) /\ Len(c.keys) <= KeyBufferSize
      /\ c.keys \in Seq(Keys) /\ Len(c.keys) \in Nat /\ KeyBufferSize \in Nat
  BY I8042Assumption, LenProperties DEF Base, Sound, State
<1>2. v \in Keys \cup {0}
  BY <1>1 DEF State
<1>3. r = IF ~ c.scanning THEN c
          ELSE IF c.latch THEN held
          ELSE IF Len(c.keys) = KeyBufferSize
            THEN [held EXCEPT !.keys = <<>>, !.latch = TRUE]
            ELSE SendKey([held EXCEPT !.keys = Append(@, key)])
  BY <1>1 DEF AddKey, State
<1> HIDE DEF v
<1>4. /\ held \in State /\ SameBytes(c, held) /\ held.timer = c.timer
      /\ SameDevices(c, held)
      /\ held.offKbd = c.offKbd /\ held.offAux = c.offAux
      /\ held.dump = c.dump /\ held.cmd = c.cmd
  BY <1>1, <1>2 DEF State, SameBytes, SameDevices
<1> HIDE DEF held
<1>5. /\ held.keys = c.keys /\ held.moved = c.moved /\ held.auxTimer = c.auxTimer
  BY <1>4 DEF SameDevices
<1>6. CASE ~ c.scanning
  <2>1. r = c
    BY <1>3, <1>6
  <2>2. QED
    BY <2>1 DEF Keeps
<1>7. CASE c.scanning /\ c.latch
  <2>1. r = held
    BY <1>3, <1>7
  <2>2. (KeyWaits(r) => KeyWaits(c)) /\ (FrameWaits(r) => FrameWaits(c))
    BY <1>5, <2>1 DEF KeyWaits, FrameWaits
  <2>3. Len(r.keys) <= KeyBufferSize /\ (c.timer => r.timer)
    BY <1>1, <1>4, <1>5, <2>1
  <2>4. QED
    BY <1>4, <2>1, <2>2, <2>3, QuietStep
<1>8. CASE c.scanning /\ ~ c.latch /\ Len(c.keys) = KeyBufferSize
  <2>1. r = [held EXCEPT !.keys = <<>>, !.latch = TRUE]
    BY <1>3, <1>8
  <2>2. <<>> \in Seq(Keys) /\ Len(<<>>) = 0
    OBVIOUS
  <2>3. /\ r \in State /\ SameBytes(held, r) /\ r.timer = held.timer
        /\ r.offKbd = held.offKbd /\ r.offAux = held.offAux
        /\ r.dump = held.dump /\ r.cmd = held.cmd /\ r.keys = <<>>
        /\ r.moved = held.moved /\ r.auxTimer = held.auxTimer
    <3>1. r \in State
      BY <1>4, <2>1, <2>2 DEF State
    <3>2. SameBytes(held, r)
      BY <1>4, <2>1 DEF State, SameBytes
    <3>3. QED
      BY <1>4, <2>1, <3>1, <3>2 DEF State
  <2>4. (KeyWaits(r) => KeyWaits(c)) /\ (FrameWaits(r) => FrameWaits(c))
    BY <1>5, <2>3 DEF KeyWaits, FrameWaits
  <2>5. Len(r.keys) <= KeyBufferSize /\ (c.timer => r.timer)
    BY <1>1, <1>4, <2>2, <2>3
  <2>6. SameBytes(c, r)
    BY <1>4, <2>3 DEF SameBytes
  <2>7. /\ r.offKbd = c.offKbd /\ r.offAux = c.offAux
        /\ r.dump = c.dump /\ r.cmd = c.cmd
    BY <1>4, <2>3
  <2>8. QED
    BY <2>3, <2>4, <2>5, <2>6, <2>7, QuietStep
<1>9. CASE c.scanning /\ ~ c.latch /\ Len(c.keys) # KeyBufferSize
  <2> DEFINE q == [held EXCEPT !.keys = Append(c.keys, key)]
  <2>1. r = SendKey(q)
    BY <1>3, <1>4, <1>5, <1>9 DEF State
  <2>2. Append(c.keys, key) \in Seq(Keys) /\ Len(Append(c.keys, key)) = Len(c.keys) + 1
    BY <1>1, AppendProperties
  <2>3. /\ q \in State /\ SameBytes(held, q) /\ q.timer = held.timer
        /\ q.offKbd = held.offKbd /\ q.offAux = held.offAux
        /\ q.dump = held.dump /\ q.cmd = held.cmd /\ q.keys = Append(c.keys, key)
        /\ q.moved = held.moved /\ q.auxTimer = held.auxTimer
    BY <1>4, <2>2 DEF State, SameBytes
  <2> HIDE DEF q
  <2>4. Len(q.keys) <= KeyBufferSize
    BY <1>1, <1>9, <2>2, <2>3
  <2>5. SameBytes(c, q)
    BY <1>4, <2>3 DEF SameBytes
  <2>6. /\ q.offKbd = c.offKbd /\ q.offAux = c.offAux
        /\ q.dump = c.dump /\ q.cmd = c.cmd /\ (c.timer => q.timer)
    BY <1>4, <2>3
  <2>7. Sound(q, 0, 0) /\ First(q) = First(c)
    BY <1>1, <2>3, <2>4, <2>5, <2>6, SameBytesFacts
  <2>8. 0 \in {0, 1}
    OBVIOUS
  <2>9. r = PutKey(q)
    BY <2>1, <2>7, <2>8, SendKeyPuts
  <2>10. /\ Sound(r, 0, 0) /\ SameSettings(q, r) /\ PortKept(q, r) /\ KeyTold(r)
         /\ r.waitAux = q.waitAux /\ r.moved = q.moved /\ r.auxTimer = q.auxTimer
    BY <2>7, <2>8, <2>9, PutKeyFacts
  <2>11. r.dump = c.dump /\ r.cmd = c.cmd /\ r.offAux = c.offAux
    BY <2>6, <2>10 DEF SameSettings
  <2>12. FrameTold(c) => FrameTold(r)
    BY <1>5, <2>3, <2>5, <2>10, <2>11 DEF FrameTold, FrameWaits, IsReadyForAuxFrame, SameBytes
  <2>13. First(c) # "none" => First(r) # "none"
    BY <2>7, <2>10 DEF PortKept
  <2>14. (c.new \/ c.buf # <<>>) => (r.new \/ r.buf # <<>>)
    <3>1. (c.new \/ c.buf # <<>>) => First(c) # "none"
      <4>1. c.buf # <<>> => Head(c.buf).src # "none"
        BY <1>1, InTail DEF State, Byte, Sources
      <4>2. QED
        BY <1>1, <4>1 DEF First, Sound, Shown
    <3>2. First(r) # "none" => (r.new \/ r.buf # <<>>)
      BY DEF First
    <3>3. QED
      BY <2>13, <3>1, <3>2
  <2>15. QED
    BY <2>10, <2>11, <2>12, <2>14 DEF Keeps, Base, Lively
<1>10. QED
  BY <1>6, <1>7, <1>8, <1>9

\* The mouse has something new to send, or the end of its delay: it tries.
LEMMA AuxTries ==
  ASSUME NEW c, Base(c), NEW d \in State, SameBytes(c, d), d.timer = c.timer,
         SameSettings(c, d), d.keys = c.keys, NEW r, r = NotifyAux(d)
  PROVE  Keeps(c, r, TRUE)
<1>1. Sound(c, 0, 0) /\ c \in State /\ Shown(c) /\ Len(c.keys) <= KeyBufferSize
  BY DEF Base, Sound
<1>2. Len(d.keys) <= KeyBufferSize /\ (c.timer => d.timer) /\ d.dump = c.dump
  BY <1>1 DEF SameSettings
<1>3. Sound(d, 0, 0) /\ First(d) = First(c)
  BY <1>1, <1>2, SameBytesFacts
<1>4. 0 \in {0, 1}
  OBVIOUS
<1>5. r = PutAux(d)
  BY <1>3, <1>4, NotifyAuxPuts
<1>6. /\ Sound(r, 0, 0) /\ SameSettings(d, r) /\ PortKept(d, r)
      /\ r.waitKbd = d.waitKbd /\ r.keys = d.keys /\ FrameTold(r)
  BY <1>3, <1>4, <1>5, PutAuxFacts
<1>7. r.dump = c.dump /\ r.cmd = c.cmd /\ r.offKbd = c.offKbd
  BY <1>6 DEF SameSettings
<1>8. KeyTold(c) => KeyTold(r)
  BY <1>6, <1>7 DEF KeyTold, KeyWaits, IsReadyForKbdFrame, SameBytes
<1>9. First(c) # "none" => First(r) # "none"
  BY <1>3, <1>6 DEF PortKept
<1>10. (c.new \/ c.buf # <<>>) => (r.new \/ r.buf # <<>>)
  <2>1. (c.new \/ c.buf # <<>>) => First(c) # "none"
    <3>1. c.buf # <<>> => Head(c.buf).src # "none"
      BY <1>1, InTail DEF State, Byte, Sources
    <3>2. QED
      BY <1>1, <3>1 DEF First, Shown
  <2>2. First(r) # "none" => (r.new \/ r.buf # <<>>)
    BY DEF First
  <2>3. QED
    BY <1>9, <2>1, <2>2
<1>11. QED
  BY <1>6, <1>7, <1>8, <1>10 DEF Keeps, Base, Lively

LEMMA MouseStep ==
  ASSUME Base(s), MoveMouse
  PROVE  Keeps(s, s', TRUE)
<1> DEFINE d == [s EXCEPT !.moved = TRUE]
<1>1. s \in State /\ s' = NotifyAux(d)
  BY DEF Base, Sound, MoveMouse
<1>2. /\ d \in State /\ SameBytes(s, d) /\ d.timer = s.timer
      /\ SameSettings(s, d) /\ d.keys = s.keys
  BY <1>1 DEF State, SameBytes, SameSettings
<1> HIDE DEF d
<1>3. QED
  BY <1>1, <1>2, AuxTries

LEMMA AuxDelayStep ==
  ASSUME Base(s), AuxDelay
  PROVE  Keeps(s, s', TRUE)
<1> DEFINE d == [s EXCEPT !.auxTimer = FALSE]
<1>1. s \in State /\ s' = NotifyAux(d)
  BY DEF Base, Sound, AuxDelay
<1>2. /\ d \in State /\ SameBytes(s, d) /\ d.timer = s.timer
      /\ SameSettings(s, d) /\ d.keys = s.keys
  BY <1>1 DEF State, SameBytes, SameSettings
<1> HIDE DEF d
<1>3. QED
  BY <1>1, <1>2, AuxTries

\* delay_handler of the controller
LEMMA DelayStep ==
  ASSUME Base(s), Delay
  PROVE  Keeps(s, s', TRUE)
<1> DEFINE d == [s EXCEPT !.timer = FALSE]
<1>1. s \in State /\ s' = Transfer(d) /\ Sound(s, 0, 0) /\ Shown(s)
  BY DEF Base, Sound, Delay
<1>2. /\ d \in State /\ SameBytes(s, d) /\ SameSettings(s, d) /\ SameDevices(s, d)
  BY <1>1 DEF State, SameBytes, SameSettings, SameDevices
<1> HIDE DEF d
<1>3. d.new <=> d.from # "none"
  BY <1>1, <1>2 DEF Shown, SameBytes
<1>4. PICK r : r = s'
  OBVIOUS
<1>5. /\ r \in State /\ Shown(r)
      /\ \A x : Unread(r, x) = Unread(d, x)
      /\ Len(r.buf) <= Len(d.buf)
      /\ r.waitKbd = d.waitKbd /\ r.waitAux = d.waitAux
      /\ SameSettings(d, r) /\ SameDevices(d, r)
      /\ First(r) = First(d)
  BY <1>1, <1>2, <1>3, <1>4, TransferFacts
<1>6. \A x : Unread(d, x) = Unread(s, x)
  BY <1>2 DEF Unread, SameBytes
<1>7. /\ r.waitKbd = s.waitKbd /\ r.waitAux = s.waitAux
      /\ Unread(r, "kbd") = Unread(s, "kbd") /\ Unread(r, "aux") = Unread(s, "aux")
      /\ Unread(r, "ctl") = Unread(s, "ctl") /\ d.buf = s.buf
  BY <1>2, <1>5, <1>6 DEF SameBytes
<1>8. Counted(r, 0, 0)
  BY <1>1, <1>7 DEF Counted, Sound
<1>9. SameSettings(s, r) /\ SameDevices(s, r)
  BY <1>2, <1>5 DEF SameSettings, SameDevices
<1>10. ~ r.dump => Load(r)
  BY <1>1, <1>7, <1>9 DEF Sound, Load, SameSettings
<1>11. Len(r.buf) <= BufferSize
  <2>1. Len(s.buf) <= BufferSize /\ Len(s.buf) \in Nat /\ Len(r.buf) \in Nat /\ BufferSize \in Nat
    BY <1>1, <1>5, SizeFacts, LenProperties DEF Sound, State
  <2>2. QED
    BY <1>5, <1>7, <2>1
<1>12. Sound(r, 0, 0)
  BY <1>1, <1>5, <1>8, <1>9, <1>10, <1>11 DEF Sound, SameDevices
<1>13. KeyTold(s) => KeyTold(r)
  BY <1>7, <1>9 DEF KeyTold, KeyWaits, IsReadyForKbdFrame, SameSettings, SameDevices
<1>14. FrameTold(s) => FrameTold(r)
  BY <1>7, <1>9 DEF FrameTold, FrameWaits, IsReadyForAuxFrame, SameSettings, SameDevices
<1>15. (s.new \/ s.buf # <<>>) => (r.new \/ r.buf # <<>>)
  <2>1. s.buf # <<>> => Head(s.buf).src # "none"
    BY <1>1, InTail DEF State, Byte, Sources
  <2>2. (s.new \/ s.buf # <<>>) => First(s) # "none"
    BY <1>1, <2>1 DEF First, Shown
  <2>3. First(r) = First(s)
    BY <1>2, <1>5 DEF First, SameBytes
  <2>4. First(r) # "none" => (r.new \/ r.buf # <<>>)
    BY DEF First
  <2>5. QED
    BY <2>2, <2>3, <2>4
<1>16. Keeps(s, r, TRUE)
  BY <1>9, <1>12, <1>13, <1>14, <1>15 DEF Keeps, Base, Lively, SameSettings
<1>17. QED
  BY <1>4, <1>16

LEMMA ClearStep ==
  ASSUME Base(s), ClrBuffer
  PROVE  Keeps(s, s', TRUE)
<1>1. Sound(s, 0, 0) /\ s' = ClearKeys(s) /\ s \in State
  BY DEF Base, Sound, ClrBuffer
<1>2. PICK r : r = s'
  OBVIOUS
<1>3. Adjusted(s, r)
  BY <1>1, <1>2, ClearKeysFacts
<1>4. r.keys = <<>>
  BY <1>1, <1>2 DEF ClearKeys, State
<1>5. /\ r \in State /\ SameBytes(s, r) /\ (s.timer => r.timer)
      /\ r.offKbd = s.offKbd /\ r.offAux = s.offAux /\ r.dump = s.dump /\ r.cmd = s.cmd
      /\ Len(r.keys) <= KeyBufferSize
      /\ KeyWaits(r) => KeyWaits(s)
      /\ FrameWaits(r) => FrameWaits(s)
  BY <1>3, <1>4 DEF Adjusted, SamePorts, KeyWaits, FrameWaits
<1>6. Keeps(s, r, TRUE)
  BY <1>5, QuietStep
<1>7. QED
  BY <1>2, <1>6

-----------------------------------------------------------------------------
(* The theorems *)

\* The initial state has every counter at zero and nothing to send.
LEMMA Start ==
  ASSUME Init
  PROVE  Base(s) /\ Lively(s)
<1>1. <<>> \in Seq(Byte) /\ <<>> \in Seq(Keys) /\ Len(<<>>) = 0 /\ KeyBufferSize \in Nat
  BY I8042Assumption
<1>2. s \in State
  BY <1>1 DEF Init, State
<1>3. /\ s.buf = <<>> /\ s.new = FALSE /\ s.from = "none" /\ s.waitKbd = 0 /\ s.waitAux = 0
      /\ s.dump = FALSE /\ s.keys = <<>> /\ s.moved = FALSE
  BY DEF Init
<1>4. PICK r : r = Emptied(s)
  OBVIOUS
<1>5. /\ Sound(r, 0, 0) /\ SameSettings(s, r) /\ SameDevices(s, r)
      /\ r.buf = <<>> /\ ~ r.new /\ r.waitKbd = 0 /\ r.waitAux = 0
  BY <1>1, <1>2, <1>3, <1>4, EmptiedFacts
<1>6. s = r
  BY <1>4 DEF Init, Emptied
<1>7. QED
  BY <1>3, <1>5, <1>6 DEF Base, Lively, KeyTold, FrameTold, KeyWaits, FrameWaits

\* Every step keeps the counters exact; and, but for parameters that no
\* command asked for, it leaves nobody waiting.
LEMMA Step ==
  ASSUME "ReadRam" \notin Commands, Base(s), [Next]_s
  PROVE  Keeps(s, s', ~ Unsolicited)
<1>1. ASSUME Keeps(s, s', TRUE) PROVE Keeps(s, s', ~ Unsolicited)
  BY <1>1 DEF Keeps
<1>2. ASSUME NEW cmd \in Commands, WriteCommand(cmd) PROVE Keeps(s, s', TRUE)
  BY <1>2, CommandStep
<1>3. ASSUME NEW key \in Keys, PressKey(key) PROVE Keeps(s, s', TRUE)
  BY <1>3, AddKeyFacts DEF PressKey
<1>4. ASSUME NEW key \in Keys, ReleaseKey(key) PROVE Keeps(s, s', TRUE)
  BY <1>4, AddKeyFacts DEF ReleaseKey
<1>5. ASSUME RepeatKey PROVE Keeps(s, s', TRUE)
  <2>1. s.repeat \in Keys
    BY <1>5 DEF RepeatKey, Base, Sound, State
  <2>2. QED
    BY <1>5, <2>1, AddKeyFacts DEF RepeatKey
<1>6. ASSUME UNCHANGED s PROVE Keeps(s, s', TRUE)
  BY <1>6 DEF Keeps
<1>7. ASSUME NEW byte \in DataBytes, WriteKeyboard(byte) PROVE Keeps(s, s', ~ Unsolicited)
  BY <1>7, KeyboardStep
<1>8. ASSUME Next PROVE Keeps(s, s', ~ Unsolicited)
  BY <1>1, <1>2, <1>3, <1>4, <1>5, <1>7, <1>8, ReadStep, ParameterStep, MouseStep,
     AuxDelayStep, DelayStep, ClearStep
     DEF Next, Guest, GuestWrites, Host
<1>9. QED
  BY <1>1, <1>6, <1>8
\* The readings of the record as the model states them
LEMMA BaseExact ==
  ASSUME Base(s)
  PROVE  WaitingExact
<1>1. s \in State /\ Shown(s) /\ Counted(s, 0, 0)
  BY DEF Base, Sound
<1>2. /\ s.waitKbd \in Nat /\ s.waitAux \in Nat
      /\ s.waitKbd + 0 = Unread(s, "kbd") /\ s.waitAux + 0 = Unread(s, "aux")
  BY <1>1 DEF State, Counted
<1>3. /\ s.new \in BOOLEAN /\ s.cmd \in Parameterized \cup {"none"}
      /\ s.keys \in Seq(Keys) /\ s.repeat \in Keys \cup {0}
  BY <1>1 DEF State
<1>4. s.buf \in Seq([src : {"kbd", "aux", "ctl"}, skip : BOOLEAN])
  BY <1>1 DEF State, Byte, Sources
<1>5. s.kbdCmd \in KbdCommands \cup {"none"}
  BY <1>1 DEF State, KbdCommands
<1>6. s.from \in (IF s.new THEN {"kbd", "aux", "ctl"} ELSE {"none"})
  BY <1>1 DEF State, Shown, Sources
<1>7. Len(s.buf) <= BufferSize /\ Len(s.keys) <= KeyBufferSize
  BY DEF Base, Sound
<1>8. TypeOK
  BY <1>2, <1>3, <1>4, <1>5, <1>6, <1>7 DEF TypeOK
<1>9. QED
  BY <1>2, <1>8 DEF WaitingExact

LEMMA LivelyNoStall ==
  ASSUME Base(s), Lively(s)
  PROVE  NoStall
<1>1. s \in State /\ Shown(s) /\ Counted(s, 0, 0)
  BY DEF Base, Sound
<1>2. NotKeptWaiting
  BY DEF Lively, KeyTold, FrameTold, KeyWaits, FrameWaits, NotKeptWaiting
<1>3. ASSUME ~ s.new, s.buf = <<>> PROVE s.waitKbd = 0 /\ s.waitAux = 0
  <2>1. \A x : Unread(s, x) = In(s.buf, x) + Port(s, x)
    BY <1>1, UnreadFacts DEF State
  <2>2. In(s.buf, "kbd") = 0 /\ In(s.buf, "aux") = 0
    BY <1>3, InEmpty
  <2>3. Port(s, "kbd") = 0 /\ Port(s, "aux") = 0
    BY <1>3 DEF Port
  <2>4. Unread(s, "kbd") = 0 /\ Unread(s, "aux") = 0
    BY <2>1, <2>2, <2>3
  <2>5. /\ s.waitKbd \in Nat /\ s.waitAux \in Nat
        /\ s.waitKbd + 0 = Unread(s, "kbd") /\ s.waitAux + 0 = Unread(s, "aux")
    BY <1>1 DEF State, Counted
  <2>6. QED
    BY <2>4, <2>5
<1>4. s.dump => s.new \/ s.buf # <<>>
  BY DEF Lively
<1>5. s.buf # <<>> /\ ~ s.new => s.timer
  BY <1>1 DEF Shown
<1>6. RefusalEnds
  BY <1>3, <1>4, <1>5 DEF RefusalEnds, IsReadyForKbdFrame, IsReadyForAuxFrame
<1>7. QED
  BY <1>2, <1>6 DEF NoStall

\* waiting_bytes_from_kbd and waiting_bytes_from_aux count what the guest has
\* not read, however reads, flushes and frames nest: for scancodes, frames and
\* buffers of any size and any guest that leaves the controller's memory alone
\* (I8042_IsReadyForKbdFrame, I8042_IsReadyForAuxFrame, read_data_port_byte).
THEOREM CountersExact ==
  ASSUME "ReadRam" \notin Commands
  PROVE  Spec => []WaitingExact
<1>1. Init => Base(s)
  BY Start
<1>2. Base(s) /\ [Next]_s => Base(s)'
  <2>1. ASSUME Base(s), [Next]_s PROVE Base(s')
    BY <2>1, Step DEF Keeps
  <2>2. QED
    BY <2>1
<1>3. Base(s) => WaitingExact
  BY BaseExact
<1>4. QED
  BY <1>1, <1>2, <1>3, PTL DEF Spec

\* Every change of readiness is told to the device that waits for it, and the
\* controller refuses a device only while the guest has something to read: for
\* guests that also send the keyboard no parameter that it did not ask for
\* (flush_buffer, write_data_port, write_command_port, read_data_port_byte).
THEOREM NobodyStalls ==
  ASSUME "ReadRam" \notin Commands, Unsolicited = FALSE
  PROVE  Spec => []NoStall
<1>1. Init => Base(s) /\ Lively(s)
  BY Start
<1>2. Base(s) /\ Lively(s) /\ [Next]_s => (Base(s) /\ Lively(s))'
  <2>1. ASSUME Base(s), Lively(s), [Next]_s PROVE Base(s') /\ Lively(s')
    BY <2>1, Step DEF Keeps
  <2>2. QED
    BY <2>1
<1>3. Base(s) /\ Lively(s) => NoStall
  BY LivelyNoStall
<1>4. QED
  BY <1>1, <1>2, <1>3, PTL DEF Spec

\* After a command with an answer the guest reads the answer first: the
\* devices that the flush made ready are told after it is in the buffer
\* (execute_command and write_command_port).
THEOREM AnswerComesFirst ==
  ASSUME "ReadRam" \notin Commands
  PROVE  Spec => AnswerFirst
<1>1. Init => Base(s)
  BY Start
<1>2. Base(s) /\ [Next]_s => Base(s)'
  <2>1. ASSUME Base(s), [Next]_s PROVE Base(s')
    BY <2>1, Step DEF Keeps
  <2>2. QED
    BY <2>1
<1>3. Base(s) /\ [Next]_s =>
        [\A cmd \in Answered \cap Commands : WriteCommand(cmd) => First(s') = "ctl"]_s
  <2>1. ASSUME Base(s), NEW cmd \in Answered \cap Commands, WriteCommand(cmd)
        PROVE  First(s') = "ctl"
    <3>1. cmd \in Commands /\ cmd # "ReadRam" /\ cmd \in Answered
      BY DEF Answered
    <3>2. QED
      BY <2>1, <3>1, CommandStep
  <2>2. QED
    BY <2>1
<1>4. QED
  BY <1>1, <1>2, <1>3, PTL DEF Spec, AnswerFirst
=============================================================================
