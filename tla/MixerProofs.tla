----------------------------- MODULE MixerProofs -----------------------------
(***************************************************************************)
(* The sound output with any cards, any machines and queues of any size:   *)
(* the mixer thread is never in a channel that is gone, a card that plays  *)
(* is cut short for a lock alone, and the threads never wait for each      *)
(* other in a circle.                                                      *)
(*                                                                         *)
(* The main thread carries out its operations step by step, so an          *)
(* invariant has to speak of the steps that are still to come.  It does    *)
(* this by what the main thread knows before each of them: whether it has  *)
(* the mutex, whether the queues are stopped, which card is without its    *)
(* pointer.  A step asks for some knowledge and changes it, an operation   *)
(* leads from one knowledge to another, and what the main thread knows is  *)
(* true at all times.                                                      *)
(***************************************************************************)
EXTENDS Mixer, SequenceTheorems, TLAPS

Knowledge ==
  [depth : 0 .. 3,             \* how often the main thread has the mutex
   stopped : BOOLEAN,          \* the queues were stopped and not started again
   doomed : SUBSET Cards,      \* without pointer, and perhaps enabled
   off : SUBSET Channels,      \* disabled
   gone : SUBSET Channels,     \* erased
   mute : BOOLEAN,             \* the frame FIFO is stopped
   bare : BOOLEAN,             \* no card is left
   first : BOOLEAN]            \* of an operation of the running machine

\* What a step asks for: F is what the machine has.
Allowed(F, s, g) ==
  /\ s.op # "acquire" => g.depth > 0 \/ ~ g.stopped
  /\ s.op = "acquire" => g.depth < 3 /\ (g.depth > 0 \/ g.stopped)
  /\ s.op = "start" => g.doomed = {}
  /\ s.op = "release" => /\ g.depth > 0 /\ g.doomed = {}
                         /\ g.depth = 1 =>
                              ~ g.stopped /\ (g.mute => Synth \in g.gone)
  /\ s.op = "link" => s.on \in Cards \cap F /\ ~ g.stopped /\ g.doomed = {}
  /\ s.op = "unlink" => s.on \in Cards /\ (ResetFirst = {} => g.depth > 0)
  /\ s.op = "erase" => g.depth > 0
  /\ s.op = "register" => s.on \in Cards \cap F /\ g.depth > 0
  /\ s.op = "halt" => s.on \in g.off \cap Cards
  /\ s.op = "stopFifo" => s.on = Synth /\ g.depth > 0
  /\ s.op = "joinRenderer" => g.mute
  /\ s.op = "joinMixer" => g.bare /\ g.depth = 0
  /\ s.op \in {"send", "ask", "take"} =>
       g.first /\ g.depth = 0 /\ g.doomed = {} /\ ~ g.mute
  /\ s.op = "send" => s.n <= MaxLead
  /\ s.op \in {"ask", "take"} => "capture" \in F
  /\ s.op = "take" => s.n \in 1 .. TickFrames

After(s, g) ==
  [depth |-> IF s.op = "acquire" THEN g.depth + 1
             ELSE IF s.op = "release" THEN g.depth - 1 ELSE g.depth,
   stopped |-> s.op = "stop" \/ (s.op # "start" /\ g.stopped),
   doomed |-> IF s.op = "unlink" THEN g.doomed \cup {s.on}
              ELSE IF s.op = "disable" THEN g.doomed \ {s.on} ELSE g.doomed,
   off |-> IF s.op = "disable" THEN g.off \cup {s.on} ELSE g.off,
   gone |-> IF s.op = "erase" THEN g.gone \cup {s.on}
            ELSE IF s.op = "register" THEN g.gone \ {s.on} ELSE g.gone,
   mute |-> g.mute \/ s.op = "stopFifo",
   bare |-> g.bare /\ s.op # "link",
   first |-> FALSE]

\* l is the knowledge before each step of p, and after the last one.
Follows(F, p, l) ==
  \A i \in 1 .. Len(p) : Allowed(F, p[i], l[i]) /\ l[i + 1] = After(p[i], l[i])

Leads(F, p, g, h) ==
  /\ p \in Seq(Steps)
  /\ \E l \in [1 .. Len(p) + 1 -> Knowledge] :
       l[1] = g /\ l[Len(p) + 1] = h /\ Follows(F, p, l)

-----------------------------------------------------------------------------
(* Lemmas: operations *)

\* A step that may be taken leaves knowledge.
LEMMA AfterType ==
  ASSUME NEW F, NEW s \in Steps, NEW g \in Knowledge, Allowed(F, s, g)
  PROVE  After(s, g) \in Knowledge
<1>1. g.depth \in 0 .. 3 /\ g.doomed \subseteq Cards /\ g.off \subseteq Channels
      /\ g.gone \subseteq Channels /\ s.on \in Channels
  BY DEF Knowledge, Steps
<1>2. s.op = "unlink" => s.on \in Cards
  BY DEF Allowed
<1>3. (s.op = "acquire" => g.depth < 3) /\ (s.op = "release" => g.depth > 0)
  BY DEF Allowed
<1>4. After(s, g).depth \in 0 .. 3
  BY <1>1, <1>3 DEF After
<1>5. /\ After(s, g).doomed \subseteq Cards /\ After(s, g).off \subseteq Channels
      /\ After(s, g).gone \subseteq Channels
  BY <1>1, <1>2 DEF After
<1>6. QED
  BY <1>4, <1>5 DEF After, Knowledge

\* Nothing leads nowhere.
LEMMA LeadsNothing ==
  ASSUME NEW F, NEW g \in Knowledge, NEW h
  PROVE  Leads(F, <<>>, g, h) <=> h = g
<1>1. <<>> \in Seq(Steps) /\ Len(<<>>) = 0
  OBVIOUS
<1>2. Leads(F, <<>>, g, h) => h = g
  BY <1>1 DEF Leads
<1>3. ASSUME h = g PROVE Leads(F, <<>>, g, h)
  <2> DEFINE l == [i \in 1 .. 0 + 1 |-> g]
  <2>1. l \in [1 .. 0 + 1 -> Knowledge] /\ l[1] = g /\ l[0 + 1] = h
    BY <1>3
  <2>2. Follows(F, <<>>, l)
    BY <1>1 DEF Follows
  <2>3. QED
    BY <1>1, <2>1, <2>2 DEF Leads
<1>4. QED
  BY <1>2, <1>3

\* one step
LEMMA LeadsOne ==
  ASSUME NEW F, NEW s \in Steps, NEW g \in Knowledge, Allowed(F, s, g)
  PROVE  Leads(F, <<s>>, g, After(s, g))
<1> DEFINE k == After(s, g)
           l == [i \in 1 .. 1 + 1 |-> IF i = 1 THEN g ELSE k]
<1>1. k \in Knowledge
  BY AfterType
<1>2. <<s>> \in Seq(Steps) /\ Len(<<s>>) = 1 /\ <<s>>[1] = s
  OBVIOUS
<1> HIDE DEF k
<1>3. l \in [1 .. 1 + 1 -> Knowledge] /\ l[1] = g /\ l[1 + 1] = k
  BY <1>1
<1>4. Follows(F, <<s>>, l)
  <2>1. ASSUME NEW i \in 1 .. Len(<<s>>)
        PROVE  Allowed(F, <<s>>[i], l[i]) /\ l[i + 1] = After(<<s>>[i], l[i])
    <3>1. i = 1
      BY <1>2
    <3>2. QED
      BY <1>2, <1>3, <3>1 DEF k
  <2>2. QED
    BY <2>1 DEF Follows
<1>5. QED
  BY <1>2, <1>3, <1>4 DEF Leads, k

\* one operation after another
LEMMA LeadsThen ==
  ASSUME NEW F, NEW p, NEW q, NEW g, NEW h, NEW k,
         Leads(F, p, g, h), Leads(F, q, h, k)
  PROVE  Leads(F, p \o q, g, k)
<1> DEFINE m == Len(p)
           n == Len(q)
<1>1. p \in Seq(Steps) /\ q \in Seq(Steps) /\ m \in Nat /\ n \in Nat
  BY LenProperties DEF Leads
<1>2. PICK a \in [1 .. m + 1 -> Knowledge] :
        a[1] = g /\ a[m + 1] = h /\ Follows(F, p, a)
  BY DEF Leads
<1>3. PICK b \in [1 .. n + 1 -> Knowledge] :
        b[1] = h /\ b[n + 1] = k /\ Follows(F, q, b)
  BY DEF Leads
<1>4. /\ p \o q \in Seq(Steps) /\ Len(p \o q) = m + n
      /\ \A i \in 1 .. m : (p \o q)[i] = p[i]
      /\ \A i \in 1 .. n : (p \o q)[m + i] = q[i]
  BY <1>1, ConcatProperties
<1> DEFINE l == [i \in 1 .. (m + n) + 1 |-> IF i <= m THEN a[i] ELSE b[i - m]]
           r == p \o q
<1> HIDE DEF m, n, r
<1>5. l \in [1 .. (m + n) + 1 -> Knowledge]
  <2>1. ASSUME NEW i \in 1 .. (m + n) + 1 PROVE l[i] \in Knowledge
    BY <1>1, <1>2, <1>3
  <2>2. QED
    BY <2>1
<1>6. l[1] = g /\ l[(m + n) + 1] = k
  BY <1>1, <1>2, <1>3
<1>7. ASSUME NEW i \in 1 .. m + n
      PROVE  Allowed(F, r[i], l[i]) /\ l[i + 1] = After(r[i], l[i])
  <2>1. CASE i <= m
    <3>1. i \in 1 .. m /\ l[i] = a[i]
      BY <1>1, <1>7, <2>1
    <3>2. l[i + 1] = a[i + 1]
      BY <1>1, <1>2, <1>3, <1>7, <2>1
    <3>3. Allowed(F, p[i], a[i]) /\ a[i + 1] = After(p[i], a[i])
      BY <1>2, <3>1 DEF Follows, m
    <3>4. r[i] = p[i]
      BY <1>4, <3>1 DEF r
    <3>5. QED
      BY <3>1, <3>2, <3>3, <3>4
  <2>2. CASE ~ i <= m
    <3> DEFINE j == i - m
    <3>1. j \in 1 .. n /\ i = m + j /\ i \in 1 .. (m + n) + 1 /\ i + 1 \in 1 .. (m + n) + 1
          /\ ~ (i + 1 <= m) /\ (i + 1) - m = j + 1
      BY <1>1, <1>7, <2>2
    <3>2. l[i] = b[j] /\ l[i + 1] = b[j + 1]
      BY <2>2, <3>1
    <3>3. Allowed(F, q[j], b[j]) /\ b[j + 1] = After(q[j], b[j])
      BY <1>3, <3>1 DEF Follows, n
    <3>4. r[i] = q[j]
      BY <1>4, <3>1 DEF r
    <3>5. QED
      BY <3>2, <3>3, <3>4
  <2>3. QED
    BY <2>1, <2>2
<1>8. Follows(F, r, l)
  BY <1>4, <1>7 DEF Follows, r
<1>9. QED
  BY <1>4, <1>5, <1>6, <1>8 DEF Leads, r

\* the rest of an operation after its first step
LEMMA LeadsHead ==
  ASSUME NEW F, NEW p, NEW g, NEW h, Leads(F, p, g, h), p # <<>>
  PROVE  /\ p \in Seq(Steps) /\ Head(p) \in Steps /\ Tail(p) \in Seq(Steps)
         /\ g \in Knowledge /\ After(Head(p), g) \in Knowledge
         /\ Allowed(F, Head(p), g)
         /\ Leads(F, Tail(p), After(Head(p), g), h)
<1> DEFINE n == Len(p)
           t == Tail(p)
<1>1. p \in Seq(Steps) /\ n \in Nat /\ n # 0
  BY LenProperties, EmptySeq DEF Leads
<1>2. Head(p) = p[1] /\ Head(p) \in Steps /\ t \in Seq(Steps) /\ Len(t) = n - 1
      /\ \A i \in 1 .. n - 1 : t[i] = p[i + 1]
  BY <1>1, HeadTailProperties
<1>3. PICK l \in [1 .. n + 1 -> Knowledge] :
        l[1] = g /\ l[n + 1] = h /\ Follows(F, p, l)
  BY DEF Leads
<1> DEFINE k == [i \in 1 .. (n - 1) + 1 |-> l[i + 1]]
<1> HIDE DEF n, t
<1>4. g \in Knowledge /\ Allowed(F, p[1], g) /\ l[2] = After(p[1], g) /\ l[2] \in Knowledge
  <2>1. 1 \in 1 .. n /\ 2 \in 1 .. n + 1 /\ 1 \in 1 .. n + 1 /\ 1 + 1 = 2
    BY <1>1
  <2>2. Allowed(F, p[1], l[1]) /\ l[1 + 1] = After(p[1], l[1])
    BY <1>3, <2>1 DEF Follows, n
  <2>3. QED
    BY <1>3, <2>1, <2>2
<1>5. k \in [1 .. (n - 1) + 1 -> Knowledge] /\ k[1] = l[2] /\ k[(n - 1) + 1] = h
  BY <1>1, <1>3
<1>6. ASSUME NEW i \in 1 .. n - 1
      PROVE  Allowed(F, t[i], k[i]) /\ k[i + 1] = After(t[i], k[i])
  <2>1. i + 1 \in 1 .. n /\ i \in 1 .. (n - 1) + 1 /\ i + 1 \in 1 .. (n - 1) + 1
    BY <1>1, <1>6
  <2>2. Allowed(F, p[i + 1], l[i + 1]) /\ l[(i + 1) + 1] = After(p[i + 1], l[i + 1])
    BY <1>3, <2>1 DEF Follows, n
  <2>3. QED
    BY <1>2, <1>6, <2>1, <2>2
<1>7. Follows(F, t, k)
  BY <1>2, <1>6 DEF Follows
<1>8. Leads(F, t, l[2], h)
  BY <1>2, <1>5, <1>7 DEF Leads
<1>9. QED
  BY <1>1, <1>2, <1>4, <1>8 DEF t

-----------------------------------------------------------------------------
(* Lemmas: what each operation leads to *)

\* d locks, queues stopped or not, doomed, off, gone, mute, bare
Know(d, st, dm, of, gn, mu, ba) ==
  [depth |-> d, stopped |-> st, doomed |-> dm, off |-> of, gone |-> gn,
   mute |-> mu, bare |-> ba, first |-> FALSE]

KnowTypes(d, st, dm, of, gn, mu, ba) ==
  /\ d \in 0 .. 3 /\ st \in BOOLEAN /\ mu \in BOOLEAN /\ ba \in BOOLEAN
  /\ dm \subseteq Cards /\ of \subseteq Channels /\ gn \subseteq Channels

LEMMA KnowType ==
  ASSUME NEW d, NEW st, NEW dm, NEW of, NEW gn, NEW mu, NEW ba,
         KnowTypes(d, st, dm, of, gn, mu, ba)
  PROVE  Know(d, st, dm, of, gn, mu, ba) \in Knowledge
BY DEF KnowTypes, Know, Knowledge

LEMMA LeadsTo ==
  ASSUME NEW F, NEW s \in Steps, NEW g \in Knowledge, NEW h,
         Allowed(F, s, g), h = After(s, g)
  PROVE  Leads(F, <<s>>, g, h)
BY LeadsOne

LEMMA LockLeads ==
  ASSUME NEW F, NEW d, NEW st, NEW dm, NEW of, NEW gn, NEW mu, NEW ba,
         KnowTypes(d, st, dm, of, gn, mu, ba), d < 3, d > 0 \/ ~ st
  PROVE  Leads(F, LockMixerThread, Know(d, st, dm, of, gn, mu, ba),
               Know(d + 1, TRUE, dm, of, gn, mu, ba))
<1> DEFINE g == Know(d, st, dm, of, gn, mu, ba)
           k == Know(d, TRUE, dm, of, gn, mu, ba)
           h == Know(d + 1, TRUE, dm, of, gn, mu, ba)
           s == [op |-> "stop", on |-> Synth, n |-> 0]
           t == [op |-> "acquire", on |-> Synth, n |-> 0]
<1>1. s \in Steps /\ t \in Steps
  BY DEF Steps, Channels
<1>2. g \in Knowledge /\ k \in Knowledge
  BY KnowType DEF KnowTypes
<1>3. Allowed(F, s, g) /\ k = After(s, g)
  BY DEF KnowTypes, Know, Allowed, After
<1>4. Allowed(F, t, k) /\ h = After(t, k)
  BY DEF KnowTypes, Know, Allowed, After
<1> HIDE DEF g, k, h, s, t
<1>5. Leads(F, <<s>>, g, k) /\ Leads(F, <<t>>, k, h)
  BY <1>1, <1>2, <1>3, <1>4, LeadsTo
<1>6. Leads(F, <<s>> \o <<t>>, g, h)
  BY <1>5, LeadsThen
<1>7. QED
  BY <1>6 DEF LockMixerThread, Do, g, h, s, t

LEMMA UnlockLeads ==
  ASSUME NEW F, NEW d, NEW st, NEW of, NEW gn, NEW mu, NEW ba,
         KnowTypes(d, st, {}, of, gn, mu, ba), d > 0,
         d = 1 => (mu => Synth \in gn)
  PROVE  Leads(F, UnlockMixerThread, Know(d, st, {}, of, gn, mu, ba),
               Know(d - 1, FALSE, {}, of, gn, mu, ba))
<1> DEFINE g == Know(d, st, {}, of, gn, mu, ba)
           k == Know(d, FALSE, {}, of, gn, mu, ba)
           h == Know(d - 1, FALSE, {}, of, gn, mu, ba)
           s == [op |-> "start", on |-> Synth, n |-> 0]
           t == [op |-> "release", on |-> Synth, n |-> 0]
<1>1. s \in Steps /\ t \in Steps
  BY DEF Steps, Channels
<1>2. g \in Knowledge /\ k \in Knowledge
  BY KnowType DEF KnowTypes
<1>3. Allowed(F, s, g) /\ k = After(s, g)
  BY DEF KnowTypes, Know, Allowed, After
<1>4. Allowed(F, t, k) /\ h = After(t, k)
  BY DEF KnowTypes, Know, Allowed, After
<1> HIDE DEF g, k, h, s, t
<1>5. Leads(F, <<s>>, g, k) /\ Leads(F, <<t>>, k, h)
  BY <1>1, <1>2, <1>3, <1>4, LeadsTo
<1>6. Leads(F, <<s>> \o <<t>>, g, h)
  BY <1>5, LeadsThen
<1>7. QED
  BY <1>6 DEF UnlockMixerThread, Do, g, h, s, t

\* the same, with the result named
LEMMA LockTo ==
  ASSUME NEW F, NEW d, NEW st, NEW dm, NEW of, NEW gn, NEW mu, NEW ba, NEW e,
         KnowTypes(d, st, dm, of, gn, mu, ba), d < 3, d > 0 \/ ~ st, e = d + 1
  PROVE  Leads(F, LockMixerThread, Know(d, st, dm, of, gn, mu, ba),
               Know(e, TRUE, dm, of, gn, mu, ba))
BY LockLeads

LEMMA UnlockTo ==
  ASSUME NEW F, NEW d, NEW st, NEW of, NEW gn, NEW mu, NEW ba, NEW e,
         KnowTypes(d, st, {}, of, gn, mu, ba), d > 0,
         d = 1 => (mu => Synth \in gn), e = d - 1
  PROVE  Leads(F, UnlockMixerThread, Know(d, st, {}, of, gn, mu, ba),
               Know(e, FALSE, {}, of, gn, mu, ba))
BY UnlockLeads

LEMMA DeregisterLeads ==
  ASSUME NEW F, NEW c \in Channels, NEW d, NEW st, NEW of, NEW gn, NEW mu, NEW ba,
         KnowTypes(d, st, {}, of, gn, mu, ba), d \in {1, 2}
  PROVE  Leads(F, DeregisterChannel(c), Know(d, st, {}, of, gn, mu, ba),
               Know(d, FALSE, {}, of, gn \cup {c}, mu, ba))
<1> DEFINE g == Know(d, st, {}, of, gn, mu, ba)
           k == Know(d + 1, TRUE, {}, of, gn, mu, ba)
           m == Know(d + 1, TRUE, {}, of, gn \cup {c}, mu, ba)
           h == Know(d, FALSE, {}, of, gn \cup {c}, mu, ba)
           s == [op |-> "erase", on |-> c, n |-> 0]
<1>1. s \in Steps
  BY DEF Steps
<1>2. /\ KnowTypes(d + 1, TRUE, {}, of, gn, mu, ba)
      /\ KnowTypes(d + 1, TRUE, {}, of, gn \cup {c}, mu, ba) /\ d < 3 /\ d > 0
  BY DEF KnowTypes
<1>3. Leads(F, LockMixerThread, g, k)
  BY <1>2, LockLeads
<1>4. Allowed(F, s, k) /\ m = After(s, k)
  <2>1. Allowed(F, s, k)
    BY <1>2 DEF KnowTypes, Know, Allowed
  <2>2. m = After(s, k)
    BY <1>2 DEF KnowTypes, Know, After
  <2>3. QED
    BY <2>1, <2>2
<1>5. Leads(F, <<s>>, k, m)
  BY <1>1, <1>2, <1>4, KnowType, LeadsTo
<1>6. Leads(F, UnlockMixerThread, m, h)
  <2>1. (d + 1) - 1 = d /\ d + 1 > 0 /\ d + 1 # 1
    BY <1>2
  <2>2. QED
    BY <1>2, <2>1, UnlockLeads
<1> HIDE DEF g, k, m, h, s
<1>7. Leads(F, LockMixerThread \o <<s>>, g, m)
  BY <1>3, <1>5, LeadsThen
<1>8. Leads(F, (LockMixerThread \o <<s>>) \o UnlockMixerThread, g, h)
  BY <1>6, <1>7, LeadsThen
<1>9. QED
  BY <1>8 DEF DeregisterChannel, DoOn, g, h, s

LEMMA DestructorLeads ==
  ASSUME NEW F, NEW c \in Channels, NEW d, NEW st, NEW dm, NEW of, NEW gn, NEW ba,
         KnowTypes(d, st, dm, of, gn, FALSE, ba), d \in {0, 1}, d > 0 \/ ~ st,
         dm \subseteq {c}
  PROVE  Leads(F, Destructor(c), Know(d, st, dm, of, gn, FALSE, ba),
               Know(d, FALSE, {}, of \cup {c}, gn \cup {c}, FALSE, ba))
<1> DEFINE g == Know(d, st, dm, of, gn, FALSE, ba)
           k == Know(d + 1, TRUE, dm, of, gn, FALSE, ba)
           m == Know(d + 1, TRUE, {}, of \cup {c}, gn, FALSE, ba)
           n == Know(d + 1, FALSE, {}, of \cup {c}, gn \cup {c}, FALSE, ba)
           h == Know(d, FALSE, {}, of \cup {c}, gn \cup {c}, FALSE, ba)
           s == [op |-> "disable", on |-> c, n |-> 0]
<1>1. s \in Steps
  BY DEF Steps
<1>2. /\ KnowTypes(d + 1, TRUE, dm, of, gn, FALSE, ba)
      /\ KnowTypes(d + 1, TRUE, {}, of \cup {c}, gn, FALSE, ba)
      /\ KnowTypes(d + 1, FALSE, {}, of \cup {c}, gn \cup {c}, FALSE, ba)
      /\ d < 3 /\ d + 1 \in {1, 2} /\ d + 1 > 0 /\ (d + 1) - 1 = d
  BY DEF KnowTypes
<1>3. Leads(F, LockMixerThread, g, k)
  BY <1>2, LockLeads
<1>4. Allowed(F, s, k) /\ m = After(s, k)
  <2>1. dm \ {c} = {}
    OBVIOUS
  <2>2. QED
    BY <1>2, <2>1 DEF KnowTypes, Know, Allowed, After
<1>5. Leads(F, <<s>>, k, m)
  BY <1>1, <1>2, <1>4, KnowType, LeadsTo
<1>6. Leads(F, DeregisterChannel(c), m, n)
  BY <1>2, DeregisterLeads
<1>7. Leads(F, UnlockMixerThread, n, h)
  <2> DEFINE e == d + 1
             of2 == of \cup {c}
             gn2 == gn \cup {c}
  <2>1. KnowTypes(e, FALSE, {}, of2, gn2, FALSE, ba) /\ e > 0 /\ e - 1 = d
    BY <1>2
  <2> HIDE DEF e, of2, gn2
  <2>2. Leads(F, UnlockMixerThread, Know(e, FALSE, {}, of2, gn2, FALSE, ba),
              Know(e - 1, FALSE, {}, of2, gn2, FALSE, ba))
    BY <2>1, UnlockLeads
  <2>3. QED
    BY <2>1, <2>2 DEF e, of2, gn2
<1> HIDE DEF g, k, m, n, h, s
<1>8. Leads(F, LockMixerThread \o <<s>>, g, m)
  BY <1>3, <1>5, LeadsThen
<1>9. Leads(F, (LockMixerThread \o <<s>>) \o DeregisterChannel(c), g, n)
  BY <1>6, <1>8, LeadsThen
<1>10. Leads(F, ((LockMixerThread \o <<s>>) \o DeregisterChannel(c)) \o UnlockMixerThread, g, h)
  BY <1>7, <1>9, LeadsThen
<1>11. QED
  BY <1>10 DEF Destructor, DoOn, g, h, s

LEMMA DestructorTo ==
  ASSUME NEW F, NEW c \in Channels, NEW d, NEW st, NEW dm, NEW ba,
         KnowTypes(d, st, dm, {}, {}, FALSE, ba), d \in {0, 1}, d > 0 \/ ~ st,
         dm \subseteq {c}
  PROVE  Leads(F, Destructor(c), Know(d, st, dm, {}, {}, FALSE, ba),
               Know(d, FALSE, {}, {c}, {c}, FALSE, ba))
<1> DEFINE no == {}
<1>1. no \cup {c} = {c}
  OBVIOUS
<1>2. KnowTypes(d, st, dm, no, no, FALSE, ba)
  OBVIOUS
<1> HIDE DEF no
<1>3. Leads(F, Destructor(c), Know(d, st, dm, no, no, FALSE, ba),
            Know(d, FALSE, {}, no \cup {c}, no \cup {c}, FALSE, ba))
  BY <1>2, DestructorLeads
<1>4. QED
  BY <1>1, <1>3 DEF no

\* before an operation, and when it may end
Fresh(ba) == Know(0, FALSE, {}, {}, {}, FALSE, ba)

Final(h) ==
  h.depth = 0 /\ ~ h.stopped /\ h.doomed = {} /\ (h.mute => Synth \in h.gone)

Whole(F, p, g) == \E h \in Knowledge : Leads(F, p, g, h) /\ Final(h)

LEMMA FreshTypes ==
  ASSUME NEW ba \in BOOLEAN
  PROVE  KnowTypes(0, FALSE, {}, {}, {}, FALSE, ba) /\ Fresh(ba) \in Knowledge
<1>1. KnowTypes(0, FALSE, {}, {}, {}, FALSE, ba)
  BY DEF KnowTypes
<1>2. QED
  BY <1>1, KnowType DEF Fresh

\* the depths of the lock
LEMMA Numbers ==
  /\ 1 = 0 + 1 /\ 2 = 1 + 1 /\ 3 = 2 + 1 /\ 0 = 1 - 1 /\ 1 = 2 - 1 /\ 2 = 3 - 1
  /\ 0 < 3 /\ 1 < 3 /\ 2 < 3 /\ 1 > 0 /\ 2 > 0 /\ 3 > 0 /\ 2 # 1 /\ 3 # 1
  /\ 0 \in {0, 1} /\ 1 \in {0, 1} /\ 1 \in {1, 2} /\ 2 \in {1, 2}
OBVIOUS

LEMMA DestroyLeads ==
  ASSUME NEW F, NEW c \in Cards, NEW ba \in BOOLEAN
  PROVE  Whole(F, Destroy(c), Fresh(ba))
<1> DEFINE h == Know(0, FALSE, {}, {c}, {c}, FALSE, ba)
           s == [op |-> "unlink", on |-> c, n |-> 0]
<1>1. s \in Steps /\ c \in Channels
  BY DEF Steps, Channels
<1>2. KnowTypes(0, FALSE, {}, {c}, {c}, FALSE, ba)
  BY <1>1 DEF KnowTypes
<1>3. h \in Knowledge /\ Final(h)
  BY <1>2, KnowType DEF Know, Final
<1>4. {} \cup {c} = {c}
  OBVIOUS
<1>5. CASE c \in ResetFirst
  <2> DEFINE k == Know(0, FALSE, {c}, {}, {}, FALSE, ba)
  <2>1. KnowTypes(0, FALSE, {c}, {}, {}, FALSE, ba)
    BY DEF KnowTypes
  <2>2. Allowed(F, s, Fresh(ba)) /\ k = After(s, Fresh(ba))
    BY <1>4, <1>5 DEF Fresh, Know, Allowed, After
  <2>3. Leads(F, <<s>>, Fresh(ba), k)
    BY <1>1, <2>2, FreshTypes, LeadsTo
  <2>4. Leads(F, Destructor(c), k, h)
    BY <1>1, <2>1, DestructorTo
  <2> HIDE DEF k, h, s
  <2>5. Leads(F, <<s>> \o Destructor(c), Fresh(ba), h)
    BY <2>3, <2>4, LeadsThen
  <2>6. QED
    BY <1>3, <1>5, <2>5 DEF Whole, Destroy, DoOn, s
<1>6. CASE c \notin ResetFirst
  <2> DEFINE k == Know(1, TRUE, {}, {}, {}, FALSE, ba)
             m == Know(1, TRUE, {c}, {}, {}, FALSE, ba)
             n == Know(1, FALSE, {}, {c}, {c}, FALSE, ba)
  <2>1. /\ KnowTypes(1, TRUE, {}, {}, {}, FALSE, ba) /\ KnowTypes(1, TRUE, {c}, {}, {}, FALSE, ba)
        /\ KnowTypes(1, FALSE, {}, {c}, {c}, FALSE, ba)
    BY <1>1 DEF KnowTypes
  <2>2. Leads(F, LockMixerThread, Fresh(ba), k)
    BY FreshTypes, LockTo, Numbers DEF Fresh
  <2>3. Allowed(F, s, k) /\ m = After(s, k)
    <3>1. Allowed(F, s, k)
      BY DEF Know, Allowed
    <3>2. m = After(s, k)
      BY <1>4 DEF Know, After
    <3>3. QED
      BY <3>1, <3>2
  <2>4. Leads(F, <<s>>, k, m)
    BY <1>1, <2>1, <2>3, KnowType, LeadsTo
  <2>5. Leads(F, Destructor(c), m, n)
    BY <1>1, <2>1, DestructorTo, Numbers
  <2>6. Leads(F, UnlockMixerThread, n, h)
    BY <2>1, UnlockTo, Numbers
  <2> HIDE DEF k, m, n, h, s
  <2>7. Leads(F, LockMixerThread \o <<s>>, Fresh(ba), m)
    BY <2>2, <2>4, LeadsThen
  <2>8. Leads(F, (LockMixerThread \o <<s>>) \o Destructor(c), Fresh(ba), n)
    BY <2>5, <2>7, LeadsThen
  <2>9. Leads(F, ((LockMixerThread \o <<s>>) \o Destructor(c)) \o UnlockMixerThread, Fresh(ba), h)
    BY <2>6, <2>8, LeadsThen
  <2>10. QED
    BY <1>3, <1>6, <2>9 DEF Whole, Destroy, DoOn, s
<1>7. QED
  BY <1>5, <1>6

LEMMA CreateLeads ==
  ASSUME NEW F, NEW c \in Cards \cap F, NEW ba \in BOOLEAN
  PROVE  Whole(F, Create(c), Fresh(ba))
<1> DEFINE k1 == Know(1, TRUE, {}, {}, {}, FALSE, ba)
           k2 == Know(2, TRUE, {}, {}, {}, FALSE, ba)
           k3 == Know(1, FALSE, {}, {}, {}, FALSE, ba)
           k4 == Know(0, FALSE, {}, {}, {}, FALSE, ba)
           h == Know(0, FALSE, {}, {}, {}, FALSE, FALSE)
           s == [op |-> "register", on |-> c, n |-> 0]
           t == [op |-> "link", on |-> c, n |-> 0]
<1>1. s \in Steps /\ t \in Steps
  BY DEF Steps, Channels
<1>2. /\ KnowTypes(1, TRUE, {}, {}, {}, FALSE, ba) /\ KnowTypes(2, TRUE, {}, {}, {}, FALSE, ba)
      /\ KnowTypes(1, FALSE, {}, {}, {}, FALSE, ba) /\ KnowTypes(0, FALSE, {}, {}, {}, FALSE, ba)
      /\ KnowTypes(0, FALSE, {}, {}, {}, FALSE, FALSE)
  BY DEF KnowTypes
<1>3. h \in Knowledge /\ k4 \in Knowledge /\ k2 \in Knowledge
  BY <1>2, KnowType
<1>4. Final(h)
  BY DEF Final, Know
<1>5. Leads(F, LockMixerThread, Fresh(ba), k1)
  BY FreshTypes, LockTo, Numbers DEF Fresh
<1>6. Leads(F, LockMixerThread, k1, k2)
  BY <1>2, LockTo, Numbers
<1>7. Leads(F, <<s>>, k2, k2)
  <2>1. Allowed(F, s, k2)
    BY DEF Know, Allowed
  <2>2. {} \ {c} = {}
    OBVIOUS
  <2>3. k2 = After(s, k2)
    BY <2>2 DEF Know, After
  <2>4. QED
    BY <1>1, <1>3, <2>1, <2>3, LeadsTo
<1>8. Leads(F, UnlockMixerThread, k2, k3)
  BY <1>2, UnlockTo, Numbers
<1>9. Leads(F, UnlockMixerThread, k3, k4)
  BY <1>2, UnlockTo, Numbers
<1>10. Leads(F, <<t>>, k4, h)
  <2>1. Allowed(F, t, k4)
    BY DEF Know, Allowed
  <2>2. h = After(t, k4)
    BY DEF Know, After
  <2>3. QED
    BY <1>1, <1>3, <2>1, <2>2, LeadsTo
<1> HIDE DEF k1, k2, k3, k4, h, s, t
<1>11. Leads(F, LockMixerThread \o LockMixerThread, Fresh(ba), k2)
  BY <1>5, <1>6, LeadsThen
<1>12. Leads(F, (LockMixerThread \o LockMixerThread) \o <<s>>, Fresh(ba), k2)
  BY <1>7, <1>11, LeadsThen
<1>13. Leads(F, ((LockMixerThread \o LockMixerThread) \o <<s>>) \o UnlockMixerThread, Fresh(ba), k3)
  BY <1>8, <1>12, LeadsThen
<1>14. Leads(F, (((LockMixerThread \o LockMixerThread) \o <<s>>) \o UnlockMixerThread)
                \o UnlockMixerThread, Fresh(ba), k4)
  BY <1>9, <1>13, LeadsThen
<1>15. Leads(F, ((((LockMixerThread \o LockMixerThread) \o <<s>>) \o UnlockMixerThread)
                 \o UnlockMixerThread) \o <<t>>, Fresh(ba), h)
  BY <1>10, <1>14, LeadsThen
<1>16. QED
  BY <1>3, <1>4, <1>15 DEF Whole, Create, DoOn, s, t

LEMMA DestroySynthLeads ==
  ASSUME NEW F, NEW ba \in BOOLEAN
  PROVE  Whole(F, DestroySynth, Fresh(ba))
<1> DEFINE y == {Synth}
           k1 == Know(1, TRUE, {}, {}, {}, FALSE, ba)
           k2 == Know(1, TRUE, {}, y, {}, FALSE, ba)
           k3 == Know(1, TRUE, {}, y, {}, TRUE, ba)
           k4 == Know(1, FALSE, {}, y, y, TRUE, ba)
           h == Know(0, FALSE, {}, y, y, TRUE, ba)
           s(op) == [op |-> op, on |-> Synth, n |-> 0]
<1>1. \A op \in {"disable", "stopWork", "stopFifo", "joinRenderer"} : s(op) \in Steps
  BY DEF Steps, Channels
<1>2. Synth \in Channels /\ y \subseteq Channels /\ Synth \in y /\ {} \cup {Synth} = y
  BY DEF Channels
<1>3. /\ KnowTypes(1, TRUE, {}, {}, {}, FALSE, ba) /\ KnowTypes(1, TRUE, {}, y, {}, FALSE, ba)
      /\ KnowTypes(1, TRUE, {}, y, {}, TRUE, ba) /\ KnowTypes(1, FALSE, {}, y, y, TRUE, ba)
      /\ KnowTypes(0, FALSE, {}, y, y, TRUE, ba)
  BY <1>2 DEF KnowTypes
<1> HIDE DEF y
<1>4. k1 \in Knowledge /\ k2 \in Knowledge /\ k3 \in Knowledge /\ h \in Knowledge
  BY <1>3, KnowType
<1>5. Final(h)
  BY <1>2 DEF Final, Know
<1>6. Leads(F, LockMixerThread, Fresh(ba), k1)
  BY FreshTypes, LockTo, Numbers DEF Fresh
<1>7. Leads(F, <<s("disable")>>, k1, k2)
  <2>1. Allowed(F, s("disable"), k1)
    BY DEF Know, Allowed
  <2>2. {} \ {Synth} = {}
    OBVIOUS
  <2>3. k2 = After(s("disable"), k1)
    BY <1>2, <2>2 DEF Know, After
  <2>4. QED
    BY <1>1, <1>4, <2>1, <2>3, LeadsTo
<1>8. Leads(F, <<s("stopWork")>>, k2, k2)
  <2>1. Allowed(F, s("stopWork"), k2)
    BY DEF Know, Allowed
  <2>2. k2 = After(s("stopWork"), k2)
    BY DEF Know, After
  <2>3. QED
    BY <1>1, <1>4, <2>1, <2>2, LeadsTo
<1>9. Leads(F, <<s("stopFifo")>>, k2, k3)
  <2>1. Allowed(F, s("stopFifo"), k2)
    BY DEF Know, Allowed
  <2>2. k3 = After(s("stopFifo"), k2)
    BY DEF Know, After
  <2>3. QED
    BY <1>1, <1>4, <2>1, <2>2, LeadsTo
<1>10. Leads(F, <<s("joinRenderer")>>, k3, k3)
  <2>1. Allowed(F, s("joinRenderer"), k3)
    BY DEF Know, Allowed
  <2>2. k3 = After(s("joinRenderer"), k3)
    BY DEF Know, After
  <2>3. QED
    BY <1>1, <1>4, <2>1, <2>2, LeadsTo
<1>11. Leads(F, DeregisterChannel(Synth), k3, k4)
  <2> DEFINE no == {}
  <2>1. KnowTypes(1, TRUE, {}, y, no, TRUE, ba) /\ no \cup {Synth} = y
    BY <1>2, <1>3
  <2> HIDE DEF no
  <2>2. Leads(F, DeregisterChannel(Synth), Know(1, TRUE, {}, y, no, TRUE, ba),
              Know(1, FALSE, {}, y, no \cup {Synth}, TRUE, ba))
    BY <1>2, <2>1, DeregisterLeads, Numbers
  <2>3. QED
    BY <2>1, <2>2 DEF no
<1>12. Leads(F, UnlockMixerThread, k4, h)
  BY <1>2, <1>3, UnlockTo, Numbers
<1> DEFINE a == <<s("disable")>>
           b == <<s("stopWork")>>
           c == <<s("stopFifo")>>
           d == <<s("joinRenderer")>>
<1>13. DestroySynth = (((((LockMixerThread \o a) \o b) \o c) \o d)
                        \o DeregisterChannel(Synth)) \o UnlockMixerThread
  BY DEF DestroySynth, DoOn, Do
<1> HIDE DEF k1, k2, k3, k4, h, s, a, b, c, d
<1>14. Leads(F, LockMixerThread \o a, Fresh(ba), k2)
  BY <1>6, <1>7, LeadsThen DEF a
<1>15. Leads(F, (LockMixerThread \o a) \o b, Fresh(ba), k2)
  BY <1>8, <1>14, LeadsThen DEF b
<1>16. Leads(F, ((LockMixerThread \o a) \o b) \o c, Fresh(ba), k3)
  BY <1>9, <1>15, LeadsThen DEF c
<1>17. Leads(F, (((LockMixerThread \o a) \o b) \o c) \o d, Fresh(ba), k3)
  BY <1>10, <1>16, LeadsThen DEF d
<1>18. Leads(F, ((((LockMixerThread \o a) \o b) \o c) \o d) \o DeregisterChannel(Synth), Fresh(ba), k4)
  BY <1>11, <1>17, LeadsThen
<1>19. Leads(F, DestroySynth, Fresh(ba), h)
  BY <1>12, <1>13, <1>18, LeadsThen
<1>20. QED
  BY <1>4, <1>5, <1>19 DEF Whole

LEMMA HaltLeads ==
  ASSUME NEW F, NEW c \in Cards, NEW ba \in BOOLEAN
  PROVE  Whole(F, Halt(c), Fresh(ba))
<1> DEFINE h == Know(0, FALSE, {}, {c}, {}, FALSE, ba)
           s == [op |-> "disable", on |-> c, n |-> 0]
           t == [op |-> "halt", on |-> c, n |-> 0]
<1>1. s \in Steps /\ t \in Steps /\ c \in Channels
  BY DEF Steps, Channels
<1>2. KnowTypes(0, FALSE, {}, {c}, {}, FALSE, ba)
  BY <1>1 DEF KnowTypes
<1>3. h \in Knowledge /\ Final(h)
  BY <1>2, KnowType DEF Know, Final
<1>4. Leads(F, <<s>>, Fresh(ba), h)
  <2>1. Allowed(F, s, Fresh(ba))
    BY DEF Fresh, Know, Allowed
  <2>2. {} \ {c} = {} /\ {} \cup {c} = {c}
    OBVIOUS
  <2>3. h = After(s, Fresh(ba))
    BY <2>2 DEF Fresh, Know, After
  <2>4. QED
    BY <1>1, <2>1, <2>3, FreshTypes, LeadsTo
<1>5. Leads(F, <<t>>, h, h)
  <2>1. Allowed(F, t, h)
    BY DEF Know, Allowed
  <2>2. h = After(t, h)
    BY DEF Know, After
  <2>3. QED
    BY <1>1, <1>3, <2>1, <2>2, LeadsTo
<1> HIDE DEF h
<1>6. Leads(F, <<>>, h, h)
  BY <1>3, LeadsNothing
<1>7. Halt(c) = <<s>> \o IF c \in HaltOnly THEN <<>> ELSE <<t>>
  BY DEF Halt, DoOn
<1> HIDE DEF s, t
<1>8. Leads(F, <<s>> \o <<t>>, Fresh(ba), h) /\ Leads(F, <<s>> \o <<>>, Fresh(ba), h)
  BY <1>4, <1>5, <1>6, LeadsThen
<1>9. QED
  BY <1>3, <1>7, <1>8 DEF Whole

LEMMA CloseLeads ==
  ASSUME NEW F
  PROVE  Whole(F, CloseAudioDevice, Fresh(TRUE))
<1> DEFINE h == Fresh(TRUE)
           s(op) == [op |-> op, on |-> Synth, n |-> 0]
<1>1. \A op \in {"quit", "stopOutput", "joinMixer"} : s(op) \in Steps
  BY DEF Steps, Channels
<1>2. h \in Knowledge /\ Final(h)
  BY FreshTypes DEF Fresh, Know, Final
<1>3. ASSUME NEW op \in {"quit", "stopOutput", "joinMixer"}
      PROVE  Leads(F, <<s(op)>>, h, h)
  <2>1. Allowed(F, s(op), h)
    BY DEF Fresh, Know, Allowed
  <2>2. h = After(s(op), h)
    BY DEF Fresh, Know, After
  <2>3. QED
    BY <1>1, <1>2, <2>1, <2>2, LeadsTo
<1> DEFINE a == <<s("quit")>>
           b == <<s("stopOutput")>>
           c == <<s("joinMixer")>>
<1>4. CloseAudioDevice = (a \o b) \o c
  BY DEF CloseAudioDevice, Do
<1>5. Leads(F, a, h, h) /\ Leads(F, b, h, h) /\ Leads(F, c, h, h)
  BY <1>3
<1> HIDE DEF h, s, a, b, c
<1>6. Leads(F, a \o b, h, h)
  BY <1>5, LeadsThen
<1>7. Leads(F, CloseAudioDevice, h, h)
  BY <1>4, <1>5, <1>6, LeadsThen
<1>8. QED
  BY <1>2, <1>7 DEF Whole, h

LEMMA LockUnlockLeads ==
  ASSUME NEW F, NEW ba \in BOOLEAN
  PROVE  Whole(F, LockMixerThread \o UnlockMixerThread, Fresh(ba))
<1> DEFINE k == Know(1, TRUE, {}, {}, {}, FALSE, ba)
           h == Know(0, FALSE, {}, {}, {}, FALSE, ba)
<1>1. KnowTypes(1, TRUE, {}, {}, {}, FALSE, ba)
  BY DEF KnowTypes
<1>2. Leads(F, LockMixerThread, Fresh(ba), k)
  BY FreshTypes, LockTo, Numbers DEF Fresh
<1>3. Leads(F, UnlockMixerThread, k, h)
  BY <1>1, UnlockTo, Numbers
<1>4. h \in Knowledge /\ Final(h)
  BY FreshTypes DEF Final, Fresh, Know
<1> HIDE DEF k, h
<1>5. Leads(F, LockMixerThread \o UnlockMixerThread, Fresh(ba), h)
  BY <1>2, <1>3, LeadsThen
<1>6. QED
  BY <1>4, <1>5 DEF Whole

\* nothing to do
LEMMA NothingLeads ==
  ASSUME NEW F, NEW ba \in BOOLEAN
  PROVE  Whole(F, <<>>, Fresh(ba))
<1>1. Fresh(ba) \in Knowledge /\ Final(Fresh(ba))
  BY FreshTypes DEF Final, Fresh, Know
<1>2. QED
  BY <1>1, LeadsNothing DEF Whole

\* an operation of the running machine, of one step
Opening(ba) ==
  [depth |-> 0, stopped |-> FALSE, doomed |-> {}, off |-> {}, gone |-> {},
   mute |-> FALSE, bare |-> ba, first |-> TRUE]

LEMMA OpeningLeads ==
  ASSUME NEW F, NEW ba \in BOOLEAN, NEW op \in {"send", "ask", "take"}, NEW n \in Nat,
         op = "send" => n <= MaxLead, op # "send" => "capture" \in F,
         op = "take" => n \in 1 .. TickFrames
  PROVE  /\ Opening(ba) \in Knowledge
         /\ Whole(F, DoN(op, n), Opening(ba))
<1> DEFINE g == Opening(ba)
           h == Fresh(ba)
           s == [op |-> op, on |-> Synth, n |-> n]
<1>1. op \notin {"acquire", "release", "stop", "start", "link", "unlink", "disable",
                   "erase", "register", "stopFifo"}
  OBVIOUS
<1>2. g \in Knowledge /\ h \in Knowledge /\ Final(h) /\ s \in Steps
  BY FreshTypes DEF Opening, Knowledge, Fresh, Know, Final, Steps, Channels
<1>3. Allowed(F, s, g)
  BY DEF Opening, Allowed
<1>4. h = After(s, g)
  BY <1>1 DEF Opening, After, Fresh, Know
<1> HIDE DEF g, h
<1>5. Leads(F, <<s>>, g, h)
  BY <1>2, <1>3, <1>4, LeadsTo
<1>6. QED
  BY <1>2, <1>5 DEF Whole, DoN, g

-----------------------------------------------------------------------------
(* The invariant *)

MainDepth == IF holder = "main" THEN depth ELSE 0

\* What the main thread knows is so.
Holds(g) ==
  /\ g.depth = MainDepth
  /\ g.stopped /\ g.depth = 0 => \A c \in linked : ~ running[c]
  /\ ~ g.stopped => \A c \in (linked \cup g.doomed) \cap enabled : running[c]
  /\ enabled \cap Cards \subseteq linked \cup g.doomed
  /\ g.depth = 0 /\ ResetFirst = {} => g.doomed = {}
  /\ g.off \cap enabled = {} /\ g.gone \cap channels = {}
  /\ g.mute => ~ running[Synth]
  /\ g.mute /\ g.depth = 0 => Synth \in g.gone
  /\ g.mute \/ running[Synth] \/ Synth \notin channels
  /\ g.bare => linked = {}

\* It is enough for the steps to come.
PlanInv == \E g \in Knowledge : Holds(g) /\ Whole(Fitted, prog, g)

LockInv ==
  /\ holder = "mixer" <=> mixer.pc \in {"mix", "pull", "record", "unlock"}
  /\ holder = "mixer" => depth = 1
  /\ holder = "none" => depth = 0
  /\ holder = "main" => depth > 0

\* While it mixes, the mixer thread is among the channels that there are; the
\* card it is in has its pointer, unless a card resets that first.
ChannelInv ==
  /\ MixerAt("pull") => mixer.at \in channels /\ mixer.rem > 0
  /\ MixerAt("pull") \/ MixerAt("mix") => mixer.todo \subseteq channels
  /\ MixerAt("pull") /\ mixer.at \in Cards /\ ResetFirst = {} => mixer.at \in linked

\* What capture_callback has been promised is there, or comes with the block
\* that is on its way.
CaptureInv ==
  /\ MixerAt("record") => "capture" \in Fitted
  /\ At("take") => \/ capture >= Head(prog).n
                   \/ MixerAt("record") /\ capture = 0

RenderInv ==
  (renderer.pc = "loop" => renderer.rem = 0) /\ (renderer.pc = "put" => renderer.rem > 0)

Inv == TypeOK /\ PlanInv /\ LockInv /\ ChannelInv /\ CaptureInv /\ RenderInv

-----------------------------------------------------------------------------
(* Lemmas: the machine, and the plan *)

LEMMA MachineFacts ==
  ASSUME TypeOK
  PROVE  /\ Block \in Nat /\ Block > 0
         /\ "capture" \in Fitted => TickFrames <= Block /\ Block <= CaptureSize
         /\ TickFrames \in Nat /\ TickFrames > 0 /\ OutputSize \in Nat /\ OutputSize > 0
         /\ FifoSize \in Nat /\ FifoSize > 0 /\ WorkSize \in Nat /\ WorkSize > 0
         /\ CaptureSize \in Nat /\ Burst \in Nat /\ MaxLead \in Nat /\ MaxLead > 0
         /\ Synth \notin Cards /\ Synth \in Channels /\ Cards \subseteq Channels
<1>1. /\ Synth \notin Cards /\ Fittings \subseteq
              [has : SUBSET (Channels \cup {"sdl", "capture"}), blocksize : Nat \ {0}]
      /\ {TickFrames, OutputSize, FifoSize, WorkSize, MaxLead} \subseteq Nat \ {0}
      /\ {CaptureSize, Burst} \subseteq Nat
  BY MixerAssumption
<1>2. fitted \in Fittings
  BY DEF TypeOK
<1>3. Block \in Nat \ {0}
  BY <1>1, <1>2 DEF Block
<1>4. "capture" \in Fitted => TickFrames <= Block /\ Block <= CaptureSize
  BY <1>2, CaptureAssumption DEF Fitted, Block
<1>5. QED
  BY <1>1, <1>3, <1>4 DEF Channels

\* Before a step: what it asks for is so, and the rest is planned for what
\* will be known after it.
LEMMA MainFacts ==
  ASSUME PlanInv, prog # <<>>
  PROVE  /\ Head(prog) \in Steps /\ Tail(prog) \in Seq(Steps) /\ prog \in Seq(Steps)
         /\ \E g, k \in Knowledge :
              /\ Holds(g) /\ Allowed(Fitted, Head(prog), g)
              /\ k = After(Head(prog), g) /\ Whole(Fitted, Tail(prog), k)
<1>1. PICK g \in Knowledge : Holds(g) /\ Whole(Fitted, prog, g)
  BY DEF PlanInv
<1>2. PICK h \in Knowledge : Leads(Fitted, prog, g, h) /\ Final(h)
  BY <1>1 DEF Whole
<1> DEFINE F == Fitted
           p == prog
<1> HIDE DEF F, p
<1>3. Leads(F, p, g, h) /\ p # <<>>
  BY <1>2 DEF F, p
<1>4. /\ p \in Seq(Steps) /\ Head(p) \in Steps /\ Tail(p) \in Seq(Steps)
      /\ After(Head(p), g) \in Knowledge
      /\ Allowed(F, Head(p), g) /\ Leads(F, Tail(p), After(Head(p), g), h)
  BY <1>3, LeadsHead
<1>5. Whole(F, Tail(p), After(Head(p), g))
  BY <1>2, <1>4 DEF Whole
<1>6. QED
  BY <1>1, <1>4, <1>5 DEF F, p

\* After a step of a longer operation the main thread does not send, ask or
\* take.
LEMMA NotFirst ==
  ASSUME NEW F, NEW p, NEW g \in Knowledge, Whole(F, p, g), ~ g.first, p # <<>>
  PROVE  Head(p).op \notin {"send", "ask", "take"}
<1>1. PICK h \in Knowledge : Leads(F, p, g, h) /\ Final(h)
  BY DEF Whole
<1>2. Allowed(F, Head(p), g)
  BY <1>1, LeadsHead
<1>3. QED
  BY <1>2 DEF Allowed

LEMMA WholeSeq ==
  ASSUME NEW F, NEW p, NEW g, Whole(F, p, g)
  PROVE  p \in Seq(Steps)
BY DEF Whole, Leads

\* The step is done, and what is known after it is so.
LEMMA DonePlan ==
  ASSUME NEW k \in Knowledge, Done, fitted' = fitted,
         Whole(Fitted, Tail(prog), k), ~ k.first, Holds(k)'
  PROVE  /\ PlanInv' /\ prog' \in Seq(Steps)
         /\ ~ At("take")' /\ ~ At("send")'
<1>1. Whole(Fitted, prog, k)'
  BY DEF Done, Fitted
<1>2. PlanInv'
  BY <1>1 DEF PlanInv
<1>3. prog' \in Seq(Steps)
  BY <1>1, WholeSeq
<1>4. prog' # <<>> => Head(prog').op \notin {"send", "ask", "take"}
  BY <1>1, NotFirst
<1>5. QED
  BY <1>2, <1>3, <1>4 DEF At

\* The plan stays when nothing is touched that it is about; a channel may fall
\* asleep.
LEMMA KeepPlan ==
  ASSUME PlanInv, MainDepth' = MainDepth, enabled' \subseteq enabled,
         UNCHANGED <<prog, fitted, linked, running, channels>>
  PROVE  PlanInv' /\ (At("take")' <=> At("take")) /\ (At("send")' <=> At("send"))
<1>1. PICK g \in Knowledge : Holds(g) /\ Whole(Fitted, prog, g)
  BY DEF PlanInv
<1>2. Holds(g)'
  BY <1>1 DEF Holds
<1>3. Whole(Fitted, prog, g)'
  BY <1>1 DEF Fitted
<1>4. QED
  BY <1>2, <1>3 DEF PlanInv, At

\* what is so between two operations
AtRest ==
  /\ holder # "main"
  /\ \A c \in linked \cap enabled : running[c]
  /\ enabled \cap Cards \subseteq linked
  /\ running[Synth] \/ Synth \notin channels

LEMMA RestFacts ==
  ASSUME PlanInv, LockInv, prog = <<>>
  PROVE  AtRest
<1>1. PICK g \in Knowledge : Holds(g) /\ Whole(Fitted, prog, g)
  BY DEF PlanInv
<1>2. PICK h \in Knowledge : Leads(Fitted, <<>>, g, h) /\ Final(h)
  BY <1>1 DEF Whole
<1>3. h = g
  BY <1>2, LeadsNothing
<1>4. Final(g)
  BY <1>2, <1>3
<1>5. QED
  BY <1>1, <1>4 DEF Final, Holds, MainDepth, LockInv, AtRest

\* A new operation is planned.
LEMMA NewPlan ==
  ASSUME AtRest', fitted' = fitted, linked' = linked,
         NEW ba \in BOOLEAN, ba => linked = {},
         Whole(Fitted, prog', Fresh(ba)) \/ Whole(Fitted, prog', Opening(ba))
  PROVE  PlanInv' /\ prog' \in Seq(Steps)
<1>1. Fresh(ba) \in Knowledge /\ Opening(ba) \in Knowledge
  <2>1. Opening(ba) \in Knowledge
    BY DEF Opening, Knowledge
  <2>2. QED
    BY <2>1, FreshTypes
<1>2. Holds(Fresh(ba))' /\ Holds(Opening(ba))'
  BY DEF AtRest, Holds, MainDepth, Fresh, Opening, Know
<1>3. PICK g \in Knowledge : Holds(g)' /\ Whole(Fitted, prog', g)
  BY <1>1, <1>2
<1>4. Whole(Fitted, prog, g)'
  BY <1>3 DEF Fitted
<1>5. QED
  BY <1>3, <1>4, WholeSeq DEF PlanInv

\* The first step of a longer operation is not one of the running machine.
LEMMA FreshFirst ==
  ASSUME NEW F, NEW p, NEW ba \in BOOLEAN, Whole(F, p, Fresh(ba)), p # <<>>
  PROVE  Head(p).op \notin {"send", "ask", "take"}
<1>1. Fresh(ba) \in Knowledge /\ ~ Fresh(ba).first
  BY FreshTypes DEF Fresh, Know
<1>2. QED
  BY <1>1, NotFirst

-----------------------------------------------------------------------------
(* The operations of the main thread *)

LEMMA BeginStep ==
  ASSUME Inv, NEW p, Begin(p), NEW ba \in BOOLEAN, ba => linked = {},
         Whole(Fitted, p, Fresh(ba))
  PROVE  Inv'
<1> USE DEF Inv
<1>1. AtRest /\ prog = <<>>
  BY RestFacts DEF Begin, Idle
<1>2. AtRest'
  BY <1>1 DEF Begin, AtRest, queues, lock
<1>3. PlanInv' /\ prog' \in Seq(Steps)
  BY <1>2, NewPlan DEF Begin
<1>4. ~ At("take")'
  <2>1. prog' = p
    BY DEF Begin
  <2>2. QED
    BY <2>1, FreshFirst DEF At
<1>5. TypeOK'
  BY <1>3 DEF TypeOK, Begin, queues, lock, out, midi, Fitted, Block, Capacity
<1>6. LockInv' /\ ChannelInv' /\ RenderInv'
  BY DEF Begin, queues, lock, out, midi, LockInv, ChannelInv, RenderInv, MixerAt
<1>7. CaptureInv'
  BY <1>4 DEF Begin, CaptureInv, MixerAt, Fitted
<1>8. QED
  BY <1>3, <1>5, <1>6, <1>7

LEMMA ReconfigureStep ==
  ASSUME Inv, Reconfigure
  PROVE  Inv'
<1> DEFINE ba == linked = {}
<1>1. ba \in BOOLEAN /\ (ba => linked = {})
  OBVIOUS
<1>2. linked \subseteq Cards
  BY DEF Inv, TypeOK
<1> HIDE DEF ba
<1>3. CASE Begin(LockMixerThread \o UnlockMixerThread)
  BY <1>1, <1>3, LockUnlockLeads, BeginStep
<1>4. ASSUME NEW c \in linked, Begin(Destroy(c)) PROVE Inv'
  <2>1. c \in Cards
    BY <1>2, <1>4
  <2>2. QED
    BY <1>1, <1>4, <2>1, DestroyLeads, BeginStep
<1>5. ASSUME NEW c \in (Fitted \cap Cards) \ channels, Begin(Create(c)) PROVE Inv'
  <2>1. c \in Cards \cap Fitted
    BY <1>5
  <2>2. QED
    BY <1>1, <1>5, <2>1, CreateLeads, BeginStep
<1>6. QED
  BY <1>3, <1>4, <1>5 DEF Reconfigure

LEMMA HaltCardStep ==
  ASSUME Inv, HaltCard
  PROVE  Inv'
<1> DEFINE ba == linked = {}
<1>1. ba \in BOOLEAN /\ (ba => linked = {})
  OBVIOUS
<1>2. PICK c \in linked : Begin(Halt(c))
  BY DEF HaltCard
<1>3. c \in Cards
  BY <1>2 DEF Inv, TypeOK
<1> HIDE DEF ba
<1>4. QED
  BY <1>1, <1>2, <1>3, HaltLeads, BeginStep

LEMMA ShutDownStep ==
  ASSUME Inv, ShutDown
  PROVE  Inv'
<1>1. linked = {}
  BY DEF ShutDown
<1>2. CASE Begin(DestroySynth)
  BY <1>1, <1>2, DestroySynthLeads, BeginStep
<1>3. CASE Begin(CloseAudioDevice)
  BY <1>1, <1>3, CloseLeads, BeginStep
<1>4. QED
  BY <1>2, <1>3 DEF ShutDown

LEMMA ExitStep ==
  ASSUME Inv, Exit
  PROVE  Inv'
<1> USE DEF Inv
<1>1. PlanInv' /\ (At("take")' <=> At("take"))
  BY KeepPlan DEF Exit, queues, lock, MainDepth
<1>2. TypeOK'
  BY DEF TypeOK, Exit, queues, lock, out, midi, Fitted, Block, Capacity
<1>3. LockInv' /\ ChannelInv' /\ RenderInv'
  BY DEF Exit, queues, lock, out, midi, LockInv, ChannelInv, RenderInv, MixerAt
<1>4. CaptureInv'
  BY <1>1 DEF Exit, CaptureInv, MixerAt, Fitted
<1>5. QED
  BY <1>1, <1>2, <1>3, <1>4

LEMMA WakeUpStep ==
  ASSUME Inv, WakeUp
  PROVE  Inv'
<1> USE DEF Inv
<1>1. AtRest /\ prog = <<>> /\ prog' = <<>> /\ linked \subseteq Cards /\ running \in [Channels -> BOOLEAN]
  BY RestFacts DEF WakeUp, Idle, TypeOK
<1>2. PICK c \in linked : enabled' = enabled \cup {c} /\ running' = [running EXCEPT ![c] = TRUE]
  BY DEF WakeUp
<1>3. c \in Channels /\ c # Synth
  BY <1>1, MachineFacts
<1>4. AtRest'
  BY <1>1, <1>2, <1>3, MachineFacts DEF WakeUp, AtRest, lock
<1>5. PlanInv' /\ prog' \in Seq(Steps)
  BY <1>1, <1>4, NothingLeads, NewPlan DEF WakeUp
<1>6. TypeOK'
  BY <1>1, <1>2, <1>3, <1>5 DEF TypeOK, WakeUp, lock, out, midi, Fitted, Block, Capacity
<1>7. LockInv' /\ ChannelInv' /\ RenderInv'
  BY DEF WakeUp, lock, out, midi, LockInv, ChannelInv, RenderInv, MixerAt
<1>8. CaptureInv'
  BY <1>1 DEF WakeUp, CaptureInv, MixerAt, Fitted, At
<1>9. QED
  BY <1>5, <1>6, <1>7, <1>8

LEMMA MuteStep ==
  ASSUME Inv, Mute
  PROVE  Inv'
<1> USE DEF Inv
<1>1. PlanInv' /\ (At("take")' <=> At("take"))
  BY KeepPlan DEF Mute, queues, lock, MainDepth
<1>2. TypeOK'
  <2>1. output' \in 0 .. OutputSize
    BY MachineFacts DEF Mute
  <2>2. QED
    BY <2>1 DEF TypeOK, Mute, queues, lock, midi, Fitted, Block, Capacity
<1>3. LockInv' /\ ChannelInv' /\ RenderInv'
  BY DEF Mute, queues, lock, midi, LockInv, ChannelInv, RenderInv, MixerAt
<1>4. CaptureInv'
  BY <1>1 DEF Mute, CaptureInv, MixerAt, Fitted
<1>5. QED
  BY <1>1, <1>2, <1>3, <1>4

LEMMA LeastFacts ==
  ASSUME NEW a \in Nat, NEW b \in Nat
  PROVE  /\ Least(a, b) \in Nat /\ Least(a, b) <= a /\ Least(a, b) <= b
         /\ Least(a, b) = a \/ Least(a, b) = b
BY DEF Least

LEMMA CapacityType ==
  ASSUME TypeOK, NEW c
  PROVE  Capacity(c) \in Nat
BY MachineFacts DEF Capacity

\* Time passes for the synthesizer.
LEMMA TickTime ==
  ASSUME TypeOK, Tick
  PROVE  /\ lead' \in 0 .. MaxLead /\ pending' \in 0 .. lead' /\ pending' - lead' = pending - lead
<1>1. lead \in 0 .. MaxLead /\ pending \in 0 .. lead
  BY DEF TypeOK
<1>2. MaxLead \in Nat /\ TickFrames \in Nat
  BY MachineFacts
<1>3. PICK n \in {0, Least(TickFrames, MaxLead - lead)} : pending' = pending + n /\ lead' = lead + n
  BY DEF Tick
<1>4. n \in 0 .. (MaxLead - lead)
  BY <1>1, <1>2 DEF Least
<1>5. QED
  BY <1>1, <1>2, <1>3, <1>4

LEMMA TickStep ==
  ASSUME Inv, Tick
  PROVE  Inv'
<1> USE DEF Inv
<1>1. AtRest /\ prog = <<>>
  BY RestFacts DEF Tick, Idle
<1>2. AtRest'
  BY <1>1 DEF Tick, AtRest, lock
<1>3. ASSUME "capture" \in Fitted PROVE PlanInv' /\ prog' \in Seq(Steps) /\ ~ At("take")'
  <2>1. prog' = DoN("ask", 0)
    BY <1>3 DEF Tick, Do, DoN
  <2>2. Whole(Fitted, prog', Opening(FALSE))
    <3>1. "ask" \in {"send", "ask", "take"} /\ "ask" # "send" /\ "ask" # "take" /\ 0 \in Nat
      OBVIOUS
    <3>2. QED
      BY <1>3, <2>1, <3>1, OpeningLeads
  <2>3. PlanInv' /\ prog' \in Seq(Steps)
    BY <1>2, <2>2, NewPlan DEF Tick
  <2>4. ~ At("take")'
    BY <2>1 DEF At, DoN
  <2>5. QED
    BY <2>3, <2>4
<1>4. ASSUME "capture" \notin Fitted PROVE PlanInv' /\ prog' \in Seq(Steps) /\ ~ At("take")'
  <2>1. prog' = <<>>
    BY <1>4 DEF Tick
  <2>2. PlanInv' /\ prog' \in Seq(Steps)
    BY <1>2, <2>1, NothingLeads, NewPlan DEF Tick
  <2>3. QED
    BY <2>1, <2>2 DEF At
<1>5. PlanInv' /\ prog' \in Seq(Steps) /\ ~ At("take")'
  BY <1>3, <1>4
<1>6. size' \in [Channels -> Nat] /\ \A c \in Channels : size'[c] <= Capacity(c)
  <2>1. ASSUME NEW c \in Channels PROVE size'[c] \in Nat /\ size'[c] <= Capacity(c)
    <3>1. size[c] \in Nat /\ size[c] <= Capacity(c) /\ TickFrames \in Nat
      BY MachineFacts DEF TypeOK
    <3>2. Capacity(c) \in Nat /\ size[c] + TickFrames \in Nat
      BY <3>1, CapacityType
    <3>3. Least(size[c] + TickFrames, Capacity(c)) \in Nat
          /\ Least(size[c] + TickFrames, Capacity(c)) <= Capacity(c)
      BY <3>2, LeastFacts
    <3>4. size'[c] = size[c] \/ size'[c] = Least(size[c] + TickFrames, Capacity(c))
      BY DEF Tick
    <3>5. QED
      BY <3>1, <3>3, <3>4
  <2>2. size' = [c \in Channels |-> size'[c]]
    BY DEF Tick
  <2>3. QED
    BY <2>1, <2>2
<1>7. lead' \in 0 .. MaxLead /\ pending' \in 0 .. lead'
  BY TickTime
<1>8. TypeOK'
  <2>1. UNCHANGED <<fitted, closing, linked, channels, enabled, running, lock, mixer, quit,
                    out, capture, work, workRunning, burst, renderer>>
    BY DEF Tick
  <2>2. Fitted' = Fitted /\ Block' = Block /\ \A c \in Channels : Capacity(c)' = Capacity(c)
    BY <2>1 DEF Fitted, Block, Capacity
  <2>3. /\ mixer' \in [pc : {"loop", "lock", "mix", "pull", "record", "unlock", "out", "done"},
                        todo : SUBSET Channels, at : Channels \cup {"none"}, rem : 0 .. Block]
        /\ renderer' \in [pc : {"loop", "put", "done"}, rem : 0 .. MaxLead]
        /\ work' \in Seq(0 .. MaxLead) /\ Len(work') <= WorkSize
    BY <2>1 DEF TypeOK
  <2>4. \A c \in Channels : size'[c] <= Capacity(c)'
    BY <1>6, <2>2
  <2>5. QED
    BY <1>5, <1>6, <1>7, <2>1, <2>2, <2>3, <2>4 DEF TypeOK, lock, out
<1>9. LockInv' /\ ChannelInv' /\ RenderInv'
  BY DEF Tick, lock, out, LockInv, ChannelInv, RenderInv, MixerAt
<1>10. CaptureInv'
  BY <1>5 DEF Tick, CaptureInv, MixerAt, Fitted
<1>11. QED
  BY <1>5, <1>8, <1>9, <1>10

LEMMA SendMidiMessageStep ==
  ASSUME Inv, SendMidiMessage
  PROVE  Inv'
<1> USE DEF Inv
<1> DEFINE n == IF Synth \in enabled THEN pending ELSE 0
<1>1. AtRest /\ prog = <<>>
  BY RestFacts DEF SendMidiMessage, Idle
<1>2. AtRest'
  BY <1>1, MachineFacts DEF SendMidiMessage, AtRest, lock, TypeOK
<1>3. n \in Nat /\ n <= MaxLead
  <2>1. lead \in 0 .. MaxLead /\ pending \in 0 .. lead /\ MaxLead \in Nat
    BY MachineFacts DEF TypeOK
  <2>2. QED
    BY <2>1
<1>4. prog' = DoN("send", n)
  BY DEF SendMidiMessage
<1> HIDE DEF n
<1>5. Whole(Fitted, prog', Opening(FALSE))
  <2>1. "send" \in {"send", "ask", "take"} /\ "send" # "take"
    OBVIOUS
  <2>2. QED
    BY <1>3, <1>4, <2>1, OpeningLeads
<1>6. PlanInv' /\ prog' \in Seq(Steps)
  BY <1>2, <1>5, NewPlan DEF SendMidiMessage
<1>7. ~ At("take")'
  BY <1>4 DEF At, DoN
<1>8. burst' \in 0 .. Burst /\ pending' \in 0 .. lead' /\ enabled' \subseteq Channels
  <2>1. burst \in 0 .. Burst /\ lead \in 0 .. MaxLead /\ enabled \subseteq Channels /\ TypeOK
    BY DEF TypeOK
  <2>2. QED
    BY <2>1, MachineFacts DEF SendMidiMessage
<1>9. TypeOK'
  BY <1>6, <1>8 DEF TypeOK, SendMidiMessage, lock, out, Fitted, Block, Capacity
<1>10. LockInv' /\ ChannelInv' /\ RenderInv'
  BY DEF SendMidiMessage, lock, out, LockInv, ChannelInv, RenderInv, MixerAt
<1>11. CaptureInv'
  BY <1>7 DEF SendMidiMessage, CaptureInv, MixerAt, Fitted
<1>12. QED
  BY <1>6, <1>9, <1>10, <1>11

-----------------------------------------------------------------------------
(* capture_callback *)

\* The operations of the running machine: nothing else is under way.
LEMMA OpeningRest ==
  ASSUME PlanInv, LockInv, prog # <<>>, Head(prog).op \in {"send", "ask", "take"}
  PROVE  /\ AtRest
         /\ At("send") => Head(prog).n \in 0 .. MaxLead
         /\ Head(prog).op \in {"ask", "take"} => "capture" \in Fitted
         /\ At("take") => Head(prog).n \in 1 .. TickFrames
<1>1. PICK g \in Knowledge : Holds(g) /\ Allowed(Fitted, Head(prog), g)
  BY MainFacts
<1>2. g.depth = 0 /\ ~ g.stopped /\ g.doomed = {} /\ ~ g.mute
  BY <1>1 DEF Allowed
<1>3. AtRest
  BY <1>1, <1>2 DEF Holds, MainDepth, LockInv, AtRest
<1>4. Head(prog).n \in Nat
  BY MainFacts DEF Steps
<1>5. At("send") => Head(prog).n \in 0 .. MaxLead
  BY <1>1, <1>4, MixerAssumption DEF Allowed, At
<1>6. QED
  BY <1>1, <1>3, <1>5 DEF Allowed, At

LEMMA AskForSizeStep ==
  ASSUME Inv, AskForSize
  PROVE  Inv'
<1> USE DEF Inv
<1> DEFINE n == Least(TickFrames, capture)
<1>1. prog # <<>> /\ Head(prog).op = "ask"
  BY DEF AskForSize, At
<1>2. AtRest /\ "capture" \in Fitted
  BY <1>1, OpeningRest
<1>3. AtRest'
  BY <1>2 DEF AskForSize, AtRest, queues, lock
<1>4. capture \in 0 .. CaptureSize /\ TypeOK
  BY DEF TypeOK
<1>5. capture \in Nat /\ TickFrames \in Nat /\ TickFrames > 0 /\ CaptureSize \in Nat
  BY <1>4, MachineFacts
<1>6. ASSUME capture = 0 PROVE PlanInv' /\ prog' \in Seq(Steps) /\ ~ At("take")'
  <2>1. prog' = <<>>
    BY <1>6 DEF AskForSize
  <2>2. PlanInv' /\ prog' \in Seq(Steps)
    BY <1>3, <2>1, NothingLeads, NewPlan DEF AskForSize
  <2>3. QED
    BY <2>1, <2>2 DEF At
<1>7. ASSUME capture # 0
      PROVE  PlanInv' /\ prog' \in Seq(Steps) /\ (At("take")' => capture' >= Head(prog').n)
  <2>1. n \in 1 .. TickFrames /\ n <= capture /\ n \in Nat
    BY <1>5, <1>7 DEF Least
  <2>2. prog' = DoN("take", n) /\ capture' = capture
    BY <1>7 DEF AskForSize
  <2> HIDE DEF n
  <2>3. "take" \in {"send", "ask", "take"} /\ "take" # "send"
    OBVIOUS
  <2>4. Whole(Fitted, prog', Opening(FALSE))
    BY <1>2, <2>1, <2>2, <2>3, OpeningLeads
  <2>5. PlanInv' /\ prog' \in Seq(Steps)
    BY <1>3, <2>4, NewPlan DEF AskForSize
  <2>6. Head(prog').n = n
    BY <2>2 DEF DoN
  <2>7. QED
    BY <2>1, <2>2, <2>5, <2>6
<1>8. PlanInv' /\ prog' \in Seq(Steps) /\ (At("take")' => capture' >= Head(prog').n)
  BY <1>6, <1>7
<1>9. TypeOK'
  BY <1>8 DEF TypeOK, AskForSize, queues, lock, out, midi, Fitted, Block, Capacity
<1>10. LockInv' /\ ChannelInv' /\ RenderInv'
  BY DEF AskForSize, queues, lock, out, midi, LockInv, ChannelInv, RenderInv, MixerAt
<1>11. CaptureInv'
  BY <1>8 DEF AskForSize, CaptureInv, MixerAt, Fitted
<1>12. QED
  BY <1>8, <1>9, <1>10, <1>11

\* What was promised is there: one take is enough.
LEMMA TakeCaptureStep ==
  ASSUME Inv, TakeCapture
  PROVE  Inv'
<1> USE DEF Inv
<1>1. prog # <<>> /\ Head(prog).op = "take" /\ At("take") /\ capture > 0
  BY DEF TakeCapture, At
<1>2. AtRest /\ Head(prog).n \in 1 .. TickFrames
  BY <1>1, OpeningRest
<1>3. AtRest'
  BY <1>2 DEF TakeCapture, AtRest, queues, lock
<1>4. capture \in 0 .. CaptureSize /\ TypeOK
  BY DEF TypeOK
<1>5. capture \in Nat /\ CaptureSize \in Nat /\ TickFrames \in Nat
  BY <1>4, MachineFacts
<1>6. capture >= Head(prog).n
  BY <1>1, <1>5 DEF CaptureInv
<1>7. Least(capture, Head(prog).n) = Head(prog).n
  BY <1>2, <1>5, <1>6 DEF Least
<1>8. prog' = <<>> /\ capture' = capture - Head(prog).n
  BY <1>7 DEF TakeCapture
<1>9. capture' \in 0 .. CaptureSize
  BY <1>2, <1>5, <1>6, <1>8, <1>4
<1>10. PlanInv' /\ prog' \in Seq(Steps)
  BY <1>3, <1>8, NothingLeads, NewPlan DEF TakeCapture
<1>11. TypeOK'
  BY <1>9, <1>10 DEF TypeOK, TakeCapture, queues, lock, out, midi, Fitted, Block, Capacity
<1>12. LockInv' /\ ChannelInv' /\ RenderInv'
  BY DEF TakeCapture, queues, lock, out, midi, LockInv, ChannelInv, RenderInv, MixerAt
<1>13. CaptureInv'
  BY <1>8 DEF TakeCapture, CaptureInv, MixerAt, Fitted, At
<1>14. QED
  BY <1>10, <1>11, <1>12, <1>13

-----------------------------------------------------------------------------
(* The steps of the main thread *)

\* What is known after a step
LEMMA AfterFacts ==
  ASSUME NEW s, NEW g \in Knowledge
  PROVE  LET k == After(s, g)
         IN  /\ ~ k.first
             /\ s.op \notin {"acquire", "release"} => k.depth = g.depth
             /\ s.op = "acquire" => k.depth = g.depth + 1
             /\ s.op = "release" => k.depth = g.depth - 1
             /\ s.op \notin {"stop", "start"} => k.stopped = g.stopped
             /\ (s.op = "stop" => k.stopped) /\ (s.op = "start" => ~ k.stopped)
             /\ s.op \notin {"unlink", "disable"} => k.doomed = g.doomed
             /\ s.op = "unlink" => k.doomed = g.doomed \cup {s.on}
             /\ s.op = "disable" => k.doomed = g.doomed \ {s.on}
             /\ s.op # "disable" => k.off = g.off
             /\ s.op = "disable" => k.off = g.off \cup {s.on}
             /\ s.op \notin {"erase", "register"} => k.gone = g.gone
             /\ s.op = "erase" => k.gone = g.gone \cup {s.on}
             /\ s.op = "register" => k.gone = g.gone \ {s.on}
             /\ s.op # "stopFifo" => k.mute = g.mute
             /\ s.op = "stopFifo" => k.mute
             /\ s.op # "link" => k.bare = g.bare
             /\ s.op = "link" => ~ k.bare
<1>1. g.stopped \in BOOLEAN /\ g.mute \in BOOLEAN /\ g.bare \in BOOLEAN
  BY DEF Knowledge
<1>2. QED
  BY <1>1 DEF After

LEMMA StopCardsStep ==
  ASSUME Inv, StopCards
  PROVE  Inv'
<1> USE DEF Inv
<1> DEFINE s == Head(prog)
<1>1. prog # <<>> /\ s.op = "stop"
  BY DEF StopCards, At
<1>2. PICK g, k \in Knowledge :
        /\ Holds(g) /\ Allowed(Fitted, s, g)
        /\ k = After(s, g) /\ Whole(Fitted, Tail(prog), k)
  BY <1>1, MainFacts
<1>3. /\ linked \subseteq Cards /\ channels \subseteq Channels /\ enabled \subseteq Channels
      /\ running \in [Channels -> BOOLEAN] /\ TypeOK
  BY DEF TypeOK
<1>4. Synth \notin Cards /\ Synth \in Channels /\ Cards \subseteq Channels
  BY <1>3, MachineFacts
<1>5. ~ k.first
  BY <1>2, AfterFacts
<1>6. Holds(k)'
  <2>1. /\ k.depth = g.depth /\ k.stopped /\ k.doomed = g.doomed /\ k.off = g.off
        /\ k.gone = g.gone /\ k.mute = g.mute /\ k.bare = g.bare
    BY <1>1, <1>2, AfterFacts
  <2>2. running' = [c \in Channels |-> running[c] /\ c \notin linked]
    BY DEF StopCards
  <2>3. /\ \A c \in linked : ~ running'[c]
        /\ running'[Synth] = running[Synth]
    BY <1>3, <1>4, <2>2
  <2>4. QED
    BY <1>2, <2>1, <2>3 DEF Holds, StopCards, MainDepth, lock
<1>7. PlanInv' /\ prog' \in Seq(Steps) /\ ~ At("take")'
  BY <1>2, <1>5, <1>6, DonePlan DEF StopCards
<1>8. TypeOK'
  BY <1>7 DEF TypeOK, StopCards, lock, out, midi, Fitted, Block, Capacity
<1>9. LockInv' /\ RenderInv'
  BY DEF StopCards, lock, out, midi, LockInv, RenderInv
<1>10. ChannelInv'
  BY DEF StopCards, lock, out, midi, ChannelInv, MixerAt
<1>11. CaptureInv'
  BY <1>7 DEF StopCards, CaptureInv, MixerAt, Fitted
<1>12. QED
  BY <1>7, <1>8, <1>9, <1>10, <1>11

LEMMA StartCardsStep ==
  ASSUME Inv, StartCards
  PROVE  Inv'
<1> USE DEF Inv
<1> DEFINE s == Head(prog)
<1>1. prog # <<>> /\ s.op = "start"
  BY DEF StartCards, At
<1>2. PICK g, k \in Knowledge :
        /\ Holds(g) /\ Allowed(Fitted, s, g)
        /\ k = After(s, g) /\ Whole(Fitted, Tail(prog), k)
  BY <1>1, MainFacts
<1>3. /\ linked \subseteq Cards /\ channels \subseteq Channels /\ enabled \subseteq Channels
      /\ running \in [Channels -> BOOLEAN] /\ TypeOK
  BY DEF TypeOK
<1>4. Synth \notin Cards /\ Synth \in Channels /\ Cards \subseteq Channels
  BY <1>3, MachineFacts
<1>5. ~ k.first
  BY <1>2, AfterFacts
<1>6. Holds(k)'
  <2>1. /\ k.depth = g.depth /\ ~ k.stopped /\ k.doomed = g.doomed /\ k.off = g.off
        /\ k.gone = g.gone /\ k.mute = g.mute /\ k.bare = g.bare
    BY <1>1, <1>2, AfterFacts
  <2>2. g.doomed = {}
    BY <1>1, <1>2 DEF Allowed
  <2>3. running' = [c \in Channels |-> running[c] \/ c \in linked]
    BY DEF StartCards
  <2>4. /\ \A c \in linked : running'[c]
        /\ running'[Synth] = running[Synth]
    BY <1>3, <1>4, <2>3
  <2>5. QED
    BY <1>2, <2>1, <2>2, <2>4 DEF Holds, StartCards, MainDepth, lock
<1>7. PlanInv' /\ prog' \in Seq(Steps) /\ ~ At("take")'
  BY <1>2, <1>5, <1>6, DonePlan DEF StartCards
<1>8. TypeOK'
  BY <1>7 DEF TypeOK, StartCards, lock, out, midi, Fitted, Block, Capacity
<1>9. LockInv' /\ RenderInv'
  BY DEF StartCards, lock, out, midi, LockInv, RenderInv
<1>10. ChannelInv'
  BY DEF StartCards, lock, out, midi, ChannelInv, MixerAt
<1>11. CaptureInv'
  BY <1>7 DEF StartCards, CaptureInv, MixerAt, Fitted
<1>12. QED
  BY <1>7, <1>8, <1>9, <1>10, <1>11

LEMMA AcquireStep ==
  ASSUME Inv, Acquire
  PROVE  Inv'
<1> USE DEF Inv
<1> DEFINE s == Head(prog)
<1>1. prog # <<>> /\ s.op = "acquire"
  BY DEF Acquire, At
<1>2. PICK g, k \in Knowledge :
        /\ Holds(g) /\ Allowed(Fitted, s, g)
        /\ k = After(s, g) /\ Whole(Fitted, Tail(prog), k)
  BY <1>1, MainFacts
<1>3. /\ linked \subseteq Cards /\ channels \subseteq Channels /\ enabled \subseteq Channels
      /\ running \in [Channels -> BOOLEAN] /\ TypeOK
  BY DEF TypeOK
<1>4. Synth \notin Cards /\ Synth \in Channels /\ Cards \subseteq Channels
  BY <1>3, MachineFacts
<1>5. ~ k.first
  BY <1>2, AfterFacts
<1>6. Holds(k)' /\ depth' \in 0 .. 3
  <2>1. /\ k.depth = g.depth + 1 /\ k.stopped = g.stopped /\ k.doomed = g.doomed /\ k.off = g.off
        /\ k.gone = g.gone /\ k.mute = g.mute /\ k.bare = g.bare
    BY <1>1, <1>2, AfterFacts
  <2>2. g.depth = depth /\ depth \in 0 .. 3
    BY <1>2 DEF Holds, MainDepth, LockInv, Acquire, TypeOK
  <2>3. depth' = depth + 1 /\ depth < 3 /\ holder' = "main"
    BY <1>1, <1>2, <2>2 DEF Allowed, Acquire
  <2>4. k.depth = MainDepth' /\ k.depth > 0
    BY <2>1, <2>2, <2>3 DEF MainDepth
  <2>5. Holds(k)'
    BY <1>2, <2>1, <2>4 DEF Holds, Acquire, queues
  <2>6. QED
    BY <2>2, <2>3, <2>5
<1>7. PlanInv' /\ prog' \in Seq(Steps) /\ ~ At("take")'
  BY <1>2, <1>5, <1>6, DonePlan DEF Acquire
<1>8. TypeOK'
  BY <1>6, <1>7 DEF TypeOK, Acquire, queues, out, midi, Fitted, Block, Capacity
<1>9. LockInv' /\ RenderInv'
  BY <1>6 DEF Acquire, queues, out, midi, LockInv, RenderInv, TypeOK
<1>10. ChannelInv'
  BY DEF Acquire, queues, out, midi, ChannelInv, MixerAt
<1>11. CaptureInv'
  BY <1>7 DEF Acquire, CaptureInv, MixerAt, Fitted
<1>12. QED
  BY <1>7, <1>8, <1>9, <1>10, <1>11

LEMMA ReleaseStep ==
  ASSUME Inv, Release
  PROVE  Inv'
<1> USE DEF Inv
<1> DEFINE s == Head(prog)
<1>1. prog # <<>> /\ s.op = "release"
  BY DEF Release, At
<1>2. PICK g, k \in Knowledge :
        /\ Holds(g) /\ Allowed(Fitted, s, g)
        /\ k = After(s, g) /\ Whole(Fitted, Tail(prog), k)
  BY <1>1, MainFacts
<1>3. /\ linked \subseteq Cards /\ channels \subseteq Channels /\ enabled \subseteq Channels
      /\ running \in [Channels -> BOOLEAN] /\ TypeOK
  BY DEF TypeOK
<1>4. Synth \notin Cards /\ Synth \in Channels /\ Cards \subseteq Channels
  BY <1>3, MachineFacts
<1>5. ~ k.first
  BY <1>2, AfterFacts
<1>6. Holds(k)' /\ holder = "main" /\ depth \in 1 .. 3
  <2>1. /\ k.depth = g.depth - 1 /\ k.stopped = g.stopped /\ k.doomed = g.doomed /\ k.off = g.off
        /\ k.gone = g.gone /\ k.mute = g.mute /\ k.bare = g.bare
    BY <1>1, <1>2, AfterFacts
  <2>2. /\ g.depth > 0 /\ g.doomed = {}
        /\ g.depth = 1 => ~ g.stopped /\ (g.mute => Synth \in g.gone)
    BY <1>1, <1>2 DEF Allowed
  <2>3. holder = "main" /\ g.depth = depth /\ depth \in 1 .. 3
    BY <1>2, <2>2 DEF Holds, MainDepth, TypeOK
  <2>4. depth' = depth - 1 /\ holder' = IF depth = 1 THEN "none" ELSE "main"
    BY DEF Release
  <2>5. /\ k.depth = MainDepth'
        /\ k.depth = 0 => ~ k.stopped /\ (k.mute => Synth \in k.gone)
    BY <2>1, <2>2, <2>3, <2>4 DEF MainDepth
  <2>6. Holds(k)'
    BY <1>2, <2>1, <2>2, <2>5 DEF Holds, Release, queues
  <2>7. QED
    BY <2>3, <2>6
<1>7. PlanInv' /\ prog' \in Seq(Steps) /\ ~ At("take")'
  BY <1>2, <1>5, <1>6, DonePlan DEF Release
<1>8. TypeOK'
  BY <1>6, <1>7 DEF TypeOK, Release, queues, out, midi, Fitted, Block, Capacity
<1>9. LockInv' /\ RenderInv'
  BY <1>6 DEF Release, queues, out, midi, LockInv, RenderInv
<1>10. ChannelInv'
  BY DEF Release, queues, out, midi, ChannelInv, MixerAt
<1>11. CaptureInv'
  BY <1>7 DEF Release, CaptureInv, MixerAt, Fitted
<1>12. QED
  BY <1>7, <1>8, <1>9, <1>10, <1>11

LEMMA LinkStep ==
  ASSUME Inv, ChangePointer, At("link")
  PROVE  Inv'
<1> USE DEF Inv
<1> DEFINE s == Head(prog)
<1>1. prog # <<>> /\ s.op = "link"
  BY DEF ChangePointer, At
<1>2. PICK g, k \in Knowledge :
        /\ Holds(g) /\ Allowed(Fitted, s, g)
        /\ k = After(s, g) /\ Whole(Fitted, Tail(prog), k)
  BY <1>1, MainFacts
<1>3. /\ linked \subseteq Cards /\ channels \subseteq Channels /\ enabled \subseteq Channels
      /\ running \in [Channels -> BOOLEAN] /\ TypeOK
  BY DEF TypeOK
<1>4. Synth \notin Cards /\ Synth \in Channels /\ Cards \subseteq Channels
  BY <1>3, MachineFacts
<1>5. ~ k.first
  BY <1>2, AfterFacts
<1>6. Holds(k)' /\ linked' \subseteq Fitted \cap Cards
  <2>1. /\ k.depth = g.depth /\ k.stopped = g.stopped /\ k.doomed = g.doomed /\ k.off = g.off
        /\ k.gone = g.gone /\ k.mute = g.mute /\ ~ k.bare
    BY <1>1, <1>2, AfterFacts
  <2>2. s.on \in Cards \cap Fitted /\ ~ g.stopped /\ g.doomed = {}
    BY <1>1, <1>2 DEF Allowed
  <2>3. linked' = linked \cup {s.on}
    BY <1>1 DEF ChangePointer, At, Subject
  <2>4. \A c \in linked' \cap enabled : running[c]
    BY <1>2, <2>2, <2>3 DEF Holds
  <2>5. Holds(k)'
    BY <1>2, <2>1, <2>2, <2>3, <2>4 DEF Holds, ChangePointer, queues, lock, MainDepth
  <2>6. QED
    BY <2>2, <2>3, <2>5 DEF TypeOK
<1>7. PlanInv' /\ prog' \in Seq(Steps) /\ ~ At("take")'
  BY <1>2, <1>5, <1>6, DonePlan DEF ChangePointer
<1>8. TypeOK'
  BY <1>6, <1>7 DEF TypeOK, ChangePointer, queues, lock, out, midi, Fitted, Block, Capacity
<1>9. LockInv' /\ RenderInv'
  BY DEF ChangePointer, queues, lock, out, midi, LockInv, RenderInv
<1>10. ChannelInv'
  BY <1>1 DEF ChangePointer, queues, lock, out, midi, ChannelInv, MixerAt, At
<1>11. CaptureInv'
  BY <1>7 DEF ChangePointer, CaptureInv, MixerAt, Fitted
<1>12. QED
  BY <1>7, <1>8, <1>9, <1>10, <1>11

LEMMA UnlinkStep ==
  ASSUME Inv, ChangePointer, At("unlink")
  PROVE  Inv'
<1> USE DEF Inv
<1> DEFINE s == Head(prog)
<1>1. prog # <<>> /\ s.op = "unlink"
  BY DEF ChangePointer, At
<1>2. PICK g, k \in Knowledge :
        /\ Holds(g) /\ Allowed(Fitted, s, g)
        /\ k = After(s, g) /\ Whole(Fitted, Tail(prog), k)
  BY <1>1, MainFacts
<1>3. /\ linked \subseteq Cards /\ channels \subseteq Channels /\ enabled \subseteq Channels
      /\ running \in [Channels -> BOOLEAN] /\ TypeOK
  BY DEF TypeOK
<1>4. Synth \notin Cards /\ Synth \in Channels /\ Cards \subseteq Channels
  BY <1>3, MachineFacts
<1>5. ~ k.first
  BY <1>2, AfterFacts
<1>6. Holds(k)' /\ linked' \subseteq linked /\ (ResetFirst = {} => ~ MixerAt("pull"))
  <2>1. /\ k.depth = g.depth /\ k.stopped = g.stopped /\ k.doomed = g.doomed \cup {s.on} /\ k.off = g.off
        /\ k.gone = g.gone /\ k.mute = g.mute /\ k.bare = g.bare
    BY <1>1, <1>2, AfterFacts
  <2>2. ResetFirst = {} => g.depth > 0
    BY <1>1, <1>2 DEF Allowed
  <2>3. linked' = linked \ {s.on}
    BY <1>1 DEF ChangePointer, At, Subject
  <2>4. linked' \cup k.doomed = (linked \cup g.doomed) \cup {s.on}
    BY <2>1, <2>3
  <2>5. s.on \in enabled => s.on \in linked \cup g.doomed
    <3>1. s.on \in Cards
      BY <1>1, <1>2 DEF Allowed
    <3>2. QED
      BY <1>2, <3>1 DEF Holds
  <2>6. (linked' \cup k.doomed) \cap enabled = (linked \cup g.doomed) \cap enabled
    BY <2>4, <2>5
  <2>7. Holds(k)'
    <3>1. g.depth = MainDepth' /\ enabled' = enabled /\ running' = running /\ channels' = channels
      BY <1>2 DEF Holds, ChangePointer, queues, lock, MainDepth
    <3>2. \A c \in linked' : c \in linked
      BY <2>3
    <3>3. ~ k.stopped => \A c \in (linked' \cup k.doomed) \cap enabled : running[c]
      BY <1>2, <2>1, <2>6 DEF Holds
    <3>4. enabled \cap Cards \subseteq linked' \cup k.doomed
      BY <1>2, <2>4 DEF Holds
    <3>5. k.bare => linked' = {}
      BY <1>2, <2>1, <2>3 DEF Holds
    <3>6. ~ (k.depth = 0 /\ ResetFirst = {})
      BY <2>1, <2>2
    <3>7. QED
      BY <1>2, <2>1, <3>1, <3>2, <3>3, <3>4, <3>5, <3>6 DEF Holds
  <2>8. ResetFirst = {} => ~ MixerAt("pull")
    <3>1. g.depth > 0 => holder = "main"
      BY <1>2 DEF Holds, MainDepth
    <3>2. QED
      BY <2>2, <3>1 DEF LockInv, MixerAt
  <2>9. QED
    BY <2>3, <2>7, <2>8
<1>7. PlanInv' /\ prog' \in Seq(Steps) /\ ~ At("take")'
  BY <1>2, <1>5, <1>6, DonePlan DEF ChangePointer
<1>8. TypeOK'
  BY <1>6, <1>7 DEF TypeOK, ChangePointer, queues, lock, out, midi, Fitted, Block, Capacity
<1>9. LockInv' /\ RenderInv'
  BY DEF ChangePointer, queues, lock, out, midi, LockInv, RenderInv
<1>10. ChannelInv'
  BY <1>6 DEF ChangePointer, queues, lock, out, midi, ChannelInv, MixerAt
<1>11. CaptureInv'
  BY <1>7 DEF ChangePointer, CaptureInv, MixerAt, Fitted
<1>12. QED
  BY <1>7, <1>8, <1>9, <1>10, <1>11

LEMMA DisableStep ==
  ASSUME Inv, ChangeChannel, At("disable")
  PROVE  Inv'
<1> USE DEF Inv
<1> DEFINE s == Head(prog)
<1>1. prog # <<>> /\ s.op = "disable"
  BY DEF ChangeChannel, At
<1>2. PICK g, k \in Knowledge :
        /\ Holds(g) /\ Allowed(Fitted, s, g)
        /\ k = After(s, g) /\ Whole(Fitted, Tail(prog), k)
  BY <1>1, MainFacts
<1>3. /\ linked \subseteq Cards /\ channels \subseteq Channels /\ enabled \subseteq Channels
      /\ running \in [Channels -> BOOLEAN] /\ TypeOK
  BY DEF TypeOK
<1>4. Synth \notin Cards /\ Synth \in Channels /\ Cards \subseteq Channels
  BY <1>3, MachineFacts
<1>5. ~ k.first
  BY <1>2, AfterFacts
<1>6. Holds(k)' /\ enabled' \subseteq enabled /\ UNCHANGED <<channels, size, running>>
  <2>1. /\ k.depth = g.depth /\ k.stopped = g.stopped /\ k.doomed = g.doomed \ {s.on}
        /\ k.off = g.off \cup {s.on}
        /\ k.gone = g.gone /\ k.mute = g.mute /\ k.bare = g.bare
    BY <1>1, <1>2, AfterFacts
  <2>2. enabled' = enabled \ {s.on} /\ UNCHANGED <<channels, size, running>>
    BY <1>1 DEF ChangeChannel, At, Subject
  <2>3. MainDepth' = MainDepth /\ linked' = linked
    BY DEF ChangeChannel, lock, MainDepth
  <2>4. (linked \cup k.doomed) \cap enabled' \subseteq (linked \cup g.doomed) \cap enabled
    BY <2>1, <2>2
  <2>5. enabled' \cap Cards \subseteq linked \cup k.doomed
    BY <1>2, <2>1, <2>2 DEF Holds
  <2>6. k.off \cap enabled' = {}
    BY <1>2, <2>1, <2>2 DEF Holds
  <2>7. Holds(k)'
    BY <1>2, <2>1, <2>2, <2>3, <2>4, <2>5, <2>6 DEF Holds
  <2>8. QED
    BY <2>2, <2>7
<1>7. PlanInv' /\ prog' \in Seq(Steps) /\ ~ At("take")'
  BY <1>2, <1>5, <1>6, DonePlan DEF ChangeChannel
<1>8. TypeOK'
  BY <1>6, <1>7 DEF TypeOK, ChangeChannel, lock, out, midi, Fitted, Block, Capacity
<1>9. LockInv' /\ RenderInv'
  BY DEF ChangeChannel, lock, out, midi, LockInv, RenderInv
<1>10. ChannelInv'
  BY <1>6 DEF ChangeChannel, lock, out, midi, ChannelInv, MixerAt
<1>11. CaptureInv'
  BY <1>7 DEF ChangeChannel, CaptureInv, MixerAt, Fitted
<1>12. QED
  BY <1>7, <1>8, <1>9, <1>10, <1>11

LEMMA EraseStep ==
  ASSUME Inv, ChangeChannel, At("erase")
  PROVE  Inv'
<1> USE DEF Inv
<1> DEFINE s == Head(prog)
<1>1. prog # <<>> /\ s.op = "erase"
  BY DEF ChangeChannel, At
<1>2. PICK g, k \in Knowledge :
        /\ Holds(g) /\ Allowed(Fitted, s, g)
        /\ k = After(s, g) /\ Whole(Fitted, Tail(prog), k)
  BY <1>1, MainFacts
<1>3. /\ linked \subseteq Cards /\ channels \subseteq Channels /\ enabled \subseteq Channels
      /\ running \in [Channels -> BOOLEAN] /\ TypeOK
  BY DEF TypeOK
<1>4. Synth \notin Cards /\ Synth \in Channels /\ Cards \subseteq Channels
  BY <1>3, MachineFacts
<1>5. ~ k.first
  BY <1>2, AfterFacts
<1>6. /\ Holds(k)' /\ channels' \subseteq channels /\ UNCHANGED <<enabled, size, running>>
      /\ ~ MixerAt("pull") /\ ~ MixerAt("mix")
  <2>1. /\ k.depth = g.depth /\ k.stopped = g.stopped /\ k.doomed = g.doomed /\ k.off = g.off
        /\ k.gone = g.gone \cup {s.on} /\ k.mute = g.mute /\ k.bare = g.bare
    BY <1>1, <1>2, AfterFacts
  <2>2. channels' = channels \ {s.on} /\ UNCHANGED <<enabled, size, running>>
    BY <1>1 DEF ChangeChannel, At, Subject
  <2>3. MainDepth' = MainDepth /\ linked' = linked
    BY DEF ChangeChannel, lock, MainDepth
  <2>4. k.gone \cap channels' = {}
    BY <1>2, <2>1, <2>2 DEF Holds
  <2>5. Holds(k)'
    BY <1>2, <2>1, <2>2, <2>3, <2>4 DEF Holds
  <2>6. g.depth > 0
    BY <1>1, <1>2 DEF Allowed
  <2>7. holder = "main"
    BY <1>2, <2>6 DEF Holds, MainDepth
  <2>8. QED
    BY <2>2, <2>5, <2>7 DEF LockInv, MixerAt
<1>7. PlanInv' /\ prog' \in Seq(Steps) /\ ~ At("take")'
  BY <1>2, <1>5, <1>6, DonePlan DEF ChangeChannel
<1>8. TypeOK'
  BY <1>6, <1>7 DEF TypeOK, ChangeChannel, lock, out, midi, Fitted, Block, Capacity
<1>9. LockInv' /\ RenderInv'
  BY DEF ChangeChannel, lock, out, midi, LockInv, RenderInv
<1>10. ChannelInv'
  BY <1>6 DEF ChangeChannel, lock, out, midi, ChannelInv, MixerAt
<1>11. CaptureInv'
  BY <1>7 DEF ChangeChannel, CaptureInv, MixerAt, Fitted
<1>12. QED
  BY <1>7, <1>8, <1>9, <1>10, <1>11

LEMMA RegisterStep ==
  ASSUME Inv, ChangeChannel, At("register")
  PROVE  Inv'
<1> USE DEF Inv
<1> DEFINE s == Head(prog)
<1>1. prog # <<>> /\ s.op = "register"
  BY DEF ChangeChannel, At
<1>2. PICK g, k \in Knowledge :
        /\ Holds(g) /\ Allowed(Fitted, s, g)
        /\ k = After(s, g) /\ Whole(Fitted, Tail(prog), k)
  BY <1>1, MainFacts
<1>3. /\ linked \subseteq Cards /\ channels \subseteq Channels /\ enabled \subseteq Channels
      /\ running \in [Channels -> BOOLEAN] /\ TypeOK
  BY DEF TypeOK
<1>4. Synth \notin Cards /\ Synth \in Channels /\ Cards \subseteq Channels
  BY <1>3, MachineFacts
<1>5. ~ k.first
  BY <1>2, AfterFacts
<1>6. /\ Holds(k)' /\ enabled' = enabled /\ channels \subseteq channels' /\ s.on \in Cards
      /\ channels' \subseteq Fitted \cap Channels /\ size' = [size EXCEPT ![s.on] = 0]
      /\ running' = [running EXCEPT ![s.on] = TRUE]
  <2>1. /\ k.depth = g.depth /\ k.stopped = g.stopped /\ k.doomed = g.doomed /\ k.off = g.off
        /\ k.gone = g.gone \ {s.on} /\ k.mute = g.mute /\ k.bare = g.bare
    BY <1>1, <1>2, AfterFacts
  <2>2. s.on \in Cards \cap Fitted /\ g.depth > 0
    BY <1>1, <1>2 DEF Allowed
  <2>3. /\ channels' = channels \cup {s.on} /\ enabled' = enabled
        /\ size' = [size EXCEPT ![s.on] = 0] /\ running' = [running EXCEPT ![s.on] = TRUE]
    BY <1>1 DEF ChangeChannel, At, Subject
  <2>4. MainDepth' = MainDepth /\ linked' = linked
    BY DEF ChangeChannel, lock, MainDepth
  <2>5. /\ \A c \in Channels : running[c] => running'[c]
        /\ running'[Synth] = running[Synth]
    BY <1>3, <1>4, <2>2, <2>3
  <2>6. k.gone \cap channels' = {} /\ (Synth \in channels' => Synth \in channels)
    BY <1>2, <1>4, <2>1, <2>2, <2>3 DEF Holds
  <2>7. Holds(k)'
    BY <1>2, <1>3, <1>4, <2>1, <2>2, <2>3, <2>4, <2>5, <2>6 DEF Holds
  <2>8. channels' \subseteq Fitted \cap Channels
    BY <1>4, <2>2, <2>3 DEF TypeOK
  <2>9. QED
    BY <2>2, <2>3, <2>7, <2>8
<1>7. PlanInv' /\ prog' \in Seq(Steps) /\ ~ At("take")'
  BY <1>2, <1>5, <1>6, DonePlan DEF ChangeChannel
<1>size. /\ size' \in [Channels -> Nat] /\ running' \in [Channels -> BOOLEAN]
       /\ \A c \in Channels : size'[c] <= Capacity(c)
  <2>1. size \in [Channels -> Nat] /\ \A c \in Channels : size[c] <= Capacity(c)
    BY DEF TypeOK
  <2>2. Capacity(s.on) \in Nat
    BY <1>3, CapacityType
  <2>3. QED
    BY <1>3, <1>4, <1>6, <2>1, <2>2
<1>8. TypeOK'
  <2>1. UNCHANGED <<fitted, linked, closing, holder, depth, mixer, quit, out, capture, midi>>
    BY DEF ChangeChannel, lock
  <2>2. QED
    BY <1>3, <1>6, <1>size, <1>7, <2>1 DEF TypeOK, out, midi, Fitted, Block, Capacity
<1>9. LockInv' /\ RenderInv'
  BY DEF ChangeChannel, lock, out, midi, LockInv, RenderInv
<1>10. ChannelInv'
  BY <1>6 DEF ChangeChannel, lock, out, midi, ChannelInv, MixerAt
<1>11. CaptureInv'
  BY <1>7 DEF ChangeChannel, CaptureInv, MixerAt, Fitted
<1>12. QED
  BY <1>7, <1>8, <1>9, <1>10, <1>11

LEMMA HaltStep ==
  ASSUME Inv, ChangeChannel, At("halt")
  PROVE  Inv'
<1> USE DEF Inv
<1> DEFINE s == Head(prog)
<1>1. prog # <<>> /\ s.op = "halt"
  BY DEF ChangeChannel, At
<1>2. PICK g, k \in Knowledge :
        /\ Holds(g) /\ Allowed(Fitted, s, g)
        /\ k = After(s, g) /\ Whole(Fitted, Tail(prog), k)
  BY <1>1, MainFacts
<1>3. /\ linked \subseteq Cards /\ channels \subseteq Channels /\ enabled \subseteq Channels
      /\ running \in [Channels -> BOOLEAN] /\ TypeOK
  BY DEF TypeOK
<1>4. Synth \notin Cards /\ Synth \in Channels /\ Cards \subseteq Channels
  BY <1>3, MachineFacts
<1>5. ~ k.first
  BY <1>2, AfterFacts
<1>6. /\ Holds(k)' /\ UNCHANGED <<channels, enabled, size>>
      /\ running' \in [Channels -> BOOLEAN]
  <2>1. /\ k.depth = g.depth /\ k.stopped = g.stopped /\ k.doomed = g.doomed /\ k.off = g.off
        /\ k.gone = g.gone /\ k.bare = g.bare /\ k.mute = g.mute
    BY <1>1, <1>2, AfterFacts
  <2>2. UNCHANGED <<channels, enabled, size>> /\ running' = [running EXCEPT ![s.on] = FALSE]
    BY <1>1 DEF ChangeChannel, At, Subject
  <2>3. MainDepth' = MainDepth /\ linked' = linked
    BY DEF ChangeChannel, lock, MainDepth
  <2>4. s.on \in g.off /\ s.on \in Cards
    BY <1>1, <1>2 DEF Allowed
  <2>5. /\ s.on \notin enabled /\ running'[Synth] = running[Synth]
        /\ \A c \in Channels : running'[c] => running[c]
        /\ \A c \in Channels \ {s.on} : running'[c] = running[c]
    BY <1>2, <1>3, <1>4, <2>2, <2>4 DEF Holds
  <2>6. \A c \in enabled : running'[c] = running[c]
    BY <1>3, <2>5
  <2>7. Holds(k)'
    BY <1>2, <1>3, <1>4, <2>1, <2>2, <2>3, <2>5, <2>6 DEF Holds
  <2>8. QED
    BY <1>3, <2>2, <2>7
<1>7. PlanInv' /\ prog' \in Seq(Steps) /\ ~ At("take")'
  BY <1>2, <1>5, <1>6, DonePlan DEF ChangeChannel
<1>8. TypeOK'
  BY <1>6, <1>7 DEF TypeOK, ChangeChannel, lock, out, midi, Fitted, Block, Capacity
<1>9. LockInv' /\ RenderInv'
  BY DEF ChangeChannel, lock, out, midi, LockInv, RenderInv
<1>10. ChannelInv'
  BY <1>6 DEF ChangeChannel, lock, out, midi, ChannelInv, MixerAt
<1>11. CaptureInv'
  BY <1>7 DEF ChangeChannel, CaptureInv, MixerAt, Fitted
<1>12. QED
  BY <1>7, <1>8, <1>9, <1>10, <1>11

LEMMA StopFifoStep ==
  ASSUME Inv, ChangeChannel, At("stopFifo")
  PROVE  Inv'
<1> USE DEF Inv
<1> DEFINE s == Head(prog)
<1>1. prog # <<>> /\ s.op = "stopFifo"
  BY DEF ChangeChannel, At
<1>2. PICK g, k \in Knowledge :
        /\ Holds(g) /\ Allowed(Fitted, s, g)
        /\ k = After(s, g) /\ Whole(Fitted, Tail(prog), k)
  BY <1>1, MainFacts
<1>3. /\ linked \subseteq Cards /\ channels \subseteq Channels /\ enabled \subseteq Channels
      /\ running \in [Channels -> BOOLEAN] /\ TypeOK
  BY DEF TypeOK
<1>4. Synth \notin Cards /\ Synth \in Channels /\ Cards \subseteq Channels
  BY <1>3, MachineFacts
<1>5. ~ k.first
  BY <1>2, AfterFacts
<1>6. /\ Holds(k)' /\ UNCHANGED <<channels, enabled, size>>
      /\ running' \in [Channels -> BOOLEAN]
  <2>1. /\ k.depth = g.depth /\ k.stopped = g.stopped /\ k.doomed = g.doomed /\ k.off = g.off
        /\ k.gone = g.gone /\ k.bare = g.bare /\ k.mute
    BY <1>1, <1>2, AfterFacts
  <2>2. UNCHANGED <<channels, enabled, size>> /\ running' = [running EXCEPT ![s.on] = FALSE]
    BY <1>1 DEF ChangeChannel, At, Subject
  <2>3. MainDepth' = MainDepth /\ linked' = linked
    BY DEF ChangeChannel, lock, MainDepth
  <2>4. s.on = Synth /\ g.depth # 0 /\ g.doomed \subseteq Cards
    BY <1>1, <1>2 DEF Allowed, Knowledge
  <2>5. ~ running'[Synth] /\ \A c \in Cards : running'[c] = running[c]
    BY <1>3, <1>4, <2>2, <2>4
  <2>6. Holds(k)'
    BY <1>2, <1>3, <2>1, <2>2, <2>3, <2>4, <2>5 DEF Holds
  <2>7. QED
    BY <1>3, <2>2, <2>6
<1>7. PlanInv' /\ prog' \in Seq(Steps) /\ ~ At("take")'
  BY <1>2, <1>5, <1>6, DonePlan DEF ChangeChannel
<1>8. TypeOK'
  BY <1>6, <1>7 DEF TypeOK, ChangeChannel, lock, out, midi, Fitted, Block, Capacity
<1>9. LockInv' /\ RenderInv'
  BY DEF ChangeChannel, lock, out, midi, LockInv, RenderInv
<1>10. ChannelInv'
  BY <1>6 DEF ChangeChannel, lock, out, midi, ChannelInv, MixerAt
<1>11. CaptureInv'
  BY <1>7 DEF ChangeChannel, CaptureInv, MixerAt, Fitted
<1>12. QED
  BY <1>7, <1>8, <1>9, <1>10, <1>11

LEMMA ChangeChannelStep ==
  ASSUME Inv, ChangeChannel
  PROVE  Inv'
<1>1. At("disable") \/ At("erase") \/ At("register") \/ At("halt") \/ At("stopFifo")
  BY DEF ChangeChannel
<1>2. QED
  BY <1>1, DisableStep, EraseStep, RegisterStep, HaltStep, StopFifoStep

LEMMA ChangePointerStep ==
  ASSUME Inv, ChangePointer
  PROVE  Inv'
<1>1. At("link") \/ At("unlink")
  BY DEF ChangePointer
<1>2. QED
  BY <1>1, LinkStep, UnlinkStep

\* Steps that change nothing that is known
LEMMA QuietPlan ==
  ASSUME PlanInv, Done, prog # <<>>, UNCHANGED <<fitted, linked, queues, lock>>,
         Head(prog).op \in {"stopWork", "joinRenderer", "joinMixer", "quit", "stopOutput", "send"}
  PROVE  PlanInv' /\ prog' \in Seq(Steps) /\ ~ At("take")' /\ ~ At("send")'
<1> DEFINE s == Head(prog)
<1>1. PICK g, k \in Knowledge :
        /\ Holds(g) /\ Allowed(Fitted, s, g)
        /\ k = After(s, g) /\ Whole(Fitted, Tail(prog), k)
  BY MainFacts
<1>2. /\ k.depth = g.depth /\ k.stopped = g.stopped /\ k.doomed = g.doomed /\ k.off = g.off
      /\ k.gone = g.gone /\ k.mute = g.mute /\ k.bare = g.bare /\ ~ k.first
  BY <1>1, AfterFacts
<1>3. Holds(k)'
  BY <1>1, <1>2 DEF Holds, MainDepth, queues, lock
<1>4. QED
  BY <1>1, <1>2, <1>3, DonePlan

LEMMA StopWorkStep ==
  ASSUME Inv, StopWork
  PROVE  Inv'
<1> USE DEF Inv
<1>1. prog # <<>> /\ Head(prog).op = "stopWork"
  BY DEF StopWork, At
<1>2. PlanInv' /\ prog' \in Seq(Steps) /\ ~ At("take")'
  BY <1>1, QuietPlan DEF StopWork
<1>3. TypeOK'
  <2>1. /\ workRunning' \in BOOLEAN
        /\ UNCHANGED <<fitted, closing, linked, queues, lock, mixer, quit, out, capture, work,
                       pending, lead, burst, renderer>>
    BY DEF StopWork
  <2>2. QED
    BY <1>2, <2>1 DEF TypeOK, queues, lock, out, Fitted, Block, Capacity
<1>4. LockInv' /\ RenderInv' /\ ChannelInv'
  BY DEF StopWork, queues, lock, out, LockInv, RenderInv, ChannelInv, MixerAt
<1>5. CaptureInv'
  BY <1>2 DEF StopWork, CaptureInv, MixerAt, Fitted
<1>6. QED
  BY <1>2, <1>3, <1>4, <1>5

LEMMA JoinStep ==
  ASSUME Inv, Join
  PROVE  Inv'
<1> USE DEF Inv
<1>1. prog # <<>> /\ Head(prog).op \in {"joinRenderer", "joinMixer"}
  BY DEF Join, At
<1>2. PlanInv' /\ prog' \in Seq(Steps) /\ ~ At("take")'
  BY <1>1, QuietPlan DEF Join
<1>3. TypeOK'
  BY <1>2 DEF TypeOK, Join, queues, lock, out, midi, Fitted, Block, Capacity
<1>4. LockInv' /\ RenderInv' /\ ChannelInv'
  BY DEF Join, queues, lock, out, midi, LockInv, RenderInv, ChannelInv, MixerAt
<1>5. CaptureInv'
  BY <1>2 DEF Join, CaptureInv, MixerAt, Fitted
<1>6. QED
  BY <1>2, <1>3, <1>4, <1>5

LEMMA CloseStepStep ==
  ASSUME Inv, CloseStep
  PROVE  Inv'
<1> USE DEF Inv
<1>1. prog # <<>> /\ Head(prog).op \in {"quit", "stopOutput"}
  BY DEF CloseStep, At
<1>2. PlanInv' /\ prog' \in Seq(Steps) /\ ~ At("take")'
  BY <1>1, QuietPlan DEF CloseStep
<1>3. TypeOK'
  <2>1. /\ quit' \in BOOLEAN /\ outputRunning' \in BOOLEAN
        /\ output' = output /\ callback' = callback
    BY DEF CloseStep, TypeOK
  <2>2. QED
    BY <1>2, <2>1 DEF TypeOK, CloseStep, queues, lock, midi, Fitted, Block, Capacity
<1>4. LockInv' /\ RenderInv' /\ ChannelInv'
  BY DEF CloseStep, queues, lock, midi, LockInv, RenderInv, ChannelInv, MixerAt
<1>5. CaptureInv'
  BY <1>2 DEF CloseStep, CaptureInv, MixerAt, Fitted
<1>6. QED
  BY <1>2, <1>3, <1>4, <1>5

LEMMA EnqueueWorkStep ==
  ASSUME Inv, EnqueueWork
  PROVE  Inv'
<1> USE DEF Inv
<1>1. prog # <<>> /\ Head(prog).op = "send" /\ At("send")
  BY DEF EnqueueWork, At
<1>2. PlanInv' /\ prog' \in Seq(Steps) /\ ~ At("take")'
  BY <1>1, QuietPlan DEF EnqueueWork
<1>3. work' \in Seq(0 .. MaxLead) /\ Len(work') <= WorkSize
  <2>1. Head(prog).n \in 0 .. MaxLead
    BY <1>1, OpeningRest
  <2>2. work \in Seq(0 .. MaxLead) /\ TypeOK
    BY DEF TypeOK
  <2>3. Len(work) \in Nat /\ WorkSize \in Nat
    BY <2>2, LenProperties, MachineFacts
  <2>4. work' = Append(work, Head(prog).n) /\ Len(work) < WorkSize
    BY DEF EnqueueWork
  <2>5. work' \in Seq(0 .. MaxLead) /\ Len(work') = Len(work) + 1
    BY <2>1, <2>2, <2>4, AppendProperties
  <2>6. QED
    BY <2>3, <2>4, <2>5
<1>4. TypeOK'
  <2>1. UNCHANGED <<fitted, closing, linked, queues, lock, mixer, quit, out, capture,
                    workRunning, pending, lead, burst, renderer>>
    BY DEF EnqueueWork
  <2>2. QED
    BY <1>2, <1>3, <2>1 DEF TypeOK, queues, lock, out, Fitted, Block, Capacity
<1>5. LockInv' /\ RenderInv' /\ ChannelInv'
  BY DEF EnqueueWork, queues, lock, out, LockInv, RenderInv, ChannelInv, MixerAt
<1>6. CaptureInv'
  BY <1>2 DEF EnqueueWork, CaptureInv, MixerAt, Fitted
<1>7. QED
  BY <1>2, <1>4, <1>5, <1>6

-----------------------------------------------------------------------------
(* The mixer thread *)

LEMMA MixerLoopStep ==
  ASSUME Inv, MixerLoop
  PROVE  Inv'
<1> USE DEF Inv
<1>1. PlanInv' /\ (At("take")' <=> At("take"))
  BY KeepPlan DEF MixerLoop, queues, lock, MainDepth
<1>2. TypeOK'
  BY DEF TypeOK, MixerLoop, queues, lock, out, midi, Fitted, Block, Capacity
<1>3. mixer.pc = "loop" /\ mixer'.pc \in {"lock", "done"}
  BY DEF MixerLoop, MixerAt, TypeOK
<1>4. LockInv' /\ ChannelInv' /\ RenderInv'
  BY <1>3 DEF MixerLoop, queues, lock, out, midi, LockInv, ChannelInv, RenderInv, MixerAt
<1>5. CaptureInv'
  BY <1>1, <1>3 DEF MixerLoop, CaptureInv, MixerAt, Fitted
<1>6. QED
  BY <1>1, <1>2, <1>4, <1>5

LEMMA MixerLocksStep ==
  ASSUME Inv, MixerLocks
  PROVE  Inv'
<1> USE DEF Inv
<1>1. holder = "none" /\ holder' = "mixer" /\ depth' = 1 /\ mixer.pc = "lock"
      /\ mixer' = [pc |-> "mix", todo |-> channels, at |-> "none", rem |-> 0]
  BY DEF MixerLocks, MixerAt, StillToMix
<1>2. PlanInv' /\ (At("take")' <=> At("take"))
  BY <1>1, KeepPlan DEF MixerLocks, queues, MainDepth
<1>3. channels \subseteq Channels /\ TypeOK
  BY DEF TypeOK
<1>4. 0 \in 0 .. Block
  BY <1>3, MachineFacts
<1>5. TypeOK'
  BY <1>1, <1>3, <1>4 DEF TypeOK, MixerLocks, queues, out, midi, Fitted, Block, Capacity
<1>6. LockInv' /\ ChannelInv' /\ RenderInv'
  BY <1>1 DEF MixerLocks, queues, out, midi, LockInv, ChannelInv, RenderInv, MixerAt
<1>7. CaptureInv'
  BY <1>1, <1>2 DEF MixerLocks, CaptureInv, MixerAt, Fitted
<1>8. QED
  BY <1>2, <1>5, <1>6, <1>7

\* A card that is enabled has its pointer.
LEMMA EnabledLinked ==
  ASSUME PlanInv, holder # "main", ResetFirst = {}, NEW c \in enabled \cap Cards
  PROVE  c \in linked
<1>1. PICK g \in Knowledge : Holds(g)
  BY DEF PlanInv
<1>2. g.doomed = {}
  BY <1>1 DEF Holds, MainDepth
<1>3. QED
  BY <1>1, <1>2 DEF Holds

LEMMA MixStep ==
  ASSUME Inv, Mix
  PROVE  Inv'
<1> USE DEF Inv
<1>1. mixer.pc = "mix" /\ holder = "mixer"
  BY DEF Mix, MixerAt, LockInv
<1>2. PICK c \in mixer.todo :
        mixer' = IF c \in enabled
                 THEN [pc |-> "pull", todo |-> mixer.todo \ {c}, at |-> c, rem |-> Block]
                 ELSE [mixer EXCEPT !.todo = @ \ {c}]
  BY DEF Mix
<1>3. PlanInv' /\ (At("take")' <=> At("take"))
  BY KeepPlan DEF Mix, queues, lock, MainDepth
<1>4. mixer.todo \subseteq Channels /\ TypeOK
  BY DEF TypeOK
<1>5. Block \in 0 .. Block /\ Block > 0
  BY <1>4, MachineFacts
<1>6. /\ mixer' \in [pc : {"loop", "lock", "mix", "pull", "record", "unlock", "out", "done"},
                     todo : SUBSET Channels, at : Channels \cup {"none"}, rem : 0 .. Block]
      /\ mixer'.pc \in {"mix", "pull"} /\ mixer'.todo \subseteq mixer.todo
      /\ mixer'.pc = "pull" => mixer'.at = c /\ c \in enabled /\ mixer'.rem = Block
  <2>1. CASE c \in enabled
    BY <1>2, <1>4, <1>5, <2>1
  <2>2. CASE c \notin enabled
    BY <1>1, <1>2, <2>2 DEF TypeOK
  <2>3. QED
    BY <2>1, <2>2
<1>7. TypeOK'
  BY <1>6 DEF TypeOK, Mix, queues, lock, out, midi, Fitted, Block, Capacity
<1>8. LockInv' /\ RenderInv'
  BY <1>1, <1>6 DEF Mix, lock, midi, LockInv, RenderInv
<1>9. ChannelInv'
  <2>1. mixer.todo \subseteq channels
    BY <1>1 DEF ChannelInv, MixerAt
  <2>2. c \in enabled /\ c \in Cards /\ ResetFirst = {} => c \in linked
    BY <1>1, EnabledLinked
  <2>3. channels' = channels /\ linked' = linked
    BY DEF Mix, queues
  <2>4. QED
    BY <1>2, <1>5, <1>6, <2>1, <2>2, <2>3 DEF ChannelInv, MixerAt
<1>10. CaptureInv'
  BY <1>1, <1>3, <1>6 DEF Mix, CaptureInv, MixerAt, Fitted
<1>11. QED
  BY <1>3, <1>7, <1>8, <1>9, <1>10

\* The steps of the mixer thread between two channels
LEMMA StillType ==
  ASSUME TypeOK
  PROVE  StillToMix(mixer.todo)
           \in [pc : {"loop", "lock", "mix", "pull", "record", "unlock", "out", "done"},
                todo : SUBSET Channels, at : Channels \cup {"none"}, rem : 0 .. Block]
<1>1. mixer.todo \subseteq Channels
  BY DEF TypeOK
<1>2. 0 \in 0 .. Block
  BY MachineFacts
<1>3. QED
  BY <1>1, <1>2 DEF StillToMix

\* With a block pulled the machine is less far ahead, and not at all when the
\* channel falls asleep.
BlockPulled ==
  /\ pending' = 0 /\ burst' \in 0 .. burst /\ burst' >= burst - Block
  /\ lead' \in 0 .. lead /\ (lead' = 0 \/ lead' < lead)
  /\ lead' >= lead - Block \/ MaySleep(Synth)

\* What a pull takes
LEMMA PullFacts ==
  ASSUME Inv, Pull
  PROVE  /\ mixer.pc = "pull" /\ mixer.at \in Channels /\ mixer.at \in channels
         /\ mixer.rem \in Nat /\ size[mixer.at] \in Nat
         /\ \E n \in Nat :
              /\ n > 0 /\ n <= size[mixer.at] /\ n <= mixer.rem
              /\ size' = [size EXCEPT ![mixer.at] = @ - n]
              /\ \/ n = mixer.rem /\ mixer' = StillToMix(mixer.todo)
                 \/ n < mixer.rem /\ mixer' = [mixer EXCEPT !.rem = @ - n] /\ n = size[mixer.at]
                    /\ UNCHANGED <<pending, lead, burst>>
              /\ mixer.at # Synth => UNCHANGED <<pending, lead, burst>>
              /\ n = mixer.rem /\ mixer.at = Synth => BlockPulled
<1>1. mixer.pc = "pull" /\ size[mixer.at] > 0
  BY DEF Pull, MixerAt
<1>2. mixer.at \in channels /\ mixer.rem > 0
  BY <1>1 DEF Inv, ChannelInv, MixerAt
<1>3. /\ channels \subseteq Channels /\ size \in [Channels -> Nat] /\ mixer.rem \in 0 .. Block
      /\ TypeOK
  BY DEF Inv, TypeOK
<1>4. mixer.rem \in Nat /\ mixer.at \in Channels /\ size[mixer.at] \in Nat
  BY <1>2, <1>3, MachineFacts
<1> DEFINE n == Least(size[mixer.at], mixer.rem)
<1>5. /\ n \in Nat /\ n > 0 /\ n <= size[mixer.at] /\ n <= mixer.rem
      /\ n # mixer.rem => n < mixer.rem /\ n = size[mixer.at]
  BY <1>1, <1>2, <1>4 DEF Least
<1>6. /\ size' = [size EXCEPT ![mixer.at] = @ - n]
      /\ mixer' = IF n = mixer.rem THEN StillToMix(mixer.todo)
                  ELSE [mixer EXCEPT !.rem = @ - n]
      /\ IF n = mixer.rem /\ mixer.at = Synth
         THEN /\ pending' = 0 /\ burst' = burst - Least(burst, Block)
              /\ lead' = IF enabled' = enabled THEN lead - Least(lead, Block) ELSE 0
         ELSE UNCHANGED <<pending, lead, burst>>
      /\ enabled' = enabled \/ MaySleep(mixer.at)
  BY DEF Pull
<1> HIDE DEF n
<1>7. n = mixer.rem /\ mixer.at = Synth => BlockPulled
  <2> SUFFICES ASSUME n = mixer.rem, mixer.at = Synth PROVE BlockPulled
    OBVIOUS
  <2>1. lead \in 0 .. MaxLead /\ burst \in 0 .. Burst /\ TypeOK
    BY DEF Inv, TypeOK
  <2>2. /\ lead \in Nat /\ burst \in Nat /\ Block \in Nat /\ Block > 0
    BY <2>1, MachineFacts
  <2>3. /\ lead - Least(lead, Block) \in 0 .. lead /\ lead - Least(lead, Block) >= lead - Block
        /\ lead - Least(lead, Block) = 0 \/ lead - Least(lead, Block) < lead
        /\ burst - Least(burst, Block) \in 0 .. burst /\ burst - Least(burst, Block) >= burst - Block
    BY <2>2 DEF Least
  <2>4. enabled' = enabled \/ MaySleep(Synth)
    BY <1>6
  <2>5. QED
    BY <1>6, <2>2, <2>3, <2>4 DEF BlockPulled
<1>8. QED
  BY <1>1, <1>2, <1>4, <1>5, <1>6, <1>7

LEMMA PullStep ==
  ASSUME Inv, Pull
  PROVE  Inv'
<1> USE DEF Inv
<1>1. mixer.pc = "pull" /\ mixer.at \in Channels /\ mixer.rem \in Nat /\ size[mixer.at] \in Nat
  BY PullFacts
<1>2. PICK n \in Nat :
        /\ n > 0 /\ n <= size[mixer.at] /\ n <= mixer.rem
        /\ size' = [size EXCEPT ![mixer.at] = @ - n]
        /\ \/ n = mixer.rem /\ mixer' = StillToMix(mixer.todo)
           \/ n < mixer.rem /\ mixer' = [mixer EXCEPT !.rem = @ - n]
              /\ UNCHANGED <<pending, lead, burst>>
        /\ mixer.at # Synth => UNCHANGED <<pending, lead, burst>>
        /\ n = mixer.rem /\ mixer.at = Synth => BlockPulled
  BY PullFacts
<1>3. enabled' \subseteq enabled
  BY DEF Pull
<1>4. PlanInv' /\ (At("take")' <=> At("take"))
  BY <1>3, KeepPlan DEF Pull, lock, MainDepth
<1>5. mixer' \in [pc : {"loop", "lock", "mix", "pull", "record", "unlock", "out", "done"},
                  todo : SUBSET Channels, at : Channels \cup {"none"}, rem : 0 .. Block]
  <2>1. CASE mixer' = StillToMix(mixer.todo)
    BY <2>1, StillType
  <2>2. CASE n < mixer.rem /\ mixer' = [mixer EXCEPT !.rem = @ - n]
    <3>1. Block \in Nat /\ mixer.rem \in 0 .. Block
      <4>1. mixer.rem \in 0 .. Block /\ TypeOK
        BY DEF TypeOK
      <4>2. QED
        BY <4>1, MachineFacts
    <3>2. mixer.rem - n \in 0 .. Block
      BY <1>1, <2>2, <3>1
    <3>3. QED
      BY <2>2, <3>2 DEF TypeOK
  <2>3. QED
    BY <1>2, <2>1, <2>2
<1>6. size' \in [Channels -> Nat] /\ \A c \in Channels : size'[c] <= Capacity(c)
  <2>1. size \in [Channels -> Nat] /\ (\A c \in Channels : size[c] <= Capacity(c)) /\ TypeOK
    BY DEF TypeOK
  <2>2. ASSUME NEW c \in Channels PROVE size'[c] \in Nat /\ size'[c] <= Capacity(c)
    <3>1. size[c] \in Nat /\ Capacity(c) \in Nat /\ size[c] <= Capacity(c)
      BY <2>1, CapacityType
    <3>2. CASE c = mixer.at
      BY <1>1, <1>2, <2>1, <3>1, <3>2
    <3>3. CASE c # mixer.at
      BY <1>1, <1>2, <2>1, <3>1, <3>3
    <3>4. QED
      BY <3>2, <3>3
  <2>3. QED
    BY <1>2, <2>1, <2>2
<1>7. lead' \in 0 .. MaxLead /\ pending' \in 0 .. lead' /\ burst' \in 0 .. Burst
  <2>1. lead \in 0 .. MaxLead /\ pending \in 0 .. lead /\ burst \in 0 .. Burst /\ TypeOK
    BY DEF TypeOK
  <2>2. MaxLead \in Nat /\ Burst \in Nat
    BY <2>1, MachineFacts
  <2>3. BlockPulled => lead' \in 0 .. MaxLead /\ pending' \in 0 .. lead' /\ burst' \in 0 .. Burst
    BY <2>1, <2>2 DEF BlockPulled
  <2>4. QED
    BY <1>2, <2>1, <2>3
<1>8. TypeOK'
  <2>1. Capacity(0)' = Capacity(0) /\ \A c : Capacity(c)' = Capacity(c)
    BY DEF Capacity, Block, Pull
  <2>2. QED
    BY <1>3, <1>5, <1>6, <1>7, <2>1 DEF TypeOK, Pull, lock, out, Fitted, Block
<1>9. /\ mixer'.pc \in {"mix", "pull"} /\ mixer'.todo = mixer.todo
      /\ mixer'.pc = "pull" => mixer'.at = mixer.at /\ mixer'.rem > 0
  <2>1. CASE mixer' = StillToMix(mixer.todo)
    BY <2>1 DEF StillToMix
  <2>2. CASE n < mixer.rem /\ mixer' = [mixer EXCEPT !.rem = @ - n]
    BY <1>1, <2>2 DEF TypeOK
  <2>3. QED
    BY <1>2, <2>1, <2>2
<1>10. LockInv' /\ RenderInv'
  BY <1>1, <1>9 DEF Pull, lock, LockInv, RenderInv
<1>11. ChannelInv'
  <2>1. UNCHANGED <<channels, linked>>
    BY DEF Pull
  <2>2. QED
    BY <1>1, <1>9, <2>1 DEF ChannelInv, MixerAt
<1>12. CaptureInv'
  <2>1. UNCHANGED <<prog, capture, fitted>>
    BY DEF Pull
  <2>2. QED
    BY <1>1, <1>4, <1>9, <2>1 DEF CaptureInv, MixerAt, Fitted
<1>13. QED
  BY <1>4, <1>8, <1>10, <1>11, <1>12

LEMMA AddSilenceStep ==
  ASSUME Inv, AddSilence
  PROVE  Inv'
<1> USE DEF Inv
<1>1. mixer.pc = "pull" /\ mixer' = StillToMix(mixer.todo)
  BY DEF AddSilence, MixerAt
<1>2. mixer'.pc = "mix" /\ mixer'.todo = mixer.todo
  BY <1>1 DEF StillToMix
<1>3. PlanInv' /\ (At("take")' <=> At("take"))
  BY KeepPlan DEF AddSilence, queues, lock, MainDepth
<1>4. TypeOK'
  BY <1>1, StillType DEF TypeOK, AddSilence, queues, lock, out, midi, Fitted, Block, Capacity
<1>5. LockInv' /\ ChannelInv' /\ RenderInv'
  BY <1>1, <1>2 DEF AddSilence, queues, lock, midi, LockInv, ChannelInv, RenderInv, MixerAt
<1>6. CaptureInv'
  BY <1>1, <1>2, <1>3 DEF AddSilence, CaptureInv, MixerAt, Fitted
<1>7. QED
  BY <1>3, <1>4, <1>5, <1>6

\* A queue that is cleared gets its block in the next step.
LEMMA MakeRoomStep ==
  ASSUME Inv, MakeRoom
  PROVE  Inv'
<1> USE DEF Inv
<1>1. /\ mixer.pc = "mix" /\ mixer' = [mixer EXCEPT !.pc = "record"]
      /\ "capture" \in Fitted
      /\ capture' = 0 \/ capture' = capture
  BY DEF MakeRoom, MixerAt
<1>2. mixer'.pc = "record"
  BY <1>1 DEF TypeOK
<1>3. PlanInv' /\ (At("take")' <=> At("take"))
  BY KeepPlan DEF MakeRoom, queues, lock, MainDepth
<1>4. capture' \in 0 .. CaptureSize
  <2>1. capture \in 0 .. CaptureSize /\ TypeOK
    BY DEF TypeOK
  <2>2. 0 \in 0 .. CaptureSize
    BY <2>1, MachineFacts
  <2>3. QED
    BY <1>1, <2>1, <2>2
<1>5. TypeOK'
  BY <1>1, <1>4 DEF TypeOK, MakeRoom, queues, lock, out, midi, Fitted, Block, Capacity
<1>6. LockInv' /\ ChannelInv' /\ RenderInv'
  BY <1>1, <1>2 DEF MakeRoom, queues, lock, midi, LockInv, ChannelInv, RenderInv, MixerAt
<1>7. CaptureInv'
  BY <1>1, <1>2, <1>3 DEF MakeRoom, CaptureInv, MixerAt, Fitted
<1>8. QED
  BY <1>3, <1>5, <1>6, <1>7

LEMMA RecordStep ==
  ASSUME Inv, Record
  PROVE  Inv'
<1> USE DEF Inv
<1>1. /\ mixer.pc = "record" /\ mixer' = [mixer EXCEPT !.pc = "unlock"]
      /\ capture' = Least(capture + Block, CaptureSize)
  BY DEF Record, MixerAt
<1>2. mixer'.pc = "unlock" /\ "capture" \in Fitted
  BY <1>1 DEF TypeOK, CaptureInv, MixerAt
<1>3. PlanInv' /\ (At("take")' <=> At("take"))
  BY KeepPlan DEF Record, queues, lock, MainDepth
<1>4. capture' \in 0 .. CaptureSize /\ capture' >= TickFrames
  <2>1. capture \in 0 .. CaptureSize /\ TypeOK
    BY DEF TypeOK
  <2>2. /\ Block \in Nat /\ CaptureSize \in Nat /\ TickFrames \in Nat
        /\ TickFrames <= Block /\ Block <= CaptureSize
    BY <1>2, <2>1, MachineFacts
  <2>3. QED
    BY <1>1, <2>1, <2>2 DEF Least
<1>5. TypeOK'
  BY <1>1, <1>4 DEF TypeOK, Record, queues, lock, out, midi, Fitted, Block, Capacity
<1>6. LockInv' /\ ChannelInv' /\ RenderInv'
  BY <1>1, <1>2 DEF Record, queues, lock, midi, LockInv, ChannelInv, RenderInv, MixerAt
<1>7. CaptureInv'
  <2>1. ASSUME At("take") PROVE capture' >= Head(prog).n
    <3>1. Head(prog).n \in 1 .. TickFrames
      BY <2>1, OpeningRest DEF At
    <3>2. TickFrames \in Nat /\ CaptureSize \in Nat
      BY MixerAssumption
    <3>3. QED
      BY <1>4, <3>1, <3>2
  <2>2. prog' = prog
    BY DEF Record
  <2>3. QED
    BY <1>2, <1>3, <2>1, <2>2 DEF CaptureInv, MixerAt
<1>8. QED
  BY <1>3, <1>5, <1>6, <1>7

LEMMA MixerUnlocksStep ==
  ASSUME Inv, MixerUnlocks
  PROVE  Inv'
<1> USE DEF Inv
<1>1. mixer.pc \in {"unlock", "mix"} /\ holder = "mixer" /\ holder' = "none" /\ depth' = 0
  BY DEF MixerUnlocks, MixerAt, LockInv
<1>2. PlanInv' /\ (At("take")' <=> At("take"))
  BY <1>1, KeepPlan DEF MixerUnlocks, queues, MainDepth
<1>3. /\ mixer' \in [pc : {"loop", "lock", "mix", "pull", "record", "unlock", "out", "done"},
                     todo : SUBSET Channels, at : Channels \cup {"none"}, rem : 0 .. Block]
      /\ mixer'.pc \in {"out", "loop"}
  <2>1. TypeOK
    OBVIOUS
  <2>2. Block \in 0 .. Block
    BY <2>1, MachineFacts
  <2>3. mixer' = [mixer EXCEPT !.pc = "out", !.rem = Block] \/ mixer' = [mixer EXCEPT !.pc = "loop"]
    BY DEF MixerUnlocks
  <2>4. QED
    BY <2>2, <2>3 DEF TypeOK
<1>4. TypeOK'
  <2>1. holder' \in {"none", "main", "mixer"} /\ depth' \in 0 .. 3
    BY <1>1
  <2>2. UNCHANGED <<fitted, prog, closing, linked, queues, quit, out, capture, midi>>
    BY DEF MixerUnlocks
  <2>3. QED
    BY <1>3, <2>1, <2>2 DEF TypeOK, queues, out, midi, Fitted, Block, Capacity
<1>5. LockInv' /\ ChannelInv' /\ RenderInv'
  BY <1>1, <1>3 DEF MixerUnlocks, midi, LockInv, ChannelInv, RenderInv, MixerAt
<1>6. CaptureInv'
  BY <1>1, <1>2, <1>3 DEF MixerUnlocks, CaptureInv, MixerAt, Fitted
<1>7. QED
  BY <1>2, <1>4, <1>5, <1>6

LEMMA PutOutputStep ==
  ASSUME Inv, PutOutput
  PROVE  Inv'
<1> USE DEF Inv
<1>1. mixer.pc = "out"
  BY DEF PutOutput, MixerAt
<1>2. PlanInv' /\ (At("take")' <=> At("take"))
  BY KeepPlan DEF PutOutput, queues, lock, MainDepth
<1>3. /\ mixer' \in [pc : {"loop", "lock", "mix", "pull", "record", "unlock", "out", "done"},
                     todo : SUBSET Channels, at : Channels \cup {"none"}, rem : 0 .. Block]
      /\ mixer'.pc \in {"out", "loop"} /\ output' \in 0 .. OutputSize
  <2>1. mixer.rem \in 0 .. Block /\ output \in 0 .. OutputSize /\ TypeOK
    BY DEF TypeOK
  <2>2. Block \in Nat /\ OutputSize \in Nat /\ mixer.rem \in Nat /\ output \in Nat
    BY <2>1, MachineFacts
  <2>3. CASE ~ outputRunning
    <3>1. mixer' = [mixer EXCEPT !.pc = "loop", !.rem = 0] /\ output' = output
      BY <2>3 DEF PutOutput
    <3>2. 0 \in 0 .. Block
      BY <2>2
    <3>3. QED
      BY <2>1, <3>1, <3>2 DEF TypeOK
  <2>4. CASE outputRunning
    <3> DEFINE n == Least(OutputSize - output, mixer.rem)
    <3>1. /\ output' = output + n
          /\ mixer' = [mixer EXCEPT !.rem = @ - n,
                                    !.pc = IF n = mixer.rem THEN "loop" ELSE "out"]
      BY <2>4 DEF PutOutput
    <3>2. /\ n \in Nat /\ mixer.rem - n \in 0 .. Block /\ output + n \in 0 .. OutputSize
      BY <2>1, <2>2 DEF Least
    <3> HIDE DEF n
    <3>3. QED
      BY <3>1, <3>2 DEF TypeOK
  <2>5. QED
    BY <2>3, <2>4
<1>4. TypeOK'
  BY <1>3 DEF TypeOK, PutOutput, queues, lock, midi, Fitted, Block, Capacity
<1>5. LockInv' /\ ChannelInv' /\ RenderInv'
  BY <1>1, <1>3 DEF PutOutput, lock, midi, LockInv, ChannelInv, RenderInv, MixerAt
<1>6. CaptureInv'
  BY <1>1, <1>2, <1>3 DEF PutOutput, CaptureInv, MixerAt, Fitted
<1>7. QED
  BY <1>2, <1>4, <1>5, <1>6

-----------------------------------------------------------------------------
(* The audio callback and the renderer *)

LEMMA OutputSteps ==
  ASSUME Inv, Callback \/ TakeOutput
  PROVE  Inv'
<1> USE DEF Inv
<1>1. /\ UNCHANGED <<fitted, prog, closing, linked, queues, lock, mixer, quit,
                     outputRunning, capture, midi>>
      /\ \/ output' = output /\ callback' = Least(output, Block)
         \/ \E n : /\ n = Least(output, callback)
                   /\ output' = output - n /\ callback' = callback - n
         \/ output' = output /\ callback' = 0
  BY DEF Callback, TakeOutput
<1>2. PlanInv' /\ (At("take")' <=> At("take"))
  BY <1>1, KeepPlan DEF queues, lock, MainDepth
<1>3. output' \in 0 .. OutputSize /\ callback' \in 0 .. Block
  <2>1. output \in 0 .. OutputSize /\ callback \in 0 .. Block /\ TypeOK
    BY DEF TypeOK
  <2>2. Block \in Nat /\ OutputSize \in Nat /\ callback \in Nat /\ output \in Nat
    BY <2>1, MachineFacts
  <2>3. QED
    BY <1>1, <2>1, <2>2 DEF Least
<1>4. TypeOK'
  <2>1. UNCHANGED <<fitted, prog, closing, linked, queues, lock, mixer, quit, outputRunning,
                    capture, midi>>
    BY <1>1
  <2>2. QED
    BY <1>3, <2>1 DEF TypeOK, queues, lock, midi, Fitted, Block, Capacity
<1>5. LockInv' /\ ChannelInv' /\ RenderInv'
  BY <1>1 DEF queues, lock, midi, LockInv, ChannelInv, RenderInv, MixerAt
<1>6. CaptureInv'
  BY <1>1, <1>2 DEF CaptureInv, MixerAt, Fitted
<1>7. QED
  BY <1>2, <1>4, <1>5, <1>6

\* What the renderer takes on
LEMMA RenderFacts ==
  ASSUME Inv, Render
  PROVE  /\ renderer.pc = "loop" /\ renderer.rem = 0
         /\ \/ work' = work /\ renderer' = [pc |-> "done", rem |-> 0]
            \/ work' = work /\ work = <<>> /\ renderer' = [pc |-> "put", rem |-> 1]
            \/ \E n \in 0 .. MaxLead :
                 /\ work # <<>> /\ work' = Tail(work)
                 /\ renderer' = [pc |-> IF n > 0 THEN "put" ELSE "loop", rem |-> n]
<1>1. renderer.pc = "loop" /\ renderer.rem = 0
  BY DEF Inv, RenderInv, Render
<1>2. work # <<>> => Head(work) \in 0 .. MaxLead
  BY HeadTailProperties DEF Inv, TypeOK
<1>3. QED
  BY <1>1, <1>2 DEF Render

LEMMA RenderStep ==
  ASSUME Inv, Render
  PROVE  Inv'
<1> USE DEF Inv
<1>1. PlanInv' /\ (At("take")' <=> At("take"))
  BY KeepPlan DEF Render, queues, lock, MainDepth
<1>2. /\ work' \in Seq(0 .. MaxLead) /\ Len(work') <= WorkSize
      /\ renderer' \in [pc : {"loop", "put", "done"}, rem : 0 .. MaxLead]
      /\ RenderInv'
  <2>1. /\ work \in Seq(0 .. MaxLead) /\ Len(work) <= WorkSize /\ TypeOK
    BY DEF TypeOK
  <2>2. MaxLead \in Nat /\ MaxLead > 0 /\ WorkSize \in Nat /\ Len(work) \in Nat
    BY <2>1, MachineFacts, LenProperties
  <2>3. CASE work' = work /\ renderer' = [pc |-> "done", rem |-> 0]
    BY <2>1, <2>2, <2>3 DEF RenderInv
  <2>4. CASE work' = work /\ renderer' = [pc |-> "put", rem |-> 1]
    BY <2>1, <2>2, <2>4 DEF RenderInv
  <2>5. ASSUME NEW n \in 0 .. MaxLead, work # <<>>, work' = Tail(work),
               renderer' = [pc |-> IF n > 0 THEN "put" ELSE "loop", rem |-> n]
        PROVE  /\ work' \in Seq(0 .. MaxLead) /\ Len(work') <= WorkSize
               /\ renderer' \in [pc : {"loop", "put", "done"}, rem : 0 .. MaxLead]
               /\ RenderInv'
    <3>1. work' \in Seq(0 .. MaxLead) /\ Len(work') = Len(work) - 1
      BY <2>1, <2>5, HeadTailProperties
    <3>2. n \in 0 .. MaxLead /\ (n > 0 \/ n = 0)
      BY <2>2
    <3>3. QED
      BY <2>1, <2>2, <2>5, <3>1, <3>2 DEF RenderInv
  <2>6. QED
    BY <2>3, <2>4, <2>5, RenderFacts
<1>3. TypeOK'
  <2>1. UNCHANGED <<fitted, prog, closing, linked, queues, lock, mixer, quit, out, capture,
                    workRunning, pending, lead, burst>>
    BY DEF Render
  <2>2. QED
    BY <1>2, <2>1 DEF TypeOK, queues, lock, out, Fitted, Block, Capacity
<1>4. LockInv' /\ ChannelInv'
  BY DEF Render, queues, lock, LockInv, ChannelInv, MixerAt
<1>5. CaptureInv'
  BY <1>1 DEF Render, CaptureInv, MixerAt, Fitted
<1>6. QED
  BY <1>1, <1>2, <1>3, <1>4, <1>5

\* What the renderer puts into the frame FIFO
LEMMA PutFacts ==
  ASSUME Inv, PutFrames
  PROVE  /\ renderer.pc = "put" /\ renderer.rem \in 1 .. MaxLead
         /\ size[Synth] \in Nat /\ size[Synth] <= FifoSize
         /\ \/ size' = size /\ renderer' = [pc |-> "loop", rem |-> 0]
            \/ \E n \in Nat :
                 /\ n > 0 /\ n <= renderer.rem /\ size[Synth] + n <= FifoSize
                 /\ size' = [size EXCEPT ![Synth] = @ + n]
                 /\ renderer' = [pc |-> IF n = renderer.rem THEN "loop" ELSE "put",
                                 rem |-> renderer.rem - n]
<1> USE DEF Inv
<1>1. /\ renderer.rem \in 0 .. MaxLead /\ size \in [Channels -> Nat] /\ TypeOK
      /\ \A c \in Channels : size[c] <= Capacity(c)
  BY DEF TypeOK
<1>2. MaxLead \in Nat /\ FifoSize \in Nat /\ Synth \in Channels
  BY <1>1, MachineFacts
<1>3. renderer.pc = "put" /\ renderer.rem > 0
  BY DEF PutFrames, RenderInv
<1>4. size[Synth] \in Nat /\ size[Synth] <= FifoSize
  BY <1>1, <1>2 DEF Capacity
<1>5. renderer.rem \in 1 .. MaxLead /\ renderer.rem \in Nat
  BY <1>1, <1>2, <1>3
<1>6. CASE ~ running[Synth]
  BY <1>3, <1>4, <1>5, <1>6 DEF PutFrames
<1>7. CASE running[Synth]
  <2> DEFINE n == Least(FifoSize - size[Synth], renderer.rem)
  <2>1. /\ size[Synth] < FifoSize
        /\ size' = [size EXCEPT ![Synth] = @ + n]
        /\ renderer' = [pc |-> IF n = renderer.rem THEN "loop" ELSE "put",
                        rem |-> renderer.rem - n]
    BY <1>7 DEF PutFrames
  <2>2. n \in Nat /\ n > 0 /\ n <= renderer.rem /\ size[Synth] + n <= FifoSize
    BY <1>2, <1>4, <1>5, <2>1 DEF Least
  <2> HIDE DEF n
  <2>3. QED
    BY <1>3, <1>4, <1>5, <2>1, <2>2
<1>8. QED
  BY <1>6, <1>7

LEMMA PutFramesStep ==
  ASSUME Inv, PutFrames
  PROVE  Inv'
<1> USE DEF Inv
<1>1. PlanInv' /\ (At("take")' <=> At("take"))
  BY KeepPlan DEF PutFrames, lock, MainDepth
<1>2. /\ size' \in [Channels -> Nat] /\ (\A c \in Channels : size'[c] <= Capacity(c))
      /\ renderer' \in [pc : {"loop", "put", "done"}, rem : 0 .. MaxLead]
      /\ RenderInv'
  <2>1. /\ size \in [Channels -> Nat] /\ (\A c \in Channels : size[c] <= Capacity(c)) /\ TypeOK
    BY DEF TypeOK
  <2>2. MaxLead \in Nat /\ FifoSize \in Nat /\ Synth \in Channels
    BY <2>1, MachineFacts
  <2>3. renderer.rem \in 1 .. MaxLead /\ size[Synth] \in Nat
    BY PutFacts
  <2>4. CASE size' = size /\ renderer' = [pc |-> "loop", rem |-> 0]
    BY <2>1, <2>2, <2>4 DEF RenderInv
  <2>5. ASSUME NEW n \in Nat, n > 0, n <= renderer.rem, size[Synth] + n <= FifoSize,
               size' = [size EXCEPT ![Synth] = @ + n],
               renderer' = [pc |-> IF n = renderer.rem THEN "loop" ELSE "put",
                            rem |-> renderer.rem - n]
        PROVE  /\ size' \in [Channels -> Nat] /\ (\A c \in Channels : size'[c] <= Capacity(c))
               /\ renderer' \in [pc : {"loop", "put", "done"}, rem : 0 .. MaxLead]
               /\ RenderInv'
    <3>1. size' \in [Channels -> Nat] /\ \A c \in Channels : size'[c] <= Capacity(c)
      BY <2>1, <2>2, <2>3, <2>5 DEF Capacity
    <3>2. renderer.rem - n \in 0 .. MaxLead
          /\ (n # renderer.rem => renderer.rem - n > 0) /\ (n = renderer.rem => renderer.rem - n = 0)
      BY <2>2, <2>3, <2>5
    <3>3. QED
      BY <2>5, <3>1, <3>2 DEF RenderInv
  <2>6. QED
    BY <2>4, <2>5, PutFacts
<1>3. TypeOK'
  <2>1. \A c : Capacity(c)' = Capacity(c)
    BY DEF Capacity, Block, PutFrames
  <2>2. UNCHANGED <<fitted, prog, closing, linked, channels, enabled, running, lock, mixer,
                    quit, out, capture, work, workRunning, pending, lead, burst>>
    BY DEF PutFrames
  <2>3. QED
    BY <1>2, <2>1, <2>2 DEF TypeOK, lock, out, Fitted, Block
<1>4. LockInv' /\ ChannelInv'
  BY DEF PutFrames, lock, LockInv, ChannelInv, MixerAt
<1>5. CaptureInv'
  BY <1>1 DEF PutFrames, CaptureInv, MixerAt, Fitted
<1>6. QED
  BY <1>1, <1>2, <1>3, <1>4, <1>5

-----------------------------------------------------------------------------
(* The invariant holds *)

LEMMA InitInv == Init => Inv
<1> SUFFICES ASSUME Init PROVE Inv
  OBVIOUS
<1>1. fitted \in Fittings /\ prog = <<>>
  BY DEF Init
<1>2. /\ Block \in Nat \ {0} /\ {TickFrames, OutputSize, FifoSize, WorkSize} \subseteq Nat \ {0}
      /\ MaxLead \in Nat \ {0} /\ {CaptureSize, Burst} \subseteq Nat
      /\ Synth \notin Cards /\ Synth \in Channels /\ Cards \subseteq Channels
  BY <1>1, MixerAssumption DEF Block, Channels
<1>3. TypeOK
  <2>1. size \in [Channels -> Nat] /\ running \in [Channels -> BOOLEAN]
    BY DEF Init
  <2>2. \A c \in Channels : size[c] <= Capacity(c)
    BY <1>2 DEF Init, Capacity
  <2>3. <<>> \in Seq(Steps) /\ <<>> \in Seq(0 .. MaxLead) /\ Len(<<>>) = 0
    OBVIOUS
  <2>4. mixer \in [pc : {"loop", "lock", "mix", "pull", "record", "unlock", "out", "done"},
                   todo : SUBSET Channels, at : Channels \cup {"none"}, rem : 0 .. Block]
    BY <1>2 DEF Init
  <2>5. renderer \in [pc : {"loop", "put", "done"}, rem : 0 .. MaxLead]
    BY <1>2 DEF Init
  <2>6. /\ output \in 0 .. OutputSize /\ callback \in 0 .. Block /\ capture \in 0 .. CaptureSize
        /\ lead \in 0 .. MaxLead /\ pending \in 0 .. lead /\ burst \in 0 .. Burst
        /\ Len(work) <= WorkSize
        /\ depth \in 0 .. 3
    BY <1>2, <2>3 DEF Init
  <2>7. /\ prog \in Seq(Steps) /\ work \in Seq(0 .. MaxLead)
        /\ closing \in BOOLEAN /\ quit \in BOOLEAN /\ outputRunning \in BOOLEAN
        /\ holder \in {"none", "main", "mixer"}
    BY <2>3 DEF Init
  <2>8. /\ linked \subseteq Fitted \cap Cards /\ channels \subseteq Fitted \cap Channels
        /\ enabled \subseteq Channels /\ workRunning \in BOOLEAN
    BY DEF Init
  <2>9. QED
    BY <1>1, <2>1, <2>2, <2>4, <2>5, <2>6, <2>7, <2>8 DEF TypeOK
<1>4. PlanInv
  <2>1. Whole(Fitted, prog, Fresh(FALSE)) /\ Fresh(FALSE) \in Knowledge
    BY <1>1, NothingLeads, FreshTypes
  <2>2. running[Synth]
    BY <1>2 DEF Init
  <2>3. Holds(Fresh(FALSE))
    BY <2>2 DEF Holds, Fresh, Know, MainDepth, Init
  <2>4. QED
    BY <2>1, <2>3 DEF PlanInv
<1>5. LockInv /\ ChannelInv /\ CaptureInv /\ RenderInv
  BY <1>1 DEF Init, LockInv, ChannelInv, CaptureInv, RenderInv, MixerAt, At
<1>6. QED
  BY <1>3, <1>4, <1>5 DEF Inv

LEMMA Inductive == Inv /\ [Next]_vars => Inv'
<1> SUFFICES ASSUME Inv, [Next]_vars PROVE Inv'
  OBVIOUS
<1>1. CASE Reconfigure \/ HaltCard \/ ShutDown \/ Exit \/ WakeUp \/ Tick \/ SendMidiMessage \/ Mute
  BY <1>1, ReconfigureStep, HaltCardStep, ShutDownStep, ExitStep, WakeUpStep, TickStep,
     SendMidiMessageStep, MuteStep
<1>2. CASE MainStep
  BY <1>2, StopCardsStep, StartCardsStep, ReleaseStep, ChangePointerStep, ChangeChannelStep,
     StopWorkStep, JoinStep, CloseStepStep, EnqueueWorkStep, AskForSizeStep, TakeCaptureStep
  DEF MainStep
<1>3. CASE Acquire \/ MixerLocks
  BY <1>3, AcquireStep, MixerLocksStep
<1>4. CASE MixerStep
  BY <1>4, MixerLoopStep, MixStep, PullStep, AddSilenceStep, MakeRoomStep, RecordStep,
     MixerUnlocksStep, PutOutputStep
  DEF MixerStep
<1>5. CASE Callback \/ TakeOutput \/ Render \/ PutFrames
  BY <1>5, OutputSteps, RenderStep, PutFramesStep
<1>6. CASE UNCHANGED vars
  <2> USE DEF Inv
  <2>1. UNCHANGED <<fitted, prog, closing, linked, channels, enabled, size, running, holder,
                    depth, mixer, quit, output, outputRunning, callback, capture, work,
                    workRunning, pending, lead, burst, renderer>>
    BY <1>6 DEF vars, queues, lock, out, midi
  <2>2. PlanInv' /\ (At("take")' <=> At("take"))
    BY <2>1, KeepPlan DEF MainDepth
  <2>3. TypeOK'
    BY <2>1 DEF TypeOK, Fitted, Block, Capacity
  <2>4. LockInv' /\ ChannelInv' /\ RenderInv'
    BY <2>1 DEF LockInv, ChannelInv, RenderInv, MixerAt
  <2>5. CaptureInv'
    BY <2>1, <2>2 DEF CaptureInv, MixerAt, Fitted
  <2>6. QED
    BY <2>2, <2>3, <2>4, <2>5
<1>7. QED
  BY <1>1, <1>2, <1>3, <1>4, <1>5, <1>6 DEF Next

THEOREM Invariant == Spec => []Inv
<1>1. QED
  BY InitInv, Inductive, PTL DEF Spec

\* NoDanglingChannel for any cards, machines and sizes, whatever order a
\* Destroy resets its pointer in: DeregisterChannel erases under the mutex, and
\* the mixer thread visits the channels it found when it took the mutex.
THEOREM NoChannelDangles == Spec => []NoDanglingChannel
<1>1. Inv => NoDanglingChannel
  BY DEF Inv, ChannelInv, NoDanglingChannel
<1>2. QED
  BY <1>1, Invariant, PTL

\* SilenceOnlyForALock: MIXER_LockMixerThread stops the queues, and between
\* that and the start of the queues the main thread goes for the mutex or has
\* it, in every operation, nested locks included.
THEOREM SilenceForALockOnly == Spec => SilenceOnlyForALock
<1> DEFINE A == AddSilence /\ mixer.at \in enabled => At("acquire") \/ holder = "main"
<1>1. ASSUME Inv, AddSilence, mixer.at \in enabled, holder # "main" PROVE At("acquire")
  <2>1. mixer.at \in channels /\ mixer.at \in Channels /\ ~ running[mixer.at]
    BY <1>1 DEF AddSilence, Inv, ChannelInv, TypeOK
  <2>2. PICK g \in Knowledge : Holds(g) /\ Whole(Fitted, prog, g)
    BY <1>1 DEF Inv, PlanInv
  <2>3. PICK h \in Knowledge : Leads(Fitted, prog, g, h) /\ Final(h)
    BY <2>2 DEF Whole
  <2>4. g.depth = 0
    BY <1>1, <2>2 DEF Holds, MainDepth
  <2>5. mixer.at # Synth
    <3>1. ASSUME mixer.at = Synth PROVE FALSE
      <4>1. g.mute /\ Synth \in g.gone
        BY <2>1, <2>2, <2>4, <3>1 DEF Holds
      <4>2. QED
        BY <2>1, <2>2, <3>1, <4>1 DEF Holds
    <3>2. QED
      BY <3>1
  <2>6. mixer.at \in linked \cup g.doomed
    BY <1>1, <2>1, <2>2, <2>5 DEF Holds, Channels
  <2>7. g.stopped
    BY <1>1, <2>1, <2>2, <2>6 DEF Holds
  <2>8. prog # <<>>
    <3>1. ASSUME prog = <<>> PROVE FALSE
      <4>1. h = g
        BY <2>3, <3>1, LeadsNothing
      <4>2. QED
        BY <2>3, <2>7, <4>1 DEF Final
    <3>2. QED
      BY <3>1
  <2>9. Allowed(Fitted, Head(prog), g)
    BY <2>3, <2>8, LeadsHead
  <2>10. QED
    BY <2>4, <2>7, <2>8, <2>9 DEF Allowed, At
<1>2. Inv => [A]_vars
  BY <1>1
<1>3. QED
  BY <1>2, Invariant, PTL DEF SilenceOnlyForALock

-----------------------------------------------------------------------------
(* How far the synthesizer may be behind *)

Sending == IF At("send") THEN 1 ELSE 0
Asked == IF At("send") THEN Head(prog).n ELSE 0

\* The frames of the block that the mixer thread is pulling which it has
Early == IF MixerAt("pull") /\ mixer.at = Synth THEN Block - mixer.rem ELSE 0

Most == FifoSize + 2 * MaxLead + Block

\* acc[i] are the frames rendered and to be rendered for the first i messages.
Backlog(acc) ==
  /\ acc \in [0 .. Len(work) -> Int]
  /\ acc[0] = size[Synth] + renderer.rem
  /\ \A i \in 1 .. Len(work) : acc[i] = acc[i - 1] + work[i]

\* The frames to come are bounded by the time that has passed; and for each
\* frame that has not been pulled there was a message at most, but for the burst.
InTime(acc) ==
  /\ acc[Len(work)] + Asked + pending + (MaxLead - lead) + Early <= Most
  /\ \A i \in 0 .. Len(work) : acc[i] + (Len(work) - i) + Sending + Early < Most + burst

Pace ==
  /\ \E acc : Backlog(acc) /\ InTime(acc)
  /\ At("send") => burst > 0 \/ lead < MaxLead

PaceInv ==
  (renderer.pc # "done" => Synth \in Fitted) /\ (Synth \in Fitted => Pace)

WorkType == work \in Seq(0 .. MaxLead)

Bounds ==
  /\ WorkType /\ Len(work) \in Nat
  /\ Sending \in {0, 1} /\ Asked \in Nat /\ Asked <= MaxLead
  /\ Early \in Nat /\ Early < Block
  /\ lead \in Nat /\ lead <= MaxLead /\ pending \in Nat /\ pending <= lead
  /\ burst \in Nat /\ burst <= Burst
  /\ size[Synth] \in Nat /\ size[Synth] <= FifoSize /\ renderer.rem \in Nat
  /\ mixer.rem \in Nat /\ Block \in Nat /\ Block > 0
  /\ FifoSize \in Nat /\ FifoSize > 0 /\ MaxLead \in Nat /\ MaxLead > 0
  /\ WorkSize \in Nat /\ Burst \in Nat

LEMMA PaceBounds == Inv => Bounds
<1> SUFFICES ASSUME Inv PROVE Bounds
  OBVIOUS
<1>1. /\ work \in Seq(0 .. MaxLead) /\ burst \in 0 .. Burst /\ TypeOK
      /\ lead \in 0 .. MaxLead /\ pending \in 0 .. lead
      /\ size \in [Channels -> Nat] /\ renderer.rem \in 0 .. MaxLead
      /\ mixer.rem \in 0 .. Block /\ \A c \in Channels : size[c] <= Capacity(c)
  BY DEF Inv, TypeOK
<1>2. /\ Block \in Nat /\ Block > 0 /\ FifoSize \in Nat /\ FifoSize > 0 /\ Burst \in Nat
      /\ MaxLead \in Nat /\ MaxLead > 0 /\ WorkSize \in Nat /\ Synth \in Channels
  BY <1>1, MachineFacts
<1>3. /\ Len(work) \in Nat /\ Sending \in {0, 1} /\ burst \in Nat /\ burst <= Burst
      /\ lead \in Nat /\ lead <= MaxLead /\ pending \in Nat /\ pending <= lead
      /\ size[Synth] \in Nat /\ renderer.rem \in Nat /\ mixer.rem \in Nat /\ mixer.rem <= Block
  BY <1>1, <1>2, LenProperties DEF Sending
<1>4. size[Synth] <= FifoSize
  BY <1>1, <1>2 DEF Capacity
<1>5. Asked \in Nat /\ Asked <= MaxLead
  <2>1. At("send") => Head(prog).n \in 0 .. MaxLead
    BY OpeningRest DEF Inv, At
  <2>2. QED
    BY <1>2, <2>1 DEF Asked
<1>6. Early \in Nat /\ Early < Block
  <2>1. MixerAt("pull") => mixer.rem > 0
    BY DEF Inv, ChannelInv
  <2>2. QED
    BY <1>2, <1>3, <2>1 DEF Early
<1>7. QED
  BY <1>1, <1>2, <1>3, <1>4, <1>5, <1>6 DEF Bounds, WorkType

LEMMA SynthTypes ==
  ASSUME Bounds
  PROVE  size[Synth] \in Int /\ renderer.rem \in Int /\ mixer.rem \in Int
BY DEF Bounds

\* Time passes, messages are asked for and frames are pulled, but none is
\* queued and none is begun.
LEMMA Drain ==
  ASSUME Bounds, Bounds', Pace, NEW d \in Nat, UNCHANGED <<fitted, work>>,
         size'[Synth] + renderer'.rem = size[Synth] + renderer.rem - d,
         Asked' + pending' - lead' + Early' - d <= Asked + pending - lead + Early,
         Sending' + Early' - burst' - d <= Sending + Early - burst,
         At("send")' => burst' > 0 \/ lead' < MaxLead
  PROVE  Pace'
<1>1. PICK acc : Backlog(acc) /\ InTime(acc)
  BY DEF Pace
<1>2. PICK L : L = Len(work)
  OBVIOUS
<1>3. PICK new : new = [i \in 0 .. L |-> acc[i] - d]
  OBVIOUS
<1>4. L \in Nat /\ Len(work') = L /\ acc \in [0 .. L -> Int]
  BY <1>1, <1>2 DEF Bounds, Backlog
<1>5. Most' = Most /\ Most \in Int
  <2>1. Most' = Most
    BY DEF Most, Block
  <2>2. FifoSize \in Int /\ MaxLead \in Int /\ Block \in Int
    BY DEF Bounds
  <2>3. QED
    BY <2>1, <2>2 DEF Most
<1>6. \A i \in 0 .. L : new[i] = acc[i] - d /\ acc[i] \in Int
  BY <1>3, <1>4
<1>7. Backlog(new)'
  <2>1. new \in [0 .. L -> Int]
    BY <1>3, <1>4
  <2>2. new[0] = size'[Synth] + renderer'.rem
    <3>1. 0 \in 0 .. L /\ acc[0] = size[Synth] + renderer.rem
      BY <1>1, <1>4 DEF Backlog
    <3>2. new[0] = (size[Synth] + renderer.rem) - d
      BY <1>6, <3>1
    <3>3. size[Synth] \in Int /\ renderer.rem \in Int
      BY DEF Bounds
    <3>4. QED
      BY <3>2, <3>3
  <2>3. ASSUME NEW i \in 1 .. L PROVE new[i] = new[i - 1] + work'[i]
    <3>1. i \in 0 .. L /\ i - 1 \in 0 .. L /\ acc[i] = acc[i - 1] + work[i]
      BY <1>1, <1>2, <1>4 DEF Backlog
    <3>2. work[i] \in 0 .. MaxLead /\ MaxLead \in Nat
      BY <1>2, ElementOfSeq DEF Bounds, WorkType
    <3>3. QED
      BY <1>6, <3>1, <3>2
  <2>4. QED
    BY <1>4, <2>1, <2>2, <2>3 DEF Backlog
<1>8. InTime(new)'
  <2>1. /\ {Asked, pending, lead, Early, burst, Sending, MaxLead} \subseteq Int
        /\ {Asked', pending', lead', Early', burst', Sending'} \subseteq Int
    <3>1. {Asked, pending, lead, Early, burst, Sending, MaxLead} \subseteq Int
      BY DEF Bounds
    <3>2. {Asked', pending', lead', Early', burst', Sending'} \subseteq Int
      BY DEF Bounds
    <3>3. QED
      BY <3>1, <3>2
  <2>2. new[L] + Asked' + pending' + (MaxLead - lead') + Early' <= Most'
    <3>1. acc[L] + Asked + pending + (MaxLead - lead) + Early <= Most
      BY <1>1, <1>2 DEF InTime
    <3>2. acc[L] \in Int /\ new[L] = acc[L] - d
      BY <1>4, <1>6
    <3>3. QED
      BY <1>5, <2>1, <3>1, <3>2
  <2>3. ASSUME NEW i \in 0 .. L PROVE new[i] + (L - i) + Sending' + Early' < Most' + burst'
    <3>1. acc[i] + (L - i) + Sending + Early < Most + burst
      BY <1>1, <1>2 DEF InTime
    <3>2. acc[i] \in Int /\ new[i] = acc[i] - d /\ L - i \in Int
      BY <1>4, <1>6
    <3>3. QED
      BY <1>5, <2>1, <3>1, <3>2
  <2>4. QED
    BY <1>4, <2>2, <2>3 DEF InTime
<1>9. QED
  BY <1>7, <1>8 DEF Pace

\* Nothing that counts is touched, and the mixer thread at most begins to pull
\* from the synthesizer.
LEMMA KeepPace ==
  ASSUME Bounds, Bounds', PaceInv, UNCHANGED <<fitted, work, burst, pending, lead>>,
         size'[Synth] = size[Synth], renderer'.rem = renderer.rem,
         renderer'.pc # "done" => renderer.pc # "done",
         prog' = prog \/ (Sending = 0 /\ Sending' = 0),
         mixer'.pc = "pull" /\ mixer'.at = Synth => mixer' = mixer \/ mixer'.rem = Block
  PROVE  PaceInv'
<1>1. Sending' = Sending /\ Asked' = Asked /\ (At("send")' <=> At("send"))
  BY DEF Sending, Asked, At
<1>2. Early' <= Early
  BY DEF Early, MixerAt, Block, Bounds
<1>3. ASSUME Pace PROVE Pace'
  <2>1. /\ {Asked, pending, lead, Early, Early', burst, Sending, size[Synth], renderer.rem}
             \subseteq Int
        /\ 0 \in Nat
    BY DEF Bounds
  <2>2. size'[Synth] + renderer'.rem = size[Synth] + renderer.rem - 0
    BY <2>1
  <2>3. Asked' + pending' - lead' + Early' - 0 <= Asked + pending - lead + Early
    BY <1>1, <1>2, <2>1
  <2>4. Sending' + Early' - burst' - 0 <= Sending + Early - burst
    BY <1>1, <1>2, <2>1
  <2>5. At("send")' => burst' > 0 \/ lead' < MaxLead
    BY <1>1, <1>3 DEF Pace
  <2>6. QED
    BY <1>3, <2>1, <2>2, <2>3, <2>4, <2>5, Drain
<1>4. QED
  BY <1>3 DEF PaceInv, Fitted

\* Nothing is queued: whatever is asked for, there is room.
LEMMA FreshStart ==
  ASSUME Bounds, Bounds', fitted' = fitted, Len(work') = 0, renderer'.rem + Early' <= Block,
         At("send")' => burst' > 0 \/ lead' < MaxLead
  PROVE  Pace'
<1>1. /\ size'[Synth] \in Nat /\ size'[Synth] <= FifoSize /\ renderer'.rem \in Nat
      /\ FifoSize \in Nat /\ Early' \in Nat /\ Block \in Nat
  BY DEF Bounds
<1>2. /\ {Asked', pending', lead', burst', Sending', Early'} \subseteq Nat
      /\ Asked' <= MaxLead /\ pending' <= lead' /\ Sending' <= 1
      /\ MaxLead \in Nat /\ MaxLead > 0 /\ FifoSize \in Nat /\ Block \in Nat
  BY DEF Bounds
<1>3. PICK s : s = size'[Synth] + renderer'.rem
  OBVIOUS
<1>4. s \in Int /\ s + Early' <= FifoSize + Block
  BY <1>1, <1>3
<1>5. Most' = FifoSize + 2 * MaxLead + Block
  BY DEF Most, Block
<1>6. s + Asked' + pending' + (MaxLead - lead') + Early' <= Most'
  BY <1>2, <1>4, <1>5
<1>7. s + (0 - 0) + Sending' + Early' < Most' + burst'
  BY <1>2, <1>4, <1>5
<1>8. PICK new : new = [i \in 0 .. 0 |-> s]
  OBVIOUS
<1>9. new \in [0 .. 0 -> Int] /\ new[0] = s /\ \A i \in 0 .. 0 : i = 0
  BY <1>4, <1>8
<1>10. Backlog(new)'
  BY <1>3, <1>9 DEF Backlog
<1>11. InTime(new)'
  BY <1>6, <1>7, <1>9 DEF InTime
<1>12. QED
  BY <1>10, <1>11 DEF Pace

\* After a step of a longer operation no message is sent.
LEMMA DoneSends ==
  ASSUME Inv, Done, prog # <<>>
  PROVE  Sending' = 0
<1>1. PICK g, k \in Knowledge :
        k = After(Head(prog), g) /\ Whole(Fitted, Tail(prog), k)
  BY MainFacts DEF Inv
<1>2. ~ k.first
  BY <1>1, AfterFacts
<1>3. Tail(prog) # <<>> => Head(Tail(prog)).op # "send"
  BY <1>1, <1>2, NotFirst
<1>4. QED
  BY <1>3 DEF Sending, At, Done

LEMMA BeginSends ==
  ASSUME Inv, Reconfigure \/ HaltCard \/ ShutDown
  PROVE  \E p : Begin(p) /\ (p # <<>> => Head(p).op # "send")
<1>1. ASSUME NEW p, Begin(p), Whole(Fitted, p, Fresh(TRUE)) \/ Whole(Fitted, p, Fresh(FALSE))
      PROVE  \E q : Begin(q) /\ (q # <<>> => Head(q).op # "send")
  <2>1. p # <<>> => Head(p).op # "send"
    BY <1>1, FreshFirst
  <2>2. QED
    BY <1>1, <2>1
<1>2. linked \subseteq Cards
  BY DEF Inv, TypeOK
<1>3. CASE Begin(LockMixerThread \o UnlockMixerThread)
  BY <1>1, <1>3, LockUnlockLeads
<1>4. ASSUME NEW c \in linked, Begin(Destroy(c)) PROVE \E q : Begin(q) /\ (q # <<>> => Head(q).op # "send")
  BY <1>1, <1>2, <1>4, DestroyLeads
<1>5. ASSUME NEW c \in (Fitted \cap Cards) \ channels, Begin(Create(c))
      PROVE  \E q : Begin(q) /\ (q # <<>> => Head(q).op # "send")
  <2>1. c \in Cards \cap Fitted
    BY <1>5
  <2>2. QED
    BY <1>1, <1>5, <2>1, CreateLeads
<1>6. ASSUME NEW c \in linked, Begin(Halt(c)) PROVE \E q : Begin(q) /\ (q # <<>> => Head(q).op # "send")
  BY <1>1, <1>2, <1>6, HaltLeads
<1>7. CASE Begin(DestroySynth)
  BY <1>1, <1>7, DestroySynthLeads
<1>8. CASE Begin(CloseAudioDevice)
  BY <1>1, <1>8, CloseLeads
<1>9. QED
  BY <1>3, <1>4, <1>5, <1>6, <1>7, <1>8 DEF Reconfigure, HaltCard, ShutDown

\* The operations but SendMidiMessage
LEMMA OperationPace ==
  ASSUME Inv, Bounds, Bounds', PaceInv,
         Reconfigure \/ HaltCard \/ ShutDown \/ Exit \/ WakeUp \/ Tick \/ Mute
  PROVE  PaceInv'
<1>1. CASE Reconfigure \/ HaltCard \/ ShutDown
  <2>1. PICK p : Begin(p) /\ (p # <<>> => Head(p).op # "send")
    BY <1>1, BeginSends
  <2>2. Sending = 0 /\ Sending' = 0
    BY <2>1 DEF Sending, At, Begin, Idle
  <2>3. UNCHANGED <<fitted, work, burst, pending, lead, size, renderer, mixer>>
    BY <2>1 DEF Begin, queues, midi
  <2>4. QED
    BY <2>2, <2>3, KeepPace
<1>2. CASE Exit \/ WakeUp \/ Mute
  <2>1. UNCHANGED <<fitted, prog, work, burst, pending, lead, size, renderer, mixer>>
    BY <1>2 DEF Exit, WakeUp, Mute, queues, midi
  <2>2. QED
    BY <2>1, KeepPace
<1>3. CASE Tick
  <2>1. UNCHANGED <<fitted, work, burst, renderer, mixer>>
    BY <1>3 DEF Tick
  <2>2. ~ At("send") /\ ~ At("send")'
    BY <1>3 DEF At, Tick, Idle, Do
  <2>3. linked \subseteq Cards /\ TypeOK
    BY DEF Inv, TypeOK
  <2>4. Synth \notin Cards /\ Synth \in Channels
    BY <2>3, MachineFacts
  <2>5. size'[Synth] = size[Synth]
    BY <1>3, <2>3, <2>4 DEF Tick
  <2>6. pending' - lead' = pending - lead
    BY <1>3, <2>3, TickTime
  <2>7. Asked = 0 /\ Asked' = 0 /\ Sending = 0 /\ Sending' = 0 /\ Early' = Early
    BY <2>1, <2>2 DEF Asked, Sending, Early, MixerAt, Block
  <2>8. /\ {pending, lead, burst, Early, size[Synth], renderer.rem} \subseteq Int
        /\ {pending', lead'} \subseteq Int
    <3>1. pending \in Int /\ lead \in Int /\ burst \in Int /\ Early \in Int
      BY DEF Bounds
    <3>2. {pending', lead'} \subseteq Int
      BY DEF Bounds
    <3>3. QED
      BY <3>1, <3>2, SynthTypes
  <2>9. /\ size'[Synth] + renderer'.rem = size[Synth] + renderer.rem - 0
        /\ Asked' + pending' - lead' + Early' - 0 <= Asked + pending - lead + Early
        /\ Sending' + Early' - burst' - 0 <= Sending + Early - burst
    BY <2>1, <2>5, <2>6, <2>7, <2>8
  <2>10. Pace => Pace'
    BY <2>1, <2>2, <2>9, Drain
  <2>11. QED
    BY <2>1, <2>10 DEF PaceInv, Fitted
<1>4. QED
  BY <1>1, <1>2, <1>3

\* A message is asked for: it carries the time that has passed, and is counted.
LEMMA SendMidiMessagePace ==
  ASSUME Inv, Bounds, Bounds', PaceInv, SendMidiMessage
  PROVE  PaceInv'
<1>1. /\ UNCHANGED <<fitted, work, size, renderer, mixer, lead>> /\ burst' = burst + 1
      /\ pending' = 0
  BY DEF SendMidiMessage
<1>2. ~ At("send") /\ At("send")' /\ (Head(prog').n = pending \/ Head(prog').n = 0)
  BY DEF At, SendMidiMessage, Idle, DoN
<1>3. /\ Asked = 0 /\ Sending = 0 /\ Sending' = 1 /\ Early' = Early
      /\ Asked' = pending \/ Asked' = 0
  BY <1>1, <1>2 DEF Asked, Sending, Early, MixerAt, Block
<1>4. {pending, lead, burst, Early, size[Synth], renderer.rem} \subseteq Nat /\ 0 \in Nat
  BY DEF Bounds
<1>5. /\ size'[Synth] + renderer'.rem = size[Synth] + renderer.rem - 0
      /\ Asked' + pending' - lead' + Early' - 0 <= Asked + pending - lead + Early
      /\ Sending' + Early' - burst' - 0 <= Sending + Early - burst
      /\ burst' > 0
  BY <1>1, <1>3, <1>4
<1>6. Pace => Pace'
  BY <1>1, <1>4, <1>5, Drain
<1>7. QED
  BY <1>1, <1>6 DEF PaceInv, Fitted

\* The message is queued: behind it there is only what it carries itself.
LEMMA EnqueueWorkPace ==
  ASSUME Inv, Bounds, Bounds', PaceInv, EnqueueWork
  PROVE  PaceInv'
<1>1. /\ UNCHANGED <<fitted, burst, pending, lead, size, renderer, mixer>> /\ Done
      /\ At("send") /\ work' = Append(work, Head(prog).n)
  BY DEF EnqueueWork, queues
<1> SUFFICES ASSUME Pace PROVE Pace'
  BY <1>1 DEF PaceInv, Fitted
<1>2. Sending = 1 /\ Sending' = 0 /\ ~ At("send")' /\ Early' = Early /\ Most' = Most
  BY <1>1, DoneSends DEF Sending, At, Early, MixerAt, Most, Block
<1>3. PICK acc : Backlog(acc) /\ InTime(acc)
  BY DEF Pace
<1>4. PICK L, n : L = Len(work) /\ n = Head(prog).n
  OBVIOUS
<1>5. /\ L \in Nat /\ n \in Nat /\ Asked = n /\ Asked' = 0 /\ acc \in [0 .. L -> Int]
      /\ n \in 0 .. MaxLead
  <2>1. Asked = n /\ Asked' = 0
    BY <1>1, <1>2, <1>4 DEF Asked
  <2>2. L \in Nat /\ Asked \in Nat /\ Asked <= MaxLead /\ MaxLead \in Nat
    BY <1>4 DEF Bounds
  <2>3. acc \in [0 .. L -> Int]
    BY <1>3, <1>4 DEF Backlog
  <2>4. QED
    BY <2>1, <2>2, <2>3
<1>6. /\ Len(work') = L + 1 /\ work'[L + 1] = n
      /\ \A i \in 1 .. L : work'[i] = work[i]
  BY <1>1, <1>4, <1>5, AppendProperties DEF Bounds, WorkType
<1>7. PICK new : new = [i \in 0 .. (L + 1) |-> IF i = L + 1 THEN acc[L] + n ELSE acc[i]]
  OBVIOUS
<1>8. /\ new \in [0 .. (L + 1) -> Int] /\ new[L + 1] = acc[L] + n /\ acc[L] \in Int
      /\ \A i \in 0 .. L : new[i] = acc[i] /\ acc[i] \in Int
  BY <1>5, <1>7
<1>9. Backlog(new)'
  <2>1. new[0] = size'[Synth] + renderer'.rem
    BY <1>1, <1>3, <1>5, <1>8 DEF Backlog
  <2>2. ASSUME NEW i \in 1 .. (L + 1) PROVE new[i] = new[i - 1] + work'[i]
    <3>1. CASE i = L + 1
      <4>1. i - 1 = L /\ L \in 0 .. L
        BY <1>5, <3>1
      <4>2. QED
        BY <1>6, <1>8, <3>1, <4>1
    <3>2. CASE i \in 1 .. L
      <4>1. i \in 0 .. L /\ i - 1 \in 0 .. L /\ acc[i] = acc[i - 1] + work[i]
        BY <1>3, <1>4, <1>5, <3>2 DEF Backlog
      <4>2. QED
        BY <1>6, <1>8, <3>2, <4>1
    <3>3. QED
      BY <1>5, <3>1, <3>2
  <2>3. QED
    BY <1>6, <1>8, <2>1, <2>2 DEF Backlog
<1>10. InTime(new)'
  <2>1. {pending, lead, burst, Early, MaxLead, Most} \subseteq Int /\ burst >= 0 /\ pending >= 0
        /\ lead <= MaxLead
    BY DEF Bounds, Most
  <2>2. acc[L] + n + pending + (MaxLead - lead) + Early <= Most
    BY <1>3, <1>4, <1>5 DEF InTime
  <2>3. burst > 0 \/ lead < MaxLead
    BY <1>1 DEF Pace
  <2>4. new[L + 1] + 0 + pending + (MaxLead - lead) + Early <= Most
    BY <1>5, <1>8, <2>1, <2>2
  <2>5. ASSUME NEW i \in 0 .. (L + 1)
        PROVE  new[i] + ((L + 1) - i) + 0 + Early < Most + burst
    <3>1. CASE i = L + 1
      <4>1. acc[L] + n + Early < Most + burst
        <5>1. acc[L] \in Int /\ n \in Int
          BY <1>5, <1>8
        <5>2. CASE burst > 0
          BY <2>1, <2>2, <5>1, <5>2
        <5>3. CASE lead < MaxLead
          BY <2>1, <2>2, <5>1, <5>3
        <5>4. QED
          BY <2>3, <5>2, <5>3
      <4>2. (L + 1) - i = 0 /\ new[i] = acc[L] + n /\ acc[L] + n \in Int
        BY <1>5, <1>8, <3>1
      <4>3. QED
        BY <2>1, <4>1, <4>2
    <3>2. CASE i \in 0 .. L
      <4>1. acc[i] + (L - i) + 1 + Early < Most + burst
        BY <1>2, <1>3, <1>4, <3>2 DEF InTime
      <4>2. new[i] = acc[i] /\ acc[i] \in Int
        BY <1>8, <3>2
      <4>3. QED
        BY <1>5, <2>1, <3>2, <4>1, <4>2
    <3>3. QED
      BY <1>5, <3>1, <3>2
  <2>6. QED
    BY <1>1, <1>2, <1>5, <1>6, <2>4, <2>5 DEF InTime
<1>11. QED
  BY <1>2, <1>9, <1>10 DEF Pace

\* The other steps of the main thread
LEMMA MainPace ==
  ASSUME Inv, Bounds, Bounds', PaceInv, MainStep \/ Acquire, ~ EnqueueWork
  PROVE  PaceInv'
<1>1. UNCHANGED <<fitted, work, burst, pending, lead, renderer, mixer>>
  BY DEF MainStep, Acquire, StopCards, StartCards, Release, ChangePointer, ChangeChannel,
         StopWork, Join, CloseStep, AskForSize, TakeCapture, midi
<1>2. prog # <<>> /\ Head(prog).op # "send"
  BY DEF MainStep, Acquire, StopCards, StartCards, Release, ChangePointer, ChangeChannel,
         StopWork, Join, CloseStep, AskForSize, TakeCapture, At
<1>3. Done \/ prog' = <<>> \/ \E n : prog' = DoN("take", n)
  BY DEF MainStep, Acquire, StopCards, StartCards, Release, ChangePointer, ChangeChannel,
         StopWork, Join, CloseStep, AskForSize, TakeCapture
<1>4. Sending = 0
  BY <1>2 DEF Sending, At
<1>5. Sending' = 0
  <2>1. CASE Done
    BY <1>2, <2>1, DoneSends
  <2>2. CASE prog' = <<>>
    BY <2>2 DEF Sending, At
  <2>3. CASE \E n : prog' = DoN("take", n)
    BY <2>3 DEF Sending, At, DoN
  <2>4. QED
    BY <1>3, <2>1, <2>2, <2>3
<1>6. size'[Synth] = size[Synth]
  <2>1. CASE ChangeChannel /\ At("register")
    <3>1. PICK g \in Knowledge : Allowed(Fitted, Head(prog), g)
      BY <1>2, MainFacts DEF Inv
    <3>2. Subject \in Cards
      BY <2>1, <3>1 DEF Allowed, At, Subject
    <3>3. Synth \notin Cards /\ size \in [Channels -> Nat] /\ Synth \in Channels
      BY MixerAssumption DEF Inv, TypeOK, Channels
    <3>4. size' = [size EXCEPT ![Subject] = 0]
      BY <2>1 DEF ChangeChannel, At
    <3>5. QED
      BY <3>2, <3>3, <3>4
  <2>2. CASE ~ (ChangeChannel /\ At("register"))
    <3>1. size' = size
      BY <2>2 DEF MainStep, Acquire, StopCards, StartCards, Release, ChangePointer, ChangeChannel,
             StopWork, Join, CloseStep, AskForSize, TakeCapture, queues
    <3>2. QED
      BY <3>1
  <2>3. QED
    BY <2>1, <2>2
<1>7. QED
  BY <1>1, <1>4, <1>5, <1>6, KeepPace

LEMMA MixPace ==
  ASSUME Inv, Bounds, Bounds', PaceInv, Mix
  PROVE  PaceInv'
<1>1. UNCHANGED <<fitted, prog, work, burst, pending, lead, size, renderer>>
  BY DEF Mix, queues, midi
<1>2. mixer'.pc = "pull" => mixer'.rem = Block
  BY DEF Mix, MixerAt, Inv, TypeOK
<1>3. QED
  BY <1>1, <1>2, KeepPace

\* Frames are pulled, and with the last of a block the time is noted.
LEMMA PullPace ==
  ASSUME Inv, Bounds, Bounds', PaceInv, Pull
  PROVE  PaceInv'
<1>1. mixer.pc = "pull" /\ mixer.at \in Channels /\ mixer.rem \in Nat /\ size[mixer.at] \in Nat
  BY PullFacts
<1>2. PICK n \in Nat :
        /\ n > 0 /\ n <= size[mixer.at] /\ n <= mixer.rem
        /\ size' = [size EXCEPT ![mixer.at] = @ - n]
        /\ \/ n = mixer.rem /\ mixer' = StillToMix(mixer.todo)
           \/ n < mixer.rem /\ mixer' = [mixer EXCEPT !.rem = @ - n]
              /\ UNCHANGED <<pending, lead, burst>>
        /\ mixer.at # Synth => UNCHANGED <<pending, lead, burst>>
        /\ n = mixer.rem /\ mixer.at = Synth => BlockPulled
  BY PullFacts
<1>3. UNCHANGED <<fitted, prog, work, renderer>>
  BY DEF Pull
<1>4. Sending' = Sending /\ Asked' = Asked /\ (At("send")' <=> At("send"))
  BY <1>3 DEF Sending, Asked, At
<1>5. size \in [Channels -> Nat] /\ Synth \in Channels
  BY DEF Inv, TypeOK, Channels
<1>6. StillToMix(mixer.todo).pc = "mix" /\ [mixer EXCEPT !.rem = @ - n].at = mixer.at
      /\ [mixer EXCEPT !.rem = @ - n].rem = mixer.rem - n
      /\ [mixer EXCEPT !.rem = @ - n].pc = mixer.pc
  BY DEF StillToMix, Inv, TypeOK
<1>7. CASE mixer.at # Synth
  <2>1. size'[Synth] = size[Synth] /\ UNCHANGED <<pending, lead, burst>>
    BY <1>1, <1>2, <1>5, <1>7
  <2>2. ~ (mixer'.pc = "pull" /\ mixer'.at = Synth)
    BY <1>2, <1>6, <1>7
  <2>3. QED
    BY <1>3, <2>1, <2>2, KeepPace
<1>8. CASE mixer.at = Synth
  <2>1. size'[Synth] = size[Synth] - n
    BY <1>1, <1>2, <1>5, <1>8
  <2> SUFFICES ASSUME Pace PROVE Pace'
    BY <1>3 DEF PaceInv, Fitted
  <2>2. /\ {Asked, Sending, pending, lead, burst, Early, size[Synth], renderer.rem, mixer.rem,
            Block, MaxLead, n} \subseteq Int
        /\ {pending', lead', burst', Early'} \subseteq Int
        /\ MaxLead > 0 /\ Block > 0 /\ lead <= MaxLead /\ pending >= 0
    <3>1. {Asked, Sending, pending, lead, burst, Early} \subseteq Int
      BY DEF Bounds
    <3>2. Block \in Int /\ MaxLead \in Int
      BY DEF Bounds
    <3>3. {pending', lead', burst', Early'} \subseteq Int
      BY DEF Bounds
    <3>4. MaxLead > 0 /\ Block > 0 /\ lead <= MaxLead /\ pending >= 0
      BY DEF Bounds
    <3>5. n \in Int
      OBVIOUS
    <3>6. QED
      BY <3>1, <3>2, <3>3, <3>4, <3>5, SynthTypes
  <2>3. Early = Block - mixer.rem
    BY <1>1, <1>8 DEF Early, MixerAt
  <2>4. size'[Synth] + renderer'.rem = size[Synth] + renderer.rem - n
    BY <1>3, <2>1, <2>2
  <2>5. CASE n < mixer.rem /\ mixer' = [mixer EXCEPT !.rem = @ - n] /\ UNCHANGED <<pending, lead, burst>>
    <3>1. Early' = Early + n
      <4>1. Early' = Block - (mixer.rem - n)
        BY <1>1, <1>3, <1>6, <1>8, <2>5 DEF Early, MixerAt, Block
      <4>2. QED
        BY <2>2, <2>3, <4>1
    <3>2. /\ Asked' + pending' - lead' + Early' - n <= Asked + pending - lead + Early
          /\ Sending' + Early' - burst' - n <= Sending + Early - burst
      BY <1>4, <2>2, <2>5, <3>1
    <3>3. At("send")' => burst' > 0 \/ lead' < MaxLead
      BY <1>4, <2>5 DEF Pace
    <3>4. QED
      BY <1>3, <2>4, <3>2, <3>3, Drain
  <2>6. CASE n = mixer.rem /\ mixer' = StillToMix(mixer.todo)
    <3>1. BlockPulled
      BY <1>2, <1>8, <2>6
    <3>2. Early' = 0
      BY <1>6, <2>6 DEF Early, MixerAt
    <3>3. lead' < MaxLead
      BY <2>2, <3>1 DEF BlockPulled
    <3>4. CASE lead' >= lead - Block
      <4>1. pending' = 0 /\ burst' >= burst - Block
        BY <3>1 DEF BlockPulled
      <4>2. /\ Asked' + pending' - lead' + Early' - n <= Asked + pending - lead + Early
            /\ Sending' + Early' - burst' - n <= Sending + Early - burst
        BY <1>4, <2>2, <2>3, <2>6, <3>2, <3>4, <4>1
      <4>3. QED
        BY <1>3, <2>4, <3>3, <4>2, Drain
    <3>5. CASE MaySleep(Synth)
      <4>1. Len(work') = 0 /\ renderer'.rem <= 1
        BY <1>3, <3>5 DEF MaySleep
      <4>2. renderer'.rem + Early' <= Block
        BY <1>3, <2>2, <3>2, <4>1
      <4>3. QED
        BY <1>3, <3>3, <4>1, <4>2, FreshStart
    <3>6. QED
      BY <3>1, <3>4, <3>5 DEF BlockPulled
  <2>7. QED
    BY <1>2, <2>5, <2>6
<1>9. QED
  BY <1>7, <1>8

\* The steps that take the mixer thread elsewhere
LEMMA ElsewherePace ==
  ASSUME Inv, Bounds, Bounds', PaceInv,
         \/ MixerLoop \/ MixerLocks \/ AddSilence \/ MakeRoom \/ Record \/ MixerUnlocks
         \/ PutOutput \/ Callback \/ TakeOutput
  PROVE  PaceInv'
<1>1. UNCHANGED <<fitted, prog, work, burst, pending, lead, size, renderer>>
  BY DEF MixerLoop, MixerLocks, AddSilence, MakeRoom, Record, MixerUnlocks, PutOutput, Callback,
         TakeOutput, queues, midi
<1>2. mixer' = mixer \/ mixer'.pc # "pull"
  <2>1. \/ mixer' = mixer \/ \E t : mixer' = StillToMix(t)
        \/ \E r : \E pc \in {"done", "lock", "record", "unlock", "out", "loop"} :
             mixer' = [mixer EXCEPT !.pc = pc] \/ mixer' = [mixer EXCEPT !.pc = pc, !.rem = r]
             \/ mixer' = [mixer EXCEPT !.rem = r, !.pc = pc]
    <3>1. CASE MixerLoop \/ MakeRoom \/ Record \/ MixerUnlocks
      BY <3>1 DEF MixerLoop, MakeRoom, Record, MixerUnlocks
    <3>2. CASE MixerLocks \/ AddSilence \/ Callback \/ TakeOutput
      BY <3>2 DEF MixerLocks, AddSilence, Callback, TakeOutput
    <3>3. CASE PutOutput
      BY <3>3 DEF PutOutput
    <3>4. QED
      BY <3>1, <3>2, <3>3
  <2>2. \A t : StillToMix(t).pc = "mix"
    BY DEF StillToMix
  <2>3. \A pc, r : /\ [mixer EXCEPT !.pc = pc].pc = pc
                   /\ [mixer EXCEPT !.pc = pc, !.rem = r].pc = pc
                   /\ [mixer EXCEPT !.rem = r, !.pc = pc].pc = pc
    BY DEF Inv, TypeOK
  <2>4. ASSUME NEW pc \in {"done", "lock", "record", "unlock", "out", "loop"}, NEW r,
               \/ mixer' = [mixer EXCEPT !.pc = pc] \/ mixer' = [mixer EXCEPT !.pc = pc, !.rem = r]
               \/ mixer' = [mixer EXCEPT !.rem = r, !.pc = pc]
        PROVE  mixer'.pc # "pull"
    <3>1. mixer'.pc = pc
      BY <2>4 DEF Inv, TypeOK
    <3>2. QED
      BY <3>1
  <2>5. QED
    BY <2>1, <2>2, <2>4
<1>3. QED
  BY <1>1, <1>2, KeepPace

\* The renderer: with no work it is a frame ahead, with work it takes on the
\* frames of the first message.
LEMMA RenderPace ==
  ASSUME Inv, Bounds, Bounds', PaceInv, Render
  PROVE  PaceInv'
<1>1. UNCHANGED <<fitted, prog, burst, pending, lead, size, mixer>>
  BY DEF Render, queues
<1>2. Sending' = Sending /\ Asked' = Asked /\ (At("send")' <=> At("send")) /\ Early' = Early
      /\ Most' = Most
  BY <1>1 DEF Sending, Asked, At, Early, MixerAt, Block, Most
<1>3. renderer.pc = "loop" /\ renderer.rem = 0
  BY RenderFacts
<1>4. Synth \in Fitted /\ Pace
  BY <1>3 DEF PaceInv
<1>5. At("send")' => burst' > 0 \/ lead' < MaxLead
  BY <1>1, <1>2, <1>4 DEF Pace
<1>6. CASE work' = work /\ renderer' = [pc |-> "done", rem |-> 0]
  BY <1>1, <1>3, <1>6, KeepPace
<1>7. CASE work' = work /\ work = <<>> /\ renderer' = [pc |-> "put", rem |-> 1]
  <2>1. Len(work') = 0
    BY <1>7
  <2>2. renderer'.rem + Early' <= Block
    <3>1. Early \in Nat /\ Early < Block /\ Block \in Nat
      BY DEF Bounds
    <3>2. renderer'.rem = 1
      BY <1>7
    <3>3. QED
      BY <1>2, <3>1, <3>2
  <2>3. Pace'
    BY <1>1, <1>5, <2>1, <2>2, FreshStart
  <2>4. QED
    BY <1>1, <1>4, <2>3 DEF PaceInv, Fitted
<1>8. CASE workRunning /\ work # <<>>
  <2>1. work' = Tail(work) /\ renderer'.rem = Head(work)
    BY <1>8 DEF Render
  <2>2. PICK acc : Backlog(acc) /\ InTime(acc)
    BY <1>4 DEF Pace
  <2>3. PICK L : L = Len(work)
    OBVIOUS
  <2>4. /\ L \in Nat /\ L > 0 /\ Len(work') = L - 1 /\ acc \in [0 .. L -> Int]
        /\ work \in Seq(0 .. MaxLead)
    <3>1. work \in Seq(0 .. MaxLead) /\ L \in Nat /\ acc \in [0 .. L -> Int]
      BY <2>2, <2>3 DEF Bounds, WorkType, Backlog
    <3>2. L # 0
      BY <1>8, <2>3, <3>1, EmptySeq
    <3>3. Len(Tail(work)) = L - 1
      BY <1>8, <2>3, <3>1, HeadTailProperties
    <3>4. QED
      BY <2>1, <3>1, <3>2, <3>3
  <2>5. Head(work) = work[1] /\ \A i \in 1 .. (L - 1) : work'[i] = work[i + 1]
    BY <1>8, <2>1, <2>3, <2>4, HeadTailProperties
  <2>6. PICK new : new = [i \in 0 .. (L - 1) |-> acc[i + 1]]
    OBVIOUS
  <2>7. /\ new \in [0 .. (L - 1) -> Int]
        /\ \A i \in 0 .. (L - 1) : new[i] = acc[i + 1] /\ acc[i + 1] \in Int
    BY <2>4, <2>6
  <2>8. Backlog(new)'
    <3>1. new[0] = size'[Synth] + renderer'.rem
      <4>1. 1 \in 1 .. L /\ 0 \in 0 .. (L - 1) /\ 1 - 1 = 0
        BY <2>4
      <4>2. acc[1] = acc[0] + work[1] /\ acc[0] = size[Synth] + 0
        BY <1>3, <2>2, <2>3, <4>1 DEF Backlog
      <4>3. new[0] = acc[1]
        BY <2>7, <4>1
      <4>4. size[Synth] \in Int
        BY SynthTypes
      <4>5. QED
        BY <1>1, <2>1, <2>5, <4>2, <4>3, <4>4
    <3>2. ASSUME NEW i \in 1 .. (L - 1) PROVE new[i] = new[i - 1] + work'[i]
      <4>1. i + 1 \in 1 .. L /\ (i + 1) - 1 = i /\ i \in 0 .. (L - 1) /\ i - 1 \in 0 .. (L - 1)
            /\ (i - 1) + 1 = i
        BY <2>4
      <4>2. acc[i + 1] = acc[i] + work[i + 1]
        BY <2>2, <2>3, <4>1 DEF Backlog
      <4>3. new[i] = acc[i + 1] /\ new[i - 1] = acc[i]
        BY <2>7, <4>1
      <4>4. QED
        BY <2>5, <4>2, <4>3
    <3>3. QED
      BY <2>4, <2>7, <3>1, <3>2 DEF Backlog
  <2>9. InTime(new)'
    <3>1. new[L - 1] = acc[L]
      <4>1. L - 1 \in 0 .. (L - 1) /\ (L - 1) + 1 = L
        BY <2>4
      <4>2. QED
        BY <2>7, <4>1
    <3>2. new[L - 1] + Asked' + pending' + (MaxLead - lead') + Early' <= Most'
      BY <1>1, <1>2, <2>2, <2>3, <3>1 DEF InTime
    <3>3. ASSUME NEW i \in 0 .. (L - 1)
          PROVE  new[i] + ((L - 1) - i) + Sending' + Early' < Most' + burst'
      <4>1. i + 1 \in 0 .. L /\ L - (i + 1) = (L - 1) - i
        BY <2>4
      <4>2. acc[i + 1] + (L - (i + 1)) + Sending + Early < Most + burst
        BY <2>2, <2>3, <4>1 DEF InTime
      <4>3. new[i] = acc[i + 1]
        BY <2>7
      <4>4. QED
        BY <1>1, <1>2, <4>1, <4>2, <4>3
    <3>4. QED
      BY <2>4, <3>2, <3>3 DEF InTime
  <2>10. QED
    BY <1>1, <1>4, <1>5, <2>8, <2>9 DEF PaceInv, Pace, Fitted
<1>9. QED
  BY <1>6, <1>7, <1>8 DEF Render

LEMMA PutFramesPace ==
  ASSUME Inv, Bounds, Bounds', PaceInv, PutFrames
  PROVE  PaceInv'
<1>1. UNCHANGED <<fitted, prog, burst, pending, lead, work, mixer>>
  BY DEF PutFrames
<1>2. Sending' = Sending /\ Asked' = Asked /\ (At("send")' <=> At("send")) /\ Early' = Early
  BY <1>1 DEF Sending, Asked, At, Early, MixerAt, Block
<1>3. renderer.pc = "put"
  BY PutFacts
<1>4. Synth \in Fitted /\ Pace
  BY <1>3 DEF PaceInv
<1>5. {Asked, Sending, pending, lead, burst, Early, size[Synth], renderer.rem} \subseteq Nat
  BY DEF Bounds
<1>6. PICK d \in Nat : size'[Synth] + renderer'.rem = size[Synth] + renderer.rem - d
  <2>1. CASE size' = size /\ renderer' = [pc |-> "loop", rem |-> 0]
    <3>1. size'[Synth] = size[Synth] /\ renderer'.rem = 0
      BY <2>1
    <3>2. size'[Synth] + renderer'.rem = size[Synth] + renderer.rem - renderer.rem
      BY <1>5, <3>1
    <3>3. QED
      BY <1>5, <3>2
  <2>2. ASSUME NEW n \in Nat, n <= renderer.rem,
               size' = [size EXCEPT ![Synth] = @ + n], renderer'.rem = renderer.rem - n
        PROVE  size'[Synth] + renderer'.rem = size[Synth] + renderer.rem - 0
    <3>1. size'[Synth] = size[Synth] + n
      BY <2>2 DEF Inv, TypeOK, Channels
    <3>2. QED
      BY <1>5, <2>2, <3>1
  <2>3. QED
    BY <2>1, <2>2, PutFacts
<1>7. /\ Asked' + pending' - lead' + Early' - d <= Asked + pending - lead + Early
      /\ Sending' + Early' - burst' - d <= Sending + Early - burst
  BY <1>1, <1>2, <1>5
<1>8. At("send")' => burst' > 0 \/ lead' < MaxLead
  BY <1>1, <1>2, <1>4 DEF Pace
<1>9. Pace'
  BY <1>1, <1>4, <1>6, <1>7, <1>8, Drain
<1>10. QED
  BY <1>1, <1>4, <1>9 DEF PaceInv, Fitted

LEMMA PaceInit == Init => PaceInv
<1> SUFFICES ASSUME Init PROVE PaceInv
  OBVIOUS
<1>1. Inv /\ Bounds
  BY InitInv, PaceBounds
<1>2. Synth \in Channels /\ size[Synth] = 0 /\ renderer.rem = 0 /\ Len(work) = 0
      /\ pending = 0 /\ lead = 0 /\ burst = 0
  BY DEF Init, Channels
<1>3. ~ At("send") /\ Asked = 0 /\ Sending = 0 /\ Early = 0
  BY DEF Init, Asked, Sending, At, Early, MixerAt
<1>4. Most \in Int /\ Most > 0 /\ MaxLead \in Int /\ MaxLead <= Most
  BY <1>1 DEF Bounds, Most
<1> DEFINE acc == [i \in 0 .. 0 |-> 0]
<1>5. acc \in [0 .. 0 -> Int] /\ acc[0] = 0 /\ \A i \in 0 .. 0 : i = 0
  OBVIOUS
<1>6. Backlog(acc)
  BY <1>2, <1>5 DEF Backlog
<1>7. InTime(acc)
  <2>1. acc[0] + 0 + 0 + (MaxLead - 0) + 0 <= Most /\ acc[0] + (0 - 0) + 0 + 0 < Most + 0
    BY <1>4, <1>5
  <2>2. QED
    BY <1>2, <1>3, <1>5, <2>1 DEF InTime
<1>8. QED
  BY <1>3, <1>6, <1>7 DEF Init, PaceInv, Pace

LEMMA PaceInductive == Inv /\ Inv' /\ PaceInv /\ [Next]_vars => PaceInv'
<1>1. Inv' => Bounds'
  BY PaceBounds, PTL
<1> SUFFICES ASSUME Inv, Inv', PaceInv, [Next]_vars PROVE PaceInv'
  OBVIOUS
<1>2. Bounds /\ Bounds'
  BY <1>1, PaceBounds
<1>3. CASE Reconfigure \/ HaltCard \/ ShutDown \/ Exit \/ WakeUp \/ Tick \/ Mute
  BY <1>2, <1>3, OperationPace
<1>4. CASE SendMidiMessage \/ MainStep \/ Acquire
  BY <1>2, <1>4, SendMidiMessagePace, EnqueueWorkPace, MainPace
<1>5. CASE MixerStep \/ MixerLocks
  BY <1>2, <1>5, ElsewherePace, MixPace, PullPace DEF MixerStep
<1>6. CASE Callback \/ TakeOutput \/ Render \/ PutFrames
  BY <1>2, <1>6, ElsewherePace, RenderPace, PutFramesPace
<1>7. CASE UNCHANGED vars
  <2>1. UNCHANGED <<fitted, prog, work, burst, pending, lead, size, renderer, mixer>>
    BY <1>7 DEF vars, queues, midi
  <2>2. QED
    BY <1>2, <2>1, KeepPace
<1>8. QED
  BY <1>3, <1>4, <1>5, <1>6, <1>7 DEF Next

-----------------------------------------------------------------------------
(* Nobody waits in a circle *)

\* Who waits for whom at all, and what for
LEMMA Waits ==
  /\ \A u : WaitsFor("main", u) => u \in {"mixer", "renderer"}
  /\ \A u : WaitsFor("mixer", u) => u \in {"main", "renderer", "callback"}
  /\ \A u : WaitsFor("callback", u) => u = "mixer"
  /\ \A u : WaitsFor("renderer", u) => u = "mixer"
  /\ WaitsFor("main", "mixer") =>
       \/ At("acquire") /\ holder = "mixer"
       \/ At("take") /\ capture = 0
       \/ At("joinMixer") /\ ~ MixerAt("done")
  /\ WaitsFor("main", "renderer") =>
       \/ At("send") /\ Len(work) >= WorkSize
       \/ At("joinRenderer") /\ renderer.pc # "done"
  /\ WaitsFor("mixer", "main") =>
       \/ MixerAt("lock") /\ holder = "main"
       \/ /\ MixerAt("pull") /\ mixer.at \in Cards
          /\ size[mixer.at] = 0 /\ running[mixer.at]
  /\ WaitsFor("mixer", "renderer") => size[Synth] = 0
  /\ WaitsFor("mixer", "callback") => output >= OutputSize
  /\ WaitsFor("callback", "mixer") => output = 0
  /\ WaitsFor("renderer", "mixer") =>
       renderer.pc = "put" /\ running[Synth] /\ size[Synth] >= FifoSize
BY DEF WaitsFor

\* The main thread goes for the mutex with the queues stopped, has been promised
\* what it takes, and joins the mixer thread when no card is left.
LEMMA MainAndMixer ==
  ASSUME Inv, ResetFirst = {}, WaitsFor("main", "mixer"), WaitsFor("mixer", "main")
  PROVE  FALSE
<1> USE DEF Inv
<1>1. prog # <<>>
  BY Waits DEF At
<1>2. PICK g \in Knowledge : Holds(g) /\ Allowed(Fitted, Head(prog), g)
  BY <1>1, MainFacts
<1>3. mixer.pc = "pull" => mixer.at \in Cards /\ running[mixer.at] /\ mixer.at \in linked
  BY Waits DEF MixerAt, ChannelInv
<1>4. mixer.pc = "pull" \/ (mixer.pc = "lock" /\ holder = "main")
  BY Waits DEF MixerAt
<1>5. CASE At("acquire") /\ holder = "mixer"
  <2>1. mixer.pc = "pull"
    BY <1>4, <1>5
  <2>2. g.depth = 0 /\ g.stopped
    BY <1>2, <1>5 DEF Holds, MainDepth, Allowed, At
  <2>3. QED
    BY <1>2, <1>3, <2>1, <2>2 DEF Holds
<1>6. CASE At("take") /\ capture = 0
  <2>1. Head(prog).n \in 1 .. TickFrames
    BY <1>1, <1>6, OpeningRest DEF At
  <2>2. TickFrames \in Nat
    BY MixerAssumption
  <2>3. ~ (capture >= Head(prog).n)
    BY <1>6, <2>1, <2>2
  <2>4. QED
    BY <1>4, <1>6, <2>3 DEF CaptureInv, MixerAt
<1>7. CASE At("joinMixer")
  <2>1. g.bare /\ g.depth = 0
    BY <1>2, <1>7 DEF Allowed, At
  <2>2. linked = {} /\ MainDepth = 0
    BY <1>2, <2>1 DEF Holds
  <2>3. holder # "main"
    BY <2>2 DEF MainDepth, LockInv, TypeOK
  <2>4. QED
    BY <1>3, <1>4, <2>2, <2>3
<1>8. QED
  BY <1>5, <1>6, <1>7, Waits

\* While the renderer is stuck with a full FIFO, the messages that have come are
\* those of the block, of twice the lead and of the burst, and these have room;
\* and it is joined with its FIFO stopped.
LEMMA MainAndRenderer ==
  ASSUME Inv, PaceInv, KeepsPace, WaitsFor("main", "renderer"), WaitsFor("renderer", "mixer")
  PROVE  FALSE
<1>1. renderer.pc = "put" /\ running[Synth] /\ size[Synth] >= FifoSize
  BY Waits
<1>2. CASE At("joinRenderer")
  <2>1. PICK g \in Knowledge : Holds(g) /\ Allowed(Fitted, Head(prog), g)
    BY <1>2, MainFacts DEF Inv, At
  <2>2. g.mute
    BY <1>2, <2>1 DEF Allowed, At
  <2>3. QED
    BY <1>1, <2>1, <2>2 DEF Holds
<1>3. CASE At("send") /\ Len(work) >= WorkSize
  <2>1. Synth \in Fitted /\ Pace /\ renderer.rem > 0
    BY <1>1 DEF PaceInv, Inv, RenderInv
  <2>2. PICK acc : Backlog(acc) /\ InTime(acc)
    BY <2>1 DEF Pace
  <2>3. /\ {Len(work), burst, Burst, WorkSize, MaxLead, FifoSize, Block, Early, size[Synth],
            renderer.rem} \subseteq Nat
        /\ burst <= Burst
    BY PaceBounds DEF Bounds
  <2>4. Sending = 1
    BY <1>3 DEF Sending
  <2>5. acc[0] = size[Synth] + renderer.rem /\ 0 \in 0 .. Len(work)
    BY <2>2, <2>3 DEF Backlog
  <2>6. acc[0] + (Len(work) - 0) + 1 + Early < FifoSize + 2 * MaxLead + Block + burst
    BY <2>2, <2>4, <2>5 DEF InTime, Most
  <2>7. Len(work) + 2 < 2 * MaxLead + Block + Burst
    <3>1. (size[Synth] + renderer.rem) + Len(work) + 1 + Early < FifoSize + 2 * MaxLead + Block + burst
      BY <2>3, <2>5, <2>6
    <3>2. size[Synth] >= FifoSize /\ renderer.rem > 0 /\ Early >= 0
      BY <1>1, <2>1, <2>3
    <3>3. /\ Len(work) \in Nat /\ burst \in Nat /\ Burst \in Nat /\ MaxLead \in Nat
          /\ FifoSize \in Nat /\ Block \in Nat /\ Early \in Nat /\ size[Synth] \in Nat
          /\ renderer.rem \in Nat /\ burst <= Burst
      BY <2>3
    <3>4. QED
      BY <3>1, <3>2, <3>3
  <2>8. 2 * MaxLead + Burst + Block <= WorkSize + 2
    <3>1. fitted \in Fittings
      BY DEF Inv, TypeOK
    <3>2. QED
      BY <2>1, <3>1 DEF KeepsPace, Fitted, Block
  <2>9. QED
    BY <1>3, <2>3, <2>7, <2>8
<1>4. QED
  BY <1>2, <1>3, Waits

LEMMA NoCircle ==
  ASSUME Inv, PaceInv, KeepsPace, ResetFirst = {}
  PROVE  NoCircularWait
<1>1. ~ (WaitsFor("main", "mixer") /\ WaitsFor("mixer", "main"))
  BY MainAndMixer
<1>2. ~ (WaitsFor("main", "renderer") /\ WaitsFor("renderer", "mixer"))
  BY MainAndRenderer
<1>3. ~ (WaitsFor("mixer", "renderer") /\ WaitsFor("renderer", "mixer"))
  BY Waits, PaceBounds DEF Bounds
<1>4. ~ (WaitsFor("mixer", "callback") /\ WaitsFor("callback", "mixer"))
  <2>1. OutputSize \in Nat /\ OutputSize > 0
    BY MixerAssumption
  <2>2. QED
    BY <2>1, Waits
<1>5. ASSUME NEW S \in (SUBSET Threads) \ {{}}, \A t \in S : \E u \in S : WaitsFor(t, u)
      PROVE  FALSE
  <2>1. "mixer" \in S
    <3>1. PICK t : t \in S
      BY <1>5
    <3>2. PICK u \in S : WaitsFor(t, u)
      BY <1>5, <3>1
    <3>3. t \in Threads
      BY <3>1
    <3>4. u = "renderer" \/ u = "mixer" \/ t = "mixer"
      BY <3>2, <3>3, Waits DEF Threads
    <3>5. CASE u = "renderer"
      BY <1>5, <3>2, <3>5, Waits
    <3>6. QED
      BY <3>1, <3>2, <3>4, <3>5
  <2>2. PICK u \in S : WaitsFor("mixer", u)
    BY <1>5, <2>1
  <2>3. u \in {"main", "renderer", "callback"}
    BY <2>2, Waits
  <2>4. PICK v \in S : WaitsFor(u, v)
    BY <1>5, <2>2
  <2>5. u \in {"renderer", "callback"} => v = "mixer"
    BY <2>4, Waits
  <2>6. u = "main"
    BY <1>3, <1>4, <2>2, <2>3, <2>4, <2>5
  <2>7. v = "renderer"
    BY <1>1, <2>2, <2>4, <2>6, Waits
  <2>8. PICK w \in S : WaitsFor("renderer", w)
    BY <1>5, <2>4, <2>7
  <2>9. w = "mixer"
    BY <2>8, Waits
  <2>10. QED
    BY <1>2, <2>4, <2>6, <2>7, <2>8, <2>9
<1>6. QED
  BY <1>5 DEF NoCircularWait

\* NoCircularWait for any cards, machines and sizes: when every Destroy locks
\* before it resets the pointer, and the work queue has room for the messages by
\* which real time lets the synthesizer fall behind, no threads wait for each
\* other in a circle.  Module MCMixer has the circle that a Destroy closes which
\* resets the pointer first.
THEOREM NoDeadlock ==
  ASSUME ResetFirst = {}, KeepsPace
  PROVE  Spec => []NoCircularWait
<1>1. Inv /\ PaceInv => NoCircularWait
  BY NoCircle
<1>2. QED
  BY <1>1, InitInv, Inductive, PaceInit, PaceInductive, PTL DEF Spec
=============================================================================
