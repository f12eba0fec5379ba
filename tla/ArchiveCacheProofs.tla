------------------------- MODULE ArchiveCacheProofs -------------------------
(***************************************************************************)
(* The store of unpacked members with any engines, archives and cap, and   *)
(* any number of deaths: on Windows no clean-up takes an entry from under  *)
(* a mount, and the engines exceed the cap by one member each, at most.    *)
(***************************************************************************)
EXTENDS ArchiveCache, WellFoundedInduction, FiniteSetTheorems, TLAPS

-----------------------------------------------------------------------------
(* Induction.  The library's theorems quantify over predicates; these      *)
(* quantify over sets instead, which the provers can instantiate.          *)

\* A set of numbers has a least one.
LEMMA LeastNumber ==
  ASSUME NEW T, T \subseteq Nat, T # {}
  PROVE  \E m \in T : \A k \in T : m <= k
<1> DEFINE R == {ss \in Nat \X Nat : ss[1] < ss[2]}
<1>1. IsWellFoundedOn(R, Nat)
  BY NatLessThanWellFounded, Zenon DEF OpToRel
<1> HIDE DEF R
<1>2. PICK m \in T : \A y \in T : ~ (<<y, m>> \in R)
  BY <1>1, WFMin
<1>3. \A y \in T : ~ (y < m)
  BY <1>2 DEF R
<1>4. QED
  BY <1>3

\* Induction over the natural numbers
LEMMA SetInduction ==
  ASSUME NEW T, 0 \in T, \A n \in Nat : n \in T => n + 1 \in T
  PROVE  \A n \in Nat : n \in T
<1> DEFINE U == Nat \ T
<1> SUFFICES ASSUME U # {} PROVE FALSE
  OBVIOUS
<1>1. PICK m \in U : \A k \in U : m <= k
  BY LeastNumber
<1>2. m # 0 /\ m - 1 \in Nat /\ m - 1 \notin U
  BY <1>1
<1>3. (m - 1) + 1 = m
  BY <1>2
<1>4. QED
  BY <1>1, <1>2, <1>3

-----------------------------------------------------------------------------
(* Sums *)

Pick(s) == CHOOSE x \in s : TRUE

\* g has the sums over all sets of indices.
IsSum(v, g) ==
  g = [s \in SUBSET (DOMAIN v) |-> IF s = {} THEN 0 ELSE v[Pick(s)] + g[s \ {Pick(s)}]]

LEMMA SumDefinition ==
  ASSUME NEW v
  PROVE  SumFunction(v) = (CHOOSE g : IsSum(v, g))[DOMAIN v]
BY DEF SumFunction, SumFunctionOnSet, FoldFunctionOnSet, MapThenFoldSet, IsSum, Pick

LEMMA PickFacts ==
  ASSUME NEW s, IsFiniteSet(s), s # {}
  PROVE  /\ Pick(s) \in s /\ IsFiniteSet(s \ {Pick(s)})
         /\ Cardinality(s) \in Nat /\ Cardinality(s) > 0
         /\ Cardinality(s \ {Pick(s)}) = Cardinality(s) - 1
<1>1. Pick(s) \in s
  BY DEF Pick
<1>2. Cardinality(s) \in Nat /\ Cardinality(s) # 0
  BY FS_CardinalityType, FS_EmptySet
<1>3. QED
  BY <1>1, <1>2, FS_RemoveElement

LEMMA SumExists ==
  ASSUME NEW v, IsFiniteSet(DOMAIN v)
  PROVE  \E g : IsSum(v, g)
<1> DEFINE A == DOMAIN v
           Sub(m) == {s \in SUBSET A : Cardinality(s) <= m}
           Is(g, s) == g[s] = IF s = {} THEN 0 ELSE v[Pick(s)] + g[s \ {Pick(s)}]
           Part(g, m) == g = [s \in Sub(m) |-> g[s]] /\ \A s \in Sub(m) : Is(g, s)
           T == {m \in Nat : \E g : Part(g, m)}
<1>1. \A s \in SUBSET A : IsFiniteSet(s) /\ Cardinality(s) \in Nat
  BY FS_Subset, FS_CardinalityType
<1>2. 0 \in T
  <2> DEFINE g == [s \in Sub(0) |-> 0]
  <2>1. \A s \in Sub(0) : s = {}
    BY <1>1, FS_EmptySet
  <2>2. \A s \in Sub(0) : Is(g, s)
    BY <2>1
  <2>3. Part(g, 0)
    BY <2>2
  <2> HIDE DEF Part
  <2>4. QED
    BY <2>3
<1>3. ASSUME NEW m \in Nat, m \in T PROVE m + 1 \in T
  <2>1. PICK g : Part(g, m)
    BY <1>3
  <2> DEFINE h == [s \in Sub(m + 1) |-> IF s \in Sub(m) THEN g[s]
                                        ELSE v[Pick(s)] + g[s \ {Pick(s)}]]
  <2>2. \A s \in Sub(m) : s \in Sub(m + 1) /\ h[s] = g[s]
    BY <1>1, <1>3
  <2>3. ASSUME NEW s \in Sub(m + 1), s # {} PROVE s \ {Pick(s)} \in Sub(m)
    <3>1. Cardinality(s \ {Pick(s)}) = Cardinality(s) - 1 /\ Cardinality(s) \in Nat
      BY <1>1, <2>3, PickFacts
    <3>2. Cardinality(s) <= m + 1
      BY <2>3
    <3>3. Cardinality(s \ {Pick(s)}) <= m
      BY <1>3, <3>1, <3>2
    <3>4. s \ {Pick(s)} \in SUBSET A
      BY <2>3
    <3>5. QED
      BY <3>3, <3>4
  <2>4. {} \in Sub(m)
    BY <1>3, FS_EmptySet
  <2>5. h = [s \in Sub(m + 1) |-> h[s]]
    OBVIOUS
  <2>6. \A s \in Sub(m + 1) : s \notin Sub(m) => h[s] = v[Pick(s)] + g[s \ {Pick(s)}]
    OBVIOUS
  <2>7. \A s \in Sub(m) : Is(g, s)
    BY <2>1
  <2> HIDE DEF h, Sub
  <2>8. ASSUME NEW s \in Sub(m + 1) PROVE Is(h, s)
    <3>1. CASE s = {}
      BY <2>2, <2>4, <2>7, <3>1
    <3>2. CASE s # {}
      <4>1. h[s \ {Pick(s)}] = g[s \ {Pick(s)}]
        BY <2>2, <2>3, <3>2
      <4>2. h[s] = v[Pick(s)] + g[s \ {Pick(s)}]
        BY <2>2, <2>6, <2>7, <3>2
      <4>3. QED
        BY <3>2, <4>1, <4>2
    <3>3. QED
      BY <3>1, <3>2
  <2>9. Part(h, m + 1)
    BY <2>5, <2>8
  <2> HIDE DEF Part
  <2>10. QED
    BY <1>3, <2>9
<1>4. Cardinality(A) \in T
  <2> HIDE DEF T
  <2>1. \A n \in Nat : n \in T
    BY <1>2, <1>3, SetInduction
  <2>2. QED
    BY <2>1, FS_CardinalityType
<1>5. PICK g : Part(g, Cardinality(A))
  BY <1>4
<1>6. Sub(Cardinality(A)) = SUBSET A
  BY FS_Subset
<1>7. QED
  BY <1>5, <1>6 DEF IsSum

\* A sum that differs at one index, and there by no more than k
LEMMA SumBound ==
  ASSUME NEW A, IsFiniteSet(A), NEW v \in [A -> Nat], NEW w \in [A -> Nat], NEW c, NEW k \in Nat,
         \A x \in A : w[x] <= v[x] + (IF x = c THEN k ELSE 0)
  PROVE  /\ SumFunction(v) \in Nat /\ SumFunction(w) \in Nat
         /\ SumFunction(w) <= SumFunction(v) + k
<1> DEFINE f == CHOOSE g : IsSum(v, g)
           h == CHOOSE g : IsSum(w, g)
<1>1. DOMAIN v = A /\ DOMAIN w = A
  OBVIOUS
<1>2. SumFunction(v) = f[A] /\ SumFunction(w) = h[A]
  BY <1>1, SumDefinition
<1>3. IsSum(v, f) /\ IsSum(w, h)
  BY <1>1, SumExists
<1> HIDE DEF f, h
<1>4. \A s \in SUBSET A : /\ f[s] = IF s = {} THEN 0 ELSE v[Pick(s)] + f[s \ {Pick(s)}]
                         /\ h[s] = IF s = {} THEN 0 ELSE w[Pick(s)] + h[s \ {Pick(s)}]
  BY <1>1, <1>3 DEF IsSum
<1> DEFINE Good(s) == /\ f[s] \in Nat /\ h[s] \in Nat
                      /\ h[s] <= f[s] + (IF c \in s THEN k ELSE 0)
           T == {n \in Nat : \A s \in SUBSET A : Cardinality(s) = n => Good(s)}
<1>5. \A s \in SUBSET A : IsFiniteSet(s) /\ Cardinality(s) \in Nat
  BY FS_Subset, FS_CardinalityType
<1>6. 0 \in T
  <2>1. ASSUME NEW s \in SUBSET A, Cardinality(s) = 0 PROVE Good(s)
    <3>1. s = {}
      BY <1>5, <2>1, FS_EmptySet
    <3>2. QED
      BY <1>4, <3>1
  <2>2. QED
    BY <2>1
<1>7. ASSUME NEW n \in Nat, n \in T PROVE n + 1 \in T
  <2>1. ASSUME NEW s \in SUBSET A, Cardinality(s) = n + 1 PROVE Good(s)
    <3> DEFINE x == Pick(s)
               r == s \ {x}
    <3>0. n + 1 # 0 /\ Cardinality({}) = 0
      BY <1>7, FS_EmptySet
    <3>1. s # {}
      BY <2>1, <3>0
    <3>2. x \in s /\ Cardinality(r) = n /\ x \in A /\ r \in SUBSET A
      BY <1>5, <1>7, <2>1, <3>1, PickFacts
    <3>3. f[s] = v[x] + f[r] /\ h[s] = w[x] + h[r]
      BY <1>4, <3>1
    <3>4. Good(r)
      BY <1>7, <3>2
    <3>5. v[x] \in Nat /\ w[x] \in Nat /\ w[x] <= v[x] + (IF x = c THEN k ELSE 0)
      BY <3>2
    <3>6. x \notin r /\ (c \in s <=> c = x \/ c \in r)
      BY <3>2
    <3> HIDE DEF x, r
    <3>7. QED
      BY <3>3, <3>4, <3>5, <3>6
  <2>2. QED
    BY <1>7, <2>1
<1>8. Cardinality(A) \in T
  <2> HIDE DEF T
  <2>1. \A n \in Nat : n \in T
    BY <1>6, <1>7, SetInduction
  <2>2. QED
    BY <1>5, <2>1
<1>9. Good(A)
  BY <1>8
<1>10. QED
  BY <1>2, <1>9

LEMMA SumOfZeros ==
  ASSUME NEW A, IsFiniteSet(A)
  PROVE  SumFunction([x \in A |-> 0]) = 0
<1> DEFINE v == [x \in A |-> 0]
           f == CHOOSE g : IsSum(v, g)
<1>1. DOMAIN v = A
  OBVIOUS
<1>2. SumFunction(v) = f[A]
  BY <1>1, SumDefinition
<1>3. IsSum(v, f)
  BY <1>1, SumExists
<1> HIDE DEF f
<1>4. \A s \in SUBSET A : f[s] = IF s = {} THEN 0 ELSE v[Pick(s)] + f[s \ {Pick(s)}]
  BY <1>1, <1>3 DEF IsSum
<1> DEFINE T == {n \in Nat : \A s \in SUBSET A : Cardinality(s) = n => f[s] = 0}
<1>5. \A s \in SUBSET A : IsFiniteSet(s) /\ Cardinality(s) \in Nat
  BY FS_Subset, FS_CardinalityType
<1>6. 0 \in T
  <2>1. \A s \in SUBSET A : Cardinality(s) = 0 => s = {}
    BY <1>5, FS_EmptySet
  <2>2. f[{}] = 0
    BY <1>4
  <2>3. QED
    BY <2>1, <2>2
<1>7. ASSUME NEW n \in Nat, n \in T PROVE n + 1 \in T
  <2>1. ASSUME NEW s \in SUBSET A, Cardinality(s) = n + 1 PROVE f[s] = 0
    <3>0. n + 1 # 0 /\ Cardinality({}) = 0
      BY <1>7, FS_EmptySet
    <3>1. s # {}
      BY <2>1, <3>0
    <3>2. Pick(s) \in A /\ Cardinality(s \ {Pick(s)}) = n /\ s \ {Pick(s)} \in SUBSET A
      BY <1>5, <1>7, <2>1, <3>1, PickFacts
    <3>3. f[s \ {Pick(s)}] = 0
      BY <1>7, <3>2
    <3>4. f[s] = v[Pick(s)] + f[s \ {Pick(s)}] /\ v[Pick(s)] = 0
      BY <1>4, <3>1, <3>2
    <3>5. QED
      BY <3>3, <3>4
  <2>2. QED
    BY <1>7, <2>1
<1>8. Cardinality(A) \in T
  <2> HIDE DEF T
  <2>1. \A n \in Nat : n \in T
    BY <1>6, <1>7, SetInduction
  <2>2. QED
    BY <1>5, <2>1
<1>9. QED
  BY <1>2, <1>8

-----------------------------------------------------------------------------
(* The inductive invariant *)

Parts == {e \in Engines : eng[e].pc = "part"}

\* what there can be in a directory
Contents == [toml : {"missing", "recent", "old"}, member : BOOLEAN,
             tmps : SUBSET (Engines \cup Corpses), parts : SUBSET (Engines \cup Corpses)]

\* what the entry of an archive holds
Held(a) == SizeOf(At(a))

\* The entries have a directory each, none of them in the trash; a directory
\* that is neither an entry nor in the trash holds no member.
FsInv ==
  /\ platform \in Platforms
  /\ live \in [Archives -> Dirs \cup {None}] /\ trash \subseteq Dirs
  /\ dir \in [Dirs -> Contents]
  /\ \A a, b \in Archives : a # b /\ live[a] # None => live[a] # live[b]
  /\ \A a \in Archives : live[a] \notin trash
  /\ \A d \in Dirs : d \notin trash /\ (\A a \in Archives : live[a] # d)
                     => ~ dir[d].member /\ dir[d].parts = {}

Cleaning == {"list", "exclusive", "judge", "retire", "away", "remove", "cap"}

\* what each step of an engine finds in its own state
EngineInv(e) ==
  /\ eng[e].a \in Archives \cup {None} /\ eng[e].lease \in Archives \cup {None}
  /\ eng[e].fd \in Dirs \cup {None} /\ eng[e].sh \in Dirs \cup {None}
  /\ eng[e].temp \in Dirs \cup {None} /\ eng[e].cur \in Dirs \cup {None}
  /\ eng[e].todo \subseteq Archives /\ eng[e].ex \subseteq Dirs
  /\ eng[e].kept \subseteq Archives \X Dirs
  /\ eng[e].purge \in BOOLEAN /\ eng[e].extra \in Nat
  /\ eng[e].back \in {"idle", "measure"} /\ eng[e].after \in {"list", "cap"}
  /\ eng[e].pc \in {"open", "lock", "read", "clear", "temp", "rename", "files", "measure",
                    "part", "finish", "exclusive", "judge", "retire", "away"}
     => eng[e].a \in Archives
  /\ eng[e].pc \in {"open", "lock", "read", "clear", "files"} => eng[e].lease = None
  /\ eng[e].pc \in {"lock", "exclusive"} => eng[e].fd \in Dirs
  /\ eng[e].pc \in {"rename", "finish"} => eng[e].temp \in Dirs
  /\ eng[e].pc = "judge" => eng[e].cur \in Dirs
  /\ eng[e].back = "measure" => eng[e].lease # None /\ eng[e].pc \in Cleaning
  /\ eng[e].lease # None => eng[e].sh \in Dirs
  /\ eng[e].lease = None /\ eng[e].pc \in {"read", "clear", "temp", "rename", "files"}
     => eng[e].sh \in Dirs

\* On Windows what an engine has opened for a mount stays at its path.
Keeps(e) ==
  platform = "win32" =>
    /\ eng[e].pc = "lock" => live[eng[e].a] = eng[e].fd
    /\ eng[e].lease # None => live[eng[e].lease] = eng[e].sh
    /\ eng[e].lease = None /\ eng[e].pc \in {"read", "clear", "temp", "rename", "files"}
       => live[eng[e].a] = eng[e].sh

IndInv ==
  /\ FsInv /\ DOMAIN eng = Engines
  /\ \A e \in Engines : EngineInv(e) /\ Keeps(e)
  /\ CapNearlyHolds

\* Only engine e moves.
Others(e) == DOMAIN eng' = Engines /\ \A f \in Engines \ {e} : eng'[f] = eng[f]

-----------------------------------------------------------------------------
(* Sizes *)

LEMMA Finite ==
  /\ IsFiniteSet(Engines) /\ IsFiniteSet(Archives)
  /\ \A s \in SUBSET (Engines \cup Corpses) : IsFiniteSet(s) /\ Cardinality(s) \in Nat
<1>1. IsFiniteSet(Engines) /\ IsFiniteSet(Archives)
  BY CacheAssumption
<1>2. IsFiniteSet(Engines \cup Corpses)
  <2>1. IsFiniteSet(Corpses)
    <3>1. 1 \in Int /\ MaxCrashes \in Int
      BY CacheAssumption
    <3>2. QED
      BY <3>1, FS_Interval DEF Corpses
  <2>2. QED
    BY <1>1, <2>1, FS_Union
<1>3. QED
  BY <1>1, <1>2, FS_Subset, FS_CardinalityType

LEMMA HeldType ==
  ASSUME FsInv
  PROVE  /\ \A d \in Dirs : SizeOf(dir[d]) \in Nat
         /\ \A a \in Archives : Held(a) \in Nat
         /\ \A a \in Archives : live[a] = None => Held(a) = 0
         /\ \A a \in Archives : live[a] # None => live[a] \in Dirs /\ Held(a) = SizeOf(dir[live[a]])
<1>1. ASSUME NEW d \in Dirs PROVE SizeOf(dir[d]) \in Nat
  <2>1. dir[d].parts \in SUBSET (Engines \cup Corpses)
    BY DEF FsInv, Contents
  <2>2. Cardinality(dir[d].parts) \in Nat
    BY <2>1, Finite
  <2>3. QED
    BY <2>2 DEF SizeOf
<1>2. SizeOf(Empty) = 0
  <2>1. Cardinality({}) = 0
    BY FS_EmptySet
  <2>2. QED
    BY <2>1 DEF SizeOf, Empty
<1>3. ASSUME NEW a \in Archives, live[a] = None PROVE Held(a) = 0
  BY <1>2, <1>3 DEF Held, At
<1>4. ASSUME NEW a \in Archives, live[a] # None
      PROVE  live[a] \in Dirs /\ Held(a) = SizeOf(dir[live[a]])
  BY <1>4 DEF Held, At, FsInv
<1>5. QED
  BY <1>1, <1>3, <1>4

\* What the entries hold grows by no more than the one at c.
LEMMA UsedBound ==
  ASSUME FsInv, FsInv', NEW c, NEW k \in Nat,
         \A a \in Archives : Held(a)' <= Held(a) + (IF a = c THEN k ELSE 0)
  PROVE  Used \in Nat /\ Used' \in Nat /\ Used' <= Used + k
<1> DEFINE v == [a \in Archives |-> Held(a)]
           w == [a \in Archives |-> Held(a)']
<1>1. v \in [Archives -> Nat]
  BY HeldType
<1>2. \A a \in Archives : Held(a)' \in Nat
  <2>1. (\A a \in Archives : Held(a) \in Nat)'
    BY HeldType, PTL
  <2>2. QED
    BY <2>1
<1>3. w \in [Archives -> Nat]
  BY <1>2
<1>4. \A a \in Archives : w[a] <= v[a] + (IF a = c THEN k ELSE 0)
  OBVIOUS
<1>5. Used = SumFunction(v) /\ Used' = SumFunction(w)
  BY DEF Used, Held
<1> HIDE DEF v, w
<1>6. QED
  BY <1>1, <1>3, <1>4, <1>5, SumBound, Finite

-----------------------------------------------------------------------------
(* Steps in general *)

LEMMA PartsFacts ==
  /\ Parts \subseteq Engines /\ IsFiniteSet(Parts)
  /\ Cardinality(Parts) \in Nat /\ Cardinality(Engines) \in Nat
  /\ Cardinality(Parts) <= Cardinality(Engines) /\ Cardinality(Engines) >= 1
<1>1. Parts \subseteq Engines
  BY DEF Parts
<1>2. Cardinality(Engines) # 0
  BY CacheAssumption, FS_EmptySet
<1>3. QED
  BY <1>1, <1>2, Finite, FS_Subset, FS_CardinalityType

\* The cap stays as nearly held when nothing grows and nobody passes the test.
LEMMA CapStep ==
  ASSUME IndInv, FsInv', NEW e \in Engines, Others(e),
         eng'[e].pc = "part" => eng[e].pc = "part",
         \A a \in Archives : Held(a)' <= Held(a)
  PROVE  CapNearlyHolds'
<1>1. Used \in Nat /\ Used' \in Nat /\ Used' <= Used
  <2>1. \A a \in Archives : Held(a)' <= Held(a) + (IF a = None THEN 0 ELSE 0)
    <3>1. \A a \in Archives : Held(a) \in Nat
      BY HeldType DEF IndInv
    <3>2. QED
      BY <3>1
  <2> HIDE DEF Held
  <2>2. Used \in Nat /\ Used' \in Nat /\ Used' <= Used + 0
    BY <2>1, UsedBound DEF IndInv
  <2>3. QED
    BY <2>2
<1>2. Parts' \subseteq Parts
  BY DEF Parts, Others
<1>3. IsFiniteSet(Parts) /\ Cardinality(Parts) \in Nat
  BY PartsFacts
<1>4. Cardinality(Parts') \in Nat /\ Cardinality(Parts') <= Cardinality(Parts)
  BY <1>2, <1>3, FS_Subset, FS_CardinalityType
<1>5. Used + Cardinality(Parts) <= Cap + Cardinality(Engines) - 1
  BY DEF IndInv, CapNearlyHolds, Parts
<1>6. Used' + Cardinality(Parts') <= Cap + Cardinality(Engines) - 1
  BY <1>1, <1>3, <1>4, <1>5, PartsFacts, CacheAssumption
<1>7. QED
  BY <1>6 DEF CapNearlyHolds, Parts

\* An engine moves, the entries keep their directories and hold no more.
LEMMA EngineStep ==
  ASSUME IndInv, FsInv', NEW e \in Engines, Others(e), platform' = platform,
         \A a \in Archives : live[a] # None => live'[a] = live[a],
         EngineInv(e)', Keeps(e)', eng'[e].pc = "part" => eng[e].pc = "part",
         \A a \in Archives : Held(a)' <= Held(a)
  PROVE  IndInv'
<1>1. ASSUME NEW f \in Engines, f # e PROVE EngineInv(f)' /\ Keeps(f)'
  <2>1. EngineInv(f) /\ Keeps(f) /\ eng'[f] = eng[f]
    BY <1>1 DEF IndInv, Others
  <2>2. EngineInv(f)'
    BY <2>1 DEF EngineInv, Cleaning
  <2>3. \A a \in Archives, d \in Dirs : live[a] = d => live'[a] = d
    BY CacheAssumption
  <2>4. Keeps(f)'
    BY <2>1, <2>3 DEF Keeps, EngineInv
  <2>5. QED
    BY <2>2, <2>4
<1>2. CapNearlyHolds'
  BY CapStep
<1>3. QED
  BY <1>1, <1>2 DEF IndInv, Others

\* an engine's own step, which leaves the file system alone
LEMMA OwnStep ==
  ASSUME IndInv, NEW e \in Engines, Others(e), platform' = platform, UNCHANGED fsVars,
         EngineInv(e)', Keeps(e)', eng'[e].pc = "part" => eng[e].pc = "part"
  PROVE  IndInv'
<1>1. live' = live /\ trash' = trash /\ dir' = dir
  BY DEF fsVars
<1>2. FsInv'
  BY <1>1 DEF IndInv, FsInv
<1>3. \A a \in Archives : Held(a)' <= Held(a)
  <2>1. \A a \in Archives : Held(a)' = Held(a)
    BY <1>1 DEF Held, SizeOf, At
  <2>2. \A a \in Archives : Held(a) \in Nat
    BY HeldType DEF IndInv
  <2>3. QED
    BY <2>1, <2>2
<1>4. QED
  BY <1>1, <1>2, <1>3, EngineStep

LEMMA SmallerSize ==
  ASSUME FsInv, FsInv', NEW d \in Dirs, dir'[d].member => dir[d].member,
         Cardinality(dir'[d].parts) <= Cardinality(dir[d].parts)
  PROVE  SizeOf(dir[d])' <= SizeOf(dir[d])
<1>1. dir[d].parts \in SUBSET (Engines \cup Corpses) /\ dir'[d].parts \in SUBSET (Engines \cup Corpses)
  BY DEF FsInv, Contents
<1>2. Cardinality(dir[d].parts) \in Nat /\ Cardinality(dir'[d].parts) \in Nat
  BY <1>1, Finite
<1>3. SizeOf(dir[d])' = (IF dir'[d].member THEN 1 ELSE 0) + Cardinality(dir'[d].parts)
  BY DEF SizeOf
<1>4. SizeOf(dir[d]) = (IF dir[d].member THEN 1 ELSE 0) + Cardinality(dir[d].parts)
  BY DEF SizeOf
<1>5. QED
  BY <1>2, <1>3, <1>4

LEMMA FewerParts ==
  ASSUME FsInv, NEW d \in Dirs, NEW s, s \subseteq dir[d].parts
  PROVE  Cardinality(s) <= Cardinality(dir[d].parts)
<1>1. dir[d].parts \in SUBSET (Engines \cup Corpses)
  BY DEF FsInv, Contents
<1>2. QED
  BY <1>1, Finite, FS_Subset

\* a step in the directories, no entry moves
LEMMA DirStep ==
  ASSUME IndInv, FsInv', NEW e \in Engines, Others(e), platform' = platform, live' = live,
         \A d \in Dirs : SizeOf(dir[d])' <= SizeOf(dir[d]),
         EngineInv(e)', Keeps(e)', eng'[e].pc = "part" => eng[e].pc = "part"
  PROVE  IndInv'
<1>1. ASSUME NEW a \in Archives PROVE Held(a)' <= Held(a)
  <2>1. CASE live[a] = None
    <3>1. Held(a)' = Held(a)
      BY <2>1 DEF Held, SizeOf, At, Empty
    <3>2. Held(a) \in Nat
      BY HeldType DEF IndInv
    <3>3. QED
      BY <3>1, <3>2
  <2>2. CASE live[a] # None
    <3>1. live[a] \in Dirs /\ Held(a) = SizeOf(dir[live[a]])
      BY <2>2, HeldType DEF IndInv
    <3>2. Held(a)' = SizeOf(dir[live[a]])'
      BY <2>2 DEF Held, At
    <3>3. SizeOf(dir[live[a]])' <= SizeOf(dir[live[a]])
      BY <3>1
    <3>4. QED
      BY <3>1, <3>2, <3>3
  <2>3. QED
    BY <2>1, <2>2
<1>2. QED
  BY <1>1, EngineStep

-----------------------------------------------------------------------------
(* Steps of an engine that leave the file system alone *)

LEMMA OpenLockInv ==
  ASSUME IndInv, NEW e \in Engines, OpenLock(e)
  PROVE  IndInv'
<1> USE DEF Goes, Fields, Idle
<1>0. EngineInv(e) /\ DOMAIN eng = Engines /\ FsInv
  BY DEF IndInv
<1>1. Others(e) /\ platform' = platform /\ UNCHANGED fsVars
  BY <1>0 DEF OpenLock, Others, fixed
<1>2. live' = live
  BY <1>1 DEF fsVars
<1>3. EngineInv(e)'
  BY <1>0 DEF OpenLock, EngineInv, FsInv, Cleaning
<1>4. Keeps(e)' /\ eng'[e].pc # "part"
  BY <1>0, <1>2 DEF OpenLock, EngineInv, FsInv, Keeps
<1>5. QED
  BY <1>1, <1>3, <1>4, OwnStep

LEMMA LockSharedInv ==
  ASSUME IndInv, NEW e \in Engines, LockShared(e)
  PROVE  IndInv'
<1> USE DEF Goes, Fields, Idle
<1>0. EngineInv(e) /\ Keeps(e) /\ DOMAIN eng = Engines
  BY DEF IndInv
<1>1. Others(e) /\ platform' = platform /\ UNCHANGED fsVars
  BY <1>0 DEF LockShared, Others, fixed
<1>2. live' = live
  BY <1>1 DEF fsVars
<1>3. EngineInv(e)'
  BY <1>0 DEF LockShared, EngineInv, Cleaning
<1>4. Keeps(e)' /\ eng'[e].pc # "part"
  BY <1>0, <1>1, <1>2 DEF LockShared, EngineInv, Keeps
<1>5. QED
  BY <1>1, <1>3, <1>4, OwnStep

LEMMA ReadRecordInv ==
  ASSUME IndInv, NEW e \in Engines, ReadRecord(e)
  PROVE  IndInv'
<1> USE DEF Goes, Fields, Idle
<1>0. EngineInv(e) /\ Keeps(e) /\ DOMAIN eng = Engines
  BY DEF IndInv
<1>1. Others(e) /\ platform' = platform /\ UNCHANGED fsVars
  BY <1>0 DEF ReadRecord, Others, fixed
<1>2. live' = live
  BY <1>1 DEF fsVars
<1>3. EngineInv(e)'
  BY <1>0 DEF ReadRecord, EngineInv, Cleaning
<1>4. Keeps(e)' /\ eng'[e].pc # "part"
  BY <1>0, <1>1, <1>2 DEF ReadRecord, EngineInv, Keeps
<1>5. QED
  BY <1>1, <1>3, <1>4, OwnStep

LEMMA MakeFilesInv ==
  ASSUME IndInv, NEW e \in Engines, MakeFiles(e)
  PROVE  IndInv'
<1> USE DEF Goes, Fields, Idle, Unleased
<1>0. EngineInv(e) /\ Keeps(e) /\ DOMAIN eng = Engines
  BY DEF IndInv
<1>1. Others(e) /\ platform' = platform /\ UNCHANGED fsVars
  BY <1>0 DEF MakeFiles, Others, fixed
<1>2. live' = live
  BY <1>1 DEF fsVars
<1>3. EngineInv(e)'
  BY <1>0 DEF MakeFiles, EngineInv, Cleaning
<1>4. Keeps(e)' /\ eng'[e].pc # "part"
  BY <1>0, <1>1, <1>2 DEF MakeFiles, EngineInv, Keeps
<1>5. QED
  BY <1>1, <1>3, <1>4, OwnStep

LEMMA UnmountInv ==
  ASSUME IndInv, NEW e \in Engines, Unmount(e)
  PROVE  IndInv'
<1> USE DEF Goes, Fields, Idle
<1>0. EngineInv(e) /\ Keeps(e) /\ DOMAIN eng = Engines
  BY DEF IndInv
<1>1. Others(e) /\ platform' = platform /\ UNCHANGED fsVars
  BY <1>0 DEF Unmount, Others, fixed
<1>2. live' = live
  BY <1>1 DEF fsVars
<1>3. EngineInv(e)'
  BY <1>0 DEF Unmount, EngineInv, Cleaning
<1>4. Keeps(e)' /\ eng'[e].pc # "part"
  BY <1>0, <1>1, <1>2 DEF Unmount, EngineInv, Keeps
<1>5. QED
  BY <1>1, <1>3, <1>4, OwnStep

LEMMA NextEntryInv ==
  ASSUME IndInv, NEW e \in Engines, NEW a \in Archives, NextEntry(e, a)
  PROVE  IndInv'
<1> USE DEF Goes, Fields, Idle
<1>0. EngineInv(e) /\ Keeps(e) /\ DOMAIN eng = Engines /\ FsInv
  BY DEF IndInv
<1>1. Others(e) /\ platform' = platform /\ UNCHANGED fsVars
  BY <1>0 DEF NextEntry, Others, fixed
<1>2. live' = live
  BY <1>1 DEF fsVars
<1>3. EngineInv(e)'
  BY <1>0 DEF NextEntry, EngineInv, FsInv, Cleaning
<1>4. Keeps(e)' /\ eng'[e].pc # "part"
  BY <1>0, <1>1, <1>2 DEF NextEntry, EngineInv, Keeps
<1>5. QED
  BY <1>1, <1>3, <1>4, OwnStep

LEMMA LockExclusiveInv ==
  ASSUME IndInv, NEW e \in Engines, LockExclusive(e)
  PROVE  IndInv'
<1> USE DEF Goes, Fields, Idle
<1>0. EngineInv(e) /\ Keeps(e) /\ DOMAIN eng = Engines
  BY DEF IndInv
<1>1. Others(e) /\ platform' = platform /\ UNCHANGED fsVars
  BY <1>0 DEF LockExclusive, Others, fixed
<1>2. live' = live
  BY <1>1 DEF fsVars
<1>3. EngineInv(e)'
  BY <1>0 DEF LockExclusive, EngineInv, Cleaning
<1>4. Keeps(e)' /\ eng'[e].pc # "part"
  BY <1>0, <1>1, <1>2 DEF LockExclusive, EngineInv, Keeps
<1>5. QED
  BY <1>1, <1>3, <1>4, OwnStep

LEMMA RetireInv ==
  ASSUME IndInv, NEW e \in Engines, Retire(e)
  PROVE  IndInv'
<1> USE DEF Goes, Fields, Idle, Unlocked
<1>0. EngineInv(e) /\ Keeps(e) /\ DOMAIN eng = Engines
  BY DEF IndInv
<1>1. Others(e) /\ platform' = platform /\ UNCHANGED fsVars
  BY <1>0 DEF Retire, Others, fixed
<1>2. live' = live
  BY <1>1 DEF fsVars
<1>3. EngineInv(e)'
  BY <1>0 DEF Retire, EngineInv, Cleaning
<1>4. Keeps(e)' /\ eng'[e].pc # "part"
  BY <1>0, <1>1, <1>2 DEF Retire, EngineInv, Keeps
<1>5. QED
  BY <1>1, <1>3, <1>4, OwnStep

LEMMA MeasureAllInv ==
  ASSUME IndInv, NEW e \in Engines, MeasureAll(e)
  PROVE  IndInv'
<1> USE DEF Goes, Fields, Idle
<1>0. EngineInv(e) /\ Keeps(e) /\ DOMAIN eng = Engines
  BY DEF IndInv
<1>1. Others(e) /\ platform' = platform /\ UNCHANGED fsVars
  BY <1>0 DEF MeasureAll, Others, fixed
<1>2. live' = live
  BY <1>1 DEF fsVars
<1>3. EngineInv(e)'
  BY <1>0 DEF MeasureAll, EngineInv, Cleaning
<1>4. Keeps(e)' /\ eng'[e].pc # "part"
  BY <1>0, <1>1, <1>2 DEF MeasureAll, EngineInv, Keeps
<1>5. QED
  BY <1>1, <1>3, <1>4, OwnStep

LEMMA EvictInv ==
  ASSUME IndInv, NEW e \in Engines, NEW k \in eng[e].kept, Evict(e, k)
  PROVE  IndInv'
<1> USE DEF Goes, Fields, Idle
<1>0. EngineInv(e) /\ Keeps(e) /\ DOMAIN eng = Engines
  BY DEF IndInv
<1>1. Others(e) /\ platform' = platform /\ UNCHANGED fsVars
  BY <1>0 DEF Evict, Others, fixed
<1>2. live' = live
  BY <1>1 DEF fsVars
<1>3. EngineInv(e)'
  BY <1>0 DEF Evict, EngineInv, Cleaning
<1>4. Keeps(e)' /\ eng'[e].pc # "part"
  BY <1>0, <1>1, <1>2 DEF Evict, EngineInv, Keeps
<1>5. QED
  BY <1>1, <1>3, <1>4, OwnStep

LEMMA CleanupDoneInv ==
  ASSUME IndInv, NEW e \in Engines, CleanupDone(e)
  PROVE  IndInv'
<1> USE DEF Goes, Fields, Idle
<1>0. EngineInv(e) /\ Keeps(e) /\ DOMAIN eng = Engines
  BY DEF IndInv
<1>1. Others(e) /\ platform' = platform /\ UNCHANGED fsVars
  BY <1>0 DEF CleanupDone, Others, fixed
<1>2. live' = live
  BY <1>1 DEF fsVars
<1>3. EngineInv(e)'
  <2>1. /\ eng'[e].pc = eng[e].back
        /\ eng'[e].a = IF eng[e].back = "idle" THEN None ELSE eng[e].lease
        /\ eng'[e].ex = {} /\ eng'[e].kept = {} /\ eng'[e].purge = FALSE /\ eng'[e].extra = 0
        /\ eng'[e].back = "idle" /\ eng'[e].after = "list"
    BY <1>0 DEF CleanupDone
  <2>2. /\ eng'[e].lease = eng[e].lease /\ eng'[e].fd = eng[e].fd /\ eng'[e].sh = eng[e].sh
        /\ eng'[e].temp = eng[e].temp /\ eng'[e].cur = eng[e].cur /\ eng'[e].todo = eng[e].todo
    BY <1>0 DEF CleanupDone
  <2> HIDE DEF Goes, Fields, Idle
  <2>3. eng[e].back \in {"idle", "measure"} /\ (eng[e].back = "measure" => eng[e].lease # None)
    BY <1>0 DEF EngineInv
  <2>4. /\ eng'[e].a \in Archives \cup {None} /\ eng'[e].pc \in {"idle", "measure"}
        /\ eng'[e].pc = "measure" => eng'[e].a \in Archives
    BY <1>0, <2>1, <2>3 DEF EngineInv
  <2>5. /\ eng'[e].lease \in Archives \cup {None}
        /\ eng'[e].fd \in Dirs \cup {None} /\ eng'[e].sh \in Dirs \cup {None}
        /\ eng'[e].temp \in Dirs \cup {None} /\ eng'[e].cur \in Dirs \cup {None}
        /\ eng'[e].todo \subseteq Archives /\ (eng'[e].lease # None => eng'[e].sh \in Dirs)
    BY <1>0, <2>2 DEF EngineInv
  <2>6. /\ eng'[e].ex \subseteq Dirs /\ eng'[e].kept \subseteq Archives \X Dirs
        /\ eng'[e].purge \in BOOLEAN /\ eng'[e].extra \in Nat
        /\ eng'[e].back \in {"idle", "measure"} /\ eng'[e].after \in {"list", "cap"}
        /\ eng'[e].back # "measure"
    <3>1. eng'[e].ex \subseteq Dirs /\ eng'[e].kept \subseteq Archives \X Dirs
      BY <2>1, Zenon
    <3>2. eng'[e].purge \in BOOLEAN
      BY <2>1, Zenon
    <3>3. /\ eng'[e].extra \in Nat /\ eng'[e].back \in {"idle", "measure"}
          /\ eng'[e].after \in {"list", "cap"} /\ eng'[e].back # "measure"
      BY <2>1
    <3>4. QED
      BY <3>1, <3>2, <3>3
  <2>7. QED
    BY <2>4, <2>5, <2>6 DEF EngineInv
<1>4. Keeps(e)' /\ eng'[e].pc # "part"
  BY <1>0, <1>1, <1>2 DEF CleanupDone, EngineInv, Keeps
<1>5. QED
  BY <1>1, <1>3, <1>4, OwnStep

-----------------------------------------------------------------------------
(* The test for room *)

\* The engine goes on only if its member fits, which bounds the others too.
LEMMA MeasureAgainInv ==
  ASSUME IndInv, NEW e \in Engines, MeasureAgain(e)
  PROVE  IndInv'
<1> USE DEF Goes, Fields, Idle
<1>0. EngineInv(e) /\ Keeps(e) /\ DOMAIN eng = Engines /\ FsInv
  BY DEF IndInv
<1>1. Others(e) /\ platform' = platform /\ UNCHANGED fsVars
  BY <1>0 DEF MeasureAgain, Others, fixed
<1>2. live' = live /\ trash' = trash /\ dir' = dir
  BY <1>1 DEF fsVars
<1>3. EngineInv(e)'
  BY <1>0 DEF MeasureAgain, EngineInv, Cleaning
<1>4. Keeps(e)'
  BY <1>0, <1>1, <1>2 DEF MeasureAgain, EngineInv, Keeps
<1>5. CASE Used + 1 > Cap
  <2>1. eng'[e].pc # "part"
    BY <1>0, <1>5 DEF MeasureAgain
  <2>2. QED
    BY <1>1, <1>3, <1>4, <2>1, OwnStep
<1>6. CASE ~ (Used + 1 > Cap)
  <2>1. FsInv'
    BY <1>0, <1>1, <1>2 DEF FsInv
  <2>2. ASSUME NEW f \in Engines, f # e PROVE EngineInv(f)' /\ Keeps(f)'
    <3>1. EngineInv(f) /\ Keeps(f) /\ eng'[f] = eng[f]
      BY <1>1, <2>2 DEF IndInv, Others
    <3> HIDE DEF Goes, Fields, Idle
    <3>2. QED
      BY <1>1, <1>2, <3>1 DEF EngineInv, Keeps, Cleaning
  <2>3. CapNearlyHolds'
    <3>1. \A a \in Archives : Held(a)' = Held(a) /\ Held(a) \in Nat
      BY <1>0, <1>2, HeldType DEF Held, SizeOf, At
    <3>2. \A a \in Archives : Held(a)' <= Held(a) + (IF a = None THEN 0 ELSE 0)
      BY <3>1
    <3>3. Used \in Nat /\ Used' \in Nat /\ Used' <= Used + 0
      <4> HIDE DEF Held, Goes, Fields, Idle
      <4>1. QED
        BY <1>0, <2>1, <3>2, UsedBound
    <3>4. Cardinality(Parts') \in Nat /\ Cardinality(Parts') <= Cardinality(Engines)
      <4>1. Parts' \subseteq Engines
        BY DEF Parts
      <4>2. QED
        BY <4>1, Finite, FS_Subset, FS_CardinalityType
    <3>5. Used' + Cardinality(Parts') <= Cap + Cardinality(Engines) - 1
      <4> HIDE DEF Goes, Fields, Idle
      <4>1. QED
        BY <1>6, <3>3, <3>4, PartsFacts, CacheAssumption
    <3>6. QED
      BY <3>5 DEF CapNearlyHolds, Parts
  <2> HIDE DEF Goes, Fields, Idle
  <2>4. QED
    BY <1>1, <1>3, <1>4, <2>1, <2>2, <2>3 DEF IndInv, Others
<1>7. QED
  BY <1>5, <1>6

-----------------------------------------------------------------------------
(* Steps in the directories *)

LEMMA SweepInv ==
  ASSUME FsInv, SweepLeftovers, live' = live, platform' = platform
  PROVE  FsInv' /\ \A d \in Dirs : SizeOf(dir[d])' <= SizeOf(dir[d])
<1>1. ASSUME NEW d \in Dirs
      PROVE  /\ d \notin trash => dir'[d] = dir[d]
             /\ d \in trash => /\ dir'[d].toml = "missing" /\ dir'[d].tmps = dir[d].tmps
                               /\ dir'[d].member = FALSE /\ dir'[d].parts = {}
  BY DEF SweepLeftovers, Removed, Empty, FsInv
<1>2. dir' \in [Dirs -> Contents]
  BY DEF SweepLeftovers, Removed, Empty, FsInv, Contents
<1>3. FsInv'
  BY <1>1, <1>2 DEF FsInv, SweepLeftovers
<1>4. ASSUME NEW d \in Dirs PROVE SizeOf(dir[d])' <= SizeOf(dir[d])
  <2>1. dir'[d].parts \subseteq dir[d].parts /\ (dir'[d].member => dir[d].member)
    BY <1>1
  <2>2. Cardinality(dir'[d].parts) <= Cardinality(dir[d].parts)
    BY <2>1, FewerParts
  <2>3. QED
    BY <1>3, <2>1, <2>2, SmallerSize
<1>5. QED
  BY <1>3, <1>4

\* Where members and parts only go, the rest follows.
LEMMA FewerFiles ==
  ASSUME FsInv, platform' = platform, live' = live, trash' = trash,
         dir' \in [Dirs -> Contents],
         \A d \in Dirs : dir'[d].parts \subseteq dir[d].parts /\ (dir'[d].member => dir[d].member)
  PROVE  FsInv' /\ \A d \in Dirs : SizeOf(dir[d])' <= SizeOf(dir[d])
<1>1. FsInv'
  <2>1. ASSUME NEW d \in Dirs, d \notin trash, \A a \in Archives : live[a] # d
        PROVE  ~ dir'[d].member /\ dir'[d].parts = {}
    <3>1. ~ dir[d].member /\ dir[d].parts = {}
      BY <2>1 DEF FsInv
    <3>2. QED
      BY <3>1
  <2>2. QED
    BY <2>1 DEF FsInv
<1>2. QED
  BY <1>1, FewerParts, SmallerSize

LEMMA BeginCleanupInv ==
  ASSUME IndInv, NEW e \in Engines, NEW purge \in BOOLEAN, NEW extra \in Nat, NEW back,
         back \in {"idle", "measure"}, back = "measure" => eng[e].lease # None,
         eng[e].pc = "idle", BeginCleanup(e, purge, extra, back)
  PROVE  IndInv'
<1> USE DEF Goes, Fields, Idle
<1>0. EngineInv(e) /\ Keeps(e) /\ DOMAIN eng = Engines /\ FsInv
  BY DEF IndInv
<1>1. Others(e) /\ platform' = platform /\ live' = live /\ SweepLeftovers
  BY <1>0 DEF BeginCleanup, Others, fixed
<1>3. EngineInv(e)'
  BY <1>0 DEF BeginCleanup, EntryDirectories, EngineInv, Cleaning
<1>4. Keeps(e)' /\ eng'[e].pc # "part"
  BY <1>0, <1>1 DEF BeginCleanup, EngineInv, Keeps
<1> HIDE DEF Goes, Fields, Idle
<1>5. FsInv' /\ \A d \in Dirs : SizeOf(dir[d])' <= SizeOf(dir[d])
  BY <1>0, <1>1, SweepInv
<1>6. QED
  BY <1>1, <1>3, <1>4, <1>5, DirStep

LEMMA CleanupInv ==
  ASSUME IndInv, NEW e \in Engines, NEW purge \in BOOLEAN, Cleanup(e, purge)
  PROVE  IndInv'
BY BeginCleanupInv DEF Cleanup

LEMMA ServeInv ==
  ASSUME IndInv, NEW e \in Engines, Serve(e)
  PROVE  IndInv'
<1> USE DEF Goes, Fields, Idle
<1>0. EngineInv(e) /\ Keeps(e) /\ DOMAIN eng = Engines
  BY DEF IndInv
<1>1. CASE Used + 1 > Cap
  <2>1. eng[e].pc = "idle" /\ eng[e].lease # None /\ BeginCleanup(e, FALSE, 1, "measure")
    BY <1>1 DEF Serve
  <2>2. QED
    BY <2>1, BeginCleanupInv
<1>2. CASE ~ (Used + 1 > Cap)
  <2>1. Others(e) /\ platform' = platform /\ UNCHANGED fsVars
    BY <1>0, <1>2 DEF Serve, Others, fixed
  <2>2. live' = live
    BY <2>1 DEF fsVars
  <2>3. EngineInv(e)'
    BY <1>0, <1>2 DEF Serve, EngineInv, Cleaning
  <2>4. Keeps(e)' /\ eng'[e].pc # "part"
    BY <1>0, <1>2, <2>1, <2>2 DEF Serve, EngineInv, Keeps
  <2>5. QED
    BY <2>1, <2>3, <2>4, OwnStep
<1>3. QED
  BY <1>1, <1>2

LEMMA ClearFilesInv ==
  ASSUME IndInv, NEW e \in Engines, ClearFiles(e)
  PROVE  IndInv'
<1> USE DEF Goes, Fields, Idle
<1>0. EngineInv(e) /\ Keeps(e) /\ DOMAIN eng = Engines /\ FsInv
  BY DEF IndInv
<1>1. Others(e) /\ platform' = platform /\ live' = live /\ trash' = trash
  BY <1>0 DEF ClearFiles, Others, fixed
<1>3. EngineInv(e)'
  BY <1>0 DEF ClearFiles, EngineInv, Cleaning
<1>4. Keeps(e)' /\ eng'[e].pc # "part"
  BY <1>0, <1>1 DEF ClearFiles, EngineInv, Keeps
<1> DEFINE c == live[eng[e].a]
<1>5. dir' = dir \/ (c \in Dirs /\ dir' = [dir EXCEPT ![c].member = FALSE, ![c].parts = {}])
  BY <1>0 DEF ClearFiles, EngineInv, FsInv
<1> HIDE DEF Goes, Fields, Idle, c
<1>6. \A d \in Dirs : dir'[d].parts \subseteq dir[d].parts /\ (dir'[d].member => dir[d].member)
  BY <1>0, <1>5 DEF FsInv, Contents
<1>7. dir' \in [Dirs -> Contents]
  <2>1. ASSUME NEW d \in Dirs PROVE dir'[d] \in Contents
    <3>1. CASE dir'[d] = dir[d]
      BY <1>0, <3>1 DEF FsInv
    <3>2. CASE dir'[d] # dir[d]
      <4>1. dir'[d] = [dir[d] EXCEPT !.member = FALSE, !.parts = {}] /\ dir[d] \in Contents
        BY <1>0, <1>5, <3>2 DEF FsInv
      <4>2. QED
        BY <4>1 DEF Contents
    <3>3. QED
      BY <3>1, <3>2
  <2>2. dir' = [d \in Dirs |-> dir'[d]]
    BY <1>0, <1>5 DEF FsInv
  <2>3. QED
    BY <2>1, <2>2
<1>8. FsInv' /\ \A d \in Dirs : SizeOf(dir[d])' <= SizeOf(dir[d])
  BY <1>0, <1>1, <1>6, <1>7, FewerFiles
<1>9. QED
  BY <1>1, <1>3, <1>4, <1>8, DirStep

LEMMA WriteTempInv ==
  ASSUME IndInv, NEW e \in Engines, NEW ok \in BOOLEAN, WriteTemp(e, ok)
  PROVE  IndInv'
<1> USE DEF Goes, Fields, Idle, Unleased
<1>0. EngineInv(e) /\ Keeps(e) /\ DOMAIN eng = Engines /\ FsInv /\ eng[e].a \in Archives
  BY DEF IndInv, WriteTemp, EngineInv
<1>1. Others(e) /\ platform' = platform /\ live' = live /\ trash' = trash
  BY <1>0 DEF WriteTemp, Others, fixed
<1>2. live[eng[e].a] \in Dirs \cup {None}
  BY <1>0 DEF FsInv
<1>3. EngineInv(e)'
  BY <1>0, <1>2 DEF WriteTemp, EngineInv, Cleaning
<1>4. Keeps(e)' /\ eng'[e].pc # "part"
  BY <1>0, <1>1 DEF WriteTemp, EngineInv, Keeps
<1>5. dir' = dir \/ (live[eng[e].a] \in Dirs
                     /\ dir' = [dir EXCEPT ![live[eng[e].a]].tmps = @ \cup {e}])
  BY <1>2 DEF WriteTemp
<1> HIDE DEF Goes, Fields, Idle, Unleased
<1>6. \A d \in Dirs : dir'[d].parts \subseteq dir[d].parts /\ (dir'[d].member => dir[d].member)
  BY <1>0, <1>5 DEF FsInv, Contents
<1>7. dir' \in [Dirs -> Contents]
  BY <1>0, <1>5 DEF FsInv, Contents
<1>8. FsInv' /\ \A d \in Dirs : SizeOf(dir[d])' <= SizeOf(dir[d])
  BY <1>0, <1>1, <1>6, <1>7, FewerFiles
<1>9. QED
  BY <1>1, <1>3, <1>4, <1>8, DirStep

LEMMA RenameTempInv ==
  ASSUME IndInv, NEW e \in Engines, RenameTemp(e)
  PROVE  IndInv'
<1> USE DEF Goes, Fields, Idle, Unleased
<1>0. EngineInv(e) /\ Keeps(e) /\ DOMAIN eng = Engines /\ FsInv /\ eng[e].temp \in Dirs
  BY DEF IndInv, RenameTemp, EngineInv
<1>1. Others(e) /\ platform' = platform /\ live' = live /\ trash' = trash
  BY <1>0 DEF RenameTemp, Others, fixed
<1>3. EngineInv(e)'
  BY <1>0 DEF RenameTemp, EngineInv, Cleaning
<1>4. Keeps(e)' /\ eng'[e].pc # "part"
  BY <1>0, <1>1 DEF RenameTemp, EngineInv, Keeps
<1>5. dir' = dir \/ dir' = [dir EXCEPT ![eng[e].temp].tmps = @ \ {e}, ![eng[e].temp].toml = "recent"]
  BY DEF RenameTemp
<1> HIDE DEF Goes, Fields, Idle, Unleased
<1>6. \A d \in Dirs : dir'[d].parts \subseteq dir[d].parts /\ (dir'[d].member => dir[d].member)
  BY <1>0, <1>5 DEF FsInv, Contents
<1>7. dir' \in [Dirs -> Contents]
  BY <1>0, <1>5 DEF FsInv, Contents
<1>8. FsInv' /\ \A d \in Dirs : SizeOf(dir[d])' <= SizeOf(dir[d])
  BY <1>0, <1>1, <1>6, <1>7, FewerFiles
<1>9. QED
  BY <1>1, <1>3, <1>4, <1>8, DirStep

LEMMA JudgeInv ==
  ASSUME IndInv, NEW e \in Engines, Judge(e)
  PROVE  IndInv'
<1> USE DEF Goes, Fields, Idle
<1>0. EngineInv(e) /\ Keeps(e) /\ DOMAIN eng = Engines /\ FsInv
      /\ eng[e].a \in Archives /\ eng[e].cur \in Dirs
  BY DEF IndInv, Judge, EngineInv
<1>1. Others(e) /\ platform' = platform /\ live' = live /\ trash' = trash
  BY <1>0 DEF Judge, Others, fixed
<1>2. live[eng[e].a] \in Dirs \cup {None}
  BY <1>0 DEF FsInv
<1>3. EngineInv(e)'
  BY <1>0 DEF Judge, EngineInv, Cleaning
<1>4. Keeps(e)' /\ eng'[e].pc # "part"
  BY <1>0, <1>1 DEF Judge, EngineInv, Keeps
<1>5. \E stale : dir' = dir \/ (live[eng[e].a] \in Dirs
                     /\ dir' = [dir EXCEPT ![live[eng[e].a]].parts = @ \ stale])
  BY <1>2 DEF Judge
<1> HIDE DEF Goes, Fields, Idle
<1>6. \A d \in Dirs : dir'[d].parts \subseteq dir[d].parts /\ (dir'[d].member => dir[d].member)
  BY <1>0, <1>5 DEF FsInv, Contents
<1>7. dir' \in [Dirs -> Contents]
  BY <1>0, <1>5 DEF FsInv, Contents
<1>8. FsInv' /\ \A d \in Dirs : SizeOf(dir[d])' <= SizeOf(dir[d])
  BY <1>0, <1>1, <1>6, <1>7, FewerFiles
<1>9. QED
  BY <1>1, <1>3, <1>4, <1>8, DirStep

LEMMA RemoveInv ==
  ASSUME IndInv, NEW e \in Engines, Remove(e)
  PROVE  IndInv'
<1> USE DEF Goes, Fields, Idle
<1>0. EngineInv(e) /\ Keeps(e) /\ DOMAIN eng = Engines /\ FsInv
  BY DEF IndInv
<1>1. Others(e) /\ platform' = platform /\ live' = live
  BY <1>0 DEF Remove, Others, fixed
<1>3. EngineInv(e)'
  BY <1>0 DEF Remove, EngineInv, Cleaning
<1>4. Keeps(e)' /\ eng'[e].pc # "part"
  BY <1>0, <1>1 DEF Remove, EngineInv, Keeps
<1> DEFINE c == eng[e].cur
<1>5. /\ dir' = IF c \in trash THEN [dir EXCEPT ![c] = Removed(c)] ELSE dir
      /\ trash' = IF dir[c].tmps = {} THEN trash \ {c} ELSE trash
  BY DEF Remove
<1> HIDE DEF Goes, Fields, Idle, c
<1>6. FsInv' /\ \A d \in Dirs : SizeOf(dir[d])' <= SizeOf(dir[d])
  <2>1. CASE c \notin trash
    <3>1. dir' = dir /\ trash' = trash
      BY <1>5, <2>1
    <3>2. QED
      BY <1>0, <1>1, <3>1, FewerFiles DEF FsInv
  <2>2. CASE c \in trash
    <3>1. c \in Dirs
      BY <1>0, <2>2 DEF FsInv
    <3>2. ASSUME NEW d \in Dirs, d # c PROVE dir'[d] = dir[d]
      BY <1>0, <1>5, <2>2, <3>2 DEF FsInv
    <3>3. dir'[c] = Removed(c) /\ dir' \in [Dirs -> Contents]
      BY <1>0, <1>5, <2>2, <3>1 DEF FsInv, Removed, Empty, Contents
    <3>4. /\ dir'[c].member = FALSE /\ dir'[c].parts = {}
      BY <3>3 DEF Removed, Empty
    <3>5. FsInv'
      <4>1. ASSUME NEW d \in Dirs, d \notin trash', \A a \in Archives : live[a] # d
            PROVE  ~ dir'[d].member /\ dir'[d].parts = {}
        <5>1. CASE d = c
          BY <3>4, <5>1
        <5>2. CASE d # c
          <6>1. d \notin trash
            BY <1>5, <4>1, <5>2
          <6>2. ~ dir[d].member /\ dir[d].parts = {}
            BY <1>0, <4>1, <6>1 DEF FsInv
          <6>3. QED
            BY <3>2, <5>2, <6>2
        <5>3. QED
          BY <5>1, <5>2
      <4>2. trash' \subseteq trash
        BY <1>5
      <4>3. QED
        BY <1>0, <1>1, <3>3, <4>1, <4>2 DEF FsInv
    <3>6. \A d \in Dirs : dir'[d].parts \subseteq dir[d].parts /\ (dir'[d].member => dir[d].member)
      BY <3>2, <3>4
    <3>7. QED
      BY <1>0, <3>5, <3>6, FewerParts, SmallerSize
  <2>3. QED
    BY <2>1, <2>2
<1>7. QED
  BY <1>1, <1>3, <1>4, <1>6, DirStep

\* The part becomes the member: no more is held.
LEMMA FinishPartInv ==
  ASSUME IndInv, NEW e \in Engines, NEW ok \in BOOLEAN, FinishPart(e, ok)
  PROVE  IndInv'
<1> USE DEF Goes, Fields, Idle
<1>0. EngineInv(e) /\ Keeps(e) /\ DOMAIN eng = Engines /\ FsInv
      /\ eng[e].a \in Archives /\ eng[e].temp \in Dirs
  BY DEF IndInv, FinishPart, EngineInv
<1>1. Others(e) /\ platform' = platform /\ live' = live /\ trash' = trash
  BY <1>0 DEF FinishPart, Others, fixed
<1>3. EngineInv(e)'
  BY <1>0 DEF FinishPart, EngineInv, Cleaning
<1>4. Keeps(e)' /\ eng'[e].pc # "part"
  BY <1>0, <1>1 DEF FinishPart, EngineInv, Keeps
<1>2. PICK c \in Dirs : c = eng[e].temp
  BY <1>0
<1>5. \/ dir' = dir
      \/ /\ live[eng[e].a] = c /\ e \in dir[c].parts
         /\ dir' = [dir EXCEPT ![c].parts = @ \ {e}, ![c].member = @ \/ ok]
  BY <1>2 DEF FinishPart
<1> HIDE DEF Goes, Fields, Idle
<1>7. CASE dir' = dir
  <2>1. FsInv' /\ \A d \in Dirs : SizeOf(dir[d])' <= SizeOf(dir[d])
    BY <1>0, <1>1, <1>7, FewerFiles DEF FsInv
  <2>2. QED
    BY <1>1, <1>3, <1>4, <2>1, DirStep
<1>8. CASE /\ live[eng[e].a] = c /\ e \in dir[c].parts
           /\ dir' = [dir EXCEPT ![c].parts = @ \ {e}, ![c].member = @ \/ ok]
  <2>1. ASSUME NEW d \in Dirs, d # c PROVE dir'[d] = dir[d]
    BY <1>0, <1>8, <2>1 DEF FsInv
  <2>2. dir'[c] = [dir[c] EXCEPT !.parts = @ \ {e}, !.member = @ \/ ok] /\ dir[c] \in Contents
    BY <1>0, <1>8 DEF FsInv
  <2>3. dir'[c].parts = dir[c].parts \ {e} /\ dir[c].parts \in SUBSET (Engines \cup Corpses)
    BY <2>2 DEF Contents
  <2>4. dir'[c] \in Contents
    <3>1. (dir[c].member \/ ok) \in BOOLEAN
      BY Zenon
    <3>2. dir'[c] = [dir[c] EXCEPT !.parts = dir[c].parts \ {e}, !.member = (dir[c].member \/ ok)]
      BY <2>2 DEF Contents
    <3>3. QED
      BY <2>2, <2>3, <3>1, <3>2 DEF Contents
  <2>5. FsInv'
    <3>1. dir' = [d \in Dirs |-> dir'[d]]
      BY <1>0, <1>8 DEF FsInv
    <3>2. dir' \in [Dirs -> Contents]
      <4>1. \A d \in Dirs : dir[d] \in Contents
        BY <1>0 DEF FsInv
      <4>2. QED
        BY <2>1, <2>4, <3>1, <4>1
    <3>3. \A d \in Dirs : (\A a \in Archives : live[a] # d) => dir'[d] = dir[d]
      BY <1>0, <1>8, <2>1
    <3>4. QED
      BY <1>0, <1>1, <3>2, <3>3 DEF FsInv
  <2>6. ASSUME NEW d \in Dirs PROVE SizeOf(dir[d])' <= SizeOf(dir[d])
    <3>1. CASE d # c
      <4>1. SizeOf(dir[d])' = SizeOf(dir[d]) /\ SizeOf(dir[d]) \in Nat
        BY <1>0, <2>1, <3>1, HeldType DEF SizeOf
      <4>2. QED
        BY <4>1
    <3>2. CASE d = c
      <4>1. /\ Cardinality(dir[c].parts) \in Nat
            /\ Cardinality(dir[c].parts \ {e}) = Cardinality(dir[c].parts) - 1
        BY <1>8, <2>3, Finite, FS_RemoveElement
      <4>2. SizeOf(dir[c])' = (IF dir'[c].member THEN 1 ELSE 0) + Cardinality(dir[c].parts \ {e})
        BY <2>3 DEF SizeOf
      <4>3. SizeOf(dir[c]) = (IF dir[c].member THEN 1 ELSE 0) + Cardinality(dir[c].parts)
        BY DEF SizeOf
      <4>4. SizeOf(dir[c])' <= SizeOf(dir[c])
        BY <4>1, <4>2, <4>3
      <4>5. QED
        BY <3>2, <4>4
    <3>3. QED
      BY <3>1, <3>2
  <2>7. QED
    BY <1>1, <1>3, <1>4, <2>5, <2>6, DirStep
<1>9. QED
  BY <1>5, <1>7, <1>8

\* Time passes, no engine moves.
LEMMA ExpireInv ==
  ASSUME IndInv, NEW a \in Archives, Expire(a)
  PROVE  IndInv'
<1>0. DOMAIN eng = Engines /\ FsInv
  BY DEF IndInv
<1>1. platform' = platform /\ live' = live /\ trash' = trash /\ eng' = eng
  BY DEF Expire, fixed
<1>2. PICK e \in Engines : TRUE
  BY CacheAssumption
<1>3. Others(e) /\ EngineInv(e)' /\ Keeps(e)' /\ (eng'[e].pc = "part" => eng[e].pc = "part")
  BY <1>1 DEF IndInv, Others, EngineInv, Keeps, Cleaning
<1>4. live[a] \in Dirs /\ dir' = [dir EXCEPT ![live[a]].toml = "old"]
  BY <1>0 DEF Expire, At, Empty, FsInv
<1>5. \A d \in Dirs : dir'[d].parts \subseteq dir[d].parts /\ (dir'[d].member => dir[d].member)
  BY <1>0, <1>4 DEF FsInv, Contents
<1>6. dir' \in [Dirs -> Contents]
  <2>1. ASSUME NEW d \in Dirs PROVE dir'[d] \in Contents
    <3>1. dir[d] \in Contents /\ dir'[d] \in {dir[d], [dir[d] EXCEPT !.toml = "old"]}
      BY <1>0, <1>4 DEF FsInv
    <3>2. QED
      BY <3>1 DEF Contents
  <2>2. dir' = [d \in Dirs |-> dir'[d]]
    BY <1>0, <1>4 DEF FsInv
  <2>3. QED
    BY <2>1, <2>2
<1>7. FsInv' /\ \A d \in Dirs : SizeOf(dir[d])' <= SizeOf(dir[d])
  BY <1>0, <1>1, <1>5, <1>6, FewerFiles
<1>8. QED
  BY <1>1, <1>3, <1>7, DirStep

\* What a dead engine leaves is as much as it had.
LEMMA CrashInv ==
  ASSUME IndInv, NEW e \in Engines, Crash(e)
  PROVE  IndInv'
<1> DEFINE Left(by) == (by \ {e}) \cup (IF e \in by THEN {crashes + 1} ELSE {})
<1>0. EngineInv(e) /\ DOMAIN eng = Engines /\ FsInv
  BY DEF IndInv
<1>1. platform' = platform /\ live' = live /\ trash' = trash
  BY DEF Crash
<1>2. eng' = [eng EXCEPT ![e] = Idle]
  BY DEF Crash
<1>3. Others(e) /\ eng'[e] = Idle
  BY <1>0, <1>2 DEF Others
<1>4. EngineInv(e)'
  BY <1>3 DEF EngineInv, Idle, Cleaning
<1>5. Keeps(e)' /\ eng'[e].pc # "part"
  BY <1>3 DEF Keeps, Idle
<1>6. dir' = [d \in Dirs |-> [dir[d] EXCEPT !.tmps = Left(@), !.parts = Left(@)]]
  BY DEF Crash
<1>7. ASSUME NEW d \in Dirs
      PROVE  /\ dir[d] \in Contents /\ dir'[d] \in Contents
             /\ dir'[d].member = dir[d].member /\ dir'[d].parts = Left(dir[d].parts)
  <2>1. dir[d] \in Contents
    BY <1>0 DEF FsInv
  <2>2. dir'[d] = [dir[d] EXCEPT !.tmps = Left(dir[d].tmps), !.parts = Left(dir[d].parts)]
    BY <1>6, <2>1 DEF Contents
  <2>3. \A s \in SUBSET (Engines \cup Corpses) : Left(s) \in SUBSET (Engines \cup Corpses)
    <3>1. crashes + 1 \in Corpses
      BY DEF Crash
    <3>2. QED
      BY <3>1
  <2> HIDE DEF Left
  <2>4. QED
    BY <2>1, <2>2, <2>3 DEF Contents
<1>8. ASSUME NEW s \in SUBSET (Engines \cup Corpses) PROVE Cardinality(Left(s)) <= Cardinality(s)
  <2>1. IsFiniteSet(s) /\ Cardinality(s) \in Nat
    BY Finite
  <2>2. CASE e \notin s
    <3>1. Left(s) = s
      BY <2>2
    <3>2. QED
      BY <2>1, <3>1
  <2>3. CASE e \in s
    <3>1. Cardinality(s \ {e}) = Cardinality(s) - 1 /\ IsFiniteSet(s \ {e})
      BY <2>1, <2>3, FS_RemoveElement
    <3>2. Left(s) = (s \ {e}) \cup {crashes + 1}
      BY <2>3
    <3>3. \/ Cardinality((s \ {e}) \cup {crashes + 1}) = Cardinality(s \ {e})
          \/ Cardinality((s \ {e}) \cup {crashes + 1}) = Cardinality(s \ {e}) + 1
      BY <3>1, FS_AddElement
    <3> HIDE DEF Left
    <3>4. QED
      BY <2>1, <3>1, <3>2, <3>3
  <2>4. QED
    BY <2>2, <2>3
<1>9. dir' \in [Dirs -> Contents]
  <2>1. dir' = [d \in Dirs |-> dir'[d]]
    BY <1>6
  <2>2. QED
    BY <1>7, <2>1
<1>10. FsInv'
  <2>1. ASSUME NEW d \in Dirs, dir[d].parts = {} PROVE dir'[d].parts = {}
    BY <1>7, <2>1
  <2> HIDE DEF Left
  <2>2. QED
    BY <1>0, <1>1, <1>7, <1>9, <2>1 DEF FsInv
<1>11. ASSUME NEW d \in Dirs PROVE SizeOf(dir[d])' <= SizeOf(dir[d])
  <2> HIDE DEF Left
  <2>1. dir[d].parts \in SUBSET (Engines \cup Corpses)
    BY <1>7 DEF Contents
  <2>2. Cardinality(dir'[d].parts) <= Cardinality(dir[d].parts) /\ (dir'[d].member => dir[d].member)
    BY <1>7, <1>8, <2>1
  <2>3. QED
    BY <1>0, <1>10, <2>2, SmallerSize
<1>12. QED
  BY <1>1, <1>3, <1>4, <1>5, <1>10, <1>11, DirStep

-----------------------------------------------------------------------------
(* Steps that make or move an entry *)

\* A directory is made: it was nobody's, and holds no member.
LEMMA MadeInv ==
  ASSUME FsInv, NEW a \in Archives, Made(a)
  PROVE  /\ live' \in [Archives -> Dirs \cup {None}] /\ live'[a] \in Dirs
         /\ \A x \in Archives : live[x] # None => live'[x] = live[x]
         /\ \A x, y \in Archives : x # y /\ live'[x] # None => live'[x] # live'[y]
         /\ \A x \in Archives : live'[x] \notin trash
         /\ \A c \in Dirs : c \notin trash /\ (\A x \in Archives : live'[x] # c)
                            => ~ dir[c].member /\ dir[c].parts = {}
         /\ \A x \in Archives :
              Held(x) = IF live'[x] = None THEN 0 ELSE SizeOf(dir[live'[x]])
<1>1. CASE live[a] # None
  <2>1. live' = live
    BY <1>1 DEF Made
  <2>2. \A x \in Archives : Held(x) = IF live'[x] = None THEN 0 ELSE SizeOf(dir[live'[x]])
    BY <2>1, HeldType
  <2>3. QED
    BY <1>1, <2>1, <2>2 DEF FsInv
<1>2. CASE live[a] = None
  <2>1. PICK d : d = Fresh
    OBVIOUS
  <2>2. d \in Dirs /\ Unused(d) /\ live' = [live EXCEPT ![a] = d]
    BY <1>2, <2>1 DEF Made, Fresh
  <2>3. d \notin trash /\ \A x \in Archives : live[x] # d
    BY <2>2 DEF Unused
  <2>4. live'[a] = d /\ \A x \in Archives : x # a => live'[x] = live[x]
    BY <2>2 DEF FsInv
  <2>5. live' \in [Archives -> Dirs \cup {None}]
    BY <2>2 DEF FsInv
  <2>6. SizeOf(dir[d]) = 0
    <3>1. ~ dir[d].member /\ dir[d].parts = {}
      BY <2>2, <2>3 DEF FsInv
    <3>2. Cardinality({}) = 0
      BY FS_EmptySet
    <3>3. QED
      BY <3>1, <3>2 DEF SizeOf
  <2>7. \A x, y \in Archives : x # y /\ live'[x] # None => live'[x] # live'[y]
    BY <2>3, <2>4 DEF FsInv
  <2>8. \A x \in Archives : live'[x] \notin trash
    BY <2>3, <2>4 DEF FsInv
  <2>9. ASSUME NEW c \in Dirs, c \notin trash, \A x \in Archives : live'[x] # c
        PROVE  ~ dir[c].member /\ dir[c].parts = {}
    <3>1. \A x \in Archives : live[x] # c
      BY <1>2, <2>4, <2>9, CacheAssumption
    <3>2. QED
      BY <2>9, <3>1 DEF FsInv
  <2>10. ASSUME NEW x \in Archives
         PROVE  Held(x) = IF live'[x] = None THEN 0 ELSE SizeOf(dir[live'[x]])
    <3>1. CASE x # a
      BY <2>4, <3>1, HeldType
    <3>2. CASE x = a
      BY <1>2, <2>2, <2>4, <2>6, <3>2, HeldType, CacheAssumption
    <3>3. QED
      BY <3>1, <3>2
  <2>11. \A x \in Archives : live[x] # None => live'[x] = live[x]
    BY <1>2, <2>4
  <2>12. QED
    BY <2>2, <2>4, <2>5, <2>7, <2>8, <2>9, <2>10, <2>11
<1>3. QED
  BY <1>1, <1>2

LEMMA MountInv ==
  ASSUME IndInv, NEW e \in Engines, NEW a \in Archives, Mount(e, a)
  PROVE  IndInv'
<1> USE DEF Goes, Fields, Idle
<1>0. EngineInv(e) /\ Keeps(e) /\ DOMAIN eng = Engines /\ FsInv
  BY DEF IndInv
<1>1. Others(e) /\ platform' = platform /\ trash' = trash /\ dir' = dir /\ Made(a)
  BY <1>0 DEF Mount, Others
<1>2. EngineInv(e)'
  BY <1>0 DEF Mount, EngineInv, Cleaning
<1>3. eng'[e].pc = "open" /\ eng'[e].lease = None
  BY <1>0 DEF Mount
<1> HIDE DEF Goes, Fields, Idle
<1>4. Keeps(e)'
  BY <1>3 DEF Keeps
<1>5. FsInv' /\ \A x \in Archives : live[x] # None => live'[x] = live[x]
  BY <1>0, <1>1, MadeInv DEF FsInv
<1>6. ASSUME NEW x \in Archives PROVE Held(x)' <= Held(x)
  <2>1. Held(x) = IF live'[x] = None THEN 0 ELSE SizeOf(dir[live'[x]])
    BY <1>0, <1>1, MadeInv
  <2>2. Held(x)' = IF live'[x] = None THEN SizeOf(Empty) ELSE SizeOf(dir'[live'[x]])
    BY DEF Held, At, SizeOf, Empty
  <2>3. SizeOf(Empty) = 0
    BY FS_EmptySet DEF SizeOf, Empty
  <2>4. Held(x)' = Held(x) /\ Held(x) \in Nat
    BY <1>0, <1>1, <2>1, <2>2, <2>3, HeldType
  <2>5. QED
    BY <2>4
<1>7. QED
  BY <1>1, <1>2, <1>3, <1>4, <1>5, <1>6, EngineStep

\* The one step after which more is held, by one part
LEMMA WritePartInv ==
  ASSUME IndInv, NEW e \in Engines, WritePart(e)
  PROVE  IndInv'
<1> USE DEF Goes, Fields, Idle
<1>0. /\ EngineInv(e) /\ Keeps(e) /\ DOMAIN eng = Engines /\ FsInv
      /\ eng[e].pc = "part" /\ eng[e].a \in Archives
  BY DEF IndInv, WritePart, EngineInv
<1>1. PICK a \in Archives : a = eng[e].a
  BY <1>0
<1>2. PICK d : d = live'[a]
  OBVIOUS
<1>3. Others(e) /\ platform' = platform /\ trash' = trash
  BY <1>0 DEF WritePart, Others, fixed
<1>4. Made(a) /\ dir' = [dir EXCEPT ![d].parts = @ \cup {e}]
  BY <1>1, <1>2 DEF WritePart
<1>5. d \in Dirs
  BY <1>0, <1>2, <1>4, MadeInv
<1>6. EngineInv(e)' /\ eng'[e].pc = "finish" /\ eng'[e].lease = eng[e].lease /\ eng'[e].sh = eng[e].sh
  BY <1>0, <1>1, <1>2, <1>5 DEF WritePart, EngineInv, Cleaning
<1> HIDE DEF Goes, Fields, Idle
<1>7. \A x \in Archives, c \in Dirs : live[x] = c => live'[x] = c
  BY <1>0, <1>4, MadeInv, CacheAssumption
<1>8. ASSUME NEW f \in Engines PROVE Keeps(f)'
  <2>1. Keeps(f) /\ EngineInv(f)
    BY DEF IndInv
  <2>2. CASE f = e
    BY <1>3, <1>6, <1>7, <2>1, <2>2 DEF Keeps, EngineInv
  <2>3. CASE f # e
    <3>1. eng'[f] = eng[f]
      BY <1>3, <2>3 DEF Others
    <3>2. QED
      BY <1>3, <1>7, <2>1, <3>1 DEF Keeps, EngineInv
  <2>4. QED
    BY <2>2, <2>3
<1>9. ASSUME NEW f \in Engines PROVE EngineInv(f)'
  <2>1. CASE f = e
    BY <1>6, <2>1
  <2>2. CASE f # e
    <3>1. eng'[f] = eng[f] /\ EngineInv(f)
      BY <1>3, <2>2 DEF Others, IndInv
    <3>2. QED
      BY <3>1 DEF EngineInv, Cleaning
  <2>3. QED
    BY <2>1, <2>2
<1>10. /\ \A c \in Dirs : c # d => dir'[c] = dir[c]
       /\ dir'[d] = [dir[d] EXCEPT !.parts = @ \cup {e}]
       /\ dir' = [c \in Dirs |-> dir'[c]]
  BY <1>0, <1>4, <1>5 DEF FsInv
<1>11. dir[d] \in Contents /\ dir[d].parts \in SUBSET (Engines \cup Corpses)
  BY <1>0, <1>5 DEF FsInv, Contents
<1>12. /\ dir'[d].member = dir[d].member /\ dir'[d].parts = dir[d].parts \cup {e}
       /\ dir'[d] \in Contents
  BY <1>10, <1>11 DEF Contents
<1>13. dir' \in [Dirs -> Contents]
  <2>1. \A c \in Dirs : dir[c] \in Contents
    BY <1>0 DEF FsInv
  <2>2. \A c \in Dirs : dir'[c] \in Contents
    BY <1>10, <1>12, <2>1
  <2>3. QED
    BY <1>10, <2>2
<1>14. FsInv'
  <2>1. ASSUME NEW c \in Dirs, c \notin trash, \A x \in Archives : live'[x] # c
        PROVE  ~ dir'[c].member /\ dir'[c].parts = {}
    <3>1. c # d
      BY <1>2, <2>1
    <3>2. ~ dir[c].member /\ dir[c].parts = {}
      BY <1>0, <1>4, <2>1, MadeInv
    <3>3. QED
      BY <1>10, <3>1, <3>2
  <2>2. /\ live' \in [Archives -> Dirs \cup {None}]
        /\ \A x, y \in Archives : x # y /\ live'[x] # None => live'[x] # live'[y]
        /\ \A x \in Archives : live'[x] \notin trash
    BY <1>0, <1>4, MadeInv
  <2>3. QED
    BY <1>0, <1>3, <1>13, <2>1, <2>2 DEF FsInv
<1>15. SizeOf(dir'[d]) <= SizeOf(dir[d]) + 1
  <2>1. IsFiniteSet(dir[d].parts) /\ Cardinality(dir[d].parts) \in Nat
    BY <1>11, Finite
  <2>2. \/ Cardinality(dir[d].parts \cup {e}) = Cardinality(dir[d].parts)
        \/ Cardinality(dir[d].parts \cup {e}) = Cardinality(dir[d].parts) + 1
    BY <2>1, FS_AddElement
  <2>3. SizeOf(dir'[d]) = (IF dir[d].member THEN 1 ELSE 0) + Cardinality(dir[d].parts \cup {e})
    BY <1>12 DEF SizeOf
  <2>4. SizeOf(dir[d]) = (IF dir[d].member THEN 1 ELSE 0) + Cardinality(dir[d].parts)
    BY DEF SizeOf
  <2>5. QED
    BY <2>1, <2>2, <2>3, <2>4
<1>16. ASSUME NEW x \in Archives PROVE Held(x)' <= Held(x) + (IF x = a THEN 1 ELSE 0)
  <2>1. Held(x) \in Nat /\ Held(x) = IF live'[x] = None THEN 0 ELSE SizeOf(dir[live'[x]])
    BY <1>0, <1>4, MadeInv, HeldType
  <2>2. Held(x)' = IF live'[x] = None THEN SizeOf(Empty) ELSE SizeOf(dir'[live'[x]])
    BY DEF Held, At, SizeOf, Empty
  <2>3. SizeOf(Empty) = 0
    BY FS_EmptySet DEF SizeOf, Empty
  <2>4. CASE x = a
    <3>1. Held(x)' = SizeOf(dir'[d]) /\ Held(x) = SizeOf(dir[d])
      BY <1>2, <1>5, <2>1, <2>2, <2>4, CacheAssumption
    <3>2. QED
      BY <1>15, <2>4, <3>1
  <2>5. CASE x # a
    <3>1. live'[x] # None => live'[x] \in Dirs /\ live'[x] # d
      BY <1>0, <1>2, <1>4, <2>5, MadeInv
    <3>2. Held(x)' = Held(x)
      BY <1>10, <2>1, <2>2, <2>3, <3>1
    <3>3. QED
      BY <2>1, <2>5, <3>2
  <2>6. QED
    BY <2>4, <2>5
<1>17. CapNearlyHolds'
  <2>1. Used \in Nat /\ Used' \in Nat /\ Used' <= Used + 1
    <3> HIDE DEF Held
    <3>1. QED
      BY <1>0, <1>14, <1>16, UsedBound
  <2>2. Parts' = Parts \ {e} /\ e \in Parts
    BY <1>0, <1>3, <1>6 DEF Parts, Others
  <2>3. Cardinality(Parts) \in Nat /\ Cardinality(Parts') = Cardinality(Parts) - 1
    BY <2>2, PartsFacts, FS_RemoveElement
  <2>4. Used + Cardinality(Parts) <= Cap + Cardinality(Engines) - 1
    BY DEF IndInv, CapNearlyHolds, Parts
  <2>5. Used' + Cardinality(Parts') <= Cap + Cardinality(Engines) - 1
    BY <2>1, <2>3, <2>4, PartsFacts, CacheAssumption
  <2>6. QED
    BY <2>5 DEF CapNearlyHolds, Parts
<1>18. QED
  BY <1>3, <1>8, <1>9, <1>14, <1>17 DEF IndInv, Others

\* The entry moves to the trash; on Windows nobody has a file in it open.
LEMMA RenameAwayInv ==
  ASSUME IndInv, NEW e \in Engines, RenameAway(e)
  PROVE  IndInv'
<1> USE DEF Goes, Fields, Idle, Unlocked
<1>0. /\ EngineInv(e) /\ Keeps(e) /\ DOMAIN eng = Engines /\ FsInv
      /\ eng[e].pc = "away" /\ eng[e].a \in Archives
  BY DEF IndInv, RenameAway, EngineInv
<1>1. PICK a \in Archives : a = eng[e].a
  BY <1>0
<1>2. PICK d : d = live[a]
  OBVIOUS
<1>3. Others(e) /\ platform' = platform /\ dir' = dir
  BY <1>0 DEF RenameAway, Others, fixed
<1>4. d \in Dirs \cup {None}
  BY <1>0, <1>2 DEF FsInv
<1>5. CASE d = None \/ (platform = "win32" /\ OpenFiles(d))
  <2>1. UNCHANGED fsVars /\ live' = live
    BY <1>1, <1>2, <1>3, <1>5 DEF RenameAway, fsVars
  <2>2. EngineInv(e)'
    BY <1>0, <1>1, <1>2, <1>5 DEF RenameAway, EngineInv, Cleaning
  <2>3. Keeps(e)' /\ eng'[e].pc # "part"
    BY <1>0, <1>1, <1>2, <1>3, <1>5, <2>1 DEF RenameAway, EngineInv, Keeps
  <2>4. QED
    BY <1>3, <2>1, <2>2, <2>3, OwnStep
<1>6. CASE d # None /\ ~ (platform = "win32" /\ OpenFiles(d))
  <2>1. live' = [live EXCEPT ![a] = None] /\ trash' = trash \cup {d}
    BY <1>1, <1>2, <1>6 DEF RenameAway
  <2>2. EngineInv(e)' /\ eng'[e].pc = "remove" /\ eng'[e].lease = eng[e].lease /\ eng'[e].sh = eng[e].sh
    BY <1>0, <1>1, <1>2, <1>4, <1>6 DEF RenameAway, EngineInv, Cleaning
  <2> HIDE DEF Goes, Fields, Idle, Unlocked
  <2>3. live'[a] = None /\ \A x \in Archives : x # a => live'[x] = live[x]
    BY <1>0, <2>1 DEF FsInv
  <2>4. \A x \in Archives : x # a => live[x] # d
    BY <1>0, <1>2, <1>6 DEF FsInv
  <2>5. FsInv'
    <3>1. live' \in [Archives -> Dirs \cup {None}] /\ trash' \subseteq Dirs
      BY <1>0, <1>4, <1>6, <2>1 DEF FsInv
    <3>2. \A x, y \in Archives : x # y /\ live'[x] # None => live'[x] # live'[y]
      BY <1>0, <2>3 DEF FsInv
    <3>3. \A x \in Archives : live'[x] \notin trash'
      BY <1>0, <1>6, <2>1, <2>3, <2>4, CacheAssumption DEF FsInv
    <3>4. ASSUME NEW c \in Dirs, c \notin trash', \A x \in Archives : live'[x] # c
          PROVE  ~ dir[c].member /\ dir[c].parts = {}
      <4>1. c # d /\ c \notin trash
        BY <2>1, <3>4
      <4>2. \A x \in Archives : live[x] # c
        BY <1>2, <2>3, <3>4, <4>1
      <4>3. QED
        BY <1>0, <4>1, <4>2 DEF FsInv
    <3>5. QED
      BY <1>0, <1>3, <3>1, <3>2, <3>3, <3>4 DEF FsInv
  <2>6. ASSUME NEW f \in Engines PROVE EngineInv(f)'
    <3>1. CASE f = e
      BY <2>2, <3>1
    <3>2. CASE f # e
      <4>1. eng'[f] = eng[f] /\ EngineInv(f)
        BY <1>3, <3>2 DEF Others, IndInv
      <4>2. QED
        BY <4>1 DEF EngineInv, Cleaning
    <3>3. QED
      BY <3>1, <3>2
  <2>7. ASSUME NEW f \in Engines, platform = "win32" PROVE eng[f].sh # d /\ eng[f].fd # d
    BY <1>6, <2>7 DEF OpenFiles, Shared
  <2>8. ASSUME NEW x \in Archives, NEW c \in Dirs, live[x] = c, c # d PROVE live'[x] = c
    BY <1>2, <2>3, <2>8
  <2>9. ASSUME NEW f \in Engines PROVE Keeps(f)'
    <3>1. Keeps(f) /\ EngineInv(f)
      BY DEF IndInv
    <3>2. CASE f = e
      BY <1>3, <2>2, <2>7, <2>8, <3>1, <3>2 DEF Keeps, EngineInv
    <3>3. CASE f # e
      <4>1. eng'[f] = eng[f]
        BY <1>3, <3>3 DEF Others
      <4>2. QED
        BY <1>3, <2>7, <2>8, <3>1, <4>1 DEF Keeps, EngineInv
    <3>4. QED
      BY <3>2, <3>3
  <2>10. ASSUME NEW x \in Archives PROVE Held(x)' <= Held(x)
    <3>1. Held(x) \in Nat
      BY <1>0, HeldType
    <3>2. CASE x = a
      <4>1. Held(x)' = SizeOf(Empty)
        BY <2>3, <3>2 DEF Held, At, SizeOf, Empty
      <4>2. SizeOf(Empty) = 0
        BY FS_EmptySet DEF SizeOf, Empty
      <4>3. QED
        BY <3>1, <4>1, <4>2
    <3>3. CASE x # a
      <4>1. Held(x)' = Held(x)
        BY <1>3, <2>3, <3>3 DEF Held, At, SizeOf
      <4>2. QED
        BY <3>1, <4>1
    <3>4. QED
      BY <3>2, <3>3
  <2>11. CapNearlyHolds'
    <3> HIDE DEF Held
    <3>1. QED
      BY <1>3, <2>2, <2>5, <2>10, CapStep
  <2>12. QED
    BY <1>3, <2>5, <2>6, <2>9, <2>11 DEF IndInv, Others
<1>7. QED
  BY <1>5, <1>6

-----------------------------------------------------------------------------
(* The theorems *)

LEMMA InitInv == Init => IndInv
<1> SUFFICES ASSUME Init PROVE IndInv
  OBVIOUS
<1>1. FsInv
  <2>1. dir \in [Dirs -> Contents]
    BY DEF Init, Empty, Contents
  <2>2. \A d \in Dirs : ~ dir[d].member /\ dir[d].parts = {}
    BY DEF Init, Empty
  <2>3. QED
    BY <2>1, <2>2 DEF Init, FsInv
<1>2. DOMAIN eng = Engines
  BY DEF Init
<1>3. ASSUME NEW e \in Engines PROVE EngineInv(e) /\ Keeps(e)
  BY DEF Init, Idle, EngineInv, Keeps, Cleaning
<1>4. CapNearlyHolds
  <2>1. \A a \in Archives : Held(a) = 0
    BY <1>1, HeldType DEF Init
  <2>2. Used = 0
    <3> DEFINE z == [a \in Archives |-> 0]
    <3>1. Used = SumFunction(z)
      BY <2>1 DEF Used, Held
    <3>2. z \in [Archives -> Nat]
      OBVIOUS
    <3>3. SumFunction(z) = 0
      BY SumOfZeros, Finite
    <3>4. QED
      BY <3>1, <3>3
  <2>3. Parts = {}
    BY DEF Parts, Init, Idle
  <2>4. Cardinality(Parts) = 0
    BY <2>3, FS_EmptySet
  <2>5. QED
    BY <2>2, <2>4, PartsFacts, CacheAssumption DEF CapNearlyHolds, Parts
<1>5. QED
  BY <1>1, <1>2, <1>3, <1>4 DEF IndInv

LEMMA ContinueInv ==
  ASSUME IndInv, NEW e \in Engines, Continue(e)
  PROVE  IndInv'
<1>1. CASE \/ OpenLock(e) \/ LockShared(e) \/ ReadRecord(e) \/ ClearFiles(e)
           \/ RenameTemp(e) \/ MakeFiles(e) \/ MeasureAgain(e) \/ WritePart(e)
  BY <1>1, OpenLockInv, LockSharedInv, ReadRecordInv, ClearFilesInv, RenameTempInv,
     MakeFilesInv, MeasureAgainInv, WritePartInv
<1>2. CASE \E ok \in BOOLEAN : WriteTemp(e, ok) \/ FinishPart(e, ok)
  BY <1>2, WriteTempInv, FinishPartInv
<1>3. CASE MeasureAll(e) \/ CleanupDone(e) \/ LockExclusive(e) \/ Judge(e) \/ Retire(e)
           \/ RenameAway(e) \/ Remove(e)
  BY <1>3, MeasureAllInv, CleanupDoneInv, LockExclusiveInv, JudgeInv, RetireInv,
     RenameAwayInv, RemoveInv
<1>4. CASE (\E a \in Archives : NextEntry(e, a)) \/ (\E k \in eng[e].kept : Evict(e, k))
  BY <1>4, NextEntryInv, EvictInv
<1>5. QED
  BY <1>1, <1>2, <1>3, <1>4 DEF Continue

\* The invariant of the store: with any engines, archives, directories and cap,
\* on either platform, whoever dies.
THEOREM Invariant == Spec => []IndInv
<1>1. IndInv /\ [Next]_vars => IndInv'
  <2> SUFFICES ASSUME IndInv, [Next]_vars PROVE IndInv'
    OBVIOUS
  <2>1. ASSUME NEW e \in Engines,
               \/ \E a \in Archives : Mount(e, a)
               \/ Unmount(e) \/ Serve(e)
               \/ \E purge \in BOOLEAN : Cleanup(e, purge)
               \/ Continue(e) \/ Crash(e)
        PROVE  IndInv'
    BY <2>1, MountInv, UnmountInv, ServeInv, CleanupInv, ContinueInv, CrashInv
  <2>2. CASE \E a \in Archives : Expire(a)
    BY <2>2, ExpireInv
  <2>3. CASE UNCHANGED vars
    BY <2>3 DEF vars, IndInv, FsInv, EngineInv, Keeps, CapNearlyHolds, Used, At, Cleaning
  <2>4. QED
    BY <2>1, <2>2, <2>3 DEF Next
<1>2. QED
  BY <1>1, InitInv, PTL DEF Spec

\* On Windows the lock is given back before the entry is renamed, and still no
\* clean-up of any engine takes the entry from under a mount: the rename fails
\* over the mount's open lock file (RetireEntry, archive_cache.cpp).
THEOREM LeaseSurvivesOnWindows == Spec => []WindowsKeepsEntry
<1>1. IndInv => WindowsKeepsEntry
  <2> SUFFICES ASSUME IndInv PROVE WindowsKeepsEntry
    OBVIOUS
  <2>1. TypeOK
    BY DEF IndInv, FsInv, EngineInv, TypeOK, Contents
  <2>2. platform = "win32" => LeaseKeepsEntry
    BY DEF IndInv, Keeps, LeaseKeepsEntry
  <2>3. QED
    BY <2>1, <2>2 DEF WindowsKeepsEntry
<1>2. QED
  BY <1>1, Invariant, PTL

\* RoomFor looks and the member is written later: any number of engines exceed
\* the cap by one member less than there are engines, at most, whatever is
\* evicted or left behind meanwhile.
THEOREM CapHoldsButForOthers == Spec => []CapNearlyHolds
<1>1. IndInv => CapNearlyHolds
  BY DEF IndInv
<1>2. QED
  BY <1>1, Invariant, PTL
=============================================================================
