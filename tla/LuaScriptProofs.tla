-------------------------- MODULE LuaScriptProofs --------------------------
(***************************************************************************)
(* For any texts, timeouts, buffer and ceiling, and without bound on what  *)
(* the guest, the user and the commands do: the flags of a wait agree with *)
(* the call that the script is in, no wait ends early or with another      *)
(* wait's answer, and no typed key is lost, doubled or reordered.          *)
(***************************************************************************)
EXTENDS LuaScript, WellFoundedInduction, SequenceTheorems, TLAPS

Ops == {"none", "frames", "text", "type", "yield"}

\* What the deadlines mean: they were computed from a frame number that was
\* up to date, and the call they belong to is the one the script is in.
Types ==
  /\ frame \in Nat /\ current_frame \in Nat
  /\ wait_until_frame \in Nat /\ wait_text_deadline \in Nat
  /\ inside \in BOOLEAN /\ waiting_for_text \in BOOLEAN
  /\ injecting_type \in BOOLEAN
  /\ call \in [op : Ops, at : Nat, n : Nat]

UpToDate == (inside \/ state = "Yielded") => current_frame = frame

Deadlines ==
  /\ call.op = "text" => wait_text_deadline = call.at + call.n
  /\ call.op = "frames" => wait_until_frame = call.at + call.n
  /\ call.op # "none" => call.at <= frame

IndInv ==
  /\ Types /\ UpToDate /\ Deadlines
  /\ WaitMatchesCall
  /\ inside => state = "Running"

\* Nothing is running or waiting at first.
LEMMA Initially == Init => IndInv
<1> SUFFICES ASSUME Init PROVE IndInv
  OBVIOUS
<1> USE DEF Init
<1>1. call.op = "none" /\ call \in [op : Ops, at : Nat, n : Nat]
  BY DEF NoCall, Ops
<1>2. Types
  BY <1>1 DEF Types
<1>3. UpToDate /\ Deadlines
  BY <1>1 DEF UpToDate, Deadlines
<1>4. WaitMatchesCall
  BY <1>1 DEF WaitMatchesCall
<1> QED BY <1>2, <1>3, <1>4 DEF IndInv

\* A resume with every flag cleared keeps the invariant, and so does a call
\* that sets the flag of its own wait and the deadline it asked for.
LEMMA ResumeKeeps ==
  ASSUME IndInv, NEW r, ResumeWith(r),
         frame' \in Nat, current_frame' = frame',
         wait_until_frame' \in Nat, wait_text_deadline' \in Nat,
         waiting_for_text' = FALSE, injecting_type' = FALSE, pending_keys' = <<>>
  PROVE  IndInv'
<1> USE DEF ResumeWith
<1>1. call'.op = "none" /\ call' \in [op : Ops, at : Nat, n : Nat]
  BY DEF NoCall, Ops
<1>2. Types'
  BY <1>1 DEF Types
<1>3. UpToDate' /\ Deadlines'
  BY <1>1 DEF UpToDate, Deadlines
<1>4. WaitMatchesCall'
  BY <1>1 DEF WaitMatchesCall
<1> QED BY <1>2, <1>3, <1>4 DEF IndInv

LEMMA LeaveKeeps ==
  ASSUME IndInv, NEW op \in Ops \ {"none"}, NEW n \in Nat, Leave(op, n),
         wait_until_frame' \in Nat, wait_text_deadline' \in Nat,
         op = "text" => wait_text_deadline' = current_frame + n,
         op = "frames" => wait_until_frame' = current_frame + n,
         waiting_for_text' = (op = "text"), injecting_type' = (op = "type"),
         op # "type" => pending_keys' = <<>>
  PROVE  IndInv'
<1> USE DEF Leave, env
<1>1. /\ call'.op = op /\ call'.at = frame /\ call'.n = n
      /\ frame' = frame /\ frame \in Nat /\ current_frame' = frame
  BY DEF IndInv, Types, UpToDate
<1>2. call' \in [op : Ops, at : Nat, n : Nat]
  BY <1>1
<1>3. Types'
  BY <1>1, <1>2 DEF Types
<1>4. UpToDate' /\ Deadlines'
  BY <1>1 DEF UpToDate, Deadlines
<1>5. WaitMatchesCall'
  BY <1>1 DEF WaitMatchesCall
<1> QED BY <1>3, <1>4, <1>5 DEF IndInv

\* Load, start and stop come only while no script is running, and leave no wait.
LEMMA CommandsKeep ==
  ASSUME IndInv, Load \/ Start \/ Stop
  PROVE  IndInv'
<1> USE DEF IndInv, Types, UpToDate, Deadlines, WaitMatchesCall, Ops
<1>1. CASE Load
  BY <1>1 DEF Load, env, waits, text, typing
<1>2. CASE Start
  BY <1>2 DEF Start, Cleanup, env, text, typing, Active
<1>3. CASE Stop
  BY <1>3 DEF Stop, Cleanup, env, NoCall
<1> QED BY <1>1, <1>2, <1>3

\* The end of a frame clears the flag of the wait that it ends.
LEMMA FramesKeep ==
  ASSUME IndInv,
         \/ FrameWithoutScript \/ FrameStarts \/ FrameChecksText \/ FrameTypes
         \/ FrameCounts
  PROVE  IndInv'
<1> USE DEF IndInv, Types, UpToDate, Deadlines, WaitMatchesCall, Ops, NextFrame
<1>1. CASE FrameWithoutScript
  BY <1>1 DEF FrameWithoutScript, Active, waits, text, typing
<1>2. CASE FrameStarts
  <2> USE <1>2 DEF FrameStarts, waits, text, typing
  <2>1. waiting_for_text' = FALSE /\ injecting_type' = FALSE /\ pending_keys' = <<>>
    OBVIOUS
  <2>2. frame' \in Nat
    OBVIOUS
  <2> QED BY <2>1, <2>2, ResumeKeeps
<1>3. CASE FrameChecksText
  <2> USE <1>3 DEF FrameChecksText, typing
  <2>1. CASE StillWaiting /\ UNCHANGED waiting_for_text
    BY <2>1 DEF StillWaiting
  <2>2. CASE \E r \in {"true", "false"} : ResumeWith(r) /\ waiting_for_text' = FALSE
    <3>1. frame' \in Nat /\ injecting_type' = FALSE /\ pending_keys' = <<>>
      OBVIOUS
    <3> QED BY <2>2, <3>1, ResumeKeeps
  <2> QED BY <2>1, <2>2
<1>4. CASE FrameTypes
  <2> USE <1>4 DEF FrameTypes, text
  <2>1. CASE FinishTypeInjection(kbd')
    <3>1. frame' \in Nat /\ waiting_for_text' = FALSE
      OBVIOUS
    <3> QED BY <2>1, <3>1, ResumeKeeps DEF FinishTypeInjection
  <2>2. CASE StillWaiting /\ UNCHANGED injecting_type
    BY <2>2 DEF StillWaiting
  <2> QED BY <2>1, <2>2
<1>5. CASE FrameCounts
  <2> USE <1>5 DEF FrameCounts, waits, text, typing
  <2>1. CASE StillWaiting
    BY <2>1 DEF StillWaiting
  <2>2. CASE ResumeWith("none")
    <3>1. /\ frame' \in Nat
          /\ waiting_for_text' = FALSE /\ injecting_type' = FALSE
          /\ pending_keys' = <<>>
      OBVIOUS
    <3> QED BY <2>2, <3>1, ResumeKeeps
  <2> QED BY <2>1, <2>2
<1> QED BY <1>1, <1>2, <1>3, <1>4, <1>5

\* So does the reaper.
LEMMA ReaperKeeps ==
  ASSUME IndInv, ReapStalledWaits
  PROVE  IndInv'
<1> USE DEF ReapStalledWaits, env
<1>1. /\ frame' \in Nat /\ current_frame' = frame'
      /\ wait_until_frame' \in Nat /\ wait_text_deadline' \in Nat
  BY DEF IndInv, Types, UpToDate
<1>2. CASE waiting_for_text
  <2>1. waiting_for_text' = FALSE /\ injecting_type' = FALSE /\ pending_keys' = <<>>
    BY <1>2 DEF IndInv, Types, WaitMatchesCall
  <2> QED BY <1>1, <1>2, <2>1, ResumeKeeps
<1>3. CASE ~ waiting_for_text
  <2>1. waiting_for_text' = FALSE /\ injecting_type' = FALSE /\ pending_keys' = <<>>
    BY <1>3 DEF IndInv, Types, FinishTypeInjection
  <2> QED BY <1>1, <1>3, <2>1, ResumeKeeps DEF FinishTypeInjection
<1> QED BY <1>2, <1>3

\* A call of the script computes its deadline from a frame that is up to date.
LEMMA ScriptKeeps ==
  ASSUME IndInv,
         \/ LuaWaitFrames \/ LuaWaitForText \/ LuaType \/ LuaYield \/ LuaKey
         \/ ScriptEnds
  PROVE  IndInv'
<1>1. inside => /\ waiting_for_text = FALSE /\ injecting_type = FALSE
                /\ pending_keys = <<>> /\ current_frame \in Nat
                /\ wait_until_frame \in Nat /\ wait_text_deadline \in Nat
  BY DEF IndInv, Types, WaitMatchesCall
<1>2. CASE LuaWaitFrames
  <2>1. PICK n \in Timeouts : Leave("frames", n) /\ wait_until_frame' = current_frame + n
    BY <1>2 DEF LuaWaitFrames
  <2>2. n \in Nat /\ inside
    BY <2>1, LuaAssumption DEF Leave
  <2>3. /\ waiting_for_text' = FALSE /\ injecting_type' = FALSE
        /\ pending_keys' = <<>>
        /\ wait_until_frame' \in Nat /\ wait_text_deadline' \in Nat
    BY <1>1, <1>2, <2>1, <2>2 DEF LuaWaitFrames, text, typing
  <2> QED BY <2>1, <2>2, <2>3, LeaveKeeps DEF Ops
<1>3. CASE LuaWaitForText
  <2>1. PICK n \in Timeouts : /\ Leave("text", n)
                              /\ wait_text_deadline' = current_frame + n
    BY <1>3 DEF LuaWaitForText
  <2>2. n \in Nat /\ inside
    BY <2>1, LuaAssumption DEF Leave
  <2>3. /\ waiting_for_text' = TRUE /\ injecting_type' = FALSE
        /\ pending_keys' = <<>>
        /\ wait_until_frame' \in Nat /\ wait_text_deadline' \in Nat
    BY <1>1, <1>3, <2>1, <2>2 DEF LuaWaitForText, typing
  <2> QED BY <2>1, <2>2, <2>3, LeaveKeeps DEF Ops
<1>4. CASE LuaType
  <2>1. Leave("type", 0) /\ inside
    BY <1>4 DEF LuaType, Leave
  <2>2. /\ waiting_for_text' = FALSE /\ injecting_type' = TRUE
        /\ wait_until_frame' \in Nat /\ wait_text_deadline' \in Nat
    BY <1>1, <1>4, <2>1 DEF LuaType, text
  <2> QED BY <2>1, <2>2, LeaveKeeps DEF Ops
<1>5. CASE LuaYield
  <2>1. Leave("yield", 0) /\ inside
    BY <1>5 DEF LuaYield, Leave
  <2>2. /\ waiting_for_text' = FALSE /\ injecting_type' = FALSE
        /\ pending_keys' = <<>>
        /\ wait_until_frame' \in Nat /\ wait_text_deadline' \in Nat
    BY <1>1, <1>5, <2>1 DEF LuaYield, waits, text, typing
  <2> QED BY <2>1, <2>2, LeaveKeeps DEF Ops
<1> USE DEF IndInv, Types, UpToDate, Deadlines, WaitMatchesCall, env, waits,
            text, typing
<1>6. CASE LuaKey
  BY <1>6 DEF LuaKey
<1>7. CASE ScriptEnds
  BY <1>7 DEF ScriptEnds
<1> QED BY <1>2, <1>3, <1>4, <1>5, <1>6, <1>7

\* The guest, the user and time change nothing of it.
LEMMA WorldKeeps ==
  ASSUME IndInv,
         GuestReads \/ GuestDraws \/ UserTypes \/ TimePasses \/ UNCHANGED vars
  PROVE  IndInv'
<1> USE DEF IndInv, Types, UpToDate, Deadlines, WaitMatchesCall, env, waits,
            text, typing
<1>1. CASE GuestReads
  BY <1>1 DEF GuestReads
<1>2. CASE GuestDraws
  BY <1>2 DEF GuestDraws
<1>3. CASE UserTypes
  BY <1>3 DEF UserTypes
<1>4. CASE TimePasses
  BY <1>4 DEF TimePasses
<1>5. CASE UNCHANGED vars
  BY <1>5 DEF vars
<1> QED BY <1>1, <1>2, <1>3, <1>4, <1>5

\* Every step keeps the invariant.
LEMMA Inductive == IndInv /\ [Next]_vars => IndInv'
  BY CommandsKeep, FramesKeep, ReaperKeeps, ScriptKeeps, WorldKeeps DEF Next

LEMMA Invariance == Spec => []IndInv
  BY Initially, Inductive, PTL DEF Spec

\* A stop, an error, a timeout or a new script leaves no wait behind (Cleanup,
\* FinishTypeInjection and the reaper clear what chooses the branch of a frame).
THEOREM NoWaitLeftBehind == Spec => []WaitMatchesCall
<1>1. IndInv => WaitMatchesCall
  BY DEF IndInv
<1> QED BY <1>1, Invariance, PTL

\* What is resumed, and with what: the step behind ReturnsRight.
LEMMA ResumedRight ==
  ASSUME IndInv, [Next]_vars, ~ inside, inside'
  PROVE  /\ call.op = "text" =>
              \/ answer' = "true" /\ Found(wait_text_ignorecase)
              \/ /\ answer' = "false"
                 /\ frame' # frame => ~ Found(wait_text_ignorecase)
                 /\ (frame' # frame /\ frame' >= call.at + call.n) \/ text_wall = 0
         /\ call.op # "text" => answer' = "none"
         /\ call.op = "frames" => frame' > call.at /\ frame' >= call.at + call.n
<1> USE DEF IndInv, Types, UpToDate, Deadlines, WaitMatchesCall, Ops
<1>1. CASE FrameStarts
  BY <1>1 DEF FrameStarts, ResumeWith
<1>2. CASE FrameChecksText
  <2>1. frame' = frame + 1 /\ frame' # frame /\ call.op = "text"
    BY <1>2 DEF FrameChecksText, NextFrame
  <2>2. \/ answer' = "true" /\ Found(wait_text_ignorecase)
        \/ /\ answer' = "false" /\ ~ Found(wait_text_ignorecase)
           /\ frame' >= wait_text_deadline \/ text_wall = 0
    BY <1>2 DEF FrameChecksText, ResumeWith, StillWaiting
  <2> QED BY <2>1, <2>2
<1>3. CASE FrameTypes
  BY <1>3 DEF FrameTypes, FinishTypeInjection, ResumeWith, StillWaiting
<1>4. CASE FrameCounts
  <2>1. answer' = "none" /\ call.op # "text"
    BY <1>4 DEF FrameCounts, ResumeWith, StillWaiting
  <2>2. ~ StillWaiting
    BY DEF StillWaiting
  <2>3. frame' = frame + 1 /\ ~ (frame' < wait_until_frame)
    BY <1>4, <2>2 DEF FrameCounts, NextFrame
  <2> QED BY <2>1, <2>3
<1>5. CASE ReapStalledWaits
  <2>1. CASE waiting_for_text
    <3>1. answer' = "false" /\ text_wall = 0 /\ call.op = "text" /\ frame' = frame
      BY <1>5, <2>1 DEF ReapStalledWaits, ResumeWith, env
    <3> QED BY <3>1
  <2>2. CASE ~ waiting_for_text
    <3>1. answer' = "none" /\ call.op = "type"
      BY <1>5, <2>2 DEF ReapStalledWaits, FinishTypeInjection, ResumeWith
    <3> QED BY <3>1
  <2> QED BY <2>1, <2>2
<1>6. CASE \/ Load \/ Start \/ Stop \/ FrameWithoutScript
           \/ GuestReads \/ GuestDraws \/ UserTypes \/ TimePasses \/ UNCHANGED vars
  BY <1>6 DEF Load, Start, Stop, FrameWithoutScript, GuestReads, GuestDraws,
              UserTypes, TimePasses, vars
<1>7. CASE \/ LuaWaitFrames \/ LuaWaitForText \/ LuaType \/ LuaYield \/ LuaKey
           \/ ScriptEnds
  BY <1>7 DEF LuaWaitFrames, LuaWaitForText, LuaType, LuaYield, LuaKey,
              ScriptEnds, Leave
<1> QED BY <1>1, <1>2, <1>3, <1>4, <1>5, <1>6, <1>7 DEF Next

\* wait_for_text answers true with the text on the screen and false after its
\* timeout or the ceiling, in a frame only if the text is not there, and
\* wait_frames waits as many frames as it was asked.
THEOREM RightReturns == Spec => ReturnsRight
<1>1. IndInv /\ [Next]_vars =>
        [~ inside /\ inside' =>
           /\ call.op = "text" =>
                \/ answer' = "true" /\ Found(wait_text_ignorecase)
                \/ /\ answer' = "false"
                   /\ frame' # frame => ~ Found(wait_text_ignorecase)
                   /\ (frame' # frame /\ frame' >= call.at + call.n) \/ text_wall = 0
           /\ call.op # "text" => answer' = "none"
           /\ call.op = "frames" => frame' > call.at /\ frame' >= call.at + call.n]_vars
  BY ResumedRight
<1> QED BY <1>1, Invariance, PTL DEF Spec, ReturnsRight

-----------------------------------------------------------------------------
(* Induction.  The library's theorems quantify over predicates; these      *)
(* quantify over sets instead, which the provers can instantiate.          *)

\* A set of numbers has a least one.
LEMMA LeastNumber ==
  ASSUME NEW T, T \subseteq Nat, T # {}
  PROVE  \E m \in T : \A k \in T : m <= k
<1> DEFINE R == {ss \in Nat \X Nat : ss[1] < ss[2]}
<1>1. IsWellFoundedOn(R, Nat)
  BY NatLessThanWellFounded, Zenon DEF OpToRel
<1> HIDE DEF R
<1>2. PICK m \in T : \A y \in T : ~ (<<y, m>> \in R)
  BY <1>1, WFMin
<1>3. \A y \in T : ~ (y < m)
  BY <1>2 DEF R
<1>4. QED
  BY <1>3

\* Induction over the natural numbers
LEMMA SetInduction ==
  ASSUME NEW T, 0 \in T, \A n \in Nat : n \in T => n + 1 \in T
  PROVE  \A n \in Nat : n \in T
<1> DEFINE U == Nat \ T
<1> SUFFICES ASSUME U # {} PROVE FALSE
  OBVIOUS
<1>1. PICK m \in U : \A k \in U : m <= k
  BY LeastNumber
<1>2. m # 0 /\ m - 1 \in Nat /\ m - 1 \notin U
  BY <1>1
<1>3. (m - 1) + 1 = m
  BY <1>2
<1>4. QED
  BY <1>1, <1>2, <1>3

\* Induction over an interval
LEMMA IntervalInduction ==
  ASSUME NEW a \in Nat, NEW b \in Nat, NEW T, a \in T,
         \A i \in a + 1 .. b : i - 1 \in T => i \in T
  PROVE  \A i \in a .. b : i \in T
<1> DEFINE U == {m \in Nat : a + m <= b => a + m \in T}
<1>1. 0 \in U
  OBVIOUS
<1>2. ASSUME NEW m \in Nat, m \in U PROVE m + 1 \in U
  <2> SUFFICES ASSUME a + (m + 1) <= b PROVE a + (m + 1) \in T
    BY <1>2
  <2>1. a + (m + 1) \in a + 1 .. b /\ (a + (m + 1)) - 1 = a + m /\ a + m <= b
    BY <1>2
  <2>2. a + m \in T
    BY <1>2, <2>1
  <2>3. QED
    BY <2>1, <2>2
<1>3. \A m \in Nat : m \in U
  <2> HIDE DEF U
  <2>1. QED
    BY <1>1, <1>2, SetInduction
<1>4. ASSUME NEW i \in a .. b PROVE i \in T
  <2>1. i - a \in Nat /\ a + (i - a) = i /\ i <= b
    BY <1>4
  <2>2. i - a \in U
    BY <1>3, <2>1
  <2>3. QED
    BY <2>1, <2>2
<1>5. QED
  BY <1>4

\* f is computed from z by the steps G.
IsRecursion(f, D, a, b, z, G) ==
  f \in [a .. b -> D] /\ f[a] = z /\ \A i \in a + 1 .. b : f[i] = G[i][f[i - 1]]

\* A recursion whose steps stay in a set has a result.
LEMMA RecursionExists ==
  ASSUME NEW D, NEW a \in Nat, NEW b \in Nat, a <= b, NEW z \in D,
         NEW G \in [a + 1 .. b -> [D -> D]]
  PROVE  \E f : IsRecursion(f, D, a, b, z, G)
<1> DEFINE Part(f, m) == /\ f \in [a .. m -> D] /\ f[a] = z
                         /\ \A i \in a + 1 .. m : f[i] = G[i][f[i - 1]]
           T == {m \in a .. b : \E f : Part(f, m)}
<1>1. a \in T
  <2> DEFINE f == [i \in a .. a |-> z]
  <2>1. f \in [a .. a -> D] /\ f[a] = z
    OBVIOUS
  <2>2. \A i \in a + 1 .. a : f[i] = G[i][f[i - 1]]
    OBVIOUS
  <2>3. Part(f, a) /\ a \in a .. b
    BY <2>1, <2>2
  <2> HIDE DEF Part
  <2>4. QED
    BY <2>3
<1>2. ASSUME NEW k \in a + 1 .. b, k - 1 \in T PROVE k \in T
  <2>1. PICK f : Part(f, k - 1)
    BY <1>2
  <2> DEFINE x == G[k][f[k - 1]]
             g == [i \in a .. k |-> IF i = k THEN x ELSE f[i]]
  <2>2. /\ k \in Nat /\ k - 1 \in a .. k - 1 /\ k \in a .. b /\ k \in a .. k
        /\ \A i \in a .. k : i # k => i \in a .. k - 1
        /\ \A i \in a .. k - 1 : i \in a .. k /\ i # k
    BY <1>2
  <2>3. x \in D
    <3>1. f[k - 1] \in D /\ G[k] \in [D -> D]
      BY <1>2, <2>1, <2>2
    <3>2. QED
      BY <3>1
  <2> HIDE DEF x
  <2>4. g \in [a .. k -> D]
    BY <2>1, <2>2, <2>3
  <2>5. g[k] = x /\ \A i \in a .. k - 1 : g[i] = f[i]
    BY <2>2
  <2> HIDE DEF g
  <2>6. g[a] = z
    <3>1. a \in a .. k - 1
      BY <1>2
    <3>2. QED
      BY <2>1, <2>5, <3>1
  <2>7. ASSUME NEW i \in a + 1 .. k PROVE g[i] = G[i][g[i - 1]]
    <3>1. CASE i = k
      BY <2>2, <2>5, <3>1 DEF x
    <3>2. CASE i # k
      <4>1. i \in a + 1 .. k - 1 /\ i \in a .. k - 1 /\ i - 1 \in a .. k - 1
        BY <1>2, <2>7, <3>2
      <4>2. QED
        BY <2>1, <2>5, <4>1
    <3>3. QED
      BY <3>1, <3>2
  <2>8. Part(g, k)
    BY <2>4, <2>6, <2>7
  <2> HIDE DEF Part
  <2>9. QED
    BY <2>2, <2>8
<1>3. b \in T
  <2>1. b \in a .. b
    OBVIOUS
  <2> HIDE DEF T
  <2>2. \A i \in a .. b : i \in T
    BY <1>1, <1>2, IntervalInduction
  <2>3. QED
    BY <2>1, <2>2
<1>4. PICK f : Part(f, b)
  BY <1>3
<1>5. QED
  BY <1>4 DEF IsRecursion

-----------------------------------------------------------------------------
(* Sequences of sequences *)

IsFlat(f, ss) ==
  f = [i \in 1 .. Len(ss) |-> IF i = 1 THEN ss[i] ELSE f[i - 1] \o ss[i]]

LEMMA FlatExists ==
  ASSUME NEW E, NEW ss \in Seq(Seq(E)), ss # <<>>
  PROVE  \E f : IsFlat(f, ss)
<1> DEFINE n == Len(ss)
           D == Seq(E)
           G == [i \in 1 + 1 .. n |-> [x \in D |-> x \o ss[i]]]
<1>1. n \in Nat /\ 1 <= n /\ 1 \in Nat
  BY LenProperties, EmptySeq
<1>2. \A i \in 1 .. n : ss[i] \in D
  BY ElementOfSeq
<1>3. G \in [1 + 1 .. n -> [D -> D]]
  <2>1. ASSUME NEW i \in 1 + 1 .. n PROVE [x \in D |-> x \o ss[i]] \in [D -> D]
    <3>1. i \in 1 .. n
      BY <1>1, <2>1
    <3>2. ss[i] \in Seq(E)
      BY <1>2, <3>1
    <3>3. \A x \in D : x \o ss[i] \in D
      BY <3>2, ConcatProperties
    <3>4. QED
      BY <3>3
  <2>2. QED
    BY <2>1
<1>4. ss[1] \in D
  BY <1>1, <1>2
<1> HIDE DEF D, n
<1>5. PICK f \in [1 .. n -> D] : f[1] = ss[1] /\ \A i \in 1 + 1 .. n : f[i] = G[i][f[i - 1]]
  <2> DEFINE a == 1
             z == ss[1]
  <2>1. a \in Nat /\ n \in Nat /\ a <= n /\ z \in D /\ G \in [a + 1 .. n -> [D -> D]]
    BY <1>1, <1>3, <1>4
  <2> HIDE DEF G, a, z
  <2>2. \E f \in [a .. n -> D] : f[a] = z /\ \A i \in a + 1 .. n : f[i] = G[i][f[i - 1]]
    <3>1. \E f : IsRecursion(f, D, a, n, z, G)
      BY <2>1, RecursionExists
    <3>2. QED
      BY <3>1 DEF IsRecursion
  <2>3. QED
    BY <2>2 DEF a, z
<1>6. ASSUME NEW i \in 1 .. n PROVE f[i] = IF i = 1 THEN ss[i] ELSE f[i - 1] \o ss[i]
  <2>1. CASE i = 1
    BY <1>5, <2>1
  <2>2. CASE i # 1
    <3>1. i \in 1 + 1 .. n /\ i - 1 \in 1 .. n
      BY <1>1, <1>6, <2>2
    <3>2. f[i - 1] \in D
      BY <1>5, <3>1
    <3>3. QED
      BY <1>5, <2>2, <3>1, <3>2
  <2>3. QED
    BY <2>1, <2>2
<1>7. f = [i \in 1 .. n |-> f[i]]
  BY <1>5
<1>8. f = [i \in 1 .. n |-> IF i = 1 THEN ss[i] ELSE f[i - 1] \o ss[i]]
  BY <1>6, <1>7, Zenon
<1>9. QED
  BY <1>8, Zenon DEF IsFlat, n

\* FlattenSeq is the last of its partial results.
LEMMA FlattenFacts ==
  ASSUME NEW E, NEW ss \in Seq(Seq(E)), ss # <<>>
  PROVE  \E f : /\ IsFlat(f, ss) /\ FlattenSeq(ss) = f[Len(ss)]
                /\ \A i \in 1 .. Len(ss) : f[i] \in Seq(E)
<1> DEFINE f == CHOOSE g : IsFlat(g, ss)
           n == Len(ss)
<1>1. n \in Nat /\ 1 <= n /\ n # 0 /\ 1 \in Nat
  BY LenProperties, EmptySeq
<1>2. FlattenSeq(ss) = f[n]
  BY <1>1 DEF FlattenSeq, IsFlat
<1>3. IsFlat(f, ss)
  BY FlatExists
<1> HIDE DEF f
<1>4. \A i \in 1 .. n : f[i] = IF i = 1 THEN ss[i] ELSE f[i - 1] \o ss[i]
  BY <1>3 DEF IsFlat
<1>5. \A i \in 1 .. n : ss[i] \in Seq(E)
  BY ElementOfSeq
<1> DEFINE T == {i \in 1 .. n : f[i] \in Seq(E)}
<1>6. 1 \in T
  BY <1>1, <1>4, <1>5
<1>7. ASSUME NEW i \in 1 + 1 .. n, i - 1 \in T PROVE i \in T
  <2>1. i \in 1 .. n /\ i # 1
    BY <1>1, <1>7
  <2>2. f[i] = f[i - 1] \o ss[i] /\ f[i - 1] \in Seq(E) /\ ss[i] \in Seq(E)
    BY <1>4, <1>5, <1>7, <2>1
  <2>3. f[i] \in Seq(E)
    BY <2>2, ConcatProperties
  <2>4. QED
    BY <2>1, <2>3
<1>8. \A i \in 1 .. n : i \in T
  <2> HIDE DEF T, n
  <2>1. QED
    BY <1>1, <1>6, <1>7, IntervalInduction
<1>9. QED
  BY <1>2, <1>3, <1>8

LEMMA FlattenType ==
  ASSUME NEW E, NEW ss \in Seq(Seq(E))
  PROVE  FlattenSeq(ss) \in Seq(E)
<1>1. CASE ss = <<>>
  BY <1>1 DEF FlattenSeq
<1>2. CASE ss # <<>>
  <2>1. Len(ss) \in 1 .. Len(ss)
    BY <1>2, LenProperties, EmptySeq
  <2>2. QED
    BY <1>2, <2>1, FlattenFacts
<1>3. QED
  BY <1>1, <1>2

LEMMA FlattenEmpty == FlattenSeq(<<>>) = <<>>
BY DEF FlattenSeq

LEMMA FlattenAppend ==
  ASSUME NEW E, NEW ss \in Seq(Seq(E)), NEW x \in Seq(E)
  PROVE  FlattenSeq(Append(ss, x)) = FlattenSeq(ss) \o x
<1> DEFINE tt == Append(ss, x)
           n == Len(ss)
<1>1. n \in Nat /\ 1 \in Nat
  BY LenProperties
<1>2. /\ tt \in Seq(Seq(E)) /\ Len(tt) = n + 1 /\ tt # <<>>
      /\ \A i \in 1 .. n : tt[i] = ss[i]
      /\ tt[n + 1] = x
  BY <1>1, AppendProperties
<1> HIDE DEF tt
<1>3. PICK g : /\ IsFlat(g, tt) /\ FlattenSeq(tt) = g[Len(tt)]
               /\ \A i \in 1 .. Len(tt) : g[i] \in Seq(E)
  BY <1>2, FlattenFacts
<1>4. \A i \in 1 .. n + 1 : g[i] = IF i = 1 THEN tt[i] ELSE g[i - 1] \o tt[i]
  BY <1>2, <1>3 DEF IsFlat
<1>5. FlattenSeq(tt) = g[n + 1]
  BY <1>2, <1>3
<1>6. CASE ss = <<>>
  <2>1. n = 0
    BY <1>6
  <2>2. g[1] = x
    BY <1>2, <1>4, <2>1
  <2>3. <<>> \o x = x
    OBVIOUS
  <2>4. QED
    BY <1>5, <1>6, <2>1, <2>2, <2>3, FlattenEmpty DEF tt
<1>7. CASE ss # <<>>
  <2>1. PICK f : IsFlat(f, ss) /\ FlattenSeq(ss) = f[n]
    BY <1>7, FlattenFacts
  <2>2. \A i \in 1 .. n : f[i] = IF i = 1 THEN ss[i] ELSE f[i - 1] \o ss[i]
    BY <2>1 DEF IsFlat
  <2>3. n \in 1 .. n /\ n + 1 \in 1 .. n + 1 /\ n + 1 # 1 /\ (n + 1) - 1 = n /\ 1 \in 1 .. n
    BY <1>1, <1>7, EmptySeq
  <2> DEFINE T == {i \in 1 .. n : g[i] = f[i]}
  <2>4. 1 \in T
    <3>1. g[1] = tt[1] /\ f[1] = ss[1] /\ tt[1] = ss[1]
      BY <1>1, <1>2, <1>4, <2>2, <2>3
    <3>2. QED
      BY <2>3, <3>1
  <2>5. ASSUME NEW i \in 1 + 1 .. n, i - 1 \in T PROVE i \in T
    <3>1. i \in 1 .. n /\ i # 1 /\ i \in 1 .. n + 1
      BY <1>1, <2>5
    <3>2. g[i] = g[i - 1] \o tt[i] /\ f[i] = f[i - 1] \o ss[i] /\ tt[i] = ss[i]
      BY <1>2, <1>4, <2>2, <3>1
    <3>3. QED
      BY <2>5, <3>1, <3>2
  <2>6. n \in T
    <3> HIDE DEF T
    <3>1. \A i \in 1 .. n : i \in T
      BY <1>1, <2>4, <2>5, IntervalInduction
    <3>2. QED
      BY <2>3, <3>1
  <2>7. g[n + 1] = g[n] \o x
    BY <1>2, <1>4, <2>3
  <2>8. QED
    BY <1>5, <2>1, <2>6, <2>7 DEF tt
<1>8. QED
  BY <1>6, <1>7

LEMMA Assoc == \A E : \A s, t, u \in Seq(E) : (s \o t) \o u = s \o (t \o u)
BY ConcatAssociative

LEMMA AppendOfConcat ==
  ASSUME NEW E, NEW s \in Seq(E), NEW t \in Seq(E), NEW e \in E
  PROVE  s \o Append(t, e) = Append(s \o t, e)
<1>1. <<e>> \in Seq(E) /\ s \o t \in Seq(E)
  BY ConcatProperties
<1>2. Append(t, e) = t \o <<e>> /\ Append(s \o t, e) = (s \o t) \o <<e>>
  BY <1>1, AppendIsConcat
<1> DEFINE u == <<e>>
<1> HIDE DEF u
<1>3. u \in Seq(E)
  BY <1>1 DEF u
<1>4. (s \o t) \o u = s \o (t \o u)
  BY <1>3, Assoc
<1>5. QED
  BY <1>2, <1>4 DEF u

\* the first m elements of a sequence
Taken(s, m) == SubSeq(s, 1, m)

LEMMA TakenFacts ==
  ASSUME NEW E, NEW s \in Seq(E)
  PROVE  /\ Len(s) \in Nat
         /\ Taken(s, 0) = <<>> /\ Taken(s, Len(s)) = s
         /\ \A m \in 0 .. Len(s) : Taken(s, m) \in Seq(E)
         /\ \A m \in 0 + 1 .. Len(s) :
              Taken(s, m) = Append(Taken(s, m - 1), s[m]) /\ s[m] \in E
<1>1. Len(s) \in Nat /\ \A i \in 1 .. Len(s) : s[i] \in E
  BY ElementOfSeq, LenProperties
<1>2. Taken(s, 0) = <<>>
  BY SubSeqEmpty DEF Taken
<1>3. Taken(s, Len(s)) = s
  BY SubSeqFull DEF Taken
<1>4. ASSUME NEW m \in 0 .. Len(s) PROVE Taken(s, m) \in Seq(E)
  BY <1>1, <1>4, SubSeqProperties DEF Taken
<1>5. ASSUME NEW m \in 0 + 1 .. Len(s)
      PROVE  Taken(s, m) = Append(Taken(s, m - 1), s[m]) /\ s[m] \in E
  <2>1. 1 \in 1 .. Len(s) /\ m \in 1 .. Len(s) /\ m - 1 \in 0 .. Len(s)
    BY <1>1, <1>5
  <2>2. Taken(s, m) = Taken(s, m - 1) \o <<s[m]>>
    BY <2>1, SubSeqRecursiveSecond DEF Taken
  <2>3. Taken(s, m - 1) \in Seq(E) /\ s[m] \in E
    BY <1>1, <1>4, <2>1
  <2>4. Append(Taken(s, m - 1), s[m]) = Taken(s, m - 1) \o <<s[m]>>
    BY <2>3, AppendIsConcat
  <2>5. QED
    BY <2>2, <2>3, <2>4
<1>6. QED
  BY <1>1, <1>2, <1>3, <1>4, <1>5

-----------------------------------------------------------------------------
(* The elements that are not in a set, and the strokes of a text *)

Kept(e, T) == IF e \in T THEN <<>> ELSE <<e>>

Pieces(s, T) == [i \in DOMAIN s |-> Kept(s[i], T)]

LEMMA WithoutIs == \A s, T : Without(s, T) = FlattenSeq(Pieces(s, T))
BY DEF Without, Pieces, Kept

LEMMA PiecesFacts ==
  ASSUME NEW E, NEW s \in Seq(E), NEW T
  PROVE  /\ Pieces(s, T) \in Seq(Seq(E))
         /\ \A e \in E : /\ Kept(e, T) \in Seq(E)
                         /\ Pieces(Append(s, e), T) = Append(Pieces(s, T), Kept(e, T))
<1>1. \A e \in E : Kept(e, T) \in Seq(E)
  BY DEF Kept
<1>2. DOMAIN s = 1 .. Len(s) /\ Len(s) \in Nat /\ \A i \in 1 .. Len(s) : s[i] \in E
  BY ElementOfSeq, LenProperties
<1>3. Pieces(s, T) \in [1 .. Len(s) -> Seq(E)]
  BY <1>1, <1>2 DEF Pieces
<1>4. Pieces(s, T) \in Seq(Seq(E)) /\ Len(Pieces(s, T)) = Len(s)
  BY <1>2, <1>3
<1>5. ASSUME NEW e \in E
      PROVE  Pieces(Append(s, e), T) = Append(Pieces(s, T), Kept(e, T))
  <2> DEFINE n == Len(s)
             t == Append(s, e)
             u == Append(Pieces(s, T), Kept(e, T))
  <2>1. /\ t \in Seq(E) /\ Len(t) = n + 1 /\ t[n + 1] = e
        /\ \A i \in 1 .. n : t[i] = s[i]
    BY <1>2, AppendProperties
  <2>2. DOMAIN t = 1 .. n + 1
    BY <2>1, LenProperties
  <2>3. /\ u \in Seq(Seq(E)) /\ Len(u) = n + 1 /\ u[n + 1] = Kept(e, T)
        /\ \A i \in 1 .. n : u[i] = Pieces(s, T)[i]
    BY <1>1, <1>4, AppendProperties
  <2>4. DOMAIN u = 1 .. n + 1
    BY <2>3, LenProperties
  <2> HIDE DEF t, u
  <2>5. ASSUME NEW i \in 1 .. n + 1 PROVE Pieces(t, T)[i] = u[i]
    <3>1. CASE i = n + 1
      BY <2>1, <2>2, <2>3, <3>1 DEF Pieces
    <3>2. CASE i # n + 1
      <4>1. i \in 1 .. n
        BY <1>2, <2>5, <3>2
      <4>2. QED
        BY <1>2, <2>1, <2>2, <2>3, <4>1 DEF Pieces
    <3>3. QED
      BY <3>1, <3>2
  <2>6. Pieces(t, T) = [i \in 1 .. n + 1 |-> Pieces(t, T)[i]]
    BY <2>2 DEF Pieces
  <2>7. u = [i \in 1 .. n + 1 |-> u[i]]
    BY <2>3, <2>4
  <2>8. Pieces(t, T) = u
    BY <2>5, <2>6, <2>7
  <2>9. QED
    BY <2>8 DEF t, u
<1>6. QED
  BY <1>1, <1>4, <1>5

LEMMA WithoutFacts ==
  ASSUME NEW E, NEW s \in Seq(E), NEW T
  PROVE  /\ Without(s, T) \in Seq(E)
         /\ \A e \in E : Without(Append(s, e), T) = Without(s, T) \o Kept(e, T)
<1>1. Pieces(s, T) \in Seq(Seq(E))
  BY PiecesFacts
<1>2. Without(s, T) \in Seq(E)
  BY <1>1, FlattenType, WithoutIs
<1>3. ASSUME NEW e \in E PROVE Without(Append(s, e), T) = Without(s, T) \o Kept(e, T)
  <2>1. /\ Kept(e, T) \in Seq(E)
        /\ Pieces(Append(s, e), T) = Append(Pieces(s, T), Kept(e, T))
    BY PiecesFacts
  <2>2. FlattenSeq(Append(Pieces(s, T), Kept(e, T))) = FlattenSeq(Pieces(s, T)) \o Kept(e, T)
    BY <1>1, <2>1, FlattenAppend
  <2>3. QED
    BY <2>1, <2>2, WithoutIs
<1>4. QED
  BY <1>2, <1>3

LEMMA WithoutEmpty == \A T : Without(<<>>, T) = <<>>
<1> TAKE T
<1>1. Pieces(<<>>, T) = <<>>
  BY DEF Pieces
<1>2. QED
  BY <1>1, WithoutIs, FlattenEmpty

\* The first element of a sequence, seen from the front
LEMMA WithoutFront ==
  ASSUME NEW E, NEW s \in Seq(E), NEW x \in E, NEW T
  PROVE  Without(<<x>> \o s, T) = Kept(x, T) \o Without(s, T)
<1> DEFINE one == <<x>>
           k == Kept(x, T)
<1>1. one \in Seq(E) /\ k \in Seq(E)
  BY DEF Kept
<1>2. one \o <<>> = one /\ k \o <<>> = k
  BY <1>1, ConcatEmptySeq
<1>3. Without(one, T) = k
  <2>1. Append(<<>>, x) = one /\ <<>> \in Seq(E)
    OBVIOUS
  <2>2. Without(Append(<<>>, x), T) = Without(<<>>, T) \o k
    BY <2>1, WithoutFacts, Zenon
  <2>3. <<>> \o k = k
    BY <1>1, ConcatEmptySeq
  <2>4. QED
    BY <2>1, <2>2, <2>3, WithoutEmpty
<1> HIDE DEF one, k
<1> DEFINE U == {m \in 0 .. Len(s) : Without(one \o Taken(s, m), T) = k \o Without(Taken(s, m), T)}
<1>4. Len(s) \in Nat /\ 0 \in Nat
  BY LenProperties
<1>5. 0 \in U
  <2>1. Taken(s, 0) = <<>> /\ 0 \in 0 .. Len(s)
    BY <1>4, TakenFacts
  <2>2. Without(one \o <<>>, T) = k \o Without(<<>>, T)
    BY <1>2, <1>3, WithoutEmpty
  <2>3. QED
    BY <2>1, <2>2
<1>6. ASSUME NEW m \in 0 + 1 .. Len(s), m - 1 \in U PROVE m \in U
  <2> DEFINE t == Taken(s, m - 1)
             e == s[m]
  <2>1. m \in 0 .. Len(s) /\ m - 1 \in 0 .. Len(s)
    BY <1>4, <1>6
  <2>2. Taken(s, m) = Append(t, e) /\ e \in E /\ t \in Seq(E)
    BY <2>1, TakenFacts
  <2>3. Without(one \o t, T) = k \o Without(t, T)
    BY <1>6
  <2> HIDE DEF t, e
  <2>4. one \o Append(t, e) = Append(one \o t, e) /\ one \o t \in Seq(E)
    BY <1>1, <2>2, AppendOfConcat, ConcatProperties
  <2>5. Without(Append(one \o t, e), T) = Without(one \o t, T) \o Kept(e, T)
    <3> DEFINE w == one \o t
    <3>1. w \in Seq(E)
      BY <2>4
    <3> HIDE DEF w
    <3>2. Without(Append(w, e), T) = Without(w, T) \o Kept(e, T)
      BY <2>2, <3>1, WithoutFacts
    <3>3. QED
      BY <3>2 DEF w
  <2>6. Without(Append(t, e), T) = Without(t, T) \o Kept(e, T) /\ Without(t, T) \in Seq(E)
    BY <2>2, WithoutFacts
  <2> DEFINE a == Kept(e, T)
             b == Without(t, T)
  <2>7. a \in Seq(E) /\ b \in Seq(E) /\ k \in Seq(E)
    BY <1>1, <2>2, <2>6 DEF Kept
  <2> HIDE DEF a, b
  <2> HIDE DEF U
  <2>8. (k \o b) \o a = k \o (b \o a)
    BY <2>7, Assoc, SMTT(30)
  <2>9. Without(one \o Taken(s, m), T) = k \o Without(Taken(s, m), T)
    BY <2>2, <2>3, <2>4, <2>5, <2>6, <2>8 DEF a, b
  <2>10. QED
    BY <2>1, <2>9 DEF U
<1>7. Len(s) \in U
  <2> HIDE DEF U
  <2>1. \A m \in 0 .. Len(s) : m \in U
    BY <1>4, <1>5, <1>6, IntervalInduction
  <2>2. QED
    BY <1>4, <2>1
<1>8. QED
  BY <1>7, TakenFacts DEF one, k

\* The strokes of a character, none of them a key from elsewhere
LEMMA StrokesFacts ==
  ASSUME NEW c \in Chars
  PROVE  /\ Strokes(c) \in Seq(KeyEvents) /\ Len(Strokes(c)) \in {2, 4}
         /\ \A i \in 1 .. Len(Strokes(c)) : Strokes(c)[i] # Other
<1> DEFINE p == Event(c, TRUE)
           r == Event(c, FALSE)
           P == Event("shift", TRUE)
           R == Event("shift", FALSE)
<1>1. {p, r, P, R} \subseteq KeyEvents
  BY DEF Event, KeyEvents
<1>2. c # "other"
  BY LuaAssumption
<1>3. p # Other /\ r # Other /\ P # Other /\ R # Other
  <2>1. \A k, d : Event(k, d).key = k
    BY DEF Event
  <2>2. p.key = c /\ r.key = c /\ P.key = "shift" /\ R.key = "shift" /\ Other.key = "other"
    BY <2>1 DEF Other
  <2>3. QED
    BY <1>2, <2>2
<1> HIDE DEF p, r, P, R
<1> DEFINE S == KeyEvents \ {Other}
           a == <<P>>
           b == <<p, r>>
           d == <<R>>
<1>4. a \in Seq(S) /\ b \in Seq(S) /\ d \in Seq(S) /\ Len(a) = 1 /\ Len(b) = 2 /\ Len(d) = 1
  BY <1>1, <1>3
<1>5. Strokes(c) = IF c \in Shifted THEN (a \o b) \o d ELSE b
  BY DEF Strokes, p, r, P, R
<1> HIDE DEF S, a, b, d
<1>6. a \o b \in Seq(S) /\ Len(a \o b) = 3
  <2>1. a \o b \in Seq(S) /\ Len(a \o b) = Len(a) + Len(b)
    BY <1>4, ConcatProperties, Zenon
  <2>2. QED
    BY <1>4, <2>1
<1>7. (a \o b) \o d \in Seq(S) /\ Len((a \o b) \o d) = 4
  BY <1>4, <1>6, ConcatProperties
<1>8. Strokes(c) \in Seq(S) /\ Len(Strokes(c)) \in {2, 4}
  BY <1>4, <1>5, <1>7
<1>9. \A i \in 1 .. Len(Strokes(c)) : Strokes(c)[i] \in S
  BY <1>8, ElementOfSeq
<1>10. Strokes(c) \in Seq(KeyEvents)
  BY <1>8 DEF S
<1>11. QED
  BY <1>8, <1>9, <1>10 DEF S

LEMMA StrokesOfFacts ==
  ASSUME NEW s \in Seq(Chars)
  PROVE  /\ StrokesOf(s) \in Seq(KeyEvents)
         /\ \A c \in Chars : StrokesOf(Append(s, c)) = StrokesOf(s) \o Strokes(c)
<1> DEFINE Each(t) == [i \in DOMAIN t |-> Strokes(t[i])]
<1>1. DOMAIN s = 1 .. Len(s) /\ Len(s) \in Nat /\ \A i \in 1 .. Len(s) : s[i] \in Chars
  BY ElementOfSeq, LenProperties
<1>2. \A c \in Chars : Strokes(c) \in Seq(KeyEvents)
  BY StrokesFacts
<1>3. Each(s) \in [1 .. Len(s) -> Seq(KeyEvents)]
  BY <1>1, <1>2
<1>4. Each(s) \in Seq(Seq(KeyEvents)) /\ Len(Each(s)) = Len(s)
  BY <1>1, <1>3
<1>5. StrokesOf(s) \in Seq(KeyEvents)
  BY <1>4, FlattenType DEF StrokesOf
<1>6. ASSUME NEW c \in Chars PROVE StrokesOf(Append(s, c)) = StrokesOf(s) \o Strokes(c)
  <2> DEFINE n == Len(s)
             t == Append(s, c)
             u == Append(Each(s), Strokes(c))
  <2>1. /\ t \in Seq(Chars) /\ Len(t) = n + 1 /\ t[n + 1] = c
        /\ \A i \in 1 .. n : t[i] = s[i]
    BY <1>1, AppendProperties
  <2>2. DOMAIN t = 1 .. n + 1
    BY <2>1, LenProperties
  <2>3. /\ u \in Seq(Seq(KeyEvents)) /\ Len(u) = n + 1 /\ u[n + 1] = Strokes(c)
        /\ \A i \in 1 .. n : u[i] = Each(s)[i]
    BY <1>2, <1>4, AppendProperties
  <2>4. DOMAIN u = 1 .. n + 1
    BY <2>3, LenProperties
  <2> HIDE DEF t, u
  <2>5. ASSUME NEW i \in 1 .. n + 1 PROVE Each(t)[i] = u[i]
    <3>1. CASE i = n + 1
      BY <2>1, <2>2, <2>3, <3>1
    <3>2. CASE i # n + 1
      <4>1. i \in 1 .. n
        BY <1>1, <2>5, <3>2
      <4>2. QED
        BY <1>1, <2>1, <2>2, <2>3, <4>1
    <3>3. QED
      BY <3>1, <3>2
  <2>6. Each(t) = [i \in 1 .. n + 1 |-> Each(t)[i]]
    BY <2>2
  <2>7. u = [i \in 1 .. n + 1 |-> u[i]]
    BY <2>3, <2>4
  <2>8. Each(t) = u
    BY <2>5, <2>6, <2>7
  <2>9. FlattenSeq(u) = FlattenSeq(Each(s)) \o Strokes(c)
    BY <1>2, <1>4, FlattenAppend DEF u
  <2>10. QED
    BY <2>8, <2>9 DEF StrokesOf, t
<1>7. QED
  BY <1>5, <1>6

LEMMA StrokesOfEmpty == StrokesOf(<<>>) = <<>>
<1>1. [i \in DOMAIN <<>> |-> Strokes(<<>>[i])] = <<>>
  OBVIOUS
<1>2. QED
  BY <1>1, FlattenEmpty DEF StrokesOf

-----------------------------------------------------------------------------
(* The keyboard *)

Keyboards == [buffer : Seq(KeyEvents), port : Seq(KeyEvents), overflowed : BOOLEAN]
Bounded == {k \in Keyboards : Len(k.buffer) <= Slots /\ Len(k.port) <= 1}

Held(k) == k.port \o k.buffer

LEMMA TypedIs == \A k : Typed(k) = Without(Held(k), {Other})
BY DEF Typed, Held

LEMMA HeldType ==
  ASSUME NEW k \in Keyboards
  PROVE  Held(k) \in Seq(KeyEvents) /\ Typed(k) \in Seq(KeyEvents)
<1>1. k.port \in Seq(KeyEvents) /\ k.buffer \in Seq(KeyEvents)
  BY DEF Keyboards
<1>2. Held(k) \in Seq(KeyEvents)
  BY <1>1, ConcatProperties DEF Held
<1>3. QED
  BY <1>2, WithoutFacts, TypedIs

LEMMA HeadThenTail ==
  ASSUME NEW E, NEW b \in Seq(E), b # <<>>
  PROVE  <<Head(b)>> \o Tail(b) = b
<1>1. Len(b) \in Nat /\ 1 \in 1 .. Len(b) /\ Len(b) \in 1 .. Len(b)
  BY LenProperties, EmptySeq
<1>2. SubSeq(b, 1, Len(b)) = <<b[1]>> \o SubSeq(b, 1 + 1, Len(b))
  BY <1>1, SubSeqRecursiveFirst
<1>3. Tail(b) = SubSeq(b, 2, Len(b))
  BY TailIsSubSeq
<1>4. SubSeq(b, 1, Len(b)) = b
  BY SubSeqFull
<1>5. Head(b) = b[1] /\ 1 + 1 = 2
  OBVIOUS
<1>6. QED
  BY <1>2, <1>3, <1>4, <1>5

\* The controller takes a key; what both hold stays the same.
LEMMA TransferredFacts ==
  ASSUME NEW k \in Keyboards, Len(k.port) <= 1
  PROVE  /\ Transferred(k) \in Keyboards
         /\ Transferred(k).overflowed = k.overflowed
         /\ Len(Transferred(k).buffer) <= Len(k.buffer) /\ Len(Transferred(k).port) <= 1
         /\ Held(Transferred(k)) = Held(k)
<1>1. k.port \in Seq(KeyEvents) /\ k.buffer \in Seq(KeyEvents) /\ Len(k.buffer) \in Nat
  BY LenProperties DEF Keyboards
<1>2. CASE k.port = <<>> /\ k.buffer # <<>>
  <2> DEFINE b == k.buffer
             t == Transferred(k)
             h == <<Head(b)>>
  <2>1. t = [k EXCEPT !.port = h, !.buffer = Tail(b)]
    BY <1>2 DEF Transferred
  <2>2. Head(b) \in KeyEvents /\ Tail(b) \in Seq(KeyEvents) /\ Len(Tail(b)) = Len(b) - 1
    BY <1>1, <1>2, HeadTailProperties
  <2>3. h \in Seq(KeyEvents) /\ Len(h) = 1
    BY <2>2
  <2>4. h \o Tail(b) = b
    BY <1>1, <1>2, HeadThenTail
  <2>5. <<>> \o b = b
    BY <1>1, ConcatEmptySeq
  <2> HIDE DEF h
  <2>6. t \in Keyboards /\ t.overflowed = k.overflowed /\ t.port = h /\ t.buffer = Tail(b)
    BY <2>1, <2>2, <2>3 DEF Keyboards
  <2>7. Held(t) = Held(k)
    BY <1>2, <2>4, <2>5, <2>6 DEF Held
  <2>8. Len(t.buffer) <= Len(k.buffer) /\ Len(t.port) <= 1
    <3>1. Len(t.buffer) = Len(k.buffer) - 1 /\ Len(t.port) = 1
      BY <2>2, <2>3, <2>6
    <3> HIDE DEF t
    <3>2. QED
      BY <1>1, <3>1
  <2>9. QED
    BY <2>6, <2>7, <2>8
<1>3. CASE ~ (k.port = <<>> /\ k.buffer # <<>>)
  BY <1>1, <1>3 DEF Transferred
<1>4. QED
  BY <1>2, <1>3

\* A key with room is kept.
LEMMA AddKeyRoom ==
  ASSUME NEW k \in Bounded, NEW e \in KeyEvents, ~ k.overflowed, Len(k.buffer) < Slots
  PROVE  /\ AddKey(k, e) \in Bounded /\ ~ AddKey(k, e).overflowed
         /\ Len(AddKey(k, e).buffer) <= Len(k.buffer) + 1
         /\ Typed(AddKey(k, e)) = Typed(k) \o Kept(e, {Other})
<1> DEFINE b == Append(k.buffer, e)
           j == [k EXCEPT !.buffer = b]
<1>1. /\ k \in Keyboards /\ k.port \in Seq(KeyEvents) /\ k.buffer \in Seq(KeyEvents)
      /\ Len(k.buffer) \in Nat /\ Len(k.port) <= 1 /\ Slots \in Nat
  BY LenProperties, LuaAssumption DEF Bounded, Keyboards
<1>2. b \in Seq(KeyEvents) /\ Len(b) = Len(k.buffer) + 1
  BY <1>1, AppendProperties
<1>3. AddKey(k, e) = Transferred(j)
  BY <1>1 DEF AddKey
<1> HIDE DEF b
<1>4. j \in Keyboards /\ j.port = k.port /\ j.buffer = b /\ j.overflowed = k.overflowed
  BY <1>1, <1>2 DEF Keyboards
<1> HIDE DEF j
<1>5. /\ Transferred(j) \in Keyboards /\ Transferred(j).overflowed = j.overflowed
      /\ Len(Transferred(j).buffer) <= Len(j.buffer) /\ Len(Transferred(j).port) <= 1
      /\ Held(Transferred(j)) = Held(j)
  BY <1>1, <1>4, TransferredFacts
<1>6. Len(Transferred(j).buffer) \in Nat
  BY <1>5, LenProperties DEF Keyboards
<1>7. Held(j) = Append(Held(k), e)
  <2> DEFINE p == k.port
             q == k.buffer
  <2>1. p \in Seq(KeyEvents) /\ q \in Seq(KeyEvents)
    BY <1>1
  <2> HIDE DEF p, q
  <2>2. p \o Append(q, e) = Append(p \o q, e)
    BY <2>1, AppendOfConcat
  <2>3. QED
    BY <1>4, <2>2 DEF Held, b, p, q
<1>8. Held(k) \in Seq(KeyEvents)
  BY <1>1, HeldType
<1>9. Without(Append(Held(k), e), {Other}) = Without(Held(k), {Other}) \o Kept(e, {Other})
  BY <1>8, WithoutFacts
<1>10. Typed(Transferred(j)) = Typed(k) \o Kept(e, {Other})
  BY <1>5, <1>7, <1>9, TypedIs
<1>11. Transferred(j) \in Bounded
  BY <1>1, <1>2, <1>4, <1>5, <1>6 DEF Bounded
<1>12. QED
  BY <1>2, <1>3, <1>4, <1>5, <1>10, <1>11

LEMMA AddKeyType ==
  ASSUME NEW k \in Bounded, NEW e \in KeyEvents
  PROVE  AddKey(k, e) \in Bounded
<1>1. /\ k \in Keyboards /\ k.port \in Seq(KeyEvents) /\ k.buffer \in Seq(KeyEvents)
      /\ Len(k.buffer) \in Nat /\ Len(k.buffer) <= Slots /\ Len(k.port) <= 1 /\ Slots \in Nat
  BY LenProperties, LuaAssumption DEF Bounded, Keyboards
<1>2. CASE k.overflowed
  BY <1>2 DEF AddKey
<1>3. CASE ~ k.overflowed /\ Len(k.buffer) = Slots
  <2>1. AddKey(k, e) = [k EXCEPT !.buffer = <<>>, !.overflowed = TRUE]
    BY <1>3 DEF AddKey
  <2>2. <<>> \in Seq(KeyEvents) /\ Len(<<>>) = 0
    OBVIOUS
  <2>3. AddKey(k, e) \in Keyboards /\ AddKey(k, e).buffer = <<>> /\ AddKey(k, e).port = k.port
    BY <1>1, <2>1, <2>2 DEF Keyboards
  <2>4. QED
    BY <1>1, <2>2, <2>3 DEF Bounded
<1>4. CASE ~ k.overflowed /\ Len(k.buffer) # Slots
  <2>1. Len(k.buffer) < Slots
    BY <1>1, <1>4
  <2>2. QED
    BY <1>4, <2>1, AddKeyRoom
<1>5. QED
  BY <1>2, <1>3, <1>4

IsAdded(f, k, es) ==
  f = [i \in 0 .. Len(es) |-> IF i = 0 THEN k ELSE AddKey(f[i - 1], es[i])]

LEMMA AddedExists ==
  ASSUME NEW k \in Bounded, NEW es \in Seq(KeyEvents)
  PROVE  \E f : IsAdded(f, k, es) /\ \A i \in 0 .. Len(es) : f[i] \in Bounded
<1> DEFINE n == Len(es)
           a == 0
           G == [i \in a + 1 .. n |-> [x \in Bounded |-> AddKey(x, es[i])]]
<1>1. n \in Nat /\ a \in Nat /\ a <= n
  BY LenProperties
<1>2. \A i \in 1 .. n : es[i] \in KeyEvents
  BY ElementOfSeq
<1>3. G \in [a + 1 .. n -> [Bounded -> Bounded]]
  <2>1. ASSUME NEW i \in a + 1 .. n PROVE [x \in Bounded |-> AddKey(x, es[i])] \in [Bounded -> Bounded]
    <3>1. es[i] \in KeyEvents
      BY <1>1, <1>2, <2>1
    <3>2. QED
      BY <3>1, AddKeyType
  <2>2. QED
    BY <2>1
<1>4. PICK f : IsRecursion(f, Bounded, a, n, k, G)
  <2> HIDE DEF G, a, n
  <2>1. QED
    BY <1>1, <1>3, RecursionExists
<1>5. f \in [a .. n -> Bounded] /\ f[a] = k /\ \A i \in a + 1 .. n : f[i] = G[i][f[i - 1]]
  BY <1>4 DEF IsRecursion
<1>6. ASSUME NEW i \in 0 .. n PROVE f[i] = IF i = 0 THEN k ELSE AddKey(f[i - 1], es[i])
  <2>1. CASE i = 0
    BY <1>5, <2>1
  <2>2. CASE i # 0
    <3>1. i \in a + 1 .. n /\ i - 1 \in a .. n
      BY <1>1, <1>6, <2>2
    <3>2. f[i - 1] \in Bounded
      BY <1>5, <3>1
    <3>3. QED
      BY <1>5, <2>2, <3>1, <3>2
  <2>3. QED
    BY <2>1, <2>2
<1>7. f = [i \in 0 .. n |-> f[i]] /\ \A i \in 0 .. n : f[i] \in Bounded
  BY <1>5
<1>8. IsAdded(f, k, es)
  BY <1>6, <1>7 DEF IsAdded
<1>9. QED
  BY <1>7, <1>8

\* Keys that come one after the other; with room for all of them none is lost.
LEMMA AddKeysFacts ==
  ASSUME NEW k \in Bounded, NEW es \in Seq(KeyEvents)
  PROVE  /\ AddKeys(k, es) \in Bounded
         /\ (/\ ~ k.overflowed /\ Len(k.buffer) + Len(es) <= Slots
             /\ \A i \in 1 .. Len(es) : es[i] # Other)
              => Typed(AddKeys(k, es)) = Typed(k) \o es
<1> DEFINE f == CHOOSE g : IsAdded(g, k, es)
           n == Len(es)
<1>1. AddKeys(k, es) = f[n]
  BY DEF AddKeys, IsAdded
<1>2. IsAdded(f, k, es)
  BY AddedExists
<1> HIDE DEF f
<1>3. \A i \in 0 .. n : f[i] = IF i = 0 THEN k ELSE AddKey(f[i - 1], es[i])
  BY <1>2 DEF IsAdded
<1>4. n \in Nat /\ 0 \in Nat /\ n \in 0 .. n /\ 0 \in 0 .. n
  BY LenProperties
<1>5. \A i \in 1 .. n : es[i] \in KeyEvents
  BY ElementOfSeq
<1>6. \A i \in 0 + 1 .. n : i \in 0 .. n /\ i \in 1 .. n /\ i # 0 /\ i - 1 \in 0 .. n
  BY <1>4
<1>7. AddKeys(k, es) \in Bounded
  <2> DEFINE T == {i \in 0 .. n : f[i] \in Bounded}
  <2>1. 0 \in T
    BY <1>3, <1>4
  <2>2. ASSUME NEW i \in 0 + 1 .. n, i - 1 \in T PROVE i \in T
    <3>1. f[i] = AddKey(f[i - 1], es[i]) /\ f[i - 1] \in Bounded /\ es[i] \in KeyEvents
      BY <1>3, <1>5, <1>6, <2>2
    <3>2. QED
      BY <1>6, <3>1, AddKeyType
  <2>3. n \in T
    <3> HIDE DEF T, n
    <3>1. \A i \in 0 .. n : i \in T
      BY <1>4, <2>1, <2>2, IntervalInduction
    <3>2. QED
      BY <1>4, <3>1
  <2>4. QED
    BY <1>1, <2>3
<1>8. ASSUME ~ k.overflowed, Len(k.buffer) + n <= Slots, \A i \in 1 .. n : es[i] # Other
      PROVE  Typed(AddKeys(k, es)) = Typed(k) \o es
  <2> DEFINE Good(i) == /\ f[i] \in Bounded /\ ~ f[i].overflowed
                        /\ Len(f[i].buffer) <= Len(k.buffer) + i
                        /\ Typed(f[i]) = Typed(k) \o Taken(es, i)
             T == {i \in 0 .. n : Good(i)}
  <2>1. Len(k.buffer) \in Nat /\ Slots \in Nat /\ k \in Keyboards
    BY LenProperties, LuaAssumption DEF Bounded, Keyboards
  <2>2. Typed(k) \in Seq(KeyEvents)
    BY <2>1, HeldType
  <2>3. 0 \in T
    <3>1. f[0] = k
      BY <1>3, <1>4
    <3>2. Typed(k) \o Taken(es, 0) = Typed(k)
      BY <2>2, TakenFacts, ConcatEmptySeq
    <3>3. QED
      BY <1>4, <1>8, <2>1, <3>1, <3>2
  <2>4. ASSUME NEW i \in 0 + 1 .. n, i - 1 \in T PROVE i \in T
    <3> DEFINE x == f[i - 1]
               e == es[i]
               t == Taken(es, i - 1)
               y == Typed(k)
    <3>1. /\ x \in Bounded /\ ~ x.overflowed /\ Len(x.buffer) <= Len(k.buffer) + (i - 1)
          /\ Typed(x) = y \o t
      BY <2>4
    <3>2. f[i] = AddKey(x, e) /\ e \in KeyEvents /\ e # Other
      BY <1>3, <1>5, <1>6, <1>8
    <3>3. Len(x.buffer) \in Nat
      BY <3>1, LenProperties DEF Bounded, Keyboards
    <3>4. i \in Nat /\ i <= n
      BY <1>4
    <3>5. Len(x.buffer) < Slots
      BY <1>4, <1>8, <2>1, <3>1, <3>3, <3>4
    <3>6. Taken(es, i) = Append(t, e) /\ t \in Seq(KeyEvents) /\ y \in Seq(KeyEvents)
      BY <1>6, <2>2, TakenFacts
    <3> HIDE DEF x, e, t, y
    <3>7. /\ AddKey(x, e) \in Bounded /\ ~ AddKey(x, e).overflowed
          /\ Len(AddKey(x, e).buffer) <= Len(x.buffer) + 1
          /\ Typed(AddKey(x, e)) = Typed(x) \o Kept(e, {Other})
      BY <3>1, <3>2, <3>5, AddKeyRoom
    <3>8. Kept(e, {Other}) = <<e>>
      BY <3>2 DEF Kept
    <3>9. y \o t \in Seq(KeyEvents) /\ y \o Append(t, e) = Append(y \o t, e)
      BY <3>2, <3>6, AppendOfConcat, ConcatProperties
    <3>10. Append(y \o t, e) = (y \o t) \o <<e>>
      <4> DEFINE w == y \o t
      <4>1. w \in Seq(KeyEvents)
        BY <3>9
      <4> HIDE DEF w
      <4>2. Append(w, e) = w \o <<e>>
        BY <3>2, <4>1, AppendIsConcat
      <4>3. QED
        BY <4>2 DEF w
    <3>11. Typed(f[i]) = y \o Taken(es, i)
      BY <3>1, <3>2, <3>6, <3>7, <3>8, <3>9, <3>10
    <3>12. Len(f[i].buffer) <= Len(k.buffer) + i
      <4>1. Len(f[i].buffer) \in Nat
        BY <3>2, <3>7, LenProperties DEF Bounded, Keyboards
      <4>2. QED
        BY <2>1, <3>1, <3>2, <3>3, <3>4, <3>7, <4>1
    <3>13. Good(i)
      BY <3>2, <3>7, <3>11, <3>12 DEF y
    <3>14. QED
      BY <1>6, <3>13
  <2>5. n \in T
    <3> HIDE DEF T, n
    <3>1. \A i \in 0 .. n : i \in T
      BY <1>4, <2>3, <2>4, IntervalInduction
    <3>2. QED
      BY <1>4, <3>1
  <2>6. Taken(es, n) = es
    BY TakenFacts
  <2>7. QED
    BY <1>1, <2>5, <2>6
<1>9. QED
  BY <1>7, <1>8

-----------------------------------------------------------------------------
(* The typing: what the keyboard holds and what is left make up the text. *)

Progress == [kbd : Bounded, left : Seq(Chars)]

Total(acc) == Typed(acc.kbd) \o StrokesOf(acc.left)

LEMMA TotalType ==
  ASSUME NEW acc \in Progress
  PROVE  /\ Typed(acc.kbd) \in Seq(KeyEvents) /\ StrokesOf(acc.left) \in Seq(KeyEvents)
         /\ Total(acc) \in Seq(KeyEvents)
<1>1. acc.kbd \in Keyboards /\ acc.left \in Seq(Chars)
  BY DEF Progress, Bounded
<1>2. Typed(acc.kbd) \in Seq(KeyEvents) /\ StrokesOf(acc.left) \in Seq(KeyEvents)
  BY <1>1, HeldType, StrokesOfFacts
<1>3. QED
  BY <1>2, ConcatProperties DEF Total

\* A character is typed as a whole or left as a whole.
LEMMA OfferFacts ==
  ASSUME NEW acc \in Progress, NEW c \in Chars
  PROVE  Offer(acc, c) \in Progress /\ Total(Offer(acc, c)) = Total(acc) \o Strokes(c)
<1> DEFINE es == Strokes(c)
           a == Typed(acc.kbd)
           b == StrokesOf(acc.left)
<1>1. acc.kbd \in Bounded /\ acc.left \in Seq(Chars)
  BY DEF Progress
<1>2. /\ es \in Seq(KeyEvents) /\ Len(es) \in {2, 4}
      /\ \A i \in 1 .. Len(es) : es[i] # Other
  BY StrokesFacts
<1>3. a \in Seq(KeyEvents) /\ b \in Seq(KeyEvents)
  BY TotalType
<1>4. CASE acc.left # <<>> \/ FreeSlots(acc.kbd) < Len(es)
  <2>1. Offer(acc, c) = [acc EXCEPT !.left = Append(acc.left, c)]
    BY <1>4 DEF Offer
  <2>2. Append(acc.left, c) \in Seq(Chars)
    BY <1>1, AppendProperties
  <2>3. /\ Offer(acc, c) \in Progress
        /\ Offer(acc, c).kbd = acc.kbd /\ Offer(acc, c).left = Append(acc.left, c)
    BY <1>1, <2>1, <2>2 DEF Progress
  <2>4. StrokesOf(Append(acc.left, c)) = b \o es
    BY <1>1, StrokesOfFacts
  <2>5. Total(acc) = a \o b /\ Total(Offer(acc, c)) = a \o (b \o es)
    BY <2>3, <2>4 DEF Total
  <2> HIDE DEF a, b, es
  <2>6. (a \o b) \o es = a \o (b \o es)
    BY <1>2, <1>3, Assoc
  <2>7. QED
    BY <2>3, <2>5, <2>6 DEF es
<1>5. CASE ~ (acc.left # <<>> \/ FreeSlots(acc.kbd) < Len(es))
  <2> DEFINE k == AddKeys(acc.kbd, es)
  <2>1. Offer(acc, c) = [acc EXCEPT !.kbd = k]
    BY <1>5 DEF Offer
  <2>2. /\ Len(acc.kbd.buffer) \in Nat /\ Slots \in Nat /\ Len(es) \in Nat
        /\ acc.kbd.overflowed \in BOOLEAN
    BY <1>1, <1>2, LenProperties, LuaAssumption DEF Bounded, Keyboards
  <2>3. ~ acc.kbd.overflowed /\ Len(acc.kbd.buffer) + Len(es) <= Slots
    <3>1. ~ (FreeSlots(acc.kbd) < Len(es)) /\ Len(es) > 0
      BY <1>2, <1>5
    <3>2. QED
      BY <2>2, <3>1 DEF FreeSlots
  <2>4. k \in Bounded /\ Typed(k) = a \o es
    BY <1>1, <1>2, <2>3, AddKeysFacts
  <2> HIDE DEF k
  <2>5. Offer(acc, c) \in Progress /\ Offer(acc, c).kbd = k /\ Offer(acc, c).left = <<>>
    BY <1>1, <1>5, <2>1, <2>4 DEF Progress
  <2>6. Total(acc) = a \o <<>> /\ Total(Offer(acc, c)) = (a \o es) \o <<>>
    BY <1>5, <2>4, <2>5, StrokesOfEmpty DEF Total
  <2> HIDE DEF a, es
  <2>7. a \o <<>> = a /\ a \o es \in Seq(KeyEvents)
    BY <1>2, <1>3, ConcatEmptySeq, ConcatProperties
  <2>8. (a \o es) \o <<>> = a \o es
    BY <2>7, ConcatEmptySeq
  <2>9. QED
    BY <2>5, <2>6, <2>7, <2>8 DEF es
<1>6. QED
  BY <1>4, <1>5

IsDrained(f, k, keys) ==
  f = [i \in 0 .. Len(keys) |->
         IF i = 0 THEN [kbd |-> k, left |-> <<>>] ELSE Offer(f[i - 1], keys[i])]

LEMMA DrainedExists ==
  ASSUME NEW k \in Bounded, NEW keys \in Seq(Chars)
  PROVE  \E f : IsDrained(f, k, keys)
<1> DEFINE n == Len(keys)
           a == 0
           z == [kbd |-> k, left |-> <<>>]
           G == [i \in a + 1 .. n |-> [x \in Progress |-> Offer(x, keys[i])]]
<1>1. n \in Nat /\ a \in Nat /\ a <= n
  BY LenProperties
<1>2. z \in Progress
  BY DEF Progress
<1>3. \A i \in 1 .. n : keys[i] \in Chars
  BY ElementOfSeq
<1>4. G \in [a + 1 .. n -> [Progress -> Progress]]
  <2>1. ASSUME NEW i \in a + 1 .. n PROVE [x \in Progress |-> Offer(x, keys[i])] \in [Progress -> Progress]
    <3>1. keys[i] \in Chars
      BY <1>1, <1>3, <2>1
    <3>2. QED
      BY <3>1, OfferFacts
  <2>2. QED
    BY <2>1
<1>5. PICK f : IsRecursion(f, Progress, a, n, z, G)
  <2> HIDE DEF G, a, n, z
  <2>1. QED
    BY <1>1, <1>2, <1>4, RecursionExists
<1>6. f \in [a .. n -> Progress] /\ f[a] = z /\ \A i \in a + 1 .. n : f[i] = G[i][f[i - 1]]
  BY <1>5 DEF IsRecursion
<1> HIDE DEF z
<1>7. ASSUME NEW i \in 0 .. n PROVE f[i] = IF i = 0 THEN z ELSE Offer(f[i - 1], keys[i])
  <2>1. CASE i = 0
    BY <1>6, <2>1
  <2>2. CASE i # 0
    <3>1. i \in a + 1 .. n /\ i - 1 \in a .. n
      BY <1>1, <1>7, <2>2
    <3>2. f[i - 1] \in Progress
      BY <1>6, <3>1
    <3>3. QED
      BY <1>6, <2>2, <3>1, <3>2
  <2>3. QED
    BY <2>1, <2>2
<1>8. f = [i \in 0 .. n |-> f[i]]
  BY <1>6
<1>9. QED
  BY <1>7, <1>8 DEF IsDrained, z

\* Draining neither loses nor doubles nor reorders a stroke.
LEMMA DrainFacts ==
  ASSUME NEW k \in Bounded, NEW keys \in Seq(Chars)
  PROVE  /\ DrainPendingKeys(k, keys) \in Progress
         /\ Total(DrainPendingKeys(k, keys)) = Typed(k) \o StrokesOf(keys)
<1> DEFINE f == CHOOSE g : IsDrained(g, k, keys)
           n == Len(keys)
           z == [kbd |-> k, left |-> <<>>]
           y == Typed(k)
<1>1. DrainPendingKeys(k, keys) = f[n]
  BY DEF DrainPendingKeys, IsDrained
<1>2. IsDrained(f, k, keys)
  BY DrainedExists
<1> HIDE DEF f
<1>3. \A i \in 0 .. n : f[i] = IF i = 0 THEN z ELSE Offer(f[i - 1], keys[i])
  BY <1>2 DEF IsDrained
<1>4. n \in Nat /\ 0 \in Nat /\ n \in 0 .. n /\ 0 \in 0 .. n
  BY LenProperties
<1>5. \A i \in 1 .. n : keys[i] \in Chars
  BY ElementOfSeq
<1>6. \A i \in 0 + 1 .. n : i \in 0 .. n /\ i \in 1 .. n /\ i # 0 /\ i - 1 \in 0 .. n
  BY <1>4
<1>7. z \in Progress /\ y \in Seq(KeyEvents) /\ z.kbd = k /\ z.left = <<>>
  BY HeldType DEF Progress, Bounded
<1> DEFINE Good(i) == f[i] \in Progress /\ Total(f[i]) = y \o StrokesOf(Taken(keys, i))
           T == {i \in 0 .. n : Good(i)}
<1>8. 0 \in T
  <2>1. f[0] = z
    BY <1>3, <1>4
  <2>2. Taken(keys, 0) = <<>>
    BY TakenFacts
  <2>3. Total(z) = y \o StrokesOf(<<>>)
    BY <1>7 DEF Total
  <2>4. QED
    BY <1>4, <1>7, <2>1, <2>2, <2>3
<1>9. ASSUME NEW i \in 0 + 1 .. n, i - 1 \in T PROVE i \in T
  <2> DEFINE x == f[i - 1]
             c == keys[i]
             t == Taken(keys, i - 1)
             u == StrokesOf(t)
             v == Strokes(c)
  <2>1. x \in Progress /\ Total(x) = y \o u
    BY <1>9
  <2>2. f[i] = Offer(x, c) /\ c \in Chars
    BY <1>3, <1>5, <1>6
  <2>3. Taken(keys, i) = Append(t, c) /\ t \in Seq(Chars)
    BY <1>6, TakenFacts
  <2>4. Offer(x, c) \in Progress /\ Total(Offer(x, c)) = Total(x) \o v
    BY <2>1, <2>2, OfferFacts
  <2>5. StrokesOf(Append(t, c)) = u \o v /\ u \in Seq(KeyEvents) /\ v \in Seq(KeyEvents)
    BY <2>2, <2>3, StrokesOfFacts, StrokesFacts
  <2> HIDE DEF u, v, y, x, c, t, T
  <2>6. (y \o u) \o v = y \o (u \o v)
    <3>1. y \in Seq(KeyEvents) /\ u \in Seq(KeyEvents) /\ v \in Seq(KeyEvents)
      BY <1>7, <2>5
    <3>2. QED
      BY <3>1, Assoc, SMTT(30)
  <2>7. Good(i)
    BY <2>1, <2>2, <2>3, <2>4, <2>5, <2>6
  <2>8. QED
    BY <1>6, <2>7 DEF T
<1>10. n \in T
  <2> HIDE DEF T, n
  <2>1. \A i \in 0 .. n : i \in T
    BY <1>4, <1>8, <1>9, IntervalInduction
  <2>2. QED
    BY <1>4, <2>1
<1>11. Taken(keys, n) = keys
  BY TakenFacts
<1>12. QED
  BY <1>1, <1>10, <1>11

-----------------------------------------------------------------------------
(* The typed keys are accounted for. *)

KeysType == kbd \in Bounded /\ pending_keys \in Seq(Chars) /\ due \in Seq(KeyEvents)

KeysInv == KeysType /\ due = Typed(kbd) \o StrokesOf(pending_keys)

\* What the invariant says when nothing is left to be typed
LEMMA NothingLeft ==
  ASSUME KeysType, pending_keys = <<>>
  PROVE  /\ Typed(kbd) \in Seq(KeyEvents)
         /\ Typed(kbd) \o StrokesOf(pending_keys) = Typed(kbd)
<1>1. Typed(kbd) \in Seq(KeyEvents)
  BY HeldType DEF KeysType, Bounded
<1>2. QED
  BY <1>1, ConcatEmptySeq, StrokesOfEmpty

\* A command forgets what was left to be typed.
LEMMA KeysCleared ==
  ASSUME KeysInv, kbd' = kbd, pending_keys' = <<>>,
         due' = Typed(kbd) \/ (due' = due /\ pending_keys = <<>>)
  PROVE  KeysInv'
<1>1. KeysType /\ kbd \in Keyboards
  BY DEF KeysInv, KeysType, Bounded
<1>2. Typed(kbd) \in Seq(KeyEvents) /\ Typed(kbd) \o StrokesOf(<<>>) = Typed(kbd)
  BY <1>1, HeldType, ConcatEmptySeq, StrokesOfEmpty
<1>3. due' = Typed(kbd)
  BY <1>2 DEF KeysInv
<1>4. Typed(kbd') = Typed(kbd)
  BY DEF Typed
<1>5. QED
  BY <1>1, <1>2, <1>3, <1>4 DEF KeysInv, KeysType

LEMMA KeysUntouched ==
  ASSUME KeysInv, UNCHANGED <<kbd, pending_keys, due>>
  PROVE  KeysInv'
<1>1. Typed(kbd') = Typed(kbd) /\ StrokesOf(pending_keys') = StrokesOf(pending_keys)
  OBVIOUS
<1>2. QED
  BY <1>1 DEF KeysInv, KeysType

LEMMA FrameTypesKeys ==
  ASSUME IndInv, KeysInv, FrameTypes
  PROVE  KeysInv'
<1> DEFINE d == DrainPendingKeys(kbd, pending_keys)
<1>1. kbd \in Bounded /\ pending_keys \in Seq(Chars) /\ due \in Seq(KeyEvents)
  BY DEF KeysInv, KeysType
<1>2. d \in Progress /\ Total(d) = due
  BY <1>1, DrainFacts DEF KeysInv
<1>3. kbd' = d.kbd
  BY DEF FrameTypes
<1>4. d.kbd \in Bounded /\ d.left \in Seq(Chars) /\ due = Typed(d.kbd) \o StrokesOf(d.left)
  BY <1>2 DEF Progress, Total
<1>5. CASE (d.left = <<>> \/ type_wall = 0) /\ FinishTypeInjection(kbd')
  <2>1. pending_keys' = <<>> /\ due' = IF type_wall = 0 THEN Typed(kbd') ELSE due
    BY <1>5 DEF FinishTypeInjection
  <2> DEFINE y == Typed(d.kbd)
  <2>2. y \in Seq(KeyEvents)
    BY <1>2, TotalType
  <2> HIDE DEF y
  <2>3. y \o StrokesOf(<<>>) = y
    BY <2>2, ConcatEmptySeq, StrokesOfEmpty
  <2>4. Typed(kbd') = y
    BY <1>3 DEF y
  <2>5. due' = y
    BY <1>4, <1>5, <2>1, <2>3, <2>4 DEF y
  <2>6. QED
    BY <1>3, <1>4, <2>1, <2>2, <2>3, <2>4, <2>5 DEF KeysInv, KeysType
<1>6. CASE pending_keys' = d.left /\ UNCHANGED due
  <2>1. Typed(kbd') = Typed(d.kbd) /\ StrokesOf(pending_keys') = StrokesOf(d.left)
    BY <1>3, <1>6
  <2>2. QED
    BY <1>1, <1>3, <1>4, <1>6, <2>1 DEF KeysInv, KeysType
<1>7. QED
  BY <1>5, <1>6 DEF FrameTypes

LEMMA LuaTypeKeys ==
  ASSUME IndInv, KeysInv, LuaType
  PROVE  KeysInv'
<1>1. inside /\ kbd' = kbd /\ KeysType
  BY DEF LuaType, Leave, env, KeysInv
<1>2. pending_keys = <<>>
  BY <1>1 DEF IndInv, WaitMatchesCall
<1>3. due = Typed(kbd) /\ Typed(kbd) \in Seq(KeyEvents)
  BY <1>1, <1>2, NothingLeft DEF KeysInv
<1>4. PICK s \in Texts : /\ pending_keys' = TextToStrokes(s)
                         /\ due' = due \o StrokesOf(pending_keys')
  BY DEF LuaType
<1>5. s \in Seq(Chars)
  BY LuaAssumption
<1>6. pending_keys' \in Seq(Chars)
  BY <1>4, <1>5, WithoutFacts DEF TextToStrokes
<1>7. StrokesOf(pending_keys') \in Seq(KeyEvents)
  BY <1>6, StrokesOfFacts
<1>8. due' \in Seq(KeyEvents)
  BY <1>3, <1>4, <1>7, ConcatProperties
<1>9. due' = Typed(kbd') \o StrokesOf(pending_keys')
  BY <1>1, <1>3, <1>4
<1>10. QED
  BY <1>1, <1>6, <1>8, <1>9 DEF KeysInv, KeysType

LEMMA OtherKeyKeys ==
  ASSUME KeysInv, OtherKey, UNCHANGED pending_keys
  PROVE  KeysInv'
<1>1. /\ kbd \in Bounded /\ pending_keys \in Seq(Chars) /\ due \in Seq(KeyEvents)
      /\ kbd \in Keyboards /\ kbd.overflowed \in BOOLEAN
      /\ due = Typed(kbd) \o StrokesOf(pending_keys)
  BY DEF KeysInv, KeysType, Bounded, Keyboards
<1>2. Other \in KeyEvents
  BY DEF Other, Event, KeyEvents
<1>3. kbd' = AddKey(kbd, Other) /\ kbd' \in Bounded
  BY <1>1, <1>2, AddKeyType DEF OtherKey
<1>4. StrokesOf(pending_keys) \in Seq(KeyEvents) /\ StrokesOf(pending_keys') = StrokesOf(pending_keys)
  BY <1>1, StrokesOfFacts
<1>5. Typed(kbd') \in Seq(KeyEvents)
  BY <1>3, HeldType DEF Bounded
<1>6. due' = Typed(kbd') \o StrokesOf(pending_keys)
  <2>1. CASE kbd'.overflowed /\ ~ kbd.overflowed
    BY <2>1 DEF OtherKey
  <2>2. CASE ~ (kbd'.overflowed /\ ~ kbd.overflowed)
    <3>1. due' = due
      BY <2>2 DEF OtherKey
    <3>2. CASE kbd.overflowed
      <4>1. kbd' = kbd
        BY <1>3, <3>2 DEF AddKey
      <4>2. QED
        BY <1>1, <3>1, <4>1
    <3>3. CASE ~ kbd.overflowed
      <4>1. Len(kbd.buffer) # Slots
        <5>1. SUFFICES ASSUME Len(kbd.buffer) = Slots PROVE FALSE
          OBVIOUS
        <5>2. kbd'.overflowed
          BY <1>1, <1>3, <3>3, <5>1 DEF AddKey, Keyboards
        <5>3. QED
          BY <2>2, <3>3, <5>2
      <4>2. Len(kbd.buffer) < Slots
        BY <1>1, <4>1, LenProperties, LuaAssumption DEF Bounded, Keyboards
      <4>3. Typed(kbd') = Typed(kbd) \o Kept(Other, {Other})
        BY <1>1, <1>2, <1>3, <3>3, <4>2, AddKeyRoom
      <4>4. Kept(Other, {Other}) = <<>>
        BY DEF Kept
      <4>5. Typed(kbd) \o <<>> = Typed(kbd)
        BY <1>1, HeldType, ConcatEmptySeq
      <4>6. QED
        BY <1>1, <3>1, <4>3, <4>4, <4>5
    <3>4. QED
      BY <3>2, <3>3
  <2>3. QED
    BY <2>1, <2>2
<1>7. due' \in Seq(KeyEvents)
  BY <1>4, <1>5, <1>6, ConcatProperties
<1>8. QED
  BY <1>1, <1>3, <1>4, <1>6, <1>7 DEF KeysInv, KeysType

\* The guest takes the oldest key.
LEMMA GuestReadsKeys ==
  ASSUME KeysInv, GuestReads
  PROVE  KeysInv'
<1> DEFINE e == Head(kbd.port)
           b == kbd.buffer
           k == [kbd EXCEPT !.port = <<>>, !.overflowed = FALSE]
           s == StrokesOf(pending_keys)
           w == Without(b, {Other})
<1>1. /\ kbd \in Keyboards /\ b \in Seq(KeyEvents) /\ kbd.port \in Seq(KeyEvents)
      /\ Len(b) \in Nat /\ Len(b) <= Slots /\ Len(kbd.port) <= 1 /\ kbd.port # <<>>
      /\ pending_keys \in Seq(Chars) /\ due \in Seq(KeyEvents)
      /\ due = Typed(kbd) \o s
  BY LenProperties DEF KeysInv, KeysType, Bounded, Keyboards, GuestReads
<1>2. UNCHANGED pending_keys /\ kbd' = Transferred(k)
  BY DEF GuestReads, waits, typing
<1>3. due' = IF e = Other THEN due ELSE Tail(due)
  BY DEF GuestReads
<1>4. kbd.port = <<e>> /\ e \in KeyEvents
  <2>1. Len(kbd.port) = 1
    <3> DEFINE p == kbd.port
    <3>1. p \in Seq(KeyEvents) /\ Len(p) <= 1 /\ p # <<>>
      BY <1>1
    <3> HIDE DEF p
    <3>2. Len(p) \in Nat /\ Len(p) # 0
      BY <3>1, LenProperties, EmptySeq
    <3> DEFINE m == Len(p)
    <3>3. m \in Nat /\ m # 0 /\ m <= 1
      BY <3>1, <3>2
    <3> HIDE DEF m
    <3>4. m = 1
      BY <3>3
    <3>5. QED
      BY <3>4 DEF m, p
  <2>2. QED
    BY <1>1, <2>1
<1>5. s \in Seq(KeyEvents) /\ w \in Seq(KeyEvents)
  BY <1>1, StrokesOfFacts, WithoutFacts
<1>6. Typed(kbd) = Kept(e, {Other}) \o w
  <2>1. Held(kbd) = <<e>> \o b
    BY <1>4 DEF Held
  <2>2. Without(<<e>> \o b, {Other}) = Kept(e, {Other}) \o w
    BY <1>1, <1>4, WithoutFront
  <2>3. QED
    BY <2>1, <2>2, TypedIs
<1>7. Typed(kbd') = w /\ kbd' \in Bounded
  <2>1. k \in Keyboards /\ k.port = <<>> /\ k.buffer = b /\ Len(<<>>) <= 1
    <3>1. <<>> \in Seq(KeyEvents) /\ Len(<<>>) <= 1
      BY EmptySeq
    <3>2. QED
      BY <1>1, <3>1 DEF Keyboards
  <2> HIDE DEF k
  <2>2. /\ Transferred(k) \in Keyboards
        /\ Len(Transferred(k).buffer) <= Len(b) /\ Len(Transferred(k).port) <= 1
        /\ Held(Transferred(k)) = Held(k)
    BY <2>1, TransferredFacts
  <2>3. Held(k) = b
    BY <1>1, <2>1, ConcatEmptySeq DEF Held
  <2>4. Len(Transferred(k).buffer) \in Nat /\ Slots \in Nat
    BY <2>2, LenProperties, LuaAssumption DEF Keyboards
  <2>5. Transferred(k) \in Bounded
    BY <1>1, <2>2, <2>4 DEF Bounded
  <2>6. QED
    BY <1>2, <2>2, <2>3, <2>5, TypedIs
<1> HIDE DEF e, b, k, s, w
<1>8. due' = w \o s
  <2>1. CASE e = Other
    <3>1. Kept(e, {Other}) = <<>>
      BY <2>1 DEF Kept
    <3>2. <<>> \o w = w
      BY <1>5, ConcatEmptySeq
    <3>3. QED
      BY <1>1, <1>3, <1>6, <2>1, <3>1, <3>2
  <2>2. CASE e # Other
    <3> DEFINE o == <<e>>
               u == w \o s
    <3>1. Kept(e, {Other}) = o /\ o \in Seq(KeyEvents) /\ u \in Seq(KeyEvents)
      BY <1>4, <1>5, <2>2, ConcatProperties DEF Kept
    <3>2. due = (o \o w) \o s
      BY <1>1, <1>6, <3>1
    <3>3. (o \o w) \o s = o \o u
      <4> HIDE DEF o
      <4>1. QED
        BY <1>5, <3>1, Assoc
    <3> HIDE DEF u
    <3>4. Tail(<<e>> \o u) = u
      <4> DEFINE q == <<e>> \o u
      <4>1. /\ q \in Seq(KeyEvents) /\ Len(q) = 1 + Len(u) /\ q # <<>> /\ Len(u) \in Nat
            /\ \A i \in 1 .. Len(u) : q[i + 1] = u[i]
        BY <3>1
      <4> HIDE DEF q
      <4>2. /\ Tail(q) \in Seq(KeyEvents) /\ Len(Tail(q)) = Len(u)
            /\ \A i \in 1 .. Len(u) : Tail(q)[i] = u[i]
        BY <4>1, HeadTailProperties
      <4>3. Tail(q) = u
        BY <3>1, <4>2, SeqEqual
      <4>4. QED
        BY <4>3 DEF q
    <3>5. QED
      BY <1>3, <2>2, <3>2, <3>3, <3>4 DEF u
  <2>3. QED
    BY <2>1, <2>2
<1>9. due' \in Seq(KeyEvents)
  BY <1>5, <1>8, ConcatProperties
<1>10. StrokesOf(pending_keys') = s
  BY <1>2 DEF s
<1>11. QED
  BY <1>1, <1>2, <1>7, <1>8, <1>9, <1>10 DEF KeysInv, KeysType

LEMMA InitKeys == Init => KeysInv
<1> SUFFICES ASSUME Init PROVE KeysInv
  OBVIOUS
<1>1. <<>> \in Seq(KeyEvents) /\ <<>> \in Seq(Chars) /\ Len(<<>>) = 0 /\ Slots \in Nat
  BY EmptySeq, LuaAssumption
<1>2. kbd \in Keyboards /\ kbd.buffer = <<>> /\ kbd.port = <<>>
  BY <1>1 DEF Init, Keyboards
<1>3. kbd \in Bounded
  BY <1>1, <1>2 DEF Bounded
<1>4. Held(kbd) = <<>>
  BY <1>2 DEF Held
<1>5. Typed(kbd) = <<>>
  BY <1>4, TypedIs, WithoutEmpty
<1>6. <<>> \o <<>> = <<>>
  OBVIOUS
<1>7. QED
  BY <1>1, <1>3, <1>5, <1>6, StrokesOfEmpty DEF Init, KeysInv, KeysType

LEMMA NextKeys ==
  ASSUME IndInv, KeysInv, [Next]_vars
  PROVE  KeysInv'
<1>1. CASE \/ Load \/ FrameWithoutScript \/ FrameStarts \/ FrameChecksText \/ FrameCounts
  BY <1>1, KeysUntouched
  DEF Load, FrameWithoutScript, FrameStarts, FrameChecksText, FrameCounts, env, waits, typing
<1>2. CASE Start
  <2>1. pending_keys = <<>>
    BY <1>2 DEF Start, Active, IndInv, WaitMatchesCall
  <2>2. QED
    BY <1>2, <2>1, KeysCleared DEF Start, Cleanup, env
<1>3. CASE Stop
  BY <1>3, KeysCleared DEF Stop, Cleanup, env
<1>4. CASE FrameTypes
  BY <1>4, FrameTypesKeys
<1>5. CASE ReapStalledWaits
  <2>1. CASE UNCHANGED <<pending_keys, due>>
    BY <1>5, <2>1, KeysUntouched DEF ReapStalledWaits, env
  <2>2. CASE FinishTypeInjection(kbd) /\ type_wall = 0
    BY <1>5, <2>2, KeysCleared DEF ReapStalledWaits, FinishTypeInjection, env
  <2>3. QED
    BY <1>5, <2>1, <2>2 DEF ReapStalledWaits
<1>6. CASE LuaWaitFrames \/ LuaWaitForText \/ LuaYield \/ ScriptEnds
  BY <1>6, KeysUntouched
  DEF LuaWaitFrames, LuaWaitForText, LuaYield, ScriptEnds, Leave, env, waits, typing
<1>7. CASE LuaType
  BY <1>7, LuaTypeKeys
<1>8. CASE LuaKey \/ UserTypes
  BY <1>8, OtherKeyKeys DEF LuaKey, UserTypes, waits, typing
<1>9. CASE GuestReads
  BY <1>9, GuestReadsKeys
<1>10. CASE GuestDraws \/ TimePasses \/ UNCHANGED vars
  BY <1>10, KeysUntouched DEF GuestDraws, TimePasses, vars, env, waits, typing
<1>11. QED
  BY <1>1, <1>2, <1>3, <1>4, <1>5, <1>6, <1>7, <1>8, <1>9, <1>10 DEF Next

\* The rest of the types
Clocks ==
  /\ frame \in 0 .. MaxFrame /\ current_frame \in 0 .. frame
  /\ state \in {"Idle", "Running", "Yielded", "Completed", "Error"}
  /\ text_wall \in 0 .. Ceiling /\ type_wall \in 0 .. Ceiling

LEMMA InitClocks == Init => Clocks
BY LuaAssumption DEF Init, Clocks

LEMMA NextClocks ==
  ASSUME Clocks, [Next]_vars
  PROVE  Clocks'
<1> USE LuaAssumption DEF Clocks
<1>1. CASE UNCHANGED <<frame, current_frame, text_wall, type_wall>> /\ state' \in {"Idle", "Running", "Yielded", "Completed", "Error"}
  BY <1>1
<1>2. CASE Load \/ Stop \/ ScriptEnds \/ GuestReads \/ GuestDraws \/ LuaKey \/ UserTypes \/ UNCHANGED vars
  <2>1. CASE Stop
    BY <2>1 DEF Stop, Cleanup, env
  <2>2. CASE ScriptEnds
    BY <1>1, <2>2 DEF ScriptEnds, env, waits, text, typing
  <2>3. CASE Load \/ GuestReads \/ GuestDraws \/ LuaKey \/ UserTypes \/ UNCHANGED vars
    BY <1>1, <2>3 DEF Load, GuestReads, GuestDraws, LuaKey, UserTypes, vars, env, waits, text, typing
  <2>4. QED
    BY <1>2, <2>1, <2>2, <2>3
<1>3. CASE Start
  BY <1>3 DEF Start, Cleanup, env
<1>4. CASE ReapStalledWaits
  BY <1>1, <1>4 DEF ReapStalledWaits, FinishTypeInjection, ResumeWith, env
<1>5. CASE LuaWaitFrames \/ LuaYield
  BY <1>1, <1>5 DEF LuaWaitFrames, LuaYield, Leave, env, waits, text, typing
<1>6. CASE LuaWaitForText
  BY <1>6 DEF LuaWaitForText, Leave, env, typing
<1>7. CASE LuaType
  BY <1>7 DEF LuaType, Leave, env, text
<1>8. CASE NextFrame /\ UNCHANGED <<text_wall, type_wall>>
           /\ (current_frame' = frame' \/ UNCHANGED current_frame)
           /\ (UNCHANGED state \/ state' = "Running")
  BY <1>8 DEF NextFrame
<1>9. CASE FrameWithoutScript \/ FrameStarts \/ FrameCounts
  BY <1>8, <1>9 DEF FrameWithoutScript, FrameStarts, FrameCounts, ResumeWith, StillWaiting, waits, text, typing
<1>10. CASE FrameChecksText
  BY <1>8, <1>10 DEF FrameChecksText, ResumeWith, StillWaiting, typing
<1>11. CASE FrameTypes
  BY <1>8, <1>11 DEF FrameTypes, FinishTypeInjection, ResumeWith, StillWaiting, text
<1>12. CASE TimePasses
  BY <1>12 DEF TimePasses, env
<1>13. QED
  BY <1>2, <1>3, <1>4, <1>5, <1>6, <1>7, <1>9, <1>10, <1>11, <1>12 DEF Next

TypingInv == IndInv /\ KeysInv /\ Clocks

LEMMA TypingInvariance == Spec => []TypingInv
<1>1. Init => TypingInv
  BY Initially, InitKeys, InitClocks DEF TypingInv
<1>2. TypingInv /\ [Next]_vars => TypingInv'
  BY Inductive, NextKeys, NextClocks DEF TypingInv
<1>3. QED
  BY <1>1, <1>2, PTL DEF Spec

\* Typed keys are neither lost nor doubled nor reordered between the script, the
\* keyboard's buffer and the controller (DrainPendingKeys, buffer_add), for any
\* texts and any size of the buffer, unless others make it overflow.
THEOREM NoTypedKeyLost == Spec => []KeysAccounted
<1>1. TypingInv => KeysAccounted
  <2> SUFFICES ASSUME TypingInv PROVE KeysAccounted
    OBVIOUS
  <2>1. /\ kbd \in [buffer : Seq(KeyEvents), port : Seq(KeyEvents), overflowed : BOOLEAN]
        /\ Len(kbd.buffer) <= Slots /\ Len(kbd.port) <= 1
        /\ pending_keys \in Seq(Chars) /\ due \in Seq(KeyEvents)
        /\ due = Typed(kbd) \o StrokesOf(pending_keys)
    BY DEF TypingInv, KeysInv, KeysType, Bounded, Keyboards
  <2>2. TypeOK
    BY <2>1 DEF TypingInv, Clocks, IndInv, TypeOK
  <2>3. QED
    BY <2>1, <2>2 DEF KeysAccounted
<1>2. QED
  BY <1>1, TypingInvariance, PTL

\* A keyboard with an empty buffer holds one typed key at most.
LEMMA OneTyped ==
  ASSUME NEW k \in Bounded, k.buffer = <<>>
  PROVE  Len(Typed(k)) <= 1
<1>1. k.port \in Seq(KeyEvents) /\ Len(k.port) <= 1 /\ Len(k.port) \in Nat
  BY LenProperties DEF Bounded, Keyboards
<1>2. Held(k) = k.port
  BY <1>1, ConcatEmptySeq DEF Held
<1> DEFINE p == k.port
<1> HIDE DEF p
<1>3. p \in Seq(KeyEvents) /\ Len(p) <= 1 /\ Len(p) \in Nat
  BY <1>1 DEF p
<1>4. CASE p = <<>>
  <2>1. Typed(k) = <<>>
    BY <1>2, <1>4, TypedIs, WithoutEmpty DEF p
  <2>2. QED
    BY <2>1
<1>5. CASE p # <<>>
  <2>1. Len(p) # 0
    BY <1>3, <1>5, EmptySeq
  <2>2. Head(p) \in KeyEvents /\ <<Head(p)>> \o Tail(p) = p /\ Tail(p) \in Seq(KeyEvents) /\ Len(Tail(p)) = Len(p) - 1
    BY <1>3, <1>5, HeadThenTail, HeadTailProperties
  <2>3. Tail(p) = <<>>
    <3>1. Len(Tail(p)) = 0
      BY <1>3, <2>1, <2>2
    <3>2. QED
      BY <2>2, <3>1, EmptySeq
  <2> DEFINE h == Head(p)
  <2>4. h \in KeyEvents /\ p = <<h>> \o <<>> /\ <<>> \in Seq(KeyEvents)
    BY <2>2, <2>3
  <2> HIDE DEF h
  <2>5. Without(<<h>> \o <<>>, {Other}) = Kept(h, {Other}) \o Without(<<>>, {Other})
    BY <2>4, WithoutFront
  <2>6. Kept(h, {Other}) \in Seq(KeyEvents) /\ Len(Kept(h, {Other})) <= 1
    BY <2>4 DEF Kept
  <2>7. Typed(k) = Kept(h, {Other})
    BY <1>2, <2>4, <2>5, <2>6, WithoutEmpty, ConcatEmptySeq, TypedIs DEF p
  <2>8. QED
    BY <2>6, <2>7
<1>6. QED
  BY <1>4, <1>5

LEMMA TypeReturns ==
  ASSUME TypingInv, [Next]_vars, call.op = "type", inside'
  PROVE  type_wall = 0 \/ (kbd'.buffer = <<>> /\ Len(due') <= 1)
<1>1. /\ IndInv /\ KeysInv /\ KeysInv' /\ state = "Yielded" /\ ~ inside
      /\ ~ waiting_for_text /\ injecting_type
  BY NextKeys DEF TypingInv, IndInv, WaitMatchesCall, Types
<1>2. FrameTypes \/ ReapStalledWaits
  <2>1. ~ inside' \/ inside' # inside
    BY <1>1
  <2>2. CASE FrameChecksText \/ FrameStarts \/ FrameCounts
    BY <1>1, <2>2 DEF FrameChecksText, FrameStarts, FrameCounts
  <2>3. CASE \/ Load \/ Start \/ Stop \/ FrameWithoutScript \/ GuestReads \/ GuestDraws
             \/ UserTypes \/ TimePasses \/ UNCHANGED vars
    BY <1>1, <2>3 DEF Load, Start, Stop, FrameWithoutScript, GuestReads, GuestDraws,
                      UserTypes, TimePasses, vars
  <2>4. CASE \/ LuaWaitFrames \/ LuaWaitForText \/ LuaType \/ LuaYield \/ LuaKey \/ ScriptEnds
    BY <1>1, <2>4 DEF LuaWaitFrames, LuaWaitForText, LuaType, LuaYield, LuaKey, ScriptEnds, Leave
  <2>5. QED
    BY <2>2, <2>3, <2>4 DEF Next
<1>3. CASE ReapStalledWaits
  BY <1>1, <1>3 DEF ReapStalledWaits
<1>4. CASE FrameTypes /\ type_wall # 0
  <2> DEFINE d == DrainPendingKeys(kbd, pending_keys)
  <2>1. /\ kbd' = d.kbd /\ BufferEmpty(d.kbd) /\ FinishTypeInjection(kbd')
    BY <1>1, <1>4 DEF FrameTypes, StillWaiting
  <2>2. pending_keys' = <<>> /\ kbd'.buffer = <<>>
    BY <2>1 DEF FinishTypeInjection, BufferEmpty
  <2>3. kbd' \in Bounded /\ due' = Typed(kbd') \o StrokesOf(<<>>)
    BY <1>1, <2>2 DEF KeysInv, KeysType
  <2>4. Len(Typed(kbd')) <= 1
    BY <2>2, <2>3, OneTyped
  <2>5. Typed(kbd') \o <<>> = Typed(kbd')
    <3>1. Typed(kbd') \in Seq(KeyEvents)
      BY <2>3, HeldType DEF Bounded
    <3>2. QED
      BY <3>1, ConcatEmptySeq
  <2>6. QED
    BY <2>2, <2>3, <2>4, <2>5, StrokesOfEmpty
<1>5. QED
  BY <1>2, <1>3, <1>4

\* type comes back when the guest has taken all but the last key event, or at
\* the ceiling (DispatchFrame, ReapStalledWaits).
THEOREM TypeComesBackClean == Spec => TypeReturnsClean
<1>1. TypingInv /\ [Next]_vars =>
        [call.op = "type" /\ inside' => type_wall = 0 \/ (kbd'.buffer = <<>> /\ Len(due') <= 1)]_vars
  BY TypeReturns
<1>2. QED
  BY <1>1, TypingInvariance, PTL DEF Spec, TypeReturnsClean
=============================================================================
