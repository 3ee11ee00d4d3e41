-------------------------- MODULE PanicCatcherProofs --------------------------
(***************************************************************************)
(* Theorems about PanicCatcher, for any threads, installers of the hook,   *)
(* depth of nesting and number of panics.                                  *)
(***************************************************************************)
EXTENDS PanicCatcher, TLAPS, FiniteSetTheorems, SequenceTheorems

\* The catching frames of a stack.
CatchingIn(s) == {i \in 1..Len(s) : s[i] = "catching"}

\* They are finitely many, and none in an empty stack.
LEMMA CatchingFinite ==
  ASSUME NEW s \in Seq(Frame)
  PROVE  IsFiniteSet(CatchingIn(s)) /\ Cardinality(CatchingIn(s)) \in Nat
<1>1. IsFiniteSet(1..Len(s))
  BY FS_Interval
<1>2. CatchingIn(s) \in SUBSET (1..Len(s))
  BY DEF CatchingIn
<1> QED  BY <1>1, <1>2, FS_Subset, FS_CardinalityType

\* Entering a frame: one more if it catches.
LEMMA PushFrame ==
  ASSUME NEW s \in Seq(Frame)
  PROVE  /\ Append(s, "plain") \in Seq(Frame)
         /\ Append(s, "catching") \in Seq(Frame)
         /\ Cardinality(CatchingIn(Append(s, "plain"))) = Cardinality(CatchingIn(s))
         /\ Cardinality(CatchingIn(Append(s, "catching"))) = Cardinality(CatchingIn(s)) + 1
<1>1. CatchingIn(Append(s, "plain")) = CatchingIn(s)
  BY DEF CatchingIn
<1>2. CatchingIn(Append(s, "catching")) = CatchingIn(s) \cup {Len(s) + 1}
  BY DEF CatchingIn
<1>3. Len(s) + 1 \notin CatchingIn(s)
  BY DEF CatchingIn
<1>4. Cardinality(CatchingIn(s) \cup {Len(s) + 1}) = Cardinality(CatchingIn(s)) + 1
  BY <1>3, CatchingFinite, FS_AddElement
<1>5. Append(s, "plain") \in Seq(Frame) /\ Append(s, "catching") \in Seq(Frame)
  BY DEF Frame
<1> QED  BY <1>1, <1>2, <1>4, <1>5

\* Leaving the innermost frame: one less if it was catching, and there was one.
LEMMA PopFrame ==
  ASSUME NEW s \in Seq(Frame), s # << >>
  PROVE  LET r == SubSeq(s, 1, Len(s) - 1) IN
         /\ r \in Seq(Frame)
         /\ s[Len(s)] \in Frame
         /\ s[Len(s)] = "plain" => Cardinality(CatchingIn(r)) = Cardinality(CatchingIn(s))
         /\ s[Len(s)] = "catching" =>
              /\ Cardinality(CatchingIn(s)) > 0
              /\ Cardinality(CatchingIn(r)) = Cardinality(CatchingIn(s)) - 1
<1> DEFINE r == SubSeq(s, 1, Len(s) - 1)
<1>0. Len(s) \in Nat /\ Len(s) > 0
  BY EmptySeq
<1>1. r \in Seq(Frame) /\ Len(r) = Len(s) - 1 /\ \A i \in 1..Len(r) : r[i] = s[i]
  <2> DEFINE n == Len(s) - 1
  <2>1. n \in Nat /\ \A i \in 1..n : s[i] \in Frame
    BY <1>0
  <2>2. 1 \in Int /\ n \in Int
    BY <2>1
  <2> HIDE DEF n
  <2>3. /\ SubSeq(s, 1, n) \in Seq(Frame)
        /\ Len(SubSeq(s, 1, n)) = IF 1 <= n THEN n - 1 + 1 ELSE 0
        /\ \A i \in 1..(n - 1 + 1) : SubSeq(s, 1, n)[i] = s[1 + i - 1]
    BY <2>1, <2>2, SubSeqProperties
  <2>4. /\ Len(SubSeq(s, 1, n)) = n
        /\ \A i \in 1..n : SubSeq(s, 1, n)[i] = s[i]
    BY <2>1, <2>3
  <2> QED  BY <2>3, <2>4 DEF n
<1>2. Len(s) \in 1..Len(s) /\ s[Len(s)] \in Frame
  BY <1>0
<1> HIDE DEF r
<1>3. ASSUME s[Len(s)] = "plain"
      PROVE  Cardinality(CatchingIn(r)) = Cardinality(CatchingIn(s))
  <2>1. CatchingIn(r) = CatchingIn(s)
    BY <1>1, <1>2, <1>3 DEF CatchingIn
  <2> QED  BY <2>1
<1>4. ASSUME s[Len(s)] = "catching"
      PROVE  /\ Cardinality(CatchingIn(s)) > 0
             /\ Cardinality(CatchingIn(r)) = Cardinality(CatchingIn(s)) - 1
  <2>1. CatchingIn(r) = CatchingIn(s) \ {Len(s)}
    BY <1>1, <1>2 DEF CatchingIn
  <2>2. Len(s) \in CatchingIn(s)
    BY <1>2, <1>4 DEF CatchingIn
  <2>3. Cardinality(CatchingIn(r)) = Cardinality(CatchingIn(s)) - 1
    BY <2>1, <2>2, CatchingFinite, FS_RemoveElement
  <2>4. Cardinality(CatchingIn(s)) > 0
    BY <2>3, <1>1, CatchingFinite
  <2> QED  BY <2>3, <2>4
<1> QED  BY <1>1, <1>2, <1>3, <1>4 DEF r

\* No catching frame, no level, and the other way round.
LEMMA LevelZero ==
  ASSUME TypeOK, LevelCountsFrames, NEW t \in Threads
  PROVE  level[t] = 0 <=> Catching(t) = {}
<1>1. frames[t] \in Seq(Frame) /\ Catching(t) = CatchingIn(frames[t])
  BY DEF TypeOK, Catching, CatchingIn
<1>2. level[t] = Cardinality(Catching(t))
  BY DEF LevelCountsFrames
<1> QED  BY <1>1, <1>2, CatchingFinite, FS_EmptySet

-----------------------------------------------------------------------------
\* The initial state satisfies the invariant.
LEMMA InvInit == Init => IInv
<1> SUFFICES ASSUME Init PROVE IInv
  OBVIOUS
<1>1. TypeOK
  <2>1. frames \in [Threads -> Seq(Frame)]
    BY EmptySeq DEF Init
  <2>2. /\ enabled \in [Threads -> BOOLEAN] /\ level \in [Threads -> Nat]
        /\ fallback_mode \in [Threads -> {"Continue", "Abort"}]
        /\ backtrace \in [Threads -> Nat]
    BY DEF Init
  <2>3. /\ hook_set \in BOOLEAN /\ hook \in Nat /\ taken \in [Threads -> Nat]
        /\ pc \in [Threads -> {"load", "take", "set", "store", "done"}]
    BY DEF Init
  <2>4. /\ status \in [Threads -> {"running", "unwinding", "dead"}]
        /\ panics \in [Threads -> Nat]
        /\ caught \in [Threads -> [panic : Nat, message : Nat, hooked : BOOLEAN]]
        /\ aborted \in Threads \cup {NoThread}
    BY DEF Init
  <2> QED  BY <2>1, <2>2, <2>3, <2>4 DEF TypeOK
<1>2. \A t \in Threads : Catching(t) = {}
  BY DEF Init, Catching
<1>3. LevelCountsFrames
  BY <1>2, FS_EmptySet DEF Init, LevelCountsFrames
<1> QED  BY <1>1, <1>3 DEF Init, IInv, AbortIsUncaught

\* stop_catching under a frame that catches: the subtraction is never refused.
LEMMA StopsCatching ==
  ASSUME IInv, NEW t \in Threads, frames[t] # << >>, Innermost(t) = "catching",
         StopCatching(t)
  PROVE  level' = [level EXCEPT ![t] = @ - 1] /\ level[t] > 0 /\ UNCHANGED aborted
<1>1. frames[t] \in Seq(Frame) /\ Catching(t) = CatchingIn(frames[t])
  BY DEF IInv, TypeOK, Catching, CatchingIn
<1>2. level[t] = Cardinality(CatchingIn(frames[t])) /\ level[t] \in Nat
  BY <1>1 DEF IInv, TypeOK, LevelCountsFrames
<1>3. level[t] > 0
  BY <1>1, <1>2, PopFrame DEF Innermost
<1> QED  BY <1>3 DEF StopCatching

\* A step that moves one thread's level and frames together keeps the count.
LEMMA LevelMoves ==
  ASSUME IInv, NEW t \in Threads, NEW n \in Nat, NEW s \in Seq(Frame),
         level' = [level EXCEPT ![t] = n], frames' = [frames EXCEPT ![t] = s],
         n = Cardinality(CatchingIn(s))
  PROVE  LevelCountsFrames'
<1> SUFFICES ASSUME NEW u \in Threads PROVE level'[u] = Cardinality(Catching(u)')
  BY DEF LevelCountsFrames
<1>1. Catching(u)' = CatchingIn(frames'[u]) /\ Catching(u) = CatchingIn(frames[u])
  BY DEF Catching, CatchingIn
<1>2. CASE u = t
  BY <1>1, <1>2 DEF IInv, TypeOK
<1>3. CASE u # t
  <2>1. level'[u] = level[u] /\ frames'[u] = frames[u]
    BY <1>3 DEF IInv, TypeOK
  <2> QED  BY <1>1, <2>1 DEF IInv, LevelCountsFrames
<1> QED  BY <1>2, <1>3

-----------------------------------------------------------------------------
\* Every step keeps the state well typed.
LEMMA TypeStep == IInv /\ [Next]_vars => TypeOK'
<1> SUFFICES ASSUME IInv, [Next]_vars PROVE TypeOK'
  OBVIOUS
<1> TypeOK
  BY DEF IInv
<1>1. ASSUME NEW t \in Threads, NEW b \in BOOLEAN, SetEnabled(t, b) PROVE TypeOK'
  BY <1>1 DEF TypeOK, SetEnabled, install
<1>2. ASSUME NEW t \in Threads, NEW m \in {"Continue", "Abort"}, SetFallbackMode(t, m)
      PROVE  TypeOK'
  BY <1>2 DEF TypeOK, SetFallbackMode, install
<1>3. ASSUME NEW t \in Threads, StartCatching(t) PROVE TypeOK'
  <2>1. /\ Append(frames[t], "plain") \in Seq(Frame)
        /\ Append(frames[t], "catching") \in Seq(Frame)
    BY PushFrame DEF TypeOK
  <2>2. level' \in [Threads -> Nat]
    <3>1. level \in [Threads -> Nat]
      BY DEF TypeOK
    <3>2. level' = level \/ level' = [level EXCEPT ![t] = level[t] + 1]
      BY <1>3 DEF StartCatching
    <3> QED  BY <3>1, <3>2
  <2>3. \/ frames' = [frames EXCEPT ![t] = Append(frames[t], "plain")]
        \/ frames' = [frames EXCEPT ![t] = Append(frames[t], "catching")]
    BY <1>3 DEF StartCatching
  <2>4. frames' \in [Threads -> Seq(Frame)]
    BY <2>1, <2>3 DEF TypeOK
  <2> QED  BY <1>3, <2>2, <2>4 DEF TypeOK, StartCatching, install
<1>4. ASSUME NEW t \in Threads, frames[t] # << >>, DropFrame(t)
      PROVE  frames' \in [Threads -> Seq(Frame)]
  <2>1. SubSeq(frames[t], 1, Len(frames[t]) - 1) \in Seq(Frame)
    BY <1>4, PopFrame DEF TypeOK
  <2> QED  BY <1>4, <2>1 DEF TypeOK, DropFrame
<1>5. ASSUME NEW t \in Threads, StopCatching(t)
      PROVE  level' \in [Threads -> Nat] /\ aborted' \in Threads \cup {NoThread}
  BY <1>5 DEF TypeOK, StopCatching
<1>6. ASSUME NEW t \in Threads, Return(t) PROVE TypeOK'
  <2>1. frames' \in [Threads -> Seq(Frame)]
    BY <1>4, <1>6 DEF Return
  <2>2. level' \in [Threads -> Nat] /\ aborted' \in Threads \cup {NoThread}
    BY <1>5, <1>6 DEF Return, TypeOK
  <2> QED  BY <1>6, <2>1, <2>2 DEF TypeOK, Return, install
<1>7. ASSUME NEW t \in Threads, Panic(t) PROVE TypeOK'
  <2>1. panics' \in [Threads -> Nat]
    <3>1. panics \in [Threads -> Nat]
      BY DEF TypeOK
    <3>2. panics' = [panics EXCEPT ![t] = @ + 1]
      BY <1>7 DEF Panic
    <3> QED  BY <3>1, <3>2
  <2>2. backtrace' \in [Threads -> Nat] /\ aborted' \in Threads \cup {NoThread}
    BY <1>7, <2>1 DEF TypeOK, Panic, RunHook
  <2>3. status' \in [Threads -> {"running", "unwinding", "dead"}]
    BY <1>7 DEF TypeOK, Panic
  <2>4. caught' \in [Threads -> [panic : Nat, message : Nat, hooked : BOOLEAN]]
    BY <1>7 DEF TypeOK, Panic
  <2> QED  BY <1>7, <2>1, <2>2, <2>3, <2>4 DEF TypeOK, Panic, install
<1>8. ASSUME NEW t \in Threads, Die(t) PROVE TypeOK'
  BY <1>8 DEF TypeOK, Die, locals, install
<1>9. ASSUME NEW t \in Threads, Unwind(t) PROVE TypeOK'
  BY <1>4, <1>9 DEF TypeOK, Unwind, locals, install
<1>10. ASSUME NEW t \in Threads, Catch(t) PROVE TypeOK'
  <2>1. frames' \in [Threads -> Seq(Frame)]
    BY <1>4, <1>10 DEF Catch
  <2>2. level' \in [Threads -> Nat] /\ aborted' \in Threads \cup {NoThread}
    BY <1>5, <1>10 DEF Catch
  <2>3. /\ status' \in [Threads -> {"running", "unwinding", "dead"}]
        /\ caught' \in [Threads -> [panic : Nat, message : Nat, hooked : BOOLEAN]]
    BY <1>10 DEF TypeOK, Catch
  <2> QED  BY <1>10, <2>1, <2>2, <2>3 DEF TypeOK, Catch, install
<1>11. ASSUME NEW t \in Threads,
              LoadHookSet(t) \/ TakeHook(t) \/ SetHook(t) \/ StoreHookSet(t)
       PROVE  TypeOK'
  <2>1. UNCHANGED <<locals, frames, status, panics, caught, aborted>>
    BY <1>11 DEF LoadHookSet, TakeHook, SetHook, StoreHookSet, Goto
  <2>2. pc' \in [Threads -> {"load", "take", "set", "store", "done"}]
    BY <1>11 DEF TypeOK, LoadHookSet, TakeHook, SetHook, StoreHookSet, Goto
  <2>3. hook_set' \in BOOLEAN
    BY <1>11 DEF TypeOK, LoadHookSet, TakeHook, SetHook, StoreHookSet
  <2>4. hook' \in Nat
    BY <1>11 DEF TypeOK, LoadHookSet, TakeHook, SetHook, StoreHookSet
  <2>5. taken' \in [Threads -> Nat]
    <3>1. UNCHANGED taken \/ taken' = [taken EXCEPT ![t] = hook]
      BY <1>11 DEF LoadHookSet, TakeHook, SetHook, StoreHookSet
    <3> QED  BY <3>1 DEF TypeOK
  <2> QED  BY <2>1, <2>2, <2>3, <2>4, <2>5 DEF TypeOK, locals
<1>12. CASE UNCHANGED vars
  BY <1>12 DEF TypeOK, vars, locals, install
<1> QED
  BY <1>1, <1>2, <1>3, <1>6, <1>7, <1>8, <1>9, <1>10, <1>11, <1>12 DEF Next

\* Every step keeps the level equal to the number of catching frames.
LEMMA LevelStep == IInv /\ [Next]_vars => LevelCountsFrames'
<1> SUFFICES ASSUME IInv, [Next]_vars PROVE LevelCountsFrames'
  OBVIOUS
<1>1. ASSUME UNCHANGED <<level, frames>> PROVE LevelCountsFrames'
  BY <1>1 DEF IInv, LevelCountsFrames, Catching
<1>2. ASSUME NEW t \in Threads
      PROVE  /\ frames[t] \in Seq(Frame)
             /\ level[t] \in Nat
             /\ level[t] = Cardinality(CatchingIn(frames[t]))
             /\ level = [level EXCEPT ![t] = level[t]]
  BY DEF IInv, TypeOK, LevelCountsFrames, Catching, CatchingIn
<1>3. ASSUME NEW t \in Threads, StartCatching(t) PROVE LevelCountsFrames'
  <2>1. CASE enabled[t]
    <3>1. /\ level' = [level EXCEPT ![t] = level[t] + 1]
          /\ frames' = [frames EXCEPT ![t] = Append(frames[t], "catching")]
      BY <1>3, <2>1 DEF StartCatching
    <3> DEFINE s == Append(frames[t], "catching")
    <3>2. s \in Seq(Frame) /\ level[t] + 1 \in Nat /\ level[t] + 1 = Cardinality(CatchingIn(s))
      BY <1>2, PushFrame
    <3> HIDE DEF s
    <3>3. frames' = [frames EXCEPT ![t] = s]
      BY <3>1 DEF s
    <3> QED  BY <3>1, <3>2, <3>3, LevelMoves
  <2>2. CASE ~enabled[t]
    <3>1. /\ level' = level
          /\ frames' = [frames EXCEPT ![t] = Append(frames[t], "plain")]
      BY <1>3, <2>2 DEF StartCatching
    <3> DEFINE s == Append(frames[t], "plain")
    <3>2. s \in Seq(Frame) /\ level[t] = Cardinality(CatchingIn(s))
      BY <1>2, PushFrame
    <3> HIDE DEF s
    <3>3. frames' = [frames EXCEPT ![t] = s] /\ level' = [level EXCEPT ![t] = level[t]]
      BY <3>1, <1>2 DEF s
    <3> QED  BY <3>2, <3>3, <1>2, LevelMoves
  <2> QED  BY <2>1, <2>2
<1>4. ASSUME NEW t \in Threads, frames[t] # << >>, DropFrame(t), Innermost(t) = "catching",
             StopCatching(t)
      PROVE  LevelCountsFrames'
  <2>1. level' = [level EXCEPT ![t] = level[t] - 1] /\ level[t] > 0
    BY <1>4, StopsCatching
  <2>2. frames' = [frames EXCEPT ![t] = SubSeq(frames[t], 1, Len(frames[t]) - 1)]
    BY <1>4 DEF DropFrame
  <2>3. frames[t][Len(frames[t])] = "catching"
    BY <1>4 DEF Innermost
  <2>4. level[t] - 1 \in Nat
    BY <1>2, <2>1
  <2> QED  BY <2>1, <2>2, <2>3, <2>4, <1>2, <1>4, PopFrame, LevelMoves
<1>5. ASSUME NEW t \in Threads, frames[t] # << >>, DropFrame(t), Innermost(t) = "plain",
             UNCHANGED level
      PROVE  LevelCountsFrames'
  <2> DEFINE s == SubSeq(frames[t], 1, Len(frames[t]) - 1)
  <2>1. frames' = [frames EXCEPT ![t] = s]
    BY <1>5 DEF DropFrame
  <2>2. frames[t][Len(frames[t])] = "plain" /\ level' = [level EXCEPT ![t] = level[t]]
    BY <1>2, <1>5 DEF Innermost
  <2>3. s \in Seq(Frame) /\ level[t] = Cardinality(CatchingIn(s))
    BY <1>2, <1>5, <2>2, PopFrame
  <2> HIDE DEF s
  <2> QED  BY <2>1, <2>2, <2>3, <1>2, LevelMoves
<1>6. ASSUME NEW t \in Threads, Return(t) PROVE LevelCountsFrames'
  <2>1. Innermost(t) = "plain" \/ Innermost(t) = "catching"
    BY <1>2, <1>6, PopFrame DEF Return, Innermost, Frame
  <2> QED  BY <1>4, <1>5, <1>6, <2>1 DEF Return
<1>7. ASSUME NEW t \in Threads, Unwind(t) PROVE LevelCountsFrames'
  BY <1>5, <1>7 DEF Unwind, locals
<1>8. ASSUME NEW t \in Threads, Catch(t) PROVE LevelCountsFrames'
  BY <1>4, <1>8 DEF Catch
<1>9. ASSUME NEW t \in Threads, NEW b \in BOOLEAN, SetEnabled(t, b) PROVE LevelCountsFrames'
  BY <1>1, <1>9 DEF SetEnabled
<1>10. ASSUME NEW t \in Threads, NEW m \in {"Continue", "Abort"}, SetFallbackMode(t, m)
       PROVE  LevelCountsFrames'
  BY <1>1, <1>10 DEF SetFallbackMode
<1>11. ASSUME NEW t \in Threads, Panic(t) \/ Die(t) PROVE LevelCountsFrames'
  BY <1>1, <1>11 DEF Panic, Die, locals
<1>12. ASSUME NEW t \in Threads,
              LoadHookSet(t) \/ TakeHook(t) \/ SetHook(t) \/ StoreHookSet(t)
       PROVE  LevelCountsFrames'
  BY <1>1, <1>12 DEF LoadHookSet, TakeHook, SetHook, StoreHookSet, Goto, locals
<1>13. CASE UNCHANGED vars
  BY <1>1, <1>13 DEF vars, locals
<1> QED
  BY <1>3, <1>6, <1>7, <1>8, <1>9, <1>10, <1>11, <1>12, <1>13 DEF Next

\* Every step keeps AbortIsUncaught: only the hook aborts, and after an abort
\* nothing steps.
LEMMA AbortStep == IInv /\ [Next]_vars => AbortIsUncaught'
<1> SUFFICES ASSUME IInv, [Next]_vars PROVE AbortIsUncaught'
  OBVIOUS
<1>1. ASSUME aborted' = NoThread PROVE AbortIsUncaught'
  BY <1>1 DEF AbortIsUncaught
<1>2. ASSUME NEW t \in Threads, Panic(t) PROVE AbortIsUncaught'
  <2>1. CASE UNCHANGED aborted
    BY <1>1, <1>2, <2>1 DEF Panic, Runs
  <2>2. CASE ~HookRecords(t) /\ fallback_mode[t] = "Abort" /\ aborted' = t
    <3>1. level[t] = 0
      BY <2>2 DEF IInv, TypeOK, HookRecords
    <3>2. Catching(t) = {}
      BY <3>1, LevelZero DEF IInv
    <3>3. UNCHANGED <<frames, fallback_mode>>
      BY <1>2 DEF Panic
    <3> QED  BY <2>2, <3>2, <3>3 DEF AbortIsUncaught, Catching
  <2> QED  BY <1>2, <2>1, <2>2 DEF Panic, RunHook
<1>3. ASSUME NEW t \in Threads, Return(t) PROVE AbortIsUncaught'
  <2>1. aborted = NoThread /\ frames[t] # << >>
    BY <1>3 DEF Return, Runs
  <2>2. UNCHANGED aborted
    BY <1>3, <2>1, StopsCatching DEF Return
  <2> QED  BY <1>1, <2>1, <2>2
<1>4. ASSUME NEW t \in Threads, Catch(t) PROVE AbortIsUncaught'
  <2>1. aborted = NoThread /\ UNCHANGED aborted
    BY <1>4, StopsCatching DEF Catch
  <2> QED  BY <1>1, <2>1
<1>5. ASSUME NEW t \in Threads,
             \/ \E b \in BOOLEAN : SetEnabled(t, b)
             \/ \E m \in {"Continue", "Abort"} : SetFallbackMode(t, m)
             \/ StartCatching(t) \/ Die(t) \/ Unwind(t)
             \/ LoadHookSet(t) \/ TakeHook(t) \/ SetHook(t) \/ StoreHookSet(t)
      PROVE  AbortIsUncaught'
  <2>1. aborted = NoThread /\ UNCHANGED aborted
    BY <1>5 DEF SetEnabled, SetFallbackMode, StartCatching, Die, Unwind, LoadHookSet,
                TakeHook, SetHook, StoreHookSet, Runs, At, Goto
  <2> QED  BY <1>1, <2>1
<1>6. CASE UNCHANGED vars
  BY <1>6 DEF IInv, AbortIsUncaught, Catching, vars, locals
<1> QED  BY <1>2, <1>3, <1>4, <1>5, <1>6 DEF Next

\* The invariant is inductive.
LEMMA InvStep == IInv /\ [Next]_vars => IInv'
  BY TypeStep, LevelStep, AbortStep DEF IInv

-----------------------------------------------------------------------------
\* PanicCatcher's state stays well typed: in particular the level never wraps
\* below zero, and what is on a stack is a catch_panic call.
THEOREM TypeCorrect == Spec => []TypeOK
<1>1. IInv => TypeOK
  BY DEF IInv
<1> QED  BY <1>1, InvInit, InvStep, PTL DEF Spec

\* In every reachable state of every thread, PANIC_CATCHER_LEVEL is the number
\* of catch_panic calls on its stack that will catch: whatever was enabled and
\* disabled between them, however deep, and halfway through an unwinding.
THEOREM LevelAlwaysCountsFrames == Spec => []LevelCountsFrames
<1>1. IInv => LevelCountsFrames
  BY DEF IInv
<1> QED  BY <1>1, InvInit, InvStep, PTL DEF Spec

\* The process aborts only for a panic outside every catching frame of a thread
\* that asked for Abort: never in panic_catcher_stop_catching, whose checked_sub
\* would abort, and never for a panic that catch_panic was to return.
THEOREM AbortsAreUncaught == Spec => []AbortIsUncaught
<1>1. IInv => AbortIsUncaught
  BY DEF IInv
<1> QED  BY <1>1, InvInit, InvStep, PTL DEF Spec

-----------------------------------------------------------------------------
(***************************************************************************)
(* The hook and the messages, when panic_catcher_set_hook is called by one *)
(* thread of the program at most.  With two, an installer's take_hook puts *)
(* the default hook back while HOOK_SET is already true, and a panic then  *)
(* finds the backtrace of an earlier one: neither property holds.          *)
(***************************************************************************)
OneInstaller == \A s, t \in Installers : s = t

\* Until the installer has called set_hook there is no hook, and HOOK_SET is
\* false; from then on the hook stays.
HookFollowsInstaller ==
  /\ \A t \in Threads \ Installers : pc[t] = "done"
  /\ \A t \in Installers :
       /\ pc[t] \in {"load", "take", "set"} => hook = 0 /\ ~hook_set
       /\ pc[t] \in {"store", "done"} => hook > 0
  /\ hook_set => hook > 0

\* Only the hook records, and it records every panic that will be caught.
BacktraceIsCurrent ==
  /\ hook = 0 => \A t \in Threads : backtrace[t] = 0
  /\ \A t \in Threads :
       status[t] = "unwinding" /\ level[t] > 0 => backtrace[t] \in {panics[t], Unknown}

\* What catch_panic returned last keeps its message.
MessagesMatch == \A t \in Threads : caught[t].message \in {caught[t].panic, Unknown}

MessageInv == IInv /\ HookFollowsInstaller /\ BacktraceIsCurrent /\ MessagesMatch

\* The initial state satisfies it.
LEMMA MessageInit == Init => MessageInv
  BY InvInit, PanicAssumption
     DEF Init, MessageInv, HookFollowsInstaller, BacktraceIsCurrent, MessagesMatch, Unknown

\* The four steps of set_hook, taken by the only installer.
LEMMA HookStep ==
  ASSUME OneInstaller, MessageInv, [Next]_vars
  PROVE  HookFollowsInstaller' /\ (hook > 0 => hook' > 0)
<1> TypeOK /\ HookFollowsInstaller
  BY DEF MessageInv, IInv
<1>1. ASSUME UNCHANGED install PROVE HookFollowsInstaller' /\ (hook > 0 => hook' > 0)
  BY <1>1 DEF install, HookFollowsInstaller
<1>2. ASSUME NEW t \in Threads, pc[t] # "done"
      PROVE  t \in Installers /\ \A u \in Threads : u # t => u \notin Installers /\ pc[u] = "done"
  BY <1>2 DEF HookFollowsInstaller, OneInstaller
<1>3. ASSUME NEW t \in Threads, LoadHookSet(t)
      PROVE  HookFollowsInstaller' /\ (hook > 0 => hook' > 0)
  <2>1. pc[t] = "load" /\ UNCHANGED <<hook_set, hook>> /\ t \in Installers
    BY <1>2, <1>3 DEF LoadHookSet, At
  <2>2. ~hook_set /\ hook = 0
    BY <2>1 DEF HookFollowsInstaller
  <2>3. pc' = [pc EXCEPT ![t] = "take"]
    BY <1>3, <2>2 DEF LoadHookSet, Goto
  <2> QED  BY <1>2, <2>1, <2>2, <2>3, PanicAssumption DEF HookFollowsInstaller, TypeOK
<1>4. ASSUME NEW t \in Threads, TakeHook(t)
      PROVE  HookFollowsInstaller' /\ (hook > 0 => hook' > 0)
  <2>1. /\ pc[t] = "take" /\ UNCHANGED hook_set /\ hook' = 0 /\ t \in Installers
        /\ pc' = [pc EXCEPT ![t] = "set"]
    BY <1>2, <1>4 DEF TakeHook, At, Goto
  <2>2. ~hook_set /\ hook = 0
    BY <2>1 DEF HookFollowsInstaller
  <2> QED  BY <1>2, <2>1, <2>2, PanicAssumption DEF HookFollowsInstaller, TypeOK
<1>5. ASSUME NEW t \in Threads, SetHook(t)
      PROVE  HookFollowsInstaller' /\ (hook > 0 => hook' > 0)
  <2>1. /\ pc[t] = "set" /\ hook' = taken[t] + 1 /\ t \in Installers
        /\ pc' = [pc EXCEPT ![t] = "store"]
    BY <1>2, <1>5 DEF SetHook, At, Goto
  <2>2. hook' > 0
    BY <2>1 DEF TypeOK
  <2> QED  BY <1>2, <2>1, <2>2, PanicAssumption DEF HookFollowsInstaller, TypeOK
<1>6. ASSUME NEW t \in Threads, StoreHookSet(t)
      PROVE  HookFollowsInstaller' /\ (hook > 0 => hook' > 0)
  <2>1. /\ pc[t] = "store" /\ UNCHANGED hook /\ t \in Installers
        /\ pc' = [pc EXCEPT ![t] = "done"]
    BY <1>2, <1>6 DEF StoreHookSet, At, Goto
  <2>2. hook > 0
    BY <2>1 DEF HookFollowsInstaller
  <2> QED  BY <1>2, <2>1, <2>2, PanicAssumption DEF HookFollowsInstaller, TypeOK
<1>7. ASSUME NEW t \in Threads,
             \/ \E b \in BOOLEAN : SetEnabled(t, b)
             \/ \E m \in {"Continue", "Abort"} : SetFallbackMode(t, m)
             \/ StartCatching(t) \/ Return(t)
             \/ Panic(t) \/ Die(t) \/ Unwind(t) \/ Catch(t)
      PROVE  UNCHANGED install
  BY <1>7 DEF SetEnabled, SetFallbackMode, StartCatching, Return, Panic, Die, Unwind, Catch
<1>8. CASE UNCHANGED vars
  BY <1>1, <1>8 DEF vars
<1> QED  BY <1>1, <1>3, <1>4, <1>5, <1>6, <1>7, <1>8 DEF Next

\* The hook records every panic inside a catching frame, and nothing else
\* writes the backtrace.
LEMMA BacktraceStep ==
  ASSUME OneInstaller, MessageInv, [Next]_vars
  PROVE  BacktraceIsCurrent'
<1> TypeOK /\ BacktraceIsCurrent
  BY DEF MessageInv, IInv
<1>1. hook > 0 => hook' > 0
  BY HookStep
<1>2. hook \in Nat /\ hook' \in Nat
  BY TypeStep DEF TypeOK, MessageInv
\* Steps that record nothing and start no unwinding.
<1>3. ASSUME UNCHANGED <<backtrace, panics>>,
             \A t \in Threads :
               status'[t] = "unwinding" /\ level'[t] > 0 => status[t] = "unwinding" /\ level[t] > 0
      PROVE  BacktraceIsCurrent'
  BY <1>1, <1>2, <1>3 DEF BacktraceIsCurrent
<1>4. ASSUME NEW t \in Threads, Panic(t) PROVE BacktraceIsCurrent'
  <2>1. /\ UNCHANGED <<hook, level>>
        /\ status' = [status EXCEPT ![t] = "unwinding"]
        /\ panics' = [panics EXCEPT ![t] = panics[t] + 1]
    BY <1>4 DEF Panic, install
  <2>2. CASE hook > 0 /\ level[t] > 0 /\ backtrace' = [backtrace EXCEPT ![t] = panics'[t]]
    BY <2>1, <2>2 DEF BacktraceIsCurrent, TypeOK
  <2>3. CASE hook = 0 /\ UNCHANGED backtrace
    BY <2>1, <2>3 DEF BacktraceIsCurrent, TypeOK, Unknown
  <2>4. CASE hook > 0 /\ ~(level[t] > 0) /\ UNCHANGED backtrace
    BY <2>1, <2>4 DEF BacktraceIsCurrent, TypeOK
  <2> QED  BY <1>2, <1>4, <2>2, <2>3, <2>4 DEF Panic, RunHook, HookRecords
<1>5. ASSUME NEW t \in Threads, status[t] = "running", status' = status,
             UNCHANGED <<backtrace, panics>>,
             UNCHANGED level \/ \E n \in Int : level' = [level EXCEPT ![t] = n]
      PROVE  BacktraceIsCurrent'
  BY <1>3, <1>5 DEF TypeOK
<1>6. ASSUME NEW t \in Threads, StartCatching(t) \/ Return(t) PROVE BacktraceIsCurrent'
  <2>1. status[t] = "running" /\ status' = status /\ UNCHANGED <<backtrace, panics>>
    BY <1>6 DEF StartCatching, Return, Runs
  <2>2. level[t] \in Int /\ level[t] + 1 \in Int /\ level[t] - 1 \in Int
    BY DEF TypeOK
  <2>3. \/ UNCHANGED level
        \/ level' = [level EXCEPT ![t] = level[t] + 1]
        \/ level' = [level EXCEPT ![t] = level[t] - 1]
    BY <1>6 DEF StartCatching, Return, StopCatching
  <2> QED  BY <1>5, <2>1, <2>2, <2>3
<1>7. ASSUME NEW t \in Threads, Catch(t) PROVE BacktraceIsCurrent'
  <2>1. status' = [status EXCEPT ![t] = "running"] /\ UNCHANGED <<backtrace, panics>>
    BY <1>7 DEF Catch
  <2>2. \A u \in Threads : u # t => level'[u] = level[u]
    BY <1>7 DEF Catch, StopCatching, TypeOK
  <2> QED  BY <1>3, <2>1, <2>2 DEF TypeOK
<1>8. ASSUME NEW t \in Threads, Die(t) \/ Unwind(t) PROVE BacktraceIsCurrent'
  <2>1. UNCHANGED <<level, backtrace, panics>>
    BY <1>8 DEF Die, Unwind, locals
  <2>2. status' = status \/ status' = [status EXCEPT ![t] = "dead"]
    BY <1>8 DEF Die, Unwind
  <2> QED  BY <1>3, <2>1, <2>2 DEF TypeOK
<1>9. ASSUME NEW t \in Threads,
             \/ \E b \in BOOLEAN : SetEnabled(t, b)
             \/ \E m \in {"Continue", "Abort"} : SetFallbackMode(t, m)
             \/ LoadHookSet(t) \/ TakeHook(t) \/ SetHook(t) \/ StoreHookSet(t)
      PROVE  BacktraceIsCurrent'
  <2>1. UNCHANGED <<level, backtrace, status, panics>>
    BY <1>9 DEF SetEnabled, SetFallbackMode, LoadHookSet, TakeHook, SetHook, StoreHookSet,
                Goto, locals
  <2> QED  BY <1>3, <2>1
<1>10. CASE UNCHANGED vars
  BY <1>3, <1>10 DEF vars, locals
<1> QED  BY <1>4, <1>6, <1>7, <1>8, <1>9, <1>10 DEF Next

\* catch_panic reads the backtrace under a frame that catches.
LEMMA MessageStep ==
  ASSUME MessageInv, [Next]_vars
  PROVE  MessagesMatch'
<1> IInv /\ TypeOK /\ BacktraceIsCurrent /\ MessagesMatch
  BY DEF MessageInv, IInv
<1>1. ASSUME \A t \in Threads : caught'[t].message = caught[t].message
                                /\ caught'[t].panic = caught[t].panic
      PROVE  MessagesMatch'
  BY <1>1 DEF MessagesMatch
<1>2. ASSUME NEW t \in Threads, Catch(t) PROVE MessagesMatch'
  <2>1. level[t] > 0 /\ status[t] = "unwinding"
    BY <1>2, StopsCatching DEF Catch
  <2>2. backtrace[t] \in {panics[t], Unknown}
    BY <2>1 DEF BacktraceIsCurrent
  <2>3. caught' = [caught EXCEPT ![t].panic = panics[t], ![t].message = backtrace[t]]
    BY <1>2 DEF Catch
  <2>4. caught'[t].panic = panics[t] /\ caught'[t].message = backtrace[t]
    BY <2>3 DEF TypeOK
  <2>5. \A u \in Threads : u # t => caught'[u] = caught[u]
    BY <2>3 DEF TypeOK
  <2> QED  BY <2>2, <2>4, <2>5 DEF MessagesMatch
<1>3. ASSUME NEW t \in Threads, Panic(t) PROVE MessagesMatch'
  <2>1. caught' = [caught EXCEPT ![t].hooked = hook_set]
    BY <1>3 DEF Panic
  <2> QED  BY <1>1, <2>1 DEF TypeOK
<1>4. ASSUME NEW t \in Threads,
             \/ \E b \in BOOLEAN : SetEnabled(t, b)
             \/ \E m \in {"Continue", "Abort"} : SetFallbackMode(t, m)
             \/ StartCatching(t) \/ Return(t) \/ Die(t) \/ Unwind(t)
             \/ LoadHookSet(t) \/ TakeHook(t) \/ SetHook(t) \/ StoreHookSet(t)
      PROVE  MessagesMatch'
  <2>1. UNCHANGED caught
    BY <1>4 DEF SetEnabled, SetFallbackMode, StartCatching, Return, Die, Unwind, LoadHookSet,
                TakeHook, SetHook, StoreHookSet, Goto
  <2> QED  BY <1>1, <2>1
<1>5. CASE UNCHANGED vars
  BY <1>1, <1>5 DEF vars
<1> QED  BY <1>2, <1>3, <1>4, <1>5 DEF Next

\* The strengthened invariant is inductive when one thread installs.
LEMMA MessageInvStep == OneInstaller /\ MessageInv /\ [Next]_vars => MessageInv'
  BY HookStep, BacktraceStep, MessageStep, InvStep DEF MessageInv

\* With one installer, HOOK_SET means what panic_catcher_set_hook's doc says:
\* the panic hook is registered, and no take_hook unregisters it later.
THEOREM RegisteredHookStays ==
  ASSUME OneInstaller
  PROVE  Spec => []RegisteredHookIsInstalled
<1>1. MessageInv => RegisteredHookIsInstalled
  BY DEF MessageInv, HookFollowsInstaller, RegisteredHookIsInstalled
<1>2. MessageInv /\ [Next]_vars => MessageInv'
  BY MessageInvStep
<1> QED  BY <1>1, <1>2, MessageInit, PTL DEF Spec

\* With one installer, the message that catch_panic returns is that of the panic
\* it caught or "<unknown>", whatever panics the thread had and dropped before,
\* and whenever the hook was installed relative to them.
THEOREM MessagesAreOfTheirPanic ==
  ASSUME OneInstaller
  PROVE  Spec => []MessageIsOfThisPanic
<1>1. MessageInv => MessageIsOfThisPanic
  BY DEF MessageInv, MessagesMatch, MessageIsOfThisPanic
<1>2. MessageInv /\ [Next]_vars => MessageInv'
  BY MessageInvStep
<1> QED  BY <1>1, <1>2, MessageInit, PTL DEF Spec
=============================================================================
