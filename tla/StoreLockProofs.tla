---------------------------- MODULE StoreLockProofs ----------------------------
(***************************************************************************)
(* For any threads, stores, workloads and depth of calls: the store is     *)
(* written under nobody's guard, and when every thread waits for a lock,   *)
(* one of them waits inside a guard for another.                           *)
(***************************************************************************)
EXTENDS StoreLock, SequenceTheorems, TLAPS

\* Where a task has guards, and how many.
Outside == {"peek", "request", "write", "hold", "done"}
InCall  == {"argument", "nested", "close"}
InEntry == {"type", "optional", "second", "release"}

\* WRITER_BIT is set by the one thread that is between RwLock::write's two steps.
WriterBits ==
  /\ \A s \in Stores : writer_bit[s] # NoThread =>
       pc[writer_bit[s]] = "write" /\ home[writer_bit[s]] = s
  /\ \A t \in Threads : pc[t] = "write" => writer_bit[home[t]] = t

GuardsFollowCalls ==
  \A t \in Threads :
    /\ pc[t] \in Outside => guards[t] = << >>
    /\ pc[t] \in InCall  => Len(guards[t]) > 0
    /\ pc[t] \in InEntry => Len(guards[t]) = 1

RoundsLeft ==
  \A t \in Threads : pc[t] \notin {"close", "done"} => left[t] > 0

\* Which steps belong to which task.
TaskLabels ==
  \A t \in Threads : pc[t] = "second" => task[t] = "compare"

LockInv == TypeOK /\ WriterBits /\ GuardsFollowCalls /\ RoundsLeft /\ TaskLabels

LEMMA InitInv == Init => LockInv
<1> SUFFICES ASSUME Init PROVE LockInv
  OBVIOUS
<1> USE DEF Init
<1>1. task \in [Threads -> Tasks]
  BY StoreLockAssumption
<1>2. \A t \in Threads : FirstLabel(task[t]) \in {"peek", "hold"}
  BY DEF FirstLabel
<1>3. TypeOK
  BY <1>2, StoreLockAssumption DEF TypeOK, Labels
<1>4. WriterBits
  BY <1>2 DEF WriterBits
<1>5. GuardsFollowCalls /\ RoundsLeft /\ TaskLabels
  BY <1>2, StoreLockAssumption DEF GuardsFollowCalls, RoundsLeft, TaskLabels, Outside, InCall, InEntry
<1> QED  BY <1>3, <1>4, <1>5 DEF LockInv

-----------------------------------------------------------------------------
\* A step moves one thread: to a label, with rounds left and guards that go with it.
Moves(t, label, n, g) ==
  /\ label \in Labels /\ n \in 0..Rounds /\ g \in Seq(Stores)
  /\ pc' = [pc EXCEPT ![t] = label]
  /\ left' = [left EXCEPT ![t] = n]
  /\ guards' = [guards EXCEPT ![t] = g]
  /\ UNCHANGED <<task, home>>
  /\ label \notin {"close", "done"} => n > 0
  /\ label = "second" => task[t] = "compare"
  /\ label \in Outside => g = << >>
  /\ label \in InCall  => Len(g) > 0
  /\ label \in InEntry => Len(g) = 1

LEMMA MovesKeep ==
  ASSUME LockInv, NEW t \in Threads, NEW l, NEW n, NEW g, Moves(t, l, n, g),
         writer_bit' \in [Stores -> Threads \cup {NoThread}], WriterBits'
  PROVE  LockInv'
<1> USE DEF LockInv, Moves
<1>1. \A u \in Threads :
        /\ pc'[u] = IF u = t THEN l ELSE pc[u]
        /\ left'[u] = IF u = t THEN n ELSE left[u]
        /\ guards'[u] = IF u = t THEN g ELSE guards[u]
  BY DEF TypeOK
<1>2. TypeOK'
  BY DEF TypeOK
<1>3. GuardsFollowCalls'
  BY <1>1 DEF GuardsFollowCalls
<1>4. RoundsLeft'
  BY <1>1 DEF RoundsLeft
<1>5. TaskLabels'
  BY <1>1 DEF TaskLabels
<1> QED  BY <1>2, <1>3, <1>4, <1>5

\* Nobody else's bit is set or cleared.
LEMMA BitsKept ==
  ASSUME LockInv, NEW t \in Threads, NEW l, NEW n, NEW g, Moves(t, l, n, g),
         UNCHANGED writer_bit, pc[t] # "write", l # "write"
  PROVE  WriterBits'
<1>1. \A u \in Threads : pc'[u] = "write" <=> pc[u] = "write"
  BY DEF LockInv, TypeOK, Moves
<1>2. \A s \in Stores : writer_bit[s] # NoThread => writer_bit[s] \in Threads
  BY DEF LockInv, TypeOK
<1>3. home' = home /\ \A u \in Threads : home[u] \in Stores
  BY DEF LockInv, TypeOK, Moves
<1> QED  BY <1>1, <1>2, <1>3 DEF LockInv, WriterBits

LEMMA RequestWriteKeeps ==
  ASSUME LockInv, NEW t \in Threads, RequestWrite(t)
  PROVE  LockInv'
<1> USE DEF RequestWrite, At, Goto
<1>1. Moves(t, "write", left[t], guards[t])
  BY DEF Moves, LockInv, TypeOK, Labels, GuardsFollowCalls, RoundsLeft, Outside, InCall, InEntry
<1>2. writer_bit' \in [Stores -> Threads \cup {NoThread}]
  BY DEF LockInv, TypeOK
<1>3. ASSUME NEW s \in Stores, writer_bit'[s] # NoThread
      PROVE  pc'[writer_bit'[s]] = "write" /\ home'[writer_bit'[s]] = s
  <2>1. CASE s = home[t]
    BY <2>1 DEF LockInv, TypeOK
  <2>2. CASE s # home[t]
    <3>1. writer_bit'[s] = writer_bit[s] /\ writer_bit[s] \in Threads
      BY <1>3, <2>2 DEF LockInv, TypeOK
    <3>2. pc[writer_bit[s]] = "write" /\ home[writer_bit[s]] = s
      BY <1>3, <3>1 DEF LockInv, WriterBits
    <3> QED  BY <3>1, <3>2 DEF LockInv, TypeOK
  <2> QED  BY <2>1, <2>2
<1>4. ASSUME NEW u \in Threads, pc'[u] = "write" PROVE writer_bit'[home'[u]] = u
  <2>1. CASE u = t
    BY <2>1 DEF LockInv, TypeOK
  <2>2. CASE u # t
    <3>1. pc[u] = "write" /\ home[u] \in Stores /\ u # NoThread
      BY <1>4, <2>2, StoreLockAssumption DEF LockInv, TypeOK
    <3>2. writer_bit[home[u]] = u
      BY <3>1 DEF LockInv, WriterBits
    <3> QED  BY <3>1, <3>2 DEF LockInv, TypeOK
  <2> QED  BY <2>1, <2>2
<1> QED  BY <1>1, <1>2, <1>3, <1>4, MovesKeep DEF WriterBits

\* EndRound gives the next label and what is left.
LEMMA RoundEnds ==
  ASSUME LockInv, NEW t \in Threads, NEW again, EndRound(t, again),
         pc[t] \notin {"close", "done"}
  PROVE  \E l \in {again, "done"}, n \in 0..Rounds :
           /\ pc' = [pc EXCEPT ![t] = l] /\ left' = [left EXCEPT ![t] = n]
           /\ l # "done" => n > 0
<1>1. left[t] \in 0..Rounds /\ left[t] > 0
  BY DEF LockInv, TypeOK, RoundsLeft
<1>2. left[t] - 1 \in 0..Rounds
  BY <1>1, StoreLockAssumption
<1>3. left' = [left EXCEPT ![t] = left[t] - 1]
  BY DEF EndRound
<1>4. CASE left[t] > 1
  <2>1. pc' = [pc EXCEPT ![t] = again]
    BY <1>4 DEF EndRound, Goto
  <2>2. left[t] - 1 > 0
    BY <1>1, <1>4
  <2> QED  BY <1>2, <1>3, <2>1, <2>2
<1>5. CASE ~(left[t] > 1)
  <2>1. pc' = [pc EXCEPT ![t] = "done"]
    BY <1>5 DEF EndRound, Goto
  <2> QED  BY <1>2, <1>3, <2>1
<1> QED  BY <1>4, <1>5

LEMMA WriteKeeps ==
  ASSUME LockInv, NEW t \in Threads, Write(t)
  PROVE  LockInv'
<1> USE DEF Write, At
<1>1. pc[t] = "write" /\ guards[t] = << >>
  BY DEF LockInv, GuardsFollowCalls, Outside
<1>2. PICK l \in {"peek", "done"}, n \in 0..Rounds :
        /\ pc' = [pc EXCEPT ![t] = l] /\ left' = [left EXCEPT ![t] = n]
        /\ l # "done" => n > 0
  BY <1>1, RoundEnds
<1>3. Moves(t, l, n, guards[t])
  BY <1>1, <1>2 DEF Moves, LockInv, TypeOK, Labels, Outside, InCall, InEntry
<1>4. writer_bit' \in [Stores -> Threads \cup {NoThread}]
  BY DEF LockInv, TypeOK
<1>5. ASSUME NEW s \in Stores, writer_bit'[s] # NoThread
      PROVE  pc'[writer_bit'[s]] = "write" /\ home'[writer_bit'[s]] = s
  <2>1. s # home[t] /\ writer_bit'[s] = writer_bit[s] /\ writer_bit[s] \in Threads
    BY <1>5 DEF LockInv, TypeOK
  <2>2. pc[writer_bit[s]] = "write" /\ home[writer_bit[s]] = s
    BY <1>5, <2>1 DEF LockInv, WriterBits
  <2>3. writer_bit[s] # t
    BY <2>1, <2>2
  <2> QED  BY <1>2, <2>1, <2>2, <2>3 DEF LockInv, TypeOK
<1>6. ASSUME NEW u \in Threads, pc'[u] = "write" PROVE writer_bit'[home'[u]] = u
  <2>1. u # t /\ pc[u] = "write" /\ home[u] \in Stores /\ home' = home
    BY <1>2, <1>6 DEF LockInv, TypeOK
  <2>2. writer_bit[home[u]] = u /\ writer_bit[home[t]] = t
    BY <1>1, <2>1 DEF LockInv, WriterBits
  <2>3. home[u] # home[t]
    BY <2>1, <2>2
  <2> QED  BY <2>1, <2>2, <2>3 DEF LockInv, TypeOK
<1> QED  BY <1>3, <1>4, <1>5, <1>6, MovesKeep DEF WriterBits

-----------------------------------------------------------------------------
\* The readers' steps: they touch no WRITER_BIT.
ReaderMoves(t) ==
  /\ UNCHANGED writer_bit
  /\ pc[t] # "write"
  /\ \E l \in Labels \ {"write"}, n \in 0..Rounds, g \in Seq(Stores) : Moves(t, l, n, g)

LEMMA ReaderMovesKeep ==
  ASSUME LockInv, NEW t \in Threads, ReaderMoves(t) PROVE LockInv'
<1>1. PICK l \in Labels \ {"write"}, n \in 0..Rounds, g \in Seq(Stores) : Moves(t, l, n, g)
  BY DEF ReaderMoves
<1>2. WriterBits'
  BY <1>1, BitsKept DEF ReaderMoves
<1> QED  BY <1>1, <1>2, MovesKeep DEF ReaderMoves, LockInv, TypeOK

\* Taking a guard adds one, releasing it takes the latest away.
LEMMA AcquireAdds ==
  ASSUME LockInv, NEW t \in Threads, Acquire(t, home[t])
  PROVE  \E g \in Seq(Stores) : guards' = [guards EXCEPT ![t] = g] /\ Len(g) = Len(guards[t]) + 1
<1>1. guards[t] \in Seq(Stores) /\ home[t] \in Stores
  BY DEF LockInv, TypeOK
<1>2. /\ Append(guards[t], home[t]) \in Seq(Stores)
      /\ Len(Append(guards[t], home[t])) = Len(guards[t]) + 1
  BY <1>1
<1> QED  BY <1>2 DEF Acquire

LEMMA ReleaseDrops ==
  ASSUME LockInv, NEW t \in Threads, Release(t), Len(guards[t]) > 0
  PROVE  \E g \in Seq(Stores) : /\ guards' = [guards EXCEPT ![t] = g]
                                /\ Len(g) = Len(guards[t]) - 1
                                /\ Len(guards[t]) = 1 => g = << >>
<1> DEFINE s == guards[t]
           g == SubSeq(s, 1, Len(s) - 1)
<1>1. s \in Seq(Stores) /\ Len(s) \in Nat
  BY DEF LockInv, TypeOK
<1>2. g \in Seq(Stores) /\ Len(g) = Len(s) - 1
  BY <1>1, SubSeqProperties
<1>3. Len(s) = 1 => g = << >>
  BY <1>2, EmptySeq
<1> QED  BY <1>2, <1>3 DEF Release

LEMMA LenIsNat ==
  ASSUME LockInv, NEW t \in Threads
  PROVE  guards[t] \in Seq(Stores) /\ Len(guards[t]) \in Nat /\ left[t] \in 0..Rounds
  BY DEF LockInv, TypeOK

LEMMA LookupStep ==
  ASSUME LockInv, NEW t \in Threads, Lookup(t) \/ Check(t) PROVE ReaderMoves(t)
<1>1. pc[t] = "peek" /\ guards[t] = << >> /\ left[t] > 0
  BY DEF Lookup, Check, At, LockInv, GuardsFollowCalls, RoundsLeft, Outside
<1>2. CASE Lookup(t)
  <2>1. PICK l \in {"peek", "done"}, n \in 0..Rounds :
          /\ pc' = [pc EXCEPT ![t] = l] /\ left' = [left EXCEPT ![t] = n]
          /\ l # "done" => n > 0
    BY <1>1, <1>2, RoundEnds DEF Lookup
  <2>2. Moves(t, l, n, guards[t])
    BY <1>1, <1>2, <2>1, LenIsNat
       DEF Moves, Lookup, LockInv, TypeOK, Labels, Outside, InCall, InEntry
  <2> QED  BY <1>1, <1>2, <2>1, <2>2, LenIsNat DEF ReaderMoves, Lookup, Labels
<1>3. CASE Check(t)
  <2>1. Moves(t, "request", left[t], guards[t])
    BY <1>1, <1>3, LenIsNat
       DEF Moves, Check, Goto, LockInv, TypeOK, Labels, Outside, InCall, InEntry
  <2> QED  BY <1>1, <1>3, <2>1, LenIsNat DEF ReaderMoves, Check, Labels
<1> QED  BY <1>2, <1>3

\* The parser's next position in an argument list, under the guards g of the calls
\* that are still open.
LEMMA ListMoves ==
  ASSUME LockInv, NEW t \in Threads, NEW n \in 0..Rounds, NEW depth, NEW g \in Seq(Stores),
         NextInList(t, n, depth), Len(g) > 0,
         left' = [left EXCEPT ![t] = n], guards' = [guards EXCEPT ![t] = g],
         UNCHANGED <<task, home, writer_bit>>, pc[t] # "write"
  PROVE  ReaderMoves(t)
<1>1. PICK l \in InCall : Goto(t, l) /\ (l # "close" => n > 0)
  BY DEF NextInList, InCall
<1>2. Moves(t, l, n, g)
  BY <1>1 DEF Moves, Goto, Labels, Outside, InCall, InEntry
<1>3. l \in Labels \ {"write"}
  BY <1>1 DEF InCall, Labels
<1> QED  BY <1>2, <1>3 DEF ReaderMoves

LEMMA OpenCallStep ==
  ASSUME LockInv, NEW t \in Threads, OpenCall(t) PROVE ReaderMoves(t)
<1>1. PICK g \in Seq(Stores) : guards' = [guards EXCEPT ![t] = g] /\ Len(g) = Len(guards[t]) + 1
  BY AcquireAdds DEF OpenCall
<1>2. Len(g) > 0
  BY <1>1, LenIsNat
<1>3. left' = [left EXCEPT ![t] = left[t]] /\ pc[t] # "write"
  BY DEF OpenCall, At, LockInv, TypeOK
<1> QED  BY <1>1, <1>2, <1>3, LenIsNat, ListMoves DEF OpenCall

LEMMA FieldArgumentStep ==
  ASSUME LockInv, NEW t \in Threads, FieldArgument(t) PROVE ReaderMoves(t)
<1>1. pc[t] = "argument" /\ Len(guards[t]) > 0 /\ left[t] > 0
  BY DEF FieldArgument, At, LockInv, GuardsFollowCalls, RoundsLeft, InCall
<1>2. left[t] - 1 \in 0..Rounds
  BY <1>1, LenIsNat, StoreLockAssumption
<1>3. guards' = [guards EXCEPT ![t] = guards[t]]
  BY DEF FieldArgument, LockInv, TypeOK
<1> QED  BY <1>1, <1>2, <1>3, LenIsNat, ListMoves DEF FieldArgument

LEMMA NestedCallStep ==
  ASSUME LockInv, NEW t \in Threads, NestedCall(t) PROVE ReaderMoves(t)
<1>1. pc[t] = "nested" /\ left[t] > 0
  BY DEF NestedCall, At, LockInv, RoundsLeft
<1>2. left[t] - 1 \in 0..Rounds
  BY <1>1, LenIsNat, StoreLockAssumption
<1>3. PICK g \in Seq(Stores) : guards' = [guards EXCEPT ![t] = g] /\ Len(g) = Len(guards[t]) + 1
  BY AcquireAdds DEF NestedCall
<1>4. Len(g) > 0
  BY <1>3, LenIsNat
<1> QED  BY <1>1, <1>2, <1>3, <1>4, ListMoves DEF NestedCall

LEMMA CloseCallStep ==
  ASSUME LockInv, NEW t \in Threads, CloseCall(t) PROVE ReaderMoves(t)
<1>1. pc[t] = "close" /\ Len(guards[t]) > 0
  BY DEF CloseCall, At, LockInv, GuardsFollowCalls, InCall
<1>2. PICK g \in Seq(Stores) : /\ guards' = [guards EXCEPT ![t] = g]
                               /\ Len(g) = Len(guards[t]) - 1
                               /\ Len(guards[t]) = 1 => g = << >>
  BY <1>1, ReleaseDrops DEF CloseCall
<1>3. left' = [left EXCEPT ![t] = left[t]]
  BY DEF CloseCall, LockInv, TypeOK
<1>4. CASE Len(guards[t]) = 1
  <2>1. Moves(t, "done", left[t], g)
    BY <1>2, <1>3, <1>4, LenIsNat
       DEF Moves, CloseCall, Goto, Labels, Outside, InCall, InEntry
  <2> QED  BY <1>1, <2>1, LenIsNat DEF ReaderMoves, CloseCall, Labels
<1>5. CASE Len(guards[t]) # 1
  <2> DEFINE n == Len(guards[t])
  <2>1. n \in Nat /\ n > 0 /\ n # 1 /\ Len(g) = n - 1
    BY <1>1, <1>2, <1>5, LenIsNat
  <2> HIDE DEF n
  <2>2. Len(g) > 0
    BY <2>1
  <2> USE DEF n
  <2> QED  BY <1>1, <1>2, <1>3, <1>5, <2>2, LenIsNat, ListMoves DEF CloseCall
<1> QED  BY <1>4, <1>5

\* A guard taken at the start of an entry or of a comparison.
LEMMA EntryStarts ==
  ASSUME LockInv, NEW t \in Threads, NEW l \in {"type", "second"}, Acquire(t, home[t]),
         pc[t] = "hold", Goto(t, l), UNCHANGED <<task, home, writer_bit, left>>,
         l = "second" => task[t] = "compare"
  PROVE  ReaderMoves(t)
<1>1. guards[t] = << >> /\ left[t] > 0
  BY DEF LockInv, GuardsFollowCalls, RoundsLeft, Outside
<1>2. PICK g \in Seq(Stores) : guards' = [guards EXCEPT ![t] = g] /\ Len(g) = Len(guards[t]) + 1
  BY AcquireAdds
<1>3. Len(g) = 1 /\ left' = [left EXCEPT ![t] = left[t]]
  BY <1>1, <1>2 DEF LockInv, TypeOK
<1>4. Moves(t, l, left[t], g)
  BY <1>1, <1>2, <1>3, LenIsNat DEF Moves, Goto, Labels, Outside, InCall, InEntry
<1> QED  BY <1>4, LenIsNat DEF ReaderMoves, Labels

\* A read under that guard.
LEMMA EntryGoesOn ==
  ASSUME LockInv, NEW t \in Threads, NEW l \in {"optional", "release"},
         pc[t] \in {"type", "optional", "second"}, Goto(t, l),
         UNCHANGED <<task, home, writer_bit, guards, left>>
  PROVE  ReaderMoves(t)
<1>1. Len(guards[t]) = 1 /\ left[t] > 0
  BY DEF LockInv, GuardsFollowCalls, RoundsLeft, InEntry
<1>2. guards' = [guards EXCEPT ![t] = guards[t]] /\ left' = [left EXCEPT ![t] = left[t]]
  BY DEF LockInv, TypeOK
<1>3. Moves(t, l, left[t], guards[t])
  BY <1>1, <1>2, LenIsNat DEF Moves, Goto, Labels, Outside, InCall, InEntry
<1> QED  BY <1>3, LenIsNat DEF ReaderMoves, Labels

\* Its release at the end.
LEMMA EntryEnds ==
  ASSUME LockInv, NEW t \in Threads, pc[t] = "release", Release(t), EndRound(t, "hold"),
         UNCHANGED <<task, home, writer_bit>>
  PROVE  ReaderMoves(t)
<1>1. Len(guards[t]) = 1
  BY DEF LockInv, GuardsFollowCalls, InEntry
<1>. Len(guards[t]) > 0
  BY <1>1
<1>2. PICK g \in Seq(Stores) : guards' = [guards EXCEPT ![t] = g] /\ g = << >>
  BY <1>1, ReleaseDrops
<1>3. PICK l \in {"hold", "done"}, n \in 0..Rounds :
        /\ pc' = [pc EXCEPT ![t] = l] /\ left' = [left EXCEPT ![t] = n]
        /\ l # "done" => n > 0
  BY RoundEnds
<1>4. Moves(t, l, n, g)
  BY <1>2, <1>3 DEF Moves, Labels, Outside, InCall, InEntry
<1> QED  BY <1>3, <1>4 DEF ReaderMoves, Labels

LEMMA StepKeeps ==
  ASSUME LockInv, NEW t \in Threads, Step(t)
  PROVE  LockInv' /\ (Write(t) \/ RequestWrite(t) \/ ReaderMoves(t))
<1>1. CASE Write(t) \/ RequestWrite(t)
  BY <1>1, WriteKeeps, RequestWriteKeeps
<1>2. CASE Lookup(t) \/ Check(t) \/ OpenCall(t) \/ FieldArgument(t) \/ NestedCall(t) \/ CloseCall(t)
  BY <1>2, LookupStep, OpenCallStep, FieldArgumentStep, NestedCallStep, CloseCallStep,
     ReaderMovesKeep
<1>3. CASE SerializeName(t) \/ EqFirst(t)
  <2>1. ReaderMoves(t)
    BY <1>3, EntryStarts DEF SerializeName, EqFirst, At
  <2> QED  BY <2>1, ReaderMovesKeep
<1>4. CASE SerializeType(t) \/ SerializeOptional(t) \/ EqSecond(t)
  <2>1. ReaderMoves(t)
    BY <1>4, EntryGoesOn DEF SerializeType, SerializeOptional, EqSecond, At
  <2> QED  BY <2>1, ReaderMovesKeep
<1>5. CASE SerializeEntry(t) \/ EqEnd(t)
  <2>1. ReaderMoves(t)
    BY <1>5, EntryEnds DEF SerializeEntry, EqEnd, At
  <2> QED  BY <2>1, ReaderMovesKeep
<1> QED  BY <1>1, <1>2, <1>3, <1>4, <1>5 DEF Step

LEMMA NextKeeps == LockInv /\ [Next]_vars => LockInv'
<1> SUFFICES ASSUME LockInv, [Next]_vars PROVE LockInv'
  OBVIOUS
<1>1. CASE UNCHANGED vars
  BY <1>1 DEF vars, LockInv, TypeOK, WriterBits, GuardsFollowCalls, RoundsLeft, TaskLabels
<1>2. CASE Next
  BY <1>2, StepKeeps DEF Next
<1> QED  BY <1>1, <1>2

\* Guards are counted as the parser, the serializer and == open and close them,
\* and a writer bit has exactly one thread in RwLock::write behind it.
THEOREM LockInvHolds == Spec => []LockInv
  BY InitInv, NextKeeps, PTL DEF Spec

-----------------------------------------------------------------------------
\* Who sets a writer bit has no guard; who cannot read finds such a thread.
LEMMA RefusedByWriter ==
  ASSUME LockInv, NEW s \in Stores, ~CanRead(s)
  PROVE  \E u \in Threads : pc[u] = "write" /\ home[u] = s /\ guards[u] = << >>
<1>1. writer_bit[s] \in Threads /\ pc[writer_bit[s]] = "write" /\ home[writer_bit[s]] = s
  BY DEF CanRead, LockInv, TypeOK, WriterBits
<1> QED  BY <1>1 DEF LockInv, GuardsFollowCalls, Outside

\* A thread that holds a guard and has to wait, waits to read.
LEMMA HolderReads ==
  ASSUME LockInv, NEW u \in Threads, NEW s \in Stores, Holds(u, s), Done(u) \/ Blocked(u)
  PROVE  WaitsInside(u)
<1>1. guards[u] # << >>
  BY DEF Holds
<1>2. pc[u] \notin Outside
  BY <1>1 DEF LockInv, GuardsFollowCalls
<1> QED  BY <1>1, <1>2 DEF Blocked, WaitsInside, Outside, Done

LEMMA StuckMeansNested ==
  ASSUME LockInv, Stuck
  PROVE  /\ \E t \in Threads : WaitsInside(t)
         /\ \E t \in Threads : pc[t] = "write" /\ guards[t] = << >>
<1>1. PICK t \in Threads : ~Done(t) /\ Blocked(t)
  BY DEF Stuck, AllStop
<1>2. home[t] \in Stores
  BY DEF LockInv, TypeOK
<1>3. \E u \in Threads : pc[u] = "write" /\ guards[u] = << >>
  <2>1. CASE pc[t] = "write"
    BY <2>1 DEF LockInv, GuardsFollowCalls, Outside
  <2>2. CASE pc[t] = "request" /\ writer_bit[home[t]] # NoThread
    BY <1>2, <2>2, RefusedByWriter DEF CanRead
  <2>3. CASE pc[t] = "second" /\ \A s \in Stores \ {home[t]} : ~CanRead(s)
    <3>1. task[t] = "compare" /\ task \in Workloads
      BY <2>3 DEF LockInv, TypeOK, TaskLabels
    <3>2. Stores # {home[t]}
      BY <1>2, <3>1, StoreLockAssumption
    <3>3. PICK s \in Stores : s # home[t]
      BY <1>2, <3>2
    <3> QED  BY <2>3, <3>3, RefusedByWriter
  <2>4. CASE WaitsToRead(t) /\ ~CanRead(home[t])
    BY <1>2, <2>4, RefusedByWriter
  <2> QED  BY <1>1, <2>1, <2>2, <2>3, <2>4 DEF Blocked, WaitsToRead
<1>4. PICK u \in Threads : pc[u] = "write" /\ guards[u] = << >>
  BY <1>3
<1>5. ~NoReaders(home[u]) /\ home[u] \in Stores
  BY <1>4 DEF Stuck, AllStop, Done, Blocked, WaitsToRead, LockInv, TypeOK
<1>6. PICK v \in Threads : Holds(v, home[u])
  BY <1>5 DEF NoReaders
<1> QED  BY <1>4, <1>5, <1>6, HolderReads DEF Stuck, AllStop

\* When all tasks that are left wait for a lock, one of them waits for a read guard
\* while it has one, next to a registration that waits for that one to be dropped:
\* calls, entries and comparisons are the only way into a deadlock, and no number
\* of registrations and lookups alone gets there (scheme.rs get_or_add_*,
\* function_expr.rs lex_with_function).
THEOREM OnlyNestedReadsDeadlock == Spec => []StuckIsNestedRead
<1>1. LockInv => StuckIsNestedRead
  BY StuckMeansNested DEF StuckIsNestedRead
<1> QED  BY <1>1, LockInvHolds, PTL

\* No definition is pushed while a thread has a guard that maps into the vectors
\* (scheme.rs add_field_internal and its like, FieldRef::name).
THEOREM GuardsAlwaysPin == Spec => GuardsPinTheStore
<1> DEFINE Pinned == \A t \in Threads : pc[t] = "write" /\ pc'[t] # "write"
                       => \A u \in Threads : ~Holds(u, home[t]) /\ ~Holds(u, home[t])'
<1>1. ASSUME LockInv, NEW t \in Threads, Step(t) PROVE Pinned
  <2>1. \A u \in Threads : u # t => pc'[u] = pc[u]
    <3>1. CASE Write(t)
      BY <3>1 DEF Write, EndRound, Goto, LockInv, TypeOK
    <3>2. CASE RequestWrite(t)
      BY <3>2 DEF RequestWrite, Goto, LockInv, TypeOK
    <3>3. CASE ReaderMoves(t)
      <4>1. PICK l \in Labels, n \in 0..Rounds, g \in Seq(Stores) : Moves(t, l, n, g)
        BY <3>3 DEF ReaderMoves
      <4> QED  BY <4>1 DEF Moves, LockInv, TypeOK
    <3> QED  BY <1>1, <3>1, <3>2, <3>3, StepKeeps
  <2>2. CASE Write(t)
    BY <2>1, <2>2 DEF Write, NoReaders, Holds
  <2>3. CASE RequestWrite(t) \/ ReaderMoves(t)
    BY <2>1, <2>3 DEF RequestWrite, At, ReaderMoves
  <2> QED  BY <1>1, <2>2, <2>3, StepKeeps
<1>2. LockInv /\ [Next]_vars => [Pinned]_vars
  BY <1>1 DEF Next
<1> QED  BY <1>2, LockInvHolds, PTL DEF Spec, GuardsPinTheStore
=============================================================================
