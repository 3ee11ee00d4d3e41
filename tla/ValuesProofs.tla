---------------------------- MODULE ValuesProofs ----------------------------
(***************************************************************************)
(* Left-hand values, for all types, paths and documents.                   *)
(*                                                                         *)
(* MapEachIterator returns the leaves, each once and in their order.  The  *)
(* invariant completes the stack to what is still to be returned, level by *)
(* level: at each depth the rest of that depth's iterator, then all that   *)
(* the depth above still leads to.                                         *)
(*                                                                         *)
(* Containers have elements of their static type at every depth, whatever  *)
(* is pushed, grown or read into them, and what they serialize to reads    *)
(* back: byte strings are ordered, so that a map lists each key once; a    *)
(* scalar reads back by its type; and a container does when its elements   *)
(* do, one depth after the other from the scalars outwards.                *)
(***************************************************************************)
EXTENDS MapEachIterator, Containers, WellFoundedInduction, SequenceTheorems,
        FiniteSetTheorems, TLAPS

\* Induction by a least counterexample.
Smaller == {pair \in Nat \X Nat : pair[1] < pair[2]}

LEMMA LeastNumber ==
  ASSUME NEW S \in SUBSET Nat, S # {}
  PROVE  \E least \in S : \A n \in S : least <= n
<1>1. IsWellFoundedOn(Smaller, Nat)
  BY NatLessThanWellFounded DEF OpToRel, Smaller
<1>2. PICK least \in S : \A n \in S : <<n, least>> \notin Smaller
  BY <1>1, WFMin
<1>3. ASSUME NEW n \in S PROVE least <= n
  <2>1. n \in Nat /\ least \in Nat /\ <<n, least>> \notin Smaller
    BY <1>2
  <2> QED BY <2>1 DEF Smaller
<1> QED BY <1>2, <1>3

\* A function over an interval that is defined step by step exists.
Iterations(S, c, step, n) ==
  {f \in [0..n -> S] : f[0] = c /\ \A i \in 1..n : f[i] = step[i][f[i - 1]]}

LEMMA IterationExists ==
  ASSUME NEW S, NEW c \in S, NEW m \in Nat, NEW step \in [1..m -> [S -> S]]
  PROVE  Iterations(S, c, step, m) # {}
<1> DEFINE Bad == {n \in 0..m : Iterations(S, c, step, n) = {}}
<1> SUFFICES ASSUME Bad # {} PROVE FALSE
  OBVIOUS
<1>1. PICK x \in Bad : \A n \in Bad : x <= n
  <2>1. Bad \in SUBSET Nat
    OBVIOUS
  <2> HIDE DEF Bad
  <2> QED BY <2>1, LeastNumber
<1>2. x # 0
  <2>1. [i \in 0..0 |-> c] \in Iterations(S, c, step, 0)
    BY DEF Iterations
  <2> QED BY <1>1, <2>1
<1>3. x \in 1..m /\ x - 1 \in 0..m /\ x - 1 \notin Bad
  BY <1>1, <1>2
<1>4. PICK g : g \in Iterations(S, c, step, x - 1)
  BY <1>3
<1> DEFINE f == [i \in 0..x |-> IF i = x THEN step[x][g[x - 1]] ELSE g[i]]
<1>5. /\ g \in [0..x - 1 -> S] /\ g[0] = c
      /\ \A i \in 1..x - 1 : g[i] = step[i][g[i - 1]]
  BY <1>4 DEF Iterations
<1>6. step[x][g[x - 1]] \in S
  BY <1>3, <1>5
<1>7. f \in [0..x -> S] /\ f[0] = c
  BY <1>3, <1>5, <1>6
<1>8. ASSUME NEW i \in 1..x PROVE f[i] = step[i][f[i - 1]]
  BY <1>3, <1>5
<1>9. f \in Iterations(S, c, step, x)
  BY <1>7, <1>8 DEF Iterations
<1> QED BY <1>1, <1>9

-----------------------------------------------------------------------------
\* Concatenation, under a name of its own so that the provers take it as it is.
Joined(s, t) == s \o t

LEMMA JoinedIsSeq ==
  ASSUME NEW S, NEW s \in Seq(S), NEW t \in Seq(S)
  PROVE  Joined(s, t) \in Seq(S)
  BY ConcatProperties DEF Joined

LEMMA JoinedAssociative ==
  ASSUME NEW S, NEW s \in Seq(S), NEW t \in Seq(S), NEW u \in Seq(S)
  PROVE  Joined(Joined(s, t), u) = Joined(s, Joined(t, u))
  BY ConcatAssociative DEF Joined

LEMMA JoinedEmpty ==
  ASSUME NEW S, NEW s \in Seq(S)
  PROVE  Joined(<<>>, s) = s /\ Joined(s, <<>>) = s
  BY ConcatEmptySeq DEF Joined

\* Flattening appends one sequence after the other.
Flattened(S, seqs) ==
  {f \in [1..Len(seqs) -> Seq(S)] :
     /\ f[1] = seqs[1]
     /\ \A i \in 2..Len(seqs) : f[i] = Joined(f[i - 1], seqs[i])}

LEMMA FlattenUnfolds ==
  ASSUME NEW S, NEW seqs \in Seq(Seq(S)), NEW n \in Nat, n = Len(seqs), n >= 1,
         NEW f \in Flattened(S, seqs)
  PROVE  FlattenSeq(seqs) = f[n]
<1> DEFINE Chosen == CHOOSE g : g = [i \in 1..n |-> IF i = 1 THEN seqs[i]
                                                     ELSE Joined(g[i - 1], seqs[i])]
<1>1. /\ f \in [1..n -> Seq(S)] /\ f[1] = seqs[1]
      /\ \A i \in 2..n : f[i] = Joined(f[i - 1], seqs[i])
  BY DEF Flattened
<1>2. f = [i \in 1..n |-> IF i = 1 THEN seqs[i] ELSE Joined(f[i - 1], seqs[i])]
  BY <1>1
<1>3. Chosen = [i \in 1..n |-> IF i = 1 THEN seqs[i] ELSE Joined(Chosen[i - 1], seqs[i])]
  BY <1>2
<1>4. FlattenSeq(seqs) = Chosen[n]
  BY DEF FlattenSeq, Joined
<1> HIDE DEF Chosen
<1>5. \A i \in 1..n : Chosen[i] = IF i = 1 THEN seqs[i] ELSE Joined(Chosen[i - 1], seqs[i])
  BY <1>3
<1> DEFINE Differ == {i \in 1..n : Chosen[i] # f[i]}
<1>6. Differ = {}
  <2> SUFFICES ASSUME Differ # {} PROVE FALSE
    OBVIOUS
  <2>1. PICK x \in Differ : \A i \in Differ : x <= i
    <3>1. Differ \in SUBSET Nat
      OBVIOUS
    <3> HIDE DEF Differ
    <3> QED BY <3>1, LeastNumber
  <2>2. x \in 1..n /\ x # 1
    BY <1>1, <1>5, <2>1
  <2>3. x - 1 \in 1..n /\ Chosen[x - 1] = f[x - 1]
    BY <2>1, <2>2
  <2>4. Chosen[x] = Joined(Chosen[x - 1], seqs[x]) /\ f[x] = Joined(f[x - 1], seqs[x])
    BY <1>1, <1>5, <2>2
  <2> QED BY <2>1, <2>3, <2>4
<1>7. n \in 1..n
  OBVIOUS
<1> QED BY <1>4, <1>6, <1>7

LEMMA FlattenEquation ==
  ASSUME NEW S, NEW seqs \in Seq(Seq(S)), NEW n \in Nat, n = Len(seqs), n >= 1
  PROVE  \E f \in Flattened(S, seqs) : FlattenSeq(seqs) = f[n]
<1> DEFINE step == [i \in 1..n |-> [s \in Seq(S) |-> Joined(s, seqs[i])]]
<1>1. \A i \in 1..n : seqs[i] \in Seq(S)
  OBVIOUS
<1>2. step \in [1..n -> [Seq(S) -> Seq(S)]]
  BY <1>1, JoinedIsSeq
<1>3. \A i \in 1..n : \A s \in Seq(S) : step[i][s] = Joined(s, seqs[i])
  OBVIOUS
<1> HIDE DEF step
<1>4. <<>> \in Seq(S)
  OBVIOUS
<1>5. PICK none \in Seq(S) : none = <<>>
  BY <1>4
<1>6. PICK g : g \in Iterations(Seq(S), none, step, n)
  <2>1. Iterations(Seq(S), none, step, n) # {}
    BY <1>2, IterationExists, Zenon
  <2> QED BY <2>1
<1>7. /\ g \in [0..n -> Seq(S)] /\ g[0] = none
      /\ \A i \in 1..n : g[i] = step[i][g[i - 1]]
  BY <1>6 DEF Iterations
<1>8. ASSUME NEW i \in 1..n PROVE g[i] = Joined(g[i - 1], seqs[i])
  <2>1. i - 1 \in 0..n /\ g[i - 1] \in Seq(S)
    BY <1>7
  <2> QED BY <1>3, <1>7, <2>1
<1>9. g[1] = seqs[1]
  <2>1. 1 \in 1..n /\ g[1] = Joined(none, seqs[1]) /\ seqs[1] \in Seq(S)
    BY <1>1, <1>7, <1>8
  <2> QED BY <1>5, <2>1, JoinedEmpty
<1> DEFINE f == [i \in 1..n |-> g[i]]
<1>10. f \in Flattened(S, seqs)
  <2>1. f \in [1..n -> Seq(S)] /\ f[1] = seqs[1]
    BY <1>7, <1>9
  <2>2. ASSUME NEW i \in 2..n PROVE f[i] = Joined(f[i - 1], seqs[i])
    BY <1>8
  <2> HIDE DEF f
  <2> QED BY <2>1, <2>2 DEF Flattened
<1> QED BY <1>10, FlattenUnfolds

LEMMA FlattenEmpty == FlattenSeq(<<>>) = <<>>
  BY DEF FlattenSeq

LEMMA FlattenIsSeq ==
  ASSUME NEW S, NEW seqs \in Seq(Seq(S))
  PROVE  FlattenSeq(seqs) \in Seq(S)
<1>1. CASE seqs = <<>>
  <2>1. <<>> \in Seq(S)
    OBVIOUS
  <2> QED BY <1>1, <2>1, FlattenEmpty, Zenon
<1>2. CASE seqs # <<>>
  <2>1. PICK n \in Nat : n = Len(seqs) /\ n >= 1
    BY <1>2, EmptySeq
  <2>2. PICK f \in Flattened(S, seqs) : FlattenSeq(seqs) = f[n]
    BY <2>1, FlattenEquation
  <2> QED BY <2>1, <2>2 DEF Flattened
<1> QED BY <1>1, <1>2

LEMMA FlattenCons ==
  ASSUME NEW S, NEW first \in Seq(S), NEW others \in Seq(Seq(S)),
         NEW whole \in Seq(Seq(S)), NEW n \in Nat, n = Len(others), Len(whole) = n + 1,
         whole[1] = first, \A i \in 1..n : whole[i + 1] = others[i]
  PROVE  FlattenSeq(whole) = Joined(first, FlattenSeq(others))
<1>1. PICK f \in Flattened(S, whole) : FlattenSeq(whole) = f[n + 1]
  BY FlattenEquation
<1>2. f[1] = first /\ \A i \in 2..n + 1 : f[i] = Joined(f[i - 1], whole[i])
  BY <1>1 DEF Flattened
<1>3. CASE n = 0
  <2>1. others = <<>>
    BY <1>3, EmptySeq
  <2>2. FlattenSeq(whole) = first /\ FlattenSeq(others) = <<>>
    BY <1>1, <1>2, <1>3, <2>1, FlattenEmpty
  <2> QED BY <2>2, JoinedEmpty
<1>4. CASE n # 0
  <2>0. n >= 1
    BY <1>4
  <2>1. PICK g \in Flattened(S, others) : FlattenSeq(others) = g[n]
    BY <2>0, FlattenEquation
  <2>2. /\ g \in [1..n -> Seq(S)] /\ g[1] = others[1]
        /\ \A i \in 2..n : g[i] = Joined(g[i - 1], others[i])
    BY <1>4, <2>1 DEF Flattened
  <2> DEFINE Differ == {i \in 1..n : f[i + 1] # Joined(first, g[i])}
  <2>3. Differ = {}
    <3> SUFFICES ASSUME Differ # {} PROVE FALSE
      OBVIOUS
    <3>1. PICK x \in Differ : \A i \in Differ : x <= i
      <4>1. Differ \in SUBSET Nat
        OBVIOUS
      <4> HIDE DEF Differ
      <4> QED BY <4>1, LeastNumber
    <3>2. x \in 1..n /\ f[x + 1] # Joined(first, g[x]) /\ x + 1 \in 2..n + 1 /\ (x + 1) - 1 = x
      BY <3>1
    <3>3. f[x + 1] = Joined(f[x], others[x])
      BY <1>2, <3>2
    <3>4. x # 1
      BY <1>2, <2>2, <3>2, <3>3
    <3>5. x - 1 \in 1..n /\ x \in 2..n /\ (x - 1) + 1 = x
      BY <3>2, <3>4
    <3>6. f[x] = Joined(first, g[x - 1])
      BY <3>1, <3>5
    <3>7. g[x - 1] \in Seq(S)
      BY <2>2, <3>5
    <3>9. others[x] \in Seq(S)
      BY <3>2
    <3>8. f[x + 1] = Joined(first, Joined(g[x - 1], others[x]))
      BY <3>3, <3>6, <3>7, <3>9, JoinedAssociative
    <3> QED BY <2>2, <3>2, <3>5, <3>8
  <2>4. n \in 1..n
    BY <1>4
  <2> QED BY <1>1, <2>1, <2>3, <2>4
<1> QED BY <1>3, <1>4

-----------------------------------------------------------------------------
\* The elements of a value, and of a level, have the type one layer in.
PartsAt(ty, n) == PartsOf(SubSeq(ty, n + 1, Len(ty)))

LEMMA NewIteratorIsSeq ==
  ASSUME NEW ty, NEW idx \in Indexes, Steps(ty, idx), NEW v \in PartsOf(ty)
  PROVE  NewIterator(v, idx) \in Seq(PartsOf(NextType(ty)))
<1>1. v \in Parts /\ TypeOf(v) = ty
  BY DEF PartsOf
<1>2. Iterable(v, idx) /\ ElementType(v) = NextType(ty)
  BY <1>1 DEF Iterable, ElementType
<1>3. NewIterator(v, idx) \in Seq(PartsOf(ElementType(v)))
  BY <1>1, <1>2, PartsAssumption, Zenon
<1> QED BY <1>2, <1>3

LEMMA SpreadIsSeq ==
  ASSUME NEW ty, NEW idx \in Indexes, Steps(ty, idx), NEW elems \in Seq(PartsOf(ty))
  PROVE  Spread(elems, idx) \in Seq(PartsOf(NextType(ty)))
<1> DEFINE its == [i \in DOMAIN elems |-> NewIterator(elems[i], idx)]
<1>1. ASSUME NEW i \in 1..Len(elems)
      PROVE  NewIterator(elems[i], idx) \in Seq(PartsOf(NextType(ty)))
  BY NewIteratorIsSeq
<1>2. PICK S : S = Seq(PartsOf(NextType(ty)))
  OBVIOUS
<1>3. its \in Seq(S)
  BY <1>1, <1>2
<1> HIDE DEF its
<1> QED BY <1>2, <1>3, FlattenIsSeq DEF Spread, its

LEMMA SpreadEmpty == ASSUME NEW idx PROVE Spread(<<>>, idx) = <<>>
<1> DEFINE its == [i \in DOMAIN <<>> |-> NewIterator(<<>>[i], idx)]
<1>1. its = <<>>
  OBVIOUS
<1> QED BY <1>1, FlattenEmpty DEF Spread

LEMMA SpreadCons ==
  ASSUME NEW ty, NEW idx \in Indexes, Steps(ty, idx), NEW elems \in Seq(PartsOf(ty)),
         elems # <<>>
  PROVE  Spread(elems, idx) = Joined(NewIterator(Head(elems), idx), Spread(Tail(elems), idx))
<1>1. PICK S : S = PartsOf(NextType(ty))
  OBVIOUS
<1>2. PICK others \in Seq(PartsOf(ty)), n \in Nat :
        /\ others = Tail(elems) /\ n = Len(others) /\ Len(elems) = n + 1
        /\ \A i \in 1..n : others[i] = elems[i + 1]
  <2>1. /\ Tail(elems) \in Seq(PartsOf(ty)) /\ Len(Tail(elems)) = Len(elems) - 1
        /\ \A i \in 1..Len(Tail(elems)) : Tail(elems)[i] = elems[i + 1]
    BY HeadTailProperties
  <2>2. PICK others \in Seq(PartsOf(ty)) : others = Tail(elems)
    BY <2>1
  <2>4. Len(others) \in Nat /\ Len(elems) \in Nat /\ Len(others) = Len(elems) - 1
    BY <2>1, <2>2
  <2>3. PICK n \in Nat : n = Len(others) /\ Len(elems) = n + 1
    BY <2>4
  <2> QED BY <2>1, <2>2, <2>3
<1>3. Head(elems) = elems[1]
  OBVIOUS
<1>4. \A i \in 1..n + 1 : NewIterator(elems[i], idx) \in Seq(S)
  BY <1>1, <1>2, NewIteratorIsSeq
<1>5. \A i \in 1..n : NewIterator(others[i], idx) \in Seq(S)
  BY <1>1, <1>2, NewIteratorIsSeq
<1> DEFINE whole == [i \in DOMAIN elems |-> NewIterator(elems[i], idx)]
           rest  == [i \in DOMAIN others |-> NewIterator(others[i], idx)]
<1>6. whole \in Seq(Seq(S)) /\ Len(whole) = n + 1 /\ whole[1] = NewIterator(elems[1], idx)
  BY <1>2, <1>4
<1>7. rest \in Seq(Seq(S)) /\ Len(rest) = n
  BY <1>2, <1>5
<1>8. \A i \in 1..n : whole[i + 1] = rest[i]
  BY <1>2
<1>9. whole[1] \in Seq(S)
  BY <1>2, <1>4, <1>6
<1>10. Spread(elems, idx) = FlattenSeq(whole) /\ Spread(others, idx) = FlattenSeq(rest)
  BY DEF Spread
<1> HIDE DEF whole, rest
<1>11. FlattenSeq(whole) = Joined(whole[1], FlattenSeq(rest))
  BY <1>6, <1>7, <1>8, <1>9, FlattenCons
<1> QED BY <1>2, <1>3, <1>6, <1>10, <1>11

\* A path that fits a type takes it one layer in with every index.
LEMMA FitsSteps ==
  ASSUME NEW ty \in Seq(Layers \cup Primitives), NEW path \in Seq(Indexes), Fits(ty, path),
         NEW n \in 1..Len(path)
  PROVE  /\ path[n] \in Indexes
         /\ Steps(SubSeq(ty, n, Len(ty)), path[n])
         /\ NextType(SubSeq(ty, n, Len(ty))) = SubSeq(ty, n + 1, Len(ty))
<1>1. n \in 1..Len(ty) /\ Len(ty) \in n..Len(ty) /\ path[n] \in Indexes
  BY DEF Fits
<1>2. Steps(SubSeq(ty, n, Len(ty)), path[n])
  BY DEF Fits
<1>3. Tail(SubSeq(ty, n, Len(ty))) = SubSeq(ty, n + 1, Len(ty))
  BY <1>1, HeadTailOfSubSeq
<1> QED BY <1>1, <1>2, <1>3 DEF NextType

LEMMA SpreadAt ==
  ASSUME NEW ty \in Seq(Layers \cup Primitives), NEW path \in Seq(Indexes), Fits(ty, path),
         NEW n \in 1..Len(path), NEW elems \in Seq(PartsAt(ty, n - 1))
  PROVE  Spread(elems, path[n]) \in Seq(PartsAt(ty, n))
<1>1. (n - 1) + 1 = n
  OBVIOUS
<1>2. elems \in Seq(PartsOf(SubSeq(ty, n, Len(ty))))
  BY <1>1 DEF PartsAt
<1> QED BY <1>2, FitsSteps, SpreadIsSeq DEF PartsAt

\* The levels of the leaves.
LeafLevels(v, path) ==
  {f \in [0..Len(path) -> Seq(Parts)] :
     /\ f[0] = <<v>>
     /\ \A n \in 1..Len(path) :
          f[n] \in Seq(PartsAt(TypeOf(v), n)) /\ f[n] = Spread(f[n - 1], path[n])}

LEMMA LevelsUnfold ==
  ASSUME NEW v, NEW path \in Seq(Indexes), NEW m \in Nat, m = Len(path),
         NEW f \in LeafLevels(v, path)
  PROVE  Leaves(v, path) = f[m]
<1>0. PICK first : first = <<v>>
  OBVIOUS
<1> DEFINE Chosen == CHOOSE g : g = [n \in 0..m |-> IF n = 0 THEN first
                                                      ELSE Spread(g[n - 1], path[n])]
<1>1. f \in [0..m -> Seq(Parts)] /\ f[0] = first /\ \A n \in 1..m : f[n] = Spread(f[n - 1], path[n])
  BY <1>0 DEF LeafLevels
<1>2. f = [n \in 0..m |-> IF n = 0 THEN first ELSE Spread(f[n - 1], path[n])]
  <2>1. ASSUME NEW n \in 0..m
        PROVE  f[n] = IF n = 0 THEN first ELSE Spread(f[n - 1], path[n])
    BY <1>1
  <2> QED BY <1>1, <2>1
<1>3. Chosen = [n \in 0..m |-> IF n = 0 THEN first ELSE Spread(Chosen[n - 1], path[n])]
  BY <1>2
<1>4. Leaves(v, path) = Chosen[m]
  BY <1>0 DEF Leaves
<1> HIDE DEF Chosen
<1>5. \A n \in 0..m : Chosen[n] = IF n = 0 THEN first ELSE Spread(Chosen[n - 1], path[n])
  BY <1>3
<1> DEFINE Differ == {n \in 0..m : Chosen[n] # f[n]}
<1>6. Differ = {}
  <2> SUFFICES ASSUME Differ # {} PROVE FALSE
    OBVIOUS
  <2>1. PICK x \in Differ : \A n \in Differ : x <= n
    <3>1. Differ \in SUBSET Nat
      OBVIOUS
    <3> HIDE DEF Differ
    <3> QED BY <3>1, LeastNumber
  <2>2. x \in 1..m
    BY <1>1, <1>5, <2>1
  <2>3. x - 1 \in 0..m /\ Chosen[x - 1] = f[x - 1]
    BY <2>1, <2>2
  <2>4. Chosen[x] = Spread(Chosen[x - 1], path[x]) /\ f[x] = Spread(f[x - 1], path[x])
    BY <1>1, <1>5, <2>2
  <2> QED BY <2>1, <2>3, <2>4
<1>7. m \in 0..m
  OBVIOUS
<1> QED BY <1>4, <1>6, <1>7

LEMMA LevelsExist ==
  ASSUME NEW v \in Parts, NEW path \in Seq(Indexes), Fits(TypeOf(v), path)
  PROVE  LeafLevels(v, path) # {}
<1>1. PICK m \in Nat : m = Len(path)
  OBVIOUS
<1>2. PICK ty \in Seq(Layers \cup Primitives) : ty = TypeOf(v)
  BY PartsAssumption
<1>3. Fits(ty, path)
  BY <1>2
<1> DEFINE Typed(n) == Seq(PartsAt(ty, n))
           Next1(s, n) == IF s \in Typed(n - 1) THEN Spread(s, path[n]) ELSE <<>>
           step == [n \in 1..m |-> [s \in Seq(Parts) |-> Next1(s, n)]]
<1>4. \A n \in 0..m : Typed(n) \subseteq Seq(Parts)
  BY DEF PartsAt, PartsOf
<1>5. ASSUME NEW n \in 1..m, NEW s \in Typed(n - 1) PROVE Spread(s, path[n]) \in Typed(n)
  BY <1>1, <1>3, SpreadAt
<1>6. <<>> \in Seq(Parts)
  OBVIOUS
<1> HIDE DEF Typed
<1>7. \A n \in 1..m : \A s \in Seq(Parts) : Next1(s, n) \in Seq(Parts)
  BY <1>4, <1>5, <1>6
<1>8. \A n \in 1..m : \A s \in Typed(n - 1) : Next1(s, n) = Spread(s, path[n])
  OBVIOUS
<1> HIDE DEF Next1
<1>9. step \in [1..m -> [Seq(Parts) -> Seq(Parts)]]
  BY <1>7
<1>10. \A n \in 1..m : \A s \in Seq(Parts) : step[n][s] = Next1(s, n)
  OBVIOUS
<1> HIDE DEF step
<1>11. PICK first \in Seq(Parts) : first = <<v>> /\ first \in Typed(0)
  <2>1. SubSeq(ty, 0 + 1, Len(ty)) = ty
    BY SubSeqFull
  <2>2. v \in PartsAt(ty, 0)
    BY <1>2, <2>1 DEF PartsAt, PartsOf
  <2>3. <<v>> \in Seq(Parts) /\ <<v>> \in Seq(PartsAt(ty, 0))
    BY <2>2
  <2> QED BY <2>3 DEF Typed
<1>12. PICK f : f \in Iterations(Seq(Parts), first, step, m)
  <2>1. Iterations(Seq(Parts), first, step, m) # {}
    BY <1>9, IterationExists, Zenon
  <2> QED BY <2>1
<1>13. /\ f \in [0..m -> Seq(Parts)] /\ f[0] = first
       /\ \A n \in 1..m : f[n] = step[n][f[n - 1]]
  BY <1>12 DEF Iterations
<1>14. ASSUME NEW n \in 1..m, f[n - 1] \in Typed(n - 1)
       PROVE  f[n] = Spread(f[n - 1], path[n]) /\ f[n] \in Typed(n)
  <2>1. n - 1 \in 0..m /\ f[n - 1] \in Seq(Parts)
    BY <1>13
  <2>2. f[n] = Next1(f[n - 1], n)
    BY <1>10, <1>13, <2>1
  <2> QED BY <1>5, <1>8, <1>14, <2>2
<1> DEFINE Untyped == {n \in 0..m : f[n] \notin Typed(n)}
<1>15. Untyped = {}
  <2> SUFFICES ASSUME Untyped # {} PROVE FALSE
    OBVIOUS
  <2>1. PICK x \in Untyped : \A n \in Untyped : x <= n
    <3>1. Untyped \in SUBSET Nat
      OBVIOUS
    <3> HIDE DEF Untyped
    <3> QED BY <3>1, LeastNumber
  <2>2. x \in 0..m /\ f[x] \notin Typed(x)
    BY <2>1
  <2>4. f[0] \in Typed(0)
    BY <1>11, <1>13
  <2>5. x # 0
    BY <2>2, <2>4
  <2>6. x \in 1..m
    BY <2>2, <2>5
  <2>3. x - 1 \in 0..m /\ f[x - 1] \in Typed(x - 1)
    BY <2>1, <2>6
  <2> QED BY <1>14, <2>2, <2>3, <2>6
<1>16. ASSUME NEW n \in 1..m PROVE f[n] = Spread(f[n - 1], path[n]) /\ f[n] \in Typed(n)
  <2>1. n - 1 \in 0..m
    OBVIOUS
  <2>2. f[n - 1] \in Typed(n - 1)
    BY <1>15, <2>1
  <2> QED BY <1>14, <2>2
<1>17. f \in LeafLevels(v, path)
  BY <1>1, <1>2, <1>11, <1>13, <1>16 DEF LeafLevels, Typed
<1> QED BY <1>17

-----------------------------------------------------------------------------
LEMMA JoinedLength ==
  ASSUME NEW S, NEW s \in Seq(S), NEW t \in Seq(S)
  PROVE  Len(Joined(s, t)) = Len(s) + Len(t)
  BY ConcatProperties DEF Joined

LEMMA JoinedElements ==
  ASSUME NEW S, NEW s \in Seq(S), NEW t \in Seq(S), NEW n \in Nat, NEW m \in Nat,
         Len(s) = n, Len(t) = m, NEW u, u = Joined(s, t)
  PROVE  /\ u \in Seq(S) /\ Len(u) = n + m
         /\ \A i \in 1..n : u[i] = s[i]
         /\ \A i \in 1..m : u[n + i] = t[i]
<1>1. /\ s \o t \in Seq(S) /\ Len(s \o t) = Len(s) + Len(t)
      /\ \A i \in 1..Len(s) + Len(t) :
           (s \o t)[i] = IF i <= Len(s) THEN s[i] ELSE t[i - Len(s)]
  BY ConcatProperties
<1>2. u = s \o t
  BY DEF Joined
<1>3. /\ Len(u) = n + m
      /\ \A i \in 1..n + m : u[i] = IF i <= n THEN s[i] ELSE t[i - n]
  BY <1>1, <1>2
<1>4. u \in Seq(S)
  BY <1>1, <1>2
<1>5. ASSUME NEW i \in 1..m PROVE u[n + i] = t[i]
  <2>1. n + i \in 1..n + m /\ ~(n + i <= n) /\ (n + i) - n = i
    OBVIOUS
  <2> QED BY <1>3, <2>1
<1>6. \A i \in 1..n : u[i] = s[i]
  <2>1. ASSUME NEW i \in 1..n PROVE i \in 1..n + m /\ i <= n
    OBVIOUS
  <2> QED BY <1>3, <2>1
<1> QED BY <1>3, <1>4, <1>5, <1>6

LEMMA TailElements ==
  ASSUME NEW S, NEW s \in Seq(S), NEW n \in Nat, Len(s) = n + 1
  PROVE  /\ Tail(s) \in Seq(S) /\ Len(Tail(s)) = n
         /\ \A i \in 1..n : Tail(s)[i] = s[i + 1]
<1>1. s # <<>>
  OBVIOUS
<1>2. /\ Tail(s) \in Seq(S) /\ Len(Tail(s)) = Len(s) - 1
      /\ \A i \in 1..Len(Tail(s)) : Tail(s)[i] = s[i + 1]
  BY <1>1, HeadTailProperties
<1>3. PICK t : t = Tail(s)
  OBVIOUS
<1>4. t \in Seq(S) /\ Len(t) = n /\ \A i \in 1..n : t[i] = s[i + 1]
  BY <1>2, <1>3
<1> QED BY <1>3, <1>4

LEMMA JoinedHeadTail ==
  ASSUME NEW S, NEW s \in Seq(S), NEW t \in Seq(S), s # <<>>
  PROVE  /\ Joined(s, t) # <<>> /\ Head(Joined(s, t)) = Head(s)
         /\ Tail(Joined(s, t)) = Joined(Tail(s), t)
<1>1. PICK n \in Nat : Len(s) = n + 1
  <2>1. Len(s) \in Nat \ {0}
    BY EmptySeq
  <2>2. Len(s) - 1 \in Nat /\ Len(s) = (Len(s) - 1) + 1
    BY <2>1
  <2> QED BY <2>2
<1>2. PICK m \in Nat : Len(t) = m
  OBVIOUS
<1>3. PICK u \in Seq(S) : u = Joined(s, t)
  BY JoinedIsSeq
<1>4. PICK k \in Nat : k = n + 1 /\ k = Len(s)
  BY <1>1
<1>5. /\ Len(u) = k + m
      /\ \A i \in 1..k : u[i] = s[i]
      /\ \A i \in 1..m : u[k + i] = t[i]
  BY <1>2, <1>3, <1>4, JoinedElements
<1>6. u # <<>> /\ Len(u) > 0 /\ Head(u) = Head(s)
  BY <1>4, <1>5
<1>7. PICK ts \in Seq(S) : ts = Tail(s) /\ Len(ts) = n /\ \A i \in 1..n : ts[i] = s[i + 1]
  BY <1>1, TailElements
<1>8. PICK tu \in Seq(S) : /\ tu = Tail(u) /\ Len(tu) = n + m
                           /\ \A i \in 1..n + m : tu[i] = u[i + 1]
  <2>1. n + m \in Nat /\ Len(u) = (n + m) + 1
    BY <1>4, <1>5
  <2> QED BY <2>1, TailElements
<1>9. PICK w \in Seq(S) :
        /\ w = Joined(ts, t) /\ Len(w) = n + m
        /\ \A i \in 1..n : w[i] = ts[i]
        /\ \A i \in 1..m : w[n + i] = t[i]
  <2>1. PICK w \in Seq(S) : w = Joined(ts, t)
    BY <1>7, JoinedIsSeq
  <2>2. n \in Nat /\ m \in Nat /\ ts \in Seq(S) /\ t \in Seq(S) /\ n = Len(ts) /\ m = Len(t)
    BY <1>1, <1>2, <1>7
  <2>3. /\ Len(w) = n + m
        /\ \A i \in 1..n : w[i] = ts[i]
        /\ \A i \in 1..m : w[n + i] = t[i]
    <3>1. Len(w) = n + m
      BY <2>1, <2>2, JoinedElements
    <3>2. \A i \in 1..n : w[i] = ts[i]
      BY <2>1, <2>2, JoinedElements
    <3>3. \A i \in 1..m : w[n + i] = t[i]
      BY <2>1, <2>2, JoinedElements, SMTT(60)
    <3> QED BY <3>1, <3>2, <3>3
  <2> QED BY <2>1, <2>3
<1>10. ASSUME NEW i \in 1..n + m PROVE tu[i] = w[i]
  <2>1. CASE i \in 1..n
    <3>1. i + 1 \in 1..k
      BY <1>4, <2>1
    <3> QED BY <1>5, <1>7, <1>8, <1>9, <2>1, <3>1
  <2>2. CASE i \notin 1..n
    <3>1. PICK j \in 1..m : i = n + j /\ i + 1 = k + j
      <4>1. i - n \in 1..m /\ i = n + (i - n) /\ i + 1 = k + (i - n)
        BY <1>4, <2>2
      <4> QED BY <4>1
    <3> QED BY <1>5, <1>8, <1>9, <3>1
  <2> QED BY <2>1, <2>2
<1>11. tu = w
  BY <1>8, <1>9, <1>10, SeqEqual
<1> QED BY <1>3, <1>6, <1>7, <1>8, <1>9, <1>11

\* What is still to be returned, level by level: the rest of the level's iterator,
\* if there is one, and then what the level above leads to.
Due(stk, n) == IF n <= Len(stk) THEN stk[n] ELSE <<>>

Pendings(ty, path, stk) ==
  {f \in [0..Len(path) -> Seq(Parts)] :
     /\ f[0] = <<>>
     /\ \A n \in 1..Len(path) :
          /\ f[n] \in Seq(PartsAt(ty, n))
          /\ f[n] = Joined(Due(stk, n), Spread(f[n - 1], path[n]))}

TypedStack(ty, stk) == \A k \in 1..Len(stk) : stk[k] \in Seq(PartsAt(ty, k))

\* The pending levels when the last iterator has returned an element: the same
\* without it.
Without(pend, k) == [pend EXCEPT ![k] = Tail(pend[k])]

LosesOne(ty, path, stk, pend, k) ==
  /\ pend[k] # <<>> /\ Head(pend[k]) = Head(stk[k])
  /\ Head(stk[k]) \in PartsAt(ty, k)
  /\ Tail(stk[k]) \in Seq(PartsAt(ty, k))
  /\ Tail(pend[k]) \in Seq(PartsAt(ty, k))
  /\ k >= 1 /\ pend[k - 1] \in Seq(Parts)
  /\ Tail(pend[k]) = Joined(Tail(stk[k]), Spread(pend[k - 1], path[k]))

LEMMA LastLevelLosesOne ==
  ASSUME NEW ty \in Seq(Layers \cup Primitives), NEW path \in Seq(Indexes), Fits(ty, path),
         NEW stk \in Seq(Seq(Parts)), TypedStack(ty, stk),
         NEW k \in 1..Len(path), k \in 1..Len(stk), stk[k] # <<>>,
         NEW pend \in Pendings(ty, path, stk)
  PROVE  LosesOne(ty, path, stk, pend, k)
<1>1. PICK m \in Nat : m = Len(path) /\ k \in 1..m /\ k - 1 \in 0..m
  <2>1. PICK m \in Nat : m = Len(path)
    OBVIOUS
  <2>2. k \in 1..m /\ k - 1 \in 0..m
    BY <2>1
  <2> QED BY <2>1, <2>2
<1>2. /\ pend \in [0..m -> Seq(Parts)] /\ pend[0] = <<>>
      /\ \A n \in 1..m : /\ pend[n] \in Seq(PartsAt(ty, n))
                         /\ pend[n] = Joined(Due(stk, n), Spread(pend[n - 1], path[n]))
  BY <1>1 DEF Pendings
<1>3. stk[k] \in Seq(PartsAt(ty, k)) /\ Due(stk, k) = stk[k]
  BY <1>1 DEF TypedStack, Due
<1>4. pend[k - 1] \in Seq(PartsAt(ty, k - 1))
  <2>1. CASE k - 1 = 0
    <3>1. <<>> \in Seq(PartsAt(ty, k - 1))
      OBVIOUS
    <3> QED BY <1>2, <2>1, <3>1, Zenon
  <2>2. CASE k - 1 # 0
    <3>1. k - 1 \in 1..m
      BY <1>1, <2>2
    <3> QED BY <1>2, <3>1
  <2> QED BY <2>1, <2>2
<1>5. PICK below \in Seq(PartsAt(ty, k)) : below = Spread(pend[k - 1], path[k])
  BY <1>4, SpreadAt
<1>6. pend[k] = Joined(stk[k], below)
  BY <1>1, <1>2, <1>3, <1>5
<1>7. PICK top \in Seq(PartsAt(ty, k)) : top = stk[k] /\ top # <<>>
  BY <1>3
<1>8. /\ pend[k] # <<>> /\ Head(pend[k]) = Head(top)
      /\ Tail(pend[k]) = Joined(Tail(top), below)
  BY <1>6, <1>7, JoinedHeadTail
<1>9. Head(top) \in PartsAt(ty, k) /\ Tail(top) \in Seq(PartsAt(ty, k))
  BY <1>7, HeadTailProperties
<1>10. Tail(pend[k]) \in Seq(PartsAt(ty, k))
  BY <1>8, <1>9, JoinedIsSeq
<1>11. k >= 1 /\ pend[k - 1] \in Seq(Parts)
  <2>1. pend[k - 1] \in Seq(Parts)
    BY <1>1, <1>2, Zenon
  <2> QED BY <1>1, <2>1
<1>12. Tail(pend[k]) = Joined(Tail(stk[k]), Spread(pend[k - 1], path[k]))
  BY <1>5, <1>7, <1>8
<1> QED BY <1>7, <1>8, <1>9, <1>10, <1>11, <1>12 DEF LosesOne

\* The stack after its last iterator has returned an element.
TopBecomes(stk, stk2, k, rest) ==
  /\ k \in Nat /\ Len(stk) = k
  /\ stk2 \in Seq(Seq(Parts)) /\ Len(stk2) = k
  /\ \A n \in 1..k : stk2[n] = IF n = k THEN rest ELSE stk[n]

LEMMA RestBecomes ==
  ASSUME NEW stk \in Seq(Seq(Parts)), stk # <<>>, NEW rest \in Seq(Parts)
  PROVE  TopBecomes(stk, [stk EXCEPT ![Len(stk)] = rest], Len(stk), rest)
  BY DEF TopBecomes

LEMMA DueWithoutTop ==
  ASSUME NEW stk \in Seq(Seq(Parts)), NEW k, k # 0, NEW stk2, NEW rest,
         TopBecomes(stk, stk2, k, rest), NEW n \in Nat \ {0}
  PROVE  /\ n = k => Due(stk2, n) = rest
         /\ n # k => Due(stk2, n) = Due(stk, n)
<1>1. /\ k \in Nat \ {0} /\ Len(stk) = k /\ Len(stk2) = k
      /\ \A i \in 1..k : stk2[i] = IF i = k THEN rest ELSE stk[i]
  BY DEF TopBecomes
<1>2. CASE n <= k
  <2>1. n \in 1..k
    BY <1>2
  <2>2. stk2[n] = IF n = k THEN rest ELSE stk[n]
    BY <1>1, <2>1
  <2>3. Due(stk2, n) = stk2[n] /\ Due(stk, n) = stk[n]
    BY <1>1, <1>2 DEF Due
  <2> QED BY <2>2, <2>3
<1>3. CASE ~(n <= k)
  <2>1. Due(stk2, n) = <<>> /\ Due(stk, n) = <<>> /\ n # k
    BY <1>1, <1>3 DEF Due
  <2> QED BY <2>1
<1> QED BY <1>2, <1>3

LEMMA LevelsArePartsSeqs ==
  ASSUME NEW ty, NEW n \in Nat, NEW s \in Seq(PartsAt(ty, n))
  PROVE  s \in Seq(Parts)
<1>1. PartsAt(ty, n) \subseteq Parts
  BY DEF PartsAt, PartsOf
<1>2. PICK S : S = PartsAt(ty, n)
  OBVIOUS
<1> QED BY <1>1, <1>2

LeafTaken(ty, path, pend, stk2, k) ==
  /\ stk2 \in Seq(Seq(Parts)) /\ Len(stk2) = k /\ TypedStack(ty, stk2)
  /\ Without(pend, k) \in Pendings(ty, path, stk2)
  /\ Without(pend, k)[k] = Tail(pend[k])

\* Returning a leaf takes the first of what is pending at the deepest level.
LEMMA PendingLeaf ==
  ASSUME NEW ty \in Seq(Layers \cup Primitives), NEW path \in Seq(Indexes), Fits(ty, path),
         NEW stk \in Seq(Seq(Parts)), TypedStack(ty, stk),
         NEW k \in Nat \ {0}, Len(path) = k, stk[k] # <<>>,
         NEW pend \in Pendings(ty, path, stk),
         NEW stk2, TopBecomes(stk, stk2, k, Tail(stk[k]))
  PROVE  LeafTaken(ty, path, pend, stk2, k)
<1>1. PICK rest \in Seq(PartsAt(ty, k)) :
        /\ rest = Tail(stk[k]) /\ Tail(pend[k]) \in Seq(PartsAt(ty, k))
        /\ Tail(pend[k]) = Joined(rest, Spread(pend[k - 1], path[k]))
  <2>1. k \in 1..Len(path) /\ k \in 1..Len(stk)
    BY DEF TopBecomes
  <2>2. /\ Tail(stk[k]) \in Seq(PartsAt(ty, k)) /\ Tail(pend[k]) \in Seq(PartsAt(ty, k))
        /\ Tail(pend[k]) = Joined(Tail(stk[k]), Spread(pend[k - 1], path[k]))
    <3>1. LosesOne(ty, path, stk, pend, k)
      BY <2>1, LastLevelLosesOne
    <3> QED BY <3>1 DEF LosesOne
  <2> QED BY <2>2
<1>2. rest \in Seq(Parts) /\ Tail(pend[k]) \in Seq(Parts)
  <2>1. k \in Nat
    OBVIOUS
  <2> QED BY <1>1, <2>1, LevelsArePartsSeqs
<1>3. TopBecomes(stk, stk2, k, rest)
  BY <1>1
<1>4. /\ stk2 \in Seq(Seq(Parts)) /\ Len(stk2) = k
      /\ \A n \in 1..k : stk2[n] = IF n = k THEN rest ELSE stk[n]
  BY <1>3 DEF TopBecomes
<1>5. TypedStack(ty, stk2)
  <2>1. ASSUME NEW n \in 1..k PROVE stk2[n] \in Seq(PartsAt(ty, n))
    <3>1. stk[n] \in Seq(PartsAt(ty, n))
      BY <1>3 DEF TypedStack, TopBecomes
    <3>2. CASE n = k
      BY <1>1, <1>4, <3>2
    <3>3. CASE n # k
      BY <1>4, <3>1, <3>3
    <3> QED BY <3>2, <3>3
  <2> QED BY <1>4, <2>1 DEF TypedStack
<1>6. PICK w : w = Without(pend, k)
  OBVIOUS
<1>7. /\ pend \in [0..k -> Seq(Parts)] /\ pend[0] = <<>>
      /\ \A n \in 1..k : /\ pend[n] \in Seq(PartsAt(ty, n))
                         /\ pend[n] = Joined(Due(stk, n), Spread(pend[n - 1], path[n]))
  BY DEF Pendings
<1>8. /\ w \in [0..k -> Seq(Parts)] /\ w[k] = Tail(pend[k])
      /\ \A n \in 0..k : n # k => w[n] = pend[n]
  BY <1>2, <1>6, <1>7 DEF Without
<1>9. w[0] = <<>>
  <2>1. w[0] = pend[0]
    BY <1>8
  <2> QED BY <1>7, <2>1
<1>10. ASSUME NEW n \in 1..k
       PROVE  w[n] \in Seq(PartsAt(ty, n)) /\ w[n] = Joined(Due(stk2, n), Spread(w[n - 1], path[n]))
  <2>0. n \in Nat \ {0} /\ n - 1 \in 0..k /\ n - 1 # k
    OBVIOUS
  <2>1. w[n - 1] = pend[n - 1]
    BY <1>8, <2>0
  <2>2. (n = k => Due(stk2, n) = rest) /\ (n # k => Due(stk2, n) = Due(stk, n))
    <3>1. k # 0
      OBVIOUS
    <3> QED BY <1>3, <2>0, <3>1, DueWithoutTop
  <2>3. CASE n = k
    BY <1>1, <1>8, <2>1, <2>2, <2>3
  <2>4. CASE n # k
    <3>1. w[n] = pend[n] /\ Due(stk2, n) = Due(stk, n)
      BY <1>8, <2>2, <2>4
    <3> QED BY <1>7, <2>1, <3>1
  <2> QED BY <2>3, <2>4
<1>11. w \in Pendings(ty, path, stk2)
  BY <1>8, <1>9, <1>10 DEF Pendings
<1> QED BY <1>3, <1>4, <1>5, <1>6, <1>8, <1>11 DEF LeafTaken

\* The stack after its last iterator has returned a container, and an iterator
\* over that one has been pushed.
Descends(stk, stk2, k, rest, its) ==
  /\ k \in Nat /\ Len(stk) = k
  /\ stk2 \in Seq(Seq(Parts)) /\ Len(stk2) = k + 1
  /\ \A n \in 1..k + 1 :
        stk2[n] = IF n = k + 1 THEN its ELSE IF n = k THEN rest ELSE stk[n]

LEMMA AppendDescends ==
  ASSUME NEW stk \in Seq(Seq(Parts)), stk # <<>>, NEW rest \in Seq(Parts), NEW its \in Seq(Parts)
  PROVE  Descends(stk, Append([stk EXCEPT ![Len(stk)] = rest], its), Len(stk), rest, its)
<1>1. PICK k \in Nat \ {0}, mid \in Seq(Seq(Parts)) :
        /\ k = Len(stk) /\ mid = [stk EXCEPT ![Len(stk)] = rest] /\ Len(mid) = k
        /\ \A n \in 1..k : mid[n] = IF n = k THEN rest ELSE stk[n]
  <2>1. TopBecomes(stk, [stk EXCEPT ![Len(stk)] = rest], Len(stk), rest)
    BY RestBecomes
  <2>2. PICK mid : mid = [stk EXCEPT ![Len(stk)] = rest]
    OBVIOUS
  <2>3. PICK k \in Nat \ {0} : k = Len(stk)
    BY EmptySeq
  <2>4. TopBecomes(stk, mid, k, rest)
    BY <2>1, <2>2, <2>3
  <2> QED BY <2>2, <2>3, <2>4 DEF TopBecomes
<1>2. /\ Append(mid, its) \in Seq(Seq(Parts)) /\ Len(Append(mid, its)) = k + 1
      /\ \A n \in 1..k + 1 : Append(mid, its)[n] = IF n = k + 1 THEN its ELSE mid[n]
  BY <1>1
<1>3. Descends(stk, Append(mid, its), k, rest, its)
  <2>1. PICK grown \in Seq(Seq(Parts)) :
          /\ grown = Append(mid, its) /\ Len(grown) = k + 1
          /\ \A n \in 1..k + 1 : grown[n] = IF n = k + 1 THEN its ELSE mid[n]
    BY <1>2
  <2>2. ASSUME NEW n \in 1..k + 1
        PROVE  grown[n] = IF n = k + 1 THEN its ELSE IF n = k THEN rest ELSE stk[n]
    BY <1>1, <2>1
  <2>3. Descends(stk, grown, k, rest, its)
    BY <1>1, <2>1, <2>2 DEF Descends
  <2> QED BY <2>1, <2>3
<1> QED BY <1>1, <1>3

DueDescends(stk, stk2, k, rest, its, n) ==
  /\ n = k => Due(stk2, n) = rest
  /\ n = k + 1 => Due(stk2, n) = its /\ Due(stk, n) = <<>>
  /\ n # k /\ n # k + 1 => Due(stk2, n) = Due(stk, n)

LEMMA DueAfterDescent ==
  ASSUME NEW stk \in Seq(Seq(Parts)), NEW k, k # 0, NEW stk2, NEW rest, NEW its,
         Descends(stk, stk2, k, rest, its), NEW n \in Nat \ {0}
  PROVE  DueDescends(stk, stk2, k, rest, its, n)
<1>1. /\ k \in Nat \ {0} /\ Len(stk) = k /\ Len(stk2) = k + 1
      /\ \A i \in 1..k + 1 :
            stk2[i] = IF i = k + 1 THEN its ELSE IF i = k THEN rest ELSE stk[i]
  BY DEF Descends
<1>2. CASE n <= k
  <2>1. n \in 1..k + 1 /\ n # k + 1 /\ n <= k + 1
    BY <1>1, <1>2
  <2>2. stk2[n] = IF n = k THEN rest ELSE stk[n]
    BY <1>1, <2>1
  <2>3. Due(stk2, n) = stk2[n] /\ Due(stk, n) = stk[n]
    BY <1>1, <1>2, <2>1 DEF Due
  <2> QED BY <1>1, <1>2, <2>1, <2>2, <2>3 DEF DueDescends
<1>3. CASE n = k + 1
  <2>1. n \in 1..k + 1 /\ n # k /\ ~(n <= k) /\ n <= k + 1
    BY <1>1, <1>3
  <2>2. stk2[n] = its
    BY <1>1, <1>3, <2>1
  <2>3. Due(stk2, n) = stk2[n] /\ Due(stk, n) = <<>>
    BY <1>1, <2>1 DEF Due
  <2> QED BY <1>3, <2>1, <2>2, <2>3 DEF DueDescends
<1>4. CASE ~(n <= k) /\ n # k + 1
  <2>1. ~(n <= k + 1) /\ n # k
    BY <1>1, <1>4
  <2>2. Due(stk2, n) = <<>> /\ Due(stk, n) = <<>>
    BY <1>1, <1>4, <2>1 DEF Due
  <2> QED BY <1>4, <2>1, <2>2 DEF DueDescends
<1> QED BY <1>2, <1>3, <1>4

ContainerTaken(ty, path, pend, stk2, k) ==
  /\ stk2 \in Seq(Seq(Parts)) /\ Len(stk2) = k + 1 /\ TypedStack(ty, stk2)
  /\ Without(pend, k) \in Pendings(ty, path, stk2)
  /\ Without(pend, k)[Len(path)] = pend[Len(path)]

\* Descending leaves what is pending at the deeper levels as it is: what the
\* container leads to is split off from what its level leads to.
LEMMA PendingDescend ==
  ASSUME NEW ty \in Seq(Layers \cup Primitives), NEW path \in Seq(Indexes), Fits(ty, path),
         NEW stk \in Seq(Seq(Parts)), TypedStack(ty, stk),
         NEW k \in Nat \ {0}, k < Len(path), stk[k] # <<>>,
         NEW pend \in Pendings(ty, path, stk), NEW stk2,
         Descends(stk, stk2, k, Tail(stk[k]), NewIterator(Head(stk[k]), path[k + 1]))
  PROVE  ContainerTaken(ty, path, pend, stk2, k)
<1>0. PICK m \in Nat : m = Len(path)
  OBVIOUS
<1>01. PICK j \in 1..m : /\ j = k + 1 /\ j - 1 = k /\ j \in Nat \ {0}
                         /\ k \in 1..m /\ k \in 0..m /\ m \in 0..m /\ m # k
  <2>1. k + 1 \in 1..m /\ (k + 1) - 1 = k /\ k \in 1..m /\ k \in 0..m /\ m \in 0..m /\ m # k
    BY <1>0
  <2> QED BY <2>1
<1>1. LosesOne(ty, path, stk, pend, k)
  <2>1. k \in 1..Len(path) /\ k \in 1..Len(stk)
    BY <1>0, <1>01 DEF Descends
  <2> QED BY <2>1, LastLevelLosesOne
<1>02. PICK its : its = NewIterator(Head(stk[k]), path[j])
  OBVIOUS
<1>2. PICK rest \in Seq(PartsAt(ty, k)) :
        /\ rest = Tail(stk[k]) /\ its = NewIterator(Head(stk[k]), path[j])
        /\ Tail(pend[k]) \in Seq(PartsAt(ty, k)) /\ Head(stk[k]) \in PartsAt(ty, k)
        /\ pend[k] # <<>> /\ Head(pend[k]) = Head(stk[k])
        /\ Tail(pend[k]) = Joined(rest, Spread(pend[k - 1], path[k]))
  BY <1>1, <1>02 DEF LosesOne
<1>3. Tail(pend[k]) \in Seq(Parts)
  BY <1>2, LevelsArePartsSeqs
<1>4. Descends(stk, stk2, k, rest, its)
  BY <1>2, <1>01
<1>5. PICK w : w = Without(pend, k)
  OBVIOUS
<1>6. /\ pend \in [0..m -> Seq(Parts)] /\ pend[0] = <<>>
      /\ \A n \in 1..m : /\ pend[n] \in Seq(PartsAt(ty, n))
                         /\ pend[n] = Joined(Due(stk, n), Spread(pend[n - 1], path[n]))
  BY <1>0 DEF Pendings
<1>7. /\ w \in [0..m -> Seq(Parts)] /\ w[k] = Tail(pend[k])
      /\ \A n \in 0..m : n # k => w[n] = pend[n]
  BY <1>01, <1>3, <1>5, <1>6 DEF Without
<1>8. w[0] = <<>> /\ w[m] = pend[m]
  <2>1. w[0] = pend[0] /\ w[m] = pend[m]
    BY <1>01, <1>7
  <2> QED BY <1>6, <2>1
\* The container descended into fits the next index.
<1>9. /\ path[j] \in Indexes /\ Steps(SubSeq(ty, j, Len(ty)), path[j])
      /\ NextType(SubSeq(ty, j, Len(ty))) = SubSeq(ty, j + 1, Len(ty))
  BY <1>0, <1>01, FitsSteps
<1>10. PICK tk : tk = SubSeq(ty, j, Len(ty)) /\ PartsAt(ty, k) = PartsOf(tk)
  BY <1>01 DEF PartsAt
<1>11. NextType(tk) = SubSeq(ty, j + 1, Len(ty)) /\ PartsAt(ty, j) = PartsOf(NextType(tk))
  BY <1>9, <1>10 DEF PartsAt
<1>12. its \in Seq(PartsAt(ty, j))
  BY <1>2, <1>9, <1>10, <1>11, NewIteratorIsSeq
<1>13. Spread(pend[k], path[j]) = Joined(its, Spread(Tail(pend[k]), path[j]))
  <2>1. pend[k] \in Seq(PartsOf(tk)) /\ pend[k] # <<>> /\ Steps(tk, path[j])
    BY <1>01, <1>2, <1>6, <1>9, <1>10
  <2>2. Spread(pend[k], path[j])
          = Joined(NewIterator(Head(pend[k]), path[j]), Spread(Tail(pend[k]), path[j]))
    BY <1>9, <2>1, SpreadCons
  <2> QED BY <1>2, <2>2
<1>14. pend[j] = Joined(its, Spread(Tail(pend[k]), path[j]))
  <2>1. Due(stk, j) = <<>>
    <3>1. k # 0 /\ j \in Nat \ {0}
      BY <1>01
    <3>2. DueDescends(stk, stk2, k, rest, its, j)
      BY <1>4, <3>1, DueAfterDescent
    <3> QED BY <1>01, <3>2 DEF DueDescends
  <2>2. pend[j] = Joined(<<>>, Spread(pend[k], path[j]))
    BY <1>01, <1>6, <2>1, Zenon
  <2>3. pend[k] \in Seq(PartsAt(ty, j - 1))
    BY <1>01, <1>6
  <2>4. Spread(pend[k], path[j]) \in Seq(PartsAt(ty, j))
    BY <1>0, <2>3, SpreadAt
  <2>5. Joined(<<>>, Spread(pend[k], path[j])) = Spread(pend[k], path[j])
    BY <2>4, JoinedEmpty
  <2> QED BY <1>13, <2>2, <2>5
<1>15. ASSUME NEW n \in 1..m
       PROVE  w[n] \in Seq(PartsAt(ty, n)) /\ w[n] = Joined(Due(stk2, n), Spread(w[n - 1], path[n]))
  <2>0. n \in Nat \ {0} /\ n - 1 \in 0..m /\ n \in 0..m
    OBVIOUS
  <2>1. /\ n = k => Due(stk2, n) = rest
        /\ n = k + 1 => Due(stk2, n) = its
        /\ n # k /\ n # k + 1 => Due(stk2, n) = Due(stk, n)
    <3>1. k # 0
      OBVIOUS
    <3>2. DueDescends(stk, stk2, k, rest, its, n)
      BY <1>4, <2>0, <3>1, DueAfterDescent
    <3> QED BY <3>2 DEF DueDescends
  <2>2. CASE n = k
    <3>0. n - 1 \in 0..m /\ n - 1 # k
      BY <2>0, <2>2
    <3>1. w[n - 1] = pend[n - 1]
      BY <1>7, <3>0, Zenon
    <3> QED BY <1>2, <1>7, <2>1, <2>2, <3>1
  <2>3. CASE n = j
    <3>0. n # k /\ n - 1 = k /\ Due(stk2, n) = its
      BY <1>01, <2>0, <2>1, <2>3
    <3>00. w[n] = pend[n]
      BY <1>7, <2>0, <3>0, Zenon
    <3>1. n # k /\ n - 1 = k /\ Due(stk2, n) = its /\ w[n] = pend[n]
      BY <3>0, <3>00
    <3>2. w[n - 1] = Tail(pend[k])
      BY <1>7, <3>1
    <3>3. w[n] = Joined(its, Spread(Tail(pend[k]), path[n]))
      BY <1>14, <2>3, <3>1
    <3> QED BY <1>6, <3>1, <3>2, <3>3
  <2>4. CASE n # k /\ n # j
    <3>0. n - 1 # k /\ n # k /\ Due(stk2, n) = Due(stk, n)
      BY <1>01, <2>0, <2>1, <2>4
    <3>1. w[n] = pend[n] /\ w[n - 1] = pend[n - 1]
      BY <1>7, <2>0, <3>0, Zenon
    <3> QED BY <1>6, <3>0, <3>1
  <2> QED BY <2>2, <2>3, <2>4
<1>16. w \in Pendings(ty, path, stk2)
  BY <1>0, <1>7, <1>8, <1>15 DEF Pendings
<1>17. /\ stk2 \in Seq(Seq(Parts)) /\ Len(stk2) = k + 1 /\ Len(stk) = k
       /\ \A n \in 1..k + 1 :
             stk2[n] = IF n = k + 1 THEN its ELSE IF n = k THEN rest ELSE stk[n]
  BY <1>4 DEF Descends
<1>18. TypedStack(ty, stk2)
  <2>1. ASSUME NEW n \in 1..k + 1 PROVE stk2[n] \in Seq(PartsAt(ty, n))
    <3>1. CASE n = k + 1
      BY <1>01, <1>12, <1>17, <3>1
    <3>2. CASE n = k
      <4>1. n # k + 1
        BY <3>2
      <4>2. stk2[n] = rest
        BY <1>17, <3>2, <4>1
      <4> QED BY <1>2, <3>2, <4>2, Zenon
    <3>3. CASE n # k /\ n # k + 1
      <4>1. n \in 1..Len(stk)
        BY <1>17, <3>3
      <4> QED BY <1>17, <3>3, <4>1 DEF TypedStack
    <3> QED BY <3>1, <3>2, <3>3
  <2> QED BY <1>17, <2>1 DEF TypedStack
<1> QED BY <1>0, <1>5, <1>8, <1>16, <1>17, <1>18 DEF ContainerTaken

\* An exhausted iterator owes nothing, on the stack or off it.
Finished(stk, stk2, k) ==
  /\ k \in Nat \ {0} /\ Len(stk) = k
  /\ stk2 \in Seq(Seq(Parts)) /\ Len(stk2) = k - 1
  /\ \A n \in 1..k - 1 : stk2[n] = stk[n]

LEMMA FrontFinished ==
  ASSUME NEW stk \in Seq(Seq(Parts)), stk # <<>>
  PROVE  Finished(stk, Front(stk), Len(stk))
<1>1. PICK k \in Nat \ {0} : k = Len(stk)
  BY EmptySeq
<1>2. PICK stk2 : stk2 = SubSeq(stk, 1, k - 1)
  OBVIOUS
<1>3. stk2 \in Seq(Seq(Parts)) /\ Len(stk2) = k - 1 /\ \A n \in 1..k - 1 : stk2[n] = stk[n]
  BY <1>1, <1>2
<1>4. Finished(stk, stk2, k)
  BY <1>1, <1>3 DEF Finished
<1>5. Front(stk) = stk2
  BY <1>1, <1>2 DEF Front
<1> QED BY <1>1, <1>4, <1>5

LEMMA DueAfterFinish ==
  ASSUME NEW stk \in Seq(Seq(Parts)), NEW stk2, NEW k, Finished(stk, stk2, k), stk[k] = <<>>,
         NEW n \in Nat \ {0}
  PROVE  Due(stk2, n) = Due(stk, n)
<1>1. /\ k \in Nat \ {0} /\ Len(stk) = k /\ Len(stk2) = k - 1
      /\ \A i \in 1..k - 1 : stk2[i] = stk[i]
  BY DEF Finished
<1>2. CASE n < k
  <2>1. n \in 1..k - 1 /\ n <= k - 1 /\ n <= k
    BY <1>1, <1>2
  <2>2. stk2[n] = stk[n]
    BY <1>1, <2>1
  <2> QED BY <1>1, <2>1, <2>2 DEF Due
<1>3. CASE n = k
  <2>1. ~(n <= k - 1) /\ n <= k
    BY <1>1, <1>3
  <2> QED BY <1>1, <1>3, <2>1 DEF Due
<1>4. CASE n > k
  <2>1. ~(n <= k - 1) /\ ~(n <= k)
    BY <1>1, <1>4
  <2> QED BY <1>1, <2>1 DEF Due
<1> QED BY <1>1, <1>2, <1>3, <1>4

LEMMA PendingFinish ==
  ASSUME NEW ty \in Seq(Layers \cup Primitives), NEW path \in Seq(Indexes),
         NEW stk \in Seq(Seq(Parts)), TypedStack(ty, stk),
         NEW stk2, NEW k, Finished(stk, stk2, k), stk[k] = <<>>,
         NEW pend \in Pendings(ty, path, stk)
  PROVE  /\ stk2 \in Seq(Seq(Parts)) /\ Len(stk2) = k - 1 /\ TypedStack(ty, stk2)
         /\ pend \in Pendings(ty, path, stk2)
<1>1. /\ k \in Nat \ {0} /\ Len(stk) = k /\ Len(stk2) = k - 1 /\ stk2 \in Seq(Seq(Parts))
      /\ \A i \in 1..k - 1 : stk2[i] = stk[i]
  BY DEF Finished
<1>2. TypedStack(ty, stk2)
  <2>1. ASSUME NEW n \in 1..k - 1 PROVE stk2[n] \in Seq(PartsAt(ty, n))
    <3>1. n \in 1..Len(stk)
      BY <1>1
    <3> QED BY <1>1, <3>1 DEF TypedStack
  <2> QED BY <1>1, <2>1 DEF TypedStack
<1>3. PICK m \in Nat : m = Len(path)
  OBVIOUS
<1>4. /\ pend \in [0..m -> Seq(Parts)] /\ pend[0] = <<>>
      /\ \A n \in 1..m : /\ pend[n] \in Seq(PartsAt(ty, n))
                         /\ pend[n] = Joined(Due(stk, n), Spread(pend[n - 1], path[n]))
  BY <1>3 DEF Pendings
<1>5. ASSUME NEW n \in 1..m
      PROVE  pend[n] = Joined(Due(stk2, n), Spread(pend[n - 1], path[n]))
  <2>1. n \in Nat \ {0}
    OBVIOUS
  <2>2. Due(stk2, n) = Due(stk, n)
    BY <2>1, DueAfterFinish
  <2> QED BY <1>4, <2>2
<1>6. pend \in Pendings(ty, path, stk2)
  BY <1>3, <1>4, <1>5 DEF Pendings
<1> QED BY <1>1, <1>2, <1>6

\* Before the first step all leaves are pending.
LEMMA PendingStart ==
  ASSUME NEW v \in Parts, NEW path \in Seq(Indexes), Fits(TypeOf(v), path), path # <<>>,
         NEW its, its = NewIterator(v, path[1])
  PROVE  /\ its \in Seq(Parts) /\ TypedStack(TypeOf(v), <<its>>)
         /\ \E pend \in Pendings(TypeOf(v), path, <<its>>) : pend[Len(path)] = Leaves(v, path)
<1>1. PICK ty \in Seq(Layers \cup Primitives) : ty = TypeOf(v)
  BY PartsAssumption
<1>2. Fits(ty, path)
  BY <1>1
<1>3. PICK m \in Nat \ {0} : m = Len(path)
  BY EmptySeq
<1>4. PICK f : f \in LeafLevels(v, path)
  BY LevelsExist
<1>5. PICK one \in Seq(Parts) : one = <<v>> /\ one # <<>> /\ Head(one) = v /\ Tail(one) = <<>>
  <2>1. <<v>> \in Seq(Parts)
    OBVIOUS
  <2>2. <<v>> # <<>> /\ Head(<<v>>) = v
    OBVIOUS
  <2>3. Tail(<<v>>) = <<>>
    OBVIOUS
  <2> QED BY <2>1, <2>2, <2>3, Zenon
<1>6. /\ f \in [0..m -> Seq(Parts)] /\ f[0] = one
      /\ \A n \in 1..m : f[n] \in Seq(PartsAt(ty, n)) /\ f[n] = Spread(f[n - 1], path[n])
  BY <1>1, <1>3, <1>4, <1>5 DEF LeafLevels
<1>7. Leaves(v, path) = f[m]
  BY <1>3, <1>4, LevelsUnfold
<1>8. PICK none : none = <<>> /\ none \in Seq(Parts)
  <2>1. <<>> \in Seq(Parts)
    OBVIOUS
  <2> QED BY <2>1
<1>9. /\ path[1] \in Indexes /\ Steps(SubSeq(ty, 1, Len(ty)), path[1])
      /\ NextType(SubSeq(ty, 1, Len(ty))) = SubSeq(ty, 1 + 1, Len(ty)) /\ SubSeq(ty, 1, Len(ty)) = ty
  <2>1. 1 \in 1..Len(path)
    BY <1>3
  <2> QED BY <1>2, <2>1, FitsSteps, SubSeqFull
<1>10. NextType(ty) = SubSeq(ty, 1 + 1, Len(ty)) /\ Steps(ty, path[1])
  BY <1>9
<1>11. v \in PartsOf(ty) /\ one \in Seq(PartsOf(ty))
  BY <1>1, <1>5 DEF PartsOf
<1>12. its \in Seq(PartsAt(ty, 1))
  BY <1>9, <1>10, <1>11, NewIteratorIsSeq DEF PartsAt
<1>13. its \in Seq(Parts)
  BY <1>12, LevelsArePartsSeqs
<1>14. PICK stk : stk = <<its>> /\ stk \in Seq(Seq(Parts)) /\ Len(stk) = 1 /\ stk[1] = its
  <2>1. PICK S : S = Seq(Parts)
    OBVIOUS
  <2>2. its \in S
    BY <1>13, <2>1
  <2>3. <<its>> \in Seq(S) /\ Len(<<its>>) = 1 /\ <<its>>[1] = its
    BY <2>2
  <2> QED BY <2>1, <2>3
<1>15. TypedStack(ty, stk)
  BY <1>12, <1>14 DEF TypedStack
<1>16. Spread(none, path[1]) = none
  BY <1>8, SpreadEmpty
<1>17. f[1] = its
  <2>1. Spread(one, path[1]) = Joined(NewIterator(Head(one), path[1]), Spread(Tail(one), path[1]))
    BY <1>5, <1>9, <1>10, <1>11, SpreadCons
  <2>2. Spread(one, path[1]) = Joined(its, none)
    BY <1>5, <1>8, <1>16, <2>1
  <2>3. Joined(its, none) = its
    BY <1>8, <1>13, JoinedEmpty
  <2>4. f[1] = Spread(f[1 - 1], path[1])
    BY <1>3, <1>6
  <2> QED BY <1>6, <2>2, <2>3, <2>4
<1> DEFINE p == [f EXCEPT ![0] = none]
<1>18. PICK pend : pend = p
  OBVIOUS
<1>19. /\ pend \in [0..m -> Seq(Parts)] /\ pend[0] = none
       /\ \A n \in 1..m : pend[n] = f[n]
  BY <1>6, <1>8, <1>18
<1> HIDE DEF p
<1>20. ASSUME NEW n \in 1..m
       PROVE  /\ pend[n] \in Seq(PartsAt(ty, n))
              /\ pend[n] = Joined(Due(stk, n), Spread(pend[n - 1], path[n]))
  <2>1. pend[n] = f[n] /\ pend[n] \in Seq(PartsAt(ty, n)) /\ f[n] = Spread(f[n - 1], path[n])
    BY <1>6, <1>19
  <2>2. CASE n = 1
    <3>1. Due(stk, n) = its
      BY <1>14, <2>2 DEF Due
    <3>2. n - 1 = 0 /\ pend[n - 1] = none
      BY <1>19, <2>2
    <3>3. Joined(Due(stk, n), Spread(pend[n - 1], path[n])) = Joined(its, none)
      BY <1>16, <2>2, <3>1, <3>2
    <3>4. Joined(its, none) = its
      BY <1>8, <1>13, JoinedEmpty
    <3> QED BY <1>17, <2>1, <2>2, <3>3, <3>4
  <2>3. CASE n # 1
    <3>1. Due(stk, n) = none
      BY <1>8, <1>14, <2>3 DEF Due
    <3>2. n - 1 \in 1..m
      BY <2>3
    <3>3. pend[n - 1] = f[n - 1]
      BY <1>19, <3>2
    <3>4. f[n] \in Seq(PartsAt(ty, n))
      BY <2>1
    <3>5. Joined(none, f[n]) = f[n]
      BY <1>8, <3>4, JoinedEmpty
    <3> QED BY <2>1, <3>1, <3>3, <3>5
  <2> QED BY <2>2, <2>3
<1>21. pend \in Pendings(ty, path, stk)
  BY <1>3, <1>8, <1>19, <1>20 DEF Pendings
<1>22. pend[m] = Leaves(v, path)
  <2>1. m \in 1..m
    OBVIOUS
  <2> QED BY <1>7, <1>19, <2>1
<1> QED BY <1>1, <1>3, <1>13, <1>14, <1>15, <1>21, <1>22

-----------------------------------------------------------------------------
\* What is returned and what is pending make up all leaves.
Keeps(ty, path, stk, o, all) ==
  /\ stk \in Seq(Seq(Parts)) /\ Len(stk) <= Len(path) /\ TypedStack(ty, stk)
  /\ o \in Seq(Parts)
  /\ \E pend \in Pendings(ty, path, stk) : Joined(o, pend[Len(path)]) = all

LEMMA JoinedAppend ==
  ASSUME NEW S, NEW o \in Seq(S), NEW due \in Seq(S), due # <<>>
  PROVE  Joined(o, due) = Joined(Append(o, Head(due)), Tail(due))
<1>1. PICK n \in Nat \ {0} : n = Len(due)
  BY EmptySeq
<1>2. PICK h \in S, rest \in Seq(S) : h = Head(due) /\ h = due[1] /\ rest = Tail(due)
  <2>1. Head(due) \in S /\ Tail(due) \in Seq(S)
    BY HeadTailProperties
  <2>2. Head(due) = due[1]
    BY <1>1
  <2> QED BY <2>1, <2>2
<1>3. PICK one \in Seq(S) : one = <<h>>
  <2>1. <<h>> \in Seq(S)
    BY <1>2
  <2> QED BY <2>1
<1>4. due = Joined(one, rest)
  <2>1. 1 \in 1..Len(due) /\ Len(due) \in 1..Len(due)
    BY <1>1
  <2>2. /\ SubSeq(due, 1, Len(due)) = <<due[1]>> \o SubSeq(due, 1 + 1, Len(due))
        /\ Tail(SubSeq(due, 1, Len(due))) = SubSeq(due, 1 + 1, Len(due))
    BY <2>1, SubSeqRecursiveFirst, HeadTailOfSubSeq
  <2>3. SubSeq(due, 1, Len(due)) = due
    BY SubSeqFull
  <2>4. due = <<due[1]>> \o Tail(due)
    BY <2>2, <2>3, Zenon
  <2>5. due = one \o rest
    BY <1>2, <1>3, <2>4, Zenon
  <2> QED BY <2>5 DEF Joined
<1>5. Append(o, h) = Joined(o, one)
  BY <1>2, <1>3, AppendIsConcat DEF Joined
<1>6. Joined(Joined(o, one), rest) = Joined(o, Joined(one, rest))
  <2>1. one \in Seq(S) /\ rest \in Seq(S)
    BY <1>2, <1>3
  <2> QED BY <2>1, JoinedAssociative
<1>7. Joined(o, Joined(one, rest)) = Joined(o, due)
  BY <1>4
<1> QED BY <1>2, <1>5, <1>6, <1>7, Zenon

LEMMA StartKeeps ==
  ASSUME NEW v \in Parts, NEW path \in Seq(Indexes), Fits(TypeOf(v), path), path # <<>>
  PROVE  Keeps(TypeOf(v), path, <<NewIterator(v, Head(path))>>, <<>>, Leaves(v, path))
<1>1. PICK its : its = NewIterator(v, path[1])
  OBVIOUS
<1>2. PICK ty : ty = TypeOf(v)
  OBVIOUS
<1>3. its \in Seq(Parts) /\ TypedStack(ty, <<its>>)
  BY <1>1, <1>2, PendingStart
<1>4. PICK pend \in Pendings(ty, path, <<its>>) : pend[Len(path)] = Leaves(v, path)
  BY <1>1, <1>2, PendingStart
<1>5. PICK m \in Nat \ {0} : m = Len(path)
  BY EmptySeq
<1>6. PICK stk : stk = <<its>> /\ stk \in Seq(Seq(Parts)) /\ Len(stk) = 1
  <2>1. PICK S : S = Seq(Parts)
    OBVIOUS
  <2>2. its \in S
    BY <1>3, <2>1
  <2>3. <<its>> \in Seq(S) /\ Len(<<its>>) = 1
    BY <2>2
  <2> QED BY <2>1, <2>3
<1>7. pend[m] \in Seq(Parts) /\ pend[m] = Leaves(v, path)
  BY <1>4, <1>5 DEF Pendings
<1>8. Joined(<<>>, pend[m]) = Leaves(v, path)
  BY <1>7, JoinedEmpty, Zenon
<1>9. PICK none : none = <<>> /\ none \in Seq(Parts)
  <2>1. <<>> \in Seq(Parts)
    OBVIOUS
  <2> QED BY <2>1
<1>10. Keeps(ty, path, stk, none, Leaves(v, path))
  <2>1. Joined(none, pend[Len(path)]) = Leaves(v, path)
    BY <1>5, <1>8, <1>9
  <2>2. pend \in Pendings(ty, path, stk) /\ TypedStack(ty, stk)
    BY <1>3, <1>4, <1>6
  <2>3. Len(stk) <= Len(path)
    BY <1>5, <1>6
  <2> QED BY <1>6, <1>9, <2>1, <2>2, <2>3 DEF Keeps
<1>11. Head(path) = path[1]
  BY <1>5
<1> QED BY <1>1, <1>2, <1>6, <1>9, <1>10, <1>11

\* The last element of a level is a leaf.
LEMMA LeafKeeps ==
  ASSUME NEW ty \in Seq(Layers \cup Primitives), NEW path \in Seq(Indexes), Fits(ty, path),
         NEW stk, NEW o, NEW all, Keeps(ty, path, stk, o, all),
         stk # <<>>, Len(stk) = Len(path), stk[Len(stk)] # <<>>
  PROVE  Keeps(ty, path, [stk EXCEPT ![Len(stk)] = Tail(stk[Len(stk)])],
               Append(o, Head(stk[Len(stk)])), all)
<1>1. /\ stk \in Seq(Seq(Parts)) /\ TypedStack(ty, stk) /\ o \in Seq(Parts)
  BY DEF Keeps
<1>2. PICK pend \in Pendings(ty, path, stk) : Joined(o, pend[Len(path)]) = all
  BY DEF Keeps
<1>3. PICK k \in Nat \ {0} : k = Len(stk)
  BY <1>1, EmptySeq
<1>4. Len(path) = k /\ stk[k] # <<>> /\ k \in 1..Len(path) /\ k \in 1..Len(stk)
  BY <1>3
<1>5. LosesOne(ty, path, stk, pend, k)
  BY <1>1, <1>4, LastLevelLosesOne
<1>6. PICK top : top = stk[k] /\ top \in Seq(Parts)
  BY <1>1, <1>4
<1>7. Tail(top) \in Seq(Parts) /\ Head(top) \in Parts
  BY <1>4, <1>6, HeadTailProperties
<1>8. PICK stk2 : stk2 = [stk EXCEPT ![Len(stk)] = Tail(stk[Len(stk)])]
  OBVIOUS
<1>9. TopBecomes(stk, stk2, k, Tail(stk[k]))
  <2>1. TopBecomes(stk, [stk EXCEPT ![Len(stk)] = Tail(top)], Len(stk), Tail(top))
    BY <1>1, <1>7, RestBecomes
  <2>2. stk2 = [stk EXCEPT ![Len(stk)] = Tail(top)]
    BY <1>3, <1>6, <1>8
  <2> QED BY <1>3, <1>6, <2>1, <2>2
<1>10. /\ stk2 \in Seq(Seq(Parts)) /\ Len(stk2) = k /\ TypedStack(ty, stk2)
       /\ Without(pend, k) \in Pendings(ty, path, stk2)
       /\ Without(pend, k)[k] = Tail(pend[k])
  <2>1. LeafTaken(ty, path, pend, stk2, k)
    BY <1>1, <1>4, <1>9, PendingLeaf
  <2> QED BY <2>1 DEF LeafTaken
<1>11. pend[k] # <<>> /\ Head(pend[k]) = Head(top) /\ pend[k] \in Seq(Parts)
  BY <1>4, <1>5, <1>6 DEF LosesOne, Pendings
<1>12. Joined(o, pend[k]) = Joined(Append(o, Head(top)), Tail(pend[k]))
  BY <1>1, <1>11, JoinedAppend
<1>13. PICK o2 \in Seq(Parts) : o2 = Append(o, Head(top))
  BY <1>1, <1>7, AppendProperties
<1>14. Joined(o2, Without(pend, k)[Len(path)]) = all
  BY <1>2, <1>4, <1>10, <1>12, <1>13
<1>15. Keeps(ty, path, stk2, o2, all)
  <2>1. Len(stk2) <= Len(path)
    BY <1>4, <1>10
  <2> QED BY <1>10, <1>13, <1>14, <2>1 DEF Keeps
<1> QED BY <1>3, <1>6, <1>8, <1>13, <1>15

LEMMA DescendFits ==
  ASSUME NEW ty \in Seq(Layers \cup Primitives), NEW path \in Seq(Indexes), Fits(ty, path),
         NEW stk, NEW o, NEW all, Keeps(ty, path, stk, o, all),
         stk # <<>>, Len(stk) # Len(path), stk[Len(stk)] # <<>>
  PROVE  /\ Iterable(Head(stk[Len(stk)]), path[Len(stk) + 1])
         /\ NewIterator(Head(stk[Len(stk)]), path[Len(stk) + 1]) \in Seq(Parts)
<1>1. /\ stk \in Seq(Seq(Parts)) /\ TypedStack(ty, stk) /\ Len(stk) <= Len(path)
  BY DEF Keeps
<1>2. PICK k \in Nat \ {0} : k = Len(stk)
  BY <1>1, EmptySeq
<1>3. PICK j : j = k + 1 /\ j \in 1..Len(path) /\ k \in 1..Len(stk)
  <2>1. k + 1 \in 1..Len(path) /\ k \in 1..Len(stk)
    BY <1>1, <1>2
  <2> QED BY <2>1
<1>4. stk[k] \in Seq(PartsAt(ty, k)) /\ stk[k] # <<>>
  BY <1>1, <1>2, <1>3 DEF TypedStack
<1>5. PICK part : part = Head(stk[k]) /\ part \in PartsAt(ty, k)
  BY <1>4, HeadTailProperties
<1>6. PICK tk : tk = SubSeq(ty, j, Len(ty)) /\ PartsAt(ty, k) = PartsOf(tk)
  BY <1>3 DEF PartsAt
<1>7. path[j] \in Indexes /\ Steps(tk, path[j])
  BY <1>3, <1>6, FitsSteps
<1>8. part \in PartsOf(tk)
  BY <1>5, <1>6
<1>9. Iterable(part, path[j])
  BY <1>7, <1>8 DEF Iterable, PartsOf
<1>10. NewIterator(part, path[j]) \in Seq(PartsOf(NextType(tk)))
  BY <1>7, <1>8, NewIteratorIsSeq
<1>11. NewIterator(part, path[j]) \in Seq(Parts)
  <2>1. PICK S : S = PartsOf(NextType(tk)) /\ S \subseteq Parts
    BY DEF PartsOf
  <2> QED BY <1>10, <2>1
<1> QED BY <1>2, <1>3, <1>5, <1>9, <1>11

LEMMA DescendKeeps ==
  ASSUME NEW ty \in Seq(Layers \cup Primitives), NEW path \in Seq(Indexes), Fits(ty, path),
         NEW stk, NEW o, NEW all, Keeps(ty, path, stk, o, all),
         stk # <<>>, Len(stk) # Len(path), stk[Len(stk)] # <<>>
  PROVE  Keeps(ty, path,
               Append([stk EXCEPT ![Len(stk)] = Tail(stk[Len(stk)])],
                      NewIterator(Head(stk[Len(stk)]), path[Len(stk) + 1])),
               o, all)
<1>1. /\ stk \in Seq(Seq(Parts)) /\ TypedStack(ty, stk) /\ Len(stk) <= Len(path)
      /\ o \in Seq(Parts)
  BY DEF Keeps
<1>2. PICK pend \in Pendings(ty, path, stk) : Joined(o, pend[Len(path)]) = all
  BY DEF Keeps
<1>3. PICK k \in Nat \ {0} : k = Len(stk)
  BY <1>1, EmptySeq
<1>4. k < Len(path) /\ stk[k] # <<>>
  BY <1>1, <1>3
<1>5. PICK top : top = stk[k] /\ top \in Seq(Parts)
  BY <1>1, <1>3
<1>6. Tail(top) \in Seq(Parts)
  BY <1>4, <1>5, HeadTailProperties
<1>7. PICK its : its = NewIterator(Head(stk[Len(stk)]), path[Len(stk) + 1]) /\ its \in Seq(Parts)
  BY DescendFits
<1>8. its = NewIterator(Head(stk[k]), path[k + 1])
  BY <1>3, <1>7
<1>9. PICK stk2 : stk2 = Append([stk EXCEPT ![Len(stk)] = Tail(top)], its)
  OBVIOUS
<1>10. Descends(stk, stk2, k, Tail(top), its)
  <2>1. Descends(stk, Append([stk EXCEPT ![Len(stk)] = Tail(top)], its), Len(stk), Tail(top), its)
    BY <1>1, <1>6, <1>7, AppendDescends
  <2> QED BY <1>3, <1>9, <2>1
<1>11. Descends(stk, stk2, k, Tail(stk[k]), NewIterator(Head(stk[k]), path[k + 1]))
  BY <1>5, <1>8, <1>10
<1>12. /\ stk2 \in Seq(Seq(Parts)) /\ Len(stk2) = k + 1 /\ TypedStack(ty, stk2)
       /\ Without(pend, k) \in Pendings(ty, path, stk2)
       /\ Without(pend, k)[Len(path)] = pend[Len(path)]
  <2>1. ContainerTaken(ty, path, pend, stk2, k)
    BY <1>1, <1>4, <1>11, PendingDescend
  <2> QED BY <2>1 DEF ContainerTaken
<1>13. Keeps(ty, path, stk2, o, all)
  <2>1. Joined(o, Without(pend, k)[Len(path)]) = all
    BY <1>2, <1>12
  <2>2. Len(stk2) <= Len(path)
    BY <1>4, <1>12
  <2> QED BY <1>1, <1>12, <2>1, <2>2 DEF Keeps
<1>14. stk2 = Append([stk EXCEPT ![Len(stk)] = Tail(stk[Len(stk)])],
                     NewIterator(Head(stk[Len(stk)]), path[Len(stk) + 1]))
  BY <1>3, <1>5, <1>7, <1>9
<1> QED BY <1>13, <1>14

LEMMA FinishKeeps ==
  ASSUME NEW ty \in Seq(Layers \cup Primitives), NEW path \in Seq(Indexes),
         NEW stk, NEW o, NEW all, Keeps(ty, path, stk, o, all),
         stk # <<>>, stk[Len(stk)] = <<>>
  PROVE  Keeps(ty, path, Front(stk), o, all)
<1>1. /\ stk \in Seq(Seq(Parts)) /\ TypedStack(ty, stk) /\ Len(stk) <= Len(path)
      /\ o \in Seq(Parts)
  BY DEF Keeps
<1>2. PICK pend \in Pendings(ty, path, stk) : Joined(o, pend[Len(path)]) = all
  BY DEF Keeps
<1>3. PICK k \in Nat \ {0} : k = Len(stk)
  BY <1>1, EmptySeq
<1>30. PICK stk2 : stk2 = Front(stk)
  OBVIOUS
<1>4. Finished(stk, stk2, k) /\ stk[k] = <<>>
  BY <1>1, <1>3, <1>30, FrontFinished
<1>5. /\ stk2 \in Seq(Seq(Parts)) /\ Len(stk2) = k - 1 /\ TypedStack(ty, stk2)
      /\ pend \in Pendings(ty, path, stk2)
  BY <1>1, <1>4, PendingFinish
<1>6. Len(stk2) <= Len(path)
  BY <1>1, <1>3, <1>5
<1>7. Keeps(ty, path, stk2, o, all)
  BY <1>1, <1>2, <1>5, <1>6 DEF Keeps
<1> QED BY <1>7, <1>30

\* What was returned is a prefix of the leaves, and once no iterator is left
\* nothing is pending.
LEMMA KeepsPrefix ==
  ASSUME NEW ty, NEW path \in Seq(Indexes), NEW stk, NEW o, NEW all, Keeps(ty, path, stk, o, all)
  PROVE  IsPrefix(o, all)
<1>1. PICK pend \in Pendings(ty, path, stk) : Joined(o, pend[Len(path)]) = all
  BY DEF Keeps
<1>2. PICK due \in Seq(Parts) : due = pend[Len(path)] /\ o \in Seq(Parts)
  BY <1>1 DEF Keeps, Pendings
<1>3. PICK n \in Nat, m \in Nat : n = Len(o) /\ m = Len(due)
  BY <1>2
<1>4. all \in Seq(Parts) /\ Len(all) = n + m /\ \A i \in 1..n : all[i] = o[i]
  <2>1. all = Joined(o, due)
    BY <1>1, <1>2
  <2>2. all \in Seq(Parts)
    BY <1>2, <2>1, JoinedIsSeq
  <2>3. Len(all) = n + m
    <3>1. Len(Joined(o, due)) = Len(o) + Len(due)
      BY <1>2, JoinedLength
    <3> QED BY <3>1, <2>1, <1>3
  <2>4. \A i \in 1..n : all[i] = o[i]
    BY <1>2, <1>3, <2>1, JoinedElements
  <2> QED BY <2>2, <2>3, <2>4
<1>5. PICK s, t : s = SubSeq(o, 1, n) /\ t = SubSeq(all, 1, n)
  OBVIOUS
<1>6. s \in Seq(Parts) /\ Len(s) = n /\ \A i \in 1..n : s[i] = o[i]
  BY <1>2, <1>3, <1>5
<1>7. t \in Seq(Parts) /\ Len(t) = n /\ \A i \in 1..n : t[i] = all[i]
  BY <1>3, <1>4, <1>5
<1>8. s = t
  BY <1>4, <1>6, <1>7, SeqEqual
<1> QED BY <1>3, <1>4, <1>5, <1>8 DEF IsPrefix

LEMMA NothingPending ==
  ASSUME NEW ty, NEW path \in Seq(Indexes), NEW pend \in Pendings(ty, path, <<>>)
  PROVE  pend[Len(path)] = <<>>
<1>1. PICK m \in Nat : m = Len(path)
  OBVIOUS
<1>2. PICK none : none = <<>> /\ none \in Seq(Parts)
  <2>1. <<>> \in Seq(Parts)
    OBVIOUS
  <2> QED BY <2>1
<1>3. \A n \in 1..m : Due(<<>>, n) = <<>>
  BY DEF Due
<1>4. /\ pend[0] = none
      /\ \A n \in 1..m : pend[n] = Joined(none, Spread(pend[n - 1], path[n]))
  BY <1>1, <1>2, <1>3 DEF Pendings
<1> DEFINE Owing == {n \in 0..m : pend[n] # none}
<1>5. Owing = {}
  <2> SUFFICES ASSUME Owing # {} PROVE FALSE
    OBVIOUS
  <2>1. PICK x \in Owing : \A n \in Owing : x <= n
    <3>1. Owing \in SUBSET Nat
      OBVIOUS
    <3> HIDE DEF Owing
    <3> QED BY <3>1, LeastNumber
  <2>2. x \in 1..m /\ pend[x] # none
    BY <1>4, <2>1
  <2>3. x - 1 \in 0..m /\ pend[x - 1] = none
    BY <2>1, <2>2
  <2>4. Spread(none, path[x]) = none
    BY <1>2, SpreadEmpty
  <2>5. pend[x] = Joined(none, none)
    BY <1>4, <2>2, <2>3, <2>4
  <2>6. Joined(none, none) = none
    BY <1>2, JoinedEmpty
  <2> QED BY <2>2, <2>5, <2>6
<1>6. m \in 0..m
  OBVIOUS
<1> QED BY <1>1, <1>2, <1>5, <1>6

LEMMA KeepsAll ==
  ASSUME NEW ty, NEW path \in Seq(Indexes), NEW o, NEW all, Keeps(ty, path, <<>>, o, all)
  PROVE  o = all
<1>1. PICK pend \in Pendings(ty, path, <<>>) : Joined(o, pend[Len(path)]) = all
  BY DEF Keeps
<1>2. pend[Len(path)] = <<>>
  BY NothingPending
<1>3. o \in Seq(Parts)
  BY DEF Keeps
<1> QED BY <1>1, <1>2, <1>3, JoinedEmpty, Zenon

-----------------------------------------------------------------------------
\* The walk's invariant.
IteratorInv ==
  /\ root \in Roots /\ indexes \in IndexPaths /\ Fits(TypeOf(root), indexes)
  /\ panicked = FALSE
  /\ Keeps(TypeOf(root), indexes, stack, out, Leaves(root, indexes))

LEMMA IteratorTypes ==
  ASSUME root \in Roots, indexes \in IndexPaths
  PROVE  /\ root \in Parts /\ TypeOf(root) \in Seq(Layers \cup Primitives)
         /\ indexes \in Seq(Indexes)
  BY PartsAssumption

LEMMA IteratorInvInit == IteratorInit => IteratorInv
<1> SUFFICES ASSUME IteratorInit PROVE IteratorInv
  OBVIOUS
<1>1. /\ root \in Roots /\ indexes \in IndexPaths /\ indexes # <<>>
      /\ Fits(TypeOf(root), indexes) /\ panicked = FALSE
  BY DEF IteratorInit
<1>2. root \in Parts /\ indexes \in Seq(Indexes)
  BY <1>1, IteratorTypes
<1>3. Keeps(TypeOf(root), indexes, <<NewIterator(root, Head(indexes))>>, <<>>, Leaves(root, indexes))
  BY <1>1, <1>2, StartKeeps
<1>4. stack = <<NewIterator(root, Head(indexes))>> /\ out = <<>>
  BY DEF IteratorInit
<1>5. Keeps(TypeOf(root), indexes, stack, out, Leaves(root, indexes))
  BY <1>3, <1>4, Zenon
<1> QED BY <1>1, <1>5 DEF IteratorInv

LEMMA IteratorInvStep == IteratorInv /\ [IteratorNext]_iteratorVars => IteratorInv'
<1> SUFFICES ASSUME IteratorInv, [IteratorNext]_iteratorVars PROVE IteratorInv'
  OBVIOUS
<1> DEFINE ty  == TypeOf(root)
           all == Leaves(root, indexes)
<1>1. /\ root \in Roots /\ indexes \in IndexPaths /\ Fits(ty, indexes)
      /\ panicked = FALSE /\ Keeps(ty, indexes, stack, out, all)
  BY DEF IteratorInv
<1>2. ty \in Seq(Layers \cup Primitives) /\ indexes \in Seq(Indexes)
  BY <1>1, IteratorTypes
<1>3. SUFFICES ASSUME root' = root, indexes' = indexes
               PROVE  panicked' = FALSE /\ Keeps(ty, indexes, stack', out', all)
  <2>1. root' = root /\ indexes' = indexes
    BY DEF IteratorNext, ReturnLeaf, Descend, Finish, iteratorVars
  <2>2. panicked' = FALSE /\ Keeps(ty, indexes, stack', out', all)
    BY <1>3, <2>1
  <2> QED BY <1>1, <2>1, <2>2 DEF IteratorInv
<1> HIDE DEF ty, all
<1>4. CASE ReturnLeaf
  <2>1. stack # <<>> /\ Len(stack) = Len(indexes) /\ stack[Len(stack)] # <<>> /\ panicked' = FALSE
    BY <1>1, <1>4 DEF ReturnLeaf, Running, IsLeaf, Top
  <2>2. /\ stack' = [stack EXCEPT ![Len(stack)] = Tail(stack[Len(stack)])]
        /\ out' = Append(out, Head(stack[Len(stack)]))
    BY <1>4 DEF ReturnLeaf, Rest, Top
  <2>3. Keeps(ty, indexes, [stack EXCEPT ![Len(stack)] = Tail(stack[Len(stack)])],
              Append(out, Head(stack[Len(stack)])), all)
    BY <1>1, <1>2, <2>1, LeafKeeps
  <2> QED BY <2>1, <2>2, <2>3
<1>5. CASE Descend
  <2>1. stack # <<>> /\ Len(stack) # Len(indexes) /\ stack[Len(stack)] # <<>> /\ out' = out
    BY <1>5 DEF Descend, Running, IsLeaf, Top
  <2>2. Iterable(Head(stack[Len(stack)]), indexes[Len(stack) + 1])
    BY <1>1, <1>2, <2>1, DescendFits
  <2>3. /\ stack' = Append([stack EXCEPT ![Len(stack)] = Tail(stack[Len(stack)])],
                           NewIterator(Head(stack[Len(stack)]), indexes[Len(stack) + 1]))
        /\ panicked' = FALSE
    BY <1>1, <1>5, <2>2 DEF Descend, Rest, Top
  <2>4. Keeps(ty, indexes,
              Append([stack EXCEPT ![Len(stack)] = Tail(stack[Len(stack)])],
                     NewIterator(Head(stack[Len(stack)]), indexes[Len(stack) + 1])),
              out, all)
    BY <1>1, <1>2, <2>1, DescendKeeps
  <2> QED BY <2>1, <2>3, <2>4
<1>6. CASE Finish
  <2>1. /\ stack # <<>> /\ stack[Len(stack)] = <<>> /\ stack' = Front(stack)
        /\ out' = out /\ panicked' = FALSE
    BY <1>1, <1>6 DEF Finish, Running, Top
  <2>2. Keeps(ty, indexes, Front(stack), out, all)
    BY <1>1, <1>2, <2>1, FinishKeeps
  <2> QED BY <2>1, <2>2
<1>7. CASE UNCHANGED iteratorVars
  BY <1>1, <1>7 DEF iteratorVars
<1> QED BY <1>4, <1>5, <1>6, <1>7 DEF IteratorNext

\* Whatever the values and the path are, MapEachIterator::next returns the leaves
\* in their order, none of them twice and none left out when it answers None, and
\* its stack is never deeper than the path.
THEOREM IteratorReturnsLeaves == IteratorSpec => []WalkReturnsLeaves
<1>1. IteratorInv => WalkReturnsLeaves
  <2> SUFFICES ASSUME IteratorInv PROVE WalkReturnsLeaves
    OBVIOUS
  <2>1. indexes \in Seq(Indexes)
    BY IteratorTypes DEF IteratorInv
  <2>2. Len(stack) <= Len(indexes)
    BY DEF IteratorInv, Keeps
  <2>3. IsPrefix(out, Leaves(root, indexes))
    BY <2>1, KeepsPrefix DEF IteratorInv
  <2>4. ASSUME stack = <<>> PROVE out = Leaves(root, indexes)
    <3>1. Keeps(TypeOf(root), indexes, <<>>, out, Leaves(root, indexes))
      BY <2>4 DEF IteratorInv
    <3> QED BY <2>1, <3>1, KeepsAll
  <2> QED BY <2>2, <2>3, <2>4 DEF WalkReturnsLeaves
<1> QED BY <1>1, IteratorInvInit, IteratorInvStep, PTL DEF IteratorSpec

\* No unwrap of FieldIndexIterator::new fails on a path that fits the type of the
\* value, which from_indexes leaves to its caller.
NeverPanics == panicked = FALSE

THEOREM IteratorNeverPanics == IteratorSpec => []NeverPanics
<1>1. IteratorInv => NeverPanics
  BY DEF IteratorInv, NeverPanics
<1> QED BY <1>1, IteratorInvInit, IteratorInvStep, PTL DEF IteratorSpec

-----------------------------------------------------------------------------
\* The depths of a value.
Below(values) == UNION {ElementSet(v) : v \in values}
IsDepths(f, v, m) ==
  f = [n \in 0..m |-> IF n = 0 THEN {v} ELSE Below(f[n - 1])]

LEMMA DepthsExist ==
  ASSUME NEW v, NEW m \in Nat
  PROVE  \E f : IsDepths(f, v, m)
<1> DEFINE Bad == {n \in Nat : ~\E f : IsDepths(f, v, n)}
<1> SUFFICES ASSUME Bad # {} PROVE FALSE
  OBVIOUS
<1>1. PICK x \in Bad : \A n \in Bad : x <= n
  <2>1. Bad \in SUBSET Nat
    OBVIOUS
  <2> HIDE DEF Bad
  <2> QED BY <2>1, LeastNumber
<1>2. x # 0
  <2> DEFINE f == [n \in 0..0 |-> {v}]
  <2>1. IsDepths(f, v, 0)
    BY DEF IsDepths
  <2> QED BY <1>1, <2>1
<1>3. x \in Nat /\ x - 1 \in Nat /\ x - 1 \notin Bad
  BY <1>1, <1>2
<1>4. PICK g : IsDepths(g, v, x - 1)
  BY <1>3
<1>5. PICK top : top = Below(g[x - 1])
  OBVIOUS
<1> DEFINE f == [n \in 0..x |-> IF n = x THEN top ELSE g[n]]
<1>6. \A n \in 0..x - 1 : g[n] = IF n = 0 THEN {v} ELSE Below(g[n - 1])
  BY <1>4 DEF IsDepths
<1>7. ASSUME NEW n \in 0..x
      PROVE  f[n] = IF n = 0 THEN {v} ELSE Below(f[n - 1])
  <2>1. CASE n = x
    <3>1. x - 1 \in 0..x /\ x - 1 # x /\ x # 0 /\ x \in 0..x
      BY <1>2, <1>3
    <3>2. f[x - 1] = g[x - 1] /\ f[x] = top
      BY <3>1
    <3> QED BY <1>5, <2>1, <3>1, <3>2
  <2>2. CASE n # x /\ n # 0
    <3>1. n \in 0..x - 1 /\ n - 1 \in 0..x /\ n - 1 # x
      BY <1>3, <2>2
    <3>2. f[n] = g[n] /\ f[n - 1] = g[n - 1]
      BY <2>2, <3>1
    <3> QED BY <1>6, <2>2, <3>1, <3>2
  <2>3. CASE n # x /\ n = 0
    <3>1. 0 \in 0..x - 1 /\ 0 \in 0..x
      BY <1>3
    <3>2. f[n] = g[n]
      BY <2>3
    <3> QED BY <1>6, <2>3, <3>1, <3>2
  <2> QED BY <2>1, <2>2, <2>3
<1>8. f = [n \in 0..x |-> IF n = 0 THEN {v} ELSE Below(f[n - 1])]
  <2>1. f = [n \in 0..x |-> f[n]]
    OBVIOUS
  <2> HIDE DEF f
  <2> QED BY <1>7, <2>1
<1>9. IsDepths(f, v, x)
  BY <1>8 DEF IsDepths
<1> QED BY <1>1, <1>9

LEMMA DepthsEquation ==
  ASSUME NEW v, NEW m \in Nat, Len(TypeOf(v)) = m + 1
  PROVE  /\ Depths(v)[0] = {v}
         /\ \A n \in 1..m : Depths(v)[n] = Below(Depths(v)[n - 1])
<1>1. Len(TypeOf(v)) - 1 = m
  OBVIOUS
<1> DEFINE Chosen == CHOOSE f : IsDepths(f, v, m)
<1>2. IsDepths(Chosen, v, m)
  BY DepthsExist
<1>3. Depths(v) = Chosen
  BY <1>1 DEF Depths, IsDepths, Below
<1> HIDE DEF Chosen
<1>4. \A n \in 0..m : Chosen[n] = IF n = 0 THEN {v} ELSE Below(Chosen[n - 1])
  BY <1>2 DEF IsDepths
<1> QED BY <1>3, <1>4

\* The depths below a value are those of its elements.
LEMMA DepthsShift ==
  ASSUME NEW v, NEW m \in Nat, Len(TypeOf(v)) = m + 2,
         \A e \in ElementSet(v) : Len(TypeOf(e)) = m + 1
  PROVE  \A n \in 0..m : Depths(v)[n + 1] = UNION {Depths(e)[n] : e \in ElementSet(v)}
<1> DEFINE Bad == {n \in 0..m : Depths(v)[n + 1] # UNION {Depths(e)[n] : e \in ElementSet(v)}}
<1>1. /\ Depths(v)[0] = {v}
      /\ \A n \in 1..m + 1 : Depths(v)[n] = Below(Depths(v)[n - 1])
  <2>1. m + 1 \in Nat /\ Len(TypeOf(v)) = (m + 1) + 1
    OBVIOUS
  <2> QED BY <2>1, DepthsEquation
<1>2. \A e \in ElementSet(v) :
        /\ Depths(e)[0] = {e}
        /\ \A n \in 1..m : Depths(e)[n] = Below(Depths(e)[n - 1])
  BY DepthsEquation
<1>3. Depths(v)[0 + 1] = UNION {Depths(e)[0] : e \in ElementSet(v)}
  <2>1. 0 + 1 = 1 /\ 1 \in 1..m + 1 /\ 1 - 1 = 0
    OBVIOUS
  <2>2. Depths(v)[1] = Below({v})
    BY <1>1, <2>1
  <2>3. Below({v}) = ElementSet(v)
    BY DEF Below
  <2>4. UNION {Depths(e)[0] : e \in ElementSet(v)} = ElementSet(v)
    <3>1. UNION {Depths(e)[0] : e \in ElementSet(v)} = UNION {{e} : e \in ElementSet(v)}
      BY <1>2
    <3> QED BY <3>1
  <2> QED BY <2>1, <2>2, <2>3, <2>4
<1>4. ASSUME Bad # {} PROVE FALSE
  <2>1. PICK x \in Bad : \A n \in Bad : x <= n
    <3>1. Bad \in SUBSET Nat
      OBVIOUS
    <3>2. Bad # {}
      BY <1>4
    <3> HIDE DEF Bad
    <3> QED BY <3>1, <3>2, LeastNumber
  <2>2. x \in 1..m /\ x - 1 \in 0..m /\ x - 1 \notin Bad
    BY <1>3, <2>1
  <2>3. x + 1 \in 1..m + 1 /\ (x + 1) - 1 = x /\ (x - 1) + 1 = x
    BY <2>2
  <2>4. Depths(v)[x] = UNION {Depths(e)[x - 1] : e \in ElementSet(v)}
    BY <2>2, <2>3
  <2>5. Depths(v)[x + 1] = Below(Depths(v)[x])
    BY <1>1, <2>3
  <2>6. \A e \in ElementSet(v) : Depths(e)[x] = Below(Depths(e)[x - 1])
    BY <1>2, <2>2
  <2>7. Below(UNION {Depths(e)[x - 1] : e \in ElementSet(v)})
          = UNION {Below(Depths(e)[x - 1]) : e \in ElementSet(v)}
    BY DEF Below
  <2>8. Depths(v)[x + 1] = UNION {Depths(e)[x] : e \in ElementSet(v)}
    BY <2>4, <2>5, <2>6, <2>7
  <2> QED BY <2>1, <2>8
<1> QED BY <1>4

-----------------------------------------------------------------------------
\* What is kept of a value, at every depth: its type, and what its data are.
Keyed(data) ==
  /\ data = [k \in DOMAIN data |-> data[k]] /\ IsFiniteSet(DOMAIN data)
  /\ \A k \in DOMAIN data : IsBytes(k)
Formed(v) ==
  /\ v = <<TypeOf(v), DataOf(v)>>
  /\ IsArray(TypeOf(v)) => DataOf(v) \in Seq(ElementSet(v))
  /\ IsMap(TypeOf(v)) => Keyed(DataOf(v))
  /\ TypeOf(v) = BytesType => IsBytes(DataOf(v))
  /\ TypeOf(v) = IpType => DataOf(v) \in Seq(Nat)
Sound(ty, v) ==
  /\ TypeOf(v) = ty
  /\ \A n \in 0..Len(ty) - 1 : \A w \in Depths(v)[n] :
        TypeOf(w) = SubSeq(ty, n + 1, Len(ty)) /\ Formed(w)

LEMMA SoundIsWellTyped ==
  ASSUME NEW ty, IsType(ty), NEW v, Sound(ty, v)
  PROVE  TypeOf(v) = ty /\ WellTyped(v)
<1>1. PICK k \in Nat : k = Len(ty)
  BY DEF IsType
<1>2. TypeOf(v) = ty
  BY DEF Sound
<1>3. ASSUME NEW n \in 1..k - 1, NEW w \in Depths(v)[n]
      PROVE  TypeOf(w) = SubSeq(ty, n + 1, k)
  <2>1. n \in 0..k - 1
    OBVIOUS
  <2> QED BY <1>1, <1>3, <2>1 DEF Sound
<1> QED BY <1>1, <1>2, <1>3 DEF WellTyped

LEMMA TailIsType ==
  ASSUME NEW ty, IsType(ty), NEW m \in Nat, Len(ty) = m + 2
  PROVE  /\ IsType(Tail(ty)) /\ Len(Tail(ty)) = m + 1
         /\ Head(ty) \in Layers
         /\ \A n \in 0..m : SubSeq(ty, n + 2, m + 2) = SubSeq(Tail(ty), n + 1, m + 1)
<1> DEFINE S == Layers \cup Primitives
<1>1. ty \in Seq(S) /\ ty # <<>> /\ Last(ty) \in Primitives
      /\ \A i \in 1..Len(ty) - 1 : ty[i] \in Layers
  BY DEF IsType
<1> HIDE DEF S
<1>2. /\ Tail(ty) \in Seq(S) /\ Len(Tail(ty)) = m + 1
      /\ \A i \in 1..m + 1 : Tail(ty)[i] = ty[i + 1]
  BY <1>1
<1>3. Tail(ty) # <<>>
  <2>1. Len(<<>>) = 0 /\ m + 1 # 0
    OBVIOUS
  <2> QED BY <1>2, <2>1
<1>4. Last(Tail(ty)) = Last(ty)
  <2>1. Last(ty) = ty[m + 2] /\ Last(Tail(ty)) = Tail(ty)[m + 1]
    BY <1>2 DEF Last
  <2> QED BY <1>2, <2>1
<1>5. ASSUME NEW i \in 1..Len(Tail(ty)) - 1 PROVE Tail(ty)[i] \in Layers
  BY <1>1, <1>2
<1>6. IsType(Tail(ty))
  BY <1>1, <1>2, <1>3, <1>4, <1>5 DEF IsType, S
<1>7. Head(ty) \in Layers
  BY <1>1
<1>8. ASSUME NEW n \in 0..m
      PROVE  SubSeq(ty, n + 2, m + 2) = SubSeq(Tail(ty), n + 1, m + 1)
  <2>1. SubSeq(ty, n + 2, m + 2) = [i \in 1..(m + 2) - (n + 2) + 1 |-> ty[i + (n + 2) - 1]]
    BY <1>1
  <2>2. SubSeq(Tail(ty), n + 1, m + 1) = [i \in 1..(m + 1) - (n + 1) + 1 |-> Tail(ty)[i + (n + 1) - 1]]
    BY <1>2
  <2>3. (m + 2) - (n + 2) + 1 = (m + 1) - (n + 1) + 1
    OBVIOUS
  <2>4. ASSUME NEW i \in 1..(m + 2) - (n + 2) + 1
        PROVE  ty[i + (n + 2) - 1] = Tail(ty)[i + (n + 1) - 1]
    <3>1. i + n \in 1..m + 1 /\ i + (n + 2) - 1 = (i + n) + 1 /\ i + (n + 1) - 1 = i + n
      OBVIOUS
    <3>2. Tail(ty)[i + n] = ty[(i + n) + 1]
      BY <1>2, <3>1
    <3> QED BY <3>1, <3>2
  <2> QED BY <2>1, <2>2, <2>3, <2>4
<1> QED BY <1>2, <1>6, <1>7, <1>8

LEMMA SoundUnfolds ==
  ASSUME NEW ty, IsType(ty), NEW m \in Nat, Len(ty) = m + 2, NEW v
  PROVE  Sound(ty, v) <=> /\ TypeOf(v) = ty /\ Formed(v)
                          /\ \A e \in ElementSet(v) : Sound(Tail(ty), e)
<1> DEFINE top == Tail(ty)
<1>1. /\ Len(top) = m + 1
      /\ \A n \in 0..m : SubSeq(ty, n + 2, m + 2) = SubSeq(top, n + 1, m + 1)
  BY TailIsType
<1>2. SubSeq(ty, 0 + 1, m + 2) = ty /\ SubSeq(top, 0 + 1, m + 1) = top
  <2>1. ty \in Seq(Layers \cup Primitives) /\ top \in Seq(Layers \cup Primitives)
    BY TailIsType DEF IsType
  <2>2. SubSeq(ty, 1, Len(ty)) = ty /\ SubSeq(top, 1, Len(top)) = top
    BY <2>1, SubSeqFull
  <2> QED BY <1>1, <2>2
<1> HIDE DEF top
<1>3. /\ Len(ty) - 1 = m + 1 /\ Len(top) - 1 = m
      /\ 0 \in 0..m + 1 /\ 1 \in 0..m + 1 /\ 1 \in 1..m + 1 /\ 0 \in 0..m
  BY <1>1
<1>4. ASSUME TypeOf(v) = ty
      PROVE  Depths(v)[0] = {v} /\ Depths(v)[1] = ElementSet(v)
  <2>1. m + 1 \in Nat /\ Len(TypeOf(v)) = (m + 1) + 1
    BY <1>4
  <2>2. /\ Depths(v)[0] = {v}
        /\ \A n \in 1..m + 1 : Depths(v)[n] = Below(Depths(v)[n - 1])
    BY <2>1, DepthsEquation
  <2>3. Depths(v)[1] = Below(Depths(v)[0])
    <3>1. Depths(v)[1] = Below(Depths(v)[1 - 1])
      BY <1>3, <2>2
    <3>2. 1 - 1 = 0
      OBVIOUS
    <3> QED BY <3>1, <3>2
  <2> QED BY <2>2, <2>3 DEF Below
<1>5. ASSUME TypeOf(v) = ty, \A e \in ElementSet(v) : TypeOf(e) = top
      PROVE  \A n \in 0..m : Depths(v)[n + 1] = UNION {Depths(e)[n] : e \in ElementSet(v)}
  <2>1. \A e \in ElementSet(v) : Len(TypeOf(e)) = m + 1
    BY <1>1, <1>5
  <2>2. Len(TypeOf(v)) = m + 2
    BY <1>5
  <2> QED BY <2>1, <2>2, DepthsShift
<1>6. ASSUME Sound(ty, v)
      PROVE  TypeOf(v) = ty /\ Formed(v) /\ \A e \in ElementSet(v) : Sound(top, e)
  <2>1. /\ TypeOf(v) = ty
        /\ \A n \in 0..m + 1 : \A w \in Depths(v)[n] :
              TypeOf(w) = SubSeq(ty, n + 1, m + 2) /\ Formed(w)
    BY <1>3, <1>6 DEF Sound
  <2>2. Formed(v)
    BY <1>3, <1>4, <2>1
  <2>3. \A e \in ElementSet(v) : TypeOf(e) = top
    <3>1. \A e \in ElementSet(v) : TypeOf(e) = SubSeq(ty, 1 + 1, m + 2)
      BY <1>3, <1>4, <2>1
    <3>2. SubSeq(ty, 0 + 2, m + 2) = SubSeq(top, 0 + 1, m + 1)
      BY <1>1, <1>3
    <3> QED BY <1>2, <3>1, <3>2
  <2>4. ASSUME NEW e \in ElementSet(v), NEW n \in 0..m, NEW w \in Depths(e)[n]
        PROVE  TypeOf(w) = SubSeq(top, n + 1, m + 1) /\ Formed(w)
    <3>1. w \in Depths(v)[n + 1]
      BY <1>5, <2>1, <2>3
    <3>2. n + 1 \in 0..m + 1 /\ (n + 1) + 1 = n + 2
      OBVIOUS
    <3>3. TypeOf(w) = SubSeq(ty, n + 2, m + 2) /\ Formed(w)
      BY <2>1, <3>1, <3>2
    <3> QED BY <1>1, <3>3
  <2> QED BY <1>3, <2>1, <2>2, <2>3, <2>4 DEF Sound
<1>7. ASSUME TypeOf(v) = ty, Formed(v), \A e \in ElementSet(v) : Sound(top, e)
      PROVE  Sound(ty, v)
  <2>1. \A e \in ElementSet(v) :
          /\ TypeOf(e) = top
          /\ \A n \in 0..m : \A w \in Depths(e)[n] :
                TypeOf(w) = SubSeq(top, n + 1, m + 1) /\ Formed(w)
    BY <1>1, <1>3, <1>7 DEF Sound
  <2>2. ASSUME NEW n \in 0..m + 1, NEW w \in Depths(v)[n]
        PROVE  TypeOf(w) = SubSeq(ty, n + 1, m + 2) /\ Formed(w)
    <3>1. CASE n = 0
      BY <1>2, <1>4, <1>7, <2>2, <3>1
    <3>2. CASE n # 0
      <4>1. PICK k \in 0..m : n = k + 1
        <5>1. n - 1 \in 0..m /\ n = (n - 1) + 1
          BY <3>2
        <5> QED BY <5>1
      <4>2. PICK e \in ElementSet(v) : w \in Depths(e)[k]
        BY <1>5, <1>7, <2>1, <2>2, <4>1
      <4>3. TypeOf(w) = SubSeq(top, k + 1, m + 1) /\ Formed(w)
        BY <2>1, <4>2
      <4>4. n + 1 = k + 2
        BY <4>1
      <4> QED BY <1>1, <4>3, <4>4
    <3> QED BY <3>1, <3>2
  <2> QED BY <1>3, <1>7, <2>2 DEF Sound
<1> QED BY <1>6, <1>7 DEF top

\* The head of a type tells what its values are.
LEMMA ScalarTypes ==
  ASSUME NEW ty, IsType(ty), Len(ty) = 1
  PROVE  ty \in {BoolType, BytesType, IntType, IpType} /\ ~IsArray(ty) /\ ~IsMap(ty)
<1>1. ty \in Seq(Layers \cup Primitives) /\ Last(ty) \in Primitives
  BY DEF IsType
<1>2. ty = <<ty[1]>> /\ Last(ty) = ty[1] /\ Head(ty) = ty[1]
  BY <1>1 DEF Last
<1>3. ty \in {BoolType, BytesType, IntType, IpType}
  BY <1>1, <1>2 DEF Primitives, BoolType, BytesType, IntType, IpType
<1>4. ~IsArray(ty) /\ ~IsMap(ty)
  BY <1>1, <1>2 DEF Primitives, IsArray, IsMap
<1> QED BY <1>3, <1>4

LEMMA ArrayOrMap ==
  ASSUME NEW ty, IsType(ty), NEW m \in Nat, Len(ty) = m + 2
  PROVE  IsMap(ty) <=> ~IsArray(ty)
<1>1. PICK layer \in Layers : layer = Head(ty)
  BY TailIsType
<1> QED BY <1>1 DEF Layers, IsArray, IsMap

LEMMA ScalarIsSound ==
  ASSUME NEW ty, Len(ty) = 1, NEW v, IsScalar(v), TypeOf(v) = ty
  PROVE  Sound(ty, v)
<1>0. IsType(ty)
  BY DEF IsScalar
<1>1. Depths(v)[0] = {v}
  <2>1. 0 \in Nat /\ Len(TypeOf(v)) = 0 + 1
    OBVIOUS
  <2> QED BY <2>1, DepthsEquation
<1>2. ty \in Seq(Layers \cup Primitives)
  BY <1>0 DEF IsType
<1>3. SubSeq(ty, 0 + 1, 1) = ty
  BY <1>2, SubSeqFull
<1>4. Formed(v)
  BY <1>0, ScalarTypes DEF IsScalar, Formed
<1>5. 0..Len(ty) - 1 = {0}
  OBVIOUS
<1> QED BY <1>1, <1>3, <1>4, <1>5 DEF Sound

-----------------------------------------------------------------------------
\* Reading a document: what its readers may put into a container, and what a
\* refused document leaves.
IsResult(r) == r = [data |-> r.data, read |-> r.read] /\ r.read \in BOOLEAN
Inserted(r, data, T) ==
  /\ IsResult(r) /\ DOMAIN data \subseteq DOMAIN r.data /\ Keyed(r.data)
  /\ \A k \in DOMAIN r.data : r.data[k] \in T

InsertNext(r, k, v) ==
  IF r.read /\ Exists(v) THEN [data |-> Bind(r.data, k, v), read |-> TRUE]
  ELSE [data |-> r.data, read |-> FALSE]
IsInsertion(f, read, data, entries, m) ==
  f = [n \in 0..m |->
         IF n = 0 THEN [data |-> data, read |-> TRUE]
         ELSE InsertNext(f[n - 1], entries[n][1], read[entries[n][2]])]

LEMMA BindKeeps ==
  ASSUME NEW data, Keyed(data), NEW k, IsBytes(k), NEW v
  PROVE  Keyed(Bind(data, k, v))
<1>1. PICK more : more = Bind(data, k, v)
  OBVIOUS
<1>2. more = [x \in DOMAIN data \cup {k} |-> IF x = k THEN v ELSE data[x]]
  BY <1>1 DEF Bind
<1>3. DOMAIN more = DOMAIN data \cup {k} /\ more = [x \in DOMAIN more |-> more[x]]
  BY <1>2
<1>4. IsFiniteSet(DOMAIN more)
  <2>1. IsFiniteSet(DOMAIN data)
    BY DEF Keyed
  <2> QED BY <1>3, <2>1, FS_AddElement
<1>5. \A x \in DOMAIN more : IsBytes(x)
  BY <1>3 DEF Keyed
<1> QED BY <1>1, <1>3, <1>4, <1>5 DEF Keyed

LEMMA InsertNextKeeps ==
  ASSUME NEW r, NEW k, IsBytes(k), NEW v, NEW data, NEW T, Inserted(r, data, T), v = NoValue \/ v \in T
  PROVE  Inserted(InsertNext(r, k, v), data, T)
<1>1. PICK next : next = InsertNext(r, k, v)
  OBVIOUS
<1>2. CASE r.read /\ Exists(v)
  <2>1. next = [data |-> Bind(r.data, k, v), read |-> TRUE]
    BY <1>1, <1>2 DEF InsertNext
  <2>2. next.data = [x \in DOMAIN r.data \cup {k} |-> IF x = k THEN v ELSE r.data[x]]
    BY <2>1 DEF Bind
  <2>3. IsResult(next)
    BY <2>1, <2>2 DEF IsResult, Bind
  <2>4. v \in T
    BY <1>2 DEF Exists
  <2>5. DOMAIN data \subseteq DOMAIN next.data
    BY <2>2 DEF Inserted
  <2>6. \A x \in DOMAIN next.data : next.data[x] \in T
    BY <2>2, <2>4 DEF Inserted
  <2>7. Keyed(next.data)
    <3>1. next.data = Bind(r.data, k, v)
      BY <2>1
    <3> QED BY <3>1, BindKeeps DEF Inserted
  <2> QED BY <1>1, <2>3, <2>5, <2>6, <2>7 DEF Inserted
<1>3. CASE ~(r.read /\ Exists(v))
  <2>1. next = [data |-> r.data, read |-> FALSE]
    BY <1>1, <1>3 DEF InsertNext
  <2> QED BY <1>1, <2>1 DEF Inserted, IsResult
<1> QED BY <1>2, <1>3

LEMMA InsertionExists ==
  ASSUME NEW read, NEW data, NEW entries, NEW m \in Nat
  PROVE  \E f : IsInsertion(f, read, data, entries, m)
<1> DEFINE Bad == {n \in Nat : ~\E f : IsInsertion(f, read, data, entries, n)}
<1> SUFFICES ASSUME Bad # {} PROVE FALSE
  OBVIOUS
<1>1. PICK x \in Bad : \A n \in Bad : x <= n
  <2>1. Bad \in SUBSET Nat
    OBVIOUS
  <2> HIDE DEF Bad
  <2> QED BY <2>1, LeastNumber
<1> DEFINE start == [data |-> data, read |-> TRUE]
           Next1(f, n) == InsertNext(f[n - 1], entries[n][1], read[entries[n][2]])
<1>2. x # 0
  <2> DEFINE f == [n \in 0..0 |-> start]
  <2>1. IsInsertion(f, read, data, entries, 0)
    BY DEF IsInsertion
  <2> QED BY <1>1, <2>1
<1>3. x \in Nat /\ x - 1 \in Nat /\ x - 1 \notin Bad
  BY <1>1, <1>2
<1>4. PICK g : IsInsertion(g, read, data, entries, x - 1)
  BY <1>3
<1>6. \A n \in 0..x - 1 : g[n] = IF n = 0 THEN start ELSE Next1(g, n)
  BY <1>4 DEF IsInsertion
<1>5. PICK top : top = Next1(g, x)
  OBVIOUS
<1> DEFINE f == [n \in 0..x |-> IF n = x THEN top ELSE g[n]]
<1>10. ASSUME NEW h1, NEW h2, NEW n, h1[n - 1] = h2[n - 1] PROVE Next1(h1, n) = Next1(h2, n)
  BY <1>10
<1> HIDE DEF Next1, start
<1>7. ASSUME NEW n \in 0..x
      PROVE  f[n] = IF n = 0 THEN start ELSE Next1(f, n)
  <2>1. CASE n = x
    <3>1. x - 1 \in 0..x /\ x - 1 # x /\ x # 0 /\ x \in 0..x
      BY <1>2, <1>3
    <3>2. f[x - 1] = g[x - 1] /\ f[x] = top
      BY <3>1
    <3>3. Next1(f, x) = Next1(g, x)
      BY <1>10, <3>2
    <3> QED BY <1>5, <2>1, <3>1, <3>2, <3>3
  <2>2. CASE n # x /\ n # 0
    <3>1. n \in 0..x - 1 /\ n - 1 \in 0..x /\ n - 1 # x
      BY <1>3, <2>2
    <3>2. f[n] = g[n] /\ f[n - 1] = g[n - 1]
      BY <2>2, <3>1
    <3>3. Next1(f, n) = Next1(g, n)
      BY <1>10, <3>2
    <3> QED BY <1>6, <2>2, <3>1, <3>2, <3>3
  <2>3. CASE n # x /\ n = 0
    <3>1. 0 \in 0..x - 1 /\ 0 \in 0..x
      BY <1>3
    <3>2. f[n] = g[n]
      BY <2>3
    <3> QED BY <1>6, <2>3, <3>1, <3>2
  <2> QED BY <2>1, <2>2, <2>3
<1>8. f = [n \in 0..x |-> IF n = 0 THEN start ELSE Next1(f, n)]
  <2>1. f = [n \in 0..x |-> f[n]]
    OBVIOUS
  <2> HIDE DEF f
  <2> QED BY <1>7, <2>1
<1>9. IsInsertion(f, read, data, entries, x)
  BY <1>8 DEF IsInsertion, start, Next1
<1> QED BY <1>1, <1>9

\* Whether each entry's document is read as one of some values.
EntriesIn(read, entries, T) ==
  \A n \in 1..Len(entries) : /\ IsBytes(entries[n][1])
                             /\ read[entries[n][2]] \in T \cup {NoValue}

LEMMA InsertEntriesKeeps ==
  ASSUME NEW read, NEW data, Keyed(data), NEW entries, Len(entries) \in Nat, NEW T,
         \A k \in DOMAIN data : data[k] \in T, EntriesIn(read, entries, T)
  PROVE  Inserted(InsertEntries(read, data, entries), data, T)
<1>1. PICK m \in Nat : m = Len(entries)
  OBVIOUS
<1> DEFINE Chosen == CHOOSE f : IsInsertion(f, read, data, entries, m)
<1>2. IsInsertion(Chosen, read, data, entries, m)
  BY InsertionExists
<1>3. InsertEntries(read, data, entries) = Chosen[m]
  BY <1>1 DEF InsertEntries, IsInsertion, InsertNext
<1> HIDE DEF Chosen
<1>4. \A n \in 0..m :
        Chosen[n] = IF n = 0 THEN [data |-> data, read |-> TRUE]
                    ELSE InsertNext(Chosen[n - 1], entries[n][1], read[entries[n][2]])
  BY <1>2 DEF IsInsertion
<1> DEFINE Bad == {n \in 0..m : ~Inserted(Chosen[n], data, T)}
<1>5. Bad = {}
  <2> SUFFICES ASSUME Bad # {} PROVE FALSE
    OBVIOUS
  <2>1. PICK x \in Bad : \A n \in Bad : x <= n
    <3>1. Bad \in SUBSET Nat
      OBVIOUS
    <3> HIDE DEF Bad
    <3> QED BY <3>1, LeastNumber
  <2>2. x # 0
    <3>3. 0 \in 0..m
      OBVIOUS
    <3>1. Chosen[0] = [data |-> data, read |-> TRUE]
      BY <1>4, <3>3
    <3>2. Inserted(Chosen[0], data, T)
      BY <3>1 DEF Inserted, IsResult
    <3> QED BY <2>1, <3>2
  <2>3. x \in 1..m /\ x \in 0..m /\ x - 1 \in 0..m
    BY <2>1, <2>2
  <2>4. Inserted(Chosen[x - 1], data, T)
    BY <2>1, <2>3
  <2>5. Chosen[x] = InsertNext(Chosen[x - 1], entries[x][1], read[entries[x][2]])
    BY <1>4, <2>2, <2>3
  <2>6. /\ IsBytes(entries[x][1])
        /\ read[entries[x][2]] = NoValue \/ read[entries[x][2]] \in T
    BY <1>1, <2>3 DEF EntriesIn
  <2>7. Inserted(Chosen[x], data, T)
    BY <2>4, <2>5, <2>6, InsertNextKeeps
  <2> QED BY <2>1, <2>7
<1>6. m \in 0..m
  OBVIOUS
<1>7. Inserted(Chosen[m], data, T)
  BY <1>5, <1>6
<1> QED BY <1>3, <1>7

LEMMA BytesRead ==
  ASSUME NEW doc, IsDocument(doc), NEW v, v = DeserializeBytes(doc)
  PROVE  v = NoValue \/ (v = <<BytesType, DataOf(v)>> /\ IsBytes(DataOf(v)))
<1>1. CASE doc[1] = "string"
  <2>1. v = <<BytesType, doc[2]>>
    BY <1>1 DEF DeserializeBytes
  <2> QED BY <1>1, <2>1 DEF IsDocument, DataOf
<1>2. CASE doc[1] = "seq" /\ \A i \in DOMAIN doc[2] :
                               doc[2][i][1] = "number" /\ doc[2][i][2] \in ByteValue
  <2>1. PICK data : data = [i \in DOMAIN doc[2] |-> doc[2][i][2]]
    OBVIOUS
  <2>2. v = <<BytesType, data>>
    BY <1>2, <2>1 DEF DeserializeBytes
  <2>3. PICK n \in Nat : DOMAIN doc[2] = 1..n
    BY <1>2 DEF IsDocument
  <2>4. data \in [1..n -> ByteValue]
    BY <1>2, <2>1, <2>3
  <2>5. data \in Seq(ByteValue)
    BY <2>4
  <2> QED BY <2>2, <2>5 DEF DataOf, IsBytes
<1>3. CASE ~(doc[1] = "string") /\ ~(doc[1] = "seq" /\ \A i \in DOMAIN doc[2] :
                               doc[2][i][1] = "number" /\ doc[2][i][2] \in ByteValue)
  BY <1>3 DEF DeserializeBytes
<1> QED BY <1>1, <1>2, <1>3

LEMMA EntryKeys ==
  ASSUME NEW doc \in Docs, IsEntry(doc)
  PROVE  IsBytes(EntryOf(doc)[1])
<1>1. doc[1] = "seq" /\ Len(doc[2]) = 2 /\ Exists(DeserializeBytes(doc[2][1]))
  BY DEF IsEntry
<1>2. PICK docs : docs = doc[2] /\ docs \in Seq(Range(docs))
  BY <1>1, ContainersAssumption DEF IsDocument
<1>3. docs[1] \in Range(docs)
  BY <1>1, <1>2
<1>4. docs[1] \in Docs
  BY <1>1, <1>2, <1>3, ContainersAssumption DEF InnerDocuments
<1>5. PICK v : v = DeserializeBytes(docs[1]) /\ v # NoValue
  BY <1>1, <1>2 DEF Exists
<1>6. IsBytes(DataOf(v))
  BY <1>4, <1>5, BytesRead, ContainersAssumption
<1>7. EntryOf(doc)[1] = DataOf(v)
  BY <1>2, <1>5 DEF EntryOf
<1> QED BY <1>6, <1>7

LEMMA MapKeeps ==
  ASSUME NEW read, NEW T, NEW data, Keyed(data), \A k \in DOMAIN data : data[k] \in T,
         NEW doc \in Docs, \A d \in InnerDocuments(doc) : read[d] \in T \cup {NoValue}
  PROVE  Inserted(DeserializeMap(read, data, doc), data, T)
<1>0. IsDocument(doc) /\ InnerDocuments(doc) \subseteq Docs
  BY ContainersAssumption
<1>1. CASE doc[1] = "map"
  <2>1. DeserializeMap(read, data, doc) = InsertEntries(read, data, doc[2])
    BY <1>1 DEF DeserializeMap
  <2>2. doc[2] \in Seq(Range(doc[2]))
    BY <1>0, <1>1 DEF IsDocument
  <2>3. ASSUME NEW n \in 1..Len(doc[2])
        PROVE  IsBytes(doc[2][n][1]) /\ read[doc[2][n][2]] \in T \cup {NoValue}
    <3>1. doc[2][n] \in Range(doc[2])
      BY <2>2
    <3>2. InnerDocuments(doc) = {e[2] : e \in Range(doc[2])}
      BY <1>1 DEF InnerDocuments
    <3>3. IsBytes(doc[2][n][1])
      BY <1>0, <1>1, <3>1 DEF IsDocument
    <3> QED BY <3>1, <3>2, <3>3
  <2>4. EntriesIn(read, doc[2], T)
    BY <2>3 DEF EntriesIn
  <2>5. Len(doc[2]) \in Nat
    BY <2>2
  <2> QED BY <2>1, <2>4, <2>5, InsertEntriesKeeps
<1>2. CASE doc[1] = "seq"
  <2>1. PICK docs : docs = doc[2] /\ docs \in Seq(Range(docs))
    BY <1>0, <1>2 DEF IsDocument
  <2>2. PICK m \in Nat : m = Len(docs) /\ DOMAIN docs = 1..m
    BY <2>1
  <2> DEFINE bad == {i \in DOMAIN docs : ~IsEntry(docs[i])}
             upto == IF bad = {} THEN Len(docs) ELSE Min(bad) - 1
             entries == [i \in 1..upto |-> EntryOf(docs[i])]
  <2>3. upto \in 0..m /\ \A i \in 1..upto : IsEntry(docs[i])
    <3>1. CASE bad = {}
      BY <2>2, <3>1
    <3>2. CASE bad # {}
      <4>1. PICK least \in bad : \A i \in bad : least <= i
        <5>1. bad \in SUBSET Nat
          BY <2>2
        <5> HIDE DEF bad
        <5> QED BY <3>2, <5>1, LeastNumber
      <4>2. Min(bad) \in bad /\ \A i \in bad : Min(bad) <= i
        <5> HIDE DEF bad
        <5> QED BY <4>1 DEF Min
      <4>3. PICK first \in 1..m : first = Min(bad) /\ upto = first - 1
        BY <2>2, <3>2, <4>2
      <4>4. ASSUME NEW i \in 1..upto PROVE IsEntry(docs[i])
        <5>1. i \in 1..m /\ ~(first <= i)
          BY <4>3
        <5>2. i \notin bad
          BY <4>2, <4>3, <5>1
        <5> QED BY <2>2, <5>1, <5>2
      <4>5. upto \in 0..m
        BY <4>3
      <4> QED BY <4>4, <4>5
    <3> QED BY <3>1, <3>2
  <2>4. \A d \in Range(docs) : IsEntry(d) => EntryOf(d)[2] \in InnerDocuments(doc)
    BY <1>2, <2>1 DEF InnerDocuments
  <2> HIDE DEF upto
  <2>5. PICK count \in 0..m : count = upto
    BY <2>3
  <2>6. Len(entries) = count /\ Len(entries) \in Nat
    BY <2>5
  <2>7. ASSUME NEW n \in 1..Len(entries)
        PROVE  IsBytes(entries[n][1]) /\ read[entries[n][2]] \in T \cup {NoValue}
    <3>1. n \in 1..upto /\ n \in 1..m
      BY <2>5, <2>6
    <3>2. entries[n] = EntryOf(docs[n])
      BY <3>1
    <3>3. docs[n] \in Range(docs)
      BY <2>1, <2>2, <3>1
    <3>4. IsEntry(docs[n])
      BY <2>3, <3>1
    <3>5. docs[n] \in Docs
      BY <1>0, <1>2, <2>1, <3>3 DEF InnerDocuments
    <3>6. IsBytes(entries[n][1])
      BY <3>2, <3>4, <3>5, EntryKeys
    <3> QED BY <2>4, <3>2, <3>3, <3>4, <3>6
  <2> DEFINE r == InsertEntries(read, data, entries)
  <2>8. Inserted(r, data, T)
    <3>1. EntriesIn(read, entries, T)
      BY <2>7 DEF EntriesIn
    <3> HIDE DEF entries
    <3> QED BY <2>6, <3>1, InsertEntriesKeeps
  <2>9. DeserializeMap(read, data, doc) = [r EXCEPT !.read = @ /\ bad = {}]
    BY <1>2, <2>1 DEF DeserializeMap, upto
  <2> HIDE DEF bad, r
  <2>10. PICK flag \in BOOLEAN : flag = (r.read /\ bad = {})
    OBVIOUS
  <2>11. DeserializeMap(read, data, doc) = [data |-> r.data, read |-> flag]
    <3>1. r = [data |-> r.data, read |-> r.read]
      BY <2>8 DEF Inserted, IsResult
    <3> QED BY <2>9, <2>10, <3>1
  <2> QED BY <2>8, <2>11 DEF Inserted, IsResult
<1>3. CASE doc[1] # "map" /\ doc[1] # "seq"
  <2>1. DeserializeMap(read, data, doc) = [data |-> data, read |-> FALSE]
    BY <1>3 DEF DeserializeMap
  <2> QED BY <2>1 DEF Inserted, IsResult
<1> QED BY <1>1, <1>2, <1>3

ReadArray(r, data, T) ==
  IsResult(r) /\ r.data \in Seq(T) /\ (~r.read => r.data \in {data, <<>>})

LEMMA ArrayKeeps ==
  ASSUME NEW read, NEW T, NEW data \in Seq(T), NEW doc, IsDocument(doc),
         \A d \in InnerDocuments(doc) : read[d] \in T \cup {NoValue}
  PROVE  ReadArray(DeserializeArray(read, data, doc), data, T)
<1>1. CASE doc[1] # "seq"
  <2>1. DeserializeArray(read, data, doc) = [data |-> data, read |-> FALSE]
    BY <1>1 DEF DeserializeArray
  <2> QED BY <2>1 DEF ReadArray, IsResult
<1>2. CASE doc[1] = "seq"
  <2>1. PICK docs : docs = doc[2] /\ docs \in Seq(Range(docs))
    BY <1>2 DEF IsDocument
  <2>2. PICK m \in Nat : m = Len(docs) /\ DOMAIN docs = 1..m
    BY <2>1
  <2> DEFINE elems == [i \in DOMAIN docs |-> read[docs[i]]]
  <2>3. ASSUME NEW i \in 1..m PROVE elems[i] \in T \cup {NoValue}
    <3>1. docs[i] \in Range(docs)
      BY <2>1, <2>2
    <3>2. docs[i] \in InnerDocuments(doc)
      BY <1>2, <2>1, <3>1 DEF InnerDocuments
    <3> QED BY <2>2, <3>2
  <2>4. DOMAIN elems = 1..m
    BY <2>2
  <2>5. DeserializeArray(read, data, doc)
          = IF \A i \in DOMAIN elems : Exists(elems[i])
            THEN [data |-> data \o elems, read |-> TRUE]
            ELSE [data |-> <<>>, read |-> FALSE]
    BY <1>2, <2>1 DEF DeserializeArray
  <2>6. CASE \A i \in DOMAIN elems : Exists(elems[i])
    <3>1. \A i \in 1..m : elems[i] \in T
      BY <2>3, <2>4, <2>6 DEF Exists
    <3>2. elems \in Seq(T)
      <4>1. elems \in [1..m -> T]
        BY <2>2, <3>1
      <4> HIDE DEF elems
      <4> QED BY <4>1
    <3>3. data \o elems \in Seq(T)
      <4> HIDE DEF elems
      <4> QED BY <3>2
    <3>4. DeserializeArray(read, data, doc) = [data |-> data \o elems, read |-> TRUE]
      BY <2>5, <2>6
    <3> HIDE DEF elems
    <3> QED BY <3>3, <3>4 DEF ReadArray, IsResult
  <2>7. CASE ~\A i \in DOMAIN elems : Exists(elems[i])
    <3>1. DeserializeArray(read, data, doc) = [data |-> <<>>, read |-> FALSE]
      BY <2>5, <2>7
    <3>2. <<>> \in Seq(T)
      OBVIOUS
    <3> QED BY <3>1, <3>2 DEF ReadArray, IsResult
  <2> QED BY <2>6, <2>7
<1> QED BY <1>1, <1>2

-----------------------------------------------------------------------------
\* What a document is read as is nothing, or sound.
ReadsSound(ty, v) == v = NoValue \/ Sound(ty, v)

LEMMA SequenceElements ==
  ASSUME NEW T, NEW s \in Seq(T)
  PROVE  s \in Seq({s[i] : i \in DOMAIN s}) /\ \A i \in DOMAIN s : s[i] \in T
<1>1. PICK n \in Nat : n = Len(s) /\ DOMAIN s = 1..n /\ s = [i \in 1..n |-> s[i]]
  OBVIOUS
<1>2. PICK U : U = {s[i] : i \in DOMAIN s}
  OBVIOUS
<1>3. \A i \in 1..n : s[i] \in U
  BY <1>1, <1>2
<1>4. s \in [1..n -> U]
  BY <1>1, <1>3
<1>5. s \in Seq(U)
  BY <1>4
<1> QED BY <1>2, <1>5

\* A container is sound when its elements are and an array is a sequence.
LEMMA ContainerIsSound ==
  ASSUME NEW ty, IsType(ty), NEW m \in Nat, Len(ty) = m + 2, NEW data, NEW T,
         \A v \in T : Sound(Tail(ty), v), \A i \in DOMAIN data : data[i] \in T,
         IF IsArray(ty) THEN data \in Seq(T) ELSE Keyed(data)
  PROVE  Sound(ty, <<ty, data>>)
<1>1. PICK v : v = <<ty, data>>
  OBVIOUS
<1>2. TypeOf(v) = ty /\ DataOf(v) = data
  BY <1>1 DEF TypeOf, DataOf
<1>3. ElementSet(v) = {data[i] : i \in DOMAIN data}
  BY <1>2 DEF ElementSet
<1>4. Formed(v)
  <2>1. IsMap(ty) => Keyed(data)
    BY ArrayOrMap
  <2>2. ty # BytesType /\ ty # IpType
    BY DEF BytesType, IpType
  <2>3. IsArray(ty) => data \in Seq(ElementSet(v))
    BY <1>3, SequenceElements
  <2> QED BY <1>1, <1>2, <2>1, <2>2, <2>3 DEF Formed
<1>5. \A e \in ElementSet(v) : Sound(Tail(ty), e)
  BY <1>3
<1> QED BY <1>1, <1>2, <1>4, <1>5, SoundUnfolds

LEMMA EmptyIsKeyed == Keyed(EmptyMap) /\ DOMAIN EmptyMap = {}
<1>1. PICK m : m = EmptyMap
  OBVIOUS
<1>2. m = [k \in {} |-> NoValue]
  BY <1>1 DEF EmptyMap
<1>3. DOMAIN m = {} /\ m = [k \in DOMAIN m |-> m[k]]
  BY <1>2
<1>4. IsFiniteSet(DOMAIN m)
  BY <1>3, FS_EmptySet
<1> QED BY <1>1, <1>3, <1>4 DEF Keyed

LEMMA ContainerReads ==
  ASSUME NEW ty, IsType(ty), NEW m \in Nat, Len(ty) = m + 2,
         NEW read, NEW doc \in Docs,
         \A d \in InnerDocuments(doc) : ReadsSound(Tail(ty), read[d])
  PROVE  ReadsSound(ty, DeserializeContainer(ty, read, doc))
<1> DEFINE T == {v \in {read[d] : d \in InnerDocuments(doc)} : Sound(Tail(ty), v)}
<1>1. \A d \in InnerDocuments(doc) : read[d] \in T \cup {NoValue}
  BY DEF ReadsSound
<1>2. \A v \in T : Sound(Tail(ty), v)
  OBVIOUS
<1> HIDE DEF T
<1>3. CASE IsArray(ty)
  <2>1. PICK r : r = DeserializeArray(read, <<>>, doc)
    OBVIOUS
  <2>2. <<>> \in Seq(T)
    OBVIOUS
  <2>3. r.data \in Seq(T)
    <3>1. ReadArray(r, <<>>, T)
      BY <1>1, <2>1, <2>2, ArrayKeeps, ContainersAssumption
    <3> QED BY <3>1 DEF ReadArray
  <2>4. DeserializeContainer(ty, read, doc) = IF r.read THEN <<ty, r.data>> ELSE NoValue
    BY <1>3, <2>1 DEF DeserializeContainer
  <2>5. \A i \in DOMAIN r.data : r.data[i] \in T
    BY <2>3, SequenceElements
  <2>6. Sound(ty, <<ty, r.data>>)
    BY <1>2, <1>3, <2>3, <2>5, ContainerIsSound
  <2> QED BY <2>4, <2>6 DEF ReadsSound
<1>4. CASE ~IsArray(ty)
  <2>1. PICK r : r = DeserializeMap(read, EmptyMap, doc)
    OBVIOUS
  <2>2. Keyed(EmptyMap) /\ \A k \in DOMAIN EmptyMap : EmptyMap[k] \in T
    BY EmptyIsKeyed
  <2>3. Inserted(r, EmptyMap, T)
    BY <1>1, <2>1, <2>2, MapKeeps
  <2>4. DeserializeContainer(ty, read, doc) = IF r.read THEN <<ty, r.data>> ELSE NoValue
    BY <1>4, <2>1 DEF DeserializeContainer
  <2>5. Keyed(r.data) /\ \A i \in DOMAIN r.data : r.data[i] \in T
    BY <2>3 DEF Inserted
  <2>6. Sound(ty, <<ty, r.data>>)
    BY <1>2, <1>4, <2>5, ContainerIsSound
  <2> QED BY <2>4, <2>6 DEF ReadsSound
<1> QED BY <1>3, <1>4

LEMMA ScalarReads ==
  ASSUME NEW ty, IsType(ty), Len(ty) = 1, NEW doc, IsDocument(doc)
  PROVE  ReadsSound(ty, DeserializeScalar(ty, doc))
<1>1. ty \in {BoolType, BytesType, IntType, IpType}
  BY ScalarTypes
<1>2. /\ BoolType # BytesType /\ BoolType # IntType /\ BoolType # IpType
      /\ BytesType # IntType /\ BytesType # IpType /\ IntType # IpType
  BY DEF BoolType, BytesType, IntType, IpType
<1>3. PICK v : v = DeserializeScalar(ty, doc)
  OBVIOUS
<1>4. v = NoValue \/ (TypeOf(v) = ty /\ IsScalar(v))
  <2>1. CASE ty = IpType
    <3>1. v = DeserializeIp(doc)
      BY <1>2, <1>3, <2>1 DEF DeserializeScalar
    <3>2. CASE doc[1] = "string" /\ doc[2] # <<>>
      <4>1. PICK text \in Seq(Nat) : text = doc[2]
        <5>1. doc[2] \in Seq(ByteValue) \/ doc[2] \in Seq(ByteValue \cup {IpTag})
          BY <3>2 DEF IsDocument, IsBytes
        <5>2. ByteValue \subseteq Nat /\ ByteValue \cup {IpTag} \subseteq Nat
          BY DEF ByteValue, IpTag
        <5>3. doc[2] \in Seq(Nat)
          BY <5>1, <5>2
        <5> QED BY <5>3
      <4>2. PICK ip \in Seq(Nat) : ip = Tail(text)
        <5>1. text # <<>>
          BY <3>2, <4>1
        <5>2. Tail(text) \in Seq(Nat)
          BY <5>1, HeadTailProperties
        <5> QED BY <5>2
      <4>3. v = <<IpType, ip>> \/ v = NoValue
        BY <3>1, <4>1, <4>2 DEF DeserializeIp
      <4> QED BY <1>2, <2>1, <4>3 DEF IsScalar, TypeOf, DataOf
    <3>3. CASE ~(doc[1] = "string" /\ doc[2] # <<>>)
      BY <3>1, <3>3 DEF DeserializeIp
    <3> QED BY <3>2, <3>3
  <2>2. CASE ty = BytesType
    <3>1. v = DeserializeBytes(doc)
      BY <1>2, <1>3, <2>2 DEF DeserializeScalar
    <3>2. v = NoValue \/ (v = <<BytesType, DataOf(v)>> /\ IsBytes(DataOf(v)))
      BY <3>1, BytesRead
    <3> QED BY <1>2, <2>2, <3>2 DEF IsScalar, TypeOf
  <2>3. CASE ty = IntType
    <3>1. v = IF doc[1] = "number" THEN <<IntType, doc[2]>> ELSE NoValue
      BY <1>2, <1>3, <2>3 DEF DeserializeScalar
    <3> QED BY <1>2, <2>3, <3>1 DEF IsScalar, TypeOf, DataOf
  <2>4. CASE ty = BoolType
    <3>1. v = IF doc[1] = "bool" THEN <<BoolType, doc[2]>> ELSE NoValue
      BY <1>2, <1>3, <2>4 DEF DeserializeScalar
    <3> QED BY <1>2, <2>4, <3>1 DEF IsScalar, TypeOf, DataOf
  <2> QED BY <1>1, <2>1, <2>2, <2>3, <2>4
<1> QED BY <1>3, <1>4, ScalarIsSound DEF ReadsSound

-----------------------------------------------------------------------------
\* The documents at each depth, and the values they are read as.
InnerOfAll(docs) == UNION {InnerDocuments(d) : d \in docs}
IsWithin(f, docs, m) ==
  f = [n \in 0..m |-> IF n = 0 THEN docs ELSE InnerOfAll(f[n - 1])]

LEMMA WithinExists ==
  ASSUME NEW docs, NEW m \in Nat
  PROVE  \E f : IsWithin(f, docs, m)
<1> DEFINE Bad == {n \in Nat : ~\E f : IsWithin(f, docs, n)}
<1> SUFFICES ASSUME Bad # {} PROVE FALSE
  OBVIOUS
<1>1. PICK x \in Bad : \A n \in Bad : x <= n
  <2>1. Bad \in SUBSET Nat
    OBVIOUS
  <2> HIDE DEF Bad
  <2> QED BY <2>1, LeastNumber
<1>2. x # 0
  <2> DEFINE f == [n \in 0..0 |-> docs]
  <2>1. IsWithin(f, docs, 0)
    BY DEF IsWithin
  <2> QED BY <1>1, <2>1
<1>3. x \in Nat /\ x - 1 \in Nat /\ x - 1 \notin Bad
  BY <1>1, <1>2
<1>4. PICK g : IsWithin(g, docs, x - 1)
  BY <1>3
<1>5. PICK top : top = InnerOfAll(g[x - 1])
  OBVIOUS
<1> DEFINE f == [n \in 0..x |-> IF n = x THEN top ELSE g[n]]
<1>6. \A n \in 0..x - 1 : g[n] = IF n = 0 THEN docs ELSE InnerOfAll(g[n - 1])
  BY <1>4 DEF IsWithin
<1>7. ASSUME NEW n \in 0..x
      PROVE  f[n] = IF n = 0 THEN docs ELSE InnerOfAll(f[n - 1])
  <2>1. CASE n = x
    <3>1. x - 1 \in 0..x /\ x - 1 # x /\ x # 0 /\ x \in 0..x
      BY <1>2, <1>3
    <3>2. f[x - 1] = g[x - 1] /\ f[x] = top
      BY <3>1
    <3> QED BY <1>5, <2>1, <3>1, <3>2
  <2>2. CASE n # x /\ n # 0
    <3>1. n \in 0..x - 1 /\ n - 1 \in 0..x /\ n - 1 # x
      BY <1>3, <2>2
    <3>2. f[n] = g[n] /\ f[n - 1] = g[n - 1]
      BY <2>2, <3>1
    <3> QED BY <1>6, <2>2, <3>1, <3>2
  <2>3. CASE n # x /\ n = 0
    <3>1. 0 \in 0..x - 1 /\ 0 \in 0..x
      BY <1>3
    <3>2. f[n] = g[n]
      BY <2>3
    <3> QED BY <1>6, <2>3, <3>1, <3>2
  <2> QED BY <2>1, <2>2, <2>3
<1>8. f = [n \in 0..x |-> IF n = 0 THEN docs ELSE InnerOfAll(f[n - 1])]
  <2>1. f = [n \in 0..x |-> f[n]]
    OBVIOUS
  <2> HIDE DEF f
  <2> QED BY <1>7, <2>1
<1>9. IsWithin(f, docs, x)
  BY <1>8 DEF IsWithin
<1> QED BY <1>1, <1>9

LEMMA WithinEquation ==
  ASSUME NEW docs, NEW m \in Nat
  PROVE  /\ DocumentsWithin(docs, m)[0] = docs
         /\ \A n \in 1..m : DocumentsWithin(docs, m)[n] = InnerOfAll(DocumentsWithin(docs, m)[n - 1])
<1> DEFINE Chosen == CHOOSE f : IsWithin(f, docs, m)
<1>1. IsWithin(Chosen, docs, m)
  BY WithinExists
<1>2. DocumentsWithin(docs, m) = Chosen
  BY DEF DocumentsWithin, IsWithin, InnerOfAll
<1> HIDE DEF Chosen
<1>3. \A n \in 0..m : Chosen[n] = IF n = 0 THEN docs ELSE InnerOfAll(Chosen[n - 1])
  BY <1>1 DEF IsWithin
<1> QED BY <1>2, <1>3

LEMMA WithinDocs ==
  ASSUME NEW docs, docs \subseteq Docs, NEW m \in Nat
  PROVE  \A n \in 0..m : DocumentsWithin(docs, m)[n] \subseteq Docs
<1> DEFINE Bad == {n \in 0..m : ~(DocumentsWithin(docs, m)[n] \subseteq Docs)}
<1>1. ASSUME Bad # {} PROVE FALSE
  <2>1. PICK x \in Bad : \A n \in Bad : x <= n
    <3>1. Bad \in SUBSET Nat
      OBVIOUS
    <3>2. Bad # {}
      BY <1>1
    <3> HIDE DEF Bad
    <3> QED BY <3>1, <3>2, LeastNumber
  <2>2. x # 0
    BY <2>1, WithinEquation
  <2>3. x \in 1..m /\ x - 1 \in 0..m /\ x - 1 \notin Bad
    BY <2>1, <2>2
  <2>4. DocumentsWithin(docs, m)[x] = InnerOfAll(DocumentsWithin(docs, m)[x - 1])
    BY <2>3, WithinEquation
  <2>5. DocumentsWithin(docs, m)[x - 1] \subseteq Docs
    BY <2>3
  <2>6. InnerOfAll(DocumentsWithin(docs, m)[x - 1]) \subseteq Docs
    BY <2>5, ContainersAssumption DEF InnerOfAll
  <2> QED BY <2>1, <2>4, <2>6
<1> QED BY <1>1

\* The layers of a type, counted from its scalar.
LayersFrom(ty, n) == SubSeq(ty, Len(ty) - n, Len(ty))

LEMMA LayersFromTypes ==
  ASSUME NEW ty, IsType(ty), NEW m \in Nat, Len(ty) = m + 1
  PROVE  /\ LayersFrom(ty, m) = ty
         /\ \A n \in 0..m : IsType(LayersFrom(ty, n)) /\ Len(LayersFrom(ty, n)) = n + 1
         /\ \A n \in 1..m : Tail(LayersFrom(ty, n)) = LayersFrom(ty, n - 1)
<1> DEFINE S == Layers \cup Primitives
<1>1. ty \in Seq(S) /\ ty[m + 1] \in Primitives /\ \A i \in 1..m : ty[i] \in Layers
  BY DEF IsType, Last
<1>2. LayersFrom(ty, m) = ty
  <2>1. Len(ty) - m = 1
    OBVIOUS
  <2> QED BY <1>1, <2>1, SubSeqFull DEF LayersFrom
<1>3. ASSUME NEW n \in 0..m
      PROVE  /\ LayersFrom(ty, n) \in Seq(S) /\ Len(LayersFrom(ty, n)) = n + 1
             /\ \A i \in 1..n + 1 : LayersFrom(ty, n)[i] = ty[i + (m - n)]
  <2>1. LayersFrom(ty, n) = SubSeq(ty, (m + 1) - n, m + 1)
    BY DEF LayersFrom
  <2>2. /\ (m + 1) - n \in 1..m + 1 /\ m + 1 \in 1..m + 1
        /\ (m + 1) - ((m + 1) - n) + 1 = n + 1
    OBVIOUS
  <2>3. SubSeq(ty, (m + 1) - n, m + 1)
          = [i \in 1..(m + 1) - ((m + 1) - n) + 1 |-> ty[i + ((m + 1) - n) - 1]]
    BY <1>1
  <2>4. LayersFrom(ty, n) = [i \in 1..n + 1 |-> ty[i + ((m + 1) - n) - 1]]
    BY <2>1, <2>2, <2>3
  <2>5. ASSUME NEW i \in 1..n + 1
        PROVE  ty[i + ((m + 1) - n) - 1] = ty[i + (m - n)] /\ i + (m - n) \in 1..m + 1
    <3>1. i + ((m + 1) - n) - 1 = i + (m - n) /\ i + (m - n) \in 1..m + 1
      OBVIOUS
    <3> QED BY <3>1
  <2>6. \A i \in 1..n + 1 : ty[i + (m - n)] \in S
    BY <1>1, <2>5
  <2>7. LayersFrom(ty, n) \in [1..n + 1 -> S]
    BY <2>4, <2>5, <2>6
  <2>8. \A i \in 1..n + 1 : LayersFrom(ty, n)[i] = ty[i + (m - n)]
    BY <2>4, <2>5
  <2> HIDE DEF S
  <2> QED BY <2>7, <2>8
<1>4. ASSUME NEW n \in 0..m PROVE IsType(LayersFrom(ty, n))
  <2>1. PICK t : t = LayersFrom(ty, n)
    OBVIOUS
  <2>2. t \in Seq(S) /\ Len(t) = n + 1 /\ \A i \in 1..n + 1 : t[i] = ty[i + (m - n)]
    BY <1>3, <2>1
  <2>3. t # <<>>
    <3>1. Len(<<>>) = 0 /\ n + 1 # 0
      OBVIOUS
    <3> QED BY <2>2, <3>1
  <2>4. Last(t) \in Primitives
    <3>1. n + 1 \in 1..n + 1 /\ (n + 1) + (m - n) = m + 1
      OBVIOUS
    <3>2. Last(t) = t[n + 1]
      BY <2>2 DEF Last
    <3> QED BY <1>1, <2>2, <3>1, <3>2
  <2>5. ASSUME NEW i \in 1..Len(t) - 1 PROVE t[i] \in Layers
    <3>1. i \in 1..n + 1 /\ i + (m - n) \in 1..m
      BY <2>2
    <3> QED BY <1>1, <2>2, <3>1
  <2> QED BY <2>1, <2>2, <2>3, <2>4, <2>5 DEF IsType
<1>5. ASSUME NEW n \in 1..m PROVE Tail(LayersFrom(ty, n)) = LayersFrom(ty, n - 1)
  <2>1. PICK t, u : t = LayersFrom(ty, n) /\ u = LayersFrom(ty, n - 1)
    OBVIOUS
  <2>2. n \in 0..m /\ n - 1 \in 0..m /\ (n - 1) + 1 = n
    OBVIOUS
  <2>3. t \in Seq(S) /\ Len(t) = n + 1 /\ \A i \in 1..n + 1 : t[i] = ty[i + (m - n)]
    BY <1>3, <2>1, <2>2
  <2>4. u \in Seq(S) /\ Len(u) = n /\ \A i \in 1..n : u[i] = ty[i + (m - (n - 1))]
    BY <1>3, <2>1, <2>2
  <2> HIDE DEF S
  <2>5. Tail(t) \in Seq(S) /\ Len(Tail(t)) = n /\ \A i \in 1..n : Tail(t)[i] = t[i + 1]
    BY <2>3
  <2>6. ASSUME NEW i \in 1..n PROVE Tail(t)[i] = u[i]
    <3>1. i + 1 \in 1..n + 1 /\ (i + 1) + (m - n) = i + (m - (n - 1))
      OBVIOUS
    <3>2. Tail(t)[i] = t[i + 1] /\ t[i + 1] = ty[(i + 1) + (m - n)]
      BY <2>3, <2>5, <3>1
    <3> QED BY <2>4, <3>1, <3>2
  <2>7. Tail(t) = u
    BY <2>4, <2>5, <2>6
  <2> QED BY <2>1, <2>7
<1> QED BY <1>2, <1>3, <1>4, <1>5

\* One level of Deserialize, and all of them.
ReadNext(ty, docs, n, inner) ==
  [d \in docs |-> IF n = 0 THEN DeserializeScalar(LayersFrom(ty, n), d)
                  ELSE DeserializeContainer(LayersFrom(ty, n), inner, d)]
IsReading(f, ty, levels, m, k) ==
  f = [n \in 0..k |-> ReadNext(ty, levels[m - n], n, f[n - 1])]

LEMMA ReadStart ==
  ASSUME NEW ty, NEW docs, NEW x, NEW y
  PROVE  ReadNext(ty, docs, 0, x) = ReadNext(ty, docs, 0, y)
  BY DEF ReadNext

LEMMA ReadingExists ==
  ASSUME NEW ty, NEW levels, NEW m, NEW k \in Nat
  PROVE  \E f : IsReading(f, ty, levels, m, k)
<1> DEFINE Bad == {n \in Nat : ~\E f : IsReading(f, ty, levels, m, n)}
<1> SUFFICES ASSUME Bad # {} PROVE FALSE
  OBVIOUS
<1>1. PICK x \in Bad : \A n \in Bad : x <= n
  <2>1. Bad \in SUBSET Nat
    OBVIOUS
  <2> HIDE DEF Bad
  <2> QED BY <2>1, LeastNumber
<1>2. x # 0
  <2>1. PICK start : start = ReadNext(ty, levels[m - 0], 0, <<>>)
    OBVIOUS
  <2> DEFINE f == [n \in 0..0 |-> start]
  <2>2. ASSUME NEW n \in 0..0 PROVE f[n] = ReadNext(ty, levels[m - n], n, f[n - 1])
    <3>1. n = 0 /\ f[n] = start
      OBVIOUS
    <3> HIDE DEF f
    <3> QED BY <2>1, <3>1, ReadStart
  <2>3. f = [n \in 0..0 |-> f[n]]
    OBVIOUS
  <2> HIDE DEF f
  <2>4. IsReading(f, ty, levels, m, 0)
    BY <2>2, <2>3 DEF IsReading
  <2> QED BY <1>1, <2>4
<1>3. x \in Nat /\ x - 1 \in Nat /\ x - 1 \notin Bad
  BY <1>1, <1>2
<1>4. PICK g : IsReading(g, ty, levels, m, x - 1)
  BY <1>3
<1>5. PICK top : top = ReadNext(ty, levels[m - x], x, g[x - 1])
  OBVIOUS
<1> DEFINE f == [n \in 0..x |-> IF n = x THEN top ELSE g[n]]
<1>6. \A n \in 0..x - 1 : g[n] = ReadNext(ty, levels[m - n], n, g[n - 1])
  BY <1>4 DEF IsReading
<1>7. ASSUME NEW n \in 0..x
      PROVE  f[n] = ReadNext(ty, levels[m - n], n, f[n - 1])
  <2>1. CASE n = x
    <3>1. x - 1 \in 0..x /\ x - 1 # x /\ x \in 0..x
      BY <1>2, <1>3
    <3>2. f[x - 1] = g[x - 1] /\ f[x] = top
      BY <3>1
    <3> QED BY <1>5, <2>1, <3>2
  <2>2. CASE n # x /\ n # 0
    <3>1. n \in 0..x - 1 /\ n - 1 \in 0..x /\ n - 1 # x
      BY <1>3, <2>2
    <3>2. f[n] = g[n] /\ f[n - 1] = g[n - 1]
      BY <2>2, <3>1
    <3> QED BY <1>6, <3>1, <3>2
  <2>3. CASE n # x /\ n = 0
    <3>1. 0 \in 0..x - 1 /\ 0 \in 0..x
      BY <1>3
    <3>2. f[0] = g[0]
      BY <2>3, <3>1
    <3>3. g[0] = ReadNext(ty, levels[m - 0], 0, g[0 - 1])
      BY <1>6, <3>1
    <3> HIDE DEF f
    <3>4. f[0] = ReadNext(ty, levels[m - 0], 0, f[0 - 1])
      BY <3>2, <3>3, ReadStart
    <3> QED BY <2>3, <3>4
  <2> QED BY <2>1, <2>2, <2>3
<1>8. f = [n \in 0..x |-> ReadNext(ty, levels[m - n], n, f[n - 1])]
  <2>1. f = [n \in 0..x |-> f[n]]
    OBVIOUS
  <2> HIDE DEF f
  <2> QED BY <1>7, <2>1
<1>9. IsReading(f, ty, levels, m, x)
  BY <1>8 DEF IsReading
<1> QED BY <1>1, <1>9

\* Whatever a document is read as is sound.
LEMMA DeserializeSound ==
  ASSUME NEW ty, IsType(ty), NEW docs, docs \subseteq Docs
  PROVE  \A d \in docs : ReadsSound(ty, Deserialize(ty, docs)[d])
<1>1. PICK m \in Nat : Len(ty) = m + 1 /\ Len(ty) - 1 = m
  <2>1. Len(ty) \in Nat /\ Len(ty) # 0
    BY DEF IsType
  <2>2. Len(ty) - 1 \in Nat /\ Len(ty) = (Len(ty) - 1) + 1
    BY <2>1
  <2> QED BY <2>2
<1>2. PICK levels : levels = DocumentsWithin(docs, m)
  OBVIOUS
<1> DEFINE Chosen == CHOOSE f : IsReading(f, ty, levels, m, m)
<1>3. IsReading(Chosen, ty, levels, m, m)
  BY ReadingExists
<1>4. Deserialize(ty, docs) = Chosen[m]
  BY <1>1, <1>2 DEF Deserialize, IsReading, ReadNext, LayersFrom
<1> HIDE DEF Chosen
<1>5. \A n \in 0..m : Chosen[n] = ReadNext(ty, levels[m - n], n, Chosen[n - 1])
  BY <1>3 DEF IsReading
<1>6. /\ LayersFrom(ty, m) = ty
      /\ \A n \in 0..m : IsType(LayersFrom(ty, n)) /\ Len(LayersFrom(ty, n)) = n + 1
      /\ \A n \in 1..m : Tail(LayersFrom(ty, n)) = LayersFrom(ty, n - 1)
  BY <1>1, LayersFromTypes
<1>7. /\ levels[0] = docs /\ \A n \in 0..m : levels[n] \subseteq Docs
      /\ \A n \in 1..m : levels[n] = InnerOfAll(levels[n - 1])
  BY <1>2, WithinEquation, WithinDocs
<1> DEFINE Good(n) == \A d \in levels[m - n] : ReadsSound(LayersFrom(ty, n), Chosen[n][d])
           Bad == {n \in 0..m : ~Good(n)}
<1>8. Good(0)
  <2>1. 0 \in 0..m /\ IsType(LayersFrom(ty, 0)) /\ Len(LayersFrom(ty, 0)) = 1
    <3>1. 0 \in 0..m /\ 0 + 1 = 1
      OBVIOUS
    <3>2. IsType(LayersFrom(ty, 0)) /\ Len(LayersFrom(ty, 0)) = 0 + 1
      BY <1>6, <3>1, Zenon
    <3> QED BY <3>1, <3>2
  <2>2. ASSUME NEW d \in levels[m - 0] PROVE ReadsSound(LayersFrom(ty, 0), Chosen[0][d])
    <3>1. Chosen[0] = ReadNext(ty, levels[m - 0], 0, Chosen[0 - 1])
      BY <1>5, <2>1
    <3>2. Chosen[0][d] = DeserializeScalar(LayersFrom(ty, 0), d)
      BY <2>2, <3>1 DEF ReadNext
    <3>3. IsDocument(d)
      <4>1. m - 0 \in 0..m
        OBVIOUS
      <4>2. d \in Docs
        BY <1>7, <2>2, <4>1
      <4> QED BY <4>2, ContainersAssumption
    <3> QED BY <2>1, <3>2, <3>3, ScalarReads
  <2> QED BY <2>2
<1>9. ASSUME NEW n \in 1..m, Good(n - 1) PROVE Good(n)
  <2>1. PICK t : t = LayersFrom(ty, n) /\ Tail(t) = LayersFrom(ty, n - 1) /\ IsType(t)
    BY <1>6
  <2>2. PICK k \in Nat : n = k + 1
    <3>1. n - 1 \in Nat /\ n = (n - 1) + 1
      OBVIOUS
    <3> QED BY <3>1
  <2>3. Len(t) = k + 2
    <3>1. n \in 0..m
      OBVIOUS
    <3>2. Len(LayersFrom(ty, n)) = n + 1
      BY <1>6, <3>1, Zenon
    <3>3. Len(t) = n + 1
      BY <2>1, <3>2
    <3> QED BY <2>2, <3>3
  <2>4. n \in 0..m /\ m - n \in 0..m /\ m - (n - 1) \in 1..m /\ (m - (n - 1)) - 1 = m - n
    OBVIOUS
  <2>5. levels[m - (n - 1)] = InnerOfAll(levels[m - n])
    BY <1>7, <2>4
  <2>6. ASSUME NEW d \in levels[m - n] PROVE ReadsSound(t, Chosen[n][d])
    <3>1. d \in Docs
      BY <1>7, <2>4, <2>6
    <3>2. \A e \in InnerDocuments(d) : ReadsSound(Tail(t), Chosen[n - 1][e])
      <4>1. InnerDocuments(d) \subseteq levels[m - (n - 1)]
        BY <2>5, <2>6 DEF InnerOfAll
      <4> QED BY <1>9, <2>1, <4>1
    <3>3. Chosen[n] = ReadNext(ty, levels[m - n], n, Chosen[n - 1])
      BY <1>5, <2>4
    <3>4. Chosen[n][d] = DeserializeContainer(t, Chosen[n - 1], d)
      BY <2>1, <2>2, <2>6, <3>3 DEF ReadNext
    <3>5. ReadsSound(t, DeserializeContainer(t, Chosen[n - 1], d))
      BY <2>1, <2>3, <3>1, <3>2, ContainerReads
    <3> QED BY <3>4, <3>5
  <2> QED BY <2>1, <2>6
<1> HIDE DEF Good
<1>10. ASSUME Bad # {} PROVE FALSE
  <2>1. PICK x \in Bad : \A n \in Bad : x <= n
    <3>1. Bad \in SUBSET Nat
      OBVIOUS
    <3>2. Bad # {}
      BY <1>10
    <3> HIDE DEF Bad
    <3> QED BY <3>1, <3>2, LeastNumber
  <2>2. x # 0
    BY <1>8, <2>1
  <2>3. x \in 1..m /\ x - 1 \in 0..m /\ x - 1 \notin Bad
    BY <2>1, <2>2
  <2>4. Good(x - 1)
    BY <2>3
  <2> QED BY <1>9, <2>1, <2>3, <2>4
<1>11. Good(m)
  <2>1. m \in 0..m
    OBVIOUS
  <2> QED BY <1>10, <2>1
<1>12. m - m = 0
  OBVIOUS
<1> QED BY <1>4, <1>6, <1>7, <1>11, <1>12 DEF Good

-----------------------------------------------------------------------------
\* The actions.
LEMMA EmptyIsSound ==
  ASSUME NEW ty, IsType(ty), NEW m \in Nat, Len(ty) = m + 2
  PROVE  Sound(ty, EmptyOf(ty))
<1>1. PICK none : none = <<>>
  OBVIOUS
<1>2. CASE IsArray(ty)
  <2>1. EmptyOf(ty) = <<ty, none>>
    BY <1>1, <1>2 DEF EmptyOf
  <2>2. none \in Seq({}) /\ \A i \in DOMAIN none : none[i] \in {}
    BY <1>1
  <2>3. \A v \in {} : Sound(Tail(ty), v)
    OBVIOUS
  <2>4. Sound(ty, <<ty, none>>)
    BY <1>2, <2>2, <2>3, ContainerIsSound
  <2> QED BY <2>1, <2>4
<1>3. CASE ~IsArray(ty)
  <2>1. EmptyOf(ty) = <<ty, EmptyMap>>
    BY <1>3 DEF EmptyOf
  <2>2. Keyed(EmptyMap) /\ \A i \in DOMAIN EmptyMap : EmptyMap[i] \in {}
    BY EmptyIsKeyed
  <2>3. \A v \in {} : Sound(Tail(ty), v)
    OBVIOUS
  <2>4. Sound(ty, <<ty, EmptyMap>>)
    BY <1>3, <2>2, <2>3, ContainerIsSound
  <2> QED BY <2>1, <2>4
<1> QED BY <1>2, <1>3

LEMMA ScalarsAreSound ==
  ASSUME NEW ty, NEW v \in ScalarsOf(ty)
  PROVE  Sound(ty, v) /\ Len(ty) = 1
<1>1. IsScalar(v) /\ TypeOf(v) = ty
  BY ContainersAssumption DEF ScalarsOf
<1>2. Len(ty) = 1
  BY <1>1 DEF IsScalar
<1> QED BY <1>1, <1>2, ScalarIsSound

LEMMA NewElementsAreSound ==
  ASSUME NEW ty, IsType(ty), NEW v \in ElementsFor(ty)
  PROVE  Sound(ty, v)
<1>0. ty \in Seq(Layers \cup Primitives) /\ ty # <<>> /\ Last(ty) \in Primitives
  BY DEF IsType
<1>1. CASE Len(ty) = 1
  <2>1. Head(ty) = Last(ty)
    BY <1>0, <1>1 DEF Last
  <2>2. ~IsArray(ty) /\ ~IsMap(ty)
    BY <1>0, <2>1 DEF IsArray, IsMap, Primitives
  <2>3. ElementsFor(ty) = ScalarsOf(ty)
    BY <1>1, <2>2 DEF ElementsFor
  <2> QED BY <2>3, ScalarsAreSound
<1>2. CASE Len(ty) # 1
  <2>1. PICK n \in Nat : Len(ty) = n /\ n # 0 /\ n # 1
    <3>1. Len(ty) \in Nat /\ Len(ty) # 0
      BY DEF IsType
    <3> QED BY <1>2, <3>1
  <2>2. PICK m \in Nat : Len(ty) = m + 2
    <3>1. n - 2 \in Nat /\ n = (n - 2) + 2
      BY <2>1
    <3> QED BY <2>1, <3>1
  <2>3. (IsArray(ty) /\ ~IsMap(ty)) \/ (IsMap(ty) /\ ~IsArray(ty))
    <3>1. PICK layer \in Layers : layer = Head(ty)
      BY <2>2, TailIsType
    <3> QED BY <3>1 DEF Layers, IsArray, IsMap
  <2>4. CASE IsArray(ty) /\ ~IsMap(ty)
    <3>1. v \in InnerArrays(ty)
      BY <1>2, <2>4 DEF ElementsFor
    <3>2. ASSUME NEW s \in ScalarsOf(NextType(ty)), v = <<ty, <<s>>>>
          PROVE  Sound(ty, v)
      <4>1. Sound(Tail(ty), s)
        BY ScalarsAreSound DEF NextType
      <4>2. PICK data : data = <<s>>
        OBVIOUS
      <4>3. data \in Seq({s}) /\ \A i \in DOMAIN data : data[i] \in {s}
        BY <4>2
      <4>4. \A w \in {s} : Sound(Tail(ty), w)
        BY <4>1
      <4>5. Sound(ty, <<ty, data>>)
        BY <2>2, <2>4, <4>3, <4>4, ContainerIsSound
      <4> QED BY <3>2, <4>2, <4>5
    <3>3. Sound(ty, EmptyOf(ty))
      BY <2>2, EmptyIsSound
    <3> QED BY <3>1, <3>2, <3>3 DEF InnerArrays
  <2>5. CASE IsMap(ty) /\ ~IsArray(ty)
    <3>1. v = EmptyOf(ty)
      BY <1>2, <2>5 DEF ElementsFor
    <3> QED BY <2>2, <3>1, EmptyIsSound
  <2> QED BY <2>3, <2>4, <2>5
<1> QED BY <1>1, <1>2

\* The parts of a sound container.
LEMMA SoundParts ==
  ASSUME NEW ty, IsType(ty), NEW m \in Nat, Len(ty) = m + 2, NEW v, Sound(ty, v)
  PROVE  /\ TypeOf(v) = ty /\ \A i \in DOMAIN DataOf(v) : DataOf(v)[i] \in ElementSet(v)
         /\ IF IsArray(ty) THEN DataOf(v) \in Seq(ElementSet(v)) ELSE Keyed(DataOf(v))
         /\ \A e \in ElementSet(v) : Sound(Tail(ty), e)
<1>1. TypeOf(v) = ty /\ Formed(v) /\ \A e \in ElementSet(v) : Sound(Tail(ty), e)
  BY SoundUnfolds
<1>2. IsMap(ty) <=> ~IsArray(ty)
  BY ArrayOrMap
<1> QED BY <1>1, <1>2 DEF Formed, ElementSet

LEMMA AppendIsSound ==
  ASSUME NEW ty, IsType(ty), NEW m \in Nat, Len(ty) = m + 2, NEW v, Sound(ty, v),
         IsArray(ty), NEW e, Sound(Tail(ty), e)
  PROVE  Sound(ty, <<ty, Append(DataOf(v), e)>>)
<1>1. PICK S : S = ElementSet(v)
  OBVIOUS
<1>2. PICK T : T = S \cup {e}
  OBVIOUS
<1>3. PICK data \in Seq(S) : data = DataOf(v)
  BY <1>1, SoundParts
<1>4. data \in Seq(T)
  BY <1>2
<1>5. PICK more : more = Append(data, e)
  OBVIOUS
<1>6. more \in Seq(T)
  BY <1>2, <1>4, <1>5
<1>7. \A i \in DOMAIN more : more[i] \in T
  BY <1>6, SequenceElements
<1>8. \A w \in T : Sound(Tail(ty), w)
  BY <1>1, <1>2, SoundParts
<1>9. Sound(ty, <<ty, more>>)
  BY <1>6, <1>7, <1>8, ContainerIsSound
<1> QED BY <1>3, <1>5, <1>9

LEMMA BindIsSound ==
  ASSUME NEW ty, IsType(ty), NEW m \in Nat, Len(ty) = m + 2, NEW v, Sound(ty, v),
         ~IsArray(ty), NEW k, IsBytes(k), NEW e, Sound(Tail(ty), e)
  PROVE  Sound(ty, <<ty, Bind(DataOf(v), k, e)>>)
<1>1. PICK T : T = ElementSet(v) \cup {e}
  OBVIOUS
<1>2. PICK more : more = Bind(DataOf(v), k, e)
  OBVIOUS
<1>3. \A i \in DOMAIN more : more[i] \in T
  BY <1>1, <1>2, SoundParts DEF Bind
<1>4. \A w \in T : Sound(Tail(ty), w)
  BY <1>1, SoundParts
<1>6. Keyed(more)
  BY <1>2, SoundParts, BindKeeps
<1>5. Sound(ty, <<ty, more>>)
  BY <1>3, <1>4, <1>6, ContainerIsSound
<1> QED BY <1>2, <1>5

LEMMA GrownIsSound ==
  ASSUME NEW ty, IsType(ty), NEW m \in Nat, Len(ty) = m + 2, NEW v, Sound(ty, v),
         NEW k, IsBytes(k), NEW e, Sound(Tail(ty), e)
  PROVE  Sound(ty, Grown(v, k, e))
<1>1. TypeOf(v) = ty
  BY DEF Sound
<1>2. CASE IsArray(ty)
  BY <1>1, <1>2, AppendIsSound DEF Grown, GrownArray
<1>3. CASE ~IsArray(ty)
  BY <1>1, <1>3, BindIsSound DEF Grown, GrownMap
<1> QED BY <1>2, <1>3

\* The invariant.
SoundInv == TypeOf(container) \in ContainerTypes /\ Sound(TypeOf(container), container)

LEMMA ContainerTypesAreTypes ==
  ASSUME NEW ty \in ContainerTypes
  PROVE  \E m \in Nat : IsType(ty) /\ Len(ty) = m + 2 /\ IsType(Tail(ty)) /\ Len(Tail(ty)) = m + 1
<1>1. IsType(ty) /\ Len(ty) > 1
  BY ContainersAssumption
<1>2. Len(ty) \in Nat
  BY <1>1 DEF IsType
<1>3. PICK m \in Nat : Len(ty) = m + 2
  <2>1. Len(ty) - 2 \in Nat /\ Len(ty) = (Len(ty) - 2) + 2
    BY <1>1, <1>2
  <2> QED BY <2>1
<1> QED BY <1>1, <1>3, TailIsType

LEMMA SoundInit == ContainersInit => SoundInv
<1> SUFFICES ASSUME ContainersInit PROVE SoundInv
  OBVIOUS
<1>1. PICK ty \in ContainerTypes : container = EmptyOf(ty)
  BY DEF ContainersInit
<1>2. PICK m \in Nat : IsType(ty) /\ Len(ty) = m + 2
  BY ContainerTypesAreTypes
<1>3. Sound(ty, container)
  BY <1>1, <1>2, EmptyIsSound
<1> QED BY <1>3 DEF SoundInv, Sound

\* What the actions put into the container is sound for its elements.
LEMMA WithElements ==
  ASSUME SoundInv, NEW data, NEW T, container' = <<TypeOf(container), data>>,
         \A v \in T : Sound(ElementType(container), v),
         \A i \in DOMAIN data : data[i] \in T,
         IF IsArray(TypeOf(container)) THEN data \in Seq(T) ELSE Keyed(data)
  PROVE  SoundInv'
<1>1. PICK ty \in ContainerTypes : ty = TypeOf(container)
  BY DEF SoundInv
<1>2. PICK m \in Nat : IsType(ty) /\ Len(ty) = m + 2
  BY <1>1, ContainerTypesAreTypes
<1>3. \A v \in T : Sound(Tail(ty), v)
  BY <1>1 DEF ElementType, NextType
<1>4. IF IsArray(ty) THEN data \in Seq(T) ELSE Keyed(data)
  BY <1>1
<1>5. Sound(ty, <<ty, data>>)
  BY <1>2, <1>3, <1>4, ContainerIsSound
<1>6. container' = <<ty, data>>
  BY <1>1
<1>7. TypeOf(container') = ty
  BY <1>6 DEF TypeOf
<1>8. Sound(ty, container')
  BY <1>5, <1>6
<1>9. TypeOf(container') \in ContainerTypes /\ Sound(TypeOf(container'), container')
  BY <1>1, <1>7, <1>8
<1> QED BY <1>9 DEF SoundInv

LEMMA WithSound ==
  ASSUME SoundInv, NEW v, container' = v, Sound(TypeOf(container), v)
  PROVE  SoundInv'
<1>1. TypeOf(v) = TypeOf(container)
  BY DEF Sound
<1> QED BY <1>1 DEF SoundInv

LEMMA PushKeeps ==
  ASSUME SoundInv, NEW v \in ElementsFor(ElementType(container)), PushElement(v)
  PROVE  SoundInv'
<1>1. PICK ty \in ContainerTypes : ty = TypeOf(container) /\ Sound(ty, container)
  BY DEF SoundInv
<1>2. PICK m \in Nat : IsType(ty) /\ Len(ty) = m + 2 /\ IsType(Tail(ty))
  BY <1>1, ContainerTypesAreTypes
<1>3. Sound(Tail(ty), v)
  BY <1>1, <1>2, NewElementsAreSound DEF ElementType, NextType
<1>4. IsArray(ty) /\ container' = <<ty, Append(DataOf(container), v)>>
  BY <1>1 DEF PushElement, With
<1>5. Sound(ty, <<ty, Append(DataOf(container), v)>>)
  BY <1>1, <1>2, <1>3, <1>4, AppendIsSound
<1> QED BY <1>1, <1>4, <1>5, WithSound

LEMMA TruncateKeeps ==
  ASSUME SoundInv, NEW n \in 0..MaxElements - 1, TruncateArray(n)
  PROVE  SoundInv'
<1>1. PICK ty \in ContainerTypes : ty = TypeOf(container) /\ Sound(ty, container)
  BY DEF SoundInv
<1>2. PICK m \in Nat : IsType(ty) /\ Len(ty) = m + 2
  BY <1>1, ContainerTypesAreTypes
<1>3. IsArray(ty) /\ n < Len(DataOf(container))
      /\ container' = <<ty, SubSeq(DataOf(container), 1, n)>>
  BY <1>1 DEF TruncateArray, With
<1>4. PICK T : T = ElementSet(container)
  OBVIOUS
<1>5. PICK data \in Seq(T) : data = DataOf(container)
  BY <1>1, <1>2, <1>3, <1>4, SoundParts
<1>6. \A v \in T : Sound(Tail(ty), v)
  BY <1>1, <1>2, <1>4, SoundParts
<1>7. PICK cut : cut = SubSeq(data, 1, n)
  OBVIOUS
<1>8. cut \in Seq(T)
  BY <1>5, <1>7, <1>3
<1>9. \A i \in DOMAIN cut : cut[i] \in T
  BY <1>8, SequenceElements
<1>10. Sound(ty, <<ty, cut>>)
  BY <1>2, <1>3, <1>6, <1>8, <1>9, ContainerIsSound
<1> QED BY <1>1, <1>3, <1>5, <1>7, <1>10, WithSound

LEMMA InsertKeeps ==
  ASSUME SoundInv, NEW k \in Keys, NEW v \in ElementsFor(ElementType(container)), InsertKey(k, v)
  PROVE  SoundInv'
<1>1. PICK ty \in ContainerTypes : ty = TypeOf(container) /\ Sound(ty, container)
  BY DEF SoundInv
<1>2. PICK m \in Nat : IsType(ty) /\ Len(ty) = m + 2 /\ IsType(Tail(ty))
  BY <1>1, ContainerTypesAreTypes
<1>3. Sound(Tail(ty), v)
  BY <1>1, <1>2, NewElementsAreSound DEF ElementType, NextType
<1>4. ~IsArray(ty) /\ container' = <<ty, Bind(DataOf(container), k, v)>>
  BY <1>1 DEF InsertKey, With, IsArray, IsMap
<1>5. Sound(ty, <<ty, Bind(DataOf(container), k, v)>>)
  BY <1>1, <1>2, <1>3, <1>4, BindIsSound, ContainersAssumption
<1> QED BY <1>1, <1>4, <1>5, WithSound

\* An inner container, grown by a scalar of its static type.
LEMMA InnerGrows ==
  ASSUME NEW ty \in ContainerTypes, NEW m \in Nat, Len(ty) = m + 2, m # 0,
         NEW inner, Sound(Tail(ty), inner), NEW k \in Keys, NEW v \in ScalarsOf(NextType(NextType(ty)))
  PROVE  Sound(Tail(ty), Grown(inner, k, v))
<1>1. PICK n \in Nat : m = n + 1
  <2>1. m - 1 \in Nat /\ m = (m - 1) + 1
    OBVIOUS
  <2> QED BY <2>1
<1>2. PICK in : in = Tail(ty)
  OBVIOUS
<1>3. IsType(in) /\ Len(in) = n + 2
  <2>1. IsType(Tail(ty)) /\ Len(Tail(ty)) = m + 1
    BY ContainersAssumption, TailIsType
  <2> QED BY <1>1, <1>2, <2>1
<1>4. Sound(Tail(in), v)
  BY <1>2, ScalarsAreSound DEF NextType
<1>5. Sound(in, inner)
  BY <1>2
<1>6. Sound(in, Grown(inner, k, v))
  BY <1>3, <1>4, <1>5, GrownIsSound, ContainersAssumption
<1> QED BY <1>2, <1>6

LEMMA NestedTypes ==
  ASSUME SoundInv, IsNested
  PROVE  \E ty \in ContainerTypes, m \in Nat :
           /\ ty = TypeOf(container) /\ Sound(ty, container) /\ IsType(ty)
           /\ Len(ty) = m + 2 /\ m # 0
           /\ IsType(Tail(ty)) /\ ElementType(container) = Tail(ty)
<1>1. PICK ty \in ContainerTypes : ty = TypeOf(container) /\ Sound(ty, container)
  BY DEF SoundInv
<1>2. PICK m \in Nat : IsType(ty) /\ Len(ty) = m + 2 /\ IsType(Tail(ty)) /\ Len(Tail(ty)) = m + 1
  BY <1>1, ContainerTypesAreTypes
<1>3. ElementType(container) = Tail(ty)
  BY <1>1 DEF ElementType, NextType
<1>4. m # 0
  BY <1>2, <1>3 DEF IsNested
<1> QED BY <1>1, <1>2, <1>3, <1>4

LEMMA GrowKeeps ==
  ASSUME SoundInv, NEW at, NEW k \in Keys, NEW v \in InnerScalars, GrowInner(at, k, v)
  PROVE  SoundInv'
<1>1. PICK ty \in ContainerTypes, m \in Nat :
        /\ ty = TypeOf(container) /\ Sound(ty, container) /\ IsType(ty)
        /\ Len(ty) = m + 2 /\ m # 0
        /\ IsType(Tail(ty)) /\ ElementType(container) = Tail(ty)
  BY NestedTypes DEF GrowInner
<1>2. PICK S : S = ElementSet(container)
  OBVIOUS
<1>3. PICK data : data = DataOf(container)
  OBVIOUS
<1>4. /\ \A i \in DOMAIN data : data[i] \in S
      /\ IF IsArray(ty) THEN data \in Seq(S) ELSE Keyed(data)
      /\ \A e \in S : Sound(Tail(ty), e)
  BY <1>1, <1>2, <1>3, SoundParts
<1>5. PICK grown : grown = Grown(data[at], k, v)
  OBVIOUS
<1>6. at \in DOMAIN data /\ container' = <<ty, [data EXCEPT ![at] = grown]>>
  BY <1>1, <1>3, <1>5 DEF GrowInner, With
<1>7. Sound(Tail(ty), grown)
  <2>1. v \in ScalarsOf(NextType(NextType(ty)))
    BY <1>1 DEF InnerScalars, NextType
  <2>2. Sound(Tail(ty), data[at])
    BY <1>4, <1>6
  <2> QED BY <1>1, <1>5, <2>1, <2>2, InnerGrows
<1>8. PICK T : T = S \cup {grown}
  OBVIOUS
<1>9. PICK more : more = [data EXCEPT ![at] = grown]
  OBVIOUS
<1>10. \A i \in DOMAIN more : more[i] \in T
  BY <1>4, <1>8, <1>9
<1>11. ASSUME IsArray(ty) PROVE more \in Seq(T)
  <2>1. data \in Seq(T)
    BY <1>4, <1>8, <1>11
  <2> QED BY <1>6, <1>8, <1>9, <2>1
<1>14. ASSUME ~IsArray(ty) PROVE Keyed(more)
  <2>1. Keyed(data)
    BY <1>4, <1>14
  <2>2. DOMAIN more = DOMAIN data /\ more = [x \in DOMAIN more |-> more[x]]
    BY <1>9
  <2> QED BY <2>1, <2>2 DEF Keyed
<1>12. \A e \in T : Sound(Tail(ty), e)
  BY <1>4, <1>7, <1>8
<1>13. Sound(ty, <<ty, more>>)
  BY <1>1, <1>10, <1>11, <1>12, <1>14, ContainerIsSound
<1> QED BY <1>1, <1>6, <1>9, <1>13, WithSound

LEMMA GetOrInsertKeeps ==
  ASSUME SoundInv, NEW key \in Keys, NEW k \in Keys, NEW v \in InnerScalars, GetOrInsert(key, k, v)
  PROVE  SoundInv'
<1>1. PICK ty \in ContainerTypes, m \in Nat :
        /\ ty = TypeOf(container) /\ Sound(ty, container) /\ IsType(ty)
        /\ Len(ty) = m + 2 /\ m # 0
        /\ IsType(Tail(ty)) /\ ElementType(container) = Tail(ty)
  BY NestedTypes DEF GetOrInsert
<1>2. PICK inner : inner = IF key \in DOMAIN DataOf(container) THEN DataOf(container)[key]
                           ELSE NewInner
  OBVIOUS
<1>3. ~IsArray(ty) /\ container' = <<ty, Bind(DataOf(container), key, Grown(inner, k, v))>>
  BY <1>1, <1>2 DEF GetOrInsert, With, IsArray, IsMap
<1>4. Sound(Tail(ty), inner)
  <2>1. CASE key \in DOMAIN DataOf(container)
    BY <1>1, <1>2, <2>1, SoundParts
  <2>2. CASE key \notin DOMAIN DataOf(container)
    <3>1. inner = EmptyOf(Tail(ty))
      BY <1>1, <1>2, <2>2 DEF NewInner
    <3>2. PICK n \in Nat : m = n + 1
      <4>1. m - 1 \in Nat /\ m = (m - 1) + 1
        BY <1>1
      <4> QED BY <4>1
    <3>3. PICK in : in = Tail(ty)
      OBVIOUS
    <3>4. IsType(in) /\ Len(in) = n + 2
      BY <1>1, <3>2, <3>3, TailIsType
    <3>5. Sound(in, EmptyOf(in))
      BY <3>4, EmptyIsSound
    <3> QED BY <3>1, <3>3, <3>5
  <2> QED BY <2>1, <2>2
<1>5. Sound(Tail(ty), Grown(inner, k, v))
  <2>1. v \in ScalarsOf(NextType(NextType(ty)))
    BY <1>1 DEF InnerScalars, NextType
  <2> QED BY <1>1, <1>4, <2>1, InnerGrows
<1>6. Sound(ty, <<ty, Bind(DataOf(container), key, Grown(inner, k, v))>>)
  BY <1>1, <1>3, <1>5, BindIsSound, ContainersAssumption
<1> QED BY <1>1, <1>3, <1>6, WithSound

\* What a document read into the container leaves of it.
Bounded ==
  failed' => IF IsMap(TypeOf(container))
             THEN \A k \in DOMAIN DataOf(container) : k \in DOMAIN DataOf(container')
             ELSE DataOf(container') \in {DataOf(container), <<>>}

LEMMA ReadKeeps ==
  ASSUME SoundInv, NEW doc \in Docs, ReadDocument(doc)
  PROVE  SoundInv' /\ Bounded
<1>1. PICK ty \in ContainerTypes : ty = TypeOf(container) /\ Sound(ty, container)
  BY DEF SoundInv
<1>2. PICK m \in Nat : IsType(ty) /\ Len(ty) = m + 2 /\ IsType(Tail(ty))
  BY <1>1, ContainerTypesAreTypes
<1>3. PICK docs : docs = InnerDocuments(doc) /\ docs \subseteq Docs /\ IsDocument(doc)
  BY ContainersAssumption
<1>4. PICK read : read = Deserialize(Tail(ty), docs)
  OBVIOUS
<1>5. \A d \in docs : ReadsSound(Tail(ty), read[d])
  BY <1>2, <1>3, <1>4, DeserializeSound
<1>6. PICK S : S = ElementSet(container)
  OBVIOUS
<1>7. PICK data : data = DataOf(container)
  OBVIOUS
<1>8. /\ \A i \in DOMAIN data : data[i] \in S
      /\ IF IsArray(ty) THEN data \in Seq(S) ELSE Keyed(data)
      /\ \A e \in S : Sound(Tail(ty), e)
  BY <1>1, <1>2, <1>6, <1>7, SoundParts
<1>9. PICK T : T = S \cup {v \in {read[d] : d \in docs} : Sound(Tail(ty), v)}
  OBVIOUS
<1>10. \A d \in InnerDocuments(doc) : read[d] \in T \cup {NoValue}
  BY <1>3, <1>5, <1>9 DEF ReadsSound
<1>11. \A e \in T : Sound(Tail(ty), e)
  BY <1>8, <1>9
<1>12. \A i \in DOMAIN data : data[i] \in T
  BY <1>8, <1>9
<1>13. Deserialize(ElementType(container), InnerDocuments(doc)) = read
  BY <1>1, <1>3, <1>4 DEF ElementType, NextType
<1>14. CASE IsArray(ty)
  <2>1. PICK r : r = DeserializeArray(read, data, doc)
    OBVIOUS
  <2>2. container' = <<ty, r.data>> /\ failed' = ~r.read
    BY <1>1, <1>7, <1>13, <1>14, <2>1 DEF ReadDocument
  <2>3. data \in Seq(T)
    BY <1>8, <1>9, <1>14
  <2>4. ReadArray(r, data, T)
    BY <1>3, <1>10, <2>1, <2>3, ArrayKeeps
  <2>5. r.data \in Seq(T) /\ (~r.read => r.data \in {data, <<>>})
    BY <2>4 DEF ReadArray
  <2>6. \A i \in DOMAIN r.data : r.data[i] \in T
    BY <2>5, SequenceElements
  <2>7. Sound(ty, <<ty, r.data>>)
    BY <1>2, <1>11, <1>14, <2>5, <2>6, ContainerIsSound
  <2>8. SoundInv'
    BY <1>1, <2>2, <2>7, WithSound
  <2>9. DataOf(container') = r.data
    BY <2>2 DEF DataOf
  <2>10. ~IsMap(TypeOf(container))
    BY <1>1, <1>14 DEF IsArray, IsMap
  <2>11. Bounded
    BY <1>7, <2>2, <2>5, <2>9, <2>10 DEF Bounded
  <2> QED BY <2>8, <2>11
<1>15. CASE ~IsArray(ty)
  <2>1. PICK r : r = DeserializeMap(read, data, doc)
    OBVIOUS
  <2>2. container' = <<ty, r.data>>
    BY <1>1, <1>7, <1>13, <1>15, <2>1 DEF ReadDocument
  <2>3. Inserted(r, data, T)
    BY <1>8, <1>10, <1>12, <1>15, <2>1, MapKeeps
  <2>4. DOMAIN data \subseteq DOMAIN r.data /\ Keyed(r.data) /\ \A i \in DOMAIN r.data : r.data[i] \in T
    BY <2>3 DEF Inserted
  <2>5. Sound(ty, <<ty, r.data>>)
    BY <1>2, <1>11, <1>15, <2>4, ContainerIsSound
  <2>6. SoundInv'
    BY <1>1, <2>2, <2>5, WithSound
  <2>7. DataOf(container') = r.data
    BY <2>2 DEF DataOf
  <2>8. IsMap(TypeOf(container))
    <3>1. PICK layer \in Layers : layer = Head(ty)
      BY <1>2, TailIsType
    <3> QED BY <1>1, <1>15, <3>1 DEF Layers, IsArray, IsMap
  <2>9. Bounded
    BY <1>7, <2>4, <2>7, <2>8 DEF Bounded
  <2> QED BY <2>6, <2>9
<1> QED BY <1>14, <1>15

LEMMA ContainersStep ==
  ASSUME SoundInv, [ContainersNext]_containerVars
  PROVE  SoundInv' /\ [Bounded]_containerVars
<1>1. ASSUME NEW v \in ElementsFor(ElementType(container)), PushElement(v)
      PROVE  SoundInv' /\ ~failed'
  BY <1>1, PushKeeps DEF PushElement, With
<1>2. ASSUME NEW n \in 0..MaxElements - 1, TruncateArray(n)
      PROVE  SoundInv' /\ ~failed'
  BY <1>2, TruncateKeeps DEF TruncateArray, With
<1>3. ASSUME NEW k \in Keys, NEW v \in ElementsFor(ElementType(container)), InsertKey(k, v)
      PROVE  SoundInv' /\ ~failed'
  BY <1>3, InsertKeeps DEF InsertKey, With
<1>4. ASSUME NEW at, NEW k \in Keys, NEW v \in InnerScalars, GrowInner(at, k, v)
      PROVE  SoundInv' /\ ~failed'
  BY <1>4, GrowKeeps DEF GrowInner, With
<1>5. ASSUME NEW key \in Keys, NEW k \in Keys, NEW v \in InnerScalars, GetOrInsert(key, k, v)
      PROVE  SoundInv' /\ ~failed'
  <2>1. ~failed'
    BY <1>5 DEF GetOrInsert, With
  <2> QED BY <1>5, <2>1, GetOrInsertKeeps
<1>6. ASSUME NEW doc \in Docs, ReadDocument(doc) PROVE SoundInv' /\ Bounded
  BY <1>6, ReadKeeps
<1>7. CASE UNCHANGED containerVars
  BY <1>7 DEF SoundInv, containerVars
<1>8. ~failed' => Bounded
  BY DEF Bounded
<1> QED BY <1>1, <1>2, <1>3, <1>4, <1>5, <1>6, <1>7, <1>8 DEF ContainersNext

\* Elements have the type their container declares, at every depth, whatever the
\* caller builds and whatever documents are read into it (array.rs, map.rs).
THEOREM ElementsHaveTheirTypes == ContainersSpec => []ContainersWellTyped
<1>1. SoundInv => ContainersWellTyped
  <2> SUFFICES ASSUME SoundInv PROVE ContainersWellTyped
    OBVIOUS
  <2>1. PICK ty \in ContainerTypes : ty = TypeOf(container) /\ Sound(ty, container)
    BY DEF SoundInv
  <2>2. IsType(ty)
    BY ContainersAssumption
  <2> QED BY <2>1, <2>2, SoundIsWellTyped DEF ContainersWellTyped
<1> QED BY <1>1, SoundInit, ContainersStep, PTL DEF ContainersSpec

\* A refused document takes no key from a map, and leaves an array as it was or
\* empty (visit_map and visit_seq of array.rs and map.rs).
THEOREM RefusedDocumentsAreBounded == ContainersSpec => RefusedDocumentIsBounded
<1>1. SoundInv /\ [ContainersNext]_containerVars => [Bounded]_containerVars
  BY ContainersStep
<1>2. SoundInv /\ [ContainersNext]_containerVars => SoundInv'
  BY ContainersStep
<1> QED BY <1>1, <1>2, SoundInit, PTL DEF ContainersSpec, RefusedDocumentIsBounded, Bounded

-----------------------------------------------------------------------------
\* The order of byte strings, place by place.
Agree(a, b, n) == \A i \in 1..n : a[i] = b[i]

LEMMA BytesLessPlaces ==
  ASSUME NEW a \in Seq(Int), NEW b \in Seq(Int)
  PROVE  BytesLess(a, b) <=> \E n \in 0..Len(b) - 1 :
                               /\ n <= Len(a) /\ Agree(a, b, n)
                               /\ n = Len(a) \/ a[n + 1] < b[n + 1]
<1>1. ASSUME NEW n \in 0..Len(b) - 1, n <= Len(a)
      PROVE  SubSeq(a, 1, n) = SubSeq(b, 1, n) <=> Agree(a, b, n)
  <2>1. /\ SubSeq(a, 1, n) = [i \in 1..n |-> a[i]]
        /\ SubSeq(b, 1, n) = [i \in 1..n |-> b[i]]
    BY <1>1
  <2> QED BY <2>1 DEF Agree
<1> QED BY <1>1 DEF BytesLess

LEMMA BytesLessIrreflexive ==
  ASSUME NEW a \in Seq(Int)
  PROVE  ~BytesLess(a, a)
  BY BytesLessPlaces

LEMMA BytesLessTransitive ==
  ASSUME NEW a \in Seq(Int), NEW b \in Seq(Int), NEW c \in Seq(Int),
         BytesLess(a, b), BytesLess(b, c)
  PROVE  BytesLess(a, c)
<1>1. PICK n \in 0..Len(b) - 1 : /\ n <= Len(a) /\ Agree(a, b, n)
                                 /\ n = Len(a) \/ a[n + 1] < b[n + 1]
  BY BytesLessPlaces
<1>2. PICK m \in 0..Len(c) - 1 : /\ m <= Len(b) /\ Agree(b, c, m)
                                 /\ m = Len(b) \/ b[m + 1] < c[m + 1]
  BY BytesLessPlaces
<1>3. Len(a) \in Nat /\ Len(b) \in Nat /\ Len(c) \in Nat
  OBVIOUS
<1>4. CASE n < m
  <2>1. n \in 0..Len(c) - 1 /\ n + 1 \in 1..m
    BY <1>2, <1>3, <1>4
  <2>2. Agree(a, c, n)
    BY <1>1, <1>2, <1>4 DEF Agree
  <2>3. b[n + 1] = c[n + 1]
    BY <1>2, <2>1 DEF Agree
  <2> QED BY <1>1, <2>1, <2>2, <2>3, BytesLessPlaces
<1>5. CASE n = m
  <2>1. Agree(a, c, n)
    BY <1>1, <1>2, <1>5 DEF Agree
  <2>2. b[n + 1] < c[n + 1]
    BY <1>1, <1>2, <1>3, <1>5
  <2>3. n = Len(a) \/ a[n + 1] < c[n + 1]
    <3>1. CASE n = Len(a)
      BY <3>1
    <3>2. CASE n # Len(a)
      <4>1. n + 1 \in 1..Len(a) /\ n + 1 \in 1..Len(b) /\ n + 1 \in 1..Len(c)
        BY <1>1, <1>2, <1>3, <1>5, <3>2
      <4>2. a[n + 1] \in Int /\ b[n + 1] \in Int /\ c[n + 1] \in Int
        BY <4>1
      <4> QED BY <1>1, <2>2, <3>2, <4>2
    <3> QED BY <3>1, <3>2
  <2> QED BY <1>1, <1>2, <1>5, <2>1, <2>3, BytesLessPlaces
<1>6. CASE n > m
  <2>1. m <= Len(a) /\ m + 1 \in 1..n
    BY <1>1, <1>2, <1>3, <1>6
  <2>2. Agree(a, c, m)
    BY <1>1, <1>2, <1>6 DEF Agree
  <2>3. a[m + 1] = b[m + 1]
    BY <1>1, <2>1 DEF Agree
  <2>4. b[m + 1] < c[m + 1]
    BY <1>1, <1>2, <1>3, <1>6
  <2> QED BY <1>2, <2>1, <2>2, <2>3, <2>4, BytesLessPlaces
<1> QED BY <1>1, <1>2, <1>3, <1>4, <1>5, <1>6

LEMMA BytesLessTotal ==
  ASSUME NEW a \in Seq(Int), NEW b \in Seq(Int), a # b
  PROVE  BytesLess(a, b) \/ BytesLess(b, a)
<1>1. PICK la \in Nat, lb \in Nat : Len(a) = la /\ Len(b) = lb
  OBVIOUS
<1> DEFINE Apart == {n \in Nat : n = la \/ n = lb \/ a[n + 1] # b[n + 1]}
<1>2. PICK x \in Apart : \A n \in Apart : x <= n
  <2>1. Apart \in SUBSET Nat
    OBVIOUS
  <2>2. Apart # {}
    <3>1. la \in Apart
      OBVIOUS
    <3> QED BY <3>1
  <2> HIDE DEF Apart
  <2> QED BY <2>1, <2>2, LeastNumber
<1>3. x \in Nat /\ x <= la /\ x <= lb
  <2>1. x \in Nat
    OBVIOUS
  <2>2. la \in Apart /\ lb \in Apart
    OBVIOUS
  <2>3. x <= la /\ x <= lb
    <3> HIDE DEF Apart
    <3> QED BY <1>2, <2>2, Zenon
  <2> QED BY <2>1, <2>3
<1>4. Agree(a, b, x) /\ Agree(b, a, x)
  <2>1. ASSUME NEW i \in 1..x PROVE a[i] = b[i]
    <3>1. i - 1 \in Nat /\ ~(x <= i - 1) /\ (i - 1) + 1 = i
      BY <1>3
    <3>2. i - 1 \notin Apart
      BY <1>2, <3>1
    <3> QED BY <3>1, <3>2
  <2> QED BY <2>1 DEF Agree
<1>5. CASE x = la /\ x = lb
  <2>1. a = [i \in 1..la |-> a[i]] /\ b = [i \in 1..lb |-> b[i]]
    BY <1>1
  <2>2. a = b
    BY <1>4, <1>5, <2>1 DEF Agree
  <2> QED BY <2>2
<1>6. CASE x = la /\ x # lb
  BY <1>1, <1>3, <1>4, <1>6, BytesLessPlaces
<1>7. CASE x # la /\ x = lb
  <2>1. x \in 0..Len(a) - 1 /\ x <= Len(b) /\ x = Len(b)
    BY <1>1, <1>3, <1>7
  <2> QED BY <1>4, <2>1, BytesLessPlaces
<1>8. CASE x # la /\ x # lb
  <2>1. a[x + 1] # b[x + 1]
    BY <1>2, <1>8
  <2>2. x + 1 \in 1..la /\ x + 1 \in 1..lb
    BY <1>3, <1>8
  <2>3. a[x + 1] \in Int /\ b[x + 1] \in Int
    BY <1>1, <2>2
  <2>4. a[x + 1] < b[x + 1] \/ b[x + 1] < a[x + 1]
    BY <2>1, <2>3
  <2>5. x \in 0..lb - 1 /\ x \in 0..la - 1
    BY <1>3, <1>8
  <2> QED BY <1>1, <1>3, <1>4, <2>4, <2>5, BytesLessPlaces
<1> QED BY <1>5, <1>6, <1>7, <1>8

\* A key's rank: how many keys are before it.  Every rank below their number is
\* some key's, and no other's.
Rank(k, keys) == Cardinality(KeysBefore(k, keys))

LEMMA RanksDiffer ==
  ASSUME NEW keys \in SUBSET Seq(Int), IsFiniteSet(keys),
         NEW k \in keys, NEW l \in keys, BytesLess(k, l)
  PROVE  Rank(k, keys) # Rank(l, keys)
<1>1. PICK K, L : K = KeysBefore(k, keys) /\ L = KeysBefore(l, keys)
  OBVIOUS
<1>2. K \in SUBSET L
  BY <1>1, BytesLessTransitive DEF KeysBefore
<1>3. k \in L /\ k \notin K
  BY <1>1, BytesLessIrreflexive DEF KeysBefore
<1>4. IsFiniteSet(L)
  BY <1>1, FS_Subset DEF KeysBefore
<1>5. Cardinality(L) = Cardinality(K) => L = K
  BY <1>2, <1>4, FS_Subset
<1> QED BY <1>1, <1>3, <1>5 DEF Rank

LEMMA RankRange ==
  ASSUME NEW keys \in SUBSET Seq(Int), IsFiniteSet(keys),
         NEW n \in Nat, Cardinality(keys) = n, NEW k \in keys
  PROVE  Rank(k, keys) \in 0..n - 1
<1>1. PICK K : K = KeysBefore(k, keys)
  OBVIOUS
<1>2. K \in SUBSET keys /\ k \notin K
  BY <1>1, BytesLessIrreflexive DEF KeysBefore
<1>3. /\ IsFiniteSet(K) /\ Cardinality(K) <= Cardinality(keys)
      /\ Cardinality(keys) = Cardinality(K) => keys = K
  BY <1>2, FS_Subset
<1>4. Cardinality(K) \in Nat
  BY <1>3, FS_CardinalityType
<1> QED BY <1>1, <1>2, <1>3, <1>4 DEF Rank

LEMMA KeysAreListed ==
  ASSUME NEW v, DOMAIN DataOf(v) \in SUBSET Seq(Int), IsFiniteSet(DOMAIN DataOf(v))
  PROVE  /\ KeysOf(v) \in Seq(DOMAIN DataOf(v))
         /\ \A k \in DOMAIN DataOf(v) : \E i \in DOMAIN KeysOf(v) : KeysOf(v)[i] = k
<1>1. PICK keys \in SUBSET Seq(Int) : keys = DOMAIN DataOf(v) /\ IsFiniteSet(keys)
  OBVIOUS
<1>2. PICK n \in Nat : Cardinality(keys) = n
  BY <1>1, FS_CardinalityType
<1>3. KeysOf(v) = [i \in 1..n |-> CHOOSE k \in keys : Rank(k, keys) = i - 1]
  BY <1>1, <1>2 DEF KeysOf, Rank
<1>4. PICK rank : rank = [k \in keys |-> Rank(k, keys)]
  OBVIOUS
<1>5. rank \in [keys -> 0..n - 1]
  BY <1>1, <1>2, <1>4, RankRange
<1>6. ASSUME NEW k \in keys, NEW l \in keys, rank[k] = rank[l] PROVE k = l
  <2>1. Rank(k, keys) = Rank(l, keys)
    BY <1>4, <1>6
  <2>2. ~BytesLess(k, l) /\ ~BytesLess(l, k)
    BY <1>1, <2>1, RanksDiffer
  <2> QED BY <2>2, BytesLessTotal
<1>7. IsFiniteSet(0..n - 1) /\ Cardinality(0..n - 1) = n
  BY FS_Interval
<1>8. rank \in Surjection(keys, 0..n - 1)
  <2>1. rank \in Injection(keys, 0..n - 1)
    BY <1>5, <1>6 DEF Injection, IsInjective
  <2>2. PICK T : T = 0..n - 1
    OBVIOUS
  <2>3. rank \in Injection(keys, T) /\ IsFiniteSet(T) /\ Cardinality(T) = n
    BY <1>7, <2>1, <2>2
  <2>4. rank \in Surjection(keys, T)
    BY <1>2, <2>3, FS_Injection
  <2> QED BY <2>2, <2>4
<1>9. ASSUME NEW i \in 1..n
      PROVE  KeysOf(v)[i] \in keys /\ Rank(KeysOf(v)[i], keys) = i - 1
  <2>1. i - 1 \in 0..n - 1
    OBVIOUS
  <2>2. \E k \in keys : rank[k] = i - 1
    BY <1>8, <2>1 DEF Surjection
  <2>3. \E k \in keys : Rank(k, keys) = i - 1
    BY <1>4, <2>2
  <2>4. KeysOf(v)[i] = CHOOSE k \in keys : Rank(k, keys) = i - 1
    BY <1>3
  <2> QED BY <2>3, <2>4
<1>10. KeysOf(v) \in Seq(keys) /\ DOMAIN KeysOf(v) = 1..n
  <2>1. KeysOf(v) \in [1..n -> keys]
    BY <1>3, <1>9
  <2> QED BY <2>1
<1>11. ASSUME NEW k \in keys PROVE \E i \in 1..n : KeysOf(v)[i] = k
  <2>1. PICK i \in 1..n : Rank(k, keys) = i - 1
    <3>1. Rank(k, keys) \in 0..n - 1
      BY <1>1, <1>2, RankRange
    <3>2. PICK r \in 0..n - 1 : Rank(k, keys) = r
      BY <3>1
    <3>3. r + 1 \in 1..n /\ r = (r + 1) - 1
      OBVIOUS
    <3> QED BY <3>2, <3>3
  <2>2. KeysOf(v)[i] \in keys /\ Rank(KeysOf(v)[i], keys) = i - 1
    BY <1>9
  <2>3. rank[KeysOf(v)[i]] = rank[k]
    BY <1>4, <2>1, <2>2
  <2> QED BY <1>6, <2>2, <2>3
<1> QED BY <1>1, <1>10, <1>11

-----------------------------------------------------------------------------
\* What is written reads back: byte strings and the other scalars.
LEMMA BytesReadBack ==
  ASSUME NEW b, IsBytes(b)
  PROVE  DeserializeBytes(SerializeBytes(b)) = <<BytesType, b>>
<1>1. PICK doc : doc = SerializeBytes(b)
  OBVIOUS
<1>2. CASE IsText(b)
  <2>1. doc = <<"string", b>>
    BY <1>1, <1>2 DEF SerializeBytes
  <2>2. doc[1] = "string" /\ doc[2] = b
    BY <2>1
  <2> QED BY <1>1, <2>2 DEF DeserializeBytes
<1>3. CASE ~IsText(b)
  <2>1. b \in Seq(ByteValue)
    BY <1>3 DEF IsBytes
  <2>2. PICK numbers : numbers = [i \in DOMAIN b |-> <<"number", b[i]>>]
    OBVIOUS
  <2>3. doc = <<"seq", numbers>>
    BY <1>1, <1>3, <2>2 DEF SerializeBytes
  <2>4. doc[1] = "seq" /\ doc[2] = numbers
    BY <2>3
  <2>5. DOMAIN numbers = DOMAIN b
        /\ \A i \in DOMAIN b : numbers[i][1] = "number" /\ numbers[i][2] = b[i]
    BY <2>2
  <2>6. \A i \in DOMAIN b : b[i] \in ByteValue
    BY <2>1
  <2>7. [i \in DOMAIN numbers |-> numbers[i][2]] = b
    <3>1. b = [i \in DOMAIN b |-> b[i]]
      BY <2>1
    <3> QED BY <2>5, <3>1
  <2>8. DeserializeBytes(doc) = <<BytesType, [i \in DOMAIN numbers |-> numbers[i][2]]>>
    BY <2>4, <2>5, <2>6 DEF DeserializeBytes
  <2> QED BY <1>1, <2>7, <2>8
<1> QED BY <1>2, <1>3

LEMMA FirstAndRest ==
  ASSUME NEW S, NEW x \in S, NEW s \in Seq(S)
  PROVE  <<x>> \o s # <<>> /\ (<<x>> \o s)[1] = x /\ Tail(<<x>> \o s) = s
<1>1. PICK one : one = <<x>>
  OBVIOUS
<1>2. one \in Seq(S) /\ Len(one) = 1 /\ one[1] = x
  BY <1>1
<1>3. PICK n \in Nat : n = Len(s)
  OBVIOUS
<1>4. PICK all : all = one \o s
  OBVIOUS
<1>5. /\ all \in Seq(S) /\ Len(all) = n + 1 /\ all[1] = x
      /\ \A i \in 1..n : all[i + 1] = s[i]
  <2>1. /\ all \in Seq(S) /\ Len(all) = 1 + n
        /\ \A i \in 1..1 + n : all[i] = IF i <= 1 THEN one[i] ELSE s[i - 1]
    <3>1. /\ one \o s \in Seq(S) /\ Len(one \o s) = Len(one) + Len(s)
          /\ \A i \in 1..Len(one) + Len(s) :
                (one \o s)[i] = IF i <= Len(one) THEN one[i] ELSE s[i - Len(one)]
      BY <1>2, ConcatProperties
    <3> QED BY <1>2, <1>3, <1>4, <3>1
  <2>2. all[1] = x
    BY <1>2, <2>1
  <2>3. ASSUME NEW i \in 1..n PROVE all[i + 1] = s[i]
    <3>1. i + 1 \in 1..1 + n /\ ~(i + 1 <= 1) /\ (i + 1) - 1 = i
      OBVIOUS
    <3> QED BY <2>1, <3>1
  <2> QED BY <2>1, <2>2, <2>3
<1>6. all # <<>>
  BY <1>3, <1>5
<1>7. PICK rest : rest = Tail(all)
  OBVIOUS
<1>8. /\ rest \in Seq(S) /\ Len(rest) = n
      /\ \A i \in 1..n : rest[i] = all[i + 1]
  BY <1>3, <1>5, <1>6, <1>7, HeadTailProperties
<1>9. rest = s
  BY <1>3, <1>5, <1>8
<1> QED BY <1>1, <1>4, <1>5, <1>6, <1>7, <1>9

LEMMA ScalarReadsBack ==
  ASSUME NEW ty, IsType(ty), Len(ty) = 1, NEW v, TypeOf(v) = ty, Formed(v)
  PROVE  DeserializeScalar(ty, SerializeScalar(v)) = v
<1>1. ty \in {BoolType, BytesType, IntType, IpType}
  BY ScalarTypes
<1>2. /\ BoolType # BytesType /\ BoolType # IntType /\ BoolType # IpType
      /\ BytesType # IntType /\ BytesType # IpType /\ IntType # IpType
  BY DEF BoolType, BytesType, IntType, IpType
<1>3. PICK data : data = DataOf(v) /\ v = <<ty, data>>
  BY DEF Formed
<1>4. PICK doc : doc = SerializeScalar(v)
  OBVIOUS
<1>5. CASE ty = IpType
  <2>1. PICK ip \in Seq(Nat) : ip = data
    BY <1>3, <1>5 DEF Formed
  <2>2. PICK text : text = TextOfIp(ip)
    OBVIOUS
  <2>3. IpTag \in Nat /\ text = <<IpTag>> \o ip
    BY <2>2 DEF TextOfIp, IpTag
  <2>4. text # <<>> /\ text[1] = IpTag /\ Tail(text) = ip
    BY <2>3, FirstAndRest
  <2>6. doc = <<"string", text>>
    BY <1>2, <1>3, <1>4, <1>5, <2>1, <2>2 DEF SerializeScalar
  <2>7. DeserializeIp(doc) = <<IpType, ip>>
    <3>1. doc[1] = "string" /\ doc[2] = text
      BY <2>6
    <3> QED BY <2>4, <3>1 DEF DeserializeIp
  <2>8. DeserializeScalar(ty, doc) = DeserializeIp(doc)
    BY <1>2, <1>5 DEF DeserializeScalar
  <2> QED BY <1>3, <1>4, <1>5, <2>1, <2>7, <2>8
<1>6. CASE ty = BytesType
  <2>1. doc = SerializeBytes(data)
    BY <1>2, <1>3, <1>4, <1>6 DEF SerializeScalar
  <2>2. IsBytes(data)
    BY <1>3, <1>6 DEF Formed
  <2>3. DeserializeScalar(ty, doc) = DeserializeBytes(doc)
    BY <1>2, <1>6 DEF DeserializeScalar
  <2> QED BY <1>3, <1>4, <1>6, <2>1, <2>2, <2>3, BytesReadBack
<1>7. CASE ty = IntType
  <2>1. doc = <<"number", data>>
    BY <1>2, <1>3, <1>4, <1>7 DEF SerializeScalar
  <2>2. doc[1] = "number" /\ doc[2] = data
    BY <2>1
  <2>3. DeserializeScalar(ty, doc) = <<IntType, data>>
    BY <1>2, <1>7, <2>2 DEF DeserializeScalar
  <2> QED BY <1>3, <1>4, <1>7, <2>3
<1>8. CASE ty = BoolType
  <2>1. doc = <<"bool", data>>
    BY <1>2, <1>3, <1>4, <1>8 DEF SerializeScalar
  <2>2. doc[1] = "bool" /\ doc[2] = data
    BY <2>1
  <2>3. DeserializeScalar(ty, doc) = <<BoolType, data>>
    BY <1>2, <1>8, <2>2 DEF DeserializeScalar
  <2> QED BY <1>3, <1>4, <1>8, <2>3
<1> QED BY <1>1, <1>5, <1>6, <1>7, <1>8

\* Entries for all keys of some data, inserted into an empty map, make the data.
Rebuilding(data, m, keys, entries, read) ==
  /\ data = [k \in DOMAIN data |-> data[k]]
  /\ \A k \in DOMAIN data : data[k] # NoValue
  /\ \A i \in 1..m : keys[i] \in DOMAIN data
  /\ \A k \in DOMAIN data : \E i \in 1..m : keys[i] = k
  /\ Len(entries) = m
  /\ \A i \in 1..m : entries[i][1] = keys[i] /\ read[entries[i][2]] = data[keys[i]]

LEMMA EntriesRebuild ==
  ASSUME NEW data, NEW m \in Nat, NEW keys, NEW entries, NEW read,
         Rebuilding(data, m, keys, entries, read)
  PROVE  InsertEntries(read, EmptyMap, entries) = [data |-> data, read |-> TRUE]
<1>0. /\ data = [k \in DOMAIN data |-> data[k]]
      /\ \A k \in DOMAIN data : data[k] # NoValue
      /\ \A i \in 1..m : keys[i] \in DOMAIN data
      /\ \A k \in DOMAIN data : \E i \in 1..m : keys[i] = k
      /\ Len(entries) = m
      /\ \A i \in 1..m : entries[i][1] = keys[i] /\ read[entries[i][2]] = data[keys[i]]
  BY DEF Rebuilding
<1> USE <1>0
<1> DEFINE Chosen == CHOOSE f : IsInsertion(f, read, EmptyMap, entries, m)
<1>1. IsInsertion(Chosen, read, EmptyMap, entries, m)
  BY InsertionExists
<1>2. InsertEntries(read, EmptyMap, entries) = Chosen[m]
  BY DEF InsertEntries, IsInsertion, InsertNext
<1> HIDE DEF Chosen
<1>3. \A n \in 0..m :
        Chosen[n] = IF n = 0 THEN [data |-> EmptyMap, read |-> TRUE]
                    ELSE InsertNext(Chosen[n - 1], entries[n][1], read[entries[n][2]])
  BY <1>1 DEF IsInsertion
<1> DEFINE Upto(n) == {keys[i] : i \in 1..n}
           Made(n) == [data |-> [k \in Upto(n) |-> data[k]], read |-> TRUE]
           Bad == {n \in 0..m : Chosen[n] # Made(n)}
<1>4. Chosen[0] = Made(0)
  <2>1. 0 \in 0..m
    OBVIOUS
  <2>2. Chosen[0] = [data |-> EmptyMap, read |-> TRUE]
    BY <1>3, <2>1
  <2>3. Upto(0) = {}
    OBVIOUS
  <2>4. [k \in Upto(0) |-> data[k]] = EmptyMap
    BY <2>3 DEF EmptyMap
  <2> QED BY <2>2, <2>4
<1>5. ASSUME NEW n \in 1..m, Chosen[n - 1] = Made(n - 1) PROVE Chosen[n] = Made(n)
  <2>1. n \in 0..m /\ n # 0
    OBVIOUS
  <2>2. PICK U, some, x, v : /\ U = Upto(n - 1) /\ some = [k \in U |-> data[k]]
                             /\ x = keys[n] /\ v = data[x]
    OBVIOUS
  <2>3. Chosen[n - 1] = [data |-> some, read |-> TRUE]
    BY <1>5, <2>2
  <2>4. Chosen[n] = InsertNext(Chosen[n - 1], x, v)
    BY <1>3, <2>1, <2>2
  <2>5. v # NoValue
    BY <2>2
  <2>6. Chosen[n] = [data |-> Bind(some, x, v), read |-> TRUE]
    BY <2>3, <2>4, <2>5 DEF InsertNext, Exists
  <2>7. Bind(some, x, v) = [k \in U \cup {x} |-> data[k]]
    BY <2>2 DEF Bind
  <2>8. Upto(n) = U \cup {x}
    <3>1. 1..n = 1..n - 1 \cup {n}
      OBVIOUS
    <3> QED BY <2>2, <3>1
  <2> QED BY <2>6, <2>7, <2>8
<1>6. m \in 0..m /\ Upto(m) = DOMAIN data
  <2>1. \A i \in 1..m : keys[i] \in DOMAIN data
    OBVIOUS
  <2>2. \A k \in DOMAIN data : \E i \in 1..m : keys[i] = k
    OBVIOUS
  <2>3. Upto(m) = DOMAIN data
    BY ONLY <2>1, <2>2, Zenon
  <2> QED BY <2>3
<1> HIDE DEF Made
<1>7. ASSUME Bad # {} PROVE FALSE
  <2>1. PICK x \in Bad : \A n \in Bad : x <= n
    <3>1. Bad \in SUBSET Nat
      OBVIOUS
    <3>2. Bad # {}
      BY <1>7
    <3> HIDE DEF Bad
    <3> QED BY <3>1, <3>2, LeastNumber
  <2>2. x # 0
    BY <1>4, <2>1
  <2>3. x \in 1..m /\ x - 1 \in 0..m /\ x - 1 \notin Bad
    BY <2>1, <2>2
  <2>4. Chosen[x - 1] = Made(x - 1)
    BY <2>3
  <2> QED BY <1>5, <2>1, <2>3, <2>4
<1>8. Chosen[m] = Made(m)
  BY <1>6, <1>7
<1>9. Made(m) = [data |-> data, read |-> TRUE]
  BY <1>6 DEF Made
<1> QED BY <1>2, <1>8, <1>9

-----------------------------------------------------------------------------
\* Arrays and maps, with their elements' documents.
LEMMA ArrayInner ==
  ASSUME NEW v, NEW written, NEW e \in ElementSet(v)
  PROVE  written[e] \in InnerDocuments(SerializeArray(v, written))
<1>1. PICK data : data = DataOf(v)
  OBVIOUS
<1>2. PICK docs : docs = [i \in DOMAIN data |-> written[data[i]]]
  OBVIOUS
<1>3. PICK doc : doc = SerializeArray(v, written)
  OBVIOUS
<1>4. doc[1] = "seq" /\ doc[2] = docs
  BY <1>1, <1>2, <1>3 DEF SerializeArray
<1>5. PICK i \in DOMAIN data : e = data[i]
  BY <1>1 DEF ElementSet
<1>6. written[e] \in Range(docs)
  BY <1>2, <1>5 DEF Range
<1> QED BY <1>3, <1>4, <1>6 DEF InnerDocuments

LEMMA ArrayReadsBack ==
  ASSUME NEW v, Formed(v), IsArray(TypeOf(v)), NEW read, NEW written,
         \A e \in ElementSet(v) : e # NoValue /\ read[written[e]] = e
  PROVE  DeserializeContainer(TypeOf(v), read, SerializeArray(v, written)) = v
<1>1. PICK ty : ty = TypeOf(v)
  OBVIOUS
<1>2. PICK data \in Seq(ElementSet(v)) : data = DataOf(v) /\ v = <<ty, data>>
  BY <1>1 DEF Formed
<1>3. PICK docs : docs = [i \in DOMAIN data |-> written[data[i]]]
  OBVIOUS
<1>4. PICK doc : doc = SerializeArray(v, written)
  OBVIOUS
<1>5. doc[1] = "seq" /\ doc[2] = docs
  BY <1>2, <1>3, <1>4 DEF SerializeArray
<1>6. PICK none, elems : none = <<>> /\ elems = [i \in DOMAIN docs |-> read[docs[i]]]
  OBVIOUS
<1>7. \A i \in DOMAIN data : data[i] \in ElementSet(v)
  BY <1>2 DEF ElementSet
<1>8. elems = data
  <2>1. DOMAIN docs = DOMAIN data /\ \A i \in DOMAIN data : read[docs[i]] = data[i]
    BY <1>3, <1>7
  <2>2. elems = [i \in DOMAIN data |-> data[i]]
    BY <1>6, <2>1
  <2>3. data = [i \in DOMAIN data |-> data[i]]
    BY <1>2
  <2> QED BY <2>2, <2>3
<1>9. none \o elems = data
  BY <1>2, <1>6, <1>8, ConcatEmptySeq
<1>10. \A i \in DOMAIN elems : Exists(elems[i])
  BY <1>7, <1>8 DEF Exists
<1>11. PICK r : r = DeserializeArray(read, none, doc)
  OBVIOUS
<1>12. r = IF \A i \in DOMAIN elems : Exists(elems[i])
           THEN [data |-> none \o elems, read |-> TRUE]
           ELSE [data |-> <<>>, read |-> FALSE]
  BY <1>5, <1>6, <1>11 DEF DeserializeArray
<1>13. r = [data |-> data, read |-> TRUE]
  BY <1>9, <1>10, <1>12
<1>14. DeserializeContainer(ty, read, doc) = IF r.read THEN <<ty, r.data>> ELSE NoValue
  BY <1>1, <1>6, <1>11 DEF DeserializeContainer
<1> QED BY <1>1, <1>2, <1>4, <1>13, <1>14

\* The data of a map, with its n keys in their order.
Listing(v, n, keys, data) ==
  /\ keys = KeysOf(v) /\ data = DataOf(v) /\ v = <<TypeOf(v), data>>
  /\ DOMAIN keys = 1..n /\ Keyed(data)
  /\ \A i \in 1..n : keys[i] \in DOMAIN data /\ IsBytes(keys[i])
  /\ \A k \in DOMAIN data : \E i \in 1..n : keys[i] = k
  /\ \A i \in 1..n : data[keys[i]] \in ElementSet(v)
  /\ \A e \in ElementSet(v) : \E i \in 1..n : e = data[keys[i]]

LEMMA MapKeys ==
  ASSUME NEW v, Formed(v), IsMap(TypeOf(v))
  PROVE  \E n \in Nat : Listing(v, n, KeysOf(v), DataOf(v))
<1>1. PICK data : data = DataOf(v) /\ v = <<TypeOf(v), data>> /\ Keyed(data)
  BY DEF Formed
<1>2. ASSUME NEW b, IsBytes(b) PROVE b \in Seq(Int)
  <2>1. ByteValue \subseteq Int /\ ByteValue \cup {IpTag} \subseteq Int
    BY DEF ByteValue, IpTag
  <2> QED BY <1>2, <2>1 DEF IsBytes
<1>3. DOMAIN data \in SUBSET Seq(Int) /\ IsFiniteSet(DOMAIN data)
  BY <1>1, <1>2 DEF Keyed
<1>4. PICK keys : keys = KeysOf(v)
  OBVIOUS
<1>5. /\ keys \in Seq(DOMAIN data)
      /\ \A k \in DOMAIN data : \E i \in DOMAIN keys : keys[i] = k
  BY <1>1, <1>3, <1>4, KeysAreListed
<1>6. PICK n \in Nat : DOMAIN keys = 1..n
  BY <1>5
<1>7. \A i \in 1..n : keys[i] \in DOMAIN data
  BY <1>5, <1>6
<1>8. \A i \in 1..n : IsBytes(keys[i])
  BY <1>1, <1>7 DEF Keyed
<1>9. \A i \in 1..n : data[keys[i]] \in ElementSet(v)
  BY <1>1, <1>7 DEF ElementSet
<1>10. \A e \in ElementSet(v) : \E i \in 1..n : e = data[keys[i]]
  BY <1>1, <1>5, <1>6 DEF ElementSet
<1>11. \A k \in DOMAIN data : \E i \in 1..n : keys[i] = k
  BY <1>5, <1>6
<1>12. Listing(v, n, keys, data)
  BY <1>1, <1>4, <1>6, <1>7, <1>8, <1>9, <1>10, <1>11 DEF Listing
<1> QED BY <1>1, <1>4, <1>12

\* A pair, as a document and read again.
PairDocument(k, d) == <<"seq", <<SerializeBytes(k), d>> >>

LEMMA PairIsEntry ==
  ASSUME NEW k, IsBytes(k), NEW d
  PROVE  IsEntry(PairDocument(k, d)) /\ EntryOf(PairDocument(k, d)) = <<k, d>>
<1>1. PICK doc, pair, key : /\ doc = PairDocument(k, d) /\ key = SerializeBytes(k)
                            /\ pair = <<key, d>>
  OBVIOUS
<1>2. doc[1] = "seq" /\ doc[2] = pair /\ Len(pair) = 2 /\ pair[1] = key /\ pair[2] = d
  BY <1>1 DEF PairDocument
<1>3. DeserializeBytes(key) = <<BytesType, k>>
  BY <1>1, BytesReadBack
<1>4. PICK got : got = <<BytesType, k>>
  OBVIOUS
<1>5. Exists(got) /\ DataOf(got) = k
  <2>1. Len(got) = 2
    BY <1>4
  <2>2. got # <<>>
    BY <2>1
  <2> QED BY <1>4, <2>2 DEF Exists, NoValue, DataOf
<1>6. IsEntry(doc)
  BY <1>2, <1>3, <1>4, <1>5 DEF IsEntry
<1>7. EntryOf(doc) = <<k, d>>
  BY <1>2, <1>3, <1>4, <1>5 DEF EntryOf
<1> QED BY <1>1, <1>6, <1>7

\* The two shapes of a map's document.
LEMMA MapShapes ==
  ASSUME NEW v, NEW written, NEW n \in Nat, NEW keys, NEW data,
         Listing(v, n, keys, data), NEW doc, SerializeMap(v, written) = doc
  PROVE  \/ /\ doc[1] = "map"
            /\ doc[2] = [i \in 1..n |-> <<keys[i], written[data[keys[i]]]>>]
         \/ /\ doc[1] = "seq"
            /\ doc[2] = [i \in 1..n |-> PairDocument(keys[i], written[data[keys[i]]])]
<1>0. KeysOf(v) = keys /\ DataOf(v) = data /\ DOMAIN keys = 1..n
  BY DEF Listing
<1>1. CASE \A k \in DOMAIN data : IsText(k)
  <2>1. doc = <<"map", [i \in 1..n |-> <<keys[i], written[data[keys[i]]]>>]>>
    BY <1>0, <1>1 DEF SerializeMap
  <2> QED BY <2>1
<1>2. CASE ~\A k \in DOMAIN data : IsText(k)
  <2>1. doc = <<"seq", [i \in 1..n |-> PairDocument(keys[i], written[data[keys[i]]])]>>
    BY <1>0, <1>2 DEF SerializeMap, PairDocument
  <2> QED BY <2>1
<1> QED BY <1>1, <1>2

LEMMA MapInner ==
  ASSUME NEW v, Formed(v), IsMap(TypeOf(v)),
         NEW written, NEW e \in ElementSet(v)
  PROVE  written[e] \in InnerDocuments(SerializeMap(v, written))
<1>1. PICK n \in Nat : Listing(v, n, KeysOf(v), DataOf(v))
  BY MapKeys
<1>2. PICK keys, data : Listing(v, n, keys, data)
  BY <1>1
<1>3. PICK i \in 1..n : e = data[keys[i]]
  BY <1>2 DEF Listing
<1>4. PICK doc : doc = SerializeMap(v, written)
  OBVIOUS
<1>5. PICK d : d = written[e]
  OBVIOUS
<1>6. CASE /\ doc[1] = "map"
           /\ doc[2] = [j \in 1..n |-> <<keys[j], written[data[keys[j]]]>>]
  <2>1. <<keys[i], d>> \in Range(doc[2])
    BY <1>3, <1>5, <1>6 DEF Range
  <2>2. PICK pair \in Range(doc[2]) : pair[2] = d
    BY <2>1
  <2>3. InnerDocuments(doc) = {p[2] : p \in Range(doc[2])}
    BY <1>6 DEF InnerDocuments
  <2> QED BY <1>4, <1>5, <2>2, <2>3
<1>7. CASE /\ doc[1] = "seq"
           /\ doc[2] = [j \in 1..n |-> PairDocument(keys[j], written[data[keys[j]]])]
  <2>1. PICK p : p = PairDocument(keys[i], d)
    OBVIOUS
  <2>2. p \in Range(doc[2])
    BY <1>3, <1>5, <1>7, <2>1 DEF Range
  <2>3. IsEntry(p) /\ EntryOf(p) = <<keys[i], d>>
    <3>1. IsBytes(keys[i])
      BY <1>2, <1>3 DEF Listing
    <3> QED BY <2>1, <3>1, PairIsEntry
  <2>4. EntryOf(p)[2] = d
    BY <2>3
  <2>5. EntryOf(p)[2] \in InnerDocuments(doc)
    BY <1>7, <2>2, <2>3 DEF InnerDocuments
  <2> QED BY <1>4, <1>5, <2>4, <2>5
<1> QED BY <1>2, <1>4, <1>6, <1>7, MapShapes

LEMMA MapReadsBack ==
  ASSUME NEW v, Formed(v), IsMap(TypeOf(v)), NEW read, NEW written,
         \A e \in ElementSet(v) : e # NoValue /\ read[written[e]] = e
  PROVE  DeserializeContainer(TypeOf(v), read, SerializeMap(v, written)) = v
<1>1. PICK n \in Nat : Listing(v, n, KeysOf(v), DataOf(v))
  BY MapKeys
<1>0. PICK keys, data : Listing(v, n, keys, data)
  BY <1>1
<1>2. /\ v = <<TypeOf(v), data>> /\ Keyed(data)
      /\ \A i \in 1..n : keys[i] \in DOMAIN data /\ IsBytes(keys[i])
      /\ \A k \in DOMAIN data : \E i \in 1..n : keys[i] = k
      /\ \A i \in 1..n : data[keys[i]] \in ElementSet(v)
      /\ \A k \in DOMAIN data : data[k] \in ElementSet(v)
  BY <1>0 DEF Listing
<1>3. PICK doc : doc = SerializeMap(v, written)
  OBVIOUS
<1>4. /\ data = [k \in DOMAIN data |-> data[k]]
      /\ \A k \in DOMAIN data : data[k] # NoValue
  BY <1>2 DEF Keyed
<1>5. PICK entries : entries = [i \in 1..n |-> <<keys[i], written[data[keys[i]]]>>]
  OBVIOUS
<1>6. \A i \in 1..n : entries[i][1] = keys[i] /\ read[entries[i][2]] = data[keys[i]]
  BY <1>2, <1>5
<1>7. Len(entries) = n
  BY <1>5
<1>8. InsertEntries(read, EmptyMap, entries) = [data |-> data, read |-> TRUE]
  <2>1. Rebuilding(data, n, keys, entries, read)
    BY <1>2, <1>4, <1>6, <1>7 DEF Rebuilding
  <2> QED BY <2>1, EntriesRebuild
<1>9. DeserializeMap(read, EmptyMap, doc) = [data |-> data, read |-> TRUE]
  <2>1. CASE doc[1] = "map" /\ doc[2] = entries
    BY <1>8, <2>1 DEF DeserializeMap
  <2>2. CASE /\ doc[1] = "seq"
             /\ doc[2] = [i \in 1..n |-> PairDocument(keys[i], written[data[keys[i]]])]
    <3>1. PICK pairs : pairs = doc[2] /\ DOMAIN pairs = 1..n /\ Len(pairs) = n
      BY <2>2
    <3>2. ASSUME NEW i \in 1..n PROVE IsEntry(pairs[i]) /\ EntryOf(pairs[i]) = entries[i]
      <4>1. pairs[i] = PairDocument(keys[i], written[data[keys[i]]])
        BY <2>2, <3>1
      <4> QED BY <1>2, <1>5, <4>1, PairIsEntry
    <3> DEFINE bad == {i \in DOMAIN pairs : ~IsEntry(pairs[i])}
               upto == IF bad = {} THEN Len(pairs) ELSE Min(bad) - 1
               made == [i \in 1..upto |-> EntryOf(pairs[i])]
               r == InsertEntries(read, EmptyMap, made)
    <3>3. bad = {}
      BY <3>1, <3>2
    <3>4. DeserializeMap(read, EmptyMap, doc) = [r EXCEPT !.read = @ /\ bad = {}]
      BY <2>2, <3>1 DEF DeserializeMap
    <3>5. made = entries
      <4>1. upto = n
        BY <3>1, <3>3
      <4> HIDE DEF upto
      <4> QED BY <1>5, <3>2, <4>1
    <3> HIDE DEF bad, made
    <3>6. PICK flag \in BOOLEAN : flag = (r.read /\ bad = {})
      OBVIOUS
    <3>7. r = [data |-> data, read |-> TRUE]
      BY <1>8, <3>5
    <3> HIDE DEF r
    <3>8. flag
      BY <3>3, <3>6, <3>7
    <3>9. DeserializeMap(read, EmptyMap, doc) = [data |-> data, read |-> flag]
      BY <3>4, <3>6, <3>7
    <3> QED BY <3>8, <3>9
  <2> QED BY <1>0, <1>3, <1>5, <2>1, <2>2, MapShapes
<1>10. PICK r : r = DeserializeMap(read, EmptyMap, doc)
  OBVIOUS
<1>11. DeserializeContainer(TypeOf(v), read, doc)
         = IF r.read THEN <<TypeOf(v), r.data>> ELSE NoValue
  <2>1. ~IsArray(TypeOf(v))
    BY DEF IsArray, IsMap
  <2> QED BY <1>10, <2>1 DEF DeserializeContainer
<1>12. r.read = TRUE /\ r.data = data
  BY <1>9, <1>10
<1> QED BY <1>2, <1>3, <1>11, <1>12

-----------------------------------------------------------------------------
\* One level of Serialize, and all of them.
WriteNext(values, n, inner) ==
  [w \in values |-> IF n = 0 THEN SerializeScalar(w)
                    ELSE IF IsArray(TypeOf(w)) THEN SerializeArray(w, inner)
                    ELSE SerializeMap(w, inner)]
IsWriting(f, levels, m, k) ==
  f = [n \in 0..k |-> WriteNext(levels[m - n], n, f[n - 1])]

LEMMA WriteStart ==
  ASSUME NEW values, NEW x, NEW y
  PROVE  WriteNext(values, 0, x) = WriteNext(values, 0, y)
  BY DEF WriteNext

LEMMA WritingExists ==
  ASSUME NEW levels, NEW m, NEW k \in Nat
  PROVE  \E f : IsWriting(f, levels, m, k)
<1> DEFINE Bad == {n \in Nat : ~\E f : IsWriting(f, levels, m, n)}
<1> SUFFICES ASSUME Bad # {} PROVE FALSE
  OBVIOUS
<1>1. PICK x \in Bad : \A n \in Bad : x <= n
  <2>1. Bad \in SUBSET Nat
    OBVIOUS
  <2> HIDE DEF Bad
  <2> QED BY <2>1, LeastNumber
<1>2. x # 0
  <2>1. PICK start : start = WriteNext(levels[m - 0], 0, <<>>)
    OBVIOUS
  <2> DEFINE f == [n \in 0..0 |-> start]
  <2>2. ASSUME NEW n \in 0..0 PROVE f[n] = WriteNext(levels[m - n], n, f[n - 1])
    <3>1. n = 0 /\ f[n] = start
      OBVIOUS
    <3> HIDE DEF f
    <3> QED BY <2>1, <3>1, WriteStart
  <2>3. f = [n \in 0..0 |-> f[n]]
    OBVIOUS
  <2> HIDE DEF f
  <2>4. IsWriting(f, levels, m, 0)
    BY <2>2, <2>3 DEF IsWriting
  <2> QED BY <1>1, <2>4
<1>3. x \in Nat /\ x - 1 \in Nat /\ x - 1 \notin Bad
  BY <1>1, <1>2
<1>4. PICK g : IsWriting(g, levels, m, x - 1)
  BY <1>3
<1>5. PICK top : top = WriteNext(levels[m - x], x, g[x - 1])
  OBVIOUS
<1> DEFINE f == [n \in 0..x |-> IF n = x THEN top ELSE g[n]]
<1>6. \A n \in 0..x - 1 : g[n] = WriteNext(levels[m - n], n, g[n - 1])
  BY <1>4 DEF IsWriting
<1>7. ASSUME NEW n \in 0..x
      PROVE  f[n] = WriteNext(levels[m - n], n, f[n - 1])
  <2>1. CASE n = x
    <3>1. x - 1 \in 0..x /\ x - 1 # x /\ x \in 0..x
      BY <1>2, <1>3
    <3>2. f[x - 1] = g[x - 1] /\ f[x] = top
      BY <3>1
    <3> QED BY <1>5, <2>1, <3>2
  <2>2. CASE n # x /\ n # 0
    <3>1. n \in 0..x - 1 /\ n - 1 \in 0..x /\ n - 1 # x
      BY <1>3, <2>2
    <3>2. f[n] = g[n] /\ f[n - 1] = g[n - 1]
      BY <2>2, <3>1
    <3> QED BY <1>6, <3>1, <3>2
  <2>3. CASE n # x /\ n = 0
    <3>1. 0 \in 0..x - 1 /\ 0 \in 0..x
      BY <1>3
    <3>2. f[0] = g[0]
      BY <2>3, <3>1
    <3>3. g[0] = WriteNext(levels[m - 0], 0, g[0 - 1])
      BY <1>6, <3>1
    <3> HIDE DEF f
    <3>4. f[0] = WriteNext(levels[m - 0], 0, f[0 - 1])
      BY <3>2, <3>3, WriteStart
    <3> QED BY <2>3, <3>4
  <2> QED BY <2>1, <2>2, <2>3
<1>8. f = [n \in 0..x |-> WriteNext(levels[m - n], n, f[n - 1])]
  <2>1. f = [n \in 0..x |-> f[n]]
    OBVIOUS
  <2> HIDE DEF f
  <2> QED BY <1>7, <2>1
<1>9. IsWriting(f, levels, m, x)
  BY <1>8 DEF IsWriting
<1> QED BY <1>1, <1>9

\* The documents of the values at every depth, and what they are read as, each
\* from the level below.
Written(v, m, written) ==
  /\ Serialize(v) = written[m][v]
  /\ \A n \in 0..m : written[n] = WriteNext(Depths(v)[m - n], n, written[n - 1])

LEMMA SerializeEquation ==
  ASSUME NEW v, NEW m \in Nat, Len(TypeOf(v)) = m + 1
  PROVE  \E written : Written(v, m, written)
<1>1. Len(TypeOf(v)) - 1 = m
  OBVIOUS
<1>2. PICK levels : levels = Depths(v)
  OBVIOUS
<1> DEFINE Chosen == CHOOSE f : IsWriting(f, levels, m, m)
<1>3. IsWriting(Chosen, levels, m, m)
  BY WritingExists
<1>4. Serialize(v) = Chosen[m][v]
  BY <1>1, <1>2 DEF Serialize, IsWriting, WriteNext
<1> HIDE DEF Chosen
<1>5. \A n \in 0..m : Chosen[n] = WriteNext(levels[m - n], n, Chosen[n - 1])
  BY <1>3 DEF IsWriting
<1>6. Written(v, m, Chosen)
  BY <1>2, <1>4, <1>5 DEF Written
<1> QED BY <1>6

ReadBack(ty, docs, m, read) ==
  /\ Deserialize(ty, docs) = read[m]
  /\ \A n \in 0..m :
       read[n] = ReadNext(ty, DocumentsWithin(docs, m)[m - n], n, read[n - 1])

LEMMA DeserializeEquation ==
  ASSUME NEW ty, NEW m \in Nat, Len(ty) = m + 1, NEW docs
  PROVE  \E read : ReadBack(ty, docs, m, read)
<1>1. Len(ty) - 1 = m
  OBVIOUS
<1>2. PICK levels : levels = DocumentsWithin(docs, m)
  OBVIOUS
<1> DEFINE Chosen == CHOOSE f : IsReading(f, ty, levels, m, m)
<1>3. IsReading(Chosen, ty, levels, m, m)
  BY ReadingExists
<1>4. Deserialize(ty, docs) = Chosen[m]
  BY <1>1, <1>2 DEF Deserialize, IsReading, ReadNext, LayersFrom
<1> HIDE DEF Chosen
<1>5. \A n \in 0..m : Chosen[n] = ReadNext(ty, levels[m - n], n, Chosen[n - 1])
  BY <1>3 DEF IsReading
<1>6. ReadBack(ty, docs, m, Chosen)
  BY <1>2, <1>4, <1>5 DEF ReadBack
<1> QED BY <1>6

\* The values n layers above the scalars of a sound value.
ValuesAt(ty, values, n) ==
  \A w \in values : TypeOf(w) = LayersFrom(ty, n) /\ Formed(w)

LEMMA SoundLevels ==
  ASSUME NEW ty, IsType(ty), NEW m \in Nat, Len(ty) = m + 1, NEW v, Sound(ty, v)
  PROVE  \A n \in 0..m : ValuesAt(ty, Depths(v)[m - n], n)
<1>1. Len(ty) - 1 = m
  OBVIOUS
<1>2. ASSUME NEW n \in 0..m, NEW w \in Depths(v)[m - n]
      PROVE  TypeOf(w) = LayersFrom(ty, n) /\ Formed(w)
  <2>1. m - n \in 0..m /\ (m - n) + 1 = (m + 1) - n
    OBVIOUS
  <2>2. TypeOf(w) = SubSeq(ty, (m - n) + 1, m + 1) /\ Formed(w)
    BY <1>1, <1>2, <2>1 DEF Sound
  <2> QED BY <2>1, <2>2 DEF LayersFrom
<1> QED BY <1>2 DEF ValuesAt

\* The documents of a level, inside those of the level above.
LEMMA WrittenInside ==
  ASSUME NEW ty, IsType(ty), NEW m \in Nat, Len(ty) = m + 1, NEW v, Sound(ty, v),
         NEW written, Written(v, m, written), NEW doc, doc = Serialize(v)
  PROVE  \A n \in 0..m : \A w \in Depths(v)[m - n] :
            written[n][w] \in DocumentsWithin({doc}, m)[m - n]
<1>1. PICK within : within = DocumentsWithin({doc}, m)
  OBVIOUS
<1>2. PICK depths : depths = Depths(v)
  OBVIOUS
<1>3. within[0] = {doc} /\ \A n \in 1..m : within[n] = InnerOfAll(within[n - 1])
  BY <1>1, WithinEquation
<1>4. depths[0] = {v} /\ \A n \in 1..m : depths[n] = Below(depths[n - 1])
  <2>1. Len(TypeOf(v)) = m + 1
    BY DEF Sound
  <2> QED BY <1>2, <2>1, DepthsEquation
<1>5. /\ doc = written[m][v]
      /\ \A n \in 0..m : written[n] = WriteNext(depths[m - n], n, written[n - 1])
  BY <1>2 DEF Written
<1>6. \A n \in 0..m : ValuesAt(ty, depths[m - n], n)
  BY <1>2, SoundLevels
<1>7. \A n \in 0..m : IsType(LayersFrom(ty, n)) /\ Len(LayersFrom(ty, n)) = n + 1
  BY LayersFromTypes
<1> DEFINE Inside(i) == \A w \in depths[i] : written[m - i][w] \in within[i]
           Bad == {i \in 0..m : ~Inside(i)}
<1>8. Inside(0)
  <2>1. m - 0 = m
    OBVIOUS
  <2> QED BY <1>3, <1>4, <1>5, <2>1
<1>9. ASSUME NEW i \in 1..m, Inside(i - 1) PROVE Inside(i)
  <2>1. PICK n \in 0..m : n = m - (i - 1) /\ n # 0 /\ n - 1 = m - i /\ m - n = i - 1
    <3>1. /\ m - (i - 1) \in 0..m /\ m - (i - 1) # 0 /\ (m - (i - 1)) - 1 = m - i
          /\ m - (m - (i - 1)) = i - 1
      OBVIOUS
    <3> QED BY <3>1
  <2>2. PICK inner : inner = written[n - 1]
    OBVIOUS
  <2>3. ASSUME NEW e \in depths[i] PROVE inner[e] \in within[i]
    <3>1. PICK w \in depths[i - 1] : e \in ElementSet(w)
      BY <1>4, <2>3 DEF Below
    <3>2. written[n][w] \in within[i - 1]
      BY <1>9, <2>1, <3>1
    <3>3. PICK d : d = written[n][w]
      OBVIOUS
    <3>4. d = IF IsArray(TypeOf(w)) THEN SerializeArray(w, inner) ELSE SerializeMap(w, inner)
      <4>1. written[n] = WriteNext(depths[m - n], n, inner)
        BY <1>5, <2>2
      <4>2. w \in depths[m - n] /\ n # 0
        BY <2>1, <3>1
      <4> QED BY <3>3, <4>1, <4>2 DEF WriteNext
    <3>5. TypeOf(w) = LayersFrom(ty, n) /\ Formed(w)
      BY <1>6, <2>1, <3>1 DEF ValuesAt
    <3>6. inner[e] \in InnerDocuments(d)
      <4>1. CASE IsArray(TypeOf(w))
        BY <3>1, <3>4, <4>1, ArrayInner
      <4>2. CASE ~IsArray(TypeOf(w))
        <5>1. PICK t : t = TypeOf(w)
          OBVIOUS
        <5>2. IsType(t) /\ Len(t) = n + 1
          BY <1>7, <3>5, <5>1
        <5>3. n - 1 \in Nat /\ Len(t) = (n - 1) + 2
          BY <2>1, <5>2
        <5>4. IsMap(t)
          BY <4>2, <5>1, <5>2, <5>3, ArrayOrMap
        <5> QED BY <3>1, <3>4, <3>5, <4>2, <5>1, <5>4, MapInner
      <4> QED BY <4>1, <4>2
    <3> QED BY <1>3, <3>2, <3>3, <3>6 DEF InnerOfAll
  <2> QED BY <2>1, <2>2, <2>3
<1> HIDE DEF Inside
<1>10. ASSUME Bad # {} PROVE FALSE
  <2>1. PICK x \in Bad : \A i \in Bad : x <= i
    <3>1. Bad \in SUBSET Nat
      OBVIOUS
    <3>2. Bad # {}
      BY <1>10
    <3> HIDE DEF Bad
    <3> QED BY <3>1, <3>2, LeastNumber
  <2>2. x # 0
    BY <1>8, <2>1
  <2>3. x \in 1..m /\ x - 1 \in 0..m /\ x - 1 \notin Bad
    BY <2>1, <2>2
  <2>4. Inside(x - 1)
    BY <2>3
  <2> QED BY <1>9, <2>1, <2>3, <2>4
<1>11. ASSUME NEW n \in 0..m, NEW w \in depths[m - n]
       PROVE  written[n][w] \in within[m - n]
  <2>1. m - n \in 0..m /\ m - (m - n) = n
    OBVIOUS
  <2>2. Inside(m - n)
    BY <1>10, <2>1
  <2> QED BY <1>11, <2>1, <2>2 DEF Inside
<1> QED BY <1>1, <1>2, <1>11

\* A value is read back from its document: the scalars from theirs, and a
\* container once its elements are.
LEMMA SoundReadsBack ==
  ASSUME NEW ty, IsType(ty), NEW m \in Nat, Len(ty) = m + 1, NEW v, Sound(ty, v),
         NEW doc, doc = Serialize(v)
  PROVE  Deserialize(ty, {doc})[doc] = v
<1>1. PICK written : Written(v, m, written)
  <2>1. Len(TypeOf(v)) = m + 1
    BY DEF Sound
  <2> QED BY <2>1, SerializeEquation
<1>2. PICK docs : docs = {doc}
  OBVIOUS
<1>3. PICK read : ReadBack(ty, docs, m, read)
  BY DeserializeEquation
<1>4. PICK depths, within : depths = Depths(v) /\ within = DocumentsWithin(docs, m)
  OBVIOUS
<1>5. /\ doc = written[m][v]
      /\ \A n \in 0..m : written[n] = WriteNext(depths[m - n], n, written[n - 1])
  BY <1>1, <1>4 DEF Written
<1>6. /\ Deserialize(ty, docs) = read[m]
      /\ \A n \in 0..m : read[n] = ReadNext(ty, within[m - n], n, read[n - 1])
  BY <1>3, <1>4 DEF ReadBack
<1>7. \A n \in 0..m : \A w \in depths[m - n] : written[n][w] \in within[m - n]
  BY <1>1, <1>2, <1>4, WrittenInside
<1>8. \A n \in 0..m : ValuesAt(ty, depths[m - n], n)
  BY <1>4, SoundLevels
<1>9. \A n \in 0..m : IsType(LayersFrom(ty, n)) /\ Len(LayersFrom(ty, n)) = n + 1
  BY LayersFromTypes
<1>10. depths[0] = {v} /\ \A n \in 1..m : depths[n] = Below(depths[n - 1])
  <2>1. Len(TypeOf(v)) = m + 1
    BY DEF Sound
  <2> QED BY <1>4, <2>1, DepthsEquation
<1> DEFINE Good(n) == \A w \in depths[m - n] : read[n][written[n][w]] = w
           Bad == {n \in 0..m : ~Good(n)}
<1>11. Good(0)
  <2>1. 0 \in 0..m /\ 0 + 1 = 1
    OBVIOUS
  <2>2. ASSUME NEW w \in depths[m - 0] PROVE read[0][written[0][w]] = w
    <3>1. PICK d : d = written[0][w]
      OBVIOUS
    <3>2. written[0] = WriteNext(depths[m - 0], 0, written[0 - 1])
      BY <1>5, <2>1, Zenon
    <3>3. d = SerializeScalar(w)
      BY <2>2, <3>1, <3>2 DEF WriteNext
    <3>4. d \in within[m - 0]
      BY <1>7, <2>1, <2>2, <3>1, Zenon
    <3>5. read[0] = ReadNext(ty, within[m - 0], 0, read[0 - 1])
      BY <1>6, <2>1, Zenon
    <3>6. PICK t : t = LayersFrom(ty, 0)
      OBVIOUS
    <3>7. read[0][d] = DeserializeScalar(t, d)
      BY <3>4, <3>5, <3>6 DEF ReadNext
    <3>8. TypeOf(w) = t /\ Formed(w)
      BY <1>8, <2>1, <2>2, <3>6, Zenon DEF ValuesAt
    <3>9. IsType(t) /\ Len(t) = 1
      <4>1. IsType(t) /\ Len(t) = 0 + 1
        BY <1>9, <2>1, <3>6, Zenon
      <4> QED BY <4>1
    <3> QED BY <3>1, <3>3, <3>7, <3>8, <3>9, ScalarReadsBack
  <2> QED BY <2>2
<1>12. ASSUME NEW n \in 1..m, Good(n - 1) PROVE Good(n)
  <2>1. n \in 0..m /\ n - 1 \in 0..m /\ n # 0 /\ n - 1 \in Nat
    OBVIOUS
  <2>2. /\ m - n \in 0..m /\ m - (n - 1) \in 1..m /\ (m - (n - 1)) - 1 = m - n
    OBVIOUS
  <2>3. PICK inner, back : inner = written[n - 1] /\ back = read[n - 1]
    OBVIOUS
  <2>4. ASSUME NEW w \in depths[m - n] PROVE read[n][written[n][w]] = w
    <3>1. PICK d : d = written[n][w]
      OBVIOUS
    <3>2. d = IF IsArray(TypeOf(w)) THEN SerializeArray(w, inner) ELSE SerializeMap(w, inner)
      <4>1. written[n] = WriteNext(depths[m - n], n, inner)
        BY <1>5, <2>1, <2>3
      <4> QED BY <2>1, <2>4, <3>1, <4>1 DEF WriteNext
    <3>3. d \in within[m - n]
      BY <1>7, <2>1, <2>4, <3>1
    <3>4. PICK t : t = LayersFrom(ty, n)
      OBVIOUS
    <3>5. read[n][d] = DeserializeContainer(t, back, d)
      <4>1. read[n] = ReadNext(ty, within[m - n], n, back)
        BY <1>6, <2>1, <2>3
      <4> QED BY <2>1, <3>3, <3>4, <4>1 DEF ReadNext
    <3>6. TypeOf(w) = t /\ Formed(w)
      BY <1>8, <2>1, <2>4, <3>4 DEF ValuesAt
    <3>7. IsType(t) /\ Len(t) = n + 1
      BY <1>9, <2>1, <3>4
    <3>8. \A e \in ElementSet(w) : e # NoValue /\ back[inner[e]] = e
      <4>1. ASSUME NEW e \in ElementSet(w) PROVE e # NoValue /\ back[inner[e]] = e
        <5>1. e \in depths[m - (n - 1)]
          <6>1. depths[m - (n - 1)] = Below(depths[m - n])
            BY <1>10, <2>2
          <6> QED BY <2>4, <4>1, <6>1 DEF Below
        <5>2. back[inner[e]] = e
          BY <1>12, <2>3, <5>1
        <5>3. Formed(e)
          BY <1>8, <2>1, <5>1 DEF ValuesAt
        <5>4. PICK kind, data : e = <<kind, data>>
          BY <5>3 DEF Formed
        <5>5. Len(e) = 2
          BY <5>4
        <5>6. e # NoValue
          BY <5>5 DEF NoValue
        <5> QED BY <5>2, <5>6
      <4> QED BY <4>1
    <3>9. DeserializeContainer(t, back, d) = w
      <4>1. CASE IsArray(t)
        BY <3>2, <3>6, <3>8, <4>1, ArrayReadsBack
      <4>2. CASE ~IsArray(t)
        <5>1. Len(t) = (n - 1) + 2
          BY <3>7
        <5>2. IsMap(t)
          BY <2>1, <3>7, <4>2, <5>1, ArrayOrMap
        <5> QED BY <3>2, <3>6, <3>8, <4>2, <5>2, MapReadsBack
      <4> QED BY <4>1, <4>2
    <3> QED BY <3>1, <3>5, <3>9
  <2> QED BY <2>4
<1> HIDE DEF Good
<1>13. ASSUME Bad # {} PROVE FALSE
  <2>1. PICK x \in Bad : \A n \in Bad : x <= n
    <3>1. Bad \in SUBSET Nat
      OBVIOUS
    <3>2. Bad # {}
      BY <1>13
    <3> HIDE DEF Bad
    <3> QED BY <3>1, <3>2, LeastNumber
  <2>2. x # 0
    BY <1>11, <2>1
  <2>3. x \in 1..m /\ x - 1 \in 0..m /\ x - 1 \notin Bad
    BY <2>1, <2>2
  <2>4. Good(x - 1)
    BY <2>3
  <2> QED BY <1>12, <2>1, <2>3, <2>4
<1>14. read[m][doc] = v
  <2>1. m \in 0..m /\ m - m = 0
    OBVIOUS
  <2>2. Good(m)
    BY <1>13, <2>1
  <2> QED BY <1>5, <1>10, <2>1, <2>2 DEF Good
<1> QED BY <1>2, <1>6, <1>14

\* What a container serializes to is read back, by its type, as the container,
\* whatever it holds (the Serialize and DeserializeSeed of array.rs, map.rs and
\* bytes.rs): no value has a document that reads as another.
THEOREM ContainersReadBack == ContainersSpec => []RoundTrip
<1>1. SoundInv => RoundTrip
  <2> SUFFICES ASSUME SoundInv PROVE RoundTrip
    OBVIOUS
  <2>1. PICK ty \in ContainerTypes : ty = TypeOf(container) /\ Sound(ty, container)
    BY DEF SoundInv
  <2>2. PICK m \in Nat : IsType(ty) /\ Len(ty) = m + 2
    BY <2>1, ContainerTypesAreTypes
  <2>3. m + 1 \in Nat /\ Len(ty) = (m + 1) + 1
    BY <2>2
  <2>4. PICK doc : doc = Serialize(container)
    OBVIOUS
  <2>5. Deserialize(ty, {doc})[doc] = container
    BY <2>1, <2>2, <2>3, <2>4, SoundReadsBack
  <2> QED BY <2>1, <2>4, <2>5 DEF RoundTrip
<1> QED BY <1>1, SoundInit, ContainersStep, PTL DEF ContainersSpec
=============================================================================
