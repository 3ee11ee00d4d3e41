------------------------- MODULE CompoundTypeProofs -------------------------
(***************************************************************************)
(* For every width of the packed layers: the representation stands for the *)
(* type, and the bits above the layers in use are clear, so that a push    *)
(* that is not refused loses nothing and equal types are equal words.  The *)
(* struct by which a C program describes a type packs the same bits.       *)
(***************************************************************************)
EXTENDS CType, WellFoundedInduction, SequenceTheorems, TLAPS

\* Induction by a least counterexample: a set of numbers that is not empty has a
\* least one.
Smaller == {pair \in Nat \X Nat : pair[1] < pair[2]}

LEMMA LeastNumber ==
  ASSUME NEW S \in SUBSET Nat, S # {}
  PROVE  \E least \in S : \A n \in S : least <= n
<1>1. IsWellFoundedOn(Smaller, Nat)
  BY NatLessThanWellFounded DEF OpToRel, Smaller
<1>2. \E least \in S : \A n \in S : <<n, least>> \notin Smaller
  BY <1>1, WFMin
<1>3. PICK least \in S : \A n \in S : <<n, least>> \notin Smaller
  BY <1>2
<1>4. ASSUME NEW n \in S PROVE least <= n
  <2>1. n \in Nat /\ least \in Nat /\ <<n, least>> \notin Smaller
    BY <1>3
  <2> QED BY <2>1 DEF Smaller
<1> QED BY <1>3, <1>4

\* The powers of two exist: for each bound one function doubles up to it, and two
\* of them agree where both are defined.
Doubling(n) == {f \in [0..n -> Nat] : f[0] = 1 /\ \A i \in 1..n : f[i] = 2 * f[i - 1]}

LEMMA DoublingExists == \A n \in Nat : Doubling(n) # {}
<1> SUFFICES ASSUME NEW k \in {n \in Nat : Doubling(n) = {}} PROVE FALSE
  OBVIOUS
<1>1. PICK x \in {n \in Nat : Doubling(n) = {}} :
        \A n \in {n \in Nat : Doubling(n) = {}} : x <= n
  BY LeastNumber
<1>2. x # 0
  <2>1. [i \in 0..0 |-> 1] \in Doubling(0)
    BY DEF Doubling
  <2> QED BY <1>1, <2>1
<1>3. PICK g : g \in Doubling(x - 1)
  BY <1>1, <1>2
<1> DEFINE f == [i \in 0..x |-> IF i = x THEN 2 * g[x - 1] ELSE g[i]]
<1>4. f \in Doubling(x)
  <2>1. /\ x - 1 \in Nat /\ g \in [0..x - 1 -> Nat] /\ g[0] = 1
        /\ \A i \in 1..x - 1 : g[i] = 2 * g[i - 1]
    BY <1>1, <1>2, <1>3 DEF Doubling
  <2>2. f \in [0..x -> Nat] /\ f[0] = 1
    BY <1>2, <2>1
  <2>3. ASSUME NEW i \in 1..x PROVE f[i] = 2 * f[i - 1]
    BY <2>1
  <2> QED BY <2>2, <2>3 DEF Doubling
<1> QED BY <1>1, <1>4

LEMMA DoublingUnique ==
  ASSUME NEW m \in Nat, NEW n \in Nat, m <= n, NEW f \in Doubling(m), NEW g \in Doubling(n)
  PROVE  \A i \in 0..m : f[i] = g[i]
<1> DEFINE Differ == {i \in 0..m : f[i] # g[i]}
<1> SUFFICES ASSUME Differ # {} PROVE FALSE
  OBVIOUS
<1>1. PICK x \in Differ : \A i \in Differ : x <= i
  <2>1. Differ \in SUBSET Nat
    OBVIOUS
  <2> HIDE DEF Differ
  <2> QED BY <2>1, LeastNumber
<1>2. x # 0
  BY <1>1 DEF Doubling
<1>3. x - 1 \in 0..m /\ x - 1 \in 0..n /\ x \in 1..m /\ x \in 1..n
  BY <1>1, <1>2
<1>4. f[x - 1] = g[x - 1]
  BY <1>1, <1>3
<1> QED BY <1>1, <1>3, <1>4 DEF Doubling

\* What Pow2 is, its recursive definition being a choice of a function.
LEMMA Pow2Equation ==
  /\ Pow2 \in [Nat -> Nat]
  /\ Pow2[0] = 1
  /\ \A n \in Nat : Pow2[n + 1] = 2 * Pow2[n]
<1> DEFINE Pick(n) == CHOOSE f : f \in Doubling(n)
           F == [n \in Nat |-> Pick(n)[n]]
<1>1. \A n \in Nat : Pick(n) \in Doubling(n)
  BY DoublingExists
<1> HIDE DEF Pick
<1>2. F \in [Nat -> Nat]
  BY <1>1 DEF Doubling
<1>3. F[0] = 1
  BY <1>1 DEF Doubling
<1>4. ASSUME NEW n \in Nat, n # 0 PROVE F[n] = 2 * F[n - 1]
  <2>1. n - 1 \in Nat /\ n - 1 <= n /\ n - 1 \in 0..n - 1 /\ n \in 1..n
    BY <1>4
  <2>2. Pick(n)[n] = 2 * Pick(n)[n - 1]
    BY <1>1, <2>1 DEF Doubling
  <2>3. Pick(n - 1)[n - 1] = Pick(n)[n - 1]
    BY <1>1, <2>1, DoublingUnique
  <2> QED BY <2>1, <2>2, <2>3
<1>5. F = [n \in Nat |-> IF n = 0 THEN 1 ELSE 2 * F[n - 1]]
  BY <1>2, <1>3, <1>4
<1> HIDE DEF F
<1>6. Pow2 = [n \in Nat |-> IF n = 0 THEN 1 ELSE 2 * Pow2[n - 1]]
  BY <1>5 DEF Pow2
<1>7. \A n \in Nat : Pow2[n] = IF n = 0 THEN 1 ELSE 2 * Pow2[n - 1]
  BY <1>6
<1>8. ASSUME NEW n \in Nat PROVE Pow2[n + 1] = 2 * Pow2[n]
  BY <1>7
<1>9. ASSUME NEW n \in Nat PROVE Pow2[n] \in Nat
  <2> SUFFICES ASSUME NEW k \in {i \in Nat : Pow2[i] \notin Nat} PROVE FALSE
    OBVIOUS
  <2>1. PICK x \in {i \in Nat : Pow2[i] \notin Nat} : \A i \in {i \in Nat : Pow2[i] \notin Nat} : x <= i
    BY LeastNumber
  <2>2. x # 0
    BY <1>7, <2>1
  <2>3. x - 1 \in Nat /\ Pow2[x - 1] \in Nat
    BY <2>1, <2>2
  <2> QED BY <1>7, <2>1, <2>2, <2>3
<1> QED BY <1>6, <1>7, <1>8, <1>9

LEMMA Pow2Positive == \A n \in Nat : Pow2[n] > 0
<1> DEFINE Bad == {n \in Nat : ~(Pow2[n] > 0)}
<1> SUFFICES ASSUME Bad # {} PROVE FALSE
  OBVIOUS
<1>1. PICK x \in Bad : \A n \in Bad : x <= n
  <2>1. Bad \in SUBSET Nat
    OBVIOUS
  <2> HIDE DEF Bad
  <2> QED BY <2>1, LeastNumber
<1>2. x \in Nat /\ ~(Pow2[x] > 0)
  BY <1>1
<1>3. x # 0
  BY <1>2, Pow2Equation
<1>4. x - 1 \in Nat /\ Pow2[x - 1] > 0
  BY <1>1, <1>2, <1>3
<1>5. Pow2[(x - 1) + 1] = 2 * Pow2[x - 1] /\ (x - 1) + 1 = x
  BY <1>2, <1>4, Pow2Equation
<1> QED BY <1>2, <1>4, <1>5, Pow2Equation

LEMMA Pow2Grows == \A m, n \in Nat : m <= n => Pow2[m] <= Pow2[n]
<1> SUFFICES ASSUME NEW m \in Nat PROVE \A n \in Nat : m <= n => Pow2[m] <= Pow2[n]
  OBVIOUS
<1> DEFINE Bad == {n \in Nat : m <= n /\ ~(Pow2[m] <= Pow2[n])}
<1> SUFFICES ASSUME Bad # {} PROVE FALSE
  OBVIOUS
<1>1. PICK x \in Bad : \A n \in Bad : x <= n
  <2>1. Bad \in SUBSET Nat
    OBVIOUS
  <2> HIDE DEF Bad
  <2> QED BY <2>1, LeastNumber
<1>2. x \in Nat /\ m <= x /\ ~(Pow2[m] <= Pow2[x])
  BY <1>1
<1>3. x # m
  BY <1>2, Pow2Equation
<1>4. x - 1 \in Nat /\ Pow2[m] <= Pow2[x - 1]
  BY <1>1, <1>2, <1>3
<1>5. Pow2[(x - 1) + 1] = 2 * Pow2[x - 1] /\ (x - 1) + 1 = x
  BY <1>2, <1>4, Pow2Equation
<1> QED BY <1>2, <1>4, <1>5, Pow2Equation

Compounds == [layers : Nat, len : 0..Width, primitive : Primitive]
IInv == compound \in Compounds /\ Canonical

LEMMA CompoundsAreStructs == Compounds \subseteq CTypeStruct
  BY WidthAssumption DEF Compounds, CTypeStruct

\* A push that is not refused shifts nothing out.
LEMMA PushFits ==
  ASSUME NEW c \in Compounds, c.layers < Pow2[c.len], CanPush(c), NEW layer \in Layer
  PROVE  /\ Pushed(c, layer) = [layers |-> 2 * c.layers + Bit(layer), len |-> c.len + 1,
                                primitive |-> c.primitive]
         /\ Pushed(c, layer) \in Compounds
         /\ Pushed(c, layer).layers < Pow2[c.len + 1]
<1> DEFINE p == Pow2[c.len]
           q == Pow2[c.len + 1]
           w == Pow2[Width]
           x == c.layers
           b == Bit(layer)
<1>1. x \in Nat /\ c.len \in 0..Width - 1 /\ c.len \in 0..Width /\ c.len + 1 \in 0..Width
      /\ Width \in 0..Width /\ c.len + 1 <= Width
  BY WidthAssumption DEF Compounds, CanPush
<1>2. p \in Nat /\ w \in Nat /\ q = 2 * p /\ q <= w
  <2>1. c.len \in Nat /\ c.len + 1 \in Nat /\ Width \in Nat /\ c.len + 1 <= Width
    BY <1>1, WidthAssumption
  <2> QED BY <2>1, Pow2Equation, Pow2Grows
<1>3. b = 0 \/ b = 1
  BY DEF Bit
<1>4. x < p
  OBVIOUS
<1> HIDE DEF p, q, w, x, b
<1>5. 2 * x < w /\ 2 * x + b < q /\ 2 * x + b \in Nat
  BY <1>1, <1>2, <1>3, <1>4
<1>6. (2 * x) % w = 2 * x
  BY <1>1, <1>2, <1>5
<1>7. Pushed(c, layer) = [layers |-> 2 * x + b, len |-> c.len + 1, primitive |-> c.primitive]
  BY <1>6 DEF Pushed, Compounds, w, x, b
<1> QED BY <1>1, <1>5, <1>7 DEF Compounds, q, x, b

\* A pop leaves the higher layers where they were.
LEMMA PopFits ==
  ASSUME NEW c \in Compounds, c.layers < Pow2[c.len], CanPop(c)
  PROVE  Popped(c) \in Compounds /\ Popped(c).layers < Pow2[c.len - 1]
<1> DEFINE p == Pow2[c.len - 1]
           q == Pow2[c.len]
           x == c.layers
<1>1. x \in Nat /\ c.len - 1 \in 0..Width - 1 /\ c.len - 1 \in 0..Width
      /\ (c.len - 1) + 1 = c.len
  BY WidthAssumption DEF Compounds, CanPop
<1>2. p \in Nat /\ q = 2 * p /\ x < q
  BY <1>1, Pow2Equation
<1> HIDE DEF p, q, x
<1>3. x \div 2 \in Nat /\ x \div 2 < p
  BY <1>1, <1>2
<1>4. Popped(c) = [layers |-> x \div 2, len |-> c.len - 1, primitive |-> c.primitive]
  BY DEF Popped, Compounds, x
<1> QED BY <1>1, <1>3, <1>4 DEF Compounds, p

-----------------------------------------------------------------------------
LEMMA DivUnique ==
  ASSUME NEW d \in Nat, d > 0, NEW q \in Int, NEW r \in Int, 0 <= r, r < d
  PROVE  (d * q + r) \div d = q
OBVIOUS

\* A bit more at the low end, and a divisor twice as large.
LEMMA DivShifted ==
  ASSUME NEW x \in Nat, NEW b \in 0..1, NEW p \in Nat, p > 0
  PROVE  (2 * x + b) \div (2 * p) = x \div p
<1> DEFINE q == x \div p
           r == x % p
<1>1. q \in Int /\ r \in Int /\ 0 <= r /\ r < p /\ x = p * q + r
  OBVIOUS
<1> HIDE DEF q, r
<1>2. 2 * x + b = (2 * p) * q + (2 * r + b)
  BY <1>1
<1>3. 0 <= 2 * r + b /\ 2 * r + b < 2 * p
  BY <1>1
<1>4. ((2 * p) * q + (2 * r + b)) \div (2 * p) = q
  BY <1>1, <1>3, DivUnique
<1> QED BY <1>2, <1>4 DEF q

\* What a representation stands for.
Layers(c) == [n \in 1..c.len |-> LayerAt(c, n)]
TypeOf(c) == Layers(c) \o <<c.primitive>>

LEMMA LayersOf ==
  ASSUME NEW c \in CTypeStruct
  PROVE  /\ Layers(c) \in Seq(Layer) /\ Len(Layers(c)) = c.len
         /\ TypeOf(c) \in Seq(Layer \cup Primitive) /\ Len(TypeOf(c)) = c.len + 1
         /\ \A n \in 1..c.len : TypeOf(c)[n] = LayerAt(c, n)
         /\ TypeOf(c)[c.len + 1] = c.primitive
<1>1. c.len \in Nat /\ c.primitive \in Primitive
  BY DEF CTypeStruct
<1>2. \A n \in 1..c.len : LayerAt(c, n) \in Layer
  BY DEF LayerAt, Layer
<1>3. Layers(c) \in Seq(Layer) /\ Len(Layers(c)) = c.len
      /\ \A n \in 1..c.len : Layers(c)[n] = LayerAt(c, n)
  BY <1>1, <1>2 DEF Layers
<1>4. Layers(c) \in Seq(Layer \cup Primitive)
  BY <1>3
<1>5. <<c.primitive>> \in Seq(Layer \cup Primitive) /\ Len(<<c.primitive>>) = 1
      /\ <<c.primitive>>[1] = c.primitive
  BY <1>1
<1> HIDE DEF Layers
<1>6. /\ TypeOf(c) \in Seq(Layer \cup Primitive) /\ Len(TypeOf(c)) = c.len + 1
      /\ \A i \in 1..c.len + 1 : TypeOf(c)[i] =
           IF i <= c.len THEN Layers(c)[i] ELSE <<c.primitive>>[i - c.len]
  BY <1>1, <1>3, <1>4, <1>5, ConcatProperties DEF TypeOf
<1>7. \A n \in 1..c.len : TypeOf(c)[n] = LayerAt(c, n)
  <2> SUFFICES ASSUME NEW n \in 1..c.len PROVE TypeOf(c)[n] = LayerAt(c, n)
    OBVIOUS
  <2>1. n \in 1..c.len + 1 /\ n <= c.len
    BY <1>1
  <2> QED BY <1>3, <1>6, <2>1
<1>8. TypeOf(c)[c.len + 1] = c.primitive
  <2>1. c.len + 1 \in 1..c.len + 1 /\ ~(c.len + 1 <= c.len) /\ (c.len + 1) - c.len = 1
    BY <1>1
  <2> QED BY <1>5, <1>6, <2>1
<1> QED BY <1>3, <1>6, <1>7, <1>8

\* The type of the representation after a push is the type with the layer put on.
LEMMA PushRepresents ==
  ASSUME NEW c \in Compounds, c.layers < Pow2[c.len], CanPush(c), NEW layer \in Layer
  PROVE  TypeOf(Pushed(c, layer)) = <<layer>> \o TypeOf(c)
<1> DEFINE d == Pushed(c, layer)
           x == c.layers
           b == Bit(layer)
<1>1. /\ d = [layers |-> 2 * x + b, len |-> c.len + 1, primitive |-> c.primitive]
      /\ d \in Compounds
  BY PushFits
<1>2. /\ x \in Nat /\ b \in 0..1 /\ c.len \in Nat
      /\ d.layers = 2 * x + b /\ d.len = c.len + 1 /\ d.primitive = c.primitive
  BY <1>1, WidthAssumption DEF Compounds, Bit
<1>3. b = 0 <=> layer = "Array"
  BY DEF Bit
<1> HIDE DEF d, x, b
<1>4. LayerAt(d, 1) = layer
  <2>1. (2 * x + b) \div 1 = 2 * x + b /\ (2 * x + b) % 2 = b
    BY <1>2
  <2>2. Pow2[1 - 1] = 1
    BY Pow2Equation
  <2> QED BY <1>2, <1>3, <2>1, <2>2 DEF LayerAt, Layer
<1>5. ASSUME NEW n \in 1..c.len PROVE LayerAt(d, n + 1) = LayerAt(c, n)
  <2>1. n - 1 \in Nat /\ (n + 1) - 1 = (n - 1) + 1
    BY <1>2
  <2>2. Pow2[n - 1] \in Nat /\ Pow2[n - 1] > 0 /\ Pow2[(n + 1) - 1] = 2 * Pow2[n - 1]
    BY <2>1, Pow2Equation, Pow2Positive
  <2>3. (2 * x + b) \div (2 * Pow2[n - 1]) = x \div Pow2[n - 1]
    BY <1>2, <2>2, DivShifted
  <2> QED BY <1>2, <2>2, <2>3 DEF LayerAt, x
<1>6. /\ <<layer>> \o TypeOf(c) \in Seq(Layer \cup Primitive)
      /\ Len(<<layer>> \o TypeOf(c)) = c.len + 2
      /\ \A i \in 1..c.len + 2 : (<<layer>> \o TypeOf(c))[i] =
           IF i <= 1 THEN layer ELSE TypeOf(c)[i - 1]
  <2>1. <<layer>> \in Seq(Layer \cup Primitive) /\ Len(<<layer>>) = 1 /\ <<layer>>[1] = layer
    OBVIOUS
  <2>2. TypeOf(c) \in Seq(Layer \cup Primitive) /\ Len(TypeOf(c)) = c.len + 1
    BY LayersOf, CompoundsAreStructs
  <2>3. 1 + (c.len + 1) = c.len + 2
    BY <1>2
  <2> QED BY <1>2, <2>1, <2>2, <2>3, ConcatProperties
<1>7. /\ TypeOf(d) \in Seq(Layer \cup Primitive) /\ Len(TypeOf(d)) = c.len + 2
      /\ \A n \in 1..c.len + 1 : TypeOf(d)[n] = LayerAt(d, n)
      /\ TypeOf(d)[c.len + 2] = c.primitive
  <2>1. (c.len + 1) + 1 = c.len + 2
    BY <1>2
  <2> QED BY <1>1, <1>2, <2>1, LayersOf, CompoundsAreStructs DEF d
<1>8. ASSUME NEW i \in 1..c.len + 2
      PROVE  TypeOf(d)[i] = (<<layer>> \o TypeOf(c))[i]
  <2>1. CASE i = 1
    BY <1>2, <1>4, <1>6, <1>7, <2>1
  <2>2. CASE i \in 2..c.len + 1
    <3>1. i - 1 \in 1..c.len /\ (i - 1) + 1 = i /\ ~(i <= 1) /\ i \in 1..c.len + 1
      BY <1>2, <2>2
    <3>2. TypeOf(d)[i] = LayerAt(c, i - 1)
      BY <1>5, <1>7, <3>1
    <3>3. TypeOf(c)[i - 1] = LayerAt(c, i - 1)
      BY <3>1, LayersOf, CompoundsAreStructs
    <3> QED BY <1>6, <3>1, <3>2, <3>3
  <2>3. CASE i = c.len + 2
    <3>1. i - 1 = c.len + 1 /\ ~(i <= 1)
      BY <1>2, <2>3
    <3> QED BY <1>6, <1>7, <2>3, <3>1, LayersOf, CompoundsAreStructs
  <2>4. c.len \in Nat
    BY <1>2
  <2>5. i = 1 \/ i \in 2..c.len + 1 \/ i = c.len + 2
    BY <2>4
  <2> QED BY <2>1, <2>2, <2>3, <2>5
<1>9. TypeOf(d) = <<layer>> \o TypeOf(c)
  <2> DEFINE s == TypeOf(d)
             t == <<layer>> \o TypeOf(c)
  <2>1. /\ s \in Seq(Layer \cup Primitive) /\ t \in Seq(Layer \cup Primitive)
        /\ Len(s) = c.len + 2 /\ Len(t) = c.len + 2 /\ \A i \in 1..c.len + 2 : s[i] = t[i]
    BY <1>6, <1>7, <1>8
  <2> HIDE DEF s, t
  <2>2. s = t
    BY <2>1, SeqEqual
  <2> QED BY <2>2 DEF s, t
<1> QED BY <1>9 DEF d

\* The type of the representation after a pop is the rest of the type.
LEMMA PopRepresents ==
  ASSUME NEW c \in CTypeStruct, CanPop(c)
  PROVE  TypeOf(Popped(c)) = Tail(TypeOf(c))
<1> DEFINE d == Popped(c)
           y == c.layers \div 2
           b == c.layers % 2
<1>1. /\ d = [layers |-> y, len |-> c.len - 1, primitive |-> c.primitive]
      /\ d \in CTypeStruct
  BY DEF Popped, CTypeStruct, CanPop
<1>2. /\ y \in Nat /\ b \in 0..1 /\ c.layers = 2 * y + b
      /\ c.len \in Nat /\ c.len > 0
      /\ d.layers = y /\ d.len = c.len - 1 /\ d.primitive = c.primitive
  <2>1. c.layers \in Nat /\ c.len \in Nat /\ c.len > 0
    BY DEF CTypeStruct, CanPop
  <2>2. y \in Nat /\ b \in 0..1 /\ c.layers = 2 * y + b
    BY <2>1
  <2> HIDE DEF d, y, b
  <2> QED BY <1>1, <2>1, <2>2
<1> HIDE DEF d, y, b
<1>3. ASSUME NEW n \in 1..c.len - 1 PROVE LayerAt(d, n) = LayerAt(c, n + 1)
  <2>1. n - 1 \in Nat /\ (n + 1) - 1 = (n - 1) + 1
    BY <1>2
  <2>2. Pow2[n - 1] \in Nat /\ Pow2[n - 1] > 0 /\ Pow2[(n + 1) - 1] = 2 * Pow2[n - 1]
    BY <2>1, Pow2Equation, Pow2Positive
  <2>3. (2 * y + b) \div (2 * Pow2[n - 1]) = y \div Pow2[n - 1]
    BY <1>2, <2>2, DivShifted
  <2> QED BY <1>2, <2>2, <2>3 DEF LayerAt
<1>4. /\ TypeOf(c) \in Seq(Layer \cup Primitive) /\ Len(TypeOf(c)) = c.len + 1
      /\ \A n \in 1..c.len : TypeOf(c)[n] = LayerAt(c, n)
      /\ TypeOf(c)[c.len + 1] = c.primitive
  BY LayersOf
<1>5. /\ Tail(TypeOf(c)) \in Seq(Layer \cup Primitive)
      /\ Len(Tail(TypeOf(c))) = c.len
      /\ \A i \in 1..c.len : Tail(TypeOf(c))[i] = TypeOf(c)[i + 1]
  BY <1>2, <1>4, HeadTailProperties
<1>6. /\ TypeOf(d) \in Seq(Layer \cup Primitive) /\ Len(TypeOf(d)) = c.len
      /\ \A n \in 1..c.len - 1 : TypeOf(d)[n] = LayerAt(d, n)
      /\ TypeOf(d)[c.len] = c.primitive
  <2>1. (c.len - 1) + 1 = c.len
    BY <1>2
  <2> QED BY <1>1, <1>2, <2>1, LayersOf DEF d
<1>7. ASSUME NEW i \in 1..c.len PROVE TypeOf(d)[i] = Tail(TypeOf(c))[i]
  <2>1. CASE i = c.len
    BY <1>4, <1>5, <1>6, <2>1
  <2>2. CASE i \in 1..c.len - 1
    <3>1. i + 1 \in 1..c.len
      BY <1>2, <2>2
    <3> QED BY <1>3, <1>4, <1>5, <1>6, <2>2, <3>1
  <2>3. c.len \in Nat
    BY <1>2
  <2>4. i = c.len \/ i \in 1..c.len - 1
    BY <2>3
  <2> QED BY <2>1, <2>2, <2>4
<1>8. TypeOf(d) = Tail(TypeOf(c))
  <2> DEFINE s == TypeOf(d)
             t == Tail(TypeOf(c))
  <2>1. /\ s \in Seq(Layer \cup Primitive) /\ t \in Seq(Layer \cup Primitive)
        /\ Len(s) = c.len /\ Len(t) = c.len /\ \A i \in 1..c.len : s[i] = t[i]
    BY <1>5, <1>6, <1>7
  <2> HIDE DEF s, t
  <2>2. s = t
    BY <2>1, SeqEqual
  <2> QED BY <2>2 DEF s, t
<1> QED BY <1>8 DEF d

-----------------------------------------------------------------------------
LEMMA InitIInv == TypeInit => IInv
<1> SUFFICES ASSUME NEW q \in Primitive, compound = New(q) PROVE IInv
  BY DEF TypeInit
<1>1. compound \in Compounds
  BY WidthAssumption DEF Compounds, New
<1>2. Canonical
  BY Pow2Equation DEF Canonical, New
<1> QED BY <1>1, <1>2 DEF IInv

LEMMA StepIInv == IInv /\ [TypeNext]_typeVars => IInv'
<1> SUFFICES ASSUME IInv, [TypeNext]_typeVars PROVE IInv'
  OBVIOUS
<1> USE DEF IInv
<1>1. ASSUME NEW layer \in Layer, Push(layer) PROVE IInv'
  <2>1. CASE CanPush(compound)
    <3>1. compound' = Pushed(compound, layer)
      BY <1>1, <2>1 DEF Push
    <3>2. /\ compound' \in Compounds /\ compound'.len = compound.len + 1
          /\ compound'.layers < Pow2[compound.len + 1]
      BY <2>1, <3>1, PushFits DEF Canonical
    <3> QED BY <3>2 DEF Canonical
  <2>2. CASE ~CanPush(compound)
    BY <1>1, <2>2 DEF Push, Canonical
  <2> QED BY <2>1, <2>2
<1>2. CASE Pop
  <2>1. compound' = Popped(compound) /\ CanPop(compound)
    BY <1>2 DEF Pop
  <2>2. /\ compound' \in Compounds /\ compound'.len = compound.len - 1
        /\ compound'.layers < Pow2[compound.len - 1]
    BY <2>1, PopFits DEF Canonical, Popped, Compounds
  <2> QED BY <2>2 DEF Canonical
<1>3. CASE UNCHANGED typeVars
  BY <1>3 DEF typeVars, Canonical
<1> QED BY <1>1, <1>2, <1>3 DEF TypeNext

\* No bit above the layers in use is ever set, so that the derived equality and
\* hash of two representations are those of the types (types.rs CompoundType).
THEOREM TypesAreCanonical == TypeSpec => []Canonical
<1>1. TypeSpec => []IInv
  BY InitIInv, StepIInv, PTL DEF TypeSpec
<1>2. IInv => Canonical
  BY DEF IInv
<1> QED BY <1>1, <1>2, PTL

\* The packed layers stand for the type that was built, after any pushes and pops
\* and also when every bit is in use (types.rs push, pop, into_type).
THEOREM TypesAreRepresented == TypeSpec => []Represents
<1>1. TypeSpec => []IInv
  BY InitIInv, StepIInv, PTL DEF TypeSpec
<1>2. TypeInit => Represents
  <2> SUFFICES ASSUME NEW q \in Primitive, compound = New(q), type = <<q>>
               PROVE  Represents
    BY DEF TypeInit
  <2>1. Layers(compound) = << >>
    BY DEF New, Layers
  <2>2. compound.primitive = q /\ << >> \o <<q>> = <<q>>
    BY DEF New
  <2> QED BY <2>1, <2>2 DEF Represents, Layers
<1>3. IInv /\ Represents /\ [TypeNext]_typeVars => Represents'
  <2> SUFFICES ASSUME IInv, type = TypeOf(compound), [TypeNext]_typeVars
               PROVE  type' = TypeOf(compound')
    BY DEF Represents, TypeOf, Layers, LayerAt
  <2>1. ASSUME NEW layer \in Layer, Push(layer) PROVE type' = TypeOf(compound')
    <3>1. CASE CanPush(compound)
      BY <2>1, <3>1, PushRepresents DEF Push, IInv, Canonical
    <3>2. CASE ~CanPush(compound)
      BY <2>1, <3>2 DEF Push
    <3> QED BY <3>1, <3>2
  <2>2. CASE Pop
    BY <2>2, PopRepresents, CompoundsAreStructs DEF Pop, IInv
  <2>3. CASE UNCHANGED typeVars
    BY <2>3 DEF typeVars
  <2> QED BY <2>1, <2>2, <2>3 DEF TypeNext
<1> QED BY <1>1, <1>2, <1>3, PTL DEF TypeSpec

\* A push that is not refused is undone by a pop, at every width and also at the
\* last bit (types.rs push, pop).
THEOREM PopUndoes == TypeSpec => []PopUndoesPush
<1>1. TypeSpec => []IInv
  BY InitIInv, StepIInv, PTL DEF TypeSpec
<1>2. ASSUME IInv, NEW layer \in Layer, CanPush(compound)
      PROVE  /\ Popped(Pushed(compound, layer)) = compound
             /\ TopLayer(Pushed(compound, layer)) = layer
  <2> DEFINE x == compound.layers
  <2>1. compound \in Compounds /\ x < Pow2[compound.len]
    BY <1>2 DEF IInv, Canonical
  <2>2. Pushed(compound, layer) = [layers |-> 2 * x + Bit(layer), len |-> compound.len + 1,
                                   primitive |-> compound.primitive]
    BY <1>2, <2>1, PushFits
  <2>3. x \in Nat /\ compound.len \in Int
    BY <2>1 DEF Compounds
  <2>4. (2 * x + 0) \div 2 = x /\ (2 * x + 1) \div 2 = x
        /\ (2 * x + 0) % 2 = 0 /\ (2 * x + 1) % 2 = 1 /\ (compound.len + 1) - 1 = compound.len
    BY <2>3
  <2>5. Bit(layer) \in {0, 1} /\ (Bit(layer) = 0 <=> layer = "Array")
    BY DEF Bit
  <2>6. Popped(Pushed(compound, layer)) = [layers |-> x, len |-> compound.len,
                                           primitive |-> compound.primitive]
    BY <2>2, <2>4, <2>5 DEF Popped
  <2>7. Popped(Pushed(compound, layer)) = compound
    BY <2>1, <2>6 DEF Compounds
  <2>8. TopLayer(Pushed(compound, layer)) = layer
    BY <2>2, <2>4, <2>5 DEF TopLayer, Layer
  <2> QED BY <2>7, <2>8
<1>3. IInv => PopUndoesPush
  BY <1>2 DEF PopUndoesPush
<1> QED BY <1>1, <1>3, PTL
-----------------------------------------------------------------------------
(***************************************************************************)
(* The struct that C fills.  Its two conversions are recursive, so that    *)
(* the first facts are that functions with these equations exist.          *)
(***************************************************************************)
LEMMA ReadOnce ==
  ASSUME NEW c \in CTypeStruct
  PROVE  TypeOf(c) = IF c.len = 0 THEN <<c.primitive>>
                     ELSE <<CTopLayer(c)>> \o TypeOf(CPopped(c))
<1>1. CASE c.len = 0
  <2>1. Layers(c) = << >>
    BY <1>1 DEF Layers
  <2>2. << >> \o <<c.primitive>> = <<c.primitive>>
    OBVIOUS
  <2> QED BY <1>1, <2>1, <2>2 DEF TypeOf
<1>2. CASE c.len # 0
  <2> DEFINE s == TypeOf(c)
  <2>1. CanPop(c) /\ 1 \in 1..c.len /\ Popped(c) = CPopped(c)
    BY <1>2 DEF CanPop, CTypeStruct, Popped, CPopped
  <2>2. s \in Seq(Layer \cup Primitive) /\ s # << >> /\ s[1] = LayerAt(c, 1)
    <3>1. s \in Seq(Layer \cup Primitive) /\ Len(s) = c.len + 1 /\ s[1] = LayerAt(c, 1)
      BY <2>1, LayersOf
    <3>2. c.len + 1 # 0
      BY DEF CTypeStruct
    <3> HIDE DEF s
    <3> QED BY <3>1, <3>2
  <2>3. LayerAt(c, 1) = CTopLayer(c)
    <3>1. Pow2[1 - 1] = 1
      BY Pow2Equation
    <3>2. c.layers \div 1 = c.layers
      BY DEF CTypeStruct
    <3> QED BY <3>1, <3>2 DEF LayerAt, CTopLayer
  <2>4. Tail(s) = TypeOf(CPopped(c))
    BY <2>1, PopRepresents
  <2> HIDE DEF s
  <2>5. s = <<s[1]>> \o Tail(s)
    BY <2>2
  <2> QED BY <1>2, <2>2, <2>3, <2>4, <2>5 DEF s
<1> QED BY <1>1, <1>2

LEMMA TypeFromEquation ==
  \A c \in CTypeStruct : TypeFrom[c] = IF c.len = 0 THEN <<c.primitive>>
                                       ELSE <<CTopLayer(c)>> \o TypeFrom[CPopped(c)]
<1> DEFINE F == [c \in CTypeStruct |-> TypeOf(c)]
<1>1. \A c \in CTypeStruct : c.len # 0 => CPopped(c) \in CTypeStruct
  BY DEF CPopped, CTypeStruct
<1>2. F = [c \in CTypeStruct |-> IF c.len = 0 THEN <<c.primitive>>
                                 ELSE <<CTopLayer(c)>> \o F[CPopped(c)]]
  <2>1. ASSUME NEW c \in CTypeStruct
        PROVE  TypeOf(c) = IF c.len = 0 THEN <<c.primitive>>
                           ELSE <<CTopLayer(c)>> \o F[CPopped(c)]
    BY <1>1, ReadOnce
  <2> QED BY <2>1
<1> HIDE DEF F
<1>3. TypeFrom = [c \in CTypeStruct |-> IF c.len = 0 THEN <<c.primitive>>
                                        ELSE <<CTopLayer(c)>> \o TypeFrom[CPopped(c)]]
  BY <1>2 DEF TypeFrom
<1> QED BY <1>3

\* Reading a struct gives the layers that its bits stand for.
LEMMA TypeFromReads == \A c \in CTypeStruct : TypeFrom[c] = TypeOf(c)
<1> DEFINE Bad == {n \in Nat : \E c \in CTypeStruct : c.len = n /\ TypeFrom[c] # TypeOf(c)}
<1> SUFFICES ASSUME Bad # {} PROVE FALSE
  BY DEF CTypeStruct
<1>1. PICK x \in Bad : \A n \in Bad : x <= n
  <2>1. Bad \in SUBSET Nat
    OBVIOUS
  <2> HIDE DEF Bad
  <2> QED BY <2>1, LeastNumber
<1>2. PICK c \in CTypeStruct : c.len = x /\ TypeFrom[c] # TypeOf(c)
  BY <1>1
<1>3. c.len # 0
  BY <1>2, TypeFromEquation, ReadOnce
<1>4. CPopped(c) \in CTypeStruct /\ CPopped(c).len = x - 1 /\ x - 1 \in Nat /\ ~(x <= x - 1)
  BY <1>2, <1>3 DEF CPopped, CTypeStruct
<1>5. TypeFrom[CPopped(c)] = TypeOf(CPopped(c))
  BY <1>1, <1>4
<1> QED BY <1>2, <1>3, <1>5, TypeFromEquation, ReadOnce

\* Writing a type: as for the powers of two, one function for each number of layers.
Shorter(n) == {t \in Types : Len(t) <= n}
AnyStruct  == [layers : Nat, len : Nat, primitive : Layer \cup Primitive]
Writing(n) ==
  {f \in [Shorter(n) -> AnyStruct] : \A t \in Shorter(n) :
     f[t] = IF Len(t) = 1 THEN CreatePrimitiveType(t[1]) ELSE CPush(f[Tail(t)], Head(t))}

LEMMA TypeTails ==
  ASSUME NEW t \in Types
  PROVE  /\ Len(t) \in Nat /\ Len(t) > 0
         /\ Head(t) \in Layer \cup Primitive /\ t[1] \in Layer \cup Primitive
         /\ Len(t) # 1 => Tail(t) \in Types /\ Len(Tail(t)) = Len(t) - 1
<1>1. t \in Seq(Layer \cup Primitive) /\ t # << >>
  BY DEF Types
<1>2. Len(t) \in Nat /\ Len(t) > 0
  BY <1>1
<1>3. /\ Head(t) \in Layer \cup Primitive /\ t[1] \in Layer \cup Primitive
      /\ Tail(t) \in Seq(Layer \cup Primitive) /\ Len(Tail(t)) = Len(t) - 1
  BY <1>1, <1>2, HeadTailProperties
<1>4. ASSUME Tail(t) = << >> PROVE Len(t) = 1
  <2> DEFINE rest == Tail(t)
  <2>1. rest = << >> /\ Len(rest) = Len(t) - 1
    BY <1>3, <1>4
  <2> HIDE DEF rest
  <2>2. Len(rest) = 0
    BY <2>1
  <2> QED BY <1>2, <2>1, <2>2
<1> QED BY <1>2, <1>3, <1>4 DEF Types

LEMMA StructPush ==
  ASSUME NEW c \in AnyStruct, NEW layer
  PROVE  CPush(c, layer) \in AnyStruct
<1>1. c.layers \in Nat /\ c.len \in Nat /\ c.primitive \in Layer \cup Primitive
  BY DEF AnyStruct
<1>2. Pow2[Width] \in Nat /\ Pow2[Width] > 0
  BY WidthAssumption, Pow2Equation, Pow2Positive
<1>3. ((2 * c.layers) % Pow2[Width]) + Bit(layer) \in Nat
  <2> DEFINE w == Pow2[Width]
             x == 2 * c.layers
  <2>1. w \in Nat /\ w > 0 /\ x \in Nat
    BY <1>1, <1>2
  <2> HIDE DEF w, x
  <2>2. x % w \in Nat
    BY <2>1
  <2> QED BY <2>2 DEF Bit, w, x
<1> QED BY <1>1, <1>3 DEF CPush, AnyStruct

LEMMA WritingExists == \A n \in Nat : Writing(n) # {}
<1> SUFFICES ASSUME NEW k \in {n \in Nat : Writing(n) = {}} PROVE FALSE
  OBVIOUS
<1>1. PICK x \in {n \in Nat : Writing(n) = {}} :
        \A n \in {n \in Nat : Writing(n) = {}} : x <= n
  BY LeastNumber
<1>2. x # 0
  <2>1. Shorter(0) = {}
    BY TypeTails DEF Shorter
  <2>2. [t \in {} |-> 0] \in Writing(0)
    BY <2>1 DEF Writing
  <2> QED BY <1>1, <2>2
<1>3. PICK g : g \in Writing(x - 1)
  BY <1>1, <1>2
<1> DEFINE Body(f, t) == IF Len(t) = 1 THEN CreatePrimitiveType(t[1])
                         ELSE CPush(f[Tail(t)], Head(t))
           f == [t \in Shorter(x) |-> Body(g, t)]
<1>4. ASSUME NEW t \in Shorter(x), Len(t) # 1
      PROVE  Tail(t) \in Shorter(x - 1) /\ Tail(t) \in Shorter(x)
  BY <1>1, <1>4, TypeTails DEF Shorter
<1>5. g \in [Shorter(x - 1) -> AnyStruct] /\ \A t \in Shorter(x - 1) : g[t] = Body(g, t)
  BY <1>3 DEF Writing
<1>6. ASSUME NEW t \in Shorter(x) PROVE Body(g, t) \in AnyStruct
  <2>1. t \in Types
    BY DEF Shorter
  <2>2. CASE Len(t) = 1
    BY <2>1, <2>2, TypeTails DEF CreatePrimitiveType, AnyStruct
  <2>3. CASE Len(t) # 1
    <3>1. g[Tail(t)] \in AnyStruct
      BY <1>4, <1>5, <2>3
    <3> QED BY <2>3, <3>1, StructPush
  <2> QED BY <2>2, <2>3
<1>7. ASSUME NEW t \in Shorter(x) PROVE f[t] = Body(f, t)
  <2>1. CASE Len(t) = 1
    BY <2>1
  <2>2. CASE Len(t) # 1
    <3>1. f[Tail(t)] = g[Tail(t)]
      BY <1>4, <1>5, <2>2
    <3> QED BY <2>2, <3>1
  <2> QED BY <2>1, <2>2
<1>8. f \in [Shorter(x) -> AnyStruct]
  BY <1>6
<1>9. f \in Writing(x)
  <2> HIDE DEF f
  <2> QED BY <1>7, <1>8 DEF Writing
<1> QED BY <1>1, <1>9

LEMMA WritingUnique ==
  ASSUME NEW m \in Nat, NEW n \in Nat, m <= n, NEW f \in Writing(m), NEW g \in Writing(n)
  PROVE  \A t \in Shorter(m) : f[t] = g[t]
<1> DEFINE Differ == {k \in Nat : \E t \in Shorter(m) : Len(t) = k /\ f[t] # g[t]}
<1> SUFFICES ASSUME Differ # {} PROVE FALSE
  BY TypeTails DEF Shorter
<1>1. PICK x \in Differ : \A i \in Differ : x <= i
  <2>1. Differ \in SUBSET Nat
    OBVIOUS
  <2> HIDE DEF Differ
  <2> QED BY <2>1, LeastNumber
<1>2. PICK t \in Shorter(m) : Len(t) = x /\ f[t] # g[t]
  BY <1>1
<1>3. t \in Types /\ t \in Shorter(n)
  BY <1>2, TypeTails DEF Shorter
<1>4. Len(t) # 1
  BY <1>2, <1>3 DEF Writing
<1>5. Tail(t) \in Shorter(m) /\ Tail(t) \in Shorter(n) /\ Len(Tail(t)) = x - 1
      /\ x - 1 \in Nat /\ ~(x <= x - 1)
  <2>1. Tail(t) \in Types /\ Len(Tail(t)) = Len(t) - 1 /\ Len(t) \in Nat /\ Len(t) > 0
    BY <1>3, <1>4, TypeTails
  <2>2. Len(t) = x /\ Len(t) <= m
    BY <1>2 DEF Shorter
  <2>3. Len(Tail(t)) = x - 1 /\ x - 1 \in Nat /\ ~(x <= x - 1) /\ x - 1 <= m /\ x - 1 <= n
    BY <2>1, <2>2
  <2> QED BY <2>1, <2>3 DEF Shorter
<1>6. f[Tail(t)] = g[Tail(t)]
  BY <1>1, <1>5
<1> QED BY <1>2, <1>3, <1>4, <1>6 DEF Writing

LEMMA CTypeFromEquation ==
  \A t \in Types : CTypeFrom[t] = IF Len(t) = 1 THEN CreatePrimitiveType(t[1])
                                  ELSE CPush(CTypeFrom[Tail(t)], Head(t))
<1> DEFINE Pick(n) == CHOOSE f : f \in Writing(n)
           F == [t \in Types |-> Pick(Len(t))[t]]
<1>1. \A n \in Nat : Pick(n) \in Writing(n)
  BY WritingExists
<1> HIDE DEF Pick
<1>2. ASSUME NEW t \in Types
      PROVE  F[t] = IF Len(t) = 1 THEN CreatePrimitiveType(t[1]) ELSE CPush(F[Tail(t)], Head(t))
  <2>1. Len(t) \in Nat /\ t \in Shorter(Len(t))
    BY TypeTails DEF Shorter
  <2>2. F[t] = IF Len(t) = 1 THEN CreatePrimitiveType(t[1])
               ELSE CPush(Pick(Len(t))[Tail(t)], Head(t))
    BY <1>1, <2>1 DEF Writing
  <2>3. ASSUME Len(t) # 1 PROVE Pick(Len(t))[Tail(t)] = F[Tail(t)]
    <3> DEFINE m == Len(Tail(t))
    <3>1. Tail(t) \in Types /\ m \in Nat /\ m <= Len(t) /\ Tail(t) \in Shorter(m)
      BY <2>3, TypeTails DEF Shorter
    <3>2. Pick(m)[Tail(t)] = Pick(Len(t))[Tail(t)]
      <4>1. Pick(m) \in Writing(m) /\ Pick(Len(t)) \in Writing(Len(t))
        BY <1>1, <2>1, <3>1
      <4> HIDE DEF m
      <4> QED BY <2>1, <3>1, <4>1, WritingUnique
    <3> QED BY <3>1, <3>2
  <2> HIDE DEF F
  <2> QED BY <2>2, <2>3
<1>3. F = [t \in Types |-> IF Len(t) = 1 THEN CreatePrimitiveType(t[1])
                           ELSE CPush(F[Tail(t)], Head(t))]
  <2>1. F = [t \in Types |-> F[t]]
    OBVIOUS
  <2> HIDE DEF F
  <2> QED BY <1>2, <2>1
<1> HIDE DEF F
<1>4. CTypeFrom = [t \in Types |-> IF Len(t) = 1 THEN CreatePrimitiveType(t[1])
                                   ELSE CPush(CTypeFrom[Tail(t)], Head(t))]
  BY <1>3 DEF CTypeFrom
<1> QED BY <1>4
-----------------------------------------------------------------------------
\* A power of two above a bit does not reach it.
LEMMA HighBitIgnored ==
  \A j \in Nat : \A k \in Nat, y \in Nat :
    j < k => ((y + Pow2[k]) \div Pow2[j]) % 2 = (y \div Pow2[j]) % 2
<1> DEFINE Same(j, k, y) == ((y + Pow2[k]) \div Pow2[j]) % 2 = (y \div Pow2[j]) % 2
           Bad == {j \in Nat : \E k \in Nat, y \in Nat : j < k /\ ~Same(j, k, y)}
<1> SUFFICES ASSUME Bad # {} PROVE FALSE
  OBVIOUS
<1>1. PICK x \in Bad : \A j \in Bad : x <= j
  <2>1. Bad \in SUBSET Nat
    OBVIOUS
  <2> HIDE DEF Bad
  <2> QED BY <2>1, LeastNumber
<1>2. PICK k \in Nat, y \in Nat : x < k /\ ~Same(x, k, y)
  BY <1>1
<1>3. x \in Nat /\ k - 1 \in Nat /\ (k - 1) + 1 = k
  BY <1>1, <1>2
<1> DEFINE P == Pow2[k - 1]
<1>4. P \in Nat /\ Pow2[k] = 2 * P
  BY <1>3, Pow2Equation
<1>5. CASE x = 0
  <2>1. Pow2[x] = 1
    BY <1>5, Pow2Equation
  <2> HIDE DEF P
  <2>2. (y + 2 * P) \div 1 = y + 2 * P /\ y \div 1 = y /\ (y + 2 * P) % 2 = y % 2
    BY <1>4
  <2> QED BY <1>2, <1>4, <2>1, <2>2
<1>6. CASE x # 0
  <2> DEFINE Q == Pow2[x - 1]
             z == y \div 2
             b == y % 2
  <2>1. x - 1 \in Nat /\ (x - 1) + 1 = x /\ x - 1 < k - 1 /\ ~(x <= x - 1)
    BY <1>2, <1>3, <1>6
  <2>2. Q \in Nat /\ Q > 0 /\ Pow2[x] = 2 * Q
    BY <2>1, Pow2Equation, Pow2Positive
  <2>3. z \in Nat /\ b \in 0..1 /\ y = 2 * z + b
    OBVIOUS
  <2>4. Same(x - 1, k - 1, z)
    <3> HIDE DEF Same, z
    <3> QED BY <1>1, <1>3, <2>1, <2>3
  <2> HIDE DEF P, Q, z, b
  <2>5. (2 * (z + P) + b) \div (2 * Q) = (z + P) \div Q
    <3>1. z + P \in Nat
      BY <1>4, <2>3
    <3> QED BY <2>2, <2>3, <3>1, DivShifted
  <2>7. (2 * z + b) \div (2 * Q) = z \div Q
    BY <2>2, <2>3, DivShifted
  <2>6. y + 2 * P = 2 * (z + P) + b
    BY <1>4, <2>3
  <2> QED BY <1>2, <1>4, <2>2, <2>3, <2>4, <2>5, <2>6, <2>7 DEF P, Q
<1> QED BY <1>5, <1>6

\* A push keeps the layers that have still room in the word, one further in.
LEMMA FullPushKeeps ==
  ASSUME NEW c \in Compounds, c.len = Width, c.layers < Pow2[Width], NEW layer \in Layer
  PROVE  /\ CPush(c, layer) \in CTypeStruct
         /\ LayerAt(CPush(c, layer), 1) = layer
         /\ \A n \in 1..Width - 1 : LayerAt(CPush(c, layer), n + 1) = LayerAt(c, n)
<1> DEFINE d == CPush(c, layer)
           x == c.layers
           b == Bit(layer)
           p == Pow2[Width - 1]
           y == IF x < p THEN x ELSE x - p
<1>1. x \in Nat /\ Width - 1 \in Nat /\ (Width - 1) + 1 = Width
  BY WidthAssumption DEF Compounds
<1>2. p \in Nat /\ p > 0 /\ Pow2[Width] = 2 * p /\ x < 2 * p
  BY <1>1, Pow2Equation, Pow2Positive
<1>3. b \in 0..1 /\ (b = 0 <=> layer = "Array")
  BY DEF Bit
<1>4. y \in Nat /\ y < p /\ (x = y \/ x = y + p)
  <2> HIDE DEF x, p
  <2> QED BY <1>1, <1>2
<1>5. (2 * x) % (2 * p) = 2 * y
  <2> HIDE DEF x, p, y
  <2>1. CASE x = y
    BY <1>2, <1>4, <2>1
  <2>2. CASE x = y + p
    <3> DEFINE u == 2 * y
               m == 2 * p
    <3>1. u \in Nat /\ m \in Nat /\ m > 0 /\ u < m /\ 2 * x = u + m
      BY <1>2, <1>4, <2>2
    <3> HIDE DEF u, m
    <3>2. (u + m) % m = u
      BY <3>1
    <3> QED BY <3>1, <3>2 DEF u, m
  <2> QED BY <1>4, <2>1, <2>2
<1>6. d = [layers |-> 2 * y + b, len |-> c.len + 1, primitive |-> c.primitive]
  BY <1>2, <1>5 DEF CPush
<1>7. d.layers = 2 * y + b /\ d \in CTypeStruct
  <2>1. 2 * y + b \in Nat
    <3> HIDE DEF y, b
    <3> QED BY <1>3, <1>4
  <2> HIDE DEF d, y, b
  <2> QED BY <1>6, <2>1, CompoundsAreStructs DEF CTypeStruct
<1> HIDE DEF d, x, y, b, p
<1>8. LayerAt(d, 1) = layer
  <2>1. (2 * y + b) \div 1 = 2 * y + b /\ (2 * y + b) % 2 = b
    BY <1>3, <1>4
  <2>2. Pow2[1 - 1] = 1
    BY Pow2Equation
  <2> QED BY <1>3, <1>7, <2>1, <2>2 DEF LayerAt, Layer
<1>9. ASSUME NEW n \in 1..Width - 1 PROVE LayerAt(d, n + 1) = LayerAt(c, n)
  <2>1. n - 1 \in Nat /\ (n + 1) - 1 = (n - 1) + 1 /\ n - 1 < Width - 1
    BY <1>1
  <2> DEFINE q == Pow2[n - 1]
  <2>2. q \in Nat /\ q > 0 /\ Pow2[(n + 1) - 1] = 2 * q
    BY <2>1, Pow2Equation, Pow2Positive
  <2>3. ((y + p) \div q) % 2 = (y \div q) % 2
    BY <1>1, <1>4, <2>1, HighBitIgnored DEF p
  <2> HIDE DEF q
  <2>4. (2 * y + b) \div (2 * q) = y \div q
    BY <1>3, <1>4, <2>2, DivShifted
  <2>5. (x \div q) % 2 = (y \div q) % 2
    BY <1>4, <2>3
  <2> QED BY <1>7, <2>2, <2>4, <2>5 DEF LayerAt, q, x
<1> QED BY <1>7, <1>8, <1>9 DEF d

\* The struct as the program has built it: within the word it is the packing of
\* CompoundType, and the layer after it pushes the innermost one out.
CInv ==
  /\ ctype \in CTypeStruct /\ ctype.len <= Width + 1
  /\ ctype.len <= Width =>
       ctype \in Compounds /\ ctype.layers < Pow2[ctype.len] /\ meant = TypeOf(ctype)
  /\ ctype.len = Width + 1 => \A n \in 1..Width : LayerAt(ctype, n) = meant[n]
  /\ meant \in Types /\ CTypeFrom[meant] = ctype

LEMMA InitCInv == CTypeInit => CInv
<1> SUFFICES ASSUME NEW p \in Primitive, ctype = CreatePrimitiveType(p), meant = <<p>>
             PROVE  CInv
  BY DEF CTypeInit
<1>1. /\ ctype = [layers |-> 0, len |-> 0, primitive |-> p]
      /\ ctype \in Compounds /\ ctype \in CTypeStruct
  BY WidthAssumption DEF CreatePrimitiveType, Compounds, CTypeStruct
<1>2. ctype.len = 0 /\ ctype.layers < Pow2[ctype.len] /\ ctype.len <= Width /\ ctype.len # Width + 1
      /\ ctype.len <= Width + 1
  BY <1>1, Pow2Equation, WidthAssumption
<1>3. meant = TypeOf(ctype)
  <2>1. Layers(ctype) = << >>
    BY <1>2 DEF Layers
  <2>2. ctype.primitive = p /\ << >> \o <<p>> = <<p>>
    BY <1>1
  <2> QED BY <2>1, <2>2 DEF TypeOf
<1>4. meant \in Types /\ Len(meant) = 1 /\ meant[1] = p
  BY DEF Types
<1>5. CTypeFrom[meant] = ctype
  BY <1>4, CTypeFromEquation
<1> QED BY <1>1, <1>2, <1>3, <1>4, <1>5 DEF CInv

\* A layer around a type is its head.
LEMMA WrappedType ==
  ASSUME NEW t \in Types, NEW layer \in Layer
  PROVE  /\ <<layer>> \o t \in Types
         /\ Len(<<layer>> \o t) # 1
         /\ Head(<<layer>> \o t) = layer /\ Tail(<<layer>> \o t) = t
         /\ (<<layer>> \o t)[1] = layer
         /\ \A n \in 1..Len(t) : (<<layer>> \o t)[n + 1] = t[n]
<1> DEFINE s == <<layer>> \o t
<1>1. t \in Seq(Layer \cup Primitive) /\ t # << >> /\ Len(t) \in Nat /\ Len(t) > 0
  BY TypeTails DEF Types
<1>2. <<layer>> \in Seq(Layer \cup Primitive) /\ Len(<<layer>>) = 1 /\ <<layer>>[1] = layer
  OBVIOUS
<1>3. /\ s \in Seq(Layer \cup Primitive) /\ Len(s) = 1 + Len(t)
      /\ \A i \in 1..1 + Len(t) : s[i] = IF i <= 1 THEN layer ELSE t[i - 1]
  BY <1>1, <1>2, ConcatProperties
<1>4. Len(s) # 1 /\ s # << >>
  <2> HIDE DEF s
  <2> QED BY <1>1, <1>3
<1>5. s[1] = layer /\ \A n \in 1..Len(t) : s[n + 1] = t[n]
  <2> HIDE DEF s
  <2>1. 1 \in 1..1 + Len(t)
    BY <1>1
  <2>2. ASSUME NEW n \in 1..Len(t) PROVE s[n + 1] = t[n]
    <3>1. n + 1 \in 1..1 + Len(t) /\ ~(n + 1 <= 1) /\ (n + 1) - 1 = n
      BY <1>1
    <3> QED BY <1>3, <3>1
  <2> QED BY <1>3, <2>1, <2>2
<1>6. Head(s) = layer
  <2> HIDE DEF s
  <2> QED BY <1>3, <1>4, <1>5
<1>7. Tail(s) = t
  <2> DEFINE r == Tail(s)
  <2> HIDE DEF s
  <2>1. /\ r \in Seq(Layer \cup Primitive) /\ Len(r) = Len(s) - 1
        /\ \A i \in 1..Len(r) : r[i] = s[i + 1]
    BY <1>3, <1>4, HeadTailProperties
  <2> HIDE DEF r
  <2>2. Len(r) = Len(t)
    BY <1>1, <1>3, <2>1
  <2>3. \A i \in 1..Len(r) : r[i] = t[i]
    BY <1>5, <2>1, <2>2
  <2>4. r = t
    BY <1>1, <2>1, <2>2, <2>3, SeqEqual
  <2> QED BY <2>4 DEF r
<1> QED BY <1>3, <1>4, <1>5, <1>6, <1>7 DEF Types

LEMMA StepCInv == CInv /\ [CTypeNext]_ctypeVars => CInv'
<1> SUFFICES ASSUME CInv, [CTypeNext]_ctypeVars PROVE CInv'
  OBVIOUS
<1>1. CASE UNCHANGED ctypeVars
  BY <1>1 DEF ctypeVars, CInv, LayerAt, TypeOf, Layers
<1>2. ASSUME NEW layer \in Layer, CreateType(layer) PROVE CInv'
  <2>1. /\ ctype' = CPush(ctype, layer) /\ meant' = <<layer>> \o meant
        /\ ctype.len \in Nat /\ ctype.len < Width + 1
    BY <1>2, WidthAssumption, MaxLayersAssumption DEF CreateType, CInv, CTypeStruct
  <2>2. /\ ctype.len <= Width /\ ctype \in Compounds /\ ctype.layers < Pow2[ctype.len]
        /\ meant = TypeOf(ctype)
    BY <2>1, WidthAssumption DEF CInv
  <2>3. ctype'.len = ctype.len + 1 /\ ctype'.len <= Width + 1
    BY <2>1, WidthAssumption DEF CPush
  <2>4. meant' \in Types /\ CTypeFrom[meant'] = ctype'
    <3>1. meant \in Types /\ CTypeFrom[meant] = ctype
      BY DEF CInv
    <3> DEFINE t == <<layer>> \o meant
    <3>2. t \in Types /\ Len(t) # 1 /\ Head(t) = layer /\ Tail(t) = meant
      BY <3>1, WrappedType
    <3> HIDE DEF t
    <3>3. CTypeFrom[t] = CPush(CTypeFrom[Tail(t)], Head(t))
      BY <3>2, CTypeFromEquation
    <3>4. t \in Types /\ CTypeFrom[t] = CPush(ctype, layer)
      BY <3>1, <3>2, <3>3
    <3>5. meant' = t /\ ctype' = CPush(ctype, layer)
      BY <2>1 DEF t
    <3> QED BY <3>4, <3>5
  <2>5. CASE ctype.len < Width
    <3>1. ctype' = Pushed(ctype, layer) /\ CanPush(ctype)
      BY <2>1, <2>5 DEF Pushed, CPush, CanPush
    <3>2. ctype' \in Compounds /\ ctype'.layers < Pow2[ctype.len + 1]
      BY <2>2, <3>1, PushFits
    <3>3. meant' = TypeOf(ctype')
      BY <2>1, <2>2, <3>1, PushRepresents
    <3>4. ctype'.len # Width + 1
      BY <2>1, <2>3, <2>5, WidthAssumption
    <3> QED BY <2>3, <2>4, <3>2, <3>3, <3>4, CompoundsAreStructs DEF CInv, LayerAt, TypeOf, Layers
  <2>6. CASE ctype.len = Width
    <3>1. /\ ctype' \in CTypeStruct /\ LayerAt(ctype', 1) = layer
          /\ \A n \in 1..Width - 1 : LayerAt(ctype', n + 1) = LayerAt(ctype, n)
      BY <2>1, <2>2, <2>6, FullPushKeeps
    <3>2. \A n \in 1..Width : meant[n] = LayerAt(ctype, n)
      BY <2>2, <2>6, LayersOf, CompoundsAreStructs
    <3>3. /\ meant'[1] = layer /\ \A n \in 1..Width - 1 : meant'[n + 1] = meant[n]
      <4>1. meant \in Types /\ Len(meant) = Width + 1
        BY <2>2, <2>6, LayersOf, CompoundsAreStructs DEF CInv
      <4>2. \A n \in 1..Width - 1 : n \in 1..Len(meant)
        BY <4>1, WidthAssumption
      <4> QED BY <2>1, <4>1, <4>2, WrappedType
    <3>4. ASSUME NEW n \in 1..Width PROVE LayerAt(ctype', n) = meant'[n]
      <4>1. CASE n = 1
        BY <3>1, <3>3, <4>1
      <4>2. CASE n # 1
        <5>1. n - 1 \in 1..Width - 1 /\ n - 1 \in 1..Width /\ (n - 1) + 1 = n
          BY <4>2, WidthAssumption
        <5> QED BY <3>1, <3>2, <3>3, <5>1
      <4> QED BY <4>1, <4>2
    <3>5. ~(ctype'.len <= Width)
      BY <2>3, <2>6, WidthAssumption
    <3> QED BY <2>3, <2>4, <3>1, <3>4, <3>5 DEF CInv, LayerAt
  <2>7. ctype.len < Width \/ ctype.len = Width
    BY <2>1, <2>2, WidthAssumption
  <2> QED BY <2>5, <2>6, <2>7
<1> QED BY <1>1, <1>2 DEF CTypeNext

\* What a C program wraps is what the engine declares, and what the engine tells
\* C of it is the struct that the program built; in a type of one layer more than
\* the word has bits only the innermost is lost (lib.rs CType::push, From<CType>).
THEOREM TypesAlwaysCrossC == CTypeSpec => []TypesCrossC
<1>1. CTypeSpec => []CInv
  BY InitCInv, StepCInv, PTL DEF CTypeSpec
<1>2. ASSUME CInv PROVE TypesCrossC
  <2>1. ctype \in CTypeStruct /\ TypeFrom[ctype] = TypeOf(ctype) /\ ctype.len \in Nat
    BY <1>2, TypeFromReads DEF CInv, CTypeStruct
  <2>2. ctype.len <= Width => TypeFrom[ctype] = meant /\ CTypeFrom[meant] = ctype
    BY <1>2, <2>1 DEF CInv
  <2>3. ASSUME NEW n \in 1..Width, n <= ctype.len PROVE TypeFrom[ctype][n] = meant[n]
    <3>1. CASE ctype.len <= Width
      BY <2>2, <3>1
    <3>2. CASE ~(ctype.len <= Width)
      <4>1. ctype.len = Width + 1
        BY <1>2, <2>1, <3>2, WidthAssumption DEF CInv
      <4>2. LayerAt(ctype, n) = meant[n]
        BY <1>2, <4>1 DEF CInv
      <4>3. n \in 1..ctype.len
        BY <2>1, <2>3, WidthAssumption
      <4> QED BY <2>1, <4>2, <4>3, LayersOf
    <3> QED BY <3>1, <3>2
  <2> QED BY <2>2, <2>3 DEF TypesCrossC
<1> QED BY <1>1, <1>2, PTL
=============================================================================
