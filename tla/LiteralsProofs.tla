--------------------------- MODULE LiteralsProofs ---------------------------
(***************************************************************************)
(* The literals of the language, for texts of any length, and the set      *)
(* behind a literal list, for every set of integers.                       *)
(*                                                                         *)
(* A search in a set answers whether a range of the list, as it was        *)
(* written, holds the value.  The invariant has three parts.  The merged   *)
(* ranges are in order and apart.  The last of them starts no later than   *)
(* any range still pending, which is what lets one closure on neighbours   *)
(* merge everything.  And the values of the list are those of the merged   *)
(* and the pending ranges.                                                 *)
(*                                                                         *)
(* An integer literal is read from its first digit to its last, and is     *)
(* worth what each digit is at its place.  The loops that read a string    *)
(* are followed from the end of the text: each place from which they read  *)
(* leads to the first quote behind it that may end the string.  For a      *)
(* quoted one this needs the parity of the backslashes before the place:   *)
(* it is even wherever the loop arrives, an escape behind it or not.       *)
(*                                                                         *)
(* The other loops are followed the same way.  A list of integers takes    *)
(* spaces, digits and dots up to the first closing brace.  A path leaves   *)
(* every index outside of a key and with no backslash before it, and has   *)
(* counted one bracket of each kind more than at the index before.  Of     *)
(* the operators, none that is tried later starts with an earlier one.     *)
(***************************************************************************)
EXTENDS RangeSet, Literals, WellFoundedInduction, SequenceTheorems, TLAPS

Phases == {"lex", "merge", "ready", "search", "answered"}

TypeOK ==
  /\ phase \in Phases
  /\ literal \in Seq(RangeInclusive) /\ pending \in Seq(RangeInclusive) /\ ranges \in Seq(RangeInclusive)
  /\ needle \in Points
  /\ lo \in Int /\ hi \in Int
  /\ found \in BOOLEAN

Apart(s) == \A i, j \in DOMAIN s : i < j => s[i].end < s[j].start
Holds(v, s) == \E i \in DOMAIN s : In(v, s[i])
Covers  == \A v \in Points : Holds(v, literal) <=> Holds(v, ranges) \/ Holds(v, pending)
Ordered ==
  /\ SortedByStart(pending)
  /\ ranges # <<>> => \A i \in DOMAIN pending : Ends(ranges).start <= pending[i].start
InPhase ==
  /\ phase = "lex" => ranges = <<>> /\ pending = <<>>
  /\ phase \in {"ready", "search", "answered"} => pending = <<>>
Searching ==
  phase = "search" =>
    /\ 1 <= lo /\ hi <= Len(ranges) + 1
    /\ \A i \in DOMAIN ranges : In(needle, ranges[i]) => i \in lo..hi - 1
Answered == phase = "answered" => (found <=> Holds(needle, ranges))

IInv ==
  /\ TypeOK
  /\ Apart(ranges) /\ Ordered
  /\ phase # "lex" => Covers
  /\ InPhase /\ Searching /\ Answered

\* A sort keeps the ranges of the list, in an order of their starts.
LEMMA SortKeeps ==
  ASSUME NEW s \in Seq(RangeInclusive), NEW p \in Orders(Len(s)),
         NEW t, t = [i \in 1..Len(s) |-> s[p[i]]]
  PROVE  t \in Seq(RangeInclusive) /\ \A v \in Points : Holds(v, s) <=> Holds(v, t)
<1>1. p \in [1..Len(s) -> 1..Len(s)] /\ \A j \in 1..Len(s) : \E i \in 1..Len(s) : p[i] = j
  BY DEF Orders
<1>2. t \in Seq(RangeInclusive) /\ DOMAIN t = 1..Len(s) /\ DOMAIN s = 1..Len(s)
  BY <1>1
<1>3. \A i \in 1..Len(s) : t[i] = s[p[i]] /\ p[i] \in 1..Len(s)
  BY <1>1
<1>4. \A v \in Points : Holds(v, s) => Holds(v, t)
  BY <1>1, <1>2, <1>3 DEF Holds
<1>5. \A v \in Points : Holds(v, t) => Holds(v, s)
  BY <1>1, <1>2, <1>3 DEF Holds
<1> QED BY <1>2, <1>4, <1>5

\* One step of dedup_by's closure on two ranges that overlap.
LEMMA MergedHolds ==
  ASSUME NEW a \in RangeInclusive, NEW b \in RangeInclusive, a.start <= b.start, Overlaps(b, a)
  PROVE  /\ Merged(b, a) \in RangeInclusive
         /\ Merged(b, a).start = a.start
         /\ \A v \in Points : In(v, Merged(b, a)) <=> In(v, a) \/ In(v, b)
<1>1. a.start \in Int /\ a.end \in Int /\ b.start \in Int /\ b.end \in Int
      /\ a.start <= a.end /\ b.start <= b.end /\ b.start <= a.end
  BY PointsAssumption DEF RangeInclusive, Overlaps
<1>2. \A v \in Points : v \in Int
  BY PointsAssumption
<1>3. CASE b.end > a.end
  <2>1. Merged(b, a) = [start |-> a.start, end |-> b.end]
    BY <1>3 DEF Merged
  <2> QED BY <1>1, <1>2, <1>3, <2>1 DEF In, RangeInclusive
<1>4. CASE ~(b.end > a.end)
  <2>1. Merged(b, a) = a
    BY <1>4 DEF Merged
  <2> QED BY <1>1, <1>2, <1>4, <2>1 DEF In
<1> QED BY <1>3, <1>4

LEMMA InitIInv == RangeInit => IInv
<1> SUFFICES ASSUME RangeInit PROVE IInv
  OBVIOUS
<1>1. /\ phase = "lex" /\ literal = <<>> /\ pending = <<>> /\ ranges = <<>>
      /\ needle \in Points /\ lo = 1 /\ hi = 1 /\ found = FALSE
  BY DEF RangeInit
<1>2. TypeOK
  <2>1. <<>> \in Seq(RangeInclusive)
    OBVIOUS
  <2>2. phase \in Phases
    BY <1>1 DEF Phases
  <2>3. lo \in Int /\ hi \in Int
    BY <1>1
  <2>4. found \in BOOLEAN
    BY <1>1
  <2> QED BY <1>1, <2>1, <2>2, <2>3, <2>4 DEF TypeOK
<1>3. Apart(ranges) /\ Ordered
  BY <1>1 DEF Apart, Ordered, SortedByStart
<1>4. InPhase /\ Searching /\ Answered
  BY <1>1 DEF InPhase, Searching, Answered
<1> QED BY <1>1, <1>2, <1>3, <1>4 DEF IInv

LEMMA StepIInv == IInv /\ [RangeNext]_rangeVars => IInv'
<1> SUFFICES ASSUME IInv, [RangeNext]_rangeVars PROVE IInv'
  OBVIOUS
<1> USE DEF IInv
<1>1. ASSUME NEW r \in RangeInclusive, LexRange(r) PROVE IInv'
  BY <1>1 DEF LexRange, TypeOK, Phases, Apart, Ordered, SortedByStart, InPhase, Searching, Answered
<1>2. CASE Sort
  <2>1. PICK p \in Orders(Len(literal)) :
          pending' = [i \in 1..Len(literal) |-> literal[p[i]]]
    BY <1>2 DEF Sort
  <2>2. pending' \in Seq(RangeInclusive) /\ \A v \in Points : Holds(v, literal) <=> Holds(v, pending')
    <3>1. literal \in Seq(RangeInclusive)
      BY DEF TypeOK
    <3> HIDE DEF IInv
    <3> QED BY <2>1, <3>1, SortKeeps
  <2>3. phase' = "merge" /\ ranges = <<>> /\ ranges' = <<>> /\ literal' = literal
        /\ SortedByStart(pending') /\ UNCHANGED <<needle, lo, hi, found>>
    BY <1>2 DEF Sort, InPhase
  <2>4. \A v : ~Holds(v, ranges')
    BY <2>3 DEF Holds
  <2>5. Covers'
    BY <2>2, <2>3, <2>4 DEF Covers
  <2>6. TypeOK' /\ Apart(ranges)' /\ Ordered' /\ InPhase' /\ Searching' /\ Answered'
    BY <2>2, <2>3 DEF TypeOK, Phases, Apart, Ordered, SortedByStart, InPhase, Searching, Answered
  <2> QED BY <2>5, <2>6
<1>3. CASE MergeNext
  <2> DEFINE b == Head(pending)
             a == Ends(ranges)
             n == Len(ranges)
  <2>1. /\ phase = "merge" /\ phase' = "merge" /\ pending # <<>>
        /\ pending' = Tail(pending)
        /\ UNCHANGED <<literal, needle, lo, hi, found>>
    BY <1>3 DEF MergeNext
  <2>2. /\ b \in RangeInclusive /\ pending' \in Seq(RangeInclusive) /\ n \in Nat
        /\ DOMAIN ranges = 1..n
        /\ b = pending[1] /\ 1 \in DOMAIN pending
        /\ DOMAIN pending' = 1..Len(pending) - 1
        /\ \A i \in DOMAIN pending' : pending'[i] = pending[i + 1] /\ i + 1 \in DOMAIN pending
    BY <2>1 DEF TypeOK
  <2>3. \A i \in DOMAIN pending' : b.start <= pending'[i].start
    <3>1. \A i \in DOMAIN pending' : 1 < i + 1
      BY <2>2
    <3> QED BY <2>2, <3>1 DEF Ordered, SortedByStart
  <2>4. SortedByStart(pending')
    <3>1. ASSUME NEW i \in DOMAIN pending', NEW j \in DOMAIN pending', i < j
          PROVE  pending'[i].start <= pending'[j].start
      <4>1. i + 1 < j + 1
        BY <2>2, <3>1
      <4> QED BY <2>2, <4>1 DEF Ordered, SortedByStart
    <3> QED BY <3>1 DEF SortedByStart
  <2>5. \A v \in Points : Holds(v, pending) <=> In(v, b) \/ Holds(v, pending')
    <3>1. ASSUME NEW v \in Points, Holds(v, pending) PROVE In(v, b) \/ Holds(v, pending')
      <4>1. PICK i \in DOMAIN pending : In(v, pending[i])
        BY <3>1 DEF Holds
      <4>2. CASE i = 1
        BY <4>1, <4>2, <2>2
      <4>3. CASE i # 1
        <5>1. i - 1 \in DOMAIN pending' /\ (i - 1) + 1 = i
          BY <2>2, <4>3 DEF TypeOK
        <5> QED BY <2>2, <4>1, <5>1 DEF Holds
      <4> QED BY <4>2, <4>3
    <3>2. ASSUME NEW v \in Points, In(v, b) \/ Holds(v, pending') PROVE Holds(v, pending)
      BY <3>2, <2>2 DEF Holds
    <3> QED BY <3>1, <3>2
  <2>6. CASE ranges # <<>> /\ Overlaps(b, a)
    <3>1. /\ n \in 1..n /\ a = ranges[n] /\ a \in RangeInclusive
          /\ ranges' = [ranges EXCEPT ![n] = Merged(b, a)]
      BY <1>3, <2>2, <2>6 DEF MergeNext, Ends, TypeOK
    <3>2. a.start <= b.start
      BY <2>2, <2>6 DEF Ordered
    <3>3. /\ Merged(b, a) \in RangeInclusive /\ Merged(b, a).start = a.start
          /\ \A v \in Points : In(v, Merged(b, a)) <=> In(v, a) \/ In(v, b)
      BY <2>2, <2>6, <3>1, <3>2, MergedHolds
    <3>4. /\ ranges' \in Seq(RangeInclusive) /\ Len(ranges') = n /\ DOMAIN ranges' = 1..n
          /\ ranges'[n] = Merged(b, a)
          /\ \A i \in 1..n : i # n => ranges'[i] = ranges[i]
      BY <2>2, <3>1, <3>3 DEF TypeOK
    <3>5. Apart(ranges')
      <4>1. ASSUME NEW i \in 1..n, NEW j \in 1..n, i < j
            PROVE  ranges'[i].end < ranges'[j].start
        <5>1. i # n /\ ranges'[j].start = ranges[j].start
          BY <4>1, <2>2, <3>1, <3>3, <3>4
        <5> QED BY <4>1, <5>1, <3>4, <2>2 DEF Apart
      <4> QED BY <4>1, <3>4 DEF Apart
    <3>6. Ordered'
      <4>1. ranges' # <<>> /\ Ends(ranges').start = a.start
        BY <2>6, <3>3, <3>4, <2>2, <3>1 DEF Ends
      <4>2. \A i \in DOMAIN pending' : a.start <= pending'[i].start
        BY <2>2, <2>6 DEF Ordered
      <4> QED BY <2>4, <4>1, <4>2 DEF Ordered
    <3>7. \A v \in Points : Holds(v, ranges') <=> Holds(v, ranges) \/ In(v, b)
      <4>1. ASSUME NEW v \in Points, Holds(v, ranges') PROVE Holds(v, ranges) \/ In(v, b)
        BY <4>1, <2>2, <3>1, <3>3, <3>4 DEF Holds
      <4>2. ASSUME NEW v \in Points, Holds(v, ranges) PROVE Holds(v, ranges')
        BY <4>2, <2>2, <3>1, <3>3, <3>4 DEF Holds
      <4>3. ASSUME NEW v \in Points, In(v, b) PROVE Holds(v, ranges')
        BY <4>3, <2>2, <3>1, <3>3, <3>4 DEF Holds
      <4> QED BY <4>1, <4>2, <4>3
    <3>8. Covers'
      BY <2>1, <2>5, <3>7 DEF Covers
    <3>9. TypeOK' /\ InPhase' /\ Searching' /\ Answered'
      BY <2>1, <2>2, <3>4 DEF TypeOK, Phases, InPhase, Searching, Answered
    <3> QED BY <3>5, <3>6, <3>8, <3>9
  <2>7. CASE ~(ranges # <<>> /\ Overlaps(b, a))
    <3>1. ranges' = Append(ranges, b)
      BY <1>3, <2>7 DEF MergeNext
    <3>2. /\ ranges' \in Seq(RangeInclusive) /\ Len(ranges') = n + 1 /\ DOMAIN ranges' = 1..n + 1
          /\ ranges'[n + 1] = b /\ \A i \in 1..n : ranges'[i] = ranges[i]
      BY <2>2, <3>1 DEF TypeOK
    <3>3. \A i \in 1..n : ranges[i].end < b.start
      <4>1. ASSUME NEW i \in 1..n PROVE ranges[i].end < b.start
        <5>1. n \in 1..n /\ a = ranges[n] /\ ranges # <<>>
          BY <2>2, <4>1 DEF Ends
        <5>2. a.end < b.start
          <6>1. a \in RangeInclusive /\ ~Overlaps(b, a)
            BY <5>1, <2>2, <2>7 DEF TypeOK
          <6>2. a.end \in Int /\ b.start \in Int
            BY <6>1, <2>2, PointsAssumption DEF RangeInclusive
          <6> QED BY <6>1, <6>2 DEF Overlaps
        <5>3. CASE i = n
          BY <5>1, <5>2, <5>3
        <5>4. CASE i # n
          <6> HIDE DEF n
          <6>1. i < n
            <7>1. n \in Nat
              BY <2>2
            <7> QED BY <4>1, <5>4, <7>1
          <6>2. ranges[i].end < a.start
            BY <2>2, <4>1, <5>1, <6>1 DEF Apart
          <6>3. ranges[i] \in RangeInclusive /\ a \in RangeInclusive
            BY <2>2, <4>1, <5>1 DEF TypeOK
          <6>4. ranges[i].end \in Int /\ a.start \in Int /\ a.end \in Int /\ b.start \in Int
                /\ a.start <= a.end
            BY <6>3, <2>2, PointsAssumption DEF RangeInclusive
          <6> QED BY <5>2, <6>2, <6>4
        <5> QED BY <5>3, <5>4
      <4> QED BY <4>1
    <3>4. Apart(ranges')
      <4>1. ASSUME NEW i \in 1..n + 1, NEW j \in 1..n + 1, i < j
            PROVE  ranges'[i].end < ranges'[j].start
        <5>1. i \in 1..n
          BY <2>2, <4>1
        <5>2. CASE j = n + 1
          BY <3>2, <3>3, <5>1, <5>2
        <5>3. CASE j # n + 1
          <6>1. j \in 1..n
            BY <2>2, <5>3
          <6> QED BY <4>1, <5>1, <6>1, <3>2, <2>2 DEF Apart
        <5> QED BY <5>2, <5>3
      <4> QED BY <4>1, <3>2 DEF Apart
    <3>5. Ordered'
      <4>1. Ends(ranges') = b
        BY <3>2, <2>2 DEF Ends
      <4> QED BY <2>3, <2>4, <4>1 DEF Ordered
    <3>6. \A v \in Points : Holds(v, ranges') <=> Holds(v, ranges) \/ In(v, b)
      <4>1. ASSUME NEW v \in Points, Holds(v, ranges') PROVE Holds(v, ranges) \/ In(v, b)
        BY <4>1, <2>2, <3>2 DEF Holds
      <4>2. ASSUME NEW v \in Points, Holds(v, ranges) PROVE Holds(v, ranges')
        BY <4>2, <2>2, <3>2 DEF Holds
      <4>3. ASSUME NEW v \in Points, In(v, b) PROVE Holds(v, ranges')
        BY <4>3, <2>2, <3>2 DEF Holds
      <4> QED BY <4>1, <4>2, <4>3
    <3>7. Covers'
      BY <2>1, <2>5, <3>6 DEF Covers
    <3>8. TypeOK' /\ InPhase' /\ Searching' /\ Answered'
      BY <2>1, <2>2, <3>2 DEF TypeOK, Phases, InPhase, Searching, Answered
    <3> QED BY <3>4, <3>5, <3>7, <3>8
  <2> QED BY <2>6, <2>7
<1>4. CASE Ready
  BY <1>4 DEF Ready, TypeOK, Phases, Apart, Ordered, SortedByStart, Ends, Covers, Holds, InPhase,
              Searching, Answered
<1>5. ASSUME NEW v \in Points, SetContains(v) PROVE IInv'
  <2>1. \A i \in DOMAIN ranges : i \in 1..(Len(ranges) + 1) - 1
    BY DEF TypeOK
  <2>2. Len(ranges) \in Nat
    BY DEF TypeOK
  <2>3. phase # "lex" /\ phase' = "search" /\ UNCHANGED <<literal, pending, ranges>>
        /\ needle' = v /\ lo' = 1 /\ hi' = Len(ranges) + 1 /\ found' = FALSE /\ pending = <<>>
    BY <1>5 DEF SetContains, InPhase
  <2>4. Searching'
    BY <2>1, <2>2, <2>3 DEF Searching
  <2>5. Apart(ranges)' /\ Ordered' /\ Covers'
    BY <2>3 DEF Apart, Ordered, SortedByStart, Ends, Covers, Holds
  <2>6. TypeOK'
    <3>1. lo' \in Int /\ hi' \in Int
      BY <2>2, <2>3
    <3>2. needle' \in Points /\ phase' \in Phases /\ found' \in BOOLEAN
      BY <1>5, <2>3 DEF Phases
    <3> QED BY <2>3, <3>1, <3>2 DEF TypeOK
  <2>7. InPhase' /\ Answered'
    BY <2>3 DEF InPhase, Answered
  <2> QED BY <2>4, <2>5, <2>6, <2>7
<1>6. ASSUME NEW mid \in lo..hi - 1, Probe(mid) PROVE IInv'
  <2>1. /\ phase = "search" /\ mid \in DOMAIN ranges /\ mid \in Int /\ lo <= mid /\ mid < hi
        /\ UNCHANGED <<literal, pending, ranges, needle>>
        /\ lo \in Int /\ hi \in Int /\ 1 <= lo /\ hi <= Len(ranges) + 1 /\ pending = <<>>
    BY <1>6 DEF Probe, TypeOK, Searching, InPhase
  <2>2. /\ needle \in Int
        /\ \A i \in DOMAIN ranges : /\ i \in Int
                                    /\ ranges[i].start \in Int /\ ranges[i].end \in Int
                                    /\ ranges[i].start <= ranges[i].end
    <3>1. \A i \in DOMAIN ranges : i \in Int /\ ranges[i] \in RangeInclusive
      BY DEF TypeOK
    <3>2. \A r \in RangeInclusive : r.start \in Int /\ r.end \in Int /\ r.start <= r.end
      BY PointsAssumption DEF RangeInclusive
    <3>3. needle \in Int
      BY PointsAssumption DEF TypeOK
    <3> QED BY <3>1, <3>2, <3>3
  <2>3. /\ \A i \in DOMAIN ranges : i < mid => ranges[i].end < ranges[mid].start
        /\ \A i \in DOMAIN ranges : mid < i => ranges[mid].end < ranges[i].start
    BY <2>1 DEF Apart
  <2>4. CASE ranges[mid].start > needle
    <3>1. hi' = mid /\ UNCHANGED <<phase, lo, found>>
      BY <1>6, <2>4 DEF Probe
    <3>2. ASSUME NEW i \in DOMAIN ranges, In(needle, ranges[i]) PROVE i \in lo..mid - 1
      <4>1. i \in lo..hi - 1
        BY <2>1, <3>2 DEF Searching
      <4>2. ~(i = mid) /\ ~(mid < i)
        BY <2>1, <2>2, <2>3, <2>4, <3>2 DEF In
      <4> QED BY <2>1, <4>1, <4>2
    <3>3. Searching'
      BY <2>1, <3>1, <3>2 DEF Searching
    <3> QED BY <2>1, <3>1, <3>3 DEF TypeOK, Phases, Apart, Ordered, SortedByStart, Ends, Covers,
                                    Holds, InPhase, Answered
  <2>5. CASE ~(ranges[mid].start > needle) /\ ranges[mid].end >= needle
    <3>1. phase' = "answered" /\ found' = TRUE /\ UNCHANGED <<lo, hi>>
      BY <1>6, <2>5 DEF Probe
    <3>2. Holds(needle, ranges)
      BY <2>1, <2>2, <2>5 DEF Holds, In
    <3> QED BY <2>1, <3>1, <3>2 DEF TypeOK, Phases, Apart, Ordered, SortedByStart, Ends, Covers,
                                    Holds, InPhase, Searching, Answered
  <2>6. CASE ~(ranges[mid].start > needle) /\ ~(ranges[mid].end >= needle)
    <3>1. lo' = mid + 1 /\ UNCHANGED <<phase, hi, found>>
      BY <1>6, <2>6 DEF Probe
    <3>2. ASSUME NEW i \in DOMAIN ranges, In(needle, ranges[i]) PROVE i \in mid + 1..hi - 1
      <4>1. i \in lo..hi - 1
        BY <2>1, <3>2 DEF Searching
      <4>2. ~(i = mid) /\ ~(i < mid)
        BY <2>1, <2>2, <2>3, <2>6, <3>2 DEF In
      <4> QED BY <2>1, <4>1, <4>2
    <3>3. Searching'
      BY <2>1, <3>1, <3>2 DEF Searching
    <3> QED BY <2>1, <3>1, <3>3 DEF TypeOK, Phases, Apart, Ordered, SortedByStart, Ends, Covers,
                                    Holds, InPhase, Answered
  <2> QED BY <2>4, <2>5, <2>6
<1>7. CASE NotFound
  <2>1. ~Holds(needle, ranges)
    BY <1>7 DEF NotFound, Searching, Holds, TypeOK
  <2> QED BY <1>7, <2>1 DEF NotFound, TypeOK, Phases, Apart, Ordered, SortedByStart, Ends, Covers,
                            Holds, InPhase, Searching, Answered
<1>8. CASE UNCHANGED rangeVars
  BY <1>8 DEF rangeVars, TypeOK, Phases, Apart, Ordered, SortedByStart, Ends, Covers, Holds,
              InPhase, Searching, Answered
<1> QED BY <1>1, <1>2, <1>3, <1>4, <1>5, <1>6, <1>7, <1>8 DEF RangeNext

THEOREM IInvHolds == RangeSpec => []IInv
BY InitIInv, StepIInv, PTL DEF RangeSpec

\* The merged ranges are in order and apart, and hold with the pending ones the
\* values of the literal list (range_set.rs From<Vec>).
THEOREM RangesCover == RangeSpec => []RangesCoverLiteral
<1>1. IInv => RangesCoverLiteral
  BY DEF IInv, RangesCoverLiteral, Apart, Covers, Holds
<1> QED BY <1>1, IInvHolds, PTL

\* A search never discards the part that holds its needle (range_set.rs contains).
THEOREM NeedleIsKept == RangeSpec => []SearchKeepsNeedle
<1>1. IInv => SearchKeepsNeedle
  BY DEF IInv, Searching, SearchKeepsNeedle
<1> QED BY <1>1, IInvHolds, PTL

\* contains answers whether a range of the list, as it was written, holds the
\* value, whatever the list, the sort's order of equal starts and the elements
\* the search looks at.
THEOREM ContainsIsMembership == RangeSpec => []SearchAnswers
<1>1. IInv => SearchAnswers
  <2>1. SUFFICES ASSUME IInv, phase = "answered"
                 PROVE  found <=> Holds(needle, literal)
    BY DEF SearchAnswers, Holds
  <2>2. ~Holds(needle, pending)
    BY <2>1 DEF IInv, InPhase, Holds
  <2>3. Holds(needle, literal) <=> Holds(needle, ranges)
    BY <2>1, <2>2 DEF IInv, Covers, TypeOK
  <2> QED BY <2>1, <2>3 DEF IInv, Answered
<1> QED BY <1>1, IInvHolds, PTL

-----------------------------------------------------------------------------
\* Induction by a least counterexample.
Smaller == {pair \in Nat \X Nat : pair[1] < pair[2]}

LEMMA LeastNumber ==
  ASSUME NEW S \in SUBSET Nat, S # {}
  PROVE  \E least \in S : \A n \in S : least <= n
<1>1. IsWellFoundedOn(Smaller, Nat)
  BY NatLessThanWellFounded DEF OpToRel, Smaller
<1>2. PICK least \in S : \A n \in S : <<n, least>> \notin Smaller
  BY <1>1, WFMin
<1>3. ASSUME NEW n \in S PROVE least <= n
  <2>1. n \in Nat /\ least \in Nat /\ <<n, least>> \notin Smaller
    BY <1>2
  <2> QED BY <2>1 DEF Smaller
<1> QED BY <1>2, <1>3

LEMMA MinIsLeast ==
  ASSUME NEW S \in SUBSET Nat, S # {}
  PROVE  Min(S) \in S /\ \A n \in S : Min(S) <= n
  BY LeastNumber DEF Min

-----------------------------------------------------------------------------
\* The longest prefix of characters that are in a set.
RunIn(s, T) ==
  LET outside == {i \in 1..Len(s) : s[i] \notin T}
  IN  IF outside # {} THEN Min(outside) - 1 ELSE Len(s)
IsRun(s, T, n) ==
  /\ n \in 0..Len(s)
  /\ \A i \in 1..n : s[i] \in T
  /\ n = Len(s) \/ s[n + 1] \notin T

LEMMA RunInIsRun ==
  ASSUME NEW C, NEW s \in Seq(C), NEW T
  PROVE  IsRun(s, T, RunIn(s, T))
<1> DEFINE outside == {i \in 1..Len(s) : s[i] \notin T}
<1>1. CASE outside = {}
  <2>1. RunIn(s, T) = Len(s)
    BY <1>1 DEF RunIn
  <2> QED BY <1>1, <2>1 DEF IsRun
<1>2. CASE outside # {}
  <2>1. PICK m : m = Min(outside)
    OBVIOUS
  <2>2. m \in outside /\ \A n \in outside : m <= n
    <3>1. outside \in SUBSET Nat
      OBVIOUS
    <3> HIDE DEF outside
    <3> QED BY <1>2, <2>1, <3>1, MinIsLeast
  <2>3. RunIn(s, T) = m - 1
    BY <1>2, <2>1 DEF RunIn
  <2> QED BY <2>2, <2>3 DEF IsRun
<1> QED BY <1>1, <1>2

\* There is one such prefix.
LEMMA RunIsUnique ==
  ASSUME NEW C, NEW s \in Seq(C), NEW T, NEW m, IsRun(s, T, m), NEW n, IsRun(s, T, n)
  PROVE  m = n
<1>1. m \in Int /\ n \in Int /\ Len(s) \in Nat
  BY DEF IsRun
<1>2. ~(m < n)
  BY DEF IsRun
<1>3. ~(n < m)
  BY DEF IsRun
<1> QED BY <1>1, <1>2, <1>3

\* take_while over the digits, and over the hashes, is such a prefix.
LEMMA HexRun ==
  ASSUME NEW C, NEW s \in Seq(C)
  PROVE  Run(s, IsHexDigit) = RunIn(s, DOMAIN Digit)
<1> DEFINE outside == {i \in 1..Len(s) : s[i] \notin DOMAIN Digit}
<1>1. outside # {} => Min(outside) # 0
  <2>1. outside \in SUBSET Nat /\ 0 \notin outside
    OBVIOUS
  <2> HIDE DEF outside
  <2> QED BY <2>1, MinIsLeast
<1>2. Run(s, IsHexDigit) = RunUpTo(IF outside # {} THEN Min(outside) ELSE 0, s)
  BY DEF Run, SelectInSeq, IsHexDigit
<1> QED BY <1>1, <1>2 DEF RunUpTo, RunIn

LEMMA HashRun ==
  ASSUME NEW C, NEW s \in Seq(C)
  PROVE  Run(s, IsHash) = RunIn(s, {"#"})
<1> DEFINE outside == {i \in 1..Len(s) : s[i] \notin {"#"}}
<1>1. outside # {} => Min(outside) # 0
  <2>1. outside \in SUBSET Nat /\ 0 \notin outside
    OBVIOUS
  <2> HIDE DEF outside
  <2> QED BY <2>1, MinIsLeast
<1>2. Run(s, IsHash) = RunUpTo(IF outside # {} THEN Min(outside) ELSE 0, s)
  <2>1. outside = {i \in 1..Len(s) : ~(s[i] = "#")}
    OBVIOUS
  <2> HIDE DEF outside
  <2> QED BY <2>1 DEF Run, SelectInSeq, IsHash
<1> QED BY <1>1, <1>2 DEF RunUpTo, RunIn

LEMMA DigitRange ==
  ASSUME NEW c, IsHexDigit(c)
  PROVE  Digit[c] \in 0..15
  BY DEF IsHexDigit, Digit

-----------------------------------------------------------------------------
\* A function over an interval that is defined step by step exists.
Iterations(S, c, step, n) ==
  {f \in [0..n -> S] : f[0] = c /\ \A i \in 1..n : f[i] = step[i][f[i - 1]]}

LEMMA IterationExists ==
  ASSUME NEW S, NEW c \in S, NEW m \in Nat, NEW step \in [1..m -> [S -> S]]
  PROVE  Iterations(S, c, step, m) # {}
<1> DEFINE Bad == {n \in 0..m : Iterations(S, c, step, n) = {}}
<1> SUFFICES ASSUME Bad # {} PROVE FALSE
  OBVIOUS
<1>1. PICK x \in Bad : \A n \in Bad : x <= n
  <2>1. Bad \in SUBSET Nat
    OBVIOUS
  <2> HIDE DEF Bad
  <2> QED BY <2>1, LeastNumber
<1>2. x # 0
  <2>1. [i \in 0..0 |-> c] \in Iterations(S, c, step, 0)
    BY DEF Iterations
  <2> QED BY <1>1, <2>1
<1>3. x \in 1..m /\ x - 1 \in 0..m /\ x - 1 \notin Bad
  BY <1>1, <1>2
<1>4. PICK g : g \in Iterations(S, c, step, x - 1)
  BY <1>3
<1> DEFINE f == [i \in 0..x |-> IF i = x THEN step[x][g[x - 1]] ELSE g[i]]
<1>5. /\ g \in [0..x - 1 -> S] /\ g[0] = c
      /\ \A i \in 1..x - 1 : g[i] = step[i][g[i - 1]]
  BY <1>4 DEF Iterations
<1>6. step[x][g[x - 1]] \in S
  BY <1>3, <1>5
<1>7. f \in [0..x -> S] /\ f[0] = c
  BY <1>3, <1>5, <1>6
<1>8. ASSUME NEW i \in 1..x PROVE f[i] = step[i][f[i - 1]]
  BY <1>3, <1>5
<1>9. f \in Iterations(S, c, step, x)
  BY <1>7, <1>8 DEF Iterations
<1> QED BY <1>1, <1>9

\* Two functions that start alike and go on alike are alike.
Follows(g, S, c, step, k) ==
  g[0] = c /\ \A i \in 1..k : g[i - 1] \in S => g[i] = step[i][g[i - 1]]

LEMMA IterationIsUnique ==
  ASSUME NEW S, NEW c, NEW m \in Nat, NEW step, NEW f \in Iterations(S, c, step, m),
         NEW g, NEW k \in 0..m, Follows(g, S, c, step, k)
  PROVE  \A i \in 0..k : g[i] = f[i]
<1> DEFINE Bad == {i \in 0..k : g[i] # f[i]}
<1>1. ASSUME Bad # {} PROVE FALSE
  <2>1. PICK x \in Bad : \A n \in Bad : x <= n
    <3>1. Bad \in SUBSET Nat
      OBVIOUS
    <3>2. Bad # {}
      BY <1>1
    <3> HIDE DEF Bad
    <3> QED BY <3>1, <3>2, LeastNumber
  <2>2. f \in [0..m -> S] /\ f[0] = c /\ \A i \in 1..m : f[i] = step[i][f[i - 1]]
    BY DEF Iterations
  <2>3. x \in 1..k /\ x - 1 \in 0..m /\ x - 1 \in 0..k /\ x \in 1..m /\ x - 1 \notin Bad
    BY <2>1, <2>2 DEF Follows
  <2>4. g[x - 1] = f[x - 1] /\ f[x - 1] \in S
    BY <2>2, <2>3
  <2>5. g[x] = step[x][g[x - 1]] /\ f[x] = step[x][f[x - 1]]
    BY <2>2, <2>3, <2>4 DEF Follows
  <2> QED BY <2>1, <2>4, <2>5
<1> QED BY <1>1

\* A number from its digits, from the first to the last.
IsUpto(f, digits, radix) ==
  f = [n \in 0..Len(digits) |->
         IF n = 0 THEN 0 ELSE f[n - 1] * radix + Digit[digits[n]]]
Uptos(digits, radix, N, upto) ==
  /\ upto \in [0..N -> Int] /\ upto[0] = 0
  /\ \A n \in 1..N : upto[n] = upto[n - 1] * radix + Digit[digits[n]]

\* Number, Power and Weighted as what their recursive functions hold.
LEMMA NumberEquation ==
  ASSUME NEW digits, NEW N \in Nat, Len(digits) = N, NEW radix \in Nat,
         \A n \in 1..N : Digit[digits[n]] \in Nat
  PROVE  \E upto : Uptos(digits, radix, N, upto) /\ Number(digits, radix) = upto[N]
<1> DEFINE step == [i \in 1..N |-> [x \in Int |-> x * radix + Digit[digits[i]]]]
           Chosen == CHOOSE f : IsUpto(f, digits, radix)
<1>1. step \in [1..N -> [Int -> Int]]
  OBVIOUS
<1>2. \A i \in 1..N : \A x \in Int : step[i][x] = x * radix + Digit[digits[i]]
  OBVIOUS
<1> HIDE DEF step
<1>3. PICK zero \in Int : zero = 0
  OBVIOUS
<1>4. PICK f : f \in Iterations(Int, zero, step, N)
  <2>1. Iterations(Int, zero, step, N) # {}
    BY <1>1, IterationExists, Zenon
  <2> QED BY <2>1
<1>5. f \in [0..N -> Int] /\ f[0] = 0 /\ \A i \in 1..N : f[i] = step[i][f[i - 1]]
  BY <1>4, <1>3 DEF Iterations
<1>6. \A i \in 1..N : i \in 0..N /\ i # 0 /\ f[i - 1] \in Int
  BY <1>5
<1>7. \A n \in 1..N : f[n] = f[n - 1] * radix + Digit[digits[n]]
  BY <1>2, <1>5, <1>6
<1>8. IsUpto(f, digits, radix)
  <2>1. f = [n \in 0..N |-> f[n]]
    BY <1>5
  <2>2. \A n \in 0..N : f[n] = IF n = 0 THEN 0 ELSE f[n - 1] * radix + Digit[digits[n]]
    BY <1>5, <1>7
  <2> QED BY <2>1, <2>2 DEF IsUpto
<1>9. IsUpto(Chosen, digits, radix)
  BY <1>8
<1>10. Number(digits, radix) = Chosen[N]
  BY DEF Number, IsUpto
<1> HIDE DEF Chosen
<1>11. PICK h : h = Chosen
  OBVIOUS
<1>12. IsUpto(h, digits, radix) /\ Number(digits, radix) = h[N]
  BY <1>11, <1>9, <1>10
<1>13. \A n \in 0..N : h[n] = IF n = 0 THEN 0 ELSE h[n - 1] * radix + Digit[digits[n]]
  BY <1>12 DEF IsUpto
<1>14. \A i \in 1..N : h[i - 1] \in Int => h[i] = step[i][h[i - 1]]
  BY <1>2, <1>13, <1>6
<1>15. N \in 0..N /\ 0 \in 0..N
  OBVIOUS
<1>16. N \in 0..N /\ h[0] = 0
  BY <1>13, <1>15, Zenon
<1>17. Follows(h, Int, zero, step, N)
  BY <1>14, <1>16, <1>3 DEF Follows
<1>18. \A i \in 0..N : h[i] = f[i]
  BY <1>4, <1>16, <1>17, IterationIsUnique
<1>19. Number(digits, radix) = f[N]
  BY <1>12, <1>16, <1>18
<1>20. Uptos(digits, radix, N, f)
  BY <1>5, <1>7 DEF Uptos
<1> QED BY <1>19, <1>20

IsPower(f, radix, n) == f = [i \in 0..n |-> IF i = 0 THEN 1 ELSE radix * f[i - 1]]

LEMMA PowerEquation ==
  ASSUME NEW radix \in Nat, NEW N \in Nat, NEW one \in Int,
         NEW step \in [1..N -> [Int -> Int]],
         \A i \in 1..N : \A x \in Int : step[i][x] = radix * x,
         NEW f \in Iterations(Int, one, step, N), f[0] = 1, NEW m \in 0..N
  PROVE  Power(radix, m) = f[m]
<1> DEFINE Chosen == CHOOSE g : IsPower(g, radix, m)
<1>1. f \in [0..N -> Int] /\ f[0] = 1 /\ \A i \in 1..N : f[i] = step[i][f[i - 1]]
  BY DEF Iterations
<1>2. \A i \in 1..m : i \in 1..N /\ i \in 0..N /\ i - 1 \in 0..N /\ i - 1 \in 0..m /\ i # 0
  OBVIOUS
<1>3. \A i \in 1..m : f[i] = radix * f[i - 1]
  BY <1>1, <1>2
<1> DEFINE p == [i \in 0..m |-> f[i]]
<1>4. p = [n \in 0..m |-> IF n = 0 THEN 1 ELSE radix * p[n - 1]]
  <2>1. ASSUME NEW n \in 0..m PROVE p[n] = IF n = 0 THEN 1 ELSE radix * p[n - 1]
    <3>1. CASE n = 0
      BY <1>1, <3>1
    <3>2. CASE n # 0
      BY <1>2, <1>3, <3>2
    <3> QED BY <3>1, <3>2
  <2> QED BY <2>1
<1>5. IsPower(p, radix, m)
  BY <1>4 DEF IsPower
<1>6. IsPower(Chosen, radix, m)
  BY <1>5
<1>7. Power(radix, m) = Chosen[m]
  BY DEF Power, IsPower
<1> HIDE DEF Chosen
<1>8. PICK h : h = Chosen
  OBVIOUS
<1>9. IsPower(h, radix, m) /\ Power(radix, m) = h[m]
  BY <1>8, <1>6, <1>7
<1>10. \A n \in 0..m : h[n] = IF n = 0 THEN 1 ELSE radix * h[n - 1]
  BY <1>9 DEF IsPower
<1>11. \A i \in 1..m : h[i - 1] \in Int => h[i] = step[i][h[i - 1]]
  <2>1. ASSUME NEW i \in 1..m, h[i - 1] \in Int PROVE h[i] = step[i][h[i - 1]]
    <3>1. h[i] = radix * h[i - 1]
      BY <1>2, <1>10
    <3>2. step[i][h[i - 1]] = radix * h[i - 1]
      BY <1>2, <2>1
    <3> QED BY <3>1, <3>2
  <2> QED BY <2>1
<1>12. m \in 0..m /\ 0 \in 0..m
  OBVIOUS
<1>13. one = 1
  BY DEF Iterations
<1>14. Follows(h, Int, one, step, m)
  BY <1>10, <1>11, <1>12, <1>13 DEF Follows
<1>15. \A i \in 0..m : h[i] = f[i]
  BY <1>14, IterationIsUnique
<1> QED BY <1>9, <1>12, <1>15

LEMMA PowerSteps ==
  ASSUME NEW radix \in Nat, NEW N \in Nat
  PROVE  /\ \A n \in 0..N : Power(radix, n) \in Int
         /\ Power(radix, 0) = 1
         /\ \A n \in 1..N : Power(radix, n) = radix * Power(radix, n - 1)
<1> DEFINE step == [i \in 1..N |-> [x \in Int |-> radix * x]]
<1>1. step \in [1..N -> [Int -> Int]]
  OBVIOUS
<1>2. \A i \in 1..N : \A x \in Int : step[i][x] = radix * x
  OBVIOUS
<1> HIDE DEF step
<1>3. PICK one \in Int : one = 1
  OBVIOUS
<1>4. PICK f : f \in Iterations(Int, one, step, N)
  <2>1. Iterations(Int, one, step, N) # {}
    BY <1>1, IterationExists, Zenon
  <2> QED BY <2>1
<1>5. f \in [0..N -> Int] /\ f[0] = 1 /\ \A i \in 1..N : f[i] = step[i][f[i - 1]]
  BY <1>4, <1>3 DEF Iterations
<1>6. \A m \in 0..N : Power(radix, m) = f[m]
  <2>1. f[0] = 1
    BY <1>5
  <2> QED BY ONLY radix \in Nat, N \in Nat, one \in Int, <1>1, <1>2, <1>4, <2>1, PowerEquation
<1>7. \A n \in 1..N : n \in 0..N /\ n - 1 \in 0..N
  OBVIOUS
<1>8. \A n \in 1..N : f[n] = radix * f[n - 1]
  BY <1>2, <1>5, <1>7
<1>9. 0 \in 0..N
  OBVIOUS
<1> QED BY <1>5, <1>6, <1>7, <1>8, <1>9

IsSum(f, digits, radix) ==
  f = [n \in 0..Len(digits) |->
         IF n = 0 THEN 0
         ELSE f[n - 1] + Digit[digits[n]] * Power(radix, Len(digits) - n)]
Sums(digits, radix, N, sum) ==
  /\ sum \in [0..N -> Int] /\ sum[0] = 0
  /\ \A n \in 1..N : sum[n] = sum[n - 1] + Digit[digits[n]] * Power(radix, N - n)

LEMMA WeightedEquation ==
  ASSUME NEW digits, NEW N \in Nat, Len(digits) = N, NEW radix \in Nat,
         \A n \in 1..N : Digit[digits[n]] \in Nat
  PROVE  \E sum : Sums(digits, radix, N, sum) /\ Weighted(digits, radix) = sum[N]
<1> DEFINE worth == [i \in 1..N |-> Digit[digits[i]] * Power(radix, N - i)]
           step == [i \in 1..N |-> [x \in Int |-> x + worth[i]]]
           Chosen == CHOOSE f : IsSum(f, digits, radix)
<1>1. \A i \in 1..N : worth[i] \in Int /\ worth[i] = Digit[digits[i]] * Power(radix, N - i)
  <2>1. ASSUME NEW i \in 1..N PROVE worth[i] \in Int
    <3>1. N - i \in 0..N
      OBVIOUS
    <3>2. Power(radix, N - i) \in Int
      BY <3>1, PowerSteps, Zenon
    <3> QED BY <3>2
  <2> QED BY <2>1
<1> HIDE DEF worth
<1>2. step \in [1..N -> [Int -> Int]]
  BY <1>1
<1>3. \A i \in 1..N : \A x \in Int : step[i][x] = x + worth[i]
  OBVIOUS
<1> HIDE DEF step
<1>4. PICK zero \in Int : zero = 0
  OBVIOUS
<1>5. PICK f : f \in Iterations(Int, zero, step, N)
  <2>1. Iterations(Int, zero, step, N) # {}
    BY <1>2, IterationExists, Zenon
  <2> QED BY <2>1
<1>6. f \in [0..N -> Int] /\ f[0] = 0 /\ \A i \in 1..N : f[i] = step[i][f[i - 1]]
  BY <1>5, <1>4 DEF Iterations
<1>7. \A i \in 1..N : i \in 0..N /\ i # 0 /\ f[i - 1] \in Int
  BY <1>6
<1>8. \A n \in 1..N : f[n] = f[n - 1] + worth[n]
  BY <1>3, <1>6, <1>7
<1>9. IsSum(f, digits, radix)
  <2>1. f = [n \in 0..N |-> f[n]]
    BY <1>6
  <2>2. \A n \in 0..N : f[n] = IF n = 0 THEN 0 ELSE f[n - 1] + Digit[digits[n]] * Power(radix, N - n)
    BY <1>1, <1>6, <1>8
  <2> QED BY <2>1, <2>2 DEF IsSum
<1>10. IsSum(Chosen, digits, radix)
  BY <1>9
<1>11. Weighted(digits, radix) = Chosen[N]
  BY DEF Weighted, IsSum
<1> HIDE DEF Chosen
<1>12. PICK h : h = Chosen
  OBVIOUS
<1>13. IsSum(h, digits, radix) /\ Weighted(digits, radix) = h[N]
  BY <1>12, <1>10, <1>11
<1>14. \A n \in 0..N : h[n] = IF n = 0 THEN 0 ELSE h[n - 1] + Digit[digits[n]] * Power(radix, N - n)
  BY <1>13 DEF IsSum
<1>15. \A i \in 1..N : h[i - 1] \in Int => h[i] = step[i][h[i - 1]]
  <2>1. ASSUME NEW i \in 1..N, h[i - 1] \in Int PROVE h[i] = step[i][h[i - 1]]
    <3>1. h[i] = h[i - 1] + worth[i]
      BY <1>1, <1>14, <1>7
    <3>2. step[i][h[i - 1]] = h[i - 1] + worth[i]
      BY <1>3, <2>1
    <3> QED BY <3>1, <3>2
  <2> QED BY <2>1
<1>16. N \in 0..N /\ 0 \in 0..N
  OBVIOUS
<1>17. N \in 0..N /\ h[0] = 0
  BY <1>14, <1>16, Zenon
<1>18. Follows(h, Int, zero, step, N)
  BY <1>15, <1>17, <1>4 DEF Follows
<1>19. \A i \in 0..N : h[i] = f[i]
  BY <1>5, <1>17, <1>18, IterationIsUnique
<1>20. Weighted(digits, radix) = f[N]
  BY <1>13, <1>17, <1>19
<1>21. Sums(digits, radix, N, f)
  BY <1>1, <1>6, <1>8 DEF Sums
<1> QED BY <1>20, <1>21

LEMMA Horner ==
  ASSUME NEW a \in Int, NEW r \in Int, NEW d \in Int, NEW p \in Int
  PROVE  (a * r + d) * p = a * (r * p) + d * p
  OBVIOUS

\* The digits from the first to the last are worth what each is at its place.
LEMMA NumberIsWeighted ==
  ASSUME NEW digits, NEW N \in Nat, Len(digits) = N, NEW radix \in Nat,
         \A n \in 1..N : Digit[digits[n]] \in Nat
  PROVE  Number(digits, radix) = Weighted(digits, radix)
<1>1. PICK upto : Uptos(digits, radix, N, upto) /\ Number(digits, radix) = upto[N]
  BY NumberEquation
<1>2. PICK sum : Sums(digits, radix, N, sum) /\ Weighted(digits, radix) = sum[N]
  BY WeightedEquation
<1>3. /\ \A n \in 0..N : Power(radix, n) \in Int
      /\ Power(radix, 0) = 1
      /\ \A n \in 1..N : Power(radix, n) = radix * Power(radix, n - 1)
  BY PowerSteps
<1> DEFINE Bad == {n \in 0..N : upto[n] * Power(radix, N - n) # sum[n]}
<1>4. ASSUME Bad # {} PROVE FALSE
  <2>1. PICK x \in Bad : \A n \in Bad : x <= n
    <3>1. Bad \in SUBSET Nat
      OBVIOUS
    <3>2. Bad # {}
      BY <1>4
    <3> HIDE DEF Bad
    <3> QED BY <3>1, <3>2, LeastNumber
  <2>2. x # 0
    <3>1. upto[0] = 0 /\ sum[0] = 0 /\ N - 0 \in 0..N
      BY <1>1, <1>2 DEF Uptos, Sums
    <3>2. Power(radix, N - 0) \in Int
      BY <1>3, <3>1
    <3> QED BY <2>1, <3>1, <3>2
  <2>3. x \in 1..N /\ x - 1 \in 0..N /\ N - x \in 0..N /\ N - (x - 1) \in 1..N
        /\ (N - (x - 1)) - 1 = N - x /\ x - 1 \notin Bad
    BY <2>1, <2>2
  <2>4. PICK a \in Int, d \in Int, p \in Int :
          /\ a = upto[x - 1] /\ d = Digit[digits[x]] /\ p = Power(radix, N - x)
    <3>1. upto[x - 1] \in Int
      BY <1>1, <2>3 DEF Uptos
    <3>2. Digit[digits[x]] \in Int
      BY <2>3
    <3>3. Power(radix, N - x) \in Int
      BY <1>3, <2>3
    <3> QED BY <3>1, <3>2, <3>3
  <2>5. upto[x] = a * radix + d
    BY <1>1, <2>3, <2>4 DEF Uptos
  <2>6. sum[x] = sum[x - 1] + d * p
    BY <1>2, <2>3, <2>4 DEF Sums
  <2>7. sum[x - 1] = a * Power(radix, N - (x - 1))
    BY <2>3, <2>4
  <2>8. Power(radix, N - (x - 1)) = radix * p
    BY <1>3, <2>3, <2>4
  <2>9. sum[x] = a * (radix * p) + d * p
    BY <2>6, <2>7, <2>8
  <2>10. upto[x] * p = sum[x]
    BY <2>5, <2>9, Horner
  <2> QED BY <2>1, <2>4, <2>10
<1>5. N \in 0..N /\ N - N = 0 /\ upto[N] \in Int
  BY <1>1 DEF Uptos
<1>6. upto[N] * Power(radix, N - N) = sum[N]
  BY <1>4, <1>5
<1> QED BY <1>1, <1>2, <1>3, <1>5, <1>6

-----------------------------------------------------------------------------
\* Parts of a text, and parts of those.
LEMMA SkipIsSeq ==
  ASSUME NEW C, NEW s \in Seq(C), NEW n \in 0..Len(s)
  PROVE  /\ Skip(s, n) \in Seq(C)
         /\ Len(Skip(s, n)) = Len(s) - n
         /\ \A i \in 1..Len(s) - n : Skip(s, n)[i] = s[n + i]
  BY DEF Skip

LEMMA SameElements ==
  ASSUME NEW C, NEW s \in Seq(C), NEW t \in Seq(C), Len(s) = Len(t),
         \A i \in 1..Len(s) : s[i] = t[i]
  PROVE  s = t
  OBVIOUS

LEMMA SkipNothing ==
  ASSUME NEW C, NEW s \in Seq(C)
  PROVE  Skip(s, 0) = s
<1>1. 0 \in 0..Len(s)
  OBVIOUS
<1>2. Skip(s, 0) \in Seq(C) /\ Len(Skip(s, 0)) = Len(s)
      /\ \A i \in 1..Len(s) : Skip(s, 0)[i] = s[i]
  BY <1>1, SkipIsSeq
<1> QED BY <1>2, SameElements

LEMMA SkipTwice ==
  ASSUME NEW C, NEW s \in Seq(C), NEW k \in 0..Len(s), NEW n \in 0..Len(s) - k
  PROVE  Skip(Skip(s, k), n) = Skip(s, k + n)
<1>1. PICK t : t = Skip(s, k)
  OBVIOUS
<1>2. t \in Seq(C) /\ Len(t) = Len(s) - k /\ \A i \in 1..Len(s) - k : t[i] = s[k + i]
  BY <1>1, SkipIsSeq
<1>3. n \in 0..Len(t) /\ k + n \in 0..Len(s)
  BY <1>2
<1>4. Skip(t, n) \in Seq(C) /\ Len(Skip(t, n)) = Len(t) - n
      /\ \A i \in 1..Len(t) - n : Skip(t, n)[i] = t[n + i]
  BY <1>2, <1>3, SkipIsSeq
<1>5. Skip(s, k + n) \in Seq(C) /\ Len(Skip(s, k + n)) = Len(s) - (k + n)
      /\ \A i \in 1..Len(s) - (k + n) : Skip(s, k + n)[i] = s[(k + n) + i]
  BY <1>3, SkipIsSeq
<1>6. Len(Skip(t, n)) = Len(Skip(s, k + n))
  BY <1>2, <1>4, <1>5
<1>7. ASSUME NEW i \in 1..Len(Skip(t, n)) PROVE Skip(t, n)[i] = Skip(s, k + n)[i]
  <2>1. i \in 1..Len(t) - n /\ n + i \in 1..Len(s) - k /\ i \in 1..Len(s) - (k + n)
        /\ k + (n + i) = (k + n) + i
    BY <1>2, <1>4
  <2> QED BY <1>2, <1>4, <1>5, <2>1
<1> QED BY <1>1, <1>4, <1>5, <1>6, <1>7, SameElements

LEMMA SubSeqElements ==
  ASSUME NEW C, NEW s \in Seq(C), NEW a \in 1..Len(s) + 1, NEW b \in a - 1..Len(s)
  PROVE  /\ SubSeq(s, a, b) \in Seq(C)
         /\ Len(SubSeq(s, a, b)) = b - a + 1
         /\ \A i \in 1..b - a + 1 : SubSeq(s, a, b)[i] = s[a - 1 + i]
  OBVIOUS

LEMMA SubSeqOfSkip ==
  ASSUME NEW C, NEW s \in Seq(C), NEW k \in 0..Len(s), NEW n \in 0..Len(s) - k
  PROVE  SubSeq(Skip(s, k), 1, n) = SubSeq(s, k + 1, k + n)
<1>1. PICK t : t = Skip(s, k)
  OBVIOUS
<1>2. t \in Seq(C) /\ Len(t) = Len(s) - k /\ \A i \in 1..Len(s) - k : t[i] = s[k + i]
  BY <1>1, SkipIsSeq
<1>3. PICK u : u = SubSeq(t, 1, n)
  OBVIOUS
<1>4. u \in Seq(C) /\ Len(u) = n /\ \A i \in 1..n : u[i] = t[i]
  BY <1>2, <1>3
<1>5. PICK v : v = SubSeq(s, k + 1, k + n)
  OBVIOUS
<1>6. v \in Seq(C) /\ Len(v) = n /\ \A i \in 1..n : v[i] = s[k + i]
  <2>1. k + 1 \in 1..Len(s) + 1 /\ k + n \in (k + 1) - 1..Len(s)
    OBVIOUS
  <2>2. PICK a \in 1..Len(s) + 1, b \in Int : a = k + 1 /\ b = k + n
    BY <2>1
  <2>3. b \in a - 1..Len(s) /\ v = SubSeq(s, a, b)
    BY <1>5, <2>1, <2>2
  <2>4. /\ v \in Seq(C) /\ Len(v) = b - a + 1
        /\ \A i \in 1..b - a + 1 : v[i] = s[a - 1 + i]
    BY <2>3, SubSeqElements
  <2>5. b - a + 1 = n
    BY <2>2
  <2>6. ASSUME NEW i \in 1..n PROVE v[i] = s[k + i]
    <3>1. a - 1 + i = k + i
      BY <2>2
    <3> QED BY <2>4, <2>5, <3>1
  <2> QED BY <2>4, <2>5, <2>6
<1>7. \A i \in 1..Len(u) : u[i] = v[i]
  <2>1. ASSUME NEW i \in 1..n PROVE u[i] = v[i]
    <3>1. i \in 1..Len(s) - k
      OBVIOUS
    <3> QED BY <1>2, <1>4, <1>6, <3>1
  <2> QED BY <1>4, <2>1
<1> QED BY <1>1, <1>3, <1>4, <1>5, <1>6, <1>7, SameElements

StartingDigits(s, n, digits) ==
  /\ n # 0 /\ IsRun(s, DOMAIN Digit, n)
  /\ digits = SubSeq(s, 1, n)

\* Digits that none follows are read whole, and are worth what each is at its place.
LEMMA RunDigits ==
  ASSUME NEW C, NEW s \in Seq(C), NEW n, NEW digits, StartingDigits(s, n, digits),
         NEW sign \in {1, -1}, NEW radix \in {8, 10, 16}
  PROVE  LexNumber(sign, s, radix) =
           IF /\ \A i \in DOMAIN digits : Digit[digits[i]] < radix
              /\ sign * Weighted(digits, radix) \in MinInt..MaxInt
           THEN Lexed(sign * Weighted(digits, radix), Skip(s, n))
           ELSE LexError
<1>1. Run(s, IsHexDigit) = n
  <2>1. Run(s, IsHexDigit) = RunIn(s, DOMAIN Digit)
    BY HexRun
  <2>2. IsRun(s, DOMAIN Digit, RunIn(s, DOMAIN Digit)) /\ IsRun(s, DOMAIN Digit, n)
    BY RunInIsRun DEF StartingDigits
  <2> QED BY <2>1, <2>2, RunIsUnique
<1>2. LexNumber(sign, s, radix) = LexDigits(sign, digits, Skip(s, n), radix)
  BY <1>1 DEF LexNumber, SplitAt, StartingDigits
<1>3. n \in 0..Len(s) /\ Len(digits) = n /\ \A i \in 1..n : IsHexDigit(digits[i])
  BY DEF IsRun, IsHexDigit, StartingDigits
<1>4. DOMAIN digits = 1..n /\ digits # <<>>
  BY <1>3 DEF StartingDigits
<1>5. IsNumber(digits, radix) <=> \A i \in DOMAIN digits : Digit[digits[i]] < radix
  BY <1>3, <1>4 DEF IsNumber
<1>6. Number(digits, radix) = Weighted(digits, radix)
  <2>1. \A i \in 1..n : Digit[digits[i]] \in Nat
    BY <1>3, DigitRange
  <2>2. n \in Nat /\ Len(digits) = n /\ radix \in Nat
    BY <1>3
  <2> QED BY <2>1, <2>2, NumberIsWeighted
<1> QED BY <1>2, <1>5, <1>6 DEF LexDigits, ParsedNumber

\* The first characters of a text.
LEMMA HexPrefix ==
  ASSUME NEW C, NEW s \in Seq(C)
  PROVE  IsPrefix(<<"0", "x">>, s) <=> Len(s) >= 2 /\ s[1] = "0" /\ s[2] = "x"
  BY DEF IsPrefix

LEMMA StartsWithFirst ==
  ASSUME NEW C, NEW s \in Seq(C), NEW c
  PROVE  StartsWith(s, c) <=> Len(s) >= 1 /\ s[1] = c
<1>1. s # <<>> <=> Len(s) >= 1
  OBVIOUS
<1>2. Head(s) = s[1]
  OBVIOUS
<1> QED BY <1>1, <1>2 DEF StartsWith

\* Digits that none follows, as a prefix of the text that is left before them.
LEMMA WholeIsRun ==
  ASSUME NEW C, NEW s \in Seq(C), NEW end \in 1..Len(s), NEW skip \in 0..end,
         NEW digits, Whole(s, digits, skip, end)
  PROVE  /\ StartingDigits(Skip(s, skip), end - skip, digits)
         /\ Skip(Skip(s, skip), end - skip) = Skip(s, end)
         /\ digits \in Seq(C) /\ Len(digits) = end - skip
         /\ \A i \in 1..end - skip : digits[i] = s[skip + i] /\ IsHexDigit(s[skip + i])
<1>1. PICK n \in 0..Len(s) - skip : n = end - skip
  OBVIOUS
<1>2. skip \in 0..Len(s) /\ skip + n = end
  BY <1>1
<1>3. PICK t : t = Skip(s, skip)
  OBVIOUS
<1>4. t \in Seq(C) /\ Len(t) = Len(s) - skip /\ \A i \in 1..Len(s) - skip : t[i] = s[skip + i]
  BY <1>2, <1>3, SkipIsSeq
<1>5. digits = SubSeq(t, 1, n)
  <2>1. SubSeq(Skip(s, skip), 1, n) = SubSeq(s, skip + 1, skip + n)
    BY <1>2, SubSeqOfSkip
  <2> QED BY <1>2, <1>3, <2>1 DEF Whole
<1>6. digits \in Seq(C) /\ Len(digits) = n /\ \A i \in 1..n : digits[i] = t[i]
  BY <1>2, <1>4, <1>5
<1>7. n # 0 /\ \A i \in 1..n : IsHexDigit(digits[i])
  <2>1. digits # <<>> /\ \A i \in DOMAIN digits : IsHexDigit(digits[i])
    BY DEF Whole
  <2>2. DOMAIN digits = 1..n
    BY <1>6
  <2> QED BY <1>6, <2>1, <2>2
<1>8. n = Len(t) \/ t[n + 1] \notin DOMAIN Digit
  <2>1. CASE end = Len(s)
    BY <1>2, <1>4, <2>1
  <2>2. CASE end # Len(s)
    <3>1. n + 1 \in 1..Len(s) - skip /\ skip + (n + 1) = end + 1
      BY <1>1, <1>2, <2>2
    <3>2. t[n + 1] = s[end + 1]
      BY <1>4, <3>1
    <3> QED BY <2>2, <3>2 DEF Whole, IsHexDigit
  <2> QED BY <2>1, <2>2
<1>9. IsRun(t, DOMAIN Digit, n)
  BY <1>4, <1>6, <1>7, <1>8 DEF IsRun, IsHexDigit
<1>10. Skip(t, n) = Skip(s, end)
  <2>1. Skip(Skip(s, skip), n) = Skip(s, skip + n)
    BY <1>2, SkipTwice
  <2> QED BY <1>2, <1>3, <2>1
<1>11. \A i \in 1..n : digits[i] = s[skip + i] /\ IsHexDigit(s[skip + i])
  <2>1. ASSUME NEW i \in 1..n PROVE digits[i] = s[skip + i] /\ IsHexDigit(s[skip + i])
    <3>1. i \in 1..Len(s) - skip
      OBVIOUS
    <3> QED BY <1>4, <1>6, <1>7, <3>1
  <2> QED BY <2>1
<1> QED BY <1>1, <1>3, <1>5, <1>6, <1>7, <1>9, <1>10, <1>11 DEF StartingDigits

LEMMA PrefixElements ==
  ASSUME NEW C, NEW s \in Seq(C), NEW k \in 0..Len(s), NEW prefix, prefix = SubSeq(s, 1, k)
  PROVE  /\ Len(prefix) = k
         /\ \A i \in 1..k : prefix[i] = s[i]
  OBVIOUS

\* An integer is read in the radix that its first characters announce.
LEMMA IntIsNumber ==
  ASSUME NEW C, NEW s \in Seq(C), NEW end \in 1..Len(s), NEW skip \in 0..2, skip <= end,
         NEW radix \in {8, 10, 16}, NEW sign \in {1, -1},
         NEW digits, Whole(s, digits, skip, end),
         Announces(s, radix, sign, SubSeq(s, 1, skip), digits)
  PROVE  LexInt(s) = LexNumber(sign, Skip(s, skip), radix)
<1>1. PICK prefix : prefix = SubSeq(s, 1, skip)
  OBVIOUS
<1>2. skip \in 0..Len(s) /\ skip \in 0..end /\ Len(s) >= 1
  OBVIOUS
<1>3. Len(prefix) = skip /\ \A i \in 1..skip : prefix[i] = s[i]
  BY <1>1, <1>2, PrefixElements
<1>4. StartingDigits(Skip(s, skip), end - skip, digits)
  BY <1>2, WholeIsRun
<1>5. /\ end - skip # 0 /\ digits \in Seq(C) /\ Len(digits) = end - skip
      /\ \A i \in 1..end - skip : digits[i] = s[skip + i] /\ IsHexDigit(s[skip + i])
  <2>1. end - skip # 0
    BY <1>4 DEF StartingDigits
  <2> QED BY <1>2, <2>1, WholeIsRun
<1>6. 1 \in 1..end - skip
  BY <1>2, <1>5
<1>7. digits[1] = s[skip + 1] /\ IsHexDigit(s[skip + 1]) /\ Len(digits) >= 1
  BY <1>5, <1>6
<1>8. ~IsHexDigit("-")
  BY DEF IsHexDigit, Digit
<1>9. IsPrefix(<<"0", "x">>, s) <=> Len(s) >= 2 /\ s[1] = "0" /\ s[2] = "x"
  BY HexPrefix
<1>10. (StartsWith(s, "0") <=> s[1] = "0") /\ (StartsWith(s, "-") <=> s[1] = "-")
  BY <1>2, StartsWithFirst
<1>11. StartsWith(digits, "0") <=> s[skip + 1] = "0"
  BY <1>5, <1>7, StartsWithFirst
<1>12. CASE radix = 16
  <2>1. prefix = <<"0", "x">> /\ sign = 1
    BY <1>1, <1>12 DEF Announces
  <2>2. skip = 2 /\ s[1] = "0" /\ s[2] = "x"
    BY <1>3, <2>1
  <2>3. Radix(s) = 16
    BY <1>2, <1>9, <1>10, <2>2 DEF Radix
  <2> QED BY <1>12, <2>1, <2>2, <2>3 DEF LexInt, LexInRadix
<1>13. CASE radix = 8
  <2>1. Len(prefix) = 0 /\ sign = 1 /\ StartsWith(digits, "0") /\ ~IsPrefix(<<"0", "x">>, s)
    BY <1>1, <1>13 DEF Announces
  <2>2. skip = 0 /\ s[1] = "0"
    BY <1>3, <1>11, <2>1
  <2>3. Radix(s) = 8 /\ StartsWith(s, "0") /\ ~StartsWith(s, "-")
    BY <1>10, <2>1, <2>2 DEF Radix
  <2>4. Skip(s, skip) = s
    BY <2>2, SkipNothing
  <2> QED BY <1>13, <2>1, <2>3, <2>4 DEF LexInt, LexInRadix
<1>14. CASE radix = 10 /\ sign = 1
  <2>1. Len(prefix) = 0 /\ ~StartsWith(digits, "0")
    BY <1>1, <1>14 DEF Announces
  <2>2. skip = 0 /\ s[1] # "0" /\ s[1] # "-"
    BY <1>3, <1>7, <1>8, <1>11, <2>1
  <2>3. Radix(s) = 10 /\ ~StartsWith(s, "-")
    BY <1>9, <1>10, <2>2 DEF Radix
  <2>4. Skip(s, skip) = s
    BY <2>2, SkipNothing
  <2> QED BY <1>14, <2>3, <2>4 DEF LexInt, LexInRadix
<1>15. CASE radix = 10 /\ sign = -1
  <2>1. prefix = <<"-">>
    BY <1>1, <1>15 DEF Announces
  <2>2. skip = 1 /\ s[1] = "-"
    BY <1>3, <2>1
  <2>3. Radix(s) = 10 /\ StartsWith(s, "-")
    BY <1>9, <1>10, <2>2 DEF Radix
  <2> QED BY <1>15, <2>2, <2>3 DEF LexInt, LexInRadix
<1> QED BY <1>12, <1>13, <1>14, <1>15

\* An integer literal is worth its digits, or is refused.
LEMMA IntIsItsDigits ==
  ASSUME NEW C, NEW s \in Seq(C), NEW radix \in {8, 10, 16}, NEW sign \in {1, -1},
         NEW end \in 1..Len(s), NEW skip \in 0..2, skip <= end, NEW digits,
         Whole(s, digits, skip, end),
         Announces(s, radix, sign, SubSeq(s, 1, skip), digits)
  PROVE  LexInt(s) =
           IF /\ \A i \in DOMAIN digits : Digit[digits[i]] < radix
              /\ sign * Weighted(digits, radix) \in MinInt..MaxInt
           THEN Lexed(sign * Weighted(digits, radix), Skip(s, end))
           ELSE LexError
<1>1. PICK t : t = Skip(s, skip)
  OBVIOUS
<1>2. skip \in 0..end /\ skip \in 0..2 /\ skip <= end /\ skip \in 0..Len(s)
  OBVIOUS
<1>3. t \in Seq(C)
  BY <1>1, <1>2, SkipIsSeq
<1>4. LexInt(s) = LexNumber(sign, t, radix)
  BY <1>1, <1>2, IntIsNumber
<1>5. PICK n : n = end - skip
  OBVIOUS
<1>6. StartingDigits(t, n, digits) /\ Skip(t, n) = Skip(s, end)
  BY <1>1, <1>2, <1>5, WholeIsRun
<1>7. LexNumber(sign, t, radix) =
        IF /\ \A i \in DOMAIN digits : Digit[digits[i]] < radix
           /\ sign * Weighted(digits, radix) \in MinInt..MaxInt
        THEN Lexed(sign * Weighted(digits, radix), Skip(t, n))
        ELSE LexError
  BY <1>3, <1>6, RunDigits
<1> QED BY <1>4, <1>6, <1>7

\* An integer literal is worth its digits in its radix, or is refused.
ReadAs(s, radix, sign, digits, end) ==
  LexInt(s) =
    IF /\ \A i \in DOMAIN digits : Digit[digits[i]] < radix
       /\ sign * Weighted(digits, radix) \in MinInt..MaxInt
    THEN Lexed(sign * Weighted(digits, radix), Skip(s, end))
    ELSE LexError

LEMMA IntHolds ==
  ASSUME NEW C, chars \in Seq(C)
  PROVE  IntsAreTheirDigits
<1>1. ASSUME NEW radix \in {8, 10, 16}, NEW sign \in {1, -1},
             NEW end \in 1..Len(chars), NEW skip \in 0..2, skip <= end, NEW digits,
             Announces(chars, radix, sign, SubSeq(chars, 1, skip), digits),
             Whole(chars, digits, skip, end)
      PROVE  ReadAs(chars, radix, sign, digits, end)
  BY <1>1, IntIsItsDigits DEF ReadAs
<1>2. ASSUME NEW radix \in {8, 10, 16}, NEW sign \in {1, -1}, NEW end \in 1..Len(chars),
             NEW skip \in {n \in 0..2 : n <= end}, NEW digits \in {SubSeq(chars, skip + 1, end)}
      PROVE  /\ Announces(chars, radix, sign, SubSeq(chars, 1, skip), digits)
             /\ Whole(chars, digits, skip, end)
             => LexInt(chars) =
                  IF /\ \A i \in DOMAIN digits : Digit[digits[i]] < radix
                     /\ sign * Weighted(digits, radix) \in MinInt..MaxInt
                  THEN Lexed(sign * Weighted(digits, radix), Skip(chars, end))
                  ELSE LexError
  <2>1. skip \in 0..2 /\ skip <= end
    OBVIOUS
  <2>2. /\ Announces(chars, radix, sign, SubSeq(chars, 1, skip), digits)
        /\ Whole(chars, digits, skip, end)
        => ReadAs(chars, radix, sign, digits, end)
    BY <1>1, <2>1
  <2> QED BY <2>2 DEF ReadAs
<1> QED BY <1>2 DEF IntsAreTheirDigits

LEMMA TailIsSkip ==
  ASSUME NEW C, NEW s \in Seq(C), Len(s) >= 1
  PROVE  Tail(s) = Skip(s, 1)
<1>1. 1 \in 0..Len(s)
  OBVIOUS
<1>2. PICK t : t = Skip(s, 1)
  OBVIOUS
<1>3. t \in Seq(C) /\ Len(t) = Len(s) - 1 /\ \A i \in 1..Len(s) - 1 : t[i] = s[1 + i]
  BY <1>1, <1>2, SkipIsSeq
<1>4. PICK u : u = Tail(s)
  OBVIOUS
<1>5. u \in Seq(C) /\ Len(u) = Len(s) - 1 /\ \A i \in 1..Len(s) - 1 : u[i] = s[i + 1]
  BY <1>4
<1>6. \A i \in 1..Len(u) : u[i] = t[i]
  BY <1>3, <1>5
<1> QED BY <1>2, <1>3, <1>4, <1>5, <1>6, SameElements

LEMMA HashesRun ==
  ASSUME NEW C, NEW s \in Seq(C)
  PROVE  IsRun(s, {"#"}, Run(s, IsHash))
<1>1. Run(s, IsHash) = RunIn(s, {"#"})
  BY HashRun
<1> QED BY <1>1, RunInIsRun

-----------------------------------------------------------------------------
\* A quote at a place of a text that ends a raw string there.
ClosesAt(s, k, hashes) ==
  /\ s[k] = "\"" /\ k + hashes <= Len(s)
  /\ \A i \in k + 1..k + hashes : s[i] = "#"

\* The text that is left at a place: its first character, and the rest.
LEMMA LeftAt ==
  ASSUME NEW C, NEW s \in Seq(C), NEW k \in 1..Len(s)
  PROVE  /\ Skip(s, k - 1) \in Seq(C) /\ Len(Skip(s, k - 1)) = Len(s) - k + 1
         /\ Tail(Skip(s, k - 1)) = Skip(s, k)
         /\ Head(Skip(s, k - 1)) = s[k] /\ Skip(s, k - 1) # <<>>
         /\ \A c : StartsWith(Skip(s, k - 1), c) <=> s[k] = c
<1>1. PICK j \in 0..Len(s) : j = k - 1
  OBVIOUS
<1>2. PICK t : t = Skip(s, j)
  OBVIOUS
<1>3. t \in Seq(C) /\ Len(t) = Len(s) - j /\ \A i \in 1..Len(s) - j : t[i] = s[j + i]
  BY <1>2, SkipIsSeq
<1>4. 1 \in 1..Len(s) - j /\ j + 1 = k /\ Len(s) - j = Len(s) - k + 1 /\ 1 \in 0..Len(s) - j
  BY <1>1
<1>5. Len(t) >= 1 /\ t[1] = s[k] /\ t # <<>> /\ Head(t) = t[1]
  BY <1>3, <1>4
<1>6. Tail(t) = Skip(t, 1)
  BY <1>3, <1>5, TailIsSkip
<1>7. Skip(t, 1) = Skip(s, j + 1)
  BY <1>2, <1>4, SkipTwice
<1>8. \A c : StartsWith(t, c) <=> s[k] = c
  BY <1>5 DEF StartsWith
<1> QED BY <1>1, <1>2, <1>3, <1>4, <1>5, <1>6, <1>7, <1>8

LEMMA TailAt ==
  ASSUME NEW C, NEW s \in Seq(C), NEW k \in 1..Len(s)
  PROVE  Tail(Skip(s, k - 1)) = Skip(s, k)
  BY LeftAt

LEMMA StartAt ==
  ASSUME NEW C, NEW s \in Seq(C), NEW k \in 1..Len(s), NEW c
  PROVE  StartsWith(Skip(s, k - 1), c) <=> s[k] = c
  BY LeftAt

\* What ends a raw string is a quote with enough hashes behind it.
LEMMA ClosesThere ==
  ASSUME NEW C, NEW s \in Seq(C), NEW k \in 1..Len(s), NEW hashes \in Nat
  PROVE  Closes(Skip(s, k - 1), hashes) <=> ClosesAt(s, k, hashes)
<1>1. PICK t : t = Skip(s, k)
  OBVIOUS
<1>2. t \in Seq(C) /\ Len(t) = Len(s) - k /\ \A i \in 1..Len(s) - k : t[i] = s[k + i]
  <2>1. k \in 0..Len(s)
    OBVIOUS
  <2> QED BY <1>1, <2>1, SkipIsSeq
<1>3. PICK n : n = Run(t, IsHash)
  OBVIOUS
<1>4. IsRun(t, {"#"}, n)
  BY <1>2, <1>3, HashesRun
<1>5. Closes(Skip(s, k - 1), hashes) <=> s[k] = "\"" /\ n >= hashes
  <2>1. Tail(Skip(s, k - 1)) = t /\ (StartsWith(Skip(s, k - 1), "\"") <=> s[k] = "\"")
    BY <1>1, TailAt, StartAt
  <2> QED BY <1>3, <2>1 DEF Closes
<1>6. n \in 0..Len(t) /\ (\A i \in 1..n : t[i] = "#") /\ (n = Len(t) \/ t[n + 1] # "#")
  BY <1>4 DEF IsRun
<1>7. ASSUME n >= hashes PROVE k + hashes <= Len(s) /\ \A i \in k + 1..k + hashes : s[i] = "#"
  <2>1. ASSUME NEW i \in k + 1..k + hashes PROVE s[i] = "#"
    <3>1. i - k \in 1..n /\ i - k \in 1..Len(s) - k /\ k + (i - k) = i
      BY <1>2, <1>6, <1>7
    <3> QED BY <1>2, <1>6, <3>1
  <2> QED BY <1>2, <1>6, <1>7, <2>1
<1>8. ASSUME ~(n >= hashes), k + hashes <= Len(s), \A i \in k + 1..k + hashes : s[i] = "#"
      PROVE  FALSE
  <2>1. n + 1 \in 1..Len(s) - k /\ k + (n + 1) \in k + 1..k + hashes /\ n # Len(t)
    BY <1>2, <1>6, <1>8
  <2>2. t[n + 1] = s[k + (n + 1)]
    BY <1>2, <2>1
  <2> QED BY <1>6, <1>8, <2>1, <2>2
<1> QED BY <1>5, <1>7, <1>8 DEF ClosesAt

\* The loop that looks for the end of a raw string, with n characters left.
RawNext(f, s, hashes, n) ==
  IF n = 0 THEN 0
  ELSE IF Closes(LastOf(s, n), hashes) THEN Len(s) - n + 1
  ELSE f[IF StartsWith(LastOf(s, n), "\"") THEN n - 1 - Run(Tail(LastOf(s, n)), IsHash)
         ELSE n - 1]
IsRawEnd(f, s, hashes, m) == f = [n \in 0..m |-> RawNext(f, s, hashes, n)]

\* What is left, and where the loop goes on.
LEMMA RawLeft ==
  ASSUME NEW C, NEW s \in Seq(C), NEW n \in 1..Len(s)
  PROVE  /\ LastOf(s, n) = Skip(s, (Len(s) - n + 1) - 1)
         /\ Len(s) - n + 1 \in 1..Len(s)
  BY DEF LastOf

LEMMA RunAfter ==
  ASSUME NEW C, NEW s \in Seq(C), NEW k \in 1..Len(s), NEW run, run = Run(Skip(s, k), IsHash)
  PROVE  run \in 0..Len(s) - k /\ \A i \in k + 1..k + run : s[i] = "#"
<1>1. PICK t : t = Skip(s, k)
  OBVIOUS
<1>2. t \in Seq(C) /\ Len(t) = Len(s) - k /\ \A i \in 1..Len(s) - k : t[i] = s[k + i]
  <2>1. k \in 0..Len(s)
    OBVIOUS
  <2> QED BY <1>1, <2>1, SkipIsSeq
<1>3. IsRun(t, {"#"}, run)
  BY <1>1, <1>2, HashesRun
<1>4. run \in 0..Len(s) - k /\ \A i \in 1..run : t[i] = "#"
  BY <1>2, <1>3 DEF IsRun
<1>5. ASSUME NEW i \in k + 1..k + run PROVE s[i] = "#"
  <2>1. i - k \in 1..run /\ i - k \in 1..Len(s) - k /\ k + (i - k) = i
    BY <1>4
  <2> QED BY <1>2, <1>4, <2>1
<1> QED BY <1>4, <1>5

\* Where the loop goes on, when the string does not end.
RawOn(s, n) ==
  IF StartsWith(LastOf(s, n), "\"") THEN n - 1 - Run(Tail(LastOf(s, n)), IsHash) ELSE n - 1

LEMMA RawOnIsLess ==
  ASSUME NEW C, NEW s \in Seq(C), NEW n \in 1..Len(s), NEW k, k = Len(s) - n + 1
  PROVE  /\ RawOn(s, n) \in 0..n - 1
         /\ \A i \in k + 1..Len(s) - RawOn(s, n) : s[i] = "#"
<1>1. k \in 1..Len(s) /\ LastOf(s, n) = Skip(s, k - 1) /\ Len(s) - k = n - 1
  BY RawLeft
<1>2. Tail(Skip(s, k - 1)) = Skip(s, k)
  BY <1>1, TailAt
<1>3. PICK run : run = Run(Skip(s, k), IsHash)
  OBVIOUS
<1>4. run \in 0..Len(s) - k /\ \A i \in k + 1..k + run : s[i] = "#"
  BY <1>1, <1>3, RunAfter
<1>5. RawOn(s, n) = n - 1 - run \/ RawOn(s, n) = n - 1
  BY <1>1, <1>2, <1>3 DEF RawOn
<1>6. CASE RawOn(s, n) = n - 1 - run
  <2>1. Len(s) - RawOn(s, n) = k + run
    BY <1>1, <1>4, <1>6
  <2> QED BY <1>1, <1>4, <1>6, <2>1
<1>7. CASE RawOn(s, n) = n - 1
  <2>1. Len(s) - RawOn(s, n) = k
    BY <1>1, <1>7
  <2> QED BY <1>1, <1>7, <2>1
<1> QED BY <1>5, <1>6, <1>7

\* The loop looks only at shorter texts, so that a function that follows it exists.
LEMMA RawNextLocal ==
  ASSUME NEW C, NEW s \in Seq(C), NEW hashes, NEW n \in 0..Len(s), NEW f, NEW g,
         \A i \in 0..n - 1 : f[i] = g[i]
  PROVE  RawNext(f, s, hashes, n) = RawNext(g, s, hashes, n)
<1>1. CASE n = 0
  BY <1>1 DEF RawNext
<1>2. CASE n # 0
  <2>1. n \in 1..Len(s)
    BY <1>2
  <2>2. RawOn(s, n) \in 0..n - 1
    <3>1. PICK k : k = Len(s) - n + 1
      OBVIOUS
    <3> QED BY <2>1, <3>1, RawOnIsLess
  <2>3. f[RawOn(s, n)] = g[RawOn(s, n)]
    BY <2>2
  <2> QED BY <1>2, <2>3 DEF RawNext, RawOn
<1> QED BY <1>1, <1>2

LEMMA RawEndExists ==
  ASSUME NEW C, NEW s \in Seq(C), NEW hashes
  PROVE  \E f : IsRawEnd(f, s, hashes, Len(s))
<1> DEFINE Bad == {n \in 0..Len(s) : ~\E f : IsRawEnd(f, s, hashes, n)}
<1>1. Len(s) \in 0..Len(s)
  OBVIOUS
<1> SUFFICES ASSUME Bad # {} PROVE FALSE
  BY <1>1
<1>2. PICK x \in Bad : \A n \in Bad : x <= n
  <2>1. Bad \in SUBSET Nat
    OBVIOUS
  <2> HIDE DEF Bad
  <2> QED BY <2>1, LeastNumber
<1>3. \E g : \A n \in 0..x - 1 : g[n] = RawNext(g, s, hashes, n)
  <2>1. CASE x = 0
    BY <2>1
  <2>2. CASE x # 0
    <3>1. x - 1 \in 0..Len(s) /\ x - 1 \notin Bad
      BY <1>2, <2>2
    <3>2. PICK g : IsRawEnd(g, s, hashes, x - 1)
      BY <3>1
    <3> QED BY <3>2 DEF IsRawEnd
  <2> QED BY <2>1, <2>2
<1>4. PICK g : \A n \in 0..x - 1 : g[n] = RawNext(g, s, hashes, n)
  BY <1>3
<1>5. PICK top : top = RawNext(g, s, hashes, x)
  OBVIOUS
<1>6. PICK f : f = [n \in 0..x |-> IF n = x THEN top ELSE g[n]]
  OBVIOUS
<1>7. x \in 0..Len(s) /\ f[x] = top /\ \A n \in 0..x - 1 : f[n] = g[n]
  BY <1>2, <1>6
<1>8. ASSUME NEW n \in 0..x PROVE f[n] = RawNext(f, s, hashes, n)
  <2>1. n \in 0..Len(s) /\ \A i \in 0..n - 1 : f[i] = g[i]
    BY <1>7
  <2>2. RawNext(f, s, hashes, n) = RawNext(g, s, hashes, n)
    BY <2>1, RawNextLocal
  <2>3. CASE n = x
    BY <1>5, <1>7, <2>2, <2>3
  <2>4. CASE n # x
    <3>1. n \in 0..x - 1
      BY <1>7, <2>4
    <3> QED BY <1>4, <1>7, <2>2, <3>1
  <2> QED BY <2>3, <2>4
<1>9. f = [n \in 0..x |-> f[n]]
  BY <1>6
<1>10. IsRawEnd(f, s, hashes, x)
  BY <1>8, <1>9 DEF IsRawEnd
<1> QED BY <1>2, <1>10

LEMMA EndOfRawEquation ==
  ASSUME NEW C, NEW s \in Seq(C), NEW hashes
  PROVE  \E f : /\ EndOfRaw(s, hashes) = f[Len(s)]
                /\ \A n \in 0..Len(s) : f[n] = RawNext(f, s, hashes, n)
<1> DEFINE Chosen == CHOOSE f : IsRawEnd(f, s, hashes, Len(s))
<1>1. IsRawEnd(Chosen, s, hashes, Len(s))
  BY RawEndExists
<1>2. EndOfRaw(s, hashes) = Chosen[Len(s)]
  BY Zenon DEF EndOfRaw, IsRawEnd, RawNext
<1> HIDE DEF Chosen
<1>3. \A n \in 0..Len(s) : Chosen[n] = RawNext(Chosen, s, hashes, n)
  BY <1>1 DEF IsRawEnd
<1> QED BY <1>2, <1>3

\* The first place, from one on, where a raw string may end, or 0.
FirstClose(s, hashes, from, end) ==
  \/ end = 0 /\ \A j \in from..Len(s) : ~ClosesAt(s, j, hashes)
  \/ /\ end \in from..Len(s) /\ ClosesAt(s, end, hashes)
     /\ \A j \in from..end - 1 : ~ClosesAt(s, j, hashes)

\* What is skipped has no end of the string.
LEMMA FirstCloseLater ==
  ASSUME NEW s, NEW hashes, NEW from \in Nat, NEW on \in Nat, NEW end, Len(s) \in Nat,
         FirstClose(s, hashes, on, end), from < on, on <= Len(s) + 1,
         \A j \in from..on - 1 : ~ClosesAt(s, j, hashes)
  PROVE  FirstClose(s, hashes, from, end)
<1>1. CASE end = 0 /\ \A j \in on..Len(s) : ~ClosesAt(s, j, hashes)
  <2>1. ASSUME NEW j \in from..Len(s) PROVE ~ClosesAt(s, j, hashes)
    <3>1. j \in from..on - 1 \/ j \in on..Len(s)
      OBVIOUS
    <3> QED BY <1>1, <3>1
  <2> QED BY <1>1, <2>1 DEF FirstClose
<1>2. CASE /\ end \in on..Len(s) /\ ClosesAt(s, end, hashes)
           /\ \A j \in on..end - 1 : ~ClosesAt(s, j, hashes)
  <2>1. ASSUME NEW j \in from..end - 1 PROVE ~ClosesAt(s, j, hashes)
    <3>1. j \in from..on - 1 \/ j \in on..end - 1
      BY <1>2
    <3> QED BY <1>2, <3>1
  <2>2. end \in from..Len(s)
    BY <1>2
  <2> QED BY <1>2, <2>1, <2>2 DEF FirstClose
<1> QED BY <1>1, <1>2 DEF FirstClose

\* The loop finds the first place where the string may end.
LEMMA EndOfRawIsFirst ==
  ASSUME NEW C, NEW s \in Seq(C), NEW hashes \in Nat
  PROVE  FirstClose(s, hashes, 1, EndOfRaw(s, hashes))
<1>1. PICK f : /\ EndOfRaw(s, hashes) = f[Len(s)]
               /\ \A n \in 0..Len(s) : f[n] = RawNext(f, s, hashes, n)
  BY EndOfRawEquation
<1>2. PICK N \in Nat : N = Len(s)
  OBVIOUS
<1> DEFINE Bad == {n \in 0..N : ~FirstClose(s, hashes, N - n + 1, f[n])}
<1>3. ASSUME Bad # {} PROVE FALSE
  <2>1. PICK x \in Bad : \A n \in Bad : x <= n
    <3>1. Bad \in SUBSET Nat
      OBVIOUS
    <3>2. Bad # {}
      BY <1>3
    <3> HIDE DEF Bad
    <3> QED BY <3>1, <3>2, LeastNumber
  <2>2. x \in 0..Len(s) /\ f[x] = RawNext(f, s, hashes, x)
    BY <1>1, <1>2, <2>1
  <2>3. x \in 0..N
    BY <2>1
  <2>4. PICK k \in Nat : k = N - x + 1
    BY <2>3
  <2>5. ~FirstClose(s, hashes, k, f[x])
    BY <2>1, <2>4
  <2>6. CASE x = 0
    <3>1. f[x] = 0 /\ k = Len(s) + 1
      BY <1>2, <2>2, <2>4, <2>6 DEF RawNext
    <3> QED BY <2>5, <3>1 DEF FirstClose
  <2>7. CASE x # 0
    <3>1. x \in 1..Len(s) /\ k \in 1..Len(s) /\ LastOf(s, x) = Skip(s, k - 1)
      BY <1>2, <2>2, <2>4, <2>7, RawLeft
    <3>2. Closes(LastOf(s, x), hashes) <=> ClosesAt(s, k, hashes)
      BY <3>1, ClosesThere
    <3>3. CASE Closes(LastOf(s, x), hashes)
      <4>1. f[x] = k
        BY <1>2, <2>2, <2>4, <2>7, <3>3 DEF RawNext
      <4> QED BY <2>5, <3>1, <3>2, <3>3, <4>1 DEF FirstClose
    <3>4. CASE ~Closes(LastOf(s, x), hashes)
      <4>1. PICK on : on = RawOn(s, x)
        OBVIOUS
      <4>2. f[x] = f[on]
        BY <2>2, <2>7, <3>4, <4>1 DEF RawNext, RawOn
      <4>3. on \in 0..x - 1 /\ \A i \in k + 1..Len(s) - on : s[i] = "#"
        BY <1>2, <2>4, <3>1, <4>1, RawOnIsLess
      <4>4. on \in 0..N /\ on \notin Bad
        BY <1>2, <2>1, <2>2, <4>3
      <4>5. FirstClose(s, hashes, N - on + 1, f[on])
        BY <4>4
      <4>6. N - on + 1 \in Nat /\ k < N - on + 1 /\ N - on + 1 <= Len(s) + 1
        BY <1>2, <2>2, <2>4, <4>3
      <4>7. ASSUME NEW j \in k..(N - on + 1) - 1 PROVE ~ClosesAt(s, j, hashes)
        <5>1. CASE j = k
          BY <3>2, <3>4, <5>1
        <5>2. CASE j # k
          <6>1. j \in k + 1..Len(s) - on
            BY <1>2, <4>4, <5>2
          <6> QED BY <4>3, <6>1 DEF ClosesAt
        <5> QED BY <5>1, <5>2
      <4>8. FirstClose(s, hashes, k, f[on])
        BY <1>2, <4>5, <4>6, <4>7, FirstCloseLater
      <4> QED BY <2>5, <4>2, <4>8
    <3> QED BY <3>3, <3>4
  <2> QED BY <2>6, <2>7
<1>4. N \in 0..N /\ N - N + 1 = 1
  OBVIOUS
<1> QED BY <1>1, <1>2, <1>3, <1>4

-----------------------------------------------------------------------------
\* A read that succeeded, and the text after it.
Leaves(lexed, rest) == lexed.ok /\ lexed.rest = rest

LEMMA LexedLeaves ==
  ASSUME NEW v, NEW rest
  PROVE  Leaves(Lexed(v, rest), rest) /\ Lexed(v, rest).ok
  BY DEF Lexed, Leaves

LEMMA ErrorIsNotRead == ~LexError.ok
  BY DEF LexError

LEMMA BeforeLeaves ==
  ASSUME NEW read, NEW lexed, Before(read, lexed).ok
  PROVE  lexed.ok /\ Before(read, lexed).rest = lexed.rest
  BY DEF Before, AndThen, Lexed, LexError

\* What a byte in digits is written with.
Unquoting == DOMAIN Digit \cup {"+"}
LEMMA UnquotingIsNone ==
  "\"" \notin Unquoting /\ "\\" \notin Unquoting /\ "x" \notin {"\"", "\\"}
  BY DEF Unquoting, Digit

\* A byte in digits is none of the characters that end or escape.
LEMMA FixedByteConsumes ==
  ASSUME NEW C, NEW s \in Seq(C), NEW n \in {2, 3}, NEW radix, FixedByte(s, n, radix).ok
  PROVE  /\ Len(s) >= n /\ FixedByte(s, n, radix).rest = Skip(s, n)
         /\ \A i \in 1..n : s[i] \in Unquoting
<1>1. Len(s) >= n /\ FixedByte(s, n, radix) = ParsedByte(Unplussed(SubSeq(s, 1, n)), Skip(s, n), radix)
  BY ErrorIsNotRead DEF FixedByte
<1>2. PICK d : d = SubSeq(s, 1, n)
  OBVIOUS
<1>3. d \in Seq(C) /\ Len(d) = n /\ \A i \in 1..n : d[i] = s[i]
  BY <1>1, <1>2
<1>4. PICK u : u = Unplussed(d)
  OBVIOUS
<1>5. IsNumber(u, radix) /\ FixedByte(s, n, radix) = Lexed(Number(u, radix), Skip(s, n))
  BY <1>1, <1>2, <1>4, ErrorIsNotRead DEF ParsedByte
<1>6. \A i \in DOMAIN u : u[i] \in DOMAIN Digit
  BY <1>5 DEF IsNumber, IsHexDigit
<1>7. \A i \in 1..n : d[i] \in Unquoting
  <2>1. CASE StartsWith(d, "+")
    <3>1. u = Tail(d) /\ d[1] = "+"
      BY <1>3, <1>4, <2>1, StartsWithFirst DEF Unplussed
    <3>2. ASSUME NEW i \in 1..n, i # 1 PROVE d[i] \in DOMAIN Digit
      <4>1. Len(u) = n - 1 /\ i - 1 \in 1..n - 1 /\ u[i - 1] = d[i]
        BY <1>3, <3>1, <3>2
      <4>2. i - 1 \in DOMAIN u
        BY <1>3, <3>1, <4>1
      <4> QED BY <1>6, <4>1, <4>2
    <3> QED BY <3>1, <3>2 DEF Unquoting
  <2>2. CASE ~StartsWith(d, "+")
    <3>1. u = d /\ DOMAIN d = 1..n
      BY <1>3, <1>4, <2>2 DEF Unplussed
    <3> QED BY <1>6, <3>1 DEF Unquoting
  <2> QED BY <2>1, <2>2
<1> QED BY <1>1, <1>3, <1>5, <1>7 DEF Lexed

\* An escape is a quote or a backslash, or three characters that are neither.
EscapeOf(s, k) ==
  \/ k = 1 /\ 1 <= Len(s) /\ s[1] \in {"\"", "\\"}
  \/ k = 3 /\ 3 <= Len(s) /\ \A i \in 1..3 : s[i] \notin {"\"", "\\"}

\* What an escape takes.
LEMMA EscapedConsumes ==
  ASSUME NEW C, NEW s \in Seq(C), Escaped(s).ok
  PROVE  \E k : EscapeOf(s, k) /\ Escaped(s).rest = Skip(s, k)
<1>1. s # <<>> /\ Len(s) >= 1 /\ Head(s) = s[1]
  <2>1. s # <<>>
    BY ErrorIsNotRead DEF Escaped
  <2> QED BY <2>1
<1>2. CASE Head(s) \in {"\"", "\\"}
  <2>1. Escaped(s) = Lexed(Utf8[Head(s)], Tail(s))
    BY <1>1, <1>2 DEF Escaped
  <2>2. Escaped(s).rest = Skip(s, 1)
    BY <1>1, <2>1, TailIsSkip DEF Lexed
  <2>3. EscapeOf(s, 1)
    BY <1>1, <1>2 DEF EscapeOf
  <2> QED BY <2>2, <2>3
<1>3. CASE Head(s) = "x"
  <2>1. PICK t : t = Tail(s)
    OBVIOUS
  <2>2. Escaped(s) = AndThen(FixedByte(t, 2, 16), LAMBDA byte, rest : Lexed(<<byte>>, rest))
    BY <1>1, <1>3, <2>1 DEF Escaped
  <2>3. FixedByte(t, 2, 16).ok /\ Escaped(s).rest = FixedByte(t, 2, 16).rest
    BY <2>2, ErrorIsNotRead DEF AndThen, Lexed
  <2>4. t \in Seq(C) /\ t = Skip(s, 1) /\ Len(t) = Len(s) - 1
        /\ \A i \in 1..Len(s) - 1 : t[i] = s[1 + i]
    BY <1>1, <2>1, TailIsSkip
  <2>5. Len(t) >= 2 /\ FixedByte(t, 2, 16).rest = Skip(t, 2) /\ \A i \in 1..2 : t[i] \in Unquoting
    BY <2>3, <2>4, FixedByteConsumes
  <2>6. Skip(t, 2) = Skip(s, 3)
    <3>1. 1 \in 0..Len(s) /\ 2 \in 0..Len(s) - 1 /\ 1 + 2 = 3
      BY <2>4, <2>5
    <3> QED BY <2>4, <3>1, SkipTwice
  <2>7. ASSUME NEW i \in 1..3 PROVE s[i] \notin {"\"", "\\"}
    <3>1. CASE i = 1
      BY <1>1, <1>3, <3>1, UnquotingIsNone
    <3>2. CASE i # 1
      <4>1. i - 1 \in 1..2 /\ i - 1 \in 1..Len(s) - 1 /\ 1 + (i - 1) = i
        BY <2>4, <2>5, <3>2
      <4>2. s[i] \in Unquoting
        BY <2>4, <2>5, <4>1
      <4> QED BY <4>2, UnquotingIsNone
    <3> QED BY <3>1, <3>2
  <2>8. EscapeOf(s, 3)
    <3>1. Len(s) \in Nat /\ Len(s) - 1 >= 2
      BY <2>4, <2>5
    <3>2. 3 <= Len(s)
      BY <3>1
    <3> QED BY <2>7, <3>2 DEF EscapeOf
  <2> QED BY <2>3, <2>5, <2>6, <2>8
<1>4. CASE Head(s) \in {"0", "1", "2", "3", "4", "5", "6", "7"}
  <2>1. Escaped(s) = AndThen(FixedByte(s, 3, 8), LAMBDA byte, rest : Lexed(<<byte>>, rest))
    BY <1>1, <1>4 DEF Escaped
  <2>2. FixedByte(s, 3, 8).ok /\ Escaped(s).rest = FixedByte(s, 3, 8).rest
    BY <2>1, ErrorIsNotRead DEF AndThen, Lexed
  <2>3. Len(s) >= 3 /\ FixedByte(s, 3, 8).rest = Skip(s, 3) /\ \A i \in 1..3 : s[i] \in Unquoting
    BY <2>2, FixedByteConsumes
  <2>4. EscapeOf(s, 3)
    BY <2>3, UnquotingIsNone DEF EscapeOf
  <2> QED BY <2>2, <2>3, <2>4
<1> QED BY <1>1, <1>2, <1>3, <1>4, ErrorIsNotRead DEF Escaped

\* What follows an escape is shorter than what it was read from.
LEMMA EscapeShortens ==
  ASSUME NEW C, NEW t \in Seq(C), Escaped(t).ok
  PROVE  Len(Escaped(t).rest) \in 0..Len(t) - 1
<1>1. PICK k : EscapeOf(t, k) /\ Escaped(t).rest = Skip(t, k)
  BY EscapedConsumes
<1>2. k \in {1, 3} /\ k \in 0..Len(t)
  <2>1. k \in {1, 3} /\ k <= Len(t)
    BY <1>1 DEF EscapeOf
  <2> QED BY <2>1
<1>3. Len(Skip(t, k)) = Len(t) - k
  BY <1>2, SkipIsSeq
<1> QED BY <1>1, <1>2, <1>3

\* The loop looks only at shorter texts, so that a function that follows it exists.
LEMMA QuotedLocal ==
  ASSUME NEW C, NEW left \in Seq(C), NEW f, NEW g,
         \A i \in 0..Len(left) - 1 : f[i] = g[i]
  PROVE  QuotedFrom(f, left) = QuotedFrom(g, left)
<1>1. CASE Len(left) = 0
  <2>1. left = <<>>
    BY <1>1
  <2> QED BY <2>1 DEF QuotedFrom, StartsWith
<1>2. CASE Len(left) # 0
  <2>1. PICK t : t = Tail(left)
    OBVIOUS
  <2>2. t \in Seq(C) /\ Len(t) = Len(left) - 1
    BY <1>2, <2>1
  <2>3. f[Len(left) - 1] = g[Len(left) - 1]
    BY <1>2
  <2>4. AndThen(Escaped(t), LAMBDA byte, rest : Before(byte, f[Len(rest)]))
          = AndThen(Escaped(t), LAMBDA byte, rest : Before(byte, g[Len(rest)]))
    <3>1. CASE Escaped(t).ok
      <4>1. Len(Escaped(t).rest) \in 0..Len(left) - 1
        BY <2>2, <3>1, EscapeShortens
      <4>2. f[Len(Escaped(t).rest)] = g[Len(Escaped(t).rest)]
        BY <4>1
      <4> QED BY <4>2 DEF AndThen
    <3>2. CASE ~Escaped(t).ok
      BY <3>2 DEF AndThen
    <3> QED BY <3>1, <3>2
  <2> QED BY <2>1, <2>3, <2>4 DEF QuotedFrom
<1> QED BY <1>1, <1>2

IsQuoted(f, s, m) == f = [n \in 0..m |-> QuotedFrom(f, LastOf(s, n))]

LEMMA LastIsSkip ==
  ASSUME NEW C, NEW s \in Seq(C), NEW n \in 0..Len(s)
  PROVE  /\ LastOf(s, n) \in Seq(C) /\ Len(LastOf(s, n)) = n
         /\ LastOf(s, n) = Skip(s, Len(s) - n)
<1>1. PICK k \in 0..Len(s) : k = Len(s) - n
  OBVIOUS
<1>2. LastOf(s, n) = Skip(s, k)
  BY <1>1 DEF LastOf
<1>3. Skip(s, k) \in Seq(C) /\ Len(Skip(s, k)) = Len(s) - k
  BY SkipIsSeq
<1> QED BY <1>1, <1>2, <1>3

LEMMA QuotedExists ==
  ASSUME NEW C, NEW s \in Seq(C)
  PROVE  \E f : IsQuoted(f, s, Len(s))
<1> DEFINE Bad == {n \in 0..Len(s) : ~\E f : IsQuoted(f, s, n)}
<1>1. Len(s) \in 0..Len(s)
  OBVIOUS
<1> SUFFICES ASSUME Bad # {} PROVE FALSE
  BY <1>1
<1>2. PICK x \in Bad : \A n \in Bad : x <= n
  <2>1. Bad \in SUBSET Nat
    OBVIOUS
  <2> HIDE DEF Bad
  <2> QED BY <2>1, LeastNumber
<1>3. \E g : \A n \in 0..x - 1 : g[n] = QuotedFrom(g, LastOf(s, n))
  <2>1. CASE x = 0
    BY <2>1
  <2>2. CASE x # 0
    <3>1. x - 1 \in 0..Len(s) /\ x - 1 \notin Bad
      BY <1>2, <2>2
    <3>2. PICK g : IsQuoted(g, s, x - 1)
      BY <3>1
    <3> QED BY <3>2 DEF IsQuoted
  <2> QED BY <2>1, <2>2
<1>4. PICK g : \A n \in 0..x - 1 : g[n] = QuotedFrom(g, LastOf(s, n))
  BY <1>3
<1>5. PICK top : top = QuotedFrom(g, LastOf(s, x))
  OBVIOUS
<1>6. PICK f : f = [n \in 0..x |-> IF n = x THEN top ELSE g[n]]
  OBVIOUS
<1>7. x \in 0..Len(s) /\ f[x] = top /\ \A n \in 0..x - 1 : f[n] = g[n]
  BY <1>2, <1>6
<1>8. ASSUME NEW n \in 0..x PROVE f[n] = QuotedFrom(f, LastOf(s, n))
  <2>1. n \in 0..Len(s)
    BY <1>7
  <2>2. PICK left \in Seq(C) : left = LastOf(s, n) /\ Len(left) = n
    BY <2>1, LastIsSkip
  <2>3. \A i \in 0..Len(left) - 1 : f[i] = g[i]
    BY <1>7, <2>2
  <2>4. QuotedFrom(f, LastOf(s, n)) = QuotedFrom(g, LastOf(s, n))
    BY <2>2, <2>3, QuotedLocal
  <2>5. CASE n = x
    BY <1>5, <1>7, <2>4, <2>5
  <2>6. CASE n # x
    <3>1. n \in 0..x - 1
      BY <1>7, <2>6
    <3> QED BY <1>4, <1>7, <2>4, <3>1
  <2> QED BY <2>5, <2>6
<1>9. f = [n \in 0..x |-> f[n]]
  BY <1>6
<1>10. IsQuoted(f, s, x)
  BY <1>8, <1>9 DEF IsQuoted
<1> QED BY <1>2, <1>10

LEMMA LexQuotedEquation ==
  ASSUME NEW C, NEW s \in Seq(C)
  PROVE  \E f : /\ LexQuoted(s) = f[Len(s)]
                /\ \A n \in 0..Len(s) : f[n] = QuotedFrom(f, LastOf(s, n))
<1> DEFINE Chosen == CHOOSE f : IsQuoted(f, s, Len(s))
<1>1. IsQuoted(Chosen, s, Len(s))
  BY QuotedExists
<1>2. LexQuoted(s) = Chosen[Len(s)]
  BY DEF LexQuoted, IsQuoted
<1> HIDE DEF Chosen
<1>3. \A n \in 0..Len(s) : Chosen[n] = QuotedFrom(Chosen, LastOf(s, n))
  BY <1>1 DEF IsQuoted
<1> QED BY <1>2, <1>3

-----------------------------------------------------------------------------
\* The backslashes before a place are those before the one before it, and one more.
LEMMA BackslashesRange ==
  ASSUME NEW at \in Nat \ {0}
  PROVE  /\ Backslashes(at) \in 0..at - 1
         /\ Backslashes(at) = at - 1 \/ chars[at - 1 - Backslashes(at)] # "\\"
         /\ \A n \in 0..at - 1 : (n = at - 1 \/ chars[at - 1 - n] # "\\") => Backslashes(at) <= n
<1> DEFINE S == {n \in 0..at - 1 : n = at - 1 \/ chars[at - 1 - n] # "\\"}
<1>1. PICK m : m = Min(S)
  OBVIOUS
<1>2. m \in S /\ \A n \in S : m <= n
  <2>1. at - 1 \in S
    OBVIOUS
  <2>2. S \in SUBSET Nat
    OBVIOUS
  <2> HIDE DEF S
  <2>3. S # {}
    BY <2>1
  <2> QED BY <1>1, <2>2, <2>3, MinIsLeast
<1>3. Backslashes(at) = m
  BY <1>1 DEF Backslashes
<1> QED BY <1>2, <1>3

LEMMA BackslashesStep ==
  ASSUME NEW at \in Nat \ {0}
  PROVE  Backslashes(at + 1) = IF chars[at] = "\\" THEN Backslashes(at) + 1 ELSE 0
<1>1. PICK m : m = Backslashes(at)
  OBVIOUS
<1>2. PICK next \in Nat \ {0} : next = at + 1
  OBVIOUS
<1>3. PICK k : k = Backslashes(next)
  OBVIOUS
<1>4. /\ m \in 0..at - 1
      /\ m = at - 1 \/ chars[at - 1 - m] # "\\"
      /\ \A n \in 0..at - 1 : (n = at - 1 \/ chars[at - 1 - n] # "\\") => m <= n
  BY <1>1, BackslashesRange
<1>5. /\ k \in 0..next - 1
      /\ k = next - 1 \/ chars[next - 1 - k] # "\\"
      /\ \A n \in 0..next - 1 : (n = next - 1 \/ chars[next - 1 - n] # "\\") => k <= n
  BY <1>3, BackslashesRange
<1>6. CASE chars[at] # "\\"
  <2>1. 0 \in 0..next - 1 /\ next - 1 - 0 = at
    BY <1>2
  <2>2. k <= 0
    BY <1>5, <1>6, <2>1
  <2> QED BY <1>2, <1>3, <1>5, <1>6, <2>2
<1>7. CASE chars[at] = "\\"
  <2>1. k # 0
    BY <1>2, <1>5, <1>7
  <2>2. k - 1 \in 0..at - 1 /\ at - 1 - (k - 1) = next - 1 - k /\ (k = next - 1 => k - 1 = at - 1)
    BY <1>2, <1>5, <2>1
  <2>3. m <= k - 1
    BY <1>4, <1>5, <2>2
  <2>4. m + 1 \in 0..next - 1 /\ next - 1 - (m + 1) = at - 1 - m /\ (m = at - 1 => m + 1 = next - 1)
    BY <1>2, <1>4
  <2>5. k <= m + 1
    BY <1>4, <1>5, <2>4
  <2>6. k = m + 1
    BY <1>4, <1>5, <2>3, <2>5
  <2> QED BY <1>1, <1>2, <1>3, <1>7, <2>6
<1> QED BY <1>6, <1>7

-----------------------------------------------------------------------------
\* What is read after a place ends at the first quote that may end it.
Ending(p, lexed) ==
  lexed.ok =>
    \E at \in p + 1..Len(chars) :
      /\ EndsQuoted(at) /\ \A i \in p + 1..at - 1 : ~EndsQuoted(i)
      /\ lexed.rest = Skip(chars, at)

\* What is read before the end has no quote that may end it.
LEMMA EndingLater ==
  ASSUME NEW p \in Nat, NEW q \in Nat, p <= q, \A i \in p + 1..q : ~EndsQuoted(i),
         NEW lexed, Ending(q, lexed), NEW read, NEW before, before = Before(read, lexed),
         Len(chars) \in Nat
  PROVE  Ending(p, before)
<1> SUFFICES ASSUME before.ok
             PROVE  \E at \in p + 1..Len(chars) :
                      /\ EndsQuoted(at) /\ \A i \in p + 1..at - 1 : ~EndsQuoted(i)
                      /\ before.rest = Skip(chars, at)
  BY DEF Ending
<1>1. lexed.ok /\ before.rest = lexed.rest
  BY BeforeLeaves
<1>2. PICK at \in q + 1..Len(chars) :
        /\ EndsQuoted(at) /\ \A i \in q + 1..at - 1 : ~EndsQuoted(i)
        /\ lexed.rest = Skip(chars, at)
  BY <1>1 DEF Ending
<1>3. ASSUME NEW i \in p + 1..at - 1 PROVE ~EndsQuoted(i)
  <2>1. i \in p + 1..q \/ i \in q + 1..at - 1
    BY <1>2
  <2> QED BY <1>2, <2>1
<1>4. at \in p + 1..Len(chars)
  BY <1>2
<1> QED BY <1>1, <1>2, <1>3, <1>4

\* An escape has none, and leaves an even number of backslashes behind it.
LEMMA EscapeIsInside ==
  ASSUME NEW C, chars \in Seq(C), NEW a \in 1..Len(chars), chars[a] = "\\",
         Backslashes(a) % 2 = 0, NEW k, EscapeOf(Skip(chars, a), k)
  PROVE  /\ k \in {1, 3} /\ a + k <= Len(chars)
         /\ \A i \in a..a + k : ~EndsQuoted(i)
         /\ Backslashes(a + k + 1) % 2 = 0
<1>1. PICK t : t = Skip(chars, a)
  OBVIOUS
<1>2. t \in Seq(C) /\ Len(t) = Len(chars) - a /\ \A i \in 1..Len(chars) - a : t[i] = chars[a + i]
  <2>1. a \in 0..Len(chars)
    OBVIOUS
  <2> QED BY <1>1, <2>1, SkipIsSeq
<1>3. ~EndsQuoted(a)
  BY DEF EndsQuoted
<1>4. Backslashes(a) \in Nat /\ Backslashes(a + 1) = Backslashes(a) + 1
  <2>1. a \in Nat \ {0}
    OBVIOUS
  <2>2. Backslashes(a) \in 0..a - 1
    BY <2>1, BackslashesRange
  <2>3. Backslashes(a + 1) = IF chars[a] = "\\" THEN Backslashes(a) + 1 ELSE 0
    BY <2>1, BackslashesStep
  <2> QED BY <2>2, <2>3
<1>5. CASE k = 1 /\ 1 <= Len(t) /\ t[1] \in {"\"", "\\"}
  <2>1. Len(chars) - a >= 1 /\ Len(chars) \in Nat
    <3>1. Len(t) = Len(chars) - a /\ 1 <= Len(t)
      BY <1>2, <1>5
    <3> QED BY <3>1
  <2>2. 1 \in 1..Len(chars) - a
    BY <2>1
  <2>3. t[1] = chars[a + 1] /\ a + 1 \in Nat \ {0} /\ a + 1 <= Len(chars)
    BY <1>2, <2>2
  <2>4. ~EndsQuoted(a + 1)
    <3>1. (Backslashes(a) + 1) % 2 # 0
      BY <1>4
    <3> QED BY <1>4, <3>1 DEF EndsQuoted
  <2>5. Backslashes((a + 1) + 1) = IF chars[a + 1] = "\\" THEN Backslashes(a + 1) + 1 ELSE 0
    BY <2>3, BackslashesStep
  <2>6. PICK b \in Nat : b = Backslashes(a)
    BY <1>4
  <2>7. b % 2 = 0 /\ (b + 1 + 1) % 2 = 0
    BY <2>6
  <2>8. Backslashes((a + 1) + 1) % 2 = 0
    BY <1>4, <2>5, <2>6, <2>7
  <2>9. \A i \in a..a + 1 : i = a \/ i = a + 1
    OBVIOUS
  <2>10. \A i \in a..a + 1 : ~EndsQuoted(i)
    BY <1>3, <2>4, <2>9, Zenon
  <2>11. k = 1
    BY <1>5
  <2> QED BY <2>3, <2>8, <2>11, <2>10
<1>6. CASE k = 3 /\ 3 <= Len(t) /\ \A i \in 1..3 : t[i] \notin {"\"", "\\"}
  <2>1. Len(chars) - a >= 3 /\ Len(chars) \in Nat
    <3>1. Len(t) = Len(chars) - a /\ 3 <= Len(t)
      BY <1>2, <1>6
    <3> QED BY <3>1
  <2>2. \A i \in 1..3 : i \in 1..Len(chars) - a
    BY <2>1
  <2>3. 3 \in 1..Len(chars) - a
    BY <2>2
  <2>4. a + 3 <= Len(chars) /\ \A i \in 1..3 : t[i] = chars[a + i]
    BY <1>2, <2>2, <2>3
  <2>5. \A i \in a + 1..a + 3 : chars[i] \notin {"\"", "\\"}
    <3>1. ASSUME NEW i \in a + 1..a + 3 PROVE chars[i] \notin {"\"", "\\"}
      <4>1. i - a \in 1..3 /\ a + (i - a) = i
        OBVIOUS
      <4> QED BY <1>6, <2>4, <4>1
    <3> QED BY <3>1
  <2>6. \A i \in a..a + 3 : ~EndsQuoted(i)
    <3>1. \A i \in a..a + 3 : i = a \/ i \in a + 1..a + 3
      OBVIOUS
    <3> QED BY <1>3, <2>5, <3>1 DEF EndsQuoted
  <2>7. a + 3 \in Nat \ {0} /\ a + 3 \in a + 1..a + 3
    OBVIOUS
  <2>8. Backslashes((a + 3) + 1) = 0
    BY <2>5, <2>7, BackslashesStep
  <2>9. k = 3 /\ a + k + 1 = (a + 3) + 1
    BY <1>6
  <2> QED BY <2>4, <2>6, <2>8, <2>9
<1> QED BY <1>1, <1>5, <1>6 DEF EscapeOf

\* One turn of the loop.
LEMMA QuotedTurn ==
  ASSUME NEW C, chars \in Seq(C), NEW a \in 1..Len(chars), NEW f, NEW left,
         left = Skip(chars, a - 1), Backslashes(a) % 2 = 0,
         \A q \in a..Len(chars) : Backslashes(q + 1) % 2 = 0 => Ending(q, f[Len(chars) - q])
  PROVE  Ending(a - 1, QuotedFrom(f, left))
<1>1. PICK t : t = Skip(chars, a)
  OBVIOUS
<1>2. t \in Seq(C) /\ Len(t) = Len(chars) - a
  <2>1. a \in 0..Len(chars)
    OBVIOUS
  <2> QED BY <1>1, <2>1, SkipIsSeq
<1>3. Tail(left) = t
  BY <1>1, TailAt
<1>4. \A c : StartsWith(left, c) <=> chars[a] = c
  BY StartAt
<1>5. left # <<>> /\ Len(left) = Len(chars) - a + 1
  BY LeftAt
<1>6. a - 1 \in Nat /\ (a - 1) + 1 = a /\ Len(chars) \in Nat /\ a \in Nat \ {0}
  OBVIOUS
<1>7. CASE chars[a] = "\""
  <2>1. QuotedFrom(f, left) = Lexed(<<>>, t)
    BY <1>3, <1>4, <1>5, <1>7 DEF QuotedFrom
  <2>2. EndsQuoted(a)
    BY <1>7 DEF EndsQuoted
  <2>3. QuotedFrom(f, left).rest = Skip(chars, a)
    BY <1>1, <2>1, LexedLeaves DEF Leaves
  <2>4. a \in (a - 1) + 1..Len(chars) /\ \A i \in (a - 1) + 1..a - 1 : ~EndsQuoted(i)
    BY <1>6
  <2> QED BY <2>2, <2>3, <2>4 DEF Ending
<1>8. CASE chars[a] = "\\"
  <2>1. QuotedFrom(f, left) =
          AndThen(Escaped(t), LAMBDA byte, rest : Before(byte, f[Len(rest)]))
    BY <1>3, <1>4, <1>5, <1>8 DEF QuotedFrom
  <2>2. CASE ~Escaped(t).ok
    <3>1. QuotedFrom(f, left) = LexError
      BY <2>1, <2>2 DEF AndThen
    <3> QED BY <3>1, ErrorIsNotRead DEF Ending
  <2>3. CASE Escaped(t).ok
    <3>1. PICK k : EscapeOf(t, k) /\ Escaped(t).rest = Skip(t, k)
      BY <1>2, <2>3, EscapedConsumes
    <3>2. /\ k \in {1, 3} /\ a + k <= Len(chars)
          /\ \A i \in a..a + k : ~EndsQuoted(i)
          /\ Backslashes(a + k + 1) % 2 = 0
      BY <1>1, <1>8, <3>1, EscapeIsInside
    <3>3. PICK q \in Nat : q = a + k
      BY <3>2
    <3>4. k \in 0..Len(t) /\ Len(Skip(t, k)) = Len(chars) - q /\ q \in a..Len(chars)
      <4>1. k \in 0..Len(t)
        BY <1>2, <3>2
      <4>2. Len(Skip(t, k)) = Len(t) - k
        BY <1>2, <4>1, SkipIsSeq
      <4> QED BY <1>2, <3>2, <3>3, <4>1, <4>2
    <3>5. QuotedFrom(f, left) = Before(Escaped(t).value, f[Len(chars) - q])
      BY <2>1, <2>3, <3>1, <3>4 DEF AndThen
    <3>6. Ending(q, f[Len(chars) - q])
      BY <3>2, <3>3, <3>4
    <3>7. \A i \in (a - 1) + 1..q : ~EndsQuoted(i)
      BY <1>6, <3>2, <3>3
    <3>8. a - 1 <= q
      BY <3>4
    <3> QED BY <1>6, <3>5, <3>6, <3>7, <3>8, EndingLater
  <2> QED BY <2>2, <2>3
<1>9. CASE chars[a] # "\"" /\ chars[a] # "\\"
  <2>1. QuotedFrom(f, left) = Before(Utf8[Head(left)], f[Len(left) - 1])
    BY <1>4, <1>5, <1>9 DEF QuotedFrom
  <2>2. Len(left) - 1 = Len(chars) - a
    BY <1>5
  <2>3. Backslashes(a + 1) % 2 = 0
    <3>1. Backslashes(a + 1) = IF chars[a] = "\\" THEN Backslashes(a) + 1 ELSE 0
      BY <1>6, BackslashesStep
    <3>2. Backslashes(a + 1) = 0
      BY <1>9, <3>1
    <3> QED BY <3>2
  <2>4. Ending(a, f[Len(chars) - a])
    BY <2>3
  <2>5. \A i \in (a - 1) + 1..a : ~EndsQuoted(i)
    <3>1. \A i \in (a - 1) + 1..a : i = a
      BY <1>6
    <3>2. ~EndsQuoted(a)
      BY <1>9 DEF EndsQuoted
    <3> QED BY <3>1, <3>2
  <2>6. PICK lexed : lexed = f[Len(chars) - a]
    OBVIOUS
  <2>7. QuotedFrom(f, left) = Before(Utf8[Head(left)], lexed) /\ Ending(a, lexed)
    BY <2>1, <2>2, <2>4, <2>6
  <2>8. a - 1 <= a /\ a \in Nat
    BY <1>6
  <2> QED BY <1>6, <2>5, <2>7, <2>8, EndingLater
<1> QED BY <1>7, <1>8, <1>9

\* How a quoted and a raw string begin.
OpensQuoted(s) == StartsWith(s, "\"")
OpensRaw(s, hashes) ==
  /\ hashes = Run(Skip(s, 1), IsHash)
  /\ StartsWith(s, "r") /\ OpensQuoted(Skip(s, hashes + 1))

\* What is read from behind an even number of backslashes ends at the first quote
\* that may end it.
LEMMA QuotedEndsFrom ==
  ASSUME NEW C, chars \in Seq(C), NEW p \in 0..Len(chars), Backslashes(p + 1) % 2 = 0
  PROVE  Ending(p, LexQuoted(Skip(chars, p)))
<1>1. PICK s : s = Skip(chars, p)
  OBVIOUS
<1>2. PICK L \in Nat : L = Len(chars)
  OBVIOUS
<1>3. s \in Seq(C) /\ Len(s) = L - p /\ p \in 0..L
  BY <1>1, <1>2, SkipIsSeq
<1>4. PICK f : /\ LexQuoted(s) = f[Len(s)]
               /\ \A n \in 0..Len(s) : f[n] = QuotedFrom(f, LastOf(s, n))
  BY <1>3, LexQuotedEquation
<1> DEFINE EndsFrom(n) == Backslashes(L - n + 1) % 2 = 0 => Ending(L - n, f[n])
           Bad == {n \in 0..L - p : ~EndsFrom(n)}
<1>5. ASSUME Bad # {} PROVE FALSE
  <2>1. PICK x \in Bad : \A n \in Bad : x <= n
    <3>1. Bad \in SUBSET Nat
      BY <1>3
    <3>2. Bad # {}
      BY <1>5
    <3> HIDE DEF Bad
    <3> QED BY <3>1, <3>2, LeastNumber
  <2>2. /\ x \in 0..L - p /\ Backslashes(L - x + 1) % 2 = 0 /\ ~Ending(L - x, f[x])
    BY <2>1
  <2>3. ASSUME NEW n \in 0..x - 1 PROVE EndsFrom(n)
    <3>1. n \in 0..L - p /\ ~(x <= n)
      BY <1>3, <2>2
    <3>2. n \notin Bad
      BY <2>1, <3>1
    <3> HIDE DEF EndsFrom
    <3> QED BY <3>1, <3>2
  <2>4. PICK left : left = LastOf(s, x)
    OBVIOUS
  <2>5. f[x] = QuotedFrom(f, left)
    BY <1>3, <1>4, <2>2, <2>4
  <2>6. CASE x = 0
    <3>1. left \in Seq(C) /\ Len(left) = 0
      <4>1. 0 \in 0..Len(s)
        BY <1>3
      <4> QED BY <1>3, <2>4, <2>6, <4>1, LastIsSkip
    <3>2. left = <<>>
      BY <3>1
    <3>3. QuotedFrom(f, left) = LexError
      BY <3>2 DEF QuotedFrom, StartsWith
    <3> QED BY <2>2, <2>5, <3>3, ErrorIsNotRead DEF Ending
  <2>7. CASE x # 0
    <3>1. PICK a \in 1..Len(chars) : a = L - x + 1
      BY <1>2, <1>3, <2>2, <2>7
    <3>2. left = Skip(chars, a - 1)
      <4>1. x \in 0..Len(s)
        BY <1>3, <2>2
      <4>2. left = Skip(s, Len(s) - x)
        BY <1>3, <2>4, <4>1, LastIsSkip
      <4>3. PICK j \in 0..Len(chars) - p : j = Len(s) - x /\ p + j = a - 1
        <5>1. (L - p) - x \in 0..L - p /\ p + ((L - p) - x) = a - 1
          BY <1>3, <2>2, <3>1
        <5> QED BY <1>2, <1>3, <5>1
      <4>4. Skip(Skip(chars, p), j) = Skip(chars, p + j)
        BY <4>3, SkipTwice
      <4> QED BY <1>1, <4>2, <4>3, <4>4
    <3>3. ASSUME NEW q \in a..Len(chars), Backslashes(q + 1) % 2 = 0
          PROVE  Ending(q, f[Len(chars) - q])
      <4>1. L - q \in 0..x - 1 /\ L - (L - q) = q
        BY <1>2, <2>2, <3>1
      <4>2. EndsFrom(L - q)
        BY <2>3, <4>1
      <4>3. Backslashes(L - (L - q) + 1) % 2 = 0 => Ending(L - (L - q), f[L - q])
        BY <4>2
      <4> QED BY <1>2, <3>3, <4>1, <4>3
    <3>4. Backslashes(a) % 2 = 0
      BY <2>2, <3>1
    <3>5. Ending(a - 1, QuotedFrom(f, left))
      BY <3>2, <3>3, <3>4, QuotedTurn
    <3>6. a - 1 = L - x
      BY <2>2, <3>1
    <3> QED BY <2>2, <2>5, <3>5, <3>6
  <2> QED BY <2>6, <2>7
<1>6. EndsFrom(L - p)
  <2>1. L - p \in 0..L - p
    BY <1>3
  <2> HIDE DEF EndsFrom
  <2> QED BY <1>5, <2>1
<1>7. L - (L - p) = p
  BY <1>3
<1>8. Ending(p, f[L - p])
  BY <1>6, <1>7
<1> QED BY <1>1, <1>3, <1>4, <1>8

\* A quoted string ends at its first quote that may end it.
LEMMA QuotedEnds ==
  ASSUME NEW C, chars \in Seq(C), OpensQuoted(chars)
  PROVE  Ending(1, LexString(chars))
<1>1. chars # <<>> /\ Head(chars) = "\""
  BY DEF OpensQuoted, StartsWith
<1>2. chars # <<>>
  BY <1>1, Zenon
<1>3. Len(chars) >= 1 /\ Len(chars) \in Nat
  BY <1>2
<1>4. chars[1] = "\""
  <2>1. Head(chars) = chars[1]
    BY <1>3
  <2> QED BY <1>1, <2>1, Zenon
<1>5. PICK s : s = Skip(chars, 1)
  OBVIOUS
<1>6. s \in Seq(C) /\ Len(s) = Len(chars) - 1
  <2>1. 1 \in 0..Len(chars)
    BY <1>3
  <2> QED BY <1>5, <2>1, SkipIsSeq
<1>7. LexString(chars) = LexQuoted(s)
  <2>1. Tail(chars) = s
    BY <1>3, <1>5, TailIsSkip
  <2> QED BY <1>1, <2>1, Zenon DEF LexString, StartsWith
<1>8. Backslashes(1 + 1) = 0
  <2>1. Backslashes(1 + 1) = IF chars[1] = "\\" THEN Backslashes(1) + 1 ELSE 0
    <3>1. 1 \in Nat \ {0}
      OBVIOUS
    <3> QED BY <3>1, BackslashesStep
  <2>2. "\"" # "\\"
    OBVIOUS
  <2> QED BY <1>4, <2>1, <2>2, Zenon
<1>9. Ending(1, LexQuoted(s))
  <2>1. 1 \in 0..Len(chars) /\ Backslashes(1 + 1) % 2 = 0
    BY <1>3, <1>8
  <2> QED BY <1>5, <2>1, QuotedEndsFrom
<1> QED BY <1>7, <1>9

\* A raw string, as the text after its opening quote.
LEMMA RawReads ==
  ASSUME NEW C, chars \in Seq(C), NEW h, OpensRaw(chars, h)
  PROVE  /\ h \in Nat /\ h + 2 <= Len(chars)
         /\ ~(h <= MaxHashes) => LexString(chars) = LexError
         /\ h <= MaxHashes => LexString(chars) = RawInner(Skip(chars, h + 2), h)
<1>1. chars # <<>> /\ Head(chars) = "r"
  BY DEF OpensRaw, StartsWith
<1>2. Len(chars) >= 1 /\ Len(chars) \in Nat
  BY <1>1
<1>3. PICK s : s = Skip(chars, 1)
  OBVIOUS
<1>4. s \in Seq(C) /\ Len(s) = Len(chars) - 1 /\ 1 \in 0..Len(chars)
  <2>1. 1 \in 0..Len(chars)
    BY <1>2
  <2> QED BY <1>3, <2>1, SkipIsSeq
<1>5. LexString(chars) = RawFrom(s, h)
  <2>1. Tail(chars) = s
    BY <1>2, <1>3, TailIsSkip
  <2>2. "r" # "\""
    OBVIOUS
  <2>3. LexString(chars) = LexRaw(Tail(chars))
    BY <1>1, <2>2, Zenon DEF LexString, StartsWith
  <2> QED BY <1>3, <2>1, <2>3 DEF LexRaw, OpensRaw
<1>6. h \in 0..Len(s)
  <2>1. h = Run(s, IsHash)
    BY <1>3 DEF OpensRaw
  <2> QED BY <1>4, <2>1, HashesRun DEF IsRun
<1>7. Skip(s, h) = Skip(chars, h + 1)
  <2>1. h \in 0..Len(chars) - 1 /\ 1 + h = h + 1
    BY <1>4, <1>6
  <2> QED BY <1>3, <1>4, <2>1, SkipTwice
<1>8. h + 1 <= Len(s)
  <2>1. Skip(s, h) \in Seq(C) /\ Len(Skip(s, h)) = Len(s) - h
    BY <1>4, <1>6, SkipIsSeq
  <2>2. Len(Skip(s, h)) >= 1
    BY <1>7, <2>1, StartsWithFirst DEF OpensRaw, OpensQuoted
  <2> QED BY <1>4, <1>6, <2>1, <2>2
<1>9. Skip(s, h + 1) = Skip(chars, h + 2)
  <2>1. h + 1 \in 0..Len(chars) - 1 /\ 1 + (h + 1) = h + 2
    BY <1>4, <1>6, <1>8
  <2>2. Skip(Skip(chars, 1), h + 1) = Skip(chars, 1 + (h + 1))
    BY <1>4, <2>1, SkipTwice
  <2> QED BY <1>3, <2>1, <2>2
<1>10. h \in Nat /\ h + 2 <= Len(chars)
  BY <1>4, <1>6, <1>8
<1> QED BY <1>5, <1>7, <1>9, <1>10 DEF RawFrom, OpensRaw, OpensQuoted

LEMMA ClosesInText ==
  ASSUME NEW C, chars \in Seq(C), NEW h \in Nat, h + 2 <= Len(chars),
         NEW k \in 1..Len(chars) - (h + 2)
  PROVE  ClosesAt(Skip(chars, h + 2), k, h) <=> EndsRaw(k + h + 2, h)
<1>1. PICK s : s = Skip(chars, h + 2)
  OBVIOUS
<1>2. /\ s \in Seq(C) /\ Len(s) = Len(chars) - (h + 2)
      /\ \A i \in 1..Len(chars) - (h + 2) : s[i] = chars[(h + 2) + i]
  <2>1. PICK n \in 0..Len(chars) : n = h + 2
    OBVIOUS
  <2>2. s = Skip(chars, n)
    BY <1>1, <2>1
  <2>3. /\ s \in Seq(C) /\ Len(s) = Len(chars) - n
        /\ \A i \in 1..Len(chars) - n : s[i] = chars[n + i]
    BY <2>2, SkipIsSeq
  <2> QED BY <2>1, <2>3
<1>3. Len(chars) \in Nat
  OBVIOUS
<1>4. s[k] = chars[k + h + 2]
  <2>1. (h + 2) + k = k + h + 2
    OBVIOUS
  <2> QED BY <1>2, <2>1
<1>5. k + h <= Len(s) <=> k + h + 2 + h <= Len(chars)
  BY <1>2, <1>3
<1>6. ASSUME k + h <= Len(s)
      PROVE  (\A i \in k + 1..k + h : s[i] = "#")
               <=> (\A i \in k + h + 2 + 1..k + h + 2 + h : chars[i] = "#")
  <2>1. ASSUME NEW i \in k + 1..k + h
        PROVE  s[i] = chars[i + (h + 2)] /\ i + (h + 2) \in k + h + 2 + 1..k + h + 2 + h
    <3>1. i \in 1..Len(chars) - (h + 2) /\ (h + 2) + i = i + (h + 2)
      BY <1>2, <1>3, <1>6
    <3>2. s[i] = chars[i + (h + 2)]
      BY <1>2, <3>1
    <3>3. i + (h + 2) \in k + h + 2 + 1..k + h + 2 + h
      OBVIOUS
    <3> QED BY <3>2, <3>3
  <2>2. ASSUME NEW i \in k + h + 2 + 1..k + h + 2 + h
        PROVE  i - (h + 2) \in k + 1..k + h /\ (i - (h + 2)) + (h + 2) = i
    OBVIOUS
  <2>3. ASSUME \A i \in k + 1..k + h : s[i] = "#", NEW i \in k + h + 2 + 1..k + h + 2 + h
        PROVE  chars[i] = "#"
    <3>1. i - (h + 2) \in k + 1..k + h /\ (i - (h + 2)) + (h + 2) = i
      BY <2>2
    <3>2. s[i - (h + 2)] = chars[(i - (h + 2)) + (h + 2)]
      BY <2>1, <3>1
    <3> QED BY <2>3, <3>1, <3>2
  <2> QED BY <2>1, <2>3
<1> QED BY <1>1, <1>4, <1>5, <1>6 DEF ClosesAt, EndsRaw

RawEndsAt(h, lexed, at) ==
  /\ at \in EndsOfRaw(h) /\ \A b \in EndsOfRaw(h) : at <= b
  /\ lexed = Lexed(BytesOf(SubSeq(chars, h + 3, at - 1)), Skip(chars, at + h))

\* A raw string ends at its first quote with enough hashes, or is refused.
LEMMA RawEnds ==
  ASSUME NEW C, chars \in Seq(C), NEW h, OpensRaw(chars, h)
  PROVE  IF EndsOfRaw(h) = {} \/ ~(h <= MaxHashes) THEN LexString(chars) = LexError
         ELSE \E at : RawEndsAt(h, LexString(chars), at)
<1>1. /\ h \in Nat /\ h + 2 <= Len(chars)
      /\ ~(h <= MaxHashes) => LexString(chars) = LexError
      /\ h <= MaxHashes => LexString(chars) = RawInner(Skip(chars, h + 2), h)
  BY RawReads
<1>2. PICK s : s = Skip(chars, h + 2)
  OBVIOUS
<1>3. PICK n \in 0..Len(chars) : n = h + 2
  BY <1>1
<1>4. s \in Seq(C) /\ Len(s) = Len(chars) - n
  BY <1>2, <1>3, SkipIsSeq
<1>5. PICK e : e = EndOfRaw(s, h)
  OBVIOUS
<1>6. FirstClose(s, h, 1, e)
  BY <1>1, <1>4, <1>5, EndOfRawIsFirst
<1>7. Len(chars) \in Nat /\ n \in Nat /\ Len(s) \in Nat
  BY <1>3, <1>4
<1>8. \A k \in 1..Len(s) : ClosesAt(s, k, h) <=> EndsRaw(k + h + 2, h)
  <2>1. ASSUME NEW k \in 1..Len(s) PROVE ClosesAt(s, k, h) <=> EndsRaw(k + h + 2, h)
    <3>1. k \in 1..Len(chars) - (h + 2)
      BY <1>3, <1>4
    <3> QED BY <1>1, <1>2, <3>1, ClosesInText
  <2> QED BY <2>1
<1>9. ASSUME NEW at \in EndsOfRaw(h)
      PROVE  /\ at - (h + 2) \in 1..Len(s) /\ ClosesAt(s, at - (h + 2), h)
  <2>1. at \in h + 3..Len(chars) /\ EndsRaw(at, h)
    BY DEF EndsOfRaw
  <2>2. PICK k \in Int : k = at - (h + 2)
    BY <1>1, <2>1
  <2>3. k \in 1..Len(s) /\ k + h + 2 = at
    <3>1. at \in Int /\ h + 3 <= at /\ at <= Len(chars) /\ h \in Nat
      BY <1>1, <1>7, <2>1
    <3>2. Len(s) = Len(chars) - (h + 2)
      BY <1>3, <1>4
    <3>3. k >= 1 /\ k + h + 2 = at
      BY <2>2, <3>1
    <3>4. k <= Len(s)
      BY <1>7, <2>2, <3>1, <3>2
    <3> QED BY <1>7, <3>3, <3>4
  <2> QED BY <1>8, <2>1, <2>2, <2>3
<1>10. ASSUME NEW k \in 1..Len(s), ClosesAt(s, k, h) PROVE k + h + 2 \in EndsOfRaw(h)
  <2>1. EndsRaw(k + h + 2, h)
    BY <1>8, <1>10
  <2>2. k + h + 2 \in h + 3..Len(chars)
    BY <1>1, <1>3, <1>4, <1>7
  <2> QED BY <2>1, <2>2 DEF EndsOfRaw
<1>11. CASE e = 0 /\ \A j \in 1..Len(s) : ~ClosesAt(s, j, h)
  <2>1. EndsOfRaw(h) = {}
    BY <1>9, <1>11
  <2>2. RawInner(s, h) = LexError
    BY <1>5, <1>11 DEF RawInner, RawUpTo
  <2> QED BY <1>1, <1>2, <2>1, <2>2
<1>12. CASE /\ e \in 1..Len(s) /\ ClosesAt(s, e, h)
            /\ \A j \in 1..e - 1 : ~ClosesAt(s, j, h)
  <2>1. PICK at : at = e + h + 2
    OBVIOUS
  <2>2. at \in EndsOfRaw(h)
    BY <1>10, <1>12, <2>1
  <2>3. ASSUME NEW b \in EndsOfRaw(h) PROVE at <= b
    <3>1. b - (h + 2) \in 1..Len(s) /\ ClosesAt(s, b - (h + 2), h)
      BY <1>9
    <3>2. b - (h + 2) \notin 1..e - 1
      BY <1>12, <3>1
    <3>3. b \in Int
      BY DEF EndsOfRaw
    <3> QED BY <1>1, <1>12, <2>1, <3>1, <3>2, <3>3
  <2>4. RawInner(s, h) = Lexed(BytesOf(SubSeq(s, 1, e - 1)), Skip(s, e + h))
    BY <1>5, <1>12 DEF RawInner, RawUpTo
  <2>5. SubSeq(s, 1, e - 1) = SubSeq(chars, h + 3, at - 1)
    <3>1. e - 1 \in 0..Len(chars) - n
      BY <1>4, <1>7, <1>12
    <3>2. SubSeq(Skip(chars, n), 1, e - 1) = SubSeq(chars, n + 1, n + (e - 1))
      BY <3>1, SubSeqOfSkip
    <3>3. n + 1 = h + 3 /\ n + (e - 1) = at - 1
      BY <1>1, <1>3, <1>12, <2>1
    <3> QED BY <1>2, <1>3, <3>2, <3>3
  <2>6. Skip(s, e + h) = Skip(chars, at + h)
    <3>1. e + h <= Len(s)
      BY <1>12 DEF ClosesAt
    <3>2. e + h \in 0..Len(chars) - n
      BY <1>1, <1>4, <1>7, <1>12, <3>1
    <3>3. Skip(Skip(chars, n), e + h) = Skip(chars, n + (e + h))
      BY <3>2, SkipTwice
    <3>4. n + (e + h) = at + h
      BY <1>1, <1>3, <1>12, <2>1
    <3> QED BY <1>2, <1>3, <3>3, <3>4
  <2>7. h <= MaxHashes => RawEndsAt(h, LexString(chars), at)
    BY <1>1, <1>2, <2>2, <2>3, <2>4, <2>5, <2>6 DEF RawEndsAt
  <2> QED BY <1>1, <2>2, <2>7
<1> QED BY <1>6, <1>11, <1>12 DEF FirstClose

LEMMA StringsHold ==
  ASSUME NEW C, chars \in Seq(C)
  PROVE  StringsEndAtFirstClose
<1>1. PICK lexed : lexed = LexString(chars)
  OBVIOUS
<1>2. PICK h : h = Run(Skip(chars, 1), IsHash)
  OBVIOUS
<1>3. StartsWith(chars, "\"") /\ lexed.ok =>
        \E at \in 2..Len(chars) :
          /\ EndsQuoted(at) /\ \A i \in 2..at - 1 : ~EndsQuoted(i)
          /\ lexed.rest = Skip(chars, at)
  <2>1. OpensQuoted(chars) => Ending(1, lexed)
    BY <1>1, QuotedEnds
  <2>2. 1 + 1 = 2
    OBVIOUS
  <2>3. Ending(1, lexed) /\ lexed.ok =>
          \E at \in 2..Len(chars) :
            /\ EndsQuoted(at) /\ \A i \in 2..at - 1 : ~EndsQuoted(i)
            /\ lexed.rest = Skip(chars, at)
    BY <2>2 DEF Ending
  <2>4. StartsWith(chars, "\"") => OpensQuoted(chars)
    BY DEF OpensQuoted
  <2> QED BY <2>1, <2>3, <2>4
<1>4. StartsWith(chars, "r") /\ StartsWith(Skip(chars, h + 1), "\"") =>
        IF EndsOfRaw(h) = {} \/ ~(h <= MaxHashes) THEN lexed = LexError
        ELSE \E at \in EndsOfRaw(h) :
               /\ \A b \in EndsOfRaw(h) : at <= b
               /\ lexed = Lexed(BytesOf(SubSeq(chars, h + 3, at - 1)), Skip(chars, at + h))
  <2>1. StartsWith(chars, "r") /\ StartsWith(Skip(chars, h + 1), "\"") => OpensRaw(chars, h)
    BY <1>2 DEF OpensRaw, OpensQuoted
  <2>2. OpensRaw(chars, h) =>
          IF EndsOfRaw(h) = {} \/ ~(h <= MaxHashes) THEN lexed = LexError
          ELSE \E at : RawEndsAt(h, lexed, at)
    BY <1>1, <1>2, RawEnds
  <2> QED BY <2>1, <2>2 DEF RawEndsAt
<1> QED BY <1>1, <1>2, <1>3, <1>4 DEF StringsEndAtFirstClose

-----------------------------------------------------------------------------
\* What is left after a place begins with the next character.
LEMMA StartsAfter ==
  ASSUME NEW C, NEW s \in Seq(C), NEW n \in 0..Len(s), NEW c
  PROVE  StartsWith(Skip(s, n), c) <=> n < Len(s) /\ s[n + 1] = c
<1>1. PICK t : t = Skip(s, n)
  OBVIOUS
<1>2. t \in Seq(C) /\ Len(t) = Len(s) - n /\ \A i \in 1..Len(s) - n : t[i] = s[n + i]
  BY <1>1, SkipIsSeq
<1>3. StartsWith(t, c) <=> Len(t) >= 1 /\ t[1] = c
  BY <1>2, StartsWithFirst
<1>4. CASE n < Len(s)
  <2>1. 1 \in 1..Len(s) - n
    BY <1>4
  <2>2. Len(t) >= 1 /\ t[1] = s[n + 1]
    BY <1>2, <2>1
  <2> QED BY <1>1, <1>3, <1>4, <2>2
<1>5. CASE ~(n < Len(s))
  <2>1. ~(Len(t) >= 1)
    BY <1>2, <1>5
  <2> QED BY <1>1, <1>3, <1>5, <2>1
<1> QED BY <1>4, <1>5

\* Nothing that belongs to a run follows it.
LEMMA RunStops ==
  ASSUME NEW C, NEW s \in Seq(C), NEW T, NEW n, IsRun(s, T, n)
  PROVE  \A c \in T : ~StartsWith(Skip(s, n), c)
<1>1. n \in 0..Len(s) /\ (n = Len(s) \/ s[n + 1] \notin T)
  BY DEF IsRun
<1> SUFFICES ASSUME NEW c \in T PROVE ~(n < Len(s) /\ s[n + 1] = c)
  BY <1>1, StartsAfter
<1> QED BY <1>1

\* The characters a lexer takes.
Takes(s, lexed, k, T) ==
  /\ k \in 1..Len(s) /\ lexed.rest = Skip(s, k)
  /\ \A i \in 1..k : s[i] \in T

\* Digits, and what may stand before them.
IntCharacters == DOMAIN Digit \cup {"-", "x"}

\* A number takes all the digits there are, and only digits.
LEMMA NumberTakes ==
  ASSUME NEW C, NEW s \in Seq(C), NEW sign, NEW radix, LexNumber(sign, s, radix).ok
  PROVE  /\ StopsBefore(LexNumber(sign, s, radix), DOMAIN Digit)
         /\ \E k : Takes(s, LexNumber(sign, s, radix), k, DOMAIN Digit)
<1>1. PICK n : n = Run(s, IsHexDigit)
  OBVIOUS
<1>2. IsRun(s, DOMAIN Digit, n)
  BY <1>1, HexRun, RunInIsRun
<1>3. PICK digits : digits = SubSeq(s, 1, n)
  OBVIOUS
<1>4. LexNumber(sign, s, radix) = LexDigits(sign, digits, Skip(s, n), radix)
  BY <1>1, <1>3 DEF LexNumber, SplitAt
<1>5. IsNumber(digits, radix)
      /\ LexNumber(sign, s, radix) = Lexed(sign * Number(digits, radix), Skip(s, n))
  BY <1>4, ErrorIsNotRead DEF LexDigits, ParsedNumber
<1>6. LexNumber(sign, s, radix).rest = Skip(s, n)
  BY <1>5, LexedLeaves DEF Leaves
<1>7. n \in 0..Len(s) /\ n # 0
  <2>1. n \in 0..Len(s)
    BY <1>2 DEF IsRun
  <2>2. digits # <<>>
    BY <1>5 DEF IsNumber
  <2>3. n = 0 => digits = <<>>
    BY <1>3
  <2> QED BY <2>1, <2>2, <2>3
<1>8. Takes(s, LexNumber(sign, s, radix), n, DOMAIN Digit)
  BY <1>2, <1>6, <1>7 DEF Takes, IsRun
<1>9. \A c \in DOMAIN Digit : ~StartsWith(Skip(s, n), c)
  BY <1>2, RunStops
<1> QED BY <1>6, <1>8, <1>9 DEF StopsBefore

\* What is taken after a few characters.
LEMMA TakesAfter ==
  ASSUME NEW C, NEW s \in Seq(C), NEW j \in 0..Len(s), NEW lexed, NEW k, NEW T, NEW U,
         Takes(Skip(s, j), lexed, k, T), T \subseteq U, \A i \in 1..j : s[i] \in U
  PROVE  j + k \in 1..Len(s) /\ Takes(s, lexed, j + k, U)
<1>1. PICK t : t = Skip(s, j)
  OBVIOUS
<1>2. t \in Seq(C) /\ Len(t) = Len(s) - j /\ \A i \in 1..Len(s) - j : t[i] = s[j + i]
  BY <1>1, SkipIsSeq
<1>3. k \in 1..Len(s) - j /\ lexed.rest = Skip(t, k) /\ \A i \in 1..k : t[i] \in T
  BY <1>1, <1>2 DEF Takes
<1>4. j + k \in 1..Len(s) /\ k \in 0..Len(s) - j
  BY <1>3
<1>5. lexed.rest = Skip(s, j + k)
  BY <1>1, <1>3, <1>4, SkipTwice
<1>6. ASSUME NEW i \in 1..j + k PROVE s[i] \in U
  <2>1. CASE i \in 1..j
    BY <2>1
  <2>2. CASE i \notin 1..j
    <3>1. i - j \in 1..k /\ i - j \in 1..Len(s) - j /\ j + (i - j) = i
      BY <1>3, <2>2
    <3> QED BY <1>2, <1>3, <3>1
  <2> QED BY <2>1, <2>2
<1> QED BY <1>4, <1>5, <1>6 DEF Takes

\* An integer takes its digits to the last, and nothing but digits, sign and prefix.
LEMMA IntTakes ==
  ASSUME NEW C, NEW s \in Seq(C), LexInt(s).ok
  PROVE  /\ StopsBefore(LexInt(s), DOMAIN Digit)
         /\ \E k : Takes(s, LexInt(s), k, IntCharacters)
<1>1. DOMAIN Digit \subseteq IntCharacters /\ "0" \in IntCharacters /\ "-" \in IntCharacters
      /\ "x" \in IntCharacters
  BY DEF IntCharacters, Digit
<1>2. ASSUME NEW j \in 0..Len(s), NEW sign, NEW radix,
             LexInt(s) = LexNumber(sign, Skip(s, j), radix), \A i \in 1..j : s[i] \in IntCharacters
      PROVE  /\ StopsBefore(LexInt(s), DOMAIN Digit)
             /\ \E k : Takes(s, LexInt(s), k, IntCharacters)
  <2>1. Skip(s, j) \in Seq(C)
    BY SkipIsSeq
  <2>2. /\ StopsBefore(LexInt(s), DOMAIN Digit)
        /\ \E k : Takes(Skip(s, j), LexInt(s), k, DOMAIN Digit)
    BY <1>2, <2>1, NumberTakes
  <2>3. PICK k : Takes(Skip(s, j), LexInt(s), k, DOMAIN Digit)
    BY <2>2
  <2>4. Takes(s, LexInt(s), j + k, IntCharacters)
    BY <1>1, <1>2, <2>3, TakesAfter
  <2> QED BY <2>2, <2>4
<1>3. CASE IsPrefix(<<"0", "x">>, s)
  <2>1. Len(s) >= 2 /\ s[1] = "0" /\ s[2] = "x"
    BY <1>3, HexPrefix
  <2>2. LexInt(s) = LexNumber(1, Skip(s, 2), 16)
    <3>1. StartsWith(s, "0")
      BY <2>1, StartsWithFirst
    <3>2. Radix(s) = 16
      BY <1>3, <3>1, Zenon DEF Radix
    <3> QED BY <3>2 DEF LexInt, LexInRadix
  <2>3. 2 \in 0..Len(s) /\ \A i \in 1..2 : i = 1 \/ i = 2
    BY <2>1
  <2>4. \A i \in 1..2 : s[i] \in IntCharacters
    BY <1>1, <2>1, <2>3
  <2> QED BY <1>2, <2>2, <2>3, <2>4
<1>4. CASE ~IsPrefix(<<"0", "x">>, s)
  <2>1. PICK radix : radix = Radix(s)
    OBVIOUS
  <2>2. radix \in {8, 10}
    BY <1>4, <2>1 DEF Radix
  <2>3. CASE StartsWith(s, "-")
    <3>1. LexInt(s) = LexNumber(-1, Skip(s, 1), radix)
      BY <2>1, <2>2, <2>3 DEF LexInt, LexInRadix
    <3>2. Len(s) >= 1 /\ s[1] = "-"
      BY <2>3, StartsWithFirst
    <3>3. 1 \in 0..Len(s) /\ \A i \in 1..1 : s[i] \in IntCharacters
      BY <1>1, <3>2
    <3> QED BY <1>2, <3>1, <3>3
  <2>4. CASE ~StartsWith(s, "-")
    <3>1. LexInt(s) = LexNumber(1, s, radix)
      BY <2>1, <2>2, <2>4 DEF LexInt, LexInRadix
    <3>2. Skip(s, 0) = s /\ 0 \in 0..Len(s) /\ \A i \in 1..0 : s[i] \in IntCharacters
      BY SkipNothing
    <3> QED BY <1>2, <3>1, <3>2
  <2> QED BY <2>3, <2>4
<1> QED BY <1>3, <1>4

\* A function that follows a loop through ever shorter texts exists.
Loop(f, N, goes, read, to, end) ==
  f = [n \in 0..N |-> IF n \in goes THEN Before(read[n], f[to[n]]) ELSE end[n]]

LEMMA LoopExists ==
  ASSUME NEW N \in Nat, NEW goes, NEW read, NEW to, NEW end,
         \A n \in 0..N : n \in goes => to[n] \in 0..n - 1
  PROVE  \E f : Loop(f, N, goes, read, to, end)
<1> DEFINE Turn(f, n) == IF n \in goes THEN Before(read[n], f[to[n]]) ELSE end[n]
           Bad == {n \in 0..N : ~\E f : f = [i \in 0..n |-> Turn(f, i)]}
<1>1. ASSUME Bad # {} PROVE FALSE
  <2>1. PICK x \in Bad : \A n \in Bad : x <= n
    <3>1. Bad \in SUBSET Nat
      OBVIOUS
    <3>2. Bad # {}
      BY <1>1
    <3> HIDE DEF Bad
    <3> QED BY <3>1, <3>2, LeastNumber
  <2>2. x \in 0..N
    BY <2>1
  <2>3. \E g : \A n \in 0..x - 1 : g[n] = Turn(g, n)
    <3>1. CASE x = 0
      BY <3>1
    <3>2. CASE x # 0
      <4>1. x - 1 \in 0..N /\ x - 1 \notin Bad
        BY <2>1, <2>2, <3>2
      <4>2. PICK g : g = [i \in 0..x - 1 |-> Turn(g, i)]
        BY <4>1
      <4> HIDE DEF Turn
      <4>3. \A n \in 0..x - 1 : g[n] = Turn(g, n)
        BY <4>2
      <4> QED BY <4>3
    <3> QED BY <3>1, <3>2
  <2>4. PICK g : \A n \in 0..x - 1 : g[n] = Turn(g, n)
    BY <2>3
  <2>5. PICK top : top = Turn(g, x)
    OBVIOUS
  <2>6. PICK f : f = [n \in 0..x |-> IF n = x THEN top ELSE g[n]]
    OBVIOUS
  <2>7. f[x] = top /\ \A n \in 0..x - 1 : f[n] = g[n]
    BY <2>2, <2>6
  <2>8. ASSUME NEW n \in 0..x PROVE f[n] = Turn(f, n)
    <3>1. n \in 0..N
      BY <2>2
    <3>2. Turn(f, n) = Turn(g, n)
      <4>1. CASE n \in goes
        <5>1. to[n] \in 0..x - 1
          BY <2>2, <3>1, <4>1
        <5> QED BY <2>7, <5>1
      <4>2. CASE n \notin goes
        BY <4>2
      <4> QED BY <4>1, <4>2
    <3> HIDE DEF Turn
    <3>3. CASE n = x
      BY <2>5, <2>7, <3>2, <3>3
    <3>4. CASE n # x
      <4>1. n \in 0..x - 1
        BY <2>2, <3>4
      <4> QED BY <2>4, <2>7, <3>2, <4>1
    <3> QED BY <3>3, <3>4
  <2>9. f = [n \in 0..x |-> f[n]]
    BY <2>6
  <2>10. f = [n \in 0..x |-> Turn(f, n)]
    <3> HIDE DEF Turn
    <3> QED BY <2>8, <2>9
  <2> QED BY <2>1, <2>10
<1>2. N \in 0..N
  OBVIOUS
<1>3. \E f : f = [i \in 0..N |-> Turn(f, i)]
  BY <1>1, <1>2
<1> QED BY <1>3 DEF Loop

-----------------------------------------------------------------------------
\* One turn of the loop over bytes.
BytesFrom(f, left) ==
  AndThen(FixedByte(left, 2, 16), LAMBDA byte, rest :
    IF MoreBytes(rest) THEN Before(<<byte>>, f[Len(rest) - 1]) ELSE Lexed(<<byte>>, rest))
IsBytes(f, s) == f = [n \in 0..Len(s) |-> BytesFrom(f, LastOf(s, n))]

\* The loop over bytes as a function of what is left.
LEMMA LexBytesEquation ==
  ASSUME NEW C, NEW s \in Seq(C)
  PROVE  \E f : /\ LexBytes(s) = f[Len(s)]
                /\ \A n \in 0..Len(s) : f[n] = BytesFrom(f, LastOf(s, n))
<1> DEFINE N == Len(s)
           First(n) == FixedByte(LastOf(s, n), 2, 16)
           goes == {n \in 0..N : First(n).ok /\ MoreBytes(First(n).rest)}
           read == [n \in 0..N |-> <<First(n).value>>]
           to == [n \in 0..N |-> Len(First(n).rest) - 1]
           end == [n \in 0..N |-> IF First(n).ok THEN Lexed(<<First(n).value>>, First(n).rest)
                                  ELSE LexError]
<1>1. ASSUME NEW n \in 0..N, n \in goes PROVE to[n] \in 0..n - 1
  <2>1. PICK left \in Seq(C) : left = LastOf(s, n) /\ Len(left) = n
    BY LastIsSkip
  <2>2. FixedByte(left, 2, 16).ok /\ MoreBytes(FixedByte(left, 2, 16).rest)
    BY <1>1, <2>1
  <2>3. Len(left) >= 2 /\ FixedByte(left, 2, 16).rest = Skip(left, 2)
    BY <2>2, FixedByteConsumes
  <2>4. 2 \in 0..Len(left)
    BY <2>1, <2>3
  <2>5. Skip(left, 2) \in Seq(C) /\ Len(Skip(left, 2)) = n - 2
    BY <2>1, <2>4, SkipIsSeq
  <2>6. Skip(left, 2) # <<>>
    BY <2>2, <2>3 DEF MoreBytes, IsSeparated
  <2>7. n - 2 \in 1..n
    BY <2>5, <2>6
  <2>8. to[n] = (n - 2) - 1
    BY <2>1, <2>3, <2>5
  <2> QED BY <2>7, <2>8
<1>2. ASSUME NEW f, NEW n \in 0..N
      PROVE  BytesFrom(f, LastOf(s, n)) = IF n \in goes THEN Before(read[n], f[to[n]]) ELSE end[n]
  BY DEF BytesFrom, AndThen
<1>3. N \in Nat
  OBVIOUS
<1>4. PICK f : Loop(f, N, goes, read, to, end)
  <2> HIDE DEF N, goes, read, to, end
  <2> QED BY <1>1, <1>3, LoopExists
<1>5. IsBytes(f, s)
  <2> HIDE DEF goes, read, to, end
  <2> QED BY <1>2, <1>4 DEF Loop, IsBytes
<1> DEFINE Chosen == CHOOSE g : IsBytes(g, s)
<1>6. IsBytes(Chosen, s)
  BY <1>5
<1>7. LexBytes(s) = Chosen[Len(s)]
  BY DEF LexBytes, IsBytes, BytesFrom
<1> HIDE DEF Chosen
<1>8. \A n \in 0..Len(s) : Chosen[n] = BytesFrom(Chosen, LastOf(s, n))
  BY <1>6 DEF IsBytes
<1> QED BY <1>7, <1>8

\* What is read before does not change what follows.
LEMMA StopsLater ==
  ASSUME NEW lexed, NEW T, StopsBefore(lexed, T), NEW read
  PROVE  StopsBefore(Before(read, lexed), T)
  BY BeforeLeaves DEF StopsBefore

\* No separator follows the last byte.
LEMMA BytesStop ==
  ASSUME NEW C, NEW s \in Seq(C)
  PROVE  StopsBefore(LexBytes(s), Separators)
<1>1. PICK f : /\ LexBytes(s) = f[Len(s)]
               /\ \A n \in 0..Len(s) : f[n] = BytesFrom(f, LastOf(s, n))
  BY LexBytesEquation
<1> DEFINE Bad == {n \in 0..Len(s) : ~StopsBefore(f[n], Separators)}
<1>2. ASSUME Bad # {} PROVE FALSE
  <2>1. PICK x \in Bad : \A n \in Bad : x <= n
    <3>1. Bad \in SUBSET Nat
      OBVIOUS
    <3>2. Bad # {}
      BY <1>2
    <3> HIDE DEF Bad
    <3> QED BY <3>1, <3>2, LeastNumber
  <2>2. x \in 0..Len(s) /\ ~StopsBefore(f[x], Separators)
    BY <2>1
  <2>3. PICK left \in Seq(C) : left = LastOf(s, x) /\ Len(left) = x
    BY <2>2, LastIsSkip
  <2>4. PICK first : first = FixedByte(left, 2, 16)
    OBVIOUS
  <2>5. f[x] = AndThen(first, LAMBDA byte, rest :
          IF MoreBytes(rest) THEN Before(<<byte>>, f[Len(rest) - 1]) ELSE Lexed(<<byte>>, rest))
    BY <1>1, <2>2, <2>3, <2>4 DEF BytesFrom
  <2>6. CASE ~first.ok
    <3>1. f[x] = LexError
      BY <2>5, <2>6 DEF AndThen
    <3> QED BY <2>2, <3>1, ErrorIsNotRead DEF StopsBefore
  <2>7. CASE first.ok /\ ~MoreBytes(first.rest)
    <3>1. f[x] = Lexed(<<first.value>>, first.rest)
      BY <2>5, <2>7 DEF AndThen
    <3>2. f[x].rest = first.rest
      BY <3>1, LexedLeaves DEF Leaves
    <3>3. \A c \in Separators : ~StartsWith(first.rest, c)
      BY <2>7 DEF MoreBytes, IsSeparated, StartsWith
    <3> QED BY <2>2, <3>2, <3>3 DEF StopsBefore
  <2>8. CASE first.ok /\ MoreBytes(first.rest)
    <3>1. f[x] = Before(<<first.value>>, f[Len(first.rest) - 1])
      BY <2>5, <2>8 DEF AndThen
    <3>2. Len(left) >= 2 /\ first.rest = Skip(left, 2)
      BY <2>4, <2>8, FixedByteConsumes
    <3>3. 2 \in 0..Len(left)
      BY <2>3, <3>2
    <3>4. Skip(left, 2) \in Seq(C) /\ Len(Skip(left, 2)) = x - 2
      BY <2>3, <3>3, SkipIsSeq
    <3>5. Skip(left, 2) # <<>>
      BY <2>8, <3>2 DEF MoreBytes, IsSeparated
    <3>6. (x - 2) - 1 \in 0..x - 1
      BY <2>2, <3>4, <3>5
    <3>7. (x - 2) - 1 \in 0..Len(s) /\ ~(x <= (x - 2) - 1)
      BY <2>2, <3>6
    <3>8. StopsBefore(f[(x - 2) - 1], Separators)
      BY <2>1, <3>7
    <3> QED BY <2>2, <3>1, <3>2, <3>4, <3>8, StopsLater
  <2> QED BY <2>6, <2>7, <2>8
<1>3. Len(s) \in 0..Len(s)
  OBVIOUS
<1> QED BY <1>1, <1>2, <1>3

\* A text that begins neither a quoted nor a raw string.
Unquoted(s) == ~StartsWith(s, "\"") /\ ~StartsWith(s, "r")

LEMMA ByteStringStops ==
  ASSUME NEW C, NEW s \in Seq(C), Unquoted(s)
  PROVE  StopsBefore(LexBytesExpr(s), Separators)
<1>1. PICK first : first = FixedByte(s, 2, 16)
  OBVIOUS
<1>2. LexBytesExpr(s) = AndThen(first, LAMBDA byte, rest :
        IF IsSeparated(rest) THEN Before(<<byte>>, LexBytes(Tail(rest))) ELSE LexError)
  BY <1>1 DEF LexBytesExpr, LexByteString, Unquoted
<1>3. CASE ~(first.ok /\ IsSeparated(first.rest))
  <2>1. LexBytesExpr(s) = LexError
    BY <1>2, <1>3 DEF AndThen
  <2> QED BY <2>1, ErrorIsNotRead DEF StopsBefore
<1>4. CASE first.ok /\ IsSeparated(first.rest)
  <2>1. LexBytesExpr(s) = Before(<<first.value>>, LexBytes(Tail(first.rest)))
    BY <1>2, <1>4 DEF AndThen
  <2>2. Len(s) >= 2 /\ first.rest = Skip(s, 2)
    BY <1>1, <1>4, FixedByteConsumes
  <2>3. first.rest \in Seq(C)
    <3>1. Len(s) \in Nat /\ Len(s) >= 2
      BY <2>2
    <3>2. 2 \in 0..Len(s)
      BY <3>1
    <3> QED BY <2>2, <3>2, SkipIsSeq
  <2>4. PICK rest \in Seq(C) : rest = first.rest
    BY <2>3
  <2>5. rest # <<>>
    BY <1>4, <2>4 DEF IsSeparated
  <2>6. Tail(rest) \in Seq(C)
    BY <2>5
  <2>7. StopsBefore(LexBytes(Tail(rest)), Separators)
    BY <2>6, BytesStop
  <2> QED BY <2>1, <2>4, <2>7, StopsLater
<1> QED BY <1>3, <1>4

-----------------------------------------------------------------------------
\* The run of characters of a name.
LEMMA NameRun ==
  ASSUME NEW C, NEW s \in Seq(C)
  PROVE  IsRun(s, NameChars, Run(s, IsNameChar))
<1> DEFINE outside == {i \in 1..Len(s) : s[i] \notin NameChars}
<1>1. outside # {} => Min(outside) # 0
  <2>1. outside \in SUBSET Nat /\ 0 \notin outside
    OBVIOUS
  <2> HIDE DEF outside
  <2> QED BY <2>1, MinIsLeast
<1>2. Run(s, IsNameChar) = RunUpTo(IF outside # {} THEN Min(outside) ELSE 0, s)
  <2>1. outside = {i \in 1..Len(s) : ~IsNameChar(s[i])}
    BY DEF IsNameChar
  <2> HIDE DEF outside
  <2> QED BY <2>1 DEF Run, SelectInSeq
<1>3. Run(s, IsNameChar) = RunIn(s, NameChars)
  BY <1>1, <1>2 DEF RunUpTo, RunIn
<1> QED BY <1>3, RunInIsRun

\* The name of a list is all the characters that may be in one.
LEMMA ListNameStops ==
  ASSUME NEW C, NEW s \in Seq(C)
  PROVE  StopsBefore(LexListName(s), NameChars)
<1>1. CASE ~StartsWith(s, "$")
  <2>1. LexListName(s) = LexError
    BY <1>1 DEF LexListName
  <2> QED BY <2>1, ErrorIsNotRead DEF StopsBefore
<1>2. CASE StartsWith(s, "$")
  <2>1. PICK t : t = Tail(s)
    OBVIOUS
  <2>2. s # <<>>
    BY <1>2 DEF StartsWith
  <2>3. t \in Seq(C)
    BY <2>1, <2>2
  <2>4. PICK n : n = Run(t, IsNameChar)
    OBVIOUS
  <2>5. LexListName(s) = NameUpTo(t, n)
    BY <1>2, <2>1, <2>4 DEF LexListName
  <2>6. LexListName(s).ok => LexListName(s).rest = Skip(t, n)
    BY <2>5, ErrorIsNotRead, LexedLeaves DEF NameUpTo, Leaves
  <2>7. IsRun(t, NameChars, n)
    BY <2>3, <2>4, NameRun
  <2>8. \A c \in NameChars : ~StartsWith(Skip(t, n), c)
    BY <2>3, <2>7, RunStops
  <2> QED BY <2>6, <2>8 DEF StopsBefore
<1> QED BY <1>1, <1>2

-----------------------------------------------------------------------------
\* The tables of operators, as sequences of whatever their entries are.
Entries == {OrderingOps[i] : i \in 1..12} \cup {IntOps[i] : i \in 1..2}
             \cup {BytesOps[i] : i \in 1..5} \cup {<< <<"i", "n">>, "In">>}

\* A tuple of a known length is the function of its components.
LEMMA TupleIsSeq ==
  ASSUME NEW E, NEW n \in Nat, NEW t, t = [i \in 1..n |-> t[i]], \A i \in 1..n : t[i] \in E
  PROVE  t \in Seq(E) /\ Len(t) = n
<1>1. t \in [1..n -> E]
  OBVIOUS
<1> QED BY <1>1

LEMMA TwelveEntries ==
  ASSUME NEW a, NEW b, NEW c, NEW d, NEW e, NEW f, NEW g, NEW h, NEW i, NEW j, NEW k, NEW l, NEW t,
         t = <<a, b, c, d, e, f, g, h, i, j, k, l>>
  PROVE  t = [n \in 1..12 |-> t[n]]
  OBVIOUS

LEMMA FiveEntries ==
  ASSUME NEW a, NEW b, NEW c, NEW d, NEW e, NEW t,
         t = <<a, b, c, d, e>>
  PROVE  t = [n \in 1..5 |-> t[n]]
  OBVIOUS

\* The tables as sequences, the whole one as their concatenation.
LEMMA Tables ==
  /\ OrderingOps \in Seq(Entries) /\ Len(OrderingOps) = 12
  /\ IntOps \in Seq(Entries) /\ Len(IntOps) = 2
  /\ BytesOps \in Seq(Entries) /\ Len(BytesOps) = 5
  /\ << << <<"i", "n">>, "In">> >> \in Seq(Entries)
<1>1. OrderingOps = [i \in 1..12 |-> OrderingOps[i]]
  BY TwelveEntries, Zenon DEF OrderingOps
<1>2. IntOps = [i \in 1..2 |-> IntOps[i]]
  BY DEF IntOps
<1>3. BytesOps = [i \in 1..5 |-> BytesOps[i]]
  BY FiveEntries, Zenon DEF BytesOps
<1>4. << <<"i", "n">>, "In">> \in Entries
  BY DEF Entries
<1>5. \A i \in 1..12 : OrderingOps[i] \in Entries
  BY DEF Entries
<1>6. \A i \in 1..2 : IntOps[i] \in Entries
  BY DEF Entries
<1>7. \A i \in 1..5 : BytesOps[i] \in Entries
  BY DEF Entries
<1>8. OrderingOps \in Seq(Entries) /\ Len(OrderingOps) = 12
  BY <1>1, <1>5, TupleIsSeq
<1>9. IntOps \in Seq(Entries) /\ Len(IntOps) = 2
  BY <1>2, <1>6, TupleIsSeq
<1>10. BytesOps \in Seq(Entries) /\ Len(BytesOps) = 5
  BY <1>3, <1>7, TupleIsSeq
<1>11. PICK in : in = << <<"i", "n">>, "In">>
  OBVIOUS
<1>12. <<in>> \in Seq(Entries)
  BY <1>4, <1>11
<1> QED BY <1>8, <1>9, <1>10, <1>11, <1>12
\* The places of the table of operators.
LEMMA OperatorAt ==
  /\ DOMAIN ComparisonOps = 1..20 /\ Len(ComparisonOps) = 20
  /\ \A i \in 2..13 : ComparisonOps[i] = OrderingOps[i - 1]
  /\ \A i \in 14..15 : ComparisonOps[i] = IntOps[i - 13]
  /\ \A i \in 16..20 : ComparisonOps[i] = BytesOps[i - 15]
  /\ ComparisonOps[1] = << <<"i", "n">>, "In">>
<1>1. PICK in : in = << << <<"i", "n">>, "In">> >>
  OBVIOUS
<1>2. in \in Seq(Entries) /\ Len(in) = 1 /\ in[1] = << <<"i", "n">>, "In">>
  BY <1>1, Tables
<1>3. PICK o, n, b : o = OrderingOps /\ n = IntOps /\ b = BytesOps
  OBVIOUS
<1>4. /\ o \in Seq(Entries) /\ Len(o) = 12
      /\ n \in Seq(Entries) /\ Len(n) = 2
      /\ b \in Seq(Entries) /\ Len(b) = 5
  BY <1>3, Tables
<1>5. PICK u : u = in \o o
  OBVIOUS
<1>6. u \in Seq(Entries) /\ Len(u) = 13 /\ u[1] = in[1] /\ \A i \in 2..13 : u[i] = o[i - 1]
  <2>1. /\ u \in Seq(Entries) /\ Len(u) = 13
        /\ \A i \in 1..13 : u[i] = IF i <= 1 THEN in[i] ELSE o[i - 1]
    <3>1. in \in Seq(Entries) /\ o \in Seq(Entries) /\ Len(in) = 1 /\ Len(o) = 12
      BY <1>2, <1>4, <1>5
    <3>2. /\ in \o o \in Seq(Entries) /\ Len(in \o o) = Len(in) + Len(o)
          /\ \A i \in 1..Len(in) + Len(o) :
               (in \o o)[i] = IF i <= Len(in) THEN in[i] ELSE o[i - Len(in)]
      BY <3>1, ConcatProperties, Zenon
    <3>3. 1 + 12 = 13
      OBVIOUS
    <3> QED BY <1>2, <1>4, <1>5, <3>1, <3>2, <3>3, Zenon
  <2> QED BY <2>1
<1>7. PICK v : v = u \o n
  OBVIOUS
<1>8. v \in Seq(Entries) /\ Len(v) = 15 /\ (\A i \in 1..13 : v[i] = u[i])
      /\ \A i \in 14..15 : v[i] = n[i - 13]
  <2>1. /\ v \in Seq(Entries) /\ Len(v) = 15
        /\ \A i \in 1..15 : v[i] = IF i <= 13 THEN u[i] ELSE n[i - 13]
    <3>1. u \in Seq(Entries) /\ n \in Seq(Entries) /\ Len(u) = 13 /\ Len(n) = 2
      BY <1>4, <1>6, <1>7
    <3>2. /\ u \o n \in Seq(Entries) /\ Len(u \o n) = Len(u) + Len(n)
          /\ \A i \in 1..Len(u) + Len(n) :
               (u \o n)[i] = IF i <= Len(u) THEN u[i] ELSE n[i - Len(u)]
      BY <3>1, ConcatProperties, Zenon
    <3>3. 13 + 2 = 15
      OBVIOUS
    <3> QED BY <1>4, <1>6, <1>7, <3>1, <3>2, <3>3, Zenon
  <2> QED BY <2>1
<1>9. PICK w : w = v \o b
  OBVIOUS
<1>10. w \in Seq(Entries) /\ Len(w) = 20 /\ (\A i \in 1..15 : w[i] = v[i])
       /\ \A i \in 16..20 : w[i] = b[i - 15]
  <2>1. /\ w \in Seq(Entries) /\ Len(w) = 20
        /\ \A i \in 1..20 : w[i] = IF i <= 15 THEN v[i] ELSE b[i - 15]
    <3>1. v \in Seq(Entries) /\ b \in Seq(Entries) /\ Len(v) = 15 /\ Len(b) = 5
      BY <1>4, <1>8, <1>9
    <3>2. /\ v \o b \in Seq(Entries) /\ Len(v \o b) = Len(v) + Len(b)
          /\ \A i \in 1..Len(v) + Len(b) :
               (v \o b)[i] = IF i <= Len(v) THEN v[i] ELSE b[i - Len(v)]
      BY <3>1, ConcatProperties, Zenon
    <3>3. 15 + 5 = 20
      OBVIOUS
    <3> QED BY <1>4, <1>8, <1>9, <3>1, <3>2, <3>3, Zenon
  <2> QED BY <2>1
<1>11. ComparisonOps = w
  BY <1>1, <1>3, <1>5, <1>7, <1>9 DEF ComparisonOps
<1>12. DOMAIN w = 1..20
  BY <1>10
<1>13. w[1] = in[1]
  BY <1>6, <1>8, <1>10
<1>14. \A i \in 2..13 : w[i] = o[i - 1]
  <2>1. \A i \in 2..13 : i \in 1..13 /\ i \in 1..15
    OBVIOUS
  <2> QED BY <1>6, <1>8, <1>10, <2>1
<1>15. \A i \in 14..15 : w[i] = n[i - 13]
  BY <1>8, <1>10
<1> QED BY <1>2, <1>3, <1>10, <1>11, <1>12, <1>13, <1>14, <1>15

\* The short spellings come last, but for one that no later spelling starts with.
LEMMA Spellings ==
  /\ \A i \in 1..12 : i # 11 => Len(ComparisonOps[i][1]) = 2
  /\ \A i \in 13..20 : Len(ComparisonOps[i][1]) = 1
  /\ ComparisonOps[11][1] = <<">">> /\ ComparisonOps[12][1] = <<"l", "t">>
<1>1. /\ OrderingOps[1][1] = <<"e", "q">> /\ OrderingOps[2][1] = <<"=", "=">>
      /\ OrderingOps[3][1] = <<"n", "e">> /\ OrderingOps[4][1] = <<"!", "=">>
      /\ OrderingOps[5][1] = <<"g", "e">> /\ OrderingOps[6][1] = <<">", "=">>
      /\ OrderingOps[7][1] = <<"l", "e">> /\ OrderingOps[8][1] = <<"<", "=">>
      /\ OrderingOps[9][1] = <<"g", "t">> /\ OrderingOps[10][1] = <<">">>
      /\ OrderingOps[11][1] = <<"l", "t">> /\ OrderingOps[12][1] = <<"<">>
  BY DEF OrderingOps
<1>2. \A i \in 1..12 : Len(OrderingOps[i][1]) = IF i \in {10, 12} THEN 1 ELSE 2
  <2>1. /\ Len(OrderingOps[1][1]) = 2 /\ Len(OrderingOps[2][1]) = 2
        /\ Len(OrderingOps[3][1]) = 2 /\ Len(OrderingOps[4][1]) = 2
        /\ Len(OrderingOps[5][1]) = 2 /\ Len(OrderingOps[6][1]) = 2
        /\ Len(OrderingOps[7][1]) = 2 /\ Len(OrderingOps[8][1]) = 2
        /\ Len(OrderingOps[9][1]) = 2 /\ Len(OrderingOps[10][1]) = 1
        /\ Len(OrderingOps[11][1]) = 2 /\ Len(OrderingOps[12][1]) = 1
    BY <1>1
  <2>2. \A i \in 1..12 : i = 1 \/ i = 2 \/ i = 3 \/ i = 4 \/ i = 5 \/ i = 6 \/ i = 7 \/ i = 8
                         \/ i = 9 \/ i = 10 \/ i = 11 \/ i = 12
    OBVIOUS
  <2> QED BY <2>1, <2>2
<1>3. \A i \in 1..2 : Len(IntOps[i][1]) = 1
  BY DEF IntOps
<1>4. \A i \in 1..5 : Len(BytesOps[i][1]) = 1
  <2>1. /\ BytesOps[1][1] = <<"contains">> /\ BytesOps[2][1] = <<"~">>
        /\ BytesOps[3][1] = <<"matches">> /\ BytesOps[4][1] = <<"wildcard">>
        /\ BytesOps[5][1] = <<"strict wildcard">>
    BY DEF BytesOps
  <2>2. /\ Len(BytesOps[1][1]) = 1 /\ Len(BytesOps[2][1]) = 1 /\ Len(BytesOps[3][1]) = 1
        /\ Len(BytesOps[4][1]) = 1 /\ Len(BytesOps[5][1]) = 1
    BY <2>1
  <2>3. \A i \in 1..5 : i = 1 \/ i = 2 \/ i = 3 \/ i = 4 \/ i = 5
    OBVIOUS
  <2> QED BY <2>2, <2>3
<1>5. Len(ComparisonOps[1][1]) = 2
  <2>1. ComparisonOps[1][1] = <<"i", "n">>
    BY OperatorAt
  <2> QED BY <2>1
<1>6. \A i \in 2..13 : Len(ComparisonOps[i][1]) = IF i \in {11, 13} THEN 1 ELSE 2
  <2>1. ASSUME NEW i \in 2..13
        PROVE  Len(ComparisonOps[i][1]) = IF i \in {11, 13} THEN 1 ELSE 2
    <3>1. PICK j \in 1..12 : j = i - 1
      OBVIOUS
    <3>2. ComparisonOps[i] = OrderingOps[j]
      BY <3>1, OperatorAt
    <3>3. j \in {10, 12} <=> i \in {11, 13}
      BY <3>1
    <3>4. Len(OrderingOps[j][1]) = IF j \in {10, 12} THEN 1 ELSE 2
      BY <1>2
    <3> QED BY <3>2, <3>3, <3>4, Zenon
  <2> QED BY <2>1
<1>7. \A i \in 14..20 : Len(ComparisonOps[i][1]) = 1
  <2>1. \A i \in 14..15 : i - 13 \in 1..2
    OBVIOUS
  <2>2. \A i \in 16..20 : i - 15 \in 1..5
    OBVIOUS
  <2>3. \A i \in 14..20 : i \in 14..15 \/ i \in 16..20
    OBVIOUS
  <2> QED BY <1>3, <1>4, <2>1, <2>2, <2>3, OperatorAt
<1>8. ComparisonOps[11][1] = <<">">> /\ ComparisonOps[12][1] = <<"l", "t">>
  <2>1. 11 \in 2..13 /\ 12 \in 2..13 /\ 11 - 1 = 10 /\ 12 - 1 = 11
    OBVIOUS
  <2> QED BY <1>1, <2>1, OperatorAt
<1>9. \A i \in 1..12 : i = 1 \/ i \in 2..13
  OBVIOUS
<1>10. \A i \in 13..20 : i \in 2..13 \/ i \in 14..20
  OBVIOUS
<1> QED BY <1>5, <1>6, <1>7, <1>8, <1>9, <1>10

\* What a spelling of one or two characters takes from a text.
LEMMA SpellingIsPrefix ==
  ASSUME NEW C, NEW s \in Seq(C), NEW word, Len(word) \in {1, 2}, IsPrefix(word, s)
  PROVE  Len(word) <= Len(s) /\ Len(Skip(s, Len(word))) = Len(s) - Len(word)
<1>1. PICK n \in {1, 2} : n = Len(word)
  OBVIOUS
<1>2. n <= Len(s)
  BY <1>1 DEF IsPrefix
<1>3. n \in 0..Len(s)
  BY <1>2
<1>4. Len(Skip(s, n)) = Len(s) - n
  BY <1>3, SkipIsSeq
<1> QED BY <1>1, <1>2, <1>4

\* The operator that is read is the longest of those the text starts with.
LEMMA LongestOperator ==
  ASSUME NEW C, NEW s \in Seq(C), NEW lexed, lexed = LexEnum(s, ComparisonOps), lexed.ok,
         NEW i \in DOMAIN ComparisonOps, IsPrefix(ComparisonOps[i][1], s)
  PROVE  Len(ComparisonOps[i][1]) <= Len(s) - Len(lexed.rest)
<1> DEFINE fits == {k \in 1..20 : IsPrefix(ComparisonOps[k][1], s)}
<1>1. i \in 1..20 /\ i \in fits
  BY OperatorAt
<1>2. PICK n : n = Min(fits)
  OBVIOUS
<1>3. n \in 1..20 /\ IsPrefix(ComparisonOps[n][1], s) /\ n <= i
  <2>1. fits \in SUBSET Nat /\ fits # {}
    BY <1>1
  <2>2. n \in fits /\ \A k \in fits : n <= k
    <3> HIDE DEF fits
    <3> QED BY <1>2, <2>1, MinIsLeast
  <2> QED BY <1>1, <2>2
<1>4. SelectInSeq(ComparisonOps, LAMBDA entry : IsPrefix(entry[1], s)) = n
  BY <1>1, <1>2, OperatorAt DEF SelectInSeq
<1>5. lexed = Lexed(ComparisonOps[n][2], Skip(s, Len(ComparisonOps[n][1])))
  <2>1. n # 0
    BY <1>3
  <2> QED BY <1>4, <2>1 DEF LexEnum, EntryAt
<1>6. lexed.rest = Skip(s, Len(ComparisonOps[n][1]))
  BY <1>5, LexedLeaves DEF Leaves
<1>7. \A k \in 1..20 : Len(ComparisonOps[k][1]) \in {1, 2}
  <2>1. \A k \in 1..20 : k = 11 \/ (k # 11 /\ k \in 1..12) \/ k \in 13..20
    OBVIOUS
  <2>2. Len(ComparisonOps[11][1]) = 1
    BY Spellings
  <2> QED BY <2>1, <2>2, Spellings
<1>8. Len(s) - Len(lexed.rest) = Len(ComparisonOps[n][1])
  <2>1. PICK word : word = ComparisonOps[n][1]
    OBVIOUS
  <2>2. Len(word) \in {1, 2}
    BY <1>3, <1>7, <2>1
  <2>3. Len(Skip(s, Len(word))) = Len(s) - Len(word)
    <3>1. IsPrefix(word, s)
      BY <1>3, <2>1, Zenon
    <3> QED BY <2>2, <3>1, SpellingIsPrefix
  <2>4. Len(s) \in Nat
    OBVIOUS
  <2> QED BY <1>6, <2>1, <2>2, <2>3, <2>4
<1>9. PICK mine, taken : mine = Len(ComparisonOps[i][1]) /\ taken = Len(ComparisonOps[n][1])
  OBVIOUS
<1>10. mine <= taken
  <2>1. CASE n # 11 /\ n \in 1..12
    <3>1. taken = 2
      BY <1>9, <2>1, Spellings
    <3>2. mine \in {1, 2}
      BY <1>1, <1>7, <1>9
    <3> QED BY <3>1, <3>2
  <2>2. CASE n \in 13..20
    <3>1. i \in 13..20
      BY <1>1, <1>3, <2>2
    <3>2. taken = 1 /\ mine = 1
      BY <1>9, <2>2, <3>1, Spellings
    <3> QED BY <3>2
  <2>3. CASE n = 11
    <3>1. taken = 1
      BY <1>9, <2>3, Spellings
    <3>2. i = 11 \/ i = 12 \/ i \in 13..20
      BY <1>1, <1>3, <2>3
    <3>3. i # 12
      <4>1. ASSUME i = 12 PROVE FALSE
        <5>1. IsPrefix(<<">">>, s) /\ IsPrefix(<<"l", "t">>, s)
          BY <1>3, <2>3, <4>1, Spellings
        <5>2. s[1] = ">"
          BY <5>1 DEF IsPrefix
        <5>3. s[1] = "l"
          BY <5>1 DEF IsPrefix
        <5> QED BY <5>2, <5>3
      <4> QED BY <4>1
    <3>4. i \in 13..20 => mine = 1
      BY <1>9, Spellings
    <3>5. i = 11 => mine = taken
      BY <1>9, <2>3
    <3> QED BY <3>1, <3>2, <3>3, <3>4, <3>5
  <2> QED BY <1>3, <2>1, <2>2, <2>3
<1> QED BY <1>8, <1>9, <1>10

-----------------------------------------------------------------------------
\* The spaces that are skipped.
Spaces == {" "}

LEMMA SpaceIsOne == \A c : IsSpace(c) <=> c \in Spaces
  BY Zenon DEF IsSpace, Spaces

LEMMA SpaceRun ==
  ASSUME NEW C, NEW s \in Seq(C)
  PROVE  \E n : IsRun(s, Spaces, n) /\ SkipSpace(s) = Skip(s, n)
<1> DEFINE outside == {i \in 1..Len(s) : s[i] \notin Spaces}
<1>1. outside # {} => Min(outside) # 0
  <2>1. outside \in SUBSET Nat /\ 0 \notin outside
    OBVIOUS
  <2> HIDE DEF outside
  <2> QED BY <2>1, MinIsLeast
<1>2. Run(s, IsSpace) = RunUpTo(IF outside # {} THEN Min(outside) ELSE 0, s)
  <2>1. outside = {i \in 1..Len(s) : ~IsSpace(s[i])}
    BY SpaceIsOne
  <2> HIDE DEF outside
  <2> QED BY <2>1 DEF Run, SelectInSeq
<1>3. Run(s, IsSpace) = RunIn(s, Spaces)
  BY <1>1, <1>2 DEF RunUpTo, RunIn
<1>4. IsRun(s, Spaces, RunIn(s, Spaces))
  BY RunInIsRun
<1> QED BY <1>3, <1>4 DEF SkipSpace

\* Two integers with dots between them, in the order of their values.
RangeCharacters == IntCharacters \cup {"."}
OrderedValue(lexed) == lexed.value[1] <= lexed.value[2]

\* A range that is accepted is in order.
LEMMA RangeToIsOrdered ==
  ASSUME NEW first, NEW last, NEW rest, RangeTo(first, last, rest).ok
  PROVE  RangeTo(first, last, rest).rest = rest /\ OrderedValue(RangeTo(first, last, rest))
<1>1. first <= last /\ RangeTo(first, last, rest) = Lexed(<<first, last>>, rest)
  BY ErrorIsNotRead DEF RangeTo
<1>2. <<first, last>>[1] = first /\ <<first, last>>[2] = last
  OBVIOUS
<1>3. RangeTo(first, last, rest).value = <<first, last>> /\ RangeTo(first, last, rest).rest = rest
  BY <1>1 DEF Lexed
<1> QED BY <1>1, <1>2, <1>3, Zenon DEF OrderedValue

\* A range takes nothing but its own characters.
LEMMA RangeTakes ==
  ASSUME NEW C, NEW s \in Seq(C), LexIntRange(s).ok
  PROVE  /\ OrderedValue(LexIntRange(s))
         /\ \E k : Takes(s, LexIntRange(s), k, RangeCharacters)
<1>1. PICK first : first = LexInt(s)
  OBVIOUS
<1>2. LexIntRange(s) =
        AndThen(first, LAMBDA value, rest :
          IF IsPrefix(<<".", ".">>, rest)
          THEN AndThen(LexInt(Skip(rest, 2)), LAMBDA last, after : RangeTo(value, last, after))
          ELSE RangeTo(value, value, rest))
  BY <1>1 DEF LexIntRange
<1>3. first.ok
  <2>1. ~first.ok => LexIntRange(s) = LexError
    BY <1>2 DEF AndThen
  <2> QED BY <2>1, ErrorIsNotRead
<1>4. PICK k : Takes(s, first, k, IntCharacters)
  BY <1>1, <1>3, IntTakes
<1>5. k \in 1..Len(s) /\ first.rest = Skip(s, k) /\ \A i \in 1..k : s[i] \in IntCharacters
  BY <1>4 DEF Takes
<1>6. PICK t : t = Skip(s, k)
  OBVIOUS
<1>7. t \in Seq(C) /\ Len(t) = Len(s) - k /\ \A i \in 1..Len(s) - k : t[i] = s[k + i]
  <2>1. k \in 0..Len(s)
    BY <1>5
  <2> QED BY <1>6, <2>1, SkipIsSeq
<1>8. CASE ~IsPrefix(<<".", ".">>, t)
  <2>1. LexIntRange(s) = RangeTo(first.value, first.value, t)
    BY <1>2, <1>3, <1>5, <1>6, <1>8 DEF AndThen
  <2>2. LexIntRange(s).rest = t /\ OrderedValue(LexIntRange(s))
    BY <2>1, RangeToIsOrdered
  <2>3. Takes(s, LexIntRange(s), k, RangeCharacters)
    BY <1>5, <1>6, <2>2 DEF Takes, RangeCharacters
  <2> QED BY <2>2, <2>3
<1>9. CASE IsPrefix(<<".", ".">>, t)
  <2>1. PICK u : u = Skip(t, 2)
    OBVIOUS
  <2>2. PICK second : second = LexInt(u)
    OBVIOUS
  <2>3. LexIntRange(s) =
          AndThen(second, LAMBDA last, after : RangeTo(first.value, last, after))
    BY <1>2, <1>3, <1>5, <1>6, <1>9, <2>1, <2>2 DEF AndThen
  <2>4. second.ok /\ LexIntRange(s) = RangeTo(first.value, second.value, second.rest)
    BY <2>3, ErrorIsNotRead DEF AndThen
  <2>5. LexIntRange(s).rest = second.rest /\ OrderedValue(LexIntRange(s))
    BY <2>4, RangeToIsOrdered
  <2>6. Len(t) >= 2 /\ t[1] = "." /\ t[2] = "."
    BY <1>7, <1>9 DEF IsPrefix
  <2>7. k \in 0..Len(s) /\ 2 \in 0..Len(s) - k /\ k + 2 \in 0..Len(s)
    BY <1>5, <1>7, <2>6
  <2>8. u = Skip(s, k + 2)
    BY <1>6, <2>1, <2>7, SkipTwice
  <2>9. u \in Seq(C)
    BY <2>7, <2>8, SkipIsSeq
  <2>10. PICK m : Takes(u, second, m, IntCharacters)
    BY <2>2, <2>4, <2>9, IntTakes
  <2>11. ASSUME NEW i \in 1..k + 2 PROVE s[i] \in RangeCharacters
    <3>1. CASE i \in 1..k
      BY <1>5, <3>1 DEF RangeCharacters
    <3>2. CASE i \notin 1..k
      <4>1. i - k \in {1, 2} /\ i - k \in 1..Len(s) - k /\ k + (i - k) = i
        BY <1>5, <2>7, <3>2
      <4>2. s[i] = "."
        BY <1>7, <2>6, <4>1
      <4> QED BY <4>2 DEF RangeCharacters
    <3> QED BY <3>1, <3>2
  <2>12. IntCharacters \subseteq RangeCharacters
    BY DEF RangeCharacters
  <2>13. PICK j \in 0..Len(s) : j = k + 2
    BY <2>7
  <2>14. Takes(s, second, j + m, RangeCharacters)
    <3>1. Takes(Skip(s, j), second, m, IntCharacters) /\ \A i \in 1..j : s[i] \in RangeCharacters
      BY <2>8, <2>10, <2>11, <2>13
    <3> QED BY <2>12, <3>1, TakesAfter
  <2>15. Takes(s, LexIntRange(s), j + m, RangeCharacters)
    BY <2>5, <2>14 DEF Takes
  <2> QED BY <2>5, <2>15
<1> QED BY <1>8, <1>9

-----------------------------------------------------------------------------
Brace == "}"

\* A brace is neither a space nor in a range.
LEMMA BraceIsNone ==
  /\ Brace \notin RangeCharacters /\ Brace \notin Spaces
  /\ \A c \in Spaces : c \notin RangeCharacters
<1>1. Brace \notin RangeCharacters
  BY DEF Brace, RangeCharacters, IntCharacters, Digit
<1>2. Brace \notin Spaces
  <2>1. "}" # " "
    OBVIOUS
  <2> QED BY <2>1, Zenon DEF Brace, Spaces
<1>3. " " \notin RangeCharacters
  BY DEF RangeCharacters, IntCharacters, Digit
<1>4. \A c \in Spaces : c = " "
  BY Zenon DEF Spaces
<1> QED BY <1>1, <1>2, <1>3, <1>4, Zenon

\* The spaces behind a place are skipped.
LEMMA SkipSpaceSkips ==
  ASSUME NEW C, NEW s \in Seq(C), NEW p \in 0..Len(s)
  PROVE  \E j \in p..Len(s) :
           SkipSpace(Skip(s, p)) = Skip(s, j) /\ \A i \in p + 1..j : s[i] \in Spaces
<1>1. PICK t : t = Skip(s, p)
  OBVIOUS
<1>2. t \in Seq(C) /\ Len(t) = Len(s) - p /\ \A i \in 1..Len(s) - p : t[i] = s[p + i]
  BY <1>1, SkipIsSeq
<1>3. PICK n : IsRun(t, Spaces, n) /\ SkipSpace(t) = Skip(t, n)
  BY <1>2, SpaceRun
<1>4. n \in 0..Len(s) - p /\ \A i \in 1..n : t[i] \in Spaces
  BY <1>2, <1>3 DEF IsRun
<1>5. SkipSpace(t) = Skip(s, p + n)
  BY <1>1, <1>3, <1>4, SkipTwice
<1>6. ASSUME NEW i \in p + 1..p + n PROVE s[i] \in Spaces
  <2>1. i - p \in 1..n /\ i - p \in 1..Len(s) - p /\ p + (i - p) = i
    BY <1>4
  <2> QED BY <1>2, <1>4, <2>1
<1>7. p + n \in p..Len(s)
  BY <1>4
<1> QED BY <1>1, <1>5, <1>6, <1>7

\* One more value, read before the others.
LEMMA BeforeHolds ==
  ASSUME NEW v, NEW lexed, Before(<<v>>, lexed).ok
  PROVE  lexed.ok /\ Before(<<v>>, lexed) = Lexed(<<v>> \o lexed.value, lexed.rest)
  BY ErrorIsNotRead DEF Before, AndThen

LEMMA OneMore ==
  ASSUME NEW V, NEW v \in V, NEW more \in Seq(V)
  PROVE  /\ <<v>> \o more \in Seq(V) /\ Len(<<v>> \o more) = Len(more) + 1
         /\ <<v>> \o more # <<>>
  OBVIOUS

\* What the loop reads after a place: all that is before the first closing brace.
Listing(s, p, lexed, V) ==
  lexed.ok =>
    \E end \in p + 1..Len(s) :
      /\ s[end] = Brace /\ \A i \in p + 1..end - 1 : s[i] # Brace
      /\ lexed.rest = Skip(s, end) /\ lexed.value \in Seq(V)
      /\ lexed.value = <<>> <=> \A i \in p + 1..end - 1 : s[i] \in Spaces

RangesFrom(f, left) ==
  IF StartsWith(left, Brace) THEN Lexed(<<>>, Tail(left))
  ELSE AndThen(LexIntRange(left), LAMBDA range, rest : Before(<<range>>, f[Len(rest)]))

\* One turn of the loop.
LEMMA RangesTurn ==
  ASSUME NEW C, NEW s \in Seq(C), NEW V, NEW p \in 0..Len(s), NEW f, NEW left,
         left = SkipSpace(Skip(s, p)), LexIntRange(left).ok => LexIntRange(left).value \in V,
         \A q \in p + 1..Len(s) : Listing(s, q, f[Len(s) - q], V)
  PROVE  Listing(s, p, RangesFrom(f, left), V)
<1>1. PICK j \in p..Len(s) : left = Skip(s, j) /\ \A i \in p + 1..j : s[i] \in Spaces
  BY SkipSpaceSkips
<1>2. j \in 0..Len(s) /\ Len(s) \in Nat /\ p \in Nat
  OBVIOUS
<1>3. left \in Seq(C) /\ Len(left) = Len(s) - j
      /\ (StartsWith(left, Brace) <=> j < Len(s) /\ s[j + 1] = Brace)
  <2>1. left = Skip(s, j)
    BY <1>1
  <2>2. Skip(s, j) \in Seq(C) /\ Len(Skip(s, j)) = Len(s) - j
    BY <1>2, SkipIsSeq
  <2>3. StartsWith(Skip(s, j), Brace) <=> j < Len(s) /\ s[j + 1] = Brace
    BY <1>2, StartsAfter
  <2> QED BY <2>1, <2>2, <2>3
<1>4. CASE StartsWith(left, Brace)
  <2>1. RangesFrom(f, left) = Lexed(<<>>, Tail(left))
    BY <1>4 DEF RangesFrom
  <2>2. PICK k \in 1..Len(s) : k = j + 1 /\ s[k] = Brace
    BY <1>2, <1>3, <1>4
  <2>3. Tail(left) = Skip(s, k)
    <3>1. k - 1 = j
      BY <1>2, <2>2
    <3> QED BY <1>1, <2>2, <3>1, TailAt
  <2>4. k \in p + 1..Len(s) /\ k - 1 = j
    BY <1>2, <2>2
  <2>5. \A i \in p + 1..k - 1 : s[i] \in Spaces /\ s[i] # Brace
    BY <1>1, <2>4, BraceIsNone
  <2>6. /\ RangesFrom(f, left).rest = Skip(s, k)
        /\ RangesFrom(f, left).value = <<>> /\ RangesFrom(f, left).value \in Seq(V)
    BY <2>1, <2>3 DEF Lexed
  <2> QED BY <2>2, <2>4, <2>5, <2>6 DEF Listing
<1>5. CASE ~StartsWith(left, Brace)
  <2>1. PICK range : range = LexIntRange(left)
    OBVIOUS
  <2>2. RangesFrom(f, left) = AndThen(range, LAMBDA value, rest : Before(<<value>>, f[Len(rest)]))
    BY <1>5, <2>1 DEF RangesFrom
  <2>3. CASE ~range.ok
    <3>1. RangesFrom(f, left) = LexError
      BY <2>2, <2>3 DEF AndThen
    <3> QED BY <3>1, ErrorIsNotRead DEF Listing
  <2>4. CASE range.ok
    <3>1. PICK k : Takes(left, range, k, RangeCharacters)
      BY <1>3, <2>1, <2>4, RangeTakes
    <3>2. k \in 1..Len(left) /\ range.rest = Skip(left, k)
          /\ \A i \in 1..k : left[i] \in RangeCharacters
      BY <3>1 DEF Takes
    <3>3. PICK q \in p + 1..Len(s) : q = j + k
      BY <1>2, <1>3, <3>2
    <3>4. range.rest = Skip(s, q) /\ Len(range.rest) = Len(s) - q
      <4>1. k \in 0..Len(s) - j
        BY <1>3, <3>2
      <4>2. Skip(left, k) = Skip(s, j + k)
        BY <1>1, <1>2, <4>1, SkipTwice
      <4>3. q \in 0..Len(s)
        BY <1>2
      <4> QED BY <3>2, <3>3, <4>2, <4>3, SkipIsSeq
    <3>5. PICK more : more = f[Len(s) - q]
      OBVIOUS
    <3>6. RangesFrom(f, left) = Before(<<range.value>>, more)
      BY <2>2, <2>4, <3>4, <3>5 DEF AndThen
    <3>7. Listing(s, q, more, V)
      BY <3>5
    <3>8. \A i \in j + 1..q : s[i] \in RangeCharacters
      <4>1. ASSUME NEW i \in j + 1..q PROVE s[i] \in RangeCharacters
        <5>1. i - j \in 1..k /\ i - j \in 1..Len(s) - j /\ j + (i - j) = i
          BY <1>2, <1>3, <3>2, <3>3
        <5>2. left[i - j] = s[j + (i - j)]
          BY <1>1, <1>2, <5>1, SkipIsSeq
        <5> QED BY <3>2, <5>1, <5>2
      <4> QED BY <4>1
    <3>9. SUFFICES ASSUME Before(<<range.value>>, more).ok
                   PROVE  Listing(s, p, Before(<<range.value>>, more), V)
      BY <3>6 DEF Listing
    <3>10. more.ok /\ Before(<<range.value>>, more) = Lexed(<<range.value>> \o more.value, more.rest)
      BY <3>9, BeforeHolds
    <3>11. PICK end \in q + 1..Len(s) :
             /\ s[end] = Brace /\ \A i \in q + 1..end - 1 : s[i] # Brace
             /\ more.rest = Skip(s, end) /\ more.value \in Seq(V)
      BY <3>7, <3>10 DEF Listing
    <3>12. PICK value : value = <<range.value>> \o more.value
      OBVIOUS
    <3>13. value \in Seq(V) /\ value # <<>>
      <4>1. range.value \in V
        BY <2>1, <2>4
      <4> QED BY <3>11, <3>12, <4>1, OneMore, Zenon
    <3>14. end \in p + 1..Len(s)
      BY <1>2, <3>3, <3>11
    <3>15. ASSUME NEW i \in p + 1..end - 1 PROVE s[i] # Brace
      <4>1. CASE i \in p + 1..j
        BY <1>1, <4>1, BraceIsNone
      <4>2. CASE i \in j + 1..q
        BY <3>8, <4>2, BraceIsNone
      <4>3. CASE i \in q + 1..end - 1
        BY <3>11, <4>3
      <4> QED BY <1>2, <3>3, <3>11, <4>1, <4>2, <4>3
    <3>16. j + 1 \in p + 1..end - 1 /\ s[j + 1] \notin Spaces
      <4>1. j + 1 \in j + 1..q /\ j + 1 \in p + 1..end - 1
        BY <1>2, <3>2, <3>3, <3>11
      <4> QED BY <3>8, <4>1, BraceIsNone
    <3>17. /\ Before(<<range.value>>, more).rest = Skip(s, end)
           /\ Before(<<range.value>>, more).value = value
      <4>1. Before(<<range.value>>, more) = Lexed(value, more.rest)
        BY <3>10, <3>12, Zenon
      <4>2. Lexed(value, more.rest).rest = more.rest /\ Lexed(value, more.rest).value = value
        BY DEF Lexed
      <4> QED BY <3>11, <4>1, <4>2, Zenon
    <3> QED BY <3>11, <3>13, <3>14, <3>15, <3>16, <3>17 DEF Listing
  <2> QED BY <2>3, <2>4
<1> QED BY <1>4, <1>5

-----------------------------------------------------------------------------
\* What the loop of a list has left, and that it only gets shorter.
LeftIn(s, n) == SkipSpace(LastOf(s, n))
IsRanges(f, s) == f = [n \in 0..Len(s) |-> RangesFrom(f, LeftIn(s, n))]

LEMMA LeftInIsSeq ==
  ASSUME NEW C, NEW s \in Seq(C), NEW n \in 0..Len(s)
  PROVE  LeftIn(s, n) \in Seq(C) /\ Len(LeftIn(s, n)) \in 0..n
<1>1. PICK t \in Seq(C) : t = LastOf(s, n) /\ Len(t) = n
  BY LastIsSkip
<1>2. PICK k : IsRun(t, Spaces, k) /\ SkipSpace(t) = Skip(t, k)
  BY SpaceRun
<1>3. k \in 0..Len(t)
  BY <1>2 DEF IsRun
<1>4. Skip(t, k) \in Seq(C) /\ Len(Skip(t, k)) = Len(t) - k
  BY <1>3, SkipIsSeq
<1> QED BY <1>1, <1>2, <1>3, <1>4 DEF LeftIn

\* The loop over ranges as a function of what is left.
LEMMA LexRangesEquation ==
  ASSUME NEW C, NEW s \in Seq(C)
  PROVE  \E f : /\ LexRanges(s) = f[Len(s)]
                /\ \A n \in 0..Len(s) : f[n] = RangesFrom(f, LeftIn(s, n))
<1> DEFINE N == Len(s)
           goes == {n \in 0..N : ~StartsWith(LeftIn(s, n), Brace) /\ LexIntRange(LeftIn(s, n)).ok}
           read == [n \in 0..N |-> <<LexIntRange(LeftIn(s, n)).value>>]
           to == [n \in 0..N |-> Len(LexIntRange(LeftIn(s, n)).rest)]
           end == [n \in 0..N |-> IF StartsWith(LeftIn(s, n), Brace)
                                  THEN Lexed(<<>>, Tail(LeftIn(s, n))) ELSE LexError]
<1>1. ASSUME NEW n \in 0..N, n \in goes PROVE to[n] \in 0..n - 1
  <2>1. PICK left \in Seq(C) : left = LeftIn(s, n) /\ Len(left) \in 0..n
    BY LeftInIsSeq
  <2>2. PICK range : range = LexIntRange(left) /\ range.ok
    BY <1>1, <2>1
  <2>3. PICK k : Takes(left, range, k, RangeCharacters)
    BY <2>2, RangeTakes
  <2>4. k \in 1..Len(left) /\ range.rest = Skip(left, k)
    BY <2>3 DEF Takes
  <2>5. Len(Skip(left, k)) = Len(left) - k
    <3>1. k \in 0..Len(left)
      BY <2>4
    <3> QED BY <3>1, SkipIsSeq
  <2>6. to[n] = Len(left) - k
    BY <2>1, <2>2, <2>4, <2>5
  <2> QED BY <2>1, <2>4, <2>6
<1>2. ASSUME NEW f, NEW n \in 0..N
      PROVE  RangesFrom(f, LeftIn(s, n)) = IF n \in goes THEN Before(read[n], f[to[n]]) ELSE end[n]
  BY DEF RangesFrom, AndThen
<1>3. N \in Nat
  OBVIOUS
<1>4. PICK f : Loop(f, N, goes, read, to, end)
  <2> HIDE DEF N, goes, read, to, end
  <2> QED BY <1>1, <1>3, LoopExists
<1>5. IsRanges(f, s)
  <2> HIDE DEF goes, read, to, end
  <2> QED BY <1>2, <1>4 DEF Loop, IsRanges
<1> DEFINE Chosen == CHOOSE g : IsRanges(g, s)
<1>6. IsRanges(Chosen, s)
  BY <1>5
<1>7. LexRanges(s) = Chosen[Len(s)]
  BY DEF LexRanges, IsRanges, RangesFrom, LeftIn, Brace
<1> HIDE DEF Chosen
<1>8. \A n \in 0..Len(s) : Chosen[n] = RangesFrom(Chosen, LeftIn(s, n))
  BY <1>6 DEF IsRanges
<1> QED BY <1>7, <1>8

\* The pairs that are read somewhere in a text, the first no larger than the second.
RangesIn(s) ==
  {v \in {LexIntRange(LeftIn(s, n)).value : n \in 0..Len(s)} : v[1] <= v[2]}

\* The whole loop, from the end of the text to its start.
LEMMA RangesListing ==
  ASSUME NEW C, NEW s \in Seq(C)
  PROVE  Listing(s, 0, LexRanges(s), RangesIn(s))
<1>1. PICK f : /\ LexRanges(s) = f[Len(s)]
               /\ \A n \in 0..Len(s) : f[n] = RangesFrom(f, LeftIn(s, n))
  BY LexRangesEquation
<1>2. PICK V : V = RangesIn(s)
  OBVIOUS
<1> DEFINE Bad == {n \in 0..Len(s) : ~Listing(s, Len(s) - n, f[n], V)}
<1>3. ASSUME Bad # {} PROVE FALSE
  <2>1. PICK x \in Bad : \A n \in Bad : x <= n
    <3>1. Bad \in SUBSET Nat
      OBVIOUS
    <3>2. Bad # {}
      BY <1>3
    <3> HIDE DEF Bad
    <3> QED BY <3>1, <3>2, LeastNumber
  <2>2. x \in 0..Len(s) /\ ~Listing(s, Len(s) - x, f[x], V)
    BY <2>1
  <2>3. PICK p \in 0..Len(s) : p = Len(s) - x
    BY <2>2
  <2>4. ASSUME NEW q \in p + 1..Len(s) PROVE Listing(s, q, f[Len(s) - q], V)
    <3>1. Len(s) - q \in 0..Len(s) /\ ~(x <= Len(s) - q) /\ Len(s) - (Len(s) - q) = q
      BY <2>2, <2>3
    <3>2. Len(s) - q \notin Bad
      BY <2>1, <3>1
    <3> QED BY <3>1, <3>2
  <2>5. PICK left : left = LeftIn(s, x)
    OBVIOUS
  <2>6. left = SkipSpace(Skip(s, p))
    BY <2>2, <2>3, <2>5, LastIsSkip DEF LeftIn
  <2>7. ASSUME LexIntRange(left).ok PROVE LexIntRange(left).value \in V
    <3>1. left \in Seq(C)
      BY <2>2, <2>5, LeftInIsSeq
    <3>2. OrderedValue(LexIntRange(left))
      BY <2>7, <3>1, RangeTakes
    <3> QED BY <1>2, <2>2, <2>5, <3>2 DEF RangesIn, OrderedValue
  <2>8. Listing(s, p, RangesFrom(f, left), V)
    BY <2>4, <2>6, <2>7, RangesTurn
  <2> QED BY <1>1, <2>2, <2>3, <2>5, <2>8
<1>4. Len(s) \in 0..Len(s) /\ Len(s) - Len(s) = 0
  OBVIOUS
<1>5. Listing(s, Len(s) - Len(s), f[Len(s)], V)
  BY <1>3, <1>4
<1> QED BY <1>1, <1>2, <1>4, <1>5

\* A list of integers, with its opening brace.
LEMMA ListsHold ==
  ASSUME NEW C, chars \in Seq(C), NEW lexed, lexed = LexRhsValues(chars), lexed.ok
  PROVE  \E end \in 1..Len(chars) : ListsRanges(lexed, end)
<1>1. PICK open : open = "{"
  OBVIOUS
<1>2. StartsWith(chars, open) /\ LexRhsValues(chars) = LexRanges(Tail(chars))
  BY <1>1, ErrorIsNotRead, Zenon DEF LexRhsValues
<1>3. Len(chars) >= 1 /\ chars[1] = open
  BY <1>2, StartsWithFirst
<1>4. open # Brace
  BY <1>1 DEF Brace
<1>5. PICK s : s = Skip(chars, 1)
  OBVIOUS
<1>6. Tail(chars) = s
  BY <1>3, <1>5, TailIsSkip
<1>7. 1 \in 0..Len(chars) /\ Len(chars) \in Nat
  BY <1>3
<1>8. s \in Seq(C) /\ Len(s) = Len(chars) - 1 /\ \A i \in 1..Len(chars) - 1 : s[i] = chars[1 + i]
  BY <1>5, <1>7, SkipIsSeq
<1>9. Listing(s, 0, lexed, RangesIn(s))
  BY <1>2, <1>6, <1>8, RangesListing
<1>10. PICK e \in 0 + 1..Len(s) :
         /\ s[e] = Brace /\ \A i \in 0 + 1..e - 1 : s[i] # Brace
         /\ lexed.rest = Skip(s, e) /\ lexed.value \in Seq(RangesIn(s))
         /\ lexed.value = <<>> <=> \A i \in 0 + 1..e - 1 : s[i] \in Spaces
  BY <1>9 DEF Listing
<1>11. PICK end \in 1..Len(chars) : end = e + 1
  BY <1>7, <1>8, <1>10
<1>12. \A i \in 1..e : i \in 1..Len(chars) - 1 /\ s[i] = chars[i + 1]
  <2>1. \A i \in 1..e : i \in 1..Len(chars) - 1 /\ 1 + i = i + 1
    BY <1>7, <1>8, <1>10
  <2> QED BY <1>8, <2>1
<1>13. chars[end] = Brace
  BY <1>10, <1>11, <1>12
<1>14. ASSUME NEW i \in 1..end - 1 PROVE chars[i] # Brace
  <2>1. CASE i = 1
    BY <1>3, <1>4, <2>1
  <2>2. CASE i # 1
    <3>1. i - 1 \in 1..e /\ i - 1 \in 0 + 1..e - 1 /\ (i - 1) + 1 = i
      BY <1>10, <1>11, <2>2
    <3> QED BY <1>10, <1>12, <3>1
  <2> QED BY <2>1, <2>2
<1>15. lexed.rest = Skip(chars, end)
  <2>1. e \in 0..Len(chars) - 1 /\ 1 + e = end
    BY <1>7, <1>8, <1>10, <1>11
  <2>2. Skip(Skip(chars, 1), e) = Skip(chars, 1 + e)
    BY <1>7, <2>1, SkipTwice
  <2> QED BY <1>5, <1>10, <2>1, <2>2
<1>16. \A i \in DOMAIN lexed.value : lexed.value[i][1] <= lexed.value[i][2]
  <2>1. \A i \in DOMAIN lexed.value : lexed.value[i] \in RangesIn(s)
    BY <1>10
  <2> QED BY <2>1 DEF RangesIn
<1>17. (\A i \in 0 + 1..e - 1 : s[i] \in Spaces) <=> (\A i \in 2..end - 1 : chars[i] \in Spaces)
  <2>1. ASSUME \A i \in 0 + 1..e - 1 : s[i] \in Spaces, NEW i \in 2..end - 1
        PROVE  chars[i] \in Spaces
    <3>1. i - 1 \in 1..e /\ i - 1 \in 0 + 1..e - 1 /\ (i - 1) + 1 = i
      BY <1>10, <1>11
    <3> QED BY <1>12, <2>1, <3>1
  <2>2. ASSUME \A i \in 2..end - 1 : chars[i] \in Spaces, NEW i \in 0 + 1..e - 1
        PROVE  s[i] \in Spaces
    <3>1. i \in 1..e /\ i + 1 \in 2..end - 1
      BY <1>10, <1>11
    <3> QED BY <1>12, <2>2, <3>1
  <2> QED BY <2>1, <2>2
<1>18. ListsRanges(lexed, end)
  <2>1. lexed.value = <<>> <=> \A i \in 2..end - 1 : chars[i] \in Spaces
    BY <1>10, <1>17
  <2>2. \A c : c \in Spaces <=> c = " "
    BY Zenon DEF Spaces
  <2> QED BY <1>13, <1>14, <1>15, <1>16, <2>1, <2>2, Zenon DEF ListsRanges, Brace
<1> QED BY <1>18

-----------------------------------------------------------------------------
\* Whatever stands before it, what follows a quoted string is shorter.
LEMMA QuotedShortens ==
  ASSUME NEW C, NEW s \in Seq(C), LexQuoted(s).ok
  PROVE  \E k \in 1..Len(s) : LexQuoted(s).rest = Skip(s, k)
<1>1. PICK f : /\ LexQuoted(s) = f[Len(s)]
               /\ \A n \in 0..Len(s) : f[n] = QuotedFrom(f, LastOf(s, n))
  BY LexQuotedEquation
<1> DEFINE Bad == {n \in 0..Len(s) :
                     f[n].ok /\ ~\E k \in Len(s) - n + 1..Len(s) : f[n].rest = Skip(s, k)}
<1>2. ASSUME Bad # {} PROVE FALSE
  <2>1. PICK x \in Bad : \A n \in Bad : x <= n
    <3>1. Bad \in SUBSET Nat
      OBVIOUS
    <3>2. Bad # {}
      BY <1>2
    <3> HIDE DEF Bad
    <3> QED BY <3>1, <3>2, LeastNumber
  <2>2. /\ x \in 0..Len(s) /\ f[x].ok
        /\ ~\E k \in Len(s) - x + 1..Len(s) : f[x].rest = Skip(s, k)
    BY <2>1
  <2>3. PICK p \in 0..Len(s) : p = Len(s) - x
    BY <2>2
  <2>4. ASSUME NEW q \in p + 1..Len(s), NEW read, f[x] = Before(read, f[Len(s) - q]) PROVE FALSE
    <3>1. Len(s) - q \in 0..Len(s) /\ ~(x <= Len(s) - q) /\ Len(s) - (Len(s) - q) = q
      BY <2>2, <2>3
    <3>2. Len(s) - q \notin Bad
      BY <2>1, <3>1
    <3>3. f[Len(s) - q].ok /\ f[x].rest = f[Len(s) - q].rest
      BY <2>2, <2>4, BeforeLeaves
    <3>4. PICK k \in q + 1..Len(s) : f[Len(s) - q].rest = Skip(s, k)
      BY <3>1, <3>2, <3>3
    <3>5. k \in Len(s) - x + 1..Len(s)
      BY <2>2, <2>3
    <3> QED BY <2>2, <3>3, <3>4, <3>5
  <2>5. PICK left : left = LastOf(s, x)
    OBVIOUS
  <2>6. f[x] = QuotedFrom(f, left) /\ left = Skip(s, p) /\ left \in Seq(C) /\ Len(left) = x
    BY <1>1, <2>2, <2>3, <2>5, LastIsSkip
  <2>7. left # <<>>
    <3>1. left = <<>> => QuotedFrom(f, left) = LexError
      BY DEF QuotedFrom, StartsWith
    <3> QED BY <2>2, <2>6, <3>1, ErrorIsNotRead
  <2>8. PICK k \in 1..Len(s) : k = p + 1
    <3>1. x # 0
      <4>1. Len(left) # 0
        BY <2>6, <2>7
      <4> QED BY <2>6, <4>1
    <3>2. p + 1 \in 1..Len(s)
      BY <2>2, <2>3, <3>1
    <3> QED BY <3>2
  <2>9. k - 1 = p /\ x - 1 = Len(s) - k
    BY <2>2, <2>3, <2>8
  <2>10. PICK t : t = Skip(s, k)
    OBVIOUS
  <2>11. Tail(left) = t /\ t \in Seq(C) /\ Len(t) = Len(s) - k
    <3>1. k \in 0..Len(s)
      OBVIOUS
    <3>2. Tail(left) = t
      BY <2>6, <2>9, <2>10, TailAt
    <3> QED BY <2>10, <3>1, <3>2, SkipIsSeq
  <2>12. \/ f[x] = Lexed(<<>>, t)
         \/ f[x] = AndThen(Escaped(t), LAMBDA byte, rest : Before(byte, f[Len(rest)]))
         \/ f[x] = Before(Utf8[Head(left)], f[Len(left) - 1])
    BY <2>6, <2>7, <2>11, Zenon DEF QuotedFrom
  <2>13. CASE f[x] = Lexed(<<>>, t)
    <3>1. f[x].rest = Skip(s, k)
      BY <2>10, <2>13, LexedLeaves DEF Leaves
    <3>2. k \in Len(s) - x + 1..Len(s)
      BY <2>2, <2>3, <2>8
    <3> QED BY <2>2, <3>1, <3>2
  <2>14. CASE f[x] = AndThen(Escaped(t), LAMBDA byte, rest : Before(byte, f[Len(rest)]))
    <3>1. Escaped(t).ok /\ f[x] = Before(Escaped(t).value, f[Len(Escaped(t).rest)])
      BY <2>2, <2>14, ErrorIsNotRead DEF AndThen
    <3>2. Len(Escaped(t).rest) \in 0..Len(t) - 1
      BY <2>11, <3>1, EscapeShortens
    <3>3. PICK q \in p + 1..Len(s) : Len(s) - q = Len(Escaped(t).rest)
      <4>1. Len(s) - Len(Escaped(t).rest) \in p + 1..Len(s)
            /\ Len(s) - (Len(s) - Len(Escaped(t).rest)) = Len(Escaped(t).rest)
        BY <2>8, <2>11, <3>2
      <4> QED BY <4>1
    <3> QED BY <2>4, <3>1, <3>3
  <2>15. CASE f[x] = Before(Utf8[Head(left)], f[Len(left) - 1])
    <3>1. k \in p + 1..Len(s)
      BY <2>3, <2>8
    <3> QED BY <2>4, <2>6, <2>9, <2>15, <3>1
  <2> QED BY <2>12, <2>13, <2>14, <2>15
<1>3. Len(s) \in 0..Len(s) /\ Len(s) - Len(s) + 1 = 1
  OBVIOUS
<1> QED BY <1>1, <1>2, <1>3

-----------------------------------------------------------------------------
Recursive(value, S, c, step, N) ==
  \A m \in 0..N : \E h : Follows(h, S, c, step, m) /\ value[m] = h[m]
Recursed(value, S, c, step, N) ==
  /\ value[0] = c
  /\ \A m \in 0..N : value[m] \in S
  /\ \A m \in 1..N : value[m] = step[m][value[m - 1]]

\* What a recursion holds at its last place, for recursions of every length: each
\* is the one before it and a step.
LEMMA RecursionHolds ==
  ASSUME NEW S, NEW c \in S, NEW N \in Nat, NEW step \in [1..N -> [S -> S]], NEW value,
         Recursive(value, S, c, step, N)
  PROVE  Recursed(value, S, c, step, N)
<1>1. PICK f : f \in Iterations(S, c, step, N)
  <2>1. Iterations(S, c, step, N) # {}
    BY IterationExists
  <2> QED BY <2>1
<1>2. f \in [0..N -> S] /\ f[0] = c /\ \A i \in 1..N : f[i] = step[i][f[i - 1]]
  BY <1>1 DEF Iterations
<1>3. ASSUME NEW m \in 0..N PROVE value[m] = f[m]
  <2>1. PICK h : Follows(h, S, c, step, m) /\ value[m] = h[m]
    BY DEF Recursive
  <2>2. \A i \in 0..m : h[i] = f[i]
    <3>1. N \in Nat /\ Follows(h, S, c, step, m)
      BY <2>1
    <3> QED BY <1>1, <3>1, IterationIsUnique
  <2> QED BY <2>1, <2>2
<1>4. \A m \in 1..N : m \in 0..N /\ m - 1 \in 0..N
  OBVIOUS
<1>5. 0 \in 0..N
  OBVIOUS
<1> QED BY <1>2, <1>3, <1>4, <1>5 DEF Recursed

\* Where the brackets are counted.
Counted(b, n) == IF chars[n] = b /\ ~InKey(n) THEN 1 ELSE 0
IsCount(f, b, m) == f = [n \in 0..m |-> IF n = 0 THEN 0 ELSE f[n - 1] + Counted(b, n)]

LEMMA CountedIsInt == \A b, n : Counted(b, n) \in Int
  BY DEF Counted

LEMMA BracketsSteps ==
  ASSUME NEW b, NEW N \in Nat
  PROVE  /\ Brackets(b, 0) = 0
         /\ \A n \in 0..N : Brackets(b, n) \in Int
         /\ \A n \in 1..N : Brackets(b, n) = Brackets(b, n - 1) + Counted(b, n)
<1> DEFINE step == [i \in 1..N |-> [x \in Int |-> x + Counted(b, i)]]
           value == [m \in 0..N |-> Brackets(b, m)]
<1>1. step \in [1..N -> [Int -> Int]]
  BY CountedIsInt
<1>2. \A i \in 1..N : \A x \in Int : step[i][x] = x + Counted(b, i)
  OBVIOUS
<1> HIDE DEF step
<1>3. PICK zero \in Int : zero = 0
  OBVIOUS
<1>4. PICK f : f \in Iterations(Int, zero, step, N)
  <2>1. Iterations(Int, zero, step, N) # {}
    BY <1>1, IterationExists, Zenon
  <2> QED BY <2>1
<1>5. f \in [0..N -> Int] /\ f[0] = 0 /\ \A i \in 1..N : f[i] = step[i][f[i - 1]]
  BY <1>4, <1>3 DEF Iterations
<1>6. ASSUME NEW m \in 0..N
      PROVE  \E h : Follows(h, Int, zero, step, m) /\ Brackets(b, m) = h[m]
  <2> DEFINE Chosen == CHOOSE h : IsCount(h, b, m)
  <2>1. PICK p : p = [n \in 0..m |-> f[n]]
    OBVIOUS
  <2>2. ASSUME NEW n \in 0..m PROVE p[n] = IF n = 0 THEN 0 ELSE p[n - 1] + Counted(b, n)
    <3>1. CASE n = 0
      BY <1>5, <2>1, <3>1
    <3>2. CASE n # 0
      <4>1. n \in 1..N /\ n - 1 \in 0..N /\ n - 1 \in 0..m
        BY <3>2
      <4>2. p[n] = f[n] /\ p[n - 1] = f[n - 1]
        BY <2>1, <4>1
      <4> QED BY <1>2, <1>5, <3>2, <4>1, <4>2
    <3> QED BY <3>1, <3>2
  <2>3. IsCount(p, b, m)
    BY <2>1, <2>2 DEF IsCount
  <2>4. IsCount(Chosen, b, m)
    BY <2>3
  <2>5. Brackets(b, m) = Chosen[m]
    BY DEF Brackets, IsCount, Counted
  <2> HIDE DEF Chosen
  <2>6. PICK h : IsCount(h, b, m) /\ Brackets(b, m) = h[m]
    BY <2>4, <2>5
  <2>7. \A n \in 0..m : h[n] = IF n = 0 THEN 0 ELSE h[n - 1] + Counted(b, n)
    BY <2>6 DEF IsCount
  <2>8. ASSUME NEW i \in 1..m, h[i - 1] \in Int PROVE h[i] = step[i][h[i - 1]]
    <3>1. i \in 0..m /\ i # 0 /\ i \in 1..N
      OBVIOUS
    <3> QED BY <1>2, <2>7, <2>8, <3>1
  <2>9. h[0] = zero
    <3>1. 0 \in 0..m
      OBVIOUS
    <3> QED BY <1>3, <2>7, <3>1
  <2> QED BY <2>6, <2>8, <2>9 DEF Follows
<1>7. \A m \in 0..N : value[m] = Brackets(b, m)
  OBVIOUS
<1> HIDE DEF value
<1>8. /\ value[0] = zero
      /\ \A m \in 0..N : value[m] \in Int
      /\ \A m \in 1..N : value[m] = step[m][value[m - 1]]
  <2>1. \A m \in 0..N : \E h : Follows(h, Int, zero, step, m) /\ value[m] = h[m]
    BY <1>6, <1>7
  <2>2. Recursive(value, Int, zero, step, N)
    BY <2>1 DEF Recursive
  <2>3. Recursed(value, Int, zero, step, N)
    BY <1>1, <2>2, RecursionHolds, Zenon
  <2> QED BY <2>3 DEF Recursed
<1>9. \A n \in 1..N : n \in 0..N /\ n - 1 \in 0..N
  OBVIOUS
<1>10. 0 \in 0..N
  OBVIOUS
<1> QED BY <1>2, <1>3, <1>7, <1>8, <1>9, <1>10

\* Whether a place is inside a key: it is where the place before was, unless a
\* quote stands there.
Turned(x, i) == x # EndsQuoted(i)
IsInside(f, at) == f = [i \in 1..at |-> i > 1 /\ Turned(f[i - 1], i - 1)]

LEMMA TurnedIsBoolean == \A x, i : Turned(x, i) \in BOOLEAN
  BY Zenon DEF Turned

LEMMA InKeySteps ==
  ASSUME NEW N \in Nat
  PROVE  /\ InKey(1) = FALSE
         /\ \A n \in 0..N : InKey(n + 1) \in BOOLEAN
         /\ \A n \in 1..N : InKey(n + 1) = Turned(InKey(n), n)
<1> DEFINE step == [i \in 1..N |-> [x \in BOOLEAN |-> Turned(x, i)]]
           value == [m \in 0..N |-> InKey(m + 1)]
<1>1. step \in [1..N -> [BOOLEAN -> BOOLEAN]]
  BY TurnedIsBoolean
<1>2. \A i \in 1..N : \A x \in BOOLEAN : step[i][x] = Turned(x, i)
  OBVIOUS
<1> HIDE DEF step
<1>3. PICK no \in BOOLEAN : no = FALSE
  OBVIOUS
<1>4. PICK f : f \in Iterations(BOOLEAN, no, step, N)
  <2>1. Iterations(BOOLEAN, no, step, N) # {}
    BY <1>1, IterationExists, Zenon
  <2> QED BY <2>1
<1>5. f \in [0..N -> BOOLEAN] /\ f[0] = no /\ \A i \in 1..N : f[i] = step[i][f[i - 1]]
  BY <1>4 DEF Iterations
<1>6. ASSUME NEW m \in 0..N
      PROVE  \E h : Follows(h, BOOLEAN, no, step, m) /\ InKey(m + 1) = h[m]
  <2> DEFINE Chosen == CHOOSE h : IsInside(h, m + 1)
  <2>1. PICK p : p = [i \in 1..m + 1 |-> f[i - 1]]
    OBVIOUS
  <2>2. ASSUME NEW i \in 1..m + 1 PROVE p[i] = (i > 1 /\ Turned(p[i - 1], i - 1))
    <3>1. CASE i = 1
      <4>1. p[i] = f[0]
        BY <2>1, <3>1
      <4>2. ~(i > 1)
        BY <3>1
      <4> QED BY <1>3, <1>5, <4>1, <4>2
    <3>2. CASE i # 1
      <4>1. i - 1 \in 1..N /\ i - 1 \in 1..m + 1 /\ (i - 1) - 1 \in 0..N /\ i > 1
        BY <3>2
      <4>2. p[i] = f[i - 1] /\ p[i - 1] = f[(i - 1) - 1]
        BY <2>1, <4>1
      <4>3. f[i - 1] = Turned(f[(i - 1) - 1], i - 1)
        BY <1>2, <1>5, <4>1
      <4>4. p[i] = Turned(p[i - 1], i - 1)
        BY <4>2, <4>3
      <4> QED BY <4>1, <4>4, TurnedIsBoolean
    <3> QED BY <3>1, <3>2
  <2>3. IsInside(p, m + 1)
    BY <2>1, <2>2 DEF IsInside
  <2>4. IsInside(Chosen, m + 1)
    BY <2>3
  <2>5. InKey(m + 1) = Chosen[m + 1]
    BY DEF InKey, IsInside, Turned
  <2> HIDE DEF Chosen
  <2>6. PICK g : IsInside(g, m + 1) /\ InKey(m + 1) = g[m + 1]
    BY <2>4, <2>5
  <2>7. \A i \in 1..m + 1 : g[i] = (i > 1 /\ Turned(g[i - 1], i - 1))
    BY <2>6 DEF IsInside
  <2>8. PICK h : h = [i \in 0..m |-> g[i + 1]]
    OBVIOUS
  <2>9. ASSUME NEW i \in 1..m, h[i - 1] \in BOOLEAN PROVE h[i] = step[i][h[i - 1]]
    <3>1. i + 1 \in 1..m + 1 /\ i + 1 > 1 /\ (i + 1) - 1 = i /\ i \in 1..N /\ i \in 0..m
          /\ i - 1 \in 0..m /\ (i - 1) + 1 = i
      OBVIOUS
    <3>2. h[i] = g[i + 1] /\ h[i - 1] = g[i]
      BY <2>8, <3>1
    <3>3. g[i + 1] = (i + 1 > 1 /\ Turned(g[i], i))
      BY <2>7, <3>1
    <3>4. g[i + 1] = Turned(g[i], i)
      BY <3>1, <3>3, TurnedIsBoolean
    <3>5. step[i][h[i - 1]] = Turned(h[i - 1], i)
      BY <1>2, <2>9, <3>1
    <3> QED BY <3>2, <3>4, <3>5
  <2>10. h[0] = no
    <3>1. 0 \in 0..m /\ 0 + 1 = 1 /\ 1 \in 1..m + 1 /\ ~(1 > 1)
      OBVIOUS
    <3>2. g[1] = FALSE
      BY <2>7, <3>1
    <3> QED BY <1>3, <2>8, <3>1, <3>2
  <2>11. h[m] = g[m + 1]
    BY <2>8
  <2> QED BY <2>6, <2>9, <2>10, <2>11 DEF Follows
<1>7. \A m \in 0..N : value[m] = InKey(m + 1)
  OBVIOUS
<1> HIDE DEF value
<1>8. /\ value[0] = no
      /\ \A m \in 0..N : value[m] \in BOOLEAN
      /\ \A m \in 1..N : value[m] = step[m][value[m - 1]]
  <2>1. \A m \in 0..N : \E h : Follows(h, BOOLEAN, no, step, m) /\ value[m] = h[m]
    BY <1>6, <1>7
  <2>2. Recursive(value, BOOLEAN, no, step, N)
    BY <2>1 DEF Recursive
  <2>3. Recursed(value, BOOLEAN, no, step, N)
    BY <1>1, <2>2, RecursionHolds
  <2> QED BY <2>3 DEF Recursed
<1>9. ASSUME NEW n \in 1..N PROVE InKey(n + 1) = Turned(InKey(n), n)
  <2>1. n \in 0..N /\ n - 1 \in 0..N /\ (n - 1) + 1 = n
    OBVIOUS
  <2>2. value[n] = InKey(n + 1) /\ value[n - 1] = InKey(n)
    BY <1>7, <2>1
  <2> QED BY <1>2, <1>8, <2>1, <2>2
<1>10. 0 \in 0..N /\ 0 + 1 = 1
  OBVIOUS
<1> QED BY <1>3, <1>7, <1>8, <1>9, <1>10

-----------------------------------------------------------------------------
Quote == "\""
Star == "*"
OpenBracket == "["
CloseBracket == "]"
BracketPair == {OpenBracket, CloseBracket}

\* What is left after a key or a number is what their lexers leave.
LEMMA KeyLeaves ==
  ASSUME NEW lexed, AndThen(lexed, IndexOfKey).ok
  PROVE  lexed.ok /\ AndThen(lexed, IndexOfKey).rest = lexed.rest
<1>1. lexed.ok /\ AndThen(lexed, IndexOfKey) = IndexOfKey(lexed.value, lexed.rest)
  BY ErrorIsNotRead DEF AndThen
<1>2. IndexOfKey(lexed.value, lexed.rest) = Lexed(<<"MapKey", lexed.value>>, lexed.rest)
  BY <1>1, ErrorIsNotRead DEF IndexOfKey
<1> QED BY <1>1, <1>2, LexedLeaves DEF Leaves

LEMMA IntLeaves ==
  ASSUME NEW lexed, AndThen(lexed, IndexOfInt).ok
  PROVE  lexed.ok /\ AndThen(lexed, IndexOfInt).rest = lexed.rest
<1>1. lexed.ok /\ AndThen(lexed, IndexOfInt) = IndexOfInt(lexed.value, lexed.rest)
  BY ErrorIsNotRead DEF AndThen
<1>2. IndexOfInt(lexed.value, lexed.rest) = Lexed(<<"ArrayIndex", lexed.value>>, lexed.rest)
  BY <1>1, ErrorIsNotRead DEF IndexOfInt
<1> QED BY <1>1, <1>2, LexedLeaves DEF Leaves

\* An index is a star, a quoted key or a number.
LEMMA IndexReads ==
  ASSUME NEW C, NEW s \in Seq(C), LexIndex(s).ok
  PROVE  \/ StartsWith(s, Star) /\ LexIndex(s).rest = Skip(s, 1)
         \/ /\ StartsWith(s, Quote) /\ LexQuoted(Skip(s, 1)).ok
            /\ LexIndex(s).rest = LexQuoted(Skip(s, 1)).rest
         \/ LexInt(s).ok /\ LexIndex(s).rest = LexInt(s).rest
<1>1. PICK star, quote, raw : star = "*" /\ quote = "\"" /\ raw = "r"
  OBVIOUS
<1>2. quote # star /\ quote # raw
  BY <1>1
<1>3. \A c : StartsWith(s, c) => Tail(s) = Skip(s, 1)
  <2>1. \A c : StartsWith(s, c) => Len(s) >= 1
    BY StartsWithFirst
  <2> QED BY <2>1, TailIsSkip
<1>4. CASE StartsWith(s, star)
  <2>1. ~StartsWith(s, quote)
    BY <1>2, <1>4 DEF StartsWith
  <2>2. LexIndex(s) = Lexed(<<"MapEach">>, Tail(s))
    BY <1>1, <1>4, <2>1, Zenon DEF LexIndex
  <2>3. LexIndex(s).rest = Tail(s)
    BY <2>2, LexedLeaves DEF Leaves
  <2> QED BY <1>1, <1>3, <1>4, <2>3, Zenon DEF Star
<1>5. CASE StartsWith(s, quote)
  <2>1. ~StartsWith(s, star) /\ ~StartsWith(s, raw)
    BY <1>2, <1>5 DEF StartsWith
  <2>2. LexIndex(s) = AndThen(LexString(s), IndexOfKey)
    BY <1>1, <1>5, <2>1, Zenon DEF LexIndex
  <2>3. LexString(s) = LexQuoted(Tail(s))
    BY <1>1, <1>5, <2>1, Zenon DEF LexString
  <2>4. LexString(s).ok /\ LexIndex(s).rest = LexString(s).rest
    BY <2>2, KeyLeaves, Zenon
  <2> QED BY <1>1, <1>3, <1>5, <2>3, <2>4, Zenon DEF Quote
<1>6. CASE ~StartsWith(s, star) /\ ~StartsWith(s, quote)
  <2>1. LexIndex(s) = AndThen(LexInt(s), IndexOfInt)
    BY <1>1, <1>6, Zenon DEF LexIndex
  <2> QED BY <2>1, IntLeaves, Zenon
<1> QED BY <1>4, <1>5, <1>6

\* What follows an index is shorter.
LEMMA IndexShortens ==
  ASSUME NEW C, NEW s \in Seq(C), LexIndex(s).ok
  PROVE  \E k \in 1..Len(s) : LexIndex(s).rest = Skip(s, k)
<1>1. CASE StartsWith(s, Star) /\ LexIndex(s).rest = Skip(s, 1)
  <2>1. 1 \in 1..Len(s)
    BY <1>1, StartsWithFirst
  <2> QED BY <1>1, <2>1
<1>2. CASE /\ StartsWith(s, Quote) /\ LexQuoted(Skip(s, 1)).ok
           /\ LexIndex(s).rest = LexQuoted(Skip(s, 1)).rest
  <2>1. 1 \in 0..Len(s)
    BY <1>2, StartsWithFirst
  <2>2. PICK t \in Seq(C) : t = Skip(s, 1) /\ Len(t) = Len(s) - 1
    BY <2>1, SkipIsSeq
  <2>3. PICK k \in 1..Len(t) : LexQuoted(t).rest = Skip(t, k)
    BY <1>2, <2>2, QuotedShortens
  <2>4. k \in 0..Len(s) - 1 /\ 1 + k \in 1..Len(s)
    BY <2>1, <2>2
  <2>5. Skip(t, k) = Skip(s, 1 + k)
    BY <2>1, <2>2, <2>4, SkipTwice
  <2> QED BY <1>2, <2>2, <2>3, <2>4, <2>5
<1>3. CASE LexInt(s).ok /\ LexIndex(s).rest = LexInt(s).rest
  BY <1>3, IntTakes DEF Takes
<1> QED BY <1>1, <1>2, <1>3, IndexReads

-----------------------------------------------------------------------------
\* One turn of the loop over indexes.
Within(left) == LexIndex(SkipSpace(Tail(left)))
Goes(left) ==
  /\ StartsWith(left, OpenBracket) /\ Within(left).ok
  /\ StartsWith(SkipSpace(Within(left).rest), CloseBracket)
PathFrom(f, left) ==
  IF ~StartsWith(left, OpenBracket) THEN Lexed(<<>>, left)
  ELSE AndThen(Within(left), LAMBDA idx, rest :
         IF StartsWith(SkipSpace(rest), CloseBracket)
         THEN Before(<<idx>>, f[Len(SkipSpace(rest)) - 1])
         ELSE LexError)

LEMMA PathTurns ==
  ASSUME NEW f, NEW left
  PROVE  PathFrom(f, left) =
           IF Goes(left)
           THEN Before(<<Within(left).value>>, f[Len(SkipSpace(Within(left).rest)) - 1])
           ELSE IF StartsWith(left, OpenBracket) THEN LexError ELSE Lexed(<<>>, left)
  BY DEF PathFrom, Goes, AndThen

\* The places of a turn: before the index, behind it, and before the closing bracket.
Turn(s, p, i, j, k) ==
  /\ i \in p + 1..Len(s) /\ j \in i + 1..Len(s) /\ k \in j..Len(s) - 1
  /\ s[p + 1] = OpenBracket /\ s[k + 1] = CloseBracket
  /\ LexIndex(Skip(s, i)).ok /\ LexIndex(Skip(s, i)).rest = Skip(s, j)
  /\ SkipSpace(Within(Skip(s, p)).rest) = Skip(s, k)
  /\ \A n \in p + 2..i : s[n] \in Spaces
  /\ \A n \in j + 1..k : s[n] \in Spaces

LEMMA GoesThrough ==
  ASSUME NEW C, NEW s \in Seq(C), NEW p \in 0..Len(s), Goes(Skip(s, p))
  PROVE  p < Len(s) /\ \E i, j, k : Turn(s, p, i, j, k)
<1>1. p < Len(s) /\ s[p + 1] = OpenBracket
  BY StartsAfter DEF Goes
<1>2. PICK a \in 1..Len(s) : a = p + 1
  BY <1>1
<1>3. a - 1 = p /\ a + 1 = p + 2 /\ a \in 0..Len(s)
  BY <1>2
<1>4. Tail(Skip(s, p)) = Skip(s, a)
  BY <1>3, TailAt
<1>5. PICK i \in a..Len(s) : SkipSpace(Skip(s, a)) = Skip(s, i) /\ \A n \in a + 1..i : s[n] \in Spaces
  BY <1>3, SkipSpaceSkips
<1>6. Within(Skip(s, p)) = LexIndex(Skip(s, i)) /\ LexIndex(Skip(s, i)).ok
  BY <1>4, <1>5 DEF Within, Goes
<1>7. i \in 0..Len(s)
  BY <1>3
<1>8. PICK t \in Seq(C) : t = Skip(s, i) /\ Len(t) = Len(s) - i
  BY <1>7, SkipIsSeq
<1>9. PICK m \in 1..Len(t) : LexIndex(t).rest = Skip(t, m)
  BY <1>6, <1>8, IndexShortens
<1>10. PICK j \in i + 1..Len(s) : j = i + m
  BY <1>7, <1>8
<1>11. LexIndex(t).rest = Skip(s, j)
  <2>1. m \in 0..Len(s) - i
    BY <1>8
  <2>2. Skip(t, m) = Skip(s, i + m)
    BY <1>7, <1>8, <2>1, SkipTwice
  <2> QED BY <1>9, <1>10, <2>2
<1>12. j \in 0..Len(s)
  BY <1>7
<1>13. PICK k \in j..Len(s) : SkipSpace(Skip(s, j)) = Skip(s, k) /\ \A n \in j + 1..k : s[n] \in Spaces
  BY <1>12, SkipSpaceSkips
<1>14. k \in 0..Len(s)
  BY <1>12
<1>15. StartsWith(Skip(s, k), CloseBracket)
  BY <1>6, <1>8, <1>11, <1>13 DEF Goes
<1>16. k < Len(s) /\ s[k + 1] = CloseBracket
  BY <1>14, <1>15, StartsAfter
<1>17. k \in j..Len(s) - 1
  BY <1>14, <1>16
<1>18. Turn(s, p, i, j, k)
  BY <1>1, <1>2, <1>3, <1>5, <1>6, <1>8, <1>11, <1>13, <1>16, <1>17 DEF Turn
<1> QED BY <1>1, <1>18

IsPath(f, s) == f = [n \in 0..Len(s) |-> PathFrom(f, LastOf(s, n))]

\* The loop over indexes as a function of what is left.
LEMMA LexPathEquation ==
  ASSUME NEW C, NEW s \in Seq(C)
  PROVE  \E f : /\ LexPath(s) = f[Len(s)]
                /\ \A n \in 0..Len(s) : f[n] = PathFrom(f, LastOf(s, n))
<1> DEFINE N == Len(s)
           goes == {n \in 0..N : Goes(LastOf(s, n))}
           read == [n \in 0..N |-> <<Within(LastOf(s, n)).value>>]
           to == [n \in 0..N |-> Len(SkipSpace(Within(LastOf(s, n)).rest)) - 1]
           end == [n \in 0..N |-> IF StartsWith(LastOf(s, n), OpenBracket) THEN LexError
                                  ELSE Lexed(<<>>, LastOf(s, n))]
<1>1. ASSUME NEW n \in 0..N, n \in goes PROVE to[n] \in 0..n - 1
  <2>1. PICK p \in 0..Len(s) : p = Len(s) - n /\ LastOf(s, n) = Skip(s, p)
    <3>1. Len(s) - n \in 0..Len(s)
      OBVIOUS
    <3> QED BY <3>1, LastIsSkip
  <2>2. Goes(Skip(s, p))
    BY <1>1, <2>1
  <2>3. PICK i, j, k : Turn(s, p, i, j, k)
    BY <2>2, GoesThrough
  <2>4. k \in 0..Len(s) /\ Len(s) - k - 1 \in 0..n - 1
    BY <2>1, <2>3 DEF Turn
  <2>5. Len(Skip(s, k)) = Len(s) - k
    BY <2>4, SkipIsSeq
  <2>6. to[n] = Len(s) - k - 1
    BY <2>1, <2>3, <2>5 DEF Turn
  <2> QED BY <2>4, <2>6
<1>2. ASSUME NEW f, NEW n \in 0..N
      PROVE  PathFrom(f, LastOf(s, n)) = IF n \in goes THEN Before(read[n], f[to[n]]) ELSE end[n]
  BY PathTurns
<1>3. N \in Nat
  OBVIOUS
<1>4. PICK f : Loop(f, N, goes, read, to, end)
  <2> HIDE DEF N, goes, read, to, end
  <2> QED BY <1>1, <1>3, LoopExists
<1>5. IsPath(f, s)
  <2> HIDE DEF goes, read, to, end
  <2> QED BY <1>2, <1>4 DEF Loop, IsPath
<1> DEFINE Chosen == CHOOSE g : IsPath(g, s)
<1>6. IsPath(Chosen, s)
  BY <1>5
<1>7. LexPath(s) = Chosen[Len(s)]
  BY DEF LexPath, IsPath, PathFrom, Within, OpenBracket, CloseBracket
<1> HIDE DEF Chosen
<1>8. \A n \in 0..Len(s) : Chosen[n] = PathFrom(Chosen, LastOf(s, n))
  BY <1>6 DEF IsPath
<1> QED BY <1>7, <1>8

-----------------------------------------------------------------------------
Backslash == "\\"
Escaping == {Quote, Backslash}

\* Quotes, backslashes and brackets are none of the other characters.
LEMMA CharactersDiffer ==
  /\ Quote # Backslash /\ OpenBracket # CloseBracket
  /\ \A c \in Escaping \cup BracketPair : c \notin IntCharacters /\ c \notin Spaces /\ c # Star
  /\ \A b \in BracketPair : b \notin Escaping
<1>1. Quote # Backslash /\ OpenBracket # CloseBracket
  BY DEF Quote, Backslash, OpenBracket, CloseBracket
<1>2. \A c \in Escaping \cup BracketPair : c \in {"\"", "\\", "[", "]"}
  BY DEF Escaping, BracketPair, Quote, Backslash, OpenBracket, CloseBracket
<1>3. \A c \in {"\"", "\\", "[", "]"} : c \notin IntCharacters
  BY DEF IntCharacters, Digit
<1>4. \A c \in {"\"", "\\", "[", "]"} : c # "*" /\ c # " "
  OBVIOUS
<1>5. \A c \in {"\"", "\\", "[", "]"} : c # Star /\ c \notin Spaces
  BY <1>4, Zenon DEF Star, Spaces
<1>6. \A b \in BracketPair : b \notin Escaping
  BY DEF Escaping, BracketPair, Quote, Backslash, OpenBracket, CloseBracket
<1> QED BY <1>1, <1>2, <1>3, <1>5, <1>6

LEMMA TurnedHolds ==
  ASSUME NEW x \in BOOLEAN, NEW i
  PROVE  /\ ~EndsQuoted(i) => Turned(x, i) = x
         /\ EndsQuoted(i) => Turned(x, i) = (~x)
<1>1. EndsQuoted(i) \in BOOLEAN
  BY DEF EndsQuoted
<1>2. PICK y \in BOOLEAN : y = EndsQuoted(i)
  BY <1>1
<1>3. Turned(x, i) = (x # y)
  BY <1>2 DEF Turned
<1> QED BY <1>2, <1>3

\* A place outside the keys with no backslash before the next character.
Clear(p) == ~InKey(p + 1) /\ Backslashes(p + 1) = 0

\* From one such place to another with no bracket counted.
Reaches(p, q) == Clear(q) /\ \A b \in BracketPair : Brackets(b, q) = Brackets(b, p)

LEMMA QuoteEnds ==
  ASSUME NEW i
  PROVE  /\ EndsQuoted(i) <=> chars[i] = Quote /\ Backslashes(i) % 2 = 0
         /\ EndsQuoted(i) => chars[i] \in Escaping
  BY DEF EndsQuoted, Quote, Escaping

LEMMA BackslashesCleared ==
  ASSUME NEW i \in Nat \ {0}, chars[i] # Backslash
  PROVE  Backslashes(i + 1) = 0
<1>1. Backslashes(i + 1) = IF chars[i] = Backslash THEN Backslashes(i) + 1 ELSE 0
  BY BackslashesStep DEF Backslash
<1> QED BY <1>1

\* The next character, when it opens no key and escapes nothing.
LEMMA ClearOn ==
  ASSUME NEW p \in Nat, Clear(p), chars[p + 1] \notin Escaping
  PROVE  /\ Clear(p + 1)
         /\ \A b : Brackets(b, p + 1) = Brackets(b, p) + (IF chars[p + 1] = b THEN 1 ELSE 0)
<1>1. PICK q \in Nat \ {0} : q = p + 1
  OBVIOUS
<1>2. q \in 1..q /\ q \in 0..q /\ p \in 0..q /\ q - 1 = p /\ q + 1 = (p + 1) + 1
  BY <1>1
<1>3. ~EndsQuoted(q)
  BY <1>1, QuoteEnds
<1>4. ~InKey(q)
  BY <1>1 DEF Clear
<1>5. InKey(q) \in BOOLEAN /\ InKey(q + 1) = Turned(InKey(q), q)
  <2>1. \A n \in 0..q : InKey(n + 1) \in BOOLEAN
    BY <1>1, InKeySteps
  <2>2. \A n \in 1..q : InKey(n + 1) = Turned(InKey(n), n)
    BY <1>1, InKeySteps
  <2> QED BY <1>1, <1>2, <2>1, <2>2
<1>6. ~InKey(q + 1)
  BY <1>3, <1>4, <1>5, TurnedHolds, Zenon
<1>7. Backslashes(q + 1) = 0
  BY <1>1, BackslashesCleared DEF Escaping
<1>8. ASSUME NEW b PROVE Brackets(b, q) = Brackets(b, p) + (IF chars[q] = b THEN 1 ELSE 0)
  <2>1. Brackets(b, q) = Brackets(b, q - 1) + Counted(b, q)
    BY <1>2, BracketsSteps
  <2> QED BY <1>2, <1>4, <2>1 DEF Counted
<1> QED BY <1>1, <1>6, <1>7, <1>8 DEF Clear

LEMMA ReachesOn ==
  ASSUME NEW p \in Nat, NEW q \in Nat, Reaches(p, q), chars[q + 1] \notin Escaping \cup BracketPair
  PROVE  Reaches(p, q + 1)
<1>1. Clear(q + 1)
  BY ClearOn DEF Reaches
<1>2. ASSUME NEW b \in BracketPair PROVE Brackets(b, q + 1) = Brackets(b, p)
  <2>1. Brackets(b, q + 1) = Brackets(b, q) + (IF chars[q + 1] = b THEN 1 ELSE 0)
    BY ClearOn DEF Reaches
  <2>2. Brackets(b, q) \in Int
    <3>1. q \in 0..q
      OBVIOUS
    <3> QED BY <3>1, BracketsSteps
  <2>3. chars[q + 1] # b
    OBVIOUS
  <2> QED BY <2>1, <2>2, <2>3 DEF Reaches
<1> QED BY <1>1, <1>2 DEF Reaches

\* Characters that are no quotes, backslashes or brackets.
LEMMA PlainRun ==
  ASSUME NEW p \in Nat, NEW q \in Nat, p <= q, Clear(p),
         \A n \in p + 1..q : chars[n] \notin Escaping \cup BracketPair
  PROVE  Reaches(p, q)
<1> DEFINE Bad == {n \in p..q : ~Reaches(p, n)}
<1>1. ASSUME Bad # {} PROVE FALSE
  <2>1. PICK x \in Bad : \A n \in Bad : x <= n
    <3>1. Bad \in SUBSET Nat
      OBVIOUS
    <3>2. Bad # {}
      BY <1>1
    <3> HIDE DEF Bad
    <3> QED BY <3>1, <3>2, LeastNumber
  <2>2. x \in p..q /\ ~Reaches(p, x)
    BY <2>1
  <2>3. x # p
    BY <2>2 DEF Reaches
  <2>4. PICK y \in Nat : x = y + 1 /\ y \in p..q /\ y + 1 \in p + 1..q /\ ~(x <= y)
    <3>1. x - 1 \in Nat /\ x = (x - 1) + 1 /\ x - 1 \in p..q /\ (x - 1) + 1 \in p + 1..q /\ ~(x <= x - 1)
      BY <2>2, <2>3
    <3> QED BY <3>1
  <2>5. Reaches(p, y)
    BY <2>1, <2>4
  <2> QED BY <2>2, <2>4, <2>5, ReachesOn
<1>2. q \in p..q
  OBVIOUS
<1> QED BY <1>1, <1>2

\* A quoted key, from before its quote to behind the quote that ends it.
InsideKey(p, n) == InKey(n + 1) = TRUE /\ \A b \in BracketPair : Brackets(b, n) = Brackets(b, p)

LEMMA InsideOn ==
  ASSUME NEW p \in Nat, NEW n \in Nat, InsideKey(p, n)
  PROVE  /\ ~EndsQuoted(n + 1) => InsideKey(p, n + 1)
         /\ EndsQuoted(n + 1) => Reaches(p, n + 1)
<1>1. PICK m \in Nat \ {0} : m = n + 1
  OBVIOUS
<1>2. m \in 1..m /\ m \in 0..m /\ n \in 0..m /\ m - 1 = n
  BY <1>1
<1>3. InKey(m) = TRUE
  BY <1>1 DEF InsideKey
<1>4. InKey(m + 1) = Turned(TRUE, m)
  <2>1. \A i \in 1..m : InKey(i + 1) = Turned(InKey(i), i)
    BY <1>1, InKeySteps
  <2> QED BY <1>2, <1>3, <2>1
<1>5. ASSUME NEW b \in BracketPair PROVE Brackets(b, m) = Brackets(b, p)
  <2>1. Brackets(b, m) = Brackets(b, m - 1) + Counted(b, m)
    BY <1>2, BracketsSteps
  <2>2. Counted(b, m) = 0
    BY <1>3 DEF Counted
  <2>3. Brackets(b, n) \in Int
    BY <1>2, BracketsSteps
  <2>4. Brackets(b, n) = Brackets(b, p)
    BY DEF InsideKey
  <2> QED BY <1>2, <2>1, <2>2, <2>3, <2>4
<1>6. ASSUME ~EndsQuoted(m) PROVE InsideKey(p, m)
  <2>1. InKey(m + 1) = TRUE
    BY <1>4, <1>6, TurnedHolds, Zenon
  <2> QED BY <1>5, <2>1 DEF InsideKey
<1>7. ASSUME EndsQuoted(m) PROVE Reaches(p, m)
  <2>1. ~InKey(m + 1)
    BY <1>4, <1>7, TurnedHolds, Zenon
  <2>2. Backslashes(m + 1) = 0
    BY <1>7, QuoteEnds, CharactersDiffer, BackslashesCleared
  <2> QED BY <1>5, <2>1, <2>2 DEF Reaches, Clear
<1> QED BY <1>1, <1>6, <1>7

LEMMA KeyOpens ==
  ASSUME NEW p \in Nat, Clear(p), chars[p + 1] = Quote
  PROVE  InsideKey(p, p + 1) /\ Backslashes(p + 2) = 0
<1>1. PICK m \in Nat \ {0} : m = p + 1
  OBVIOUS
<1>2. m \in 1..m /\ m \in 0..m /\ p \in 0..m /\ m - 1 = p /\ m + 1 = p + 2
  BY <1>1
<1>3. EndsQuoted(m)
  <2>1. Backslashes(m) = 0
    BY <1>1 DEF Clear
  <2>2. 0 % 2 = 0
    OBVIOUS
  <2> QED BY <1>1, <2>1, <2>2, QuoteEnds
<1>4. InKey(m) = FALSE /\ InKey(m + 1) = Turned(FALSE, m)
  <2>1. \A n \in 0..m : InKey(n + 1) \in BOOLEAN
    BY <1>1, InKeySteps
  <2>2. \A i \in 1..m : InKey(i + 1) = Turned(InKey(i), i)
    BY <1>1, InKeySteps
  <2>3. InKey(m) \in BOOLEAN /\ ~InKey(m)
    BY <1>1, <1>2, <2>1 DEF Clear
  <2>4. InKey(m) = FALSE
    BY <2>3, Zenon
  <2> QED BY <1>2, <2>2, <2>4
<1>5. InKey(m + 1) = TRUE
  BY <1>3, <1>4, TurnedHolds, Zenon
<1>6. ASSUME NEW b \in BracketPair PROVE Brackets(b, m) = Brackets(b, p)
  <2>1. Brackets(b, m) = Brackets(b, m - 1) + Counted(b, m)
    BY <1>2, BracketsSteps
  <2>2. Counted(b, m) = 0
    <3>1. chars[m] # b
      BY <1>1, CharactersDiffer DEF Escaping
    <3> QED BY <3>1 DEF Counted
  <2>3. Brackets(b, p) \in Int
    BY <1>2, BracketsSteps
  <2> QED BY <1>2, <2>1, <2>2, <2>3
<1>7. Backslashes(m + 1) = 0
  BY <1>1, CharactersDiffer, BackslashesCleared
<1> QED BY <1>1, <1>2, <1>5, <1>6, <1>7 DEF InsideKey

LEMMA KeyRun ==
  ASSUME NEW p \in Nat, Clear(p), chars[p + 1] = Quote, NEW at \in Nat, p + 2 <= at,
         EndsQuoted(at), \A i \in p + 2..at - 1 : ~EndsQuoted(i)
  PROVE  Reaches(p, at)
<1> DEFINE Bad == {n \in p + 1..at - 1 : ~InsideKey(p, n)}
<1>1. ASSUME Bad # {} PROVE FALSE
  <2>1. PICK x \in Bad : \A n \in Bad : x <= n
    <3>1. Bad \in SUBSET Nat
      OBVIOUS
    <3>2. Bad # {}
      BY <1>1
    <3> HIDE DEF Bad
    <3> QED BY <3>1, <3>2, LeastNumber
  <2>2. x \in p + 1..at - 1 /\ ~InsideKey(p, x)
    BY <2>1
  <2>3. x # p + 1
    BY <2>2, KeyOpens
  <2>4. PICK y \in Nat : x = y + 1 /\ y \in p + 1..at - 1 /\ y + 1 \in p + 2..at - 1 /\ ~(x <= y)
    <3>1. /\ x - 1 \in Nat /\ x = (x - 1) + 1 /\ x - 1 \in p + 1..at - 1
          /\ (x - 1) + 1 \in p + 2..at - 1 /\ ~(x <= x - 1)
      BY <2>2, <2>3
    <3> QED BY <3>1
  <2>5. InsideKey(p, y)
    BY <2>1, <2>4
  <2> QED BY <2>2, <2>4, <2>5, InsideOn
<1>2. PICK y \in Nat : at = y + 1 /\ y \in p + 1..at - 1
  <2>1. at - 1 \in Nat /\ at = (at - 1) + 1 /\ at - 1 \in p + 1..at - 1
    OBVIOUS
  <2> QED BY <2>1
<1>3. InsideKey(p, y)
  BY <1>1, <1>2
<1> QED BY <1>2, <1>3, InsideOn

-----------------------------------------------------------------------------
\* An index has no bracket outside its key, and ends outside of it.
LEMMA IndexReaches ==
  ASSUME NEW C, chars \in Seq(C), NEW i \in 0..Len(chars), Clear(i),
         NEW j \in i + 1..Len(chars),
         LexIndex(Skip(chars, i)).ok, LexIndex(Skip(chars, i)).rest = Skip(chars, j)
  PROVE  Reaches(i, j)
<1>1. PICK t \in Seq(C) : t = Skip(chars, i) /\ Len(t) = Len(chars) - i
  BY SkipIsSeq
<1>2. i \in Nat /\ j \in Nat /\ i <= j /\ Len(chars) \in Nat
  OBVIOUS
<1>3. ASSUME NEW q \in 0..Len(chars), Skip(chars, q) = Skip(chars, j) PROVE q = j
  <2>1. j \in 0..Len(chars)
    BY <1>2
  <2>2. Len(Skip(chars, q)) = Len(chars) - q /\ Len(Skip(chars, j)) = Len(chars) - j
    BY <2>1, SkipIsSeq
  <2> QED BY <1>2, <1>3, <2>2
<1>4. ASSUME NEW c, StartsWith(t, c)
      PROVE  i + 1 \in 1..Len(chars) /\ chars[i + 1] = c
  BY <1>1, <1>2, <1>4, StartsAfter
<1>5. CASE StartsWith(t, Star) /\ LexIndex(t).rest = Skip(t, 1)
  <2>1. i + 1 \in 1..Len(chars) /\ chars[i + 1] = Star
    BY <1>4, <1>5
  <2>2. 1 \in 0..Len(chars) - i /\ i + 1 \in 0..Len(chars)
    BY <1>2, <2>1
  <2>3. Skip(t, 1) = Skip(chars, i + 1)
    BY <1>1, <2>2, SkipTwice
  <2>4. j = i + 1
    BY <1>1, <1>3, <1>5, <2>2, <2>3
  <2>5. ASSUME NEW n \in i + 1..j PROVE chars[n] \notin Escaping \cup BracketPair
    <3>1. n = i + 1
      BY <1>2, <2>4
    <3> QED BY <2>1, <3>1, CharactersDiffer
  <2> QED BY <1>2, <2>5, PlainRun
<1>6. CASE /\ StartsWith(t, Quote) /\ LexQuoted(Skip(t, 1)).ok
           /\ LexIndex(t).rest = LexQuoted(Skip(t, 1)).rest
  <2>1. i + 1 \in 1..Len(chars) /\ chars[i + 1] = Quote
    BY <1>4, <1>6
  <2>2. PICK p \in 0..Len(chars) : p = i + 1 /\ p + 1 = i + 2
    BY <1>2, <2>1
  <2>3. Skip(t, 1) = Skip(chars, p)
    <3>1. 1 \in 0..Len(chars) - i
      BY <1>2, <2>1
    <3> QED BY <1>1, <2>2, <3>1, SkipTwice
  <2>4. Backslashes(p + 1) = 0
    BY <1>2, <2>1, <2>2, KeyOpens
  <2>5. Backslashes(p + 1) % 2 = 0
    BY <2>4
  <2>6. Ending(p, LexQuoted(Skip(chars, p)))
    BY <2>5, QuotedEndsFrom
  <2>7. PICK at \in p + 1..Len(chars) :
          /\ EndsQuoted(at) /\ \A n \in p + 1..at - 1 : ~EndsQuoted(n)
          /\ LexQuoted(Skip(chars, p)).rest = Skip(chars, at)
    BY <1>6, <2>3, <2>6 DEF Ending
  <2>8. at = j
    <3>1. at \in 0..Len(chars)
      BY <1>2
    <3>2. Skip(chars, at) = Skip(chars, j)
      BY <1>1, <1>6, <2>3, <2>7
    <3> QED BY <1>3, <3>1, <3>2
  <2>9. i + 2 <= j /\ \A n \in i + 2..j - 1 : ~EndsQuoted(n)
    BY <1>2, <2>2, <2>7, <2>8
  <2> QED BY <1>2, <2>1, <2>7, <2>8, <2>9, KeyRun
<1>7. CASE LexInt(t).ok /\ LexIndex(t).rest = LexInt(t).rest
  <2>1. PICK k : Takes(t, LexInt(t), k, IntCharacters)
    BY <1>7, IntTakes
  <2>2. k \in 1..Len(t) /\ LexInt(t).rest = Skip(t, k) /\ \A n \in 1..k : t[n] \in IntCharacters
    BY <2>1 DEF Takes
  <2>3. k \in 0..Len(chars) - i /\ i + k \in 0..Len(chars)
    BY <1>1, <1>2, <2>2
  <2>4. Skip(t, k) = Skip(chars, i + k)
    BY <1>1, <2>3, SkipTwice
  <2>5. j = i + k
    BY <1>1, <1>3, <1>7, <2>2, <2>3, <2>4
  <2>6. ASSUME NEW n \in i + 1..j PROVE chars[n] \notin Escaping \cup BracketPair
    <3>1. n - i \in 1..k /\ n - i \in 1..Len(chars) - i /\ i + (n - i) = n
      BY <1>2, <2>3, <2>5
    <3>2. t[n - i] = chars[n]
      BY <1>1, <3>1, SkipIsSeq
    <3>3. chars[n] \in IntCharacters
      BY <2>2, <3>1, <3>2
    <3> QED BY <3>3, CharactersDiffer
  <2> QED BY <1>2, <2>6, PlainRun
<1> QED BY <1>1, <1>5, <1>6, <1>7, IndexReads

\* What the loop reads after a place: an index for each pair of brackets.
Indexing(p, lexed, V) ==
  lexed.ok =>
    /\ lexed.value \in Seq(V)
    /\ \E e \in p..Len(chars) :
         /\ lexed.rest = Skip(chars, e) /\ ~StartsWith(Skip(chars, e), OpenBracket)
         /\ \A b \in BracketPair : Brackets(b, e) = Brackets(b, p) + Len(lexed.value)

\* A turn counts one bracket of each kind.
LEMMA TurnCounts ==
  ASSUME NEW C, chars \in Seq(C), NEW p \in 0..Len(chars), Clear(p),
         NEW i, NEW j, NEW k, Turn(chars, p, i, j, k)
  PROVE  Clear(k + 1) /\ \A b \in BracketPair : Brackets(b, k + 1) = Brackets(b, p) + 1
<1>1. /\ p \in Nat /\ i \in Nat /\ j \in Nat /\ k \in Nat /\ p + 1 \in Nat
      /\ p + 1 <= i /\ i \in 0..Len(chars) /\ j \in i + 1..Len(chars) /\ j <= k /\ (p + 1) + 1 = p + 2
  BY DEF Turn
<1>2. chars[p + 1] = OpenBracket /\ chars[k + 1] = CloseBracket
  BY DEF Turn
<1>3. OpenBracket \in BracketPair /\ CloseBracket \in BracketPair
  BY DEF BracketPair
<1>4. Clear(p + 1)
      /\ \A b : Brackets(b, p + 1) = Brackets(b, p) + (IF OpenBracket = b THEN 1 ELSE 0)
  BY <1>1, <1>2, <1>3, CharactersDiffer, ClearOn
<1>5. Reaches(p + 1, i)
  <2>1. \A n \in (p + 1) + 1..i : chars[n] \in Spaces
    BY <1>1 DEF Turn
  <2>2. \A n \in (p + 1) + 1..i : chars[n] \notin Escaping \cup BracketPair
    BY <2>1, CharactersDiffer
  <2> QED BY <1>1, <1>4, <2>2, PlainRun
<1>6. Reaches(i, j)
  <2>1. LexIndex(Skip(chars, i)).ok /\ LexIndex(Skip(chars, i)).rest = Skip(chars, j)
    BY DEF Turn
  <2> QED BY <1>1, <1>5, <2>1, IndexReaches DEF Reaches
<1>7. Reaches(j, k)
  <2>1. \A n \in j + 1..k : chars[n] \notin Escaping \cup BracketPair
    BY CharactersDiffer DEF Turn
  <2> QED BY <1>1, <1>6, <2>1, PlainRun DEF Reaches
<1>8. Clear(k + 1)
      /\ \A b : Brackets(b, k + 1) = Brackets(b, k) + (IF CloseBracket = b THEN 1 ELSE 0)
  BY <1>1, <1>2, <1>3, <1>7, CharactersDiffer, ClearOn DEF Reaches
<1>9. ASSUME NEW b \in BracketPair PROVE Brackets(b, k + 1) = Brackets(b, p) + 1
  <2>1. Brackets(b, k) = Brackets(b, p + 1)
    BY <1>5, <1>6, <1>7, <1>9 DEF Reaches
  <2>2. Brackets(b, p) \in Int
    <3>1. p \in 0..p
      BY <1>1
    <3> QED BY <1>1, <3>1, BracketsSteps
  <2>3. (OpenBracket = b /\ CloseBracket # b) \/ (OpenBracket # b /\ CloseBracket = b)
    BY CharactersDiffer DEF BracketPair
  <2>4. Brackets(b, p + 1) = Brackets(b, p) + (IF OpenBracket = b THEN 1 ELSE 0)
    BY <1>4
  <2>5. Brackets(b, k + 1) = Brackets(b, k) + (IF CloseBracket = b THEN 1 ELSE 0)
    BY <1>8
  <2> QED BY <2>1, <2>2, <2>3, <2>4, <2>5
<1> QED BY <1>8, <1>9

\* One turn of the loop, after which the others follow.
LEMMA PathTurn ==
  ASSUME NEW C, chars \in Seq(C), NEW V, NEW p \in 0..Len(chars), Clear(p), NEW f, NEW left,
         left = Skip(chars, p), Goes(left) => Within(left).value \in V,
         \A q \in p + 1..Len(chars) : Clear(q) => Indexing(q, f[Len(chars) - q], V)
  PROVE  Indexing(p, PathFrom(f, left), V)
<1>1. Len(chars) \in Nat /\ p \in p..Len(chars)
  OBVIOUS
<1>2. ASSUME NEW b PROVE Brackets(b, p) \in Int
  <2>1. p \in Nat /\ p \in 0..p
    OBVIOUS
  <2> QED BY <2>1, BracketsSteps
<1>3. CASE ~Goes(left) /\ StartsWith(left, OpenBracket)
  <2>1. PathFrom(f, left) = LexError
    BY <1>3, PathTurns
  <2> QED BY <2>1, ErrorIsNotRead DEF Indexing
<1>4. CASE ~Goes(left) /\ ~StartsWith(left, OpenBracket)
  <2>1. PathFrom(f, left) = Lexed(<<>>, left)
    BY <1>4, PathTurns
  <2>2. PathFrom(f, left).value = <<>> /\ PathFrom(f, left).rest = left
    BY <2>1 DEF Lexed
  <2>3. <<>> \in Seq(V) /\ Len(<<>>) = 0
    OBVIOUS
  <2>4. \A b \in BracketPair : Brackets(b, p) = Brackets(b, p) + 0
    BY <1>2
  <2> QED BY <1>1, <1>4, <2>2, <2>3, <2>4 DEF Indexing
<1>5. CASE Goes(left)
  <2>1. PICK i, j, k : Turn(chars, p, i, j, k)
    BY <1>5, GoesThrough
  <2>2. PICK q \in p + 1..Len(chars) : q = k + 1
    BY <1>1, <2>1 DEF Turn
  <2>3. Len(SkipSpace(Within(left).rest)) - 1 = Len(chars) - q
    <3>1. k \in 0..Len(chars) /\ SkipSpace(Within(left).rest) = Skip(chars, k)
      BY <2>1 DEF Turn
    <3>2. Len(Skip(chars, k)) = Len(chars) - k
      BY <3>1, SkipIsSeq
    <3> QED BY <1>1, <2>2, <3>1, <3>2
  <2>4. PICK value, more : value = Within(left).value /\ more = f[Len(chars) - q]
    OBVIOUS
  <2>5. PathFrom(f, left) = Before(<<value>>, more)
    BY <1>5, <2>3, <2>4, PathTurns
  <2>6. Clear(q) /\ \A b \in BracketPair : Brackets(b, q) = Brackets(b, p) + 1
    BY <2>1, <2>2, TurnCounts
  <2>7. Indexing(q, more, V)
    BY <2>4, <2>6
  <2>8. SUFFICES ASSUME Before(<<value>>, more).ok
                 PROVE  Indexing(p, Before(<<value>>, more), V)
    BY <2>5 DEF Indexing
  <2>9. more.ok /\ Before(<<value>>, more) = Lexed(<<value>> \o more.value, more.rest)
    BY <2>8, BeforeHolds
  <2>10. more.value \in Seq(V)
    BY <2>7, <2>9 DEF Indexing
  <2>11. PICK e \in q..Len(chars) :
           /\ more.rest = Skip(chars, e) /\ ~StartsWith(Skip(chars, e), OpenBracket)
           /\ \A b \in BracketPair : Brackets(b, e) = Brackets(b, q) + Len(more.value)
    BY <2>7, <2>9 DEF Indexing
  <2>12. PICK values : values = <<value>> \o more.value
    OBVIOUS
  <2>13. values \in Seq(V) /\ Len(values) = Len(more.value) + 1
    <3>1. value \in V
      BY <1>5, <2>4
    <3> QED BY <2>10, <2>12, <3>1, OneMore, Zenon
  <2>14. Before(<<value>>, more).value = values /\ Before(<<value>>, more).rest = more.rest
    <3>1. Before(<<value>>, more) = Lexed(values, more.rest)
      BY <2>9, <2>12, Zenon
    <3>2. Lexed(values, more.rest).rest = more.rest /\ Lexed(values, more.rest).value = values
      BY DEF Lexed
    <3> QED BY <3>1, <3>2, Zenon
  <2>15. ASSUME NEW b \in BracketPair PROVE Brackets(b, e) = Brackets(b, p) + Len(values)
    <3>1. Brackets(b, e) = Brackets(b, q) + Len(more.value) /\ Brackets(b, q) = Brackets(b, p) + 1
      BY <2>6, <2>11
    <3>2. Brackets(b, p) \in Int /\ Len(more.value) \in Nat
      BY <1>2, <2>10
    <3> QED BY <2>13, <3>1, <3>2
  <2>16. e \in p..Len(chars)
    BY <1>1
  <2> QED BY <2>11, <2>13, <2>14, <2>15, <2>16 DEF Indexing
<1> QED BY <1>3, <1>4, <1>5

\* The indexes that are read somewhere in the text.
IndexesIn(s) == {Within(LastOf(s, n)).value : n \in 0..Len(s)}

\* The whole loop, from the end of the text to its start.
LEMMA PathIndexes ==
  ASSUME NEW C, chars \in Seq(C)
  PROVE  Indexing(0, LexPath(chars), IndexesIn(chars))
<1>1. PICK f : /\ LexPath(chars) = f[Len(chars)]
               /\ \A n \in 0..Len(chars) : f[n] = PathFrom(f, LastOf(chars, n))
  BY LexPathEquation
<1>2. PICK V : V = IndexesIn(chars)
  OBVIOUS
<1>3. PICK L \in Nat : L = Len(chars)
  OBVIOUS
<1> DEFINE Bad == {n \in 0..L : Clear(L - n) /\ ~Indexing(L - n, f[n], V)}
<1>4. ASSUME Bad # {} PROVE FALSE
  <2>1. PICK x \in Bad : \A n \in Bad : x <= n
    <3>1. Bad \in SUBSET Nat
      OBVIOUS
    <3>2. Bad # {}
      BY <1>4
    <3> HIDE DEF Bad
    <3> QED BY <3>1, <3>2, LeastNumber
  <2>2. x \in 0..L /\ Clear(L - x) /\ ~Indexing(L - x, f[x], V)
    BY <2>1
  <2>3. PICK p \in 0..L : p = L - x
    BY <2>2
  <2>4. ASSUME NEW q \in p + 1..L, Clear(q) PROVE Indexing(q, f[L - q], V)
    <3>1. L - q \in 0..L /\ ~(x <= L - q) /\ L - (L - q) = q
      BY <2>2, <2>3
    <3>2. L - q \notin Bad
      BY <2>1, <3>1
    <3>3. Clear(L - (L - q))
      BY <2>4, <3>1
    <3> QED BY <3>1, <3>2, <3>3
  <2>5. PICK left : left = LastOf(chars, x)
    OBVIOUS
  <2>6. left = Skip(chars, p)
    BY <1>3, <2>2, <2>3, <2>5, LastIsSkip
  <2>7. Within(left).value \in V
    BY <1>2, <1>3, <2>2, <2>5 DEF IndexesIn
  <2>8. Clear(p)
    BY <2>2, <2>3
  <2>9. Indexing(p, PathFrom(f, left), V)
    BY <1>3, <2>4, <2>6, <2>7, <2>8, PathTurn
  <2> QED BY <1>1, <1>3, <2>2, <2>3, <2>5, <2>9
<1>5. Clear(0)
  <2>1. InKey(1) = FALSE
    <3>1. 0 \in Nat
      OBVIOUS
    <3> QED BY <3>1, InKeySteps
  <2>2. Backslashes(1) = 0
    <3>1. 1 \in Nat \ {0} /\ 1 - 1 = 0
      OBVIOUS
    <3>2. Backslashes(1) \in 0..1 - 1
      BY <3>1, BackslashesRange
    <3> QED BY <3>2
  <2>3. 0 + 1 = 1
    OBVIOUS
  <2> QED BY <2>1, <2>2, <2>3, Zenon DEF Clear
<1>6. L \in 0..L /\ L - L = 0
  BY <1>3
<1>7. Indexing(L - L, f[L], V)
  <2>1. L \notin Bad
    BY <1>4
  <2>2. Clear(L - L)
    BY <1>5, <1>6
  <2> QED BY <1>6, <2>1, <2>2
<1> QED BY <1>1, <1>2, <1>3, <1>6, <1>7

\* A path is as many indexes as there are brackets outside its keys.
LEMMA PathsHold ==
  ASSUME NEW C, chars \in Seq(C), NEW lexed, lexed = LexPath(chars)
  PROVE  /\ StopsBefore(lexed, {"["})
         /\ lexed.ok => \A bracket \in {"[", "]"} :
              Len(lexed.value) = Brackets(bracket, Len(chars) - Len(lexed.rest))
<1> SUFFICES ASSUME lexed.ok
             PROVE  /\ ~StartsWith(lexed.rest, OpenBracket)
                    /\ \A bracket \in BracketPair :
                         Len(lexed.value) = Brackets(bracket, Len(chars) - Len(lexed.rest))
  BY Zenon DEF StopsBefore, OpenBracket, CloseBracket, BracketPair
<1>1. Indexing(0, lexed, IndexesIn(chars))
  BY PathIndexes
<1>2. PICK e \in 0..Len(chars) :
        /\ lexed.rest = Skip(chars, e) /\ ~StartsWith(Skip(chars, e), OpenBracket)
        /\ \A b \in BracketPair : Brackets(b, e) = Brackets(b, 0) + Len(lexed.value)
  BY <1>1 DEF Indexing
<1>3. Len(lexed.value) \in Nat
  BY <1>1 DEF Indexing
<1>4. Len(chars) - Len(lexed.rest) = e
  <2>1. Len(Skip(chars, e)) = Len(chars) - e
    BY SkipIsSeq
  <2> QED BY <1>2, <2>1
<1>5. \A b : Brackets(b, 0) = 0
  <2>1. 0 \in Nat
    OBVIOUS
  <2> QED BY <2>1, BracketsSteps
<1>6. \A b \in BracketPair : Brackets(b, e) = Len(lexed.value)
  BY <1>2, <1>3, <1>5
<1> QED BY <1>2, <1>4, <1>6

-----------------------------------------------------------------------------
\* Every kind of literal.
LEMMA MaximalHolds ==
  ASSUME NEW C, chars \in Seq(C)
  PROVE  LiteralsAreMaximal
<1>1. kind = "int" => StopsBefore(Lex(chars), DOMAIN Digit)
  <2> SUFFICES ASSUME kind = "int" PROVE StopsBefore(Lex(chars), DOMAIN Digit)
    OBVIOUS
  <2>1. Lex(chars) = LexInt(chars)
    BY DEF Lex
  <2> QED BY <2>1, IntTakes DEF StopsBefore
<1>2. kind = "bytes" /\ ~StartsWith(chars, "\"") /\ ~StartsWith(chars, "r") =>
        StopsBefore(Lex(chars), Separators)
  <2> SUFFICES ASSUME kind = "bytes", Unquoted(chars) PROVE StopsBefore(Lex(chars), Separators)
    BY Zenon DEF Unquoted
  <2>1. Lex(chars) = LexBytesExpr(chars)
    BY DEF Lex
  <2> QED BY <2>1, ByteStringStops
<1>3. kind = "list" => StopsBefore(Lex(chars), NameChars)
  <2> SUFFICES ASSUME kind = "list" PROVE StopsBefore(Lex(chars), NameChars)
    OBVIOUS
  <2>1. Lex(chars) = LexListName(chars)
    BY DEF Lex
  <2> QED BY <2>1, ListNameStops
<1>4. kind = "ints" =>
        \A lexed \in {Lex(chars)} :
          lexed.ok => \E end \in 1..Len(chars) : ListsRanges(lexed, end)
  <2> SUFFICES ASSUME kind = "ints", Lex(chars).ok
               PROVE  \E end \in 1..Len(chars) : ListsRanges(Lex(chars), end)
    OBVIOUS
  <2>1. Lex(chars) = LexRhsValues(chars)
    BY DEF Lex
  <2> QED BY <2>1, ListsHold
<1>5. kind = "operator" =>
        \A lexed \in {Lex(chars)}, i \in DOMAIN ComparisonOps :
          lexed.ok /\ IsPrefix(ComparisonOps[i][1], chars) =>
            Len(ComparisonOps[i][1]) <= Len(chars) - Len(lexed.rest)
  <2> SUFFICES ASSUME kind = "operator"
               PROVE  \A lexed \in {Lex(chars)}, i \in DOMAIN ComparisonOps :
                        lexed.ok /\ IsPrefix(ComparisonOps[i][1], chars) =>
                          Len(ComparisonOps[i][1]) <= Len(chars) - Len(lexed.rest)
    OBVIOUS
  <2>1. Lex(chars) = LexEnum(chars, ComparisonOps)
    BY DEF Lex
  <2> QED BY <2>1, LongestOperator
<1>6. kind = "path" =>
        \A lexed \in {Lex(chars)} :
          /\ StopsBefore(lexed, {"["})
          /\ lexed.ok => \A bracket \in {"[", "]"} :
               Len(lexed.value) = Brackets(bracket, Len(chars) - Len(lexed.rest))
  <2>1. kind = "path" => Lex(chars) = LexPath(chars)
    BY DEF Lex
  <2>2. ASSUME kind = "path", NEW lexed \in {Lex(chars)}
        PROVE  /\ StopsBefore(lexed, {"["})
               /\ lexed.ok => \A bracket \in {"[", "]"} :
                    Len(lexed.value) = Brackets(bracket, Len(chars) - Len(lexed.rest))
    <3>1. lexed = LexPath(chars)
      BY <2>1, <2>2
    <3> QED BY <3>1, PathsHold, Zenon
  <2> QED BY <2>2, Zenon
<1> QED BY <1>1, <1>2, <1>3, <1>4, <1>5, <1>6, Zenon DEF LiteralsAreMaximal

-----------------------------------------------------------------------------
\* A text is a sequence of the characters of its alphabets.
Typed ==
  /\ kind \in DOMAIN Alphabets
  /\ chars \in Seq(UNION {Alphabets[k] : k \in DOMAIN Alphabets})

LEMMA TypedHolds == LiteralsSpec => []Typed
<1>1. LiteralsInit => Typed
  BY DEF LiteralsInit, Typed
<1>2. Typed /\ [TypeChar]_literalVars => Typed'
  <2> SUFFICES ASSUME Typed, [TypeChar]_literalVars PROVE Typed'
    OBVIOUS
  <2>1. CASE UNCHANGED literalVars
    BY <2>1 DEF Typed, literalVars
  <2>2. CASE TypeChar
    <3>1. PICK c \in Alphabets[kind] : chars' = Append(chars, c)
      BY <2>2 DEF TypeChar
    <3>2. c \in UNION {Alphabets[k] : k \in DOMAIN Alphabets}
      BY <3>1 DEF Typed
    <3> QED BY <2>2, <3>1, <3>2 DEF Typed, TypeChar
  <2> QED BY <2>1, <2>2
<1> QED BY <1>1, <1>2, PTL DEF LiteralsSpec

\* An integer literal of any length is worth what its digits are worth in the
\* radix its first characters announce, and is refused exactly when a digit is
\* none of that radix or the value is out of range (int.rs i64::lex).
THEOREM IntsAreWorthTheirDigits == LiteralsSpec => []IntsAreTheirDigits
<1>1. Typed => IntsAreTheirDigits
  BY IntHolds DEF Typed
<1> QED BY <1>1, TypedHolds, PTL

\* A string of any length ends at the first quote that its rules let end it, and
\* a raw one is what stands before that quote (bytes.rs
\* lex_quoted_string_as_vec, lex_raw_string_as_str).
THEOREM StringsEndWhereTheyMay == LiteralsSpec => []StringsEndAtFirstClose
<1>1. Typed => StringsEndAtFirstClose
  BY StringsHold DEF Typed
<1> QED BY <1>1, TypedHolds, PTL

\* No literal of any length stops short or runs on: none is followed by a character
\* that would have continued it, a list is all before its first closing brace, an
\* operator is the longest there is, and a path is as many indexes as there are
\* brackets outside its keys (int.rs lex_digits, bytes.rs lex_byte_string, list.rs
\* ListName::lex, types.rs lex_rhs_values, lex.rs lex_enum!, index_expr.rs).
THEOREM LiteralsNeitherStopShortNorRunOn == LiteralsSpec => []LiteralsAreMaximal
<1>1. Typed => LiteralsAreMaximal
  BY MaximalHolds DEF Typed
<1> QED BY <1>1, TypedHolds, PTL
=============================================================================
