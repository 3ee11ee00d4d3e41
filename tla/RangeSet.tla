------------------------------ MODULE RangeSet ------------------------------
(***************************************************************************)
(* The set behind `field in { 1..3 5 }`: the inclusive ranges of a literal *)
(* list are sorted by their starts, merged from left to right where they   *)
(* overlap, and searched by halves.                                        *)
(*                                                                         *)
(* Points are integers: the i64 of an Int, or the addresses of one family  *)
(* in their order.  The sort is unstable, so that ranges with one start    *)
(* come in any order; which element a step of the binary search looks at   *)
(* is the standard library's choice, and any is allowed here.              *)
(***************************************************************************)
EXTENDS Integers, Sequences

CONSTANTS
  Points,      \* the values ranges are made of and searched for
  MaxRanges    \* bound on the ranges of one literal list

ASSUME PointsAssumption == Points \subseteq Int /\ MaxRanges \in Nat

VARIABLES
  phase,       \* "lex", "merge", "ready", "search", "answered"
  literal,     \* the ranges as written
  pending,     \* the sorted ranges not merged yet
  ranges,      \* the merged ranges
  needle,      \* the value searched for
  lo, hi,      \* the part of ranges that may still hold it: lo..hi-1
  found        \* the last search's answer

rangeVars == <<phase, literal, pending, ranges, needle, lo, hi, found>>

RangeInclusive == {r \in [start : Points, end : Points] : r.start <= r.end}
In(v, r) == r.start <= v /\ v <= r.end
Ends(s)  == s[Len(s)]

RangeInit ==
  /\ phase = "lex"
  /\ literal = <<>> /\ pending = <<>> /\ ranges = <<>>
  /\ needle \in Points /\ lo = 1 /\ hi = 1
  /\ found = FALSE

\* IntRange::lex and IpRange::lex refuse a range whose end is before its start;
\* the next range of the list is read.
LexRange(r) ==
  /\ phase = "lex" /\ Len(literal) < MaxRanges
  /\ literal' = Append(literal, r)
  /\ UNCHANGED <<phase, pending, ranges, needle, lo, hi, found>>

Orders(n) == {p \in [1..n -> 1..n] : \A j \in 1..n : \E i \in 1..n : p[i] = j}
SortedByStart(s) == \A i, j \in DOMAIN s : i < j => s[i].start <= s[j].start

\* From<Vec<RangeInclusive>>: sort_unstable_by_key.
Sort ==
  /\ phase = "lex"
  /\ \E p \in Orders(Len(literal)) :
       pending' = [i \in 1..Len(literal) |-> literal[p[i]]]
  /\ SortedByStart(pending')
  /\ phase' = "merge"
  /\ UNCHANGED <<literal, ranges, needle, lo, hi, found>>

\* dedup_by's closure on the last range kept, a, and the next one, b: b goes
\* into a where it starts inside a, or is kept.
OverlapsInside(b, a) == b.start < a.end                     \* mutant of Overlaps
Overlaps(b, a) == b.start <= a.end
MergedToLater(b, a) == [start |-> a.start, end |-> b.end]   \* mutant of Merged
Merged(b, a) == IF b.end > a.end THEN [start |-> a.start, end |-> b.end] ELSE a

MergeNext ==
  /\ phase = "merge" /\ pending # <<>>
  /\ LET b == Head(pending) IN
     ranges' = IF ranges # <<>> /\ Overlaps(b, Ends(ranges))
               THEN [ranges EXCEPT ![Len(ranges)] = Merged(b, @)]
               ELSE Append(ranges, b)
  /\ pending' = Tail(pending)
  /\ UNCHANGED <<phase, literal, needle, lo, hi, found>>

Ready ==
  /\ phase = "merge" /\ pending = <<>>
  /\ phase' = "ready"
  /\ UNCHANGED <<literal, pending, ranges, needle, lo, hi, found>>

\* RangeSet::contains, from the call to the answer of binary_search_by.
SetContains(v) ==
  /\ phase \in {"ready", "answered"}
  /\ needle' = v /\ lo' = 1 /\ hi' = Len(ranges) + 1
  /\ phase' = "search" /\ found' = FALSE
  /\ UNCHANGED <<literal, pending, ranges>>

\* The comparator on the range at mid: Greater, Less or Equal.
Probe(mid) ==
  /\ phase = "search" /\ mid \in lo..hi - 1
  /\ IF ranges[mid].start > needle
     THEN hi' = mid /\ UNCHANGED <<phase, lo, found>>
     ELSE IF ranges[mid].end >= needle
     THEN phase' = "answered" /\ found' = TRUE /\ UNCHANGED <<lo, hi>>
     ELSE lo' = mid + 1 /\ UNCHANGED <<phase, hi, found>>
  /\ UNCHANGED <<literal, pending, ranges, needle>>

NotFound ==
  /\ phase = "search" /\ lo >= hi
  /\ phase' = "answered" /\ found' = FALSE
  /\ UNCHANGED <<literal, pending, ranges, needle, lo, hi>>

RangeNext ==
  \/ \E r \in RangeInclusive : LexRange(r)
  \/ Sort \/ MergeNext \/ Ready
  \/ \E v \in Points : SetContains(v)
  \/ \E mid \in lo..hi - 1 : Probe(mid)
  \/ NotFound

RangeSpec == RangeInit /\ [][RangeNext]_rangeVars

-----------------------------------------------------------------------------
\* The merged ranges are in order, do not overlap and hold the values of the
\* ranges merged so far: with those still pending, the values of the literal
\* list (range_set.rs From<Vec>).
RangesCoverLiteral ==
  phase # "lex" =>
    /\ \A i, j \in DOMAIN ranges : i < j => ranges[i].end < ranges[j].start
    /\ \A v \in Points :
         (\E i \in DOMAIN literal : In(v, literal[i])) <=>
           \/ \E i \in DOMAIN ranges : In(v, ranges[i])
           \/ \E i \in DOMAIN pending : In(v, pending[i])

\* A search never discards the half that holds the needle: while it runs, a
\* range with the needle is between lo and hi (range_set.rs contains).
SearchKeepsNeedle ==
  phase = "search" =>
    \A i \in DOMAIN ranges : In(needle, ranges[i]) => i \in lo..hi - 1

\* What the search answers: found exactly if some range of the literal list, as
\* it was written, holds the value.
SearchAnswers ==
  phase = "answered" =>
    (found <=> \E i \in DOMAIN literal : In(needle, literal[i]))
=============================================================================
