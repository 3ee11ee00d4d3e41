------------------------------- MODULE Values -------------------------------
(***************************************************************************)
(* Types and left-hand values.  A type is the sequence of its layers, from *)
(* the outside, ended by its primitive type, so that Type::next is Tail.   *)
(* A value is a pair <<type, data>>: what Rust keeps in an Array or a Map, *)
(* the element type next to the elements, is kept for every value.         *)
(*                                                                         *)
(* Byte strings are sequences of bytes; NonText are the bytes that make a  *)
(* string invalid UTF-8.  Addresses are pairs <<family, number>>.  Whether *)
(* a value owns its data or borrows it changes no answer, and is left out. *)
(***************************************************************************)
EXTENDS Integers, Sequences, FiniteSets, SequencesExt

CONSTANT NonText

Primitives == {"Bool", "Bytes", "Int", "Ip"}
Layers     == {"Array", "Map"}

BoolType  == <<"Bool">>
BytesType == <<"Bytes">>
IntType   == <<"Int">>
IpType    == <<"Ip">>
ArrayOf(ty) == <<"Array">> \o ty
MapOf(ty)   == <<"Map">> \o ty

IsType(ty) ==
  /\ ty \in Seq(Layers \cup Primitives) /\ ty # <<>>
  /\ \A i \in 1..Len(ty) - 1 : ty[i] \in Layers
  /\ Last(ty) \in Primitives

IsArray(ty) == Head(ty) = "Array"
IsMap(ty)   == Head(ty) = "Map"
NextType(ty) == Tail(ty)                      \* only of an Array or a Map

-----------------------------------------------------------------------------
NoValue == <<>>
Exists(v) == v # NoValue

TypeOf(v) == v[1]
DataOf(v) == v[2]
ElementType(v) == NextType(TypeOf(v))

\* The order of byte strings, and of the keys of a map.
BytesLess(a, b) ==
  \E n \in 0..Len(b) - 1 :
    /\ n <= Len(a)
    /\ SubSeq(a, 1, n) = SubSeq(b, 1, n)
    /\ n = Len(a) \/ a[n + 1] < b[n + 1]

\* The elements in iteration order: an array's own, a map's by ascending key, so
\* that the i-th key has i - 1 keys before it.
KeysBefore(k, keys) == {l \in keys : BytesLess(l, k)}
KeysOf(v) ==
  LET keys == DOMAIN DataOf(v) IN
  [i \in 1..Cardinality(keys) |->
     CHOOSE k \in keys : Cardinality(KeysBefore(k, keys)) = i - 1]
ArrayElements(v) == DataOf(v)
MapElements(v) == [i \in DOMAIN KeysOf(v) |-> DataOf(v)[KeysOf(v)[i]]]
ElementsOf(v) == IF IsArray(TypeOf(v)) THEN ArrayElements(v) ELSE MapElements(v)

\* FieldIndex is <<"ArrayIndex", n>>, <<"MapKey", key>> or <<"MapEach">>.
MapEach == <<"MapEach">>
ArrayIndex(n) == <<"ArrayIndex", n>>
MapKey(k) == <<"MapKey", k>>

\* Whether LhsValue::get and extract accept the index: they answer an
\* IndexAccessError otherwise, which get_nested and extract_nested unwrap.
Accepts(v, idx) ==
  \/ idx[1] = "ArrayIndex" /\ IsArray(TypeOf(v))
  \/ idx[1] = "MapKey" /\ IsMap(TypeOf(v))

ArrayGet(v, n) == IF n < Len(DataOf(v)) THEN DataOf(v)[n + 1] ELSE NoValue
MapGet(v, k) == IF k \in DOMAIN DataOf(v) THEN DataOf(v)[k] ELSE NoValue
Get(v, idx) ==
  IF idx[1] = "ArrayIndex" THEN ArrayGet(v, idx[2]) ELSE MapGet(v, idx[2])

\* The results of an expression: a value, a missing value of a known type, or
\* a panic.
Ok(v)       == [is |-> "ok", value |-> v]
Missing(ty) == [is |-> "missing", type |-> ty]
Panicked    == [is |-> "panic"]
Found(v, ty) == IF Exists(v) THEN Ok(v) ELSE Missing(ty)

\* get_nested and extract_nested, whose caller gives the type of a missing one.
Nested(v, indexes, ty) ==
  FoldLeft(LAMBDA r, idx :
             IF r.is # "ok" THEN r
             ELSE IF ~Accepts(r.value, idx) THEN Panicked
             ELSE Found(Get(r.value, idx), ty),
           Found(v, ty), indexes)

\* Array::try_from_iter and try_from_vec, unwrapped by their callers.
TryFromIter(ty, elems) ==
  IF \A i \in DOMAIN elems : TypeOf(elems[i]) = ty
  THEN Ok(<<ArrayOf(ty), elems>>)
  ELSE Panicked

\* IndexExpr::lex_with: whether a type takes an index, and a whole path.
Steps(ty, idx) ==
  \/ idx = MapEach /\ Len(ty) > 1
  \/ idx[1] = "ArrayIndex" /\ IsArray(ty)
  \/ idx[1] = "MapKey" /\ IsMap(ty)
Fits(ty, path) ==
  /\ Len(path) < Len(ty)
  /\ \A i \in DOMAIN path : Steps(SubSeq(ty, i, Len(ty)), path[i])

\* FieldIndexIterator::new: it fails on an index the value does not take, and
\* otherwise returns all elements for [*], at most one for a position or a key.
Iterable(v, idx) == Steps(TypeOf(v), idx)
NewIterator(v, idx) ==
  IF idx = MapEach THEN ElementsOf(v)
  ELSE IF Exists(Get(v, idx)) THEN <<Get(v, idx)>> ELSE <<>>

\* What MapEachIterator returns for a path (MapEachIterator.tla has the iterator
\* itself), one level of the value after the other, and whether it ends without
\* a panic.
Spread(elems, idx) ==
  FlattenSeq([i \in DOMAIN elems |-> NewIterator(elems[i], idx)])
Leaves(v, path) ==
  LET level[n \in 0..Len(path)] ==
        IF n = 0 THEN <<v>> ELSE Spread(level[n - 1], path[n])
  IN  level[Len(path)]
Walkable(v, path) ==
  \A n \in DOMAIN path :
    LET elems == Leaves(v, SubSeq(path, 1, n - 1)) IN
    \A i \in DOMAIN elems : Iterable(elems[i], path[n])

BoolArray(bools) == <<ArrayOf(BoolType), [i \in DOMAIN bools |-> <<BoolType, bools[i]>>]>>
=============================================================================
