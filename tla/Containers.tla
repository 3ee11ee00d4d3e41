----------------------------- MODULE Containers -----------------------------
(***************************************************************************)
(* An Array or a Map that a caller builds with the typed wrappers          *)
(* TypedArray and TypedMap, reaches into through get_mut and               *)
(* get_or_insert, reads documents into with DeserializeSeed, and hands to  *)
(* a context.  The wrappers reach an inner container by reinterpreting the *)
(* loosely typed one, so its elements have to be of the static type.       *)
(***************************************************************************)
EXTENDS Documents, FiniteSets

CONSTANTS
  ContainerTypes,   \* the types containers are made of
  Scalars,          \* the scalar values put in them
  Keys,             \* the keys of their maps
  Docs,             \* the documents read into them, and those inside
  MaxElements       \* bound on the elements of one container

ASSUME ContainersAssumption ==
  /\ \A ty \in ContainerTypes : IsType(ty) /\ Len(ty) > 1
  /\ \A v \in Scalars : IsScalar(v)
  /\ \A k \in Keys : IsBytes(k)
  /\ \A doc \in Docs : IsDocument(doc) /\ InnerDocuments(doc) \subseteq Docs

VARIABLES
  container,        \* the container's value
  failed            \* whether the last document was refused

containerVars == <<container, failed>>

EmptyOf(ty) == IF IsArray(ty) THEN <<ty, <<>>>> ELSE <<ty, EmptyMap>>
ScalarsOf(ty) == {v \in Scalars : TypeOf(v) = ty}

\* The values a caller has for an element: scalars, and inner containers that
\* are new or hold one scalar.
InnerArrays(ty) ==
  {EmptyOf(ty)} \cup {<<ty, <<v>>>> : v \in ScalarsOf(NextType(ty))}
ElementsFor(ty) ==
  CASE Len(ty) = 1 -> ScalarsOf(ty)
    [] IsArray(ty) -> InnerArrays(ty)
    [] IsMap(ty)   -> {EmptyOf(ty)}

ContainersInit ==
  /\ container \in {EmptyOf(ty) : ty \in ContainerTypes}
  /\ failed = FALSE

Size(v) == Cardinality(DOMAIN DataOf(v))
With(data) == container' = <<TypeOf(container), data>> /\ failed' = FALSE

-----------------------------------------------------------------------------
\* TypedArray::push; extend pushes several.
PushElement(v) ==
  /\ IsArray(TypeOf(container)) /\ Size(container) < MaxElements
  /\ With(Append(DataOf(container), v))

\* TypedArray::truncate.
TruncateArray(n) ==
  /\ IsArray(TypeOf(container)) /\ n < Len(DataOf(container))
  /\ With(SubSeq(DataOf(container), 1, n))

\* TypedMap::insert, which replaces the key's old value.
InsertKey(k, v) ==
  /\ IsMap(TypeOf(container))
  /\ k \in DOMAIN DataOf(container) \/ Size(container) < MaxElements
  /\ With(Bind(DataOf(container), k, v))

\* What is done to an inner array or map reached through get_mut or
\* get_or_insert: a push or an insert of a scalar of ITS static type.
GrownArray(inner, v)  == <<TypeOf(inner), Append(DataOf(inner), v)>>
GrownMap(inner, k, v) == <<TypeOf(inner), Bind(DataOf(inner), k, v)>>
Grown(inner, k, v) ==
  IF IsArray(TypeOf(inner)) THEN GrownArray(inner, v) ELSE GrownMap(inner, k, v)

IsNested == Len(ElementType(container)) > 1
InnerScalars == ScalarsOf(NextType(ElementType(container)))

\* TypedArray::get_mut and TypedMap::get_mut, then the inner wrapper's push or
\* insert.  at is a position or a key.
GrowInner(at, k, v) ==
  /\ IsNested /\ at \in DOMAIN DataOf(container)
  /\ Size(DataOf(container)[at]) < MaxElements
  /\ With([DataOf(container) EXCEPT ![at] = Grown(@, k, v)])

\* Mutant of NewInner: of the type of the map, and not of its elements.
NewInnerOfOwnType == EmptyOf(TypeOf(container))

NewInner == EmptyOf(ElementType(container))

\* TypedMap::get_or_insert of an empty inner container, then push or insert.
GetOrInsert(key, k, v) ==
  LET inner == IF key \in DOMAIN DataOf(container) THEN DataOf(container)[key]
               ELSE NewInner IN
  /\ IsNested /\ IsMap(TypeOf(container))
  /\ key \in DOMAIN DataOf(container) \/ Size(container) < MaxElements
  /\ Size(inner) < MaxElements
  /\ With(Bind(DataOf(container), key, Grown(inner, k, v)))

\* DeserializeSeed for &mut Array and &mut Map.
ReadDocument(doc) ==
  LET read == Deserialize(ElementType(container), InnerDocuments(doc))
      r == IF IsArray(TypeOf(container))
           THEN DeserializeArray(read, DataOf(container), doc)
           ELSE DeserializeMap(read, DataOf(container), doc) IN
  /\ container' = <<TypeOf(container), r.data>>
  /\ failed' = ~r.read
  /\ Size(container') <= MaxElements

ContainersNext ==
  \/ \E v \in ElementsFor(ElementType(container)) : PushElement(v)
  \/ \E n \in 0..MaxElements - 1 : TruncateArray(n)
  \/ \E k \in Keys, v \in ElementsFor(ElementType(container)) : InsertKey(k, v)
  \/ \E k \in Keys, v \in Scalars :
       IsNested /\ v \in InnerScalars /\
         \/ \E at \in DOMAIN DataOf(container) : GrowInner(at, k, v)
         \/ \E key \in Keys : GetOrInsert(key, k, v)
  \/ \E doc \in Docs : ReadDocument(doc)

ContainersSpec == ContainersInit /\ [][ContainersNext]_containerVars

-----------------------------------------------------------------------------
\* Every element, at every depth, has the type its container declares, also
\* after documents that were refused half way: the wrappers' reinterpretation of
\* inner containers (array.rs TypedArray::get_mut, map.rs TypedMap::get_or_insert)
\* and the comparisons' casts rest on it.
ContainersWellTyped == WellTyped(container)

\* What a value serializes to reads back, by its type, as the same value: byte
\* strings and keys that are not text take other documents than text, and a map
\* with one such key is written as a sequence of pairs (Map::serialize).
RoundTrip ==
  LET doc == Serialize(container) IN
  Deserialize(TypeOf(container), {doc})[doc] = container

\* A refused document leaves a map's other keys alone, and leaves an array as it
\* was or empty (visit_seq takes the elements out before it reads).
RefusedDocumentIsBounded ==
  [][failed' => IF IsMap(TypeOf(container))
                THEN \A k \in DOMAIN DataOf(container) :
                        k \in DOMAIN DataOf(container')
                ELSE DataOf(container') \in {DataOf(container), <<>>}]_containerVars
=============================================================================
