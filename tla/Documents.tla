------------------------------ MODULE Documents ------------------------------
(***************************************************************************)
(* What values serialize to, and how documents are read back as values of  *)
(* a given type.  A document is <<"string", bytes>>, <<"number", n>>,      *)
(* <<"bool", b>>, <<"seq", documents>> or <<"map", pairs>>, without types. *)
(***************************************************************************)
EXTENDS Values

\* The elements of a value, the elements of those, and so on to the scalars.
ElementSet(v) == {DataOf(v)[i] : i \in DOMAIN DataOf(v)}
Depths(v) ==
  LET depths[n \in 0..Len(TypeOf(v)) - 1] ==
        IF n = 0 THEN {v} ELSE UNION {ElementSet(w) : w \in depths[n - 1]}
  IN  depths

\* Whether every element, at every depth, has the type its container declares.
WellTyped(v) ==
  \A n \in 1..Len(TypeOf(v)) - 1 : \A w \in Depths(v)[n] :
     TypeOf(w) = SubSeq(TypeOf(v), n + 1, Len(TypeOf(v)))

-----------------------------------------------------------------------------
\* TextOfIp stands for the text of an address, told from the byte strings by a
\* tag.
IpTag == 256
TextOfIp(ip) == <<IpTag>> \o ip
IsText(bytes) == \A i \in DOMAIN bytes : bytes[i] \notin NonText

\* ByteValue strings; texts may be those of addresses.
ByteValue == 0..IpTag - 1
IsBytes(b) == b \in Seq(ByteValue) \/ (b \in Seq(ByteValue \cup {IpTag}) /\ IsText(b))

\* A value of a primitive type.
IsScalar(v) ==
  /\ v = <<TypeOf(v), DataOf(v)>> /\ IsType(TypeOf(v)) /\ Len(TypeOf(v)) = 1
  /\ TypeOf(v) = BytesType => IsBytes(DataOf(v))
  /\ TypeOf(v) = IpType => DataOf(v) \in Seq(Nat)

SerializeBytes(bytes) ==
  IF IsText(bytes) THEN <<"string", bytes>>
  ELSE <<"seq", [i \in DOMAIN bytes |-> <<"number", bytes[i]>>]>>

SerializeScalar(v) ==
  CASE TypeOf(v) = IpType    -> <<"string", TextOfIp(DataOf(v))>>
    [] TypeOf(v) = BytesType -> SerializeBytes(DataOf(v))
    [] TypeOf(v) = IntType   -> <<"number", DataOf(v)>>
    [] TypeOf(v) = BoolType  -> <<"bool", DataOf(v)>>

\* Arrays and maps, with the documents of their elements.
SerializeArray(v, written) ==
  <<"seq", [i \in DOMAIN DataOf(v) |-> written[DataOf(v)[i]]]>>
SerializeMap(v, written) ==
  LET At(i) == written[DataOf(v)[KeysOf(v)[i]]] IN
  IF \A k \in DOMAIN DataOf(v) : IsText(k)
  THEN <<"map", [i \in DOMAIN KeysOf(v) |-> <<KeysOf(v)[i], At(i)>>]>>
  ELSE <<"seq", [i \in DOMAIN KeysOf(v) |->
                   <<"seq", <<SerializeBytes(KeysOf(v)[i]), At(i)>> >>]>>

\* The documents of all values at a depth, from the scalars outwards.
Serialize(v) ==
  LET depth == Len(TypeOf(v)) - 1
      written[n \in 0..depth] ==
        [w \in Depths(v)[depth - n] |->
           IF n = 0 THEN SerializeScalar(w)
           ELSE IF IsArray(TypeOf(w)) THEN SerializeArray(w, written[n - 1])
           ELSE SerializeMap(w, written[n - 1])]
  IN  written[depth][v]

-----------------------------------------------------------------------------
\* Mutant of DeserializeBytes: a sequence of numbers is refused.
DeserializeText(doc) == IF doc[1] = "string" THEN <<BytesType, doc[2]>> ELSE NoValue

\* Reading a document back: NoValue is the deserializer's error.
DeserializeBytes(doc) ==
  CASE doc[1] = "string" -> <<BytesType, doc[2]>>
    [] doc[1] = "seq" /\ (\A i \in DOMAIN doc[2] :
                            doc[2][i][1] = "number" /\ doc[2][i][2] \in ByteValue) ->
         <<BytesType, [i \in DOMAIN doc[2] |-> doc[2][i][2]]>>
    [] OTHER -> NoValue

DeserializeIp(doc) ==
  IF doc[1] = "string" /\ doc[2] # <<>> /\ doc[2][1] = IpTag
  THEN <<IpType, Tail(doc[2])>>
  ELSE NoValue

\* The <<key, document>> pairs of a map's document, and whether each is a pair
\* whose key is a byte string (MapEntrySeed).  A later pair replaces an earlier
\* one with the same key (BTreeMap::insert).
IsEntry(doc) ==
  doc[1] = "seq" /\ Len(doc[2]) = 2 /\ Exists(DeserializeBytes(doc[2][1]))
EntryOf(doc) == <<DataOf(DeserializeBytes(doc[2][1])), doc[2][2]>>

\* What the reader of JSON hands over: a text for each key, and the elements
\* and pairs in a sequence.
IsDocument(doc) ==
  /\ doc[1] = "string" => IsBytes(doc[2])
  /\ doc[1] = "seq" => doc[2] \in Seq(Range(doc[2]))
  /\ doc[1] = "map" => /\ doc[2] \in Seq(Range(doc[2]))
                       /\ \A e \in Range(doc[2]) : IsBytes(e[1]) /\ IsText(e[1])

\* The documents inside a document, each read as an element.
InnerDocuments(doc) ==
  CASE doc[1] = "seq" -> Range(doc[2]) \cup
                           {EntryOf(d)[2] : d \in {e \in Range(doc[2]) : IsEntry(e)}}
    [] doc[1] = "map" -> {e[2] : e \in Range(doc[2])}
    [] OTHER          -> {}

\* The map m with k bound to v.
Bind(m, k, v) == [x \in DOMAIN m \cup {k} |-> IF x = k THEN v ELSE m[x]]

\* What visit_map and visit_seq of a map insert, on top of what it held: in
\* place, so that the entries before a bad one stay.  Returns the data and
\* whether all of it was read; read has the value of each inner document.
InsertEntries(read, data, entries) ==
  LET after[n \in 0..Len(entries)] ==
        IF n = 0 THEN [data |-> data, read |-> TRUE]
        ELSE LET r == after[n - 1]  v == read[entries[n][2]] IN
             IF r.read /\ Exists(v)
             THEN [data |-> Bind(r.data, entries[n][1], v), read |-> TRUE]
             ELSE [data |-> r.data, read |-> FALSE]
  IN  after[Len(entries)]

\* Mutant of DeserializeMap: what was there is taken out first.
DeserializeMapAnew(read, data, doc) ==
  IF doc[1] = "map" THEN InsertEntries(read, [k \in {} |-> NoValue], doc[2])
  ELSE [data |-> data, read |-> FALSE]

DeserializeMap(read, data, doc) ==
  CASE doc[1] = "map" -> InsertEntries(read, data, doc[2])
    [] doc[1] = "seq" ->
         LET bad == {i \in DOMAIN doc[2] : ~IsEntry(doc[2][i])}
             upto == IF bad = {} THEN Len(doc[2]) ELSE Min(bad) - 1
             r == InsertEntries(read, data,
                                [i \in 1..upto |-> EntryOf(doc[2][i])])
         IN [r EXCEPT !.read = @ /\ bad = {}]
    [] OTHER -> [data |-> data, read |-> FALSE]

\* visit_seq of an array takes the old elements out (mem::take) and puts them
\* back, with the new ones, only at the end: an error in between loses them.
DeserializeArray(read, data, doc) ==
  IF doc[1] # "seq" THEN [data |-> data, read |-> FALSE]
  ELSE LET elems == [i \in DOMAIN doc[2] |-> read[doc[2][i]]] IN
       IF \A i \in DOMAIN elems : Exists(elems[i])
       THEN [data |-> data \o elems, read |-> TRUE]
       ELSE [data |-> <<>>, read |-> FALSE]

\* LhsValueSeed: the type decides how a document is read.
DeserializeScalar(ty, doc) ==
  CASE ty = IpType    -> DeserializeIp(doc)
    [] ty = BytesType -> DeserializeBytes(doc)
    [] ty = IntType   -> IF doc[1] = "number" THEN <<IntType, doc[2]>> ELSE NoValue
    [] ty = BoolType  -> IF doc[1] = "bool" THEN <<BoolType, doc[2]>> ELSE NoValue

EmptyMap == [k \in {} |-> NoValue]
DeserializeContainer(ty, read, doc) ==
  LET r == IF IsArray(ty) THEN DeserializeArray(read, <<>>, doc)
           ELSE DeserializeMap(read, EmptyMap, doc)
  IN  IF r.read THEN <<ty, r.data>> ELSE NoValue

\* Some documents, the documents in them, and so on.
DocumentsWithin(docs, depth) ==
  LET within[n \in 0..depth] ==
        IF n = 0 THEN docs ELSE UNION {InnerDocuments(d) : d \in within[n - 1]}
  IN  within

\* The values of some documents, all read as values of one type: the documents
\* in them are read first, from the scalars outwards.
Deserialize(ty, docs) ==
  LET depth == Len(ty) - 1
      read[n \in 0..depth] ==
        LET inner == SubSeq(ty, Len(ty) - n, Len(ty)) IN
        [d \in DocumentsWithin(docs, depth)[depth - n] |->
           IF n = 0 THEN DeserializeScalar(inner, d)
           ELSE DeserializeContainer(inner, read[n - 1], d)]
  IN  read[depth]
=============================================================================
