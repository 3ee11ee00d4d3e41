------------------------------ MODULE MCPieces ------------------------------
(* Two booleans would parse alike: v is an array of booleans, m a map.  The *)
(* alphabets hold what each kind of literal tells apart.                    *)
EXTENDS Pieces, TLC

MCNonText   == {200}
MCFieldType == [p |-> <<"Bool">>, v |-> <<"Array", "Bool">>, m |-> <<"Map", "Bool">>]
MCSimpleFunctions == <<>>
MCListTypes == {}

MCAlphabets ==
  [int    |-> {"-", "0", "1", "7", "8", "a", "x", "."},
   string |-> {"\"", "\\", "x", "4", "+", "#", "r"},
   bytes  |-> {"0", "+", ":", "."},
   list   |-> {"$", "a", "1", ".", "A"},
   ints   |-> {"{", "}", "1", "2", "-", ".", " "},
   arg    |-> {"0", "1", "f", "g", "x", ":", "(", "\""},
   operator |-> {"=", "!", "<", ">", "&", "~", "e", "q", "n", "g", "t", "l", "i",
                 "bitwise_and", "contains", "matches", "wildcard", "strict wildcard"},
   path   |-> {"[", "]", "*", "\"", "1", "-", " "}]
MCMaxChars == [int |-> 5, string |-> 6, bytes |-> 8, list |-> 5, ints |-> 6, arg |-> 5,
               operator |-> 3, path |-> 6]
MCFieldNames == {<<"f">>, <<"1", "g">>, <<"0">>}
MCUtf8 ==
  [c \in {"0", "1", "f", "g", ":", "(", "[", "]", "*", "-", " "} |-> <<65>>] @@ ("\"" :> <<34>>) @@ ("\\" :> <<92>>) @@ ("x" :> <<120>>) @@ ("4" :> <<52>>)
  @@ ("+" :> <<43>>) @@ ("#" :> <<35>>) @@ ("r" :> <<114>>)

MCFragments == {<<>>, <<0>>, <<1>>, <<1, 0>>, <<0, 0>>, <<2, 1>>}

-----------------------------------------------------------------------------
\* Containers: a byte of text, one of none, an integer.
Text == <<"Bytes">>
Key1 == <<1>>
Key2 == <<200>>
Key3 == <<2>>
MCScalars == {<<Text, <<>> >>, <<Text, Key1>>, <<Text, Key2>>, << <<"Int">>, 7>>,
              << <<"Bool">>, TRUE>>, << <<"Ip">>, <<4, 1>> >>}
MCContainerTypes ==
  {<<"Array">> \o Text, <<"Map">> \o Text, <<"Array", "Int">>, <<"Array", "Bool">>,
   <<"Map", "Ip">>, <<"Array", "Map">> \o Text, <<"Map", "Array", "Int">>}
MCKeys == {Key1, Key2}
TextDoc   == <<"string", Key1>>
BytesDoc  == <<"seq", << <<"number", 200>> >> >>
NumberDoc == <<"number", 7>>
PairDoc(k, v) == <<"seq", <<k, v>> >>
TopDocs ==
  {TextDoc, NumberDoc, <<"bool", TRUE>>, <<"seq", <<>> >>, <<"map", <<>> >>,
   <<"seq", <<TextDoc>> >>, <<"seq", <<BytesDoc>> >>, <<"seq", <<NumberDoc>> >>,
   <<"seq", <<NumberDoc, TextDoc>> >>, <<"seq", <<TextDoc, NumberDoc>> >>,
   <<"map", << <<Key1, TextDoc>>, <<Key1, BytesDoc>> >> >>,
   <<"map", << <<Key1, TextDoc>>, <<Key3, NumberDoc>> >> >>,
   <<"seq", <<PairDoc(BytesDoc, TextDoc)>> >>,
   <<"seq", <<PairDoc(TextDoc, BytesDoc), PairDoc(NumberDoc, TextDoc)>> >>,
   <<"seq", << <<"map", << <<Key1, TextDoc>> >> >>, <<"bool", TRUE>> >> >>,
   <<"map", << <<Key3, <<"seq", <<NumberDoc>> >> >> >> >>,
   <<"seq", << <<"seq", << <<"number", 256>> >> >> >> >>}
WithInner(docs) == docs \cup UNION {InnerDocuments(doc) : doc \in docs}
MCDocs == WithInner(WithInner(WithInner(TopDocs)))

-----------------------------------------------------------------------------
\* The walked values: nested arrays and maps, with empty ones among them.
Num(n)    == << <<"Int">>, n>>
Ints(s)   == << <<"Array", "Int">>, [i \in DOMAIN s |-> Num(s[i])]>>
Grid(ss)  == << <<"Array", "Array", "Int">>, [i \in DOMAIN ss |-> Ints(ss[i])]>>
Rows == {<<>>, <<1>>, <<2, 3>>}
Grids == {Grid(<<>>)} \cup {Grid(<<r>>) : r \in Rows} \cup {Grid(<<r, s>>) : r, s \in Rows}
           \cup {Grid(<<r, s, q>>) : r, s, q \in Rows}
MapOfInts(f) == << <<"Map", "Array", "Int">>, f>>
Maps == {MapOfInts(<<>>)} \cup {MapOfInts(Key1 :> Ints(r)) : r \in Rows}
          \cup {MapOfInts(Key2 :> Ints(r) @@ Key1 :> Ints(s)) : r, s \in Rows}
Cube(gs) == << <<"Array", "Array", "Array", "Int">>, gs>>
MCRoots == Grids \cup Maps \cup {Cube(<<g, h>>) : g, h \in {Grid(<<>>), Grid(<<<<>>, <<1, 2>> >>),
                                                      Grid(<<<<3>>, <<>> >>)}}
Inside(values) ==
  values \cup UNION {Range(ElementsOf(v)) : v \in {w \in values : Len(TypeOf(w)) > 1}}
MCParts == Inside(Inside(Inside(MCRoots)))
Each == <<"MapEach">>
Nth(n) == <<"ArrayIndex", n>>
Of(k) == <<"MapKey", k>>
Step == {Each, Nth(0), Nth(1), Of(Key1)}
MCIndexPaths == {<<a>> : a \in Step} \cup {<<a, b>> : a, b \in Step}
                  \cup {<<a, b, c>> : a, b, c \in Step}
-----------------------------------------------------------------------------
\* The scheme, the texts and the values of MCExpressions: they depend on none
\* of its constants, which are given nothing here.
Unused(a, b) == NoValue
Small == INSTANCE MCExpressions WITH
  FieldType <- <<>>, SimpleFunctions <- <<>>, ListTypes <- {}, NonText <- {},
  Implementation <- Unused, IsMatch <- Unused, FilterTexts <- {}, ValueTexts <- {},
  FieldValues <- <<>>, ListContents <- {}
MCExprFieldType == Small!MCFieldType
MCExprFunctions == Small!MCSimpleFunctions
MCExprListTypes == Small!MCListTypes
MCImplementation(fn, args) == Small!MCImplementation(fn, args)
MCIsMatch(pattern, bytes)  == Small!MCIsMatch(pattern, bytes)
MCFilterTexts  == Small!MCFilterTexts
MCValueTexts   == Small!MCValueTexts
MCFieldValues  == Small!MCFieldValues
MCListContents == Small!MCListContents
=============================================================================
