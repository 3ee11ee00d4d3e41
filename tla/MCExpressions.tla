---------------------------- MODULE MCExpressions ----------------------------
(* Small scheme, with the shapes of text that take different paths.        *)
EXTENDS Expressions, FiniteSets

MCNonText == {}
MCFieldType ==
  [t |-> BoolType, n |-> IntType, s |-> BytesType, ip |-> IpType,
   ab |-> ArrayOf(BoolType), as |-> ArrayOf(BytesType), mb |-> MapOf(BoolType),
   aab |-> ArrayOf(ArrayOf(BoolType)), mas |-> MapOf(ArrayOf(BytesType)),
   ami |-> ArrayOf(MapOf(IntType))]
MCListTypes == {BytesType, IpType}

Param(kind, ty) == [arg_kind |-> kind, val_type |-> ty]
MCSimpleFunctions ==
  [len   |-> [params |-> <<Param("Field", BytesType)>>, opt_params |-> <<>>, returns |-> IntType],
   lower |-> [params |-> <<Param("Both", BytesType)>>, opt_params |-> <<>>, returns |-> BytesType],
   add   |-> [params |-> <<Param("Field", IntType)>>, returns |-> IntType,
              opt_params |-> <<[arg_kind |-> "Literal", val_type |-> IntType,
                                default_value |-> <<IntType, 1>>]>>],
   first |-> [params |-> <<Param("Field", ArrayOf(BytesType))>>, opt_params |-> <<>>,
              returns |-> BytesType],
   size  |-> [params |-> <<Param("Field", MapOf(BoolType))>>, opt_params |-> <<>>,
              returns |-> IntType]]

\* The functions: lower has no answer for an empty string, first for an empty
\* array; all have none for a missing argument.
MCImplementation(fn, args) ==
  IF \E i \in DOMAIN args : args[i].is # "ok" THEN NoValue
  ELSE LET d == DataOf(args[1].value) IN
       CASE fn = "len"   -> <<IntType, Len(d)>>
         [] fn = "lower" -> IF d = <<>> THEN NoValue ELSE <<BytesType, d>>
         [] fn = "add"   -> <<IntType, d + DataOf(args[2].value)>>
         [] fn = "first" -> IF d = <<>> THEN NoValue ELSE d[1]
         [] fn = "size"  -> <<IntType, Cardinality(DOMAIN d)>>
MCIsMatch(pattern, bytes) == bytes # <<>> /\ bytes[1] = pattern[1]

-----------------------------------------------------------------------------
A == <<1>>
B == <<2>>
Str(b)  == <<BytesType, b>>
Num(i)  == <<IntType, i>>
Bln(b)  == <<BoolType, b>>
Strs(bs) == <<ArrayOf(BytesType), [i \in DOMAIN bs |-> Str(bs[i])]>>
Map1(ty, k, v) == <<MapOf(ty), k :> v>>
Map2(ty, k, v, l, w) == <<MapOf(ty), k :> v @@ l :> w>>

MCFieldValues ==
  [t |-> {Bln(TRUE), Bln(FALSE)}, n |-> {Num(0), Num(2), Num(3)},
   s |-> {Str(<<>>), Str(A), Str(A \o B)}, ip |-> {<<IpType, <<4, 1>> >>, <<IpType, <<6, 2>> >>},
   ab |-> {BoolArray(<<>>), BoolArray(<<TRUE>>), BoolArray(<<FALSE, TRUE>>),
          BoolArray(<<TRUE, FALSE, TRUE>>)},
   as |-> {Strs(<<>>), Strs(<<A>>), Strs(<<A, <<>>, B>>), Strs(<<<<>>, B>>)},
   mb |-> {<<MapOf(BoolType), EmptyMap>>, Map2(BoolType, A, Bln(FALSE), B, Bln(TRUE))},
   aab |-> {<<ArrayOf(ArrayOf(BoolType)), <<>> >>,
            <<ArrayOf(ArrayOf(BoolType)), <<BoolArray(<<>>), BoolArray(<<TRUE, TRUE>>)>> >>,
            <<ArrayOf(ArrayOf(BoolType)), <<BoolArray(<<FALSE, TRUE>>)>> >>},
   mas |-> {<<MapOf(ArrayOf(BytesType)), EmptyMap>>,
            Map1(ArrayOf(BytesType), B, Strs(<<B>>)),
            Map2(ArrayOf(BytesType), A, Strs(<<A, B>>), B, Strs(<<>>))},
   ami |-> {<<ArrayOf(MapOf(IntType)), <<>> >>,
           <<ArrayOf(MapOf(IntType)),
              <<Map1(IntType, B, Num(3)), Map2(IntType, A, Num(1), B, Num(0))>> >>}]
MCListContents == {{}, {Str(A), <<IpType, <<4, 1>> >>}}

-----------------------------------------------------------------------------
\* Short forms of texts.
F(f, path)   == IndexExpr(FieldExpr(f), path)
C(fn, args)  == IndexExpr(CallExpr(fn, args), <<>>)
CI(fn, args, path) == IndexExpr(CallExpr(fn, args), path)
Is(lhs)      == Comparison(lhs, IsTrue)
Eq(lhs, v)   == Comparison(lhs, Ordering("Equal", v))
Ne(lhs, v)   == Comparison(lhs, Ordering("NotEqual", v))
And2(l, r)   == Combining("And", <<l, r>>)
Or2(l, r)    == Combining("Or", <<l, r>>)
Xor2(l, r)   == Combining("Xor", <<l, r>>)
AnyOf(arg)     == Is(C("any", <<arg>>))
AllOf(arg)     == Is(C("all", <<arg>>))
Each         == <<MapEach>>

T == Is(F("t", <<>>))
N == Eq(F("n", <<>>), Num(3))
S == Comparison(F("s", <<>>), ContainsBytes(Str(B)))

\* A comparison with a list without a field: lower("a") in $l.
FieldlessTest == Comparison(C("lower", <<Literal(Str(A))>>), InList)

Booleans == {
  And2(And2(And2(T, N), S), Negation(T)), Or2(Or2(Xor2(T, N), And2(N, S)), T),
  Xor2(Xor2(Parenthesized(Xor2(T, N)), S), T), Negation(Negation(T)),
  And2(And2(T, Negation(N)), S), Or2(And2(T, N), S), Or2(Or2(T, N), Negation(S)),
  Xor2(Xor2(T, N), S), Xor2(T, And2(N, S)), And2(Parenthesized(Or2(T, N)), S),
  And2(T, Parenthesized(And2(N, S))),
  Negation(Parenthesized(Xor2(T, Parenthesized(Xor2(N, S)))))}

Comparisons == {
  Ne(F("n", <<>>), Num(3)), Ne(F("as", <<ArrayIndex(2)>>), Str(A)),
  Comparison(F("n", <<>>), BitwiseAnd(Num(2))),
  Comparison(F("n", <<>>), OneOf({<<Num(1), Num(3)>>})),
  Comparison(F("ip", <<>>), OneOf({<<  <<IpType, <<6, 0>> >>, <<IpType, <<6, 9>> >> >>})),
  Comparison(F("ip", <<>>), Ordering("LessThanEqual", <<IpType, <<6, 5>> >>)),
  Ne(F("ip", <<>>), <<IpType, <<6, 2>> >>),
  Comparison(F("s", <<>>), MatchesRegex(Str(A))),
  Comparison(F("s", <<>>), Ordering("GreaterThan", Str(A))),
  Comparison(F("s", <<>>), InList), Comparison(F("ip", <<>>), InList),
  AnyOf(Comparison(F("as", Each), InList)),
  Negation(AnyOf(Comparison(CI("lower", <<F("as", Each)>>, Each), InList))),
  FieldlessTest, Negation(FieldlessTest), And2(T, Parenthesized(FieldlessTest)),
  Or2(FieldlessTest, Comparison(F("s", <<>>), InList))}

Vectors == {
  AnyOf(F("ab", <<>>)), AllOf(F("ab", <<>>)), AllOf(F("aab", <<ArrayIndex(1)>>)),
  AnyOf(Xor2(Parenthesized(Is(F("ab", <<>>))), Is(F("aab", <<ArrayIndex(1)>>)))),
  AllOf(And2(And2(Negation(Is(F("ab", <<>>))), Is(F("aab", <<ArrayIndex(1)>>))),
           Eq(F("as", Each), Str(A)))),
  AnyOf(Or2(Parenthesized(Is(F("ab", <<>>))), Eq(F("as", Each), Str(A)))),
  AnyOf(Eq(F("mas", <<MapKey(A), MapEach>>), Str(A))),
  AllOf(Eq(F("mas", <<MapEach, ArrayIndex(0)>>), Str(A))),
  AnyOf(Eq(F("mas", <<MapEach, MapEach>>), Str(B))),
  AnyOf(Ne(F("ami", <<MapEach, MapKey(A)>>), Num(1)))}

Calls == {
  Eq(C("lower", <<Literal(Str(A))>>), Str(A)), Eq(CI("first", <<F("mas", Each)>>, <<ArrayIndex(0)>>), Str(A)),
  AnyOf(Eq(CI("add", <<F("ami", <<MapEach, MapEach>>), Literal(Num(2))>>, Each), Num(3))),
  Eq(C("len", <<F("s", <<>>)>>), Num(1)), Ne(C("len", <<C("lower", <<F("s", <<>>)>>)>>), Num(1)),
  Eq(C("add", <<F("n", <<>>)>>), Num(4)), Eq(C("add", <<F("n", <<>>), Literal(Num(2))>>), Num(5)),
  AnyOf(Eq(CI("lower", <<F("as", Each)>>, Each), Str(B))),
  Eq(CI("lower", <<F("as", Each)>>, <<ArrayIndex(1)>>), Str(B)),
  AllOf(Eq(CI("len", <<F("mas", <<MapKey(A), MapEach>>)>>, Each), Num(1))),
  AllOf(Eq(CI("len", <<F("mas", <<MapEach, MapEach>>)>>, Each), Num(1))),
  AnyOf(Eq(CI("len", <<F("mas", <<MapEach, ArrayIndex(1)>>)>>, Each), Num(1))),
  AllOf(C("any", <<F("aab", Each)>>)), AllOf(C("all", <<F("aab", Each)>>)),
  AllOf(C("concat", <<F("ab", <<>>), F("aab", <<ArrayIndex(0)>>), F("aab", <<ArrayIndex(1)>>)>>)),
  AnyOf(C("concat", <<Negation(Is(F("ab", <<>>))), F("ab", <<>>)>>)),
  Eq(C("concat", <<F("s", <<>>), C("lower", <<F("s", <<>>)>>)>>), Str(A \o A)),
  Eq(C("size", <<F("mb", <<>>)>>), Num(2))}

\* Texts the parser refuses: each for another check.
Refused == {
  And2(T, Is(F("ab", <<>>))), AnyOf(Or2(Negation(Is(F("ab", <<>>))), AnyOf(F("ab", <<>>)))),
  Is(F("ab", <<>>)), Is(F("ab", Each)), Is(F("mb", <<>>)), AnyOf(F("mb", <<>>)),
  AnyOf(F("ab", Each)), AnyOf(Is(F("aab", Each))), Is(F("t", <<ArrayIndex(0)>>)),
  AnyOf(C("concat", <<F("ab", <<>>), F("as", <<>>)>>)), AnyOf(C("concat", <<F("ab", <<>>)>>)),
  AnyOf(C("concat", <<F("ab", <<>>), F("aab", Each)>>)),
  Eq(C("add", <<F("n", <<>>), F("n", <<>>)>>), Num(4)),
  Eq(C("add", <<F("n", <<>>), Literal(Str(A))>>), Num(4)),
  Eq(C("add", <<F("n", <<>>), Literal(Num(1)), Literal(Num(1))>>), Num(4)),
  Eq(C("len", <<Literal(Str(A))>>), Num(1)), Eq(C("len", <<F("as", Each)>>), Num(1)),
  Eq(C("len", <<>>), Num(0)), Comparison(F("n", <<>>), InList),
  Comparison(F("n", <<>>), ContainsBytes(Str(A))), Eq(F("n", <<>>), Str(A)),
  Eq(F("mas", <<ArrayIndex(0), ArrayIndex(0)>>), Str(A))}

MCFilterTexts == Booleans \cup Comparisons \cup Vectors \cup Calls \cup Refused

MCValueTexts == {
  F("s", <<>>), F("mb", <<>>), F("as", <<ArrayIndex(1)>>), F("mas", <<MapKey(A)>>),
  F("mas", <<MapKey(B), ArrayIndex(0)>>), F("ami", <<ArrayIndex(0), MapKey(B)>>),
  F("as", Each), F("as", <<MapKey(A)>>),
  C("len", <<F("as", Each)>>), C("len", <<F("mas", <<MapEach, ArrayIndex(0)>>)>>),
  C("len", <<CI("lower", <<F("as", Each)>>, Each)>>),
  CI("lower", <<F("as", Each)>>, <<ArrayIndex(0)>>), C("any", <<F("aab", Each)>>),
  C("first", <<F("mas", Each)>>), C("add", <<F("ami", <<MapEach, MapKey(B)>>)>>),
  C("concat", <<F("as", <<>>), F("mas", <<MapKey(A)>>)>>),
  C("concat", <<C("lower", <<F("s", <<>>)>>), Literal(Str(B)), F("s", <<>>)>>),
  C("any", <<And2(Parenthesized(Is(F("ab", <<>>))), Is(F("ab", <<>>)))>>)}

\* Mapping over an empty array keeps its element type, here given to concat.
EmptyTexts == {AnyOf(C("concat", <<C("any", <<F("aab", Each)>>), C("any", <<F("aab", Each)>>)>>))}
=============================================================================
