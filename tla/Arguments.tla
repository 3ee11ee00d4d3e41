----------------------------- MODULE Arguments -----------------------------
(***************************************************************************)
(* The argument of a function call, read from the start of a text.  It may *)
(* be a name, a literal of a type that is not known yet, or a logical      *)
(* expression: FunctionCallArgExpr looks at the first three characters for *)
(* a sure sign of one, and tries them in order when there is none.         *)
(*                                                                         *)
(* A name stands for itself: the alphabets have no bracket and no          *)
(* comparison operator, with which an argument that begins with a name     *)
(* would go on, the same way in either case.  Logical expressions are in   *)
(* LogicalParser.                                                          *)
(***************************************************************************)
EXTENDS Literals, FiniteSets

CONSTANT FieldNames     \* the names of the scheme, as texts

\* Letters above f, of which these are in the alphabets.
AboveF == {"g", "r", "x"}
IsIdentChar(c) == c \in DOMAIN Digit \cup AboveF \cup {"_"}

\* Identifier::lex_with: runs of its characters, joined by dots.
RECURSIVE AfterName(_)
NameGoesOn(s, rest) ==
  CASE rest = s                           -> LexError
    [] rest # s /\ StartsWith(rest, ".")  -> AfterName(Tail(rest))
    [] rest # s /\ ~StartsWith(rest, ".") -> Lexed(<<>>, rest)
AfterName(s) == NameGoesOn(s, Skip(s, Run(s, IsIdentChar)))

Named(name, rest) == IF name \in FieldNames THEN Lexed(name, rest) ELSE LexError
LexName(s) ==
  AndThen(AfterName(s), LAMBDA none, rest :
    Named(SubSeq(s, 1, Len(s) - Len(rest)), rest))

\* IpAddr::from_str, on texts without a dot that are too short for an address
\* of eight groups, or for a group of five digits beside the two colons.
IsAddress(s) ==
  LET gaps == {i \in 1..Len(s) - 1 : s[i] = ":" /\ s[i + 1] = ":"} IN
  /\ Cardinality(gaps) = 1
  /\ StartsWith(s, ":") => 1 \in gaps
  /\ Last(s) = ":" => Len(s) - 1 \in gaps

IsAddrChar(c) == IsHexDigit(c) \/ c \in {":", ".", "/"}
AddressUpTo(s, n) ==
  IF n > 0 /\ IsAddress(SubSeq(s, 1, n)) THEN Lexed(SubSeq(s, 1, n), Skip(s, n))
  ELSE LexError
LexIp(s) == AddressUpTo(s, Run(s, IsAddrChar))

-----------------------------------------------------------------------------
\* c_is_field and c_is_field_or_int, of the i-th character.
IsField(s, i)      == i <= Len(s) /\ s[i] \in AboveF \cup {"_"}
IsFieldOrInt(s, i) == i <= Len(s) /\ IsIdentChar(s[i])

LooksLikeString(s) ==
  StartsWith(s, "\"") \/ IsPrefix(<<"r", "#">>, s) \/ IsPrefix(<<"r", "\"">>, s)
LooksLikeName(s) ==
  \/ IsField(s, 1)
  \/ IsFieldOrInt(s, 1) /\ IsField(s, 2)
  \/ IsFieldOrInt(s, 1) /\ IsFieldOrInt(s, 2) /\ IsField(s, 3)

As(what, lexed) == AndThen(lexed, LAMBDA value, rest : Lexed(<<what, value>>, rest))

\* Blind parsing: the first that succeeds.
At(lexed, i) == IF i = 0 THEN LexError ELSE lexed[i]
FirstOf(lexed) == At(lexed, SelectInSeq(lexed, LAMBDA l : l.ok))
Blind(s) ==
  FirstOf(<<As("Name", LexName(s)), As("Ip", LexIp(s)), As("Int", LexInt(s)),
            As("Bytes", LexBytesExpr(s))>>)

\* FunctionCallArgExpr::lex_with.
LexArgument(s) ==
  CASE LooksLikeString(s)                         -> As("Bytes", LexString(s))
    [] ~LooksLikeString(s) /\ StartsWith(s, "(")  -> Lexed(<<"Logical">>, s)
    [] ~LooksLikeString(s) /\ LooksLikeName(s)    -> As("Name", LexName(s))
    [] ~(LooksLikeString(s) \/ StartsWith(s, "(") \/ LooksLikeName(s)) -> Blind(s)

-----------------------------------------------------------------------------
\* "characters above F/f in the alphabet mean it can't be a decimal or hex int"
\* (function_expr.rs FunctionCallArgExpr): looking at the first characters never
\* takes an integer for a name, so that a text which is one integer, and neither
\* a name nor an address, is that integer as an argument.
IntArgumentsAreRead ==
  kind = "arg" /\ chars \notin FieldNames =>
    \A int \in {LexInt(chars)} :
      int.ok /\ int.rest = <<>> => LexArgument(chars) = As("Int", int)
=============================================================================
