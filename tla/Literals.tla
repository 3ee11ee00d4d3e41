------------------------------ MODULE Literals ------------------------------
(***************************************************************************)
(* The literals of the language, read from the start of a text: integers,  *)
(* quoted and raw strings, byte strings, list names, and with them the     *)
(* operators and the indexes in brackets.  A lexer answers the value it    *)
(* has read and the text after it, or an error; whether what follows is    *)
(* acceptable is its caller's question.                                    *)
(*                                                                         *)
(* A text is a sequence of characters that grows by one in each step, so   *)
(* that every text over an alphabet, up to a length, is a state.           *)
(***************************************************************************)
EXTENDS Integers, Sequences, SequencesExt

CONSTANTS
  Alphabets,       \* for each kind of literal, the characters of its texts
  MaxChars,        \* for each kind, bound on the length of a text
  Utf8,            \* the bytes of each character
  MaxInt,          \* the largest Int, that of i64 in the code
  MaxHashes,       \* 255 in the code
  MaxIndex,        \* the largest index of an array, that of u32 in the code
  NotUtf8          \* the bytes that make a string invalid UTF-8

MinInt == -MaxInt - 1

VARIABLES
  kind,            \* the literal that is read
  chars            \* the text

literalVars == <<kind, chars>>

LiteralsInit == kind \in DOMAIN Alphabets /\ chars = <<>>
TypeChar ==
  /\ Len(chars) < MaxChars[kind]
  /\ \E c \in Alphabets[kind] : chars' = Append(chars, c)
  /\ UNCHANGED kind
LiteralsSpec == LiteralsInit /\ [][TypeChar]_literalVars

-----------------------------------------------------------------------------
Lexed(value, rest) == [ok |-> TRUE, value |-> value, rest |-> rest]
LexError == [ok |-> FALSE]

\* What is read next depends on what was read: the ? after a lexer's call.
AndThen(lexed, Use(_, _)) == IF lexed.ok THEN Use(lexed.value, lexed.rest) ELSE LexError

\* What a loop returns when what it has read comes before what it still reads.
Before(read, lexed) == AndThen(lexed, LAMBDA more, rest : Lexed(read \o more, rest))

Skip(s, n) == SubSeq(s, n + 1, Len(s))
LastOf(s, n) == Skip(s, Len(s) - n)
StartsWith(s, c) == s # <<>> /\ Head(s) = c

\* The length of the longest prefix of characters that pass a test (take_while).
RunUpTo(end, s) == IF end = 0 THEN Len(s) ELSE end - 1
Run(s, Test(_)) == RunUpTo(SelectInSeq(s, LAMBDA c : ~Test(c)), s)

Digit == [c \in {"0", "1", "2", "3", "4", "5", "6", "7", "8", "9",
                 "a", "b", "c", "d", "e", "f", "A", "B", "C", "D", "E", "F"} |->
  CASE c = "0" -> 0  [] c = "1" -> 1  [] c = "2" -> 2  [] c = "3" -> 3
    [] c = "4" -> 4  [] c = "5" -> 5  [] c = "6" -> 6  [] c = "7" -> 7
    [] c = "8" -> 8  [] c = "9" -> 9
    [] c \in {"a", "A"} -> 10 [] c \in {"b", "B"} -> 11 [] c \in {"c", "C"} -> 12
    [] c \in {"d", "D"} -> 13 [] c \in {"e", "E"} -> 14 [] c \in {"f", "F"} -> 15]
IsHexDigit(c) == c \in DOMAIN Digit

\* from_str_radix after its sign.
IsNumber(digits, radix) ==
  /\ digits # <<>>
  /\ \A i \in DOMAIN digits : IsHexDigit(digits[i]) /\ Digit[digits[i]] < radix
Number(digits, radix) ==
  LET upto[n \in 0..Len(digits)] ==
        IF n = 0 THEN 0 ELSE upto[n - 1] * radix + Digit[digits[n]]
  IN  upto[Len(digits)]

-----------------------------------------------------------------------------
\* lex_digits takes any hexadecimal digits, whatever the radix, and
\* parse_number refuses those that are none of the radix, and what overflows.
ParsedNumber(value, rest) ==
  IF value \in MinInt..MaxInt THEN Lexed(value, rest) ELSE LexError
LexDigits(sign, digits, rest, radix) ==
  IF IsNumber(digits, radix) THEN ParsedNumber(sign * Number(digits, radix), rest)
  ELSE LexError
SplitAt(s, n, sign, radix) == LexDigits(sign, SubSeq(s, 1, n), Skip(s, n), radix)
LexNumber(sign, s, radix) == SplitAt(s, Run(s, IsHexDigit), sign, radix)

\* Mutant of Radix: a leading zero has no meaning.
RadixTenForZero(s) == IF IsPrefix(<<"0", "x">>, s) THEN 16 ELSE 10

\* i64::lex: the radix is told by the first characters, a sign included.
Radix(s) ==
  CASE IsPrefix(<<"0", "x">>, s)                         -> 16
    [] ~IsPrefix(<<"0", "x">>, s) /\ StartsWith(s, "0")  -> 8
    [] ~StartsWith(s, "0")                               -> 10

LexInRadix(s, radix) ==
  CASE radix = 16                          -> LexNumber(1, Skip(s, 2), 16)
    [] radix # 16 /\ StartsWith(s, "-")    -> LexNumber(-1, Skip(s, 1), radix)
    [] radix # 16 /\ ~StartsWith(s, "-")   -> LexNumber(1, s, radix)
LexInt(s) == LexInRadix(s, Radix(s))

-----------------------------------------------------------------------------
\* fixed_byte: u8::from_str_radix takes a plus sign as the first of its digits.
Unplussed(digits) == IF StartsWith(digits, "+") THEN Tail(digits) ELSE digits
ParsedByte(digits, rest, radix) ==
  IF IsNumber(digits, radix) /\ Number(digits, radix) <= 255
  THEN Lexed(Number(digits, radix), rest) ELSE LexError
FixedByte(s, n, radix) ==
  IF Len(s) >= n THEN ParsedByte(Unplussed(SubSeq(s, 1, n)), Skip(s, n), radix)
  ELSE LexError

\* What an escape stands for, after its backslash.
Escaped(s) ==
  CASE s = <<>>                       -> LexError
    [] s # <<>> /\ Head(s) \in {"\"", "\\"} -> Lexed(Utf8[Head(s)], Tail(s))
    [] s # <<>> /\ Head(s) = "x" ->
         AndThen(FixedByte(Tail(s), 2, 16), LAMBDA byte, rest : Lexed(<<byte>>, rest))
    [] s # <<>> /\ Head(s) \in {"0", "1", "2", "3", "4", "5", "6", "7"} ->
         AndThen(FixedByte(s, 3, 8), LAMBDA byte, rest : Lexed(<<byte>>, rest))
    [] OTHER -> LexError

\* One turn of the loop of lex_quoted_string_as_vec with what it has left, given
\* what it returns with the last n characters before it.
QuotedFrom(lexed, left) ==
  CASE left = <<>>              -> LexError
    [] StartsWith(left, "\"") -> Lexed(<<>>, Tail(left))
    [] StartsWith(left, "\\") ->
         AndThen(Escaped(Tail(left)), LAMBDA byte, rest : Before(byte, lexed[Len(rest)]))
    [] OTHER                    -> Before(Utf8[Head(left)], lexed[Len(left) - 1])

\* lex_quoted_string_as_vec, after the opening quote.
LexQuoted(s) ==
  LET lexed[n \in 0..Len(s)] == QuotedFrom(lexed, LastOf(s, n)) IN lexed[Len(s)]

IsHash(c) == c = "#"

\* Mutant of Closes: as many hashes as there are, and not as many as it takes.
ClosesExactly(s, hashes) == StartsWith(s, "\"") /\ Run(Tail(s), IsHash) = hashes

\* A quote ends the raw string when at least as many hashes follow it.
Closes(s, hashes) == StartsWith(s, "\"") /\ Run(Tail(s), IsHash) >= hashes

\* The loop of lex_raw_string_as_str, with the last n characters before it: a
\* quote that does not close is skipped together with its hashes.  0 is no end.
EndOfRaw(s, hashes) ==
  LET end[n \in 0..Len(s)] ==
        LET left == LastOf(s, n) IN
        IF n = 0 THEN 0
        ELSE IF Closes(left, hashes) THEN Len(s) - n + 1
        ELSE end[IF StartsWith(left, "\"") THEN n - 1 - Run(Tail(left), IsHash) ELSE n - 1]
  IN  end[Len(s)]

BytesOf(s) == FoldLeft(LAMBDA b, c : b \o Utf8[c], <<>>, s)

\* lex_raw_string_as_str, after the r.
RawUpTo(inner, end, hashes) ==
  IF end > 0 THEN Lexed(BytesOf(SubSeq(inner, 1, end - 1)), Skip(inner, end + hashes))
  ELSE LexError
RawInner(inner, hashes) == RawUpTo(inner, EndOfRaw(inner, hashes), hashes)
RawFrom(s, hashes) ==
  IF hashes <= MaxHashes /\ StartsWith(Skip(s, hashes), "\"")
  THEN RawInner(Skip(s, hashes + 1), hashes) ELSE LexError
LexRaw(s) == RawFrom(s, Run(s, IsHash))

\* lex_quoted_or_raw_string.
LexString(s) ==
  CASE StartsWith(s, "\"") -> LexQuoted(Tail(s))
    [] StartsWith(s, "r")  -> LexRaw(Tail(s))
    [] OTHER               -> LexError

-----------------------------------------------------------------------------
Separators == {":", "-", "."}
IsSeparated(s) == s # <<>> /\ Head(s) \in Separators

\* Mutant of MoreBytes: the bytes end at a separator that nothing follows.
MoreBytesLeniently(s) == IsSeparated(s) /\ Len(s) > 2

MoreBytes(s) == IsSeparated(s)

\* lex_byte_string from its second byte on: bytes in hexadecimal, each after a
\* separator, which need not be the same one.
LexBytes(s) ==
  LET lexed[n \in 0..Len(s)] ==
        AndThen(FixedByte(LastOf(s, n), 2, 16), LAMBDA byte, rest :
          IF MoreBytes(rest) THEN Before(<<byte>>, lexed[Len(rest) - 1])
          ELSE Lexed(<<byte>>, rest))
  IN  lexed[Len(s)]

LexByteString(s) ==
  AndThen(FixedByte(s, 2, 16), LAMBDA byte, rest :
    IF IsSeparated(rest) THEN Before(<<byte>>, LexBytes(Tail(rest))) ELSE LexError)

\* BytesExpr::lex.
LexBytesExpr(s) ==
  IF StartsWith(s, "\"") \/ StartsWith(s, "r") THEN LexString(s) ELSE LexByteString(s)

\* ListName::lex; a to f stand for all lower-case letters.
NameChars ==
  {"0", "1", "2", "3", "4", "5", "6", "7", "8", "9", "a", "b", "c", "d", "e", "f", "_", "."}
IsNameChar(c) == c \in NameChars
IsListName(name) == name # <<>> /\ Head(name) # "." /\ Last(name) # "."
NameUpTo(s, end) ==
  IF IsListName(SubSeq(s, 1, end)) THEN Lexed(SubSeq(s, 1, end), Skip(s, end)) ELSE LexError
LexListName(s) ==
  IF StartsWith(s, "$") THEN NameUpTo(Tail(s), Run(Tail(s), IsNameChar)) ELSE LexError

-----------------------------------------------------------------------------
\* IntRange::lex: one integer, or two around two dots.
RangeTo(first, last, rest) ==
  IF first <= last THEN Lexed(<<first, last>>, rest) ELSE LexError
LexIntRange(s) ==
  AndThen(LexInt(s), LAMBDA first, rest :
    IF IsPrefix(<<".", ".">>, rest)
    THEN AndThen(LexInt(Skip(rest, 2)), LAMBDA last, after : RangeTo(first, last, after))
    ELSE RangeTo(first, first, rest))

IsSpace(c) == c = " "
SkipSpace(s) == Skip(s, Run(s, IsSpace))

\* lex_rhs_values, after the opening brace.  Items need no space between them:
\* {1-2} holds 1 and -2.
LexRanges(s) ==
  LET lexed[n \in 0..Len(s)] ==
        LET left == SkipSpace(LastOf(s, n)) IN
        IF StartsWith(left, "}") THEN Lexed(<<>>, Tail(left))
        ELSE AndThen(LexIntRange(left), LAMBDA range, rest :
               Before(<<range>>, lexed[Len(rest)]))
  IN  lexed[Len(s)]

LexRhsValues(s) == IF StartsWith(s, "{") THEN LexRanges(Tail(s)) ELSE LexError

-----------------------------------------------------------------------------
\* What lex_enum! makes of a table of spellings: they are tried in order, and
\* the first one the text starts with is taken.  Words stand for one character
\* where no other operator starts like them.
EntryAt(s, table, i) ==
  IF i = 0 THEN LexError ELSE Lexed(table[i][2], Skip(s, Len(table[i][1])))
LexEnum(s, table) ==
  EntryAt(s, table, SelectInSeq(table, LAMBDA entry : IsPrefix(entry[1], s)))

OrderingOps ==
  << << <<"e", "q">>, "Equal">>,            << <<"=", "=">>, "Equal">>,
     << <<"n", "e">>, "NotEqual">>,         << <<"!", "=">>, "NotEqual">>,
     << <<"g", "e">>, "GreaterThanEqual">>, << <<">", "=">>, "GreaterThanEqual">>,
     << <<"l", "e">>, "LessThanEqual">>,    << <<"<", "=">>, "LessThanEqual">>,
     << <<"g", "t">>, "GreaterThan">>,      << <<">">>, "GreaterThan">>,
     << <<"l", "t">>, "LessThan">>,         << <<"<">>, "LessThan">> >>
IntOps == << << <<"&">>, "BitwiseAnd">>, << <<"bitwise_and">>, "BitwiseAnd">> >>
BytesOps ==
  << << <<"contains">>, "Contains">>, << <<"~">>, "Matches">>, << <<"matches">>, "Matches">>,
     << <<"wildcard">>, "Wildcard">>, << <<"strict wildcard">>, "StrictWildcard">> >>
ComparisonOps == << << <<"i", "n">>, "In">> >> \o OrderingOps \o IntOps \o BytesOps

-----------------------------------------------------------------------------
\* FieldIndex::lex: what stands in a pair of brackets.
IndexOfKey(key, rest) ==
  IF \A i \in DOMAIN key : key[i] \notin NotUtf8 THEN Lexed(<<"MapKey", key>>, rest)
  ELSE LexError
IndexOfInt(int, rest) ==
  IF int \in 0..MaxIndex THEN Lexed(<<"ArrayIndex", int>>, rest) ELSE LexError
LexIndex(s) ==
  CASE StartsWith(s, "*")  -> Lexed(<<"MapEach">>, Tail(s))
    [] StartsWith(s, "\"") -> AndThen(LexString(s), IndexOfKey)
    [] OTHER               -> AndThen(LexInt(s), IndexOfInt)

\* The loop of IndexExpr::lex_with; whether the types allow the indexes is Fits
\* of Values.
LexPath(s) ==
  LET lexed[n \in 0..Len(s)] ==
        LET left == LastOf(s, n) IN
        IF ~StartsWith(left, "[") THEN Lexed(<<>>, left)
        ELSE AndThen(LexIndex(SkipSpace(Tail(left))), LAMBDA idx, rest :
               IF StartsWith(SkipSpace(rest), "]")
               THEN Before(<<idx>>, lexed[Len(SkipSpace(rest)) - 1])
               ELSE LexError)
  IN  lexed[Len(s)]

\* Each kind's lexer.
Lex(s) ==
  CASE kind = "int"                 -> LexInt(s)
    [] kind = "ints"                -> LexRhsValues(s)
    [] kind \in {"string", "bytes"} -> LexBytesExpr(s)
    [] kind = "list"                -> LexListName(s)
    [] kind = "operator"            -> LexEnum(s, ComparisonOps)
    [] kind = "path"                -> LexPath(s)

-----------------------------------------------------------------------------
Power(radix, n) ==
  LET power[i \in 0..n] == IF i = 0 THEN 1 ELSE radix * power[i - 1] IN power[n]
Weighted(digits, radix) ==
  LET sum[n \in 0..Len(digits)] ==
        IF n = 0 THEN 0
        ELSE sum[n - 1] + Digit[digits[n]] * Power(radix, Len(digits) - n)
  IN  sum[Len(digits)]
\* The sign and the radix that the characters before the digits announce.
Announces(s, radix, sign, prefix, digits) ==
  CASE radix = 16 -> prefix = <<"0", "x">> /\ sign = 1
    [] radix = 8  -> /\ prefix = <<>> /\ sign = 1 /\ StartsWith(digits, "0")
                     /\ ~IsPrefix(<<"0", "x">>, s)
    [] radix = 10 -> /\ prefix = IF sign = 1 THEN <<>> ELSE <<"-">>
                     /\ sign = 1 => ~StartsWith(digits, "0")

\* Digits that no other digit follows.
Whole(s, digits, skip, end) ==
  /\ digits = SubSeq(s, skip + 1, end) /\ digits # <<>>
  /\ \A i \in DOMAIN digits : IsHexDigit(digits[i])
  /\ end = Len(s) \/ ~IsHexDigit(s[end + 1])

\* An integer literal is worth what its digits are worth in the radix its first
\* characters announce, and is refused exactly when a digit is none of that
\* radix or the value is out of range (int.rs i64::lex).
IntsAreTheirDigits ==
  kind = "int" =>
    \A radix \in {8, 10, 16}, sign \in {1, -1}, end \in 1..Len(chars) :
    \A skip \in {n \in 0..2 : n <= end} :
    \A digits \in {SubSeq(chars, skip + 1, end)} :
      /\ Announces(chars, radix, sign, SubSeq(chars, 1, skip), digits)
      /\ Whole(chars, digits, skip, end)
      => LexInt(chars) =
           IF /\ \A i \in DOMAIN digits : Digit[digits[i]] < radix
              /\ sign * Weighted(digits, radix) \in MinInt..MaxInt
           THEN Lexed(sign * Weighted(digits, radix), Skip(chars, end))
           ELSE LexError

\* A string ends at the first quote that its own rules let end it: a quoted one
\* at the first quote behind an even number of backslashes, a raw one at the
\* first quote with its number of hashes behind it, of which it takes no more.
\* Otherwise it is an error: no quote inside a string ends it early, none is
\* missed (bytes.rs lex_quoted_string_as_vec, lex_raw_string_as_str).
Backslashes(at) == Min({n \in 0..at - 1 : n = at - 1 \/ chars[at - 1 - n] # "\\"})
EndsQuoted(at) == chars[at] = "\"" /\ Backslashes(at) % 2 = 0
EndsRaw(at, hashes) ==
  /\ chars[at] = "\"" /\ at + hashes <= Len(chars)
  /\ \A i \in at + 1..at + hashes : chars[i] = "#"
EndsOfRaw(hashes) == {at \in hashes + 3..Len(chars) : EndsRaw(at, hashes)}
StringsEndAtFirstClose ==
  kind = "string" =>
  \A lexed \in {LexString(chars)}, hashes \in {Run(Skip(chars, 1), IsHash)} :
    /\ StartsWith(chars, "\"") /\ lexed.ok =>
         \E at \in 2..Len(chars) :
           /\ EndsQuoted(at) /\ \A i \in 2..at - 1 : ~EndsQuoted(i)
           /\ lexed.rest = Skip(chars, at)
    /\ StartsWith(chars, "r") /\ StartsWith(Skip(chars, hashes + 1), "\"") =>
         IF EndsOfRaw(hashes) = {} \/ ~(hashes <= MaxHashes) THEN lexed = LexError
         ELSE \E at \in EndsOfRaw(hashes) :
                /\ \A b \in EndsOfRaw(hashes) : at <= b
                /\ lexed = Lexed(BytesOf(SubSeq(chars, hashes + 3, at - 1)),
                                 Skip(chars, at + hashes))

\* Whether a place is inside a quoted key: a quote that may end one opens the next.
InKey(at) ==
  LET inside[i \in 1..at] == i > 1 /\ inside[i - 1] # EndsQuoted(i - 1) IN inside[at]

\* The brackets up to a place, those inside a quoted key left out.
Brackets(bracket, end) ==
  LET upto[n \in 0..end] ==
        IF n = 0 THEN 0
        ELSE upto[n - 1] + (IF chars[n] = bracket /\ ~InKey(n) THEN 1 ELSE 0)
  IN  upto[end]

\* What is left does not begin with one of some characters.
StopsBefore(lexed, characters) ==
  lexed.ok => \A c \in characters : ~StartsWith(lexed.rest, c)

\* All that is before the first closing brace, in the order of its digits.
ListsRanges(lexed, end) ==
  /\ chars[end] = "}" /\ \A i \in 1..end - 1 : chars[i] # "}"
  /\ lexed.rest = Skip(chars, end)
  /\ \A i \in DOMAIN lexed.value : lexed.value[i][1] <= lexed.value[i][2]
  /\ lexed.value = <<>> <=> \A i \in 2..end - 1 : chars[i] = " "

\* No literal stops short or runs on: what follows a literal is never a character
\* that would have continued it, so that a bad digit, a separator without a byte
\* or a dot at the end of a name is an error, not the start of the next token;
\* a list of integers is all that is before its first closing brace, its ranges
\* in the order of their digits; an operator is never the start of a longer one;
\* and a path is as many indexes as there are brackets outside its keys (int.rs
\* lex_digits, bytes.rs lex_byte_string, list.rs ListName::lex, types.rs
\* lex_rhs_values, lex.rs lex_enum!, scheme.rs FieldIndex::lex).
LiteralsAreMaximal ==
  /\ kind = "int" => StopsBefore(Lex(chars), DOMAIN Digit)
  /\ kind = "bytes" /\ ~StartsWith(chars, "\"") /\ ~StartsWith(chars, "r") =>
       StopsBefore(Lex(chars), Separators)
  /\ kind = "list" => StopsBefore(Lex(chars), NameChars)
  /\ kind = "ints" =>
       \A lexed \in {Lex(chars)} :
         lexed.ok => \E end \in 1..Len(chars) : ListsRanges(lexed, end)
  /\ kind = "operator" =>
       \A lexed \in {Lex(chars)}, i \in DOMAIN ComparisonOps :
         lexed.ok /\ IsPrefix(ComparisonOps[i][1], chars) =>
           Len(ComparisonOps[i][1]) <= Len(chars) - Len(lexed.rest)
  /\ kind = "path" =>
       \A lexed \in {Lex(chars)} :
         /\ StopsBefore(lexed, {"["})
         /\ lexed.ok => \A bracket \in {"[", "]"} :
              Len(lexed.value) = Brackets(bracket, Len(chars) - Len(lexed.rest))
=============================================================================
