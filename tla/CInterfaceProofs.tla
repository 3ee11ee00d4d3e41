-------------------------- MODULE CInterfaceProofs --------------------------
(***************************************************************************)
(* Theorems about the C interface: CString, for any pieces and substitute  *)
(* byte, and FfiSession, for any fields, types, values, texts, documents   *)
(* and number of threads and builders.                                     *)
(***************************************************************************)
EXTENDS CString, FfiSession, SequenceTheorems, WellFoundedInduction, TLAPS

\* A function on 1..n is a sequence of length n.
LEMMA FunctionIsSeq ==
  ASSUME NEW S, NEW n \in Nat, NEW f \in [1..n -> S]
  PROVE  f \in Seq(S) /\ Len(f) = n
<1>1. f \in UNION {[1..k -> S] : k \in Nat}
  OBVIOUS
<1>2. f \in Seq(S)
  BY <1>1, SeqDef
<1>3. DOMAIN f = 1..n /\ DOMAIN f = 1..Len(f) /\ Len(f) \in Nat
  BY <1>2, LenProperties
<1>4. Len(f) = n
  BY <1>3
<1> QED  BY <1>2, <1>4

\* The buffer is what was written, each zero byte replaced, and the terminator
\* once there is a piece.
Terminated(bytes) == Printable(bytes) \o <<0>>

CStringInv ==
  /\ written \in Seq(Byte)
  /\ buffer = IF buffer = <<>> /\ written = <<>> THEN <<>> ELSE Terminated(written)

\* Replacing the zero bytes keeps the length, and leaves none.
LEMMA PrintableBytes ==
  ASSUME NEW s \in Seq(Byte)
  PROVE  /\ Printable(s) \in Seq(Byte)
         /\ Len(Printable(s)) = Len(s) /\ Len(s) \in Nat
         /\ \A i \in 1..Len(s) :
              /\ Printable(s)[i] # 0
              /\ Printable(s)[i] = IF s[i] = 0 THEN Substitute ELSE s[i]
<1>1. DOMAIN s = 1..Len(s) /\ Len(s) \in Nat /\ \A i \in 1..Len(s) : s[i] \in Byte
  BY LenProperties, ElementOfSeq
<1>2. Printable(s) = [i \in 1..Len(s) |-> IF s[i] = 0 THEN Substitute ELSE s[i]]
  BY <1>1 DEF Printable
<1>3. Substitute \in Byte /\ Substitute # 0
  BY CStringAssumption DEF Byte
<1>4. Printable(s) \in [1..Len(s) -> Byte]
  BY <1>1, <1>2, <1>3
<1>5. Printable(s) \in Seq(Byte) /\ Len(Printable(s)) = Len(s)
  BY <1>1, <1>4, FunctionIsSeq
<1> QED  BY <1>1, <1>2, <1>3, <1>5

\* Appending pieces and replacing commute.
LEMMA PrintableConcat ==
  ASSUME NEW s \in Seq(Byte), NEW t \in Seq(Byte)
  PROVE  Printable(s) \o Printable(t) = Printable(s \o t)
<1>1. s \o t \in Seq(Byte) /\ Len(s \o t) = Len(s) + Len(t)
  OBVIOUS
<1> DEFINE u == Printable(s)
           v == Printable(t)
           w == Printable(s \o t)
<1>2. /\ u \in Seq(Byte) /\ v \in Seq(Byte) /\ w \in Seq(Byte)
      /\ Len(u) = Len(s) /\ Len(v) = Len(t) /\ Len(w) = Len(s) + Len(t)
  BY <1>1, PrintableBytes
<1>3. u \o v \in Seq(Byte) /\ Len(u \o v) = Len(s) + Len(t)
  <2> HIDE DEF u, v
  <2> QED  BY <1>2
<1>4. ASSUME NEW i \in 1..Len(s) + Len(t) PROVE (u \o v)[i] = w[i]
  <2>1. w[i] = IF (s \o t)[i] = 0 THEN Substitute ELSE (s \o t)[i]
    BY <1>1, PrintableBytes
  <2>2. CASE i <= Len(s)
    <3>1. i \in 1..Len(s) /\ (s \o t)[i] = s[i]
      BY <2>2
    <3>2. (u \o v)[i] = u[i]
      <4> HIDE DEF u, v
      <4> QED  BY <1>2, <3>1
    <3> QED  BY <2>1, <3>1, <3>2, PrintableBytes
  <2>3. CASE ~(i <= Len(s))
    <3>1. i - Len(s) \in 1..Len(t) /\ (s \o t)[i] = t[i - Len(s)]
      BY <2>3
    <3>2. (u \o v)[i] = v[i - Len(s)]
      <4> HIDE DEF u, v
      <4> QED  BY <1>2, <2>3
    <3> QED  BY <2>1, <3>1, <3>2, PrintableBytes
  <2> QED  BY <2>2, <2>3
<1> HIDE DEF u, v, w
<1>5. u \o v = w
  BY <1>2, <1>3, <1>4, SeqEqual
<1> QED  BY <1>5 DEF u, v, w

\* What C reads of a terminated buffer.
LEMMA TerminatedBytes ==
  ASSUME NEW s \in Seq(Byte)
  PROVE  /\ Terminated(s) \in Seq(Byte) /\ Terminated(s) # <<>>
         /\ Len(Terminated(s)) = Len(s) + 1
         /\ Terminated(s)[Len(s) + 1] = 0
         /\ \A i \in 1..Len(s) :
              /\ Terminated(s)[i] # 0
              /\ Terminated(s)[i] = IF s[i] = 0 THEN Substitute ELSE s[i]
         /\ WithoutEnd(Terminated(s)) = Printable(s)
<1> DEFINE p == Printable(s)
<1>1. /\ p \in Seq(Byte) /\ Len(p) = Len(s) /\ Len(s) \in Nat
      /\ \A i \in 1..Len(s) : p[i] # 0 /\ p[i] = IF s[i] = 0 THEN Substitute ELSE s[i]
  BY PrintableBytes
<1>2. Terminated(s) = p \o <<0>>
  BY DEF Terminated
<1> HIDE DEF p
<1>3. /\ Terminated(s) \in Seq(Byte)
      /\ Len(Terminated(s)) = Len(s) + 1
      /\ Terminated(s)[Len(s) + 1] = 0
      /\ \A i \in 1..Len(s) : Terminated(s)[i] = p[i]
  <2>1. <<0>> \in Seq(Byte) /\ Len(<<0>>) = 1 /\ <<0>>[1] = 0
    BY DEF Byte
  <2> QED  BY <1>1, <1>2, <2>1, ConcatProperties
<1>4. Terminated(s) # <<>>
  BY <1>1, <1>3
<1>5. WithoutEnd(Terminated(s)) = p
  <2> DEFINE r == WithoutEnd(Terminated(s))
  <2>1. r = SubSeq(Terminated(s), 1, Len(s))
    BY <1>1, <1>3, <1>4 DEF WithoutEnd
  <2>2. \A i \in 1..Len(s) : Terminated(s)[i] \in Byte
    <3>1. \A i \in 1..Len(s) : i \in 1..Len(Terminated(s))
      BY <1>1, <1>3
    <3> QED  BY <1>3, <3>1, ElementOfSeq
  <2>3. /\ r \in Seq(Byte) /\ Len(r) = Len(s)
        /\ \A i \in 1..Len(s) : r[i] = Terminated(s)[i]
    BY <1>1, <2>1, <2>2, SubSeqProperties
  <2> HIDE DEF r
  <2>4. r = p
    BY <1>1, <1>3, <2>3, SeqEqual
  <2> QED  BY <2>4 DEF r
<1> QED  BY <1>1, <1>3, <1>4, <1>5 DEF p

LEMMA CStringInvInit == CStringInit => CStringInv
  BY DEF CStringInit, CStringInv

LEMMA CStringInvStep == CStringInv /\ [CStringNext]_cstringVars => CStringInv'
<1> SUFFICES ASSUME CStringInv, [CStringNext]_cstringVars PROVE CStringInv'
  OBVIOUS
<1>1. ASSUME NEW piece \in Fragments, AppendPiece(piece) PROVE CStringInv'
  <2>1. piece \in Seq(Byte) /\ written \in Seq(Byte)
    BY CStringAssumption DEF CStringInv
  <2>2. WithoutEnd(buffer) = Printable(written)
    <3>1. CASE buffer = <<>> /\ written = <<>>
      BY <3>1, EmptySeq DEF WithoutEnd, Printable
    <3>2. CASE buffer = Terminated(written)
      BY <2>1, <3>2, TerminatedBytes
    <3> QED  BY <3>1, <3>2 DEF CStringInv
  <2>3. buffer' = Terminated(written') /\ written' = written \o piece
    BY <1>1, <2>1, <2>2, PrintableConcat DEF AppendPiece, Terminated
  <2>4. written' \in Seq(Byte)
    BY <2>1, <2>3
  <2>5. buffer' # <<>>
    BY <2>3, <2>4, TerminatedBytes
  <2> QED  BY <2>3, <2>4, <2>5 DEF CStringInv
<1>2. CASE ClearBuffer
  BY <1>2, EmptySeq DEF ClearBuffer, CStringInv
<1>3. CASE UNCHANGED cstringVars
  BY <1>3 DEF cstringVars, CStringInv
<1> QED  BY <1>1, <1>2, <1>3 DEF CStringNext

\* The message that C reads from LAST_ERROR is all that write! wrote, in however
\* many pieces and whatever zero bytes are in them: none of them ends the string,
\* and the terminator of a piece is never left in the middle (cstring.rs append).
THEOREM CReadsEveryPiece == CStringSpec => []CReadsAllWritten
<1>1. CStringInv => CReadsAllWritten
  <2> SUFFICES ASSUME CStringInv PROVE CReadsAllWritten
    OBVIOUS
  <2>1. CASE buffer = <<>> /\ written = <<>>
    BY <2>1 DEF CReadsAllWritten
  <2>2. CASE buffer = Terminated(written)
    <3>1. written \in Seq(Byte) /\ DOMAIN written = 1..Len(written) /\ Len(written) \in Nat
      BY DEF CStringInv
    <3>2. /\ buffer # <<>> /\ Len(buffer) = Len(written) + 1
          /\ buffer[Len(written) + 1] = 0
          /\ \A i \in 1..Len(written) :
               /\ buffer[i] # 0
               /\ buffer[i] = IF written[i] = 0 THEN Substitute ELSE written[i]
      BY <2>2, <3>1, TerminatedBytes
    <3>3. (Len(written) + 1) - 1 = Len(written)
      BY <3>1
    <3> QED  BY <3>1, <3>2, <3>3 DEF CReadsAllWritten
  <2> QED  BY <2>1, <2>2 DEF CStringInv
<1> QED  BY <1>1, CStringInvInit, CStringInvStep, PTL DEF CStringSpec

-----------------------------------------------------------------------------
(***************************************************************************)
(* The session.  What a store holds only grows, so that what a filter was  *)
(* parsed with, and the type of what a context holds, stay as they were;   *)
(* and until the hook is there no thread has a backtrace.                  *)
(***************************************************************************)
StoreType ==
  [fields : [Fields -> Types \cup {Absent}], lists : [ListTypes -> {"always", "never", Absent}]]
Stored == Values \cup UNION {{doc[i][2] : i \in DOMAIN doc} : doc \in Documents}
Messages ==
  {Null, Unknown, Argument, ParseErr, Mismatch} \cup {MissingField(f) : f \in Fields}

StoresOK == stores \in Seq(StoreType)
SchemeOK ==
  scheme # Absent => scheme \in [stage : {"builder", "scheme"}, store : 1..Len(stores)]
FilterOK ==
  filter # Absent =>
    /\ filter \in [stage : {"ast", "filter"}, store : 1..Len(stores), text : Texts]
    /\ Parses(filter.store, filter.text)
ContextOK ==
  context # Absent =>
    /\ context \in [store : 1..Len(stores), values : [Fields -> Stored \cup {Absent}]]
    /\ \A f \in Fields :
         context.values[f] # Absent => Accepts(f, context.values[f])
CatcherOK ==
  /\ last_error \in [Threads -> Messages]
  /\ backtrace \in [Threads -> Messages]
  /\ enabled \in [Threads -> BOOLEAN] /\ hooked \in BOOLEAN
  /\ ~hooked => \A t \in Threads : backtrace[t] = Unknown

FfiInv == StoresOK /\ SchemeOK /\ FilterOK /\ ContextOK /\ CatcherOK

\* A set of numbers that is not empty has a least one, and below a bound a
\* greatest one.
Below == {pair \in Nat \X Nat : pair[1] < pair[2]}

LEMMA Least ==
  ASSUME NEW S \in SUBSET Nat, S # {}
  PROVE  \E least \in S : \A n \in S : least <= n
<1>1. IsWellFoundedOn(Below, Nat)
  BY NatLessThanWellFounded DEF OpToRel, Below
<1>2. PICK least \in S : \A n \in S : <<n, least>> \notin Below
  BY <1>1, WFMin
<1>3. ASSUME NEW n \in S PROVE least <= n
  <2>1. n \in Nat /\ least \in Nat /\ <<n, least>> \notin Below
    BY <1>2
  <2> QED  BY <2>1 DEF Below
<1> QED  BY <1>2, <1>3

LEMMA Greatest ==
  ASSUME NEW n \in Nat, NEW S \in SUBSET (1..n), S # {}
  PROVE  \E most \in S : \A i \in S : i <= most
<1> DEFINE D == {n - i : i \in S}
<1>1. D \in SUBSET Nat /\ D # {}
  <2>1. \A i \in S : i \in 1..n /\ n - i \in Nat
    OBVIOUS
  <2>2. \A d \in D : d \in Nat
    BY <2>1
  <2>3. PICK i \in S : TRUE
    OBVIOUS
  <2>4. n - i \in D
    BY <2>3
  <2> QED  BY <2>2, <2>4
<1>2. PICK d \in D : \A e \in D : d <= e
  <2> HIDE DEF D
  <2> QED  BY <1>1, Least
<1>3. PICK most \in S : d = n - most
  BY <1>2
<1>4. ASSUME NEW i \in S PROVE i <= most
  <2>1. n - i \in D
    OBVIOUS
  <2>2. n - most <= n - i /\ i \in 1..n /\ most \in 1..n
    BY <1>2, <1>3, <2>1
  <2> QED  BY <2>2
<1> QED  BY <1>4

\* The entries of a document.
LEMMA Entries ==
  ASSUME NEW doc \in Documents
  PROVE  /\ DOMAIN doc = 1..Len(doc) /\ Len(doc) \in Nat
         /\ \A i \in 1..Len(doc) :
              /\ doc[i] = <<doc[i][1], doc[i][2]>> /\ doc[i][1] \in Fields
              /\ doc[i][2] \in Stored /\ doc[i][2] # Absent /\ doc[i][2].ty \in Types
<1>1. /\ doc \in Seq({doc[i] : i \in DOMAIN doc})
      /\ \A i \in DOMAIN doc :
           doc[i] \in Fields \X {doc[i][2]} /\ doc[i][2] # Absent /\ doc[i][2].ty \in Types
  BY InputAssumption DEF IsDocument
<1>2. DOMAIN doc = 1..Len(doc) /\ Len(doc) \in Nat
  BY <1>1, LenProperties
<1>3. ASSUME NEW i \in DOMAIN doc
      PROVE  doc[i] = <<doc[i][1], doc[i][2]>> /\ doc[i][1] \in Fields /\ doc[i][2] \in Stored
  <2>1. doc[i] \in Fields \X {doc[i][2]}
    BY <1>1
  <2>2. doc[i][2] \in Stored
    BY DEF Stored
  <2> QED  BY <2>1, <2>2
<1> QED  BY <1>1, <1>2, <1>3

\* A value that a store's field accepts has a type: the field is declared.
LEMMA StoredTyped == \A v \in Stored : v # Absent /\ v.ty \in Types /\ v.ty # Absent
<1>1. ASSUME NEW v \in Values PROVE v # Absent /\ v.ty \in Types
  BY FfiAssumption
<1>2. ASSUME NEW doc \in Documents, NEW i \in DOMAIN doc
      PROVE  doc[i][2] # Absent /\ doc[i][2].ty \in Types
  BY Entries
<1>3. Absent \notin Types
  BY FfiAssumption
<1> QED  BY <1>1, <1>2, <1>3 DEF Stored

-----------------------------------------------------------------------------
\* What a test and a text come to when the lists are what their matchers are:
\* Holds and Meaning but for the always lists.
Passes(test) ==
  IF test.op = "eq" THEN context.values[test.field] = test.value
  ELSE MatchValue(ListOf(test))
Reading(text) ==
  IF text.op = "and" THEN \A i \in DOMAIN text.tests : Passes(text.tests[i])
  ELSE \E i \in DOMAIN text.tests : Passes(text.tests[i])

\* A text without a test of an always list means what its tests come to.
LEMMA ReadingIsMeaning ==
  ASSUME NEW text, ~TestsAlwaysList(text),
         \A i \in DOMAIN text.tests : text.tests[i].op \in {"eq", "in"}
  PROVE  Reading(text) = Meaning(text)
<1>1. ASSUME NEW i \in DOMAIN text.tests PROVE Passes(text.tests[i]) = Holds(text.tests[i])
  <2> DEFINE test == text.tests[i]
  <2>1. CASE test.op = "eq"
    BY <2>1 DEF Passes, Holds
  <2>2. CASE test.op = "in"
    <3>1. ListOf(test) # "always"
      BY <2>2 DEF TestsAlwaysList
    <3> QED  BY <2>2, <3>1 DEF Passes, Holds, MatchValue, NeverListMatch, DocumentedMatch
  <2> QED  BY <2>1, <2>2
<1> QED  BY <1>1 DEF Reading, Meaning

\* Once a filter's fields have values, each of its tests has an answer, and it is
\* the one that the test comes to.
LEMMA TestAnswers ==
  ASSUME FfiInv, filter # Absent, context # Absent, filter.store = context.store,
         NEW i \in DOMAIN filter.text.tests
  PROVE  LET test == filter.text.tests[i] IN
         /\ test.field \in Fields
         /\ context.values[test.field] = Absent => TestOn(test) = MissingField(test.field)
         /\ context.values[test.field] # Absent =>
              Passes(test) \in BOOLEAN /\ TestOn(test) = Answer(Passes(test))
<1> DEFINE test == filter.text.tests[i]
           f == test.field
           v == context.values[f]
<1>1. filter.text \in Texts /\ filter.store \in 1..Len(stores)
  BY DEF FfiInv, FilterOK
<1>2. f \in Fields /\ test.op \in {"eq", "in"}
  BY <1>1, InputAssumption DEF IsText
<1>3. /\ TypeIn(filter.store, f) # Absent
      /\ test.op = "in" => /\ TypeIn(filter.store, f) \in ListTypes
                           /\ stores[filter.store].lists[TypeIn(filter.store, f)] # Absent
  <2>1. Parses(filter.store, filter.text)
    BY DEF FfiInv, FilterOK
  <2> QED  BY <2>1 DEF Parses
<1>4. ASSUME v = Absent PROVE TestOn(test) = MissingField(f)
  BY <1>4 DEF TestOn
<1>5. ASSUME v # Absent, test.op = "eq"
      PROVE  Passes(test) \in BOOLEAN /\ TestOn(test) = Answer(Passes(test))
  BY <1>5 DEF TestOn, Passes
<1>6. ASSUME v # Absent, test.op = "in"
      PROVE  Passes(test) \in BOOLEAN /\ TestOn(test) = Answer(Passes(test))
  <2>1. TypeIn(context.store, f) = v.ty
    BY <1>2, <1>6 DEF FfiInv, ContextOK, Accepts
  <2> DEFINE list == stores[context.store].lists[v.ty]
  <2>2. list \in {"always", "never"}
    <3>1. stores[context.store] \in StoreType
      BY <1>1, ElementOfSeq DEF FfiInv, StoresOK
    <3>2. v.ty \in ListTypes /\ list # Absent
      BY <1>3, <1>6, <2>1
    <3> QED  BY <3>1, <3>2 DEF StoreType
  <2>3. MatchValue(list) \in BOOLEAN
    BY <2>2 DEF MatchValue, AlwaysListMatch, NeverListMatch
  <2>4. TestOn(test) = Answer(MatchValue(list))
    BY <1>6 DEF TestOn
  <2>5. Passes(test) = MatchValue(list)
    BY <1>6, <2>1 DEF Passes, ListOf
  <2> QED  BY <2>3, <2>4, <2>5
<1> QED  BY <1>2, <1>4, <1>5, <1>6

\* Answers are told apart, from each other and from a panic.
LEMMA AnswersDiffer ==
  /\ \A a, b \in BOOLEAN : Answer(a) = Answer(b) => a = b
  /\ \A a \in BOOLEAN : \A f \in Fields : Answer(a) # MissingField(f)
<1>1. ASSUME NEW a \in BOOLEAN, NEW b \in BOOLEAN, Answer(a) = Answer(b) PROVE a = b
  <2>1. Answer(a)[2] = a /\ Answer(b)[2] = b
    BY DEF Answer
  <2> QED  BY <1>1, <2>1
<1>2. ASSUME NEW a \in BOOLEAN, NEW f \in Fields PROVE Answer(a) # MissingField(f)
  <2>1. Answer(a)[1] = "answer" /\ MissingField(f)[1] = "panic"
    BY DEF Answer, MissingField
  <2> QED  BY <2>1
<1> QED  BY <1>1, <1>2

\* The value of a text is the outcome of its first decisive test, if it has one.
LEMMA FirstDecides ==
  ASSUME FfiInv, filter # Absent, context # Absent, filter.store = context.store
  PROVE  LET text == filter.text IN
         \/ /\ \A i \in DOMAIN text.tests : TestOn(text.tests[i]) = Answer(text.op = "and")
            /\ Decisive(text) = Answer(text.op = "and")
         \/ \E i \in DOMAIN text.tests :
              /\ TestOn(text.tests[i]) # Answer(text.op = "and")
              /\ Decisive(text) = TestOn(text.tests[i])
<1> DEFINE text == filter.text
           goOn == Answer(text.op = "and")
           at == {i \in DOMAIN text.tests : TestOn(text.tests[i]) # goOn}
<1>1. at \in SUBSET Nat
  <2>1. text \in Texts
    BY DEF FfiInv, FilterOK
  <2>2. DOMAIN text.tests \subseteq Nat
    <3>1. text.tests \in Seq({text.tests[i] : i \in DOMAIN text.tests})
      BY <2>1, InputAssumption DEF IsText
    <3> HIDE DEF text
    <3>2. DOMAIN text.tests = 1..Len(text.tests) /\ Len(text.tests) \in Nat
      BY <3>1, LenProperties
    <3> QED  BY <3>2
  <2> QED  BY <2>2
<1>2. CASE at = {}
  <2>1. Decisive(text) = goOn
    BY <1>2 DEF Decisive
  <2> QED  BY <1>2, <2>1
<1>3. CASE at # {}
  <2> DEFINE first == CHOOSE i \in at : \A j \in at : i <= j
  <2>1. \E i \in at : \A j \in at : i <= j
    <3> HIDE DEF at
    <3> QED  BY <1>1, <1>3, Least
  <2>2. first \in at
    <3> HIDE DEF at
    <3> QED  BY <2>1
  <2>3. Decisive(text) = TestOn(text.tests[first])
    BY <1>3 DEF Decisive
  <2> QED  BY <2>2, <2>3
<1> QED  BY <1>2, <1>3

\* A filter that is executed with a context of its store answers what its text
\* comes to, or panics for a field that it uses and that has no value.
LEMMA OutcomeOfText ==
  ASSUME FfiInv, filter # Absent, context # Absent, filter.store = context.store
  PROVE  \/ \E f \in Fields : /\ Uses(filter.text, f) /\ context.values[f] = Absent
                              /\ Decisive(filter.text) = MissingField(f)
         \/ /\ Reading(filter.text) \in BOOLEAN
            /\ (\A f \in Fields : Uses(filter.text, f) => context.values[f] # Absent)
                 => Decisive(filter.text) = Answer(Reading(filter.text))
            /\ \E b \in BOOLEAN : Decisive(filter.text) = Answer(b)
<1> DEFINE text == filter.text
           op == text.op
<1>1. text \in Texts /\ op \in {"and", "or"}
  BY InputAssumption DEF IsText, FfiInv, FilterOK
<1>2. Reading(text) \in BOOLEAN
  BY DEF Reading
<1>3. \A i \in DOMAIN text.tests : Uses(text, text.tests[i].field)
  BY DEF Uses
<1>4. CASE /\ \A i \in DOMAIN text.tests : TestOn(text.tests[i]) = Answer(op = "and")
           /\ Decisive(text) = Answer(op = "and")
  <2>1. (op = "and") \in BOOLEAN
    OBVIOUS
  <2>2. ASSUME NEW i \in DOMAIN text.tests
        PROVE  /\ context.values[text.tests[i].field] # Absent
               /\ Passes(text.tests[i]) = (op = "and")
    <3>1. context.values[text.tests[i].field] # Absent
      BY <1>4, <2>1, TestAnswers, AnswersDiffer
    <3>2. /\ Passes(text.tests[i]) \in BOOLEAN
          /\ TestOn(text.tests[i]) = Answer(Passes(text.tests[i]))
      BY <3>1, TestAnswers
    <3> QED  BY <1>4, <2>1, <3>1, <3>2, AnswersDiffer
  <2>3. Reading(text) = (op = "and")
    BY <1>1, <2>2 DEF Reading
  <2> QED  BY <1>2, <1>4, <2>1, <2>3
<1>5. CASE \E i \in DOMAIN text.tests :
             /\ TestOn(text.tests[i]) # Answer(op = "and")
             /\ Decisive(text) = TestOn(text.tests[i])
  <2>1. PICK i \in DOMAIN text.tests :
               /\ TestOn(text.tests[i]) # Answer(op = "and")
               /\ Decisive(text) = TestOn(text.tests[i])
    BY <1>5
  <2> DEFINE f == text.tests[i].field
  <2>2. f \in Fields /\ Uses(text, f)
    BY <1>3, TestAnswers
  <2>3. CASE context.values[f] = Absent
    <3>1. Decisive(text) = MissingField(f)
      BY <2>1, <2>3, TestAnswers
    <3> QED  BY <2>2, <2>3, <3>1
  <2>4. CASE context.values[f] # Absent
    <3>1. Passes(text.tests[i]) \in BOOLEAN /\ Decisive(text) = Answer(Passes(text.tests[i]))
      BY <2>1, <2>4, TestAnswers
    <3>2. Passes(text.tests[i]) # (op = "and")
      BY <2>1, <3>1
    <3>3. Reading(text) = Passes(text.tests[i])
          \/ \E j \in DOMAIN text.tests : context.values[text.tests[j].field] = Absent
      <4> SUFFICES ASSUME \A j \in DOMAIN text.tests :
                            context.values[text.tests[j].field] # Absent
                   PROVE  Reading(text) = Passes(text.tests[i])
        OBVIOUS
      <4>1. \A j \in DOMAIN text.tests : Passes(text.tests[j]) \in BOOLEAN
        BY TestAnswers
      <4>2. CASE op = "and"
        BY <3>1, <3>2, <4>1, <4>2 DEF Reading
      <4>3. CASE op = "or"
        BY <3>1, <3>2, <4>1, <4>3 DEF Reading
      <4> QED  BY <1>1, <4>2, <4>3
    <3>4. ASSUME \A g \in Fields : Uses(text, g) => context.values[g] # Absent
          PROVE  Reading(text) = Passes(text.tests[i])
      BY <1>3, <3>3, <3>4, TestAnswers
    <3> QED  BY <1>2, <3>1, <3>4
  <2> QED  BY <2>3, <2>4
<1> QED  BY <1>4, <1>5, FirstDecides

-----------------------------------------------------------------------------
\* The initial state satisfies the invariant.
LEMMA FfiInvInit == FfiInit => FfiInv
<1> SUFFICES ASSUME FfiInit PROVE FfiInv
  OBVIOUS
<1>1. StoresOK
  BY EmptySeq DEF FfiInit, StoresOK
<1>2. SchemeOK /\ FilterOK /\ ContextOK
  BY DEF FfiInit, SchemeOK, FilterOK, ContextOK
<1>3. CatcherOK
  BY DEF FfiInit, CatcherOK, Messages
<1> QED  BY <1>1, <1>2, <1>3 DEF FfiInv

\* What the stores may do: there are more of them, and each keeps what it has.
StoresGrow ==
  /\ stores' \in Seq(StoreType) /\ Len(stores') >= Len(stores)
  /\ \A s \in 1..Len(stores) :
       /\ \A f \in Fields :
            stores[s].fields[f] # Absent => stores'[s].fields[f] = stores[s].fields[f]
       /\ \A ty \in ListTypes :
            stores[s].lists[ty] # Absent => stores'[s].lists[ty] = stores[s].lists[ty]

LEMMA StoresUnchanged == ASSUME StoresOK, UNCHANGED stores PROVE StoresGrow
<1>1. Len(stores) \in Nat
  BY LenProperties DEF StoresOK
<1> QED  BY <1>1 DEF StoresOK, StoresGrow

LEMMA StoresStep ==
  ASSUME FfiInv, [FfiNext]_ffiVars
  PROVE  StoresGrow
<1>0. Len(stores) \in Nat /\ \A s \in 1..Len(stores) : stores[s] \in StoreType
  BY LenProperties, ElementOfSeq DEF FfiInv, StoresOK
<1>1. ASSUME UNCHANGED stores PROVE StoresGrow
  BY <1>1, StoresUnchanged DEF FfiInv
<1>2. ASSUME NEW t \in Threads, CreateSchemeBuilder(t) PROVE StoresGrow
  <2>1. EmptyStore \in StoreType
    BY DEF EmptyStore, StoreType
  <2>2. stores' = Append(stores, EmptyStore)
    BY <1>2 DEF CreateSchemeBuilder
  <2>3. /\ stores' \in Seq(StoreType) /\ Len(stores') = Len(stores) + 1
        /\ \A s \in 1..Len(stores) : stores'[s] = stores[s]
    BY <2>1, <2>2, AppendProperties DEF FfiInv, StoresOK
  <2> QED  BY <1>0, <2>3 DEF StoresGrow
<1>3. ASSUME NEW t \in Threads, NEW d \in Declarable, AddTypeField(t, d[1], d[2])
      PROVE  StoresGrow
  <2> DEFINE b == scheme.store
             f == d[1]
             ty == d[2]
             new == [stores[b] EXCEPT !.fields[f] = ty]
  <2>1. f \in Fields /\ ty \in Types
    BY FfiAssumption
  <2>2. b \in 1..Len(stores)
    BY <1>3 DEF AddTypeField, IsBuilder, FfiInv, SchemeOK
  <2>3. new \in StoreType
    BY <1>0, <2>1, <2>2 DEF StoreType
  <2>4. CASE stores[b].fields[f] = Absent
    <3>1. stores' = [stores EXCEPT ![b] = new]
      BY <1>3, <2>4 DEF AddTypeField
    <3>2. stores[b].fields \in [Fields -> Types \cup {Absent}]
      BY <1>0, <2>2 DEF StoreType
    <3>3. /\ \A g \in Fields : stores[b].fields[g] # Absent =>
                                 new.fields[g] = stores[b].fields[g]
          /\ new.lists = stores[b].lists
      <4>1. new.fields = [stores[b].fields EXCEPT ![f] = ty] /\ new.lists = stores[b].lists
        BY <1>0, <2>2 DEF StoreType
      <4> QED  BY <2>4, <3>2, <4>1
    <3> HIDE DEF new, b
    <3>4. /\ stores' \in Seq(StoreType) /\ Len(stores') = Len(stores)
          /\ \A s \in 1..Len(stores) : stores'[s] = IF s = b THEN new ELSE stores[s]
      BY <2>2, <2>3, <3>1, ExceptSeq DEF FfiInv, StoresOK
    <3> QED  BY <1>0, <3>3, <3>4 DEF StoresGrow
  <2>5. CASE stores[b].fields[f] # Absent
    BY <1>1, <1>3, <2>5 DEF AddTypeField
  <2> QED  BY <2>4, <2>5
<1>4. ASSUME NEW t \in Threads, NEW ty \in ListTypes, NEW list \in {"always", "never"},
             AddList(t, ty, list)
      PROVE  StoresGrow
  <2> DEFINE b == scheme.store
             new == [stores[b] EXCEPT !.lists[ty] = list]
  <2>2. b \in 1..Len(stores)
    BY <1>4 DEF AddList, IsBuilder, FfiInv, SchemeOK
  <2>3. new \in StoreType
    BY <1>0, <2>2 DEF StoreType
  <2>4. CASE stores[b].lists[ty] = Absent
    <3>1. stores' = [stores EXCEPT ![b] = new]
      BY <1>4, <2>4 DEF AddList
    <3>2. stores[b].lists \in [ListTypes -> {"always", "never", Absent}]
      BY <1>0, <2>2 DEF StoreType
    <3>3. /\ \A u \in ListTypes : stores[b].lists[u] # Absent =>
                                    new.lists[u] = stores[b].lists[u]
          /\ new.fields = stores[b].fields
      <4>1. new.lists = [stores[b].lists EXCEPT ![ty] = list] /\ new.fields = stores[b].fields
        BY <1>0, <2>2 DEF StoreType
      <4> QED  BY <2>4, <3>2, <4>1
    <3> HIDE DEF new, b
    <3>4. /\ stores' \in Seq(StoreType) /\ Len(stores') = Len(stores)
          /\ \A s \in 1..Len(stores) : stores'[s] = IF s = b THEN new ELSE stores[s]
      BY <2>2, <2>3, <3>1, ExceptSeq DEF FfiInv, StoresOK
    <3> QED  BY <1>0, <3>3, <3>4 DEF StoresGrow
  <2>5. CASE stores[b].lists[ty] # Absent
    BY <1>1, <1>4, <2>5 DEF AddList
  <2> QED  BY <2>4, <2>5
<1>5. ASSUME NEW t \in Threads,
             \/ ClearLastError(t) \/ \E text \in Texts : ParseFilter(t, text)
             \/ BuildScheme(t) \/ FreeSchemeBuilder(t) \/ FreeScheme(t)
             \/ CompileFilter(t) \/ FreeParsedFilter(t) \/ FreeCompiledFilter(t)
             \/ \E f \in Fields : FilterUses(t, f)
             \/ BadName(t) \/ GetFilterHash(t) \/ SerializeToJson(t)
             \/ CreateExecutionContext(t) \/ FreeExecutionContext(t)
             \/ \E f \in Fields, v \in Values : AddValue(t, f, v) \/ AddJsonValue(t, f, v)
             \/ \E doc \in Documents : DeserializeContext(t, doc)
             \/ Match(t)
             \/ \E b \in BOOLEAN : SetEnabled(t, b) \/ SetFallbackMode(t, b)
             \/ SetPanicCatcherHook(t)
      PROVE  UNCHANGED stores
  BY <1>5 DEF ClearLastError, ParseFilter, BuildScheme, FreeSchemeBuilder, FreeScheme,
              CompileFilter, FreeParsedFilter, FreeCompiledFilter, FilterUses, BadName,
              GetFilterHash, SerializeToJson, CreateExecutionContext, FreeExecutionContext,
              AddValue, AddJsonValue, DeserializeContext, Match, SetEnabled, SetFallbackMode,
              SetPanicCatcherHook, handles
<1>6. CASE UNCHANGED ffiVars
  BY <1>1, <1>6 DEF ffiVars, handles
<1>7. Callers \subseteq Threads
  BY FfiAssumption
<1> QED  BY <1>1, <1>2, <1>3, <1>4, <1>5, <1>6, <1>7 DEF FfiNext

\* Handles refer to stores that there are.
LEMMA SchemeStep ==
  ASSUME FfiInv, [FfiNext]_ffiVars
  PROVE  SchemeOK'
<1>0. Len(stores) \in Nat /\ Len(stores') \in Nat /\ Len(stores') >= Len(stores)
  BY StoresStep, LenProperties DEF FfiInv, StoresOK, StoresGrow
<1>1. ASSUME UNCHANGED scheme PROVE SchemeOK'
  BY <1>0, <1>1 DEF FfiInv, SchemeOK
<1>2. ASSUME NEW t \in Threads, CreateSchemeBuilder(t) PROVE SchemeOK'
  <2>1. /\ scheme' = [stage |-> "builder", store |-> Len(stores) + 1]
        /\ Len(stores') = Len(stores) + 1
    BY <1>2, AppendProperties DEF CreateSchemeBuilder, FfiInv, StoresOK
  <2> QED  BY <1>0, <2>1 DEF SchemeOK
<1>3. ASSUME NEW t \in Threads, BuildScheme(t) PROVE SchemeOK'
  <2>1. /\ scheme \in [stage : {"builder", "scheme"}, store : 1..Len(stores)]
        /\ scheme' = [scheme EXCEPT !.stage = "scheme"]
    BY <1>3 DEF BuildScheme, IsBuilder, FfiInv, SchemeOK
  <2> QED  BY <1>0, <2>1 DEF SchemeOK
<1>4. ASSUME NEW t \in Threads, FreeSchemeBuilder(t) \/ FreeScheme(t) PROVE SchemeOK'
  BY <1>4 DEF FreeSchemeBuilder, FreeScheme, SchemeOK
<1>5. ASSUME NEW t \in Threads,
             \/ ClearLastError(t) \/ \E text \in Texts : ParseFilter(t, text)
             \/ \E d \in Declarable : AddTypeField(t, d[1], d[2])
             \/ \E ty \in ListTypes, list \in {"always", "never"} : AddList(t, ty, list)
             \/ CompileFilter(t) \/ FreeParsedFilter(t) \/ FreeCompiledFilter(t)
             \/ \E f \in Fields : FilterUses(t, f)
             \/ BadName(t) \/ GetFilterHash(t) \/ SerializeToJson(t)
             \/ CreateExecutionContext(t) \/ FreeExecutionContext(t)
             \/ \E f \in Fields, v \in Values : AddValue(t, f, v) \/ AddJsonValue(t, f, v)
             \/ \E doc \in Documents : DeserializeContext(t, doc)
             \/ Match(t)
             \/ \E b \in BOOLEAN : SetEnabled(t, b) \/ SetFallbackMode(t, b)
             \/ SetPanicCatcherHook(t)
      PROVE  UNCHANGED scheme
  BY <1>5 DEF ClearLastError, ParseFilter, AddTypeField, AddList,
              CompileFilter, FreeParsedFilter, FreeCompiledFilter, FilterUses, BadName,
              GetFilterHash, SerializeToJson, CreateExecutionContext, FreeExecutionContext,
              AddValue, AddJsonValue, DeserializeContext, Match, SetEnabled, SetFallbackMode,
              SetPanicCatcherHook, handles
<1>6. CASE UNCHANGED ffiVars
  BY <1>1, <1>6 DEF ffiVars, handles
<1>7. Callers \subseteq Threads
  BY FfiAssumption
<1> QED  BY <1>1, <1>2, <1>3, <1>4, <1>5, <1>6, <1>7 DEF FfiNext

\* A text that a scheme accepts it accepts as long as its store lives.
LEMMA ParsesStays ==
  ASSUME FfiInv, StoresGrow, NEW s \in 1..Len(stores), NEW text \in Texts, Parses(s, text)
  PROVE  Parses(s, text)'
<1> SUFFICES ASSUME NEW i \in DOMAIN text.tests
             PROVE  LET test == text.tests[i] IN
                    /\ TypeIn(s, test.field)' # Absent
                    /\ CASE test.op = "eq" -> test.value.ty = TypeIn(s, test.field)'
                         [] test.op = "in" -> /\ TypeIn(s, test.field)' \in ListTypes
                                              /\ stores'[s].lists[TypeIn(s, test.field)'] # Absent
  BY DEF Parses
<1> DEFINE test == text.tests[i]
<1>1. test.field \in Fields
  BY InputAssumption DEF IsText
<1>2. TypeIn(s, test.field) # Absent
  BY DEF Parses
<1>3. TypeIn(s, test.field)' = TypeIn(s, test.field)
  BY <1>1, <1>2 DEF TypeIn, StoresGrow
<1>4. (CASE test.op = "eq" -> test.value.ty = TypeIn(s, test.field)
         [] test.op = "in" -> /\ TypeIn(s, test.field) \in ListTypes
                              /\ stores[s].lists[TypeIn(s, test.field)] # Absent)
  BY DEF Parses
<1>5. TypeIn(s, test.field) \in ListTypes /\ stores[s].lists[TypeIn(s, test.field)] # Absent
        => stores'[s].lists[TypeIn(s, test.field)] # Absent
  BY DEF StoresGrow
<1>6. test.op \in {"eq", "in"}
  BY InputAssumption DEF IsText
<1> QED  BY <1>2, <1>3, <1>4, <1>5, <1>6

LEMMA FilterStep ==
  ASSUME FfiInv, [FfiNext]_ffiVars
  PROVE  FilterOK'
<1>0. /\ Len(stores) \in Nat /\ Len(stores') \in Nat /\ Len(stores') >= Len(stores)
      /\ StoresGrow
  BY StoresStep, LenProperties DEF FfiInv, StoresOK, StoresGrow
<1> DEFINE Typed == filter \in [stage : {"ast", "filter"}, store : 1..Len(stores), text : Texts]
<1>1. ASSUME NEW s \in 1..Len(stores), NEW text \in Texts, Parses(s, text),
             NEW stage \in {"ast", "filter"},
             filter' = [stage |-> stage, store |-> s, text |-> text]
      PROVE  FilterOK'
  <2>1. /\ filter' \in [stage : {"ast", "filter"}, store : 1..Len(stores'), text : Texts]
        /\ filter'.store = s /\ filter'.text = text
    BY <1>0, <1>1
  <2>2. Parses(s, text)'
    BY <1>0, <1>1, ParsesStays
  <2>3. Parses(filter.store, filter.text)'
    BY <2>1, <2>2 DEF Parses, TypeIn
  <2> QED  BY <2>1, <2>3 DEF FilterOK
<1>2. ASSUME filter # Absent
      PROVE  /\ filter.store \in 1..Len(stores) /\ filter.text \in Texts
             /\ filter.stage \in {"ast", "filter"}
             /\ filter = [stage |-> filter.stage, store |-> filter.store, text |-> filter.text]
             /\ Parses(filter.store, filter.text)
  BY <1>2 DEF FfiInv, FilterOK
<1>3. ASSUME UNCHANGED filter PROVE FilterOK'
  <2>1. CASE filter # Absent
    BY <1>1, <1>2, <1>3, <2>1
  <2>2. CASE filter = Absent
    BY <1>3, <2>2 DEF FilterOK
  <2> QED  BY <2>1, <2>2
<1>4. ASSUME NEW t \in Threads, NEW text \in Texts, ParseFilter(t, text) PROVE FilterOK'
  <2>1. scheme.store \in 1..Len(stores)
    BY <1>4 DEF ParseFilter, IsScheme, FfiInv, SchemeOK
  <2>2. CASE Parses(scheme.store, text)
    <3>1. filter' = [stage |-> "ast", store |-> scheme.store, text |-> text]
      BY <1>4, <2>2 DEF ParseFilter
    <3> QED  BY <1>1, <2>1, <2>2, <3>1
  <2>3. CASE ~Parses(scheme.store, text)
    BY <1>3, <1>4, <2>3 DEF ParseFilter
  <2> QED  BY <2>2, <2>3
<1>5. ASSUME NEW t \in Threads, CompileFilter(t) PROVE FilterOK'
  <2>1. filter # Absent /\ filter' = [filter EXCEPT !.stage = "filter"]
    BY <1>5 DEF CompileFilter, IsAst
  <2>2. filter' = [stage |-> "filter", store |-> filter.store, text |-> filter.text]
    BY <1>2, <2>1
  <2> QED  BY <1>1, <1>2, <2>1, <2>2
<1>6. ASSUME NEW t \in Threads, FreeParsedFilter(t) \/ FreeCompiledFilter(t) PROVE FilterOK'
  BY <1>6 DEF FreeParsedFilter, FreeCompiledFilter, FilterOK
<1>7. ASSUME NEW t \in Threads,
             \/ ClearLastError(t)
             \/ CreateSchemeBuilder(t) \/ BuildScheme(t) \/ FreeSchemeBuilder(t) \/ FreeScheme(t)
             \/ \E d \in Declarable : AddTypeField(t, d[1], d[2])
             \/ \E ty \in ListTypes, list \in {"always", "never"} : AddList(t, ty, list)
             \/ \E f \in Fields : FilterUses(t, f)
             \/ BadName(t) \/ GetFilterHash(t) \/ SerializeToJson(t)
             \/ CreateExecutionContext(t) \/ FreeExecutionContext(t)
             \/ \E f \in Fields, v \in Values : AddValue(t, f, v) \/ AddJsonValue(t, f, v)
             \/ \E doc \in Documents : DeserializeContext(t, doc)
             \/ Match(t)
             \/ \E b \in BOOLEAN : SetEnabled(t, b) \/ SetFallbackMode(t, b)
             \/ SetPanicCatcherHook(t)
      PROVE  UNCHANGED filter
  BY <1>7 DEF ClearLastError, CreateSchemeBuilder, BuildScheme, FreeSchemeBuilder, FreeScheme,
              AddTypeField, AddList, FilterUses, BadName,
              GetFilterHash, SerializeToJson, CreateExecutionContext, FreeExecutionContext,
              AddValue, AddJsonValue, DeserializeContext, Match, SetEnabled, SetFallbackMode,
              SetPanicCatcherHook, handles
<1>8. CASE UNCHANGED ffiVars
  BY <1>3, <1>8 DEF ffiVars, handles
<1>9. Callers \subseteq Threads
  BY FfiAssumption
<1> QED  BY <1>3, <1>4, <1>5, <1>6, <1>7, <1>8, <1>9 DEF FfiNext

-----------------------------------------------------------------------------
\* What visit_map leaves: the entries up to the first that is refused, and of a
\* field's entries the last.
LEMMA GoodEntries ==
  ASSUME NEW doc \in Documents
  PROVE  /\ Good(doc) \in 0..Len(doc)
         /\ \A i \in 1..Good(doc) : Accepts(doc[i][1], doc[i][2])
         /\ Good(doc) # Len(doc) =>
              Good(doc) + 1 \in 1..Len(doc)
              /\ ~Accepts(doc[Good(doc) + 1][1], doc[Good(doc) + 1][2])
<1> DEFINE bad == {i \in DOMAIN doc : ~Accepts(doc[i][1], doc[i][2])}
           first == CHOOSE i \in bad : \A j \in bad : i <= j
<1>1. DOMAIN doc = 1..Len(doc) /\ Len(doc) \in Nat
  BY Entries
<1>2. CASE bad = {}
  <2>1. Good(doc) = Len(doc)
    BY <1>2 DEF Good
  <2> QED  BY <1>1, <1>2, <2>1
<1>3. CASE bad # {}
  <2>1. Good(doc) = first - 1
    BY <1>3 DEF Good
  <2>2. bad \in SUBSET Nat
    BY <1>1
  <2>3. \E i \in bad : \A j \in bad : i <= j
    <3> HIDE DEF bad
    <3> QED  BY <1>3, <2>2, Least
  <2>4. first \in bad /\ \A j \in bad : first <= j
    <3> HIDE DEF bad
    <3> QED  BY <2>3
  <2> HIDE DEF first
  <2>5. first \in 1..Len(doc) /\ ~Accepts(doc[first][1], doc[first][2])
    BY <1>1, <2>4
  <2>6. ASSUME NEW i \in 1..first - 1 PROVE Accepts(doc[i][1], doc[i][2])
    <3>1. i \in DOMAIN doc /\ ~(first <= i)
      BY <1>1, <2>5
    <3> QED  BY <2>4, <3>1
  <2>7. (first - 1) + 1 = first /\ first - 1 \in 0..Len(doc)
    BY <2>5
  <2> QED  BY <2>1, <2>5, <2>6, <2>7
<1> QED  BY <1>2, <1>3

LEMMA LastEntry ==
  ASSUME NEW doc \in Documents, NEW f \in Fields
  PROVE  \/ /\ \A i \in 1..Good(doc) : doc[i][1] # f
            /\ ReadEntries(doc)[f] = context.values[f]
         \/ \E i \in 1..Good(doc) : doc[i][1] = f /\ ReadEntries(doc)[f] = doc[i][2]
<1> DEFINE at == {i \in 1..Good(doc) : doc[i][1] = f}
           last == CHOOSE i \in at : \A j \in at : i >= j
<1>1. ReadEntries(doc)[f] = IF at = {} THEN context.values[f] ELSE doc[last][2]
  BY DEF ReadEntries
<1>2. CASE at = {}
  BY <1>1, <1>2
<1>3. CASE at # {}
  <2>1. at \in SUBSET (1..Good(doc)) /\ Good(doc) \in Nat
    BY GoodEntries, Entries
  <2>2. PICK m \in at : \A j \in at : j <= m
    <3> HIDE DEF at
    <3> QED  BY <1>3, <2>1, Greatest
  <2>3. \A j \in at : m >= j
    BY <2>1, <2>2
  <2>4. last \in at
    <3> HIDE DEF at
    <3> QED  BY <2>2, <2>3
  <2> QED  BY <1>1, <1>3, <2>4
<1> QED  BY <1>2, <1>3

\* What a context holds stays of the type that its field is declared with.
LEMMA ContextStep ==
  ASSUME FfiInv, [FfiNext]_ffiVars
  PROVE  ContextOK'
<1>0. /\ Len(stores) \in Nat /\ Len(stores') \in Nat /\ Len(stores') >= Len(stores)
      /\ StoresGrow
  BY StoresStep, LenProperties DEF FfiInv, StoresOK, StoresGrow
\* A context of a store that there was, whose values that store accepts.
<1>1. ASSUME NEW s \in 1..Len(stores), NEW values \in [Fields -> Stored \cup {Absent}],
             \A f \in Fields : values[f] # Absent => TypeIn(s, f) = values[f].ty,
             context' = [store |-> s, values |-> values]
      PROVE  ContextOK'
  <2>1. /\ context' \in [store : 1..Len(stores'), values : [Fields -> Stored \cup {Absent}]]
        /\ context'.store = s /\ context'.values = values
    BY <1>0, <1>1
  <2>2. ASSUME NEW f \in Fields, values[f] # Absent PROVE TypeIn(s, f)' = values[f].ty
    <3>1. TypeIn(s, f) = values[f].ty /\ TypeIn(s, f) # Absent
      BY <1>1, <2>2, StoredTyped
    <3> QED  BY <1>0, <3>1 DEF TypeIn, StoresGrow
  <2>3. \A f \in Fields : context'.values[f] # Absent => Accepts(f, context.values[f])'
    BY <2>1, <2>2 DEF Accepts, TypeIn
  <2> QED  BY <2>1, <2>3 DEF ContextOK
<1>2. ASSUME context # Absent
      PROVE  /\ context.store \in 1..Len(stores)
             /\ context.values \in [Fields -> Stored \cup {Absent}]
             /\ context = [store |-> context.store, values |-> context.values]
             /\ \A f \in Fields : context.values[f] # Absent =>
                                    TypeIn(context.store, f) = context.values[f].ty
  BY <1>2 DEF FfiInv, ContextOK, Accepts
<1>3. ASSUME UNCHANGED context PROVE ContextOK'
  <2>1. CASE context # Absent
    BY <1>1, <1>2, <1>3, <2>1
  <2>2. CASE context = Absent
    BY <1>3, <2>2 DEF ContextOK
  <2> QED  BY <2>1, <2>2
<1>4. ASSUME NEW t \in Threads, CreateExecutionContext(t) PROVE ContextOK'
  <2> DEFINE none == [f \in Fields |-> Absent]
  <2>1. scheme.store \in 1..Len(stores)
    BY <1>4 DEF CreateExecutionContext, IsScheme, FfiInv, SchemeOK
  <2>2. context' = [store |-> scheme.store, values |-> none]
    BY <1>4 DEF CreateExecutionContext
  <2>3. none \in [Fields -> Stored \cup {Absent}] /\ \A f \in Fields : none[f] = Absent
    OBVIOUS
  <2> HIDE DEF none
  <2> QED  BY <1>1, <2>1, <2>2, <2>3
<1>5. ASSUME context # Absent, NEW f \in Fields, NEW v \in Values, Accepts(f, v),
             context' = [context EXCEPT !.values = SetValue(@, f, v)]
      PROVE  ContextOK'
  <2> DEFINE values == [context.values EXCEPT ![f] = v]
  <2>1. context' = [store |-> context.store, values |-> values]
    BY <1>2, <1>5 DEF SetValue
  <2>2. v \in Stored
    BY DEF Stored
  <2>3. values \in [Fields -> Stored \cup {Absent}]
    BY <1>2, <1>5, <2>2
  <2>4. \A g \in Fields : values[g] # Absent => TypeIn(context.store, g) = values[g].ty
    BY <1>2, <1>5 DEF Accepts
  <2> HIDE DEF values
  <2> QED  BY <1>1, <1>2, <1>5, <2>1, <2>3, <2>4
<1>6. ASSUME NEW t \in Threads, NEW f \in Fields, NEW v \in Values,
             AddValue(t, f, v) \/ AddJsonValue(t, f, v)
      PROVE  ContextOK'
  <2>1. CASE Accepts(f, v)
    BY <1>5, <1>6, <2>1 DEF AddValue, AddJsonValue
  <2>2. CASE ~Accepts(f, v)
    BY <1>3, <1>6, <2>2 DEF AddValue, AddJsonValue
  <2> QED  BY <2>1, <2>2
<1>7. ASSUME NEW t \in Threads, NEW doc \in Documents, DeserializeContext(t, doc)
      PROVE  ContextOK'
  <2> DEFINE values == ReadEntries(doc)
  <2>1. context # Absent /\ context' = [store |-> context.store, values |-> values]
    BY <1>2, <1>7 DEF DeserializeContext
  <2>2. ASSUME NEW f \in Fields
        PROVE  /\ values[f] \in Stored \cup {Absent}
               /\ values[f] # Absent => TypeIn(context.store, f) = values[f].ty
    <3>1. CASE values[f] = context.values[f]
      BY <1>2, <2>1, <3>1
    <3>2. CASE \E i \in 1..Good(doc) : doc[i][1] = f /\ values[f] = doc[i][2]
      <4>1. PICK i \in 1..Good(doc) : doc[i][1] = f /\ values[f] = doc[i][2]
        BY <3>2
      <4>2. i \in 1..Len(doc) /\ Accepts(doc[i][1], doc[i][2])
        BY GoodEntries, Entries
      <4> QED  BY <4>1, <4>2, Entries DEF Accepts
    <3> QED  BY <3>1, <3>2, LastEntry
  <2>3. values \in [Fields -> Stored \cup {Absent}]
    <3>1. values = [f \in Fields |-> values[f]]
      BY DEF ReadEntries
    <3> HIDE DEF values
    <3> QED  BY <2>2, <3>1
  <2> HIDE DEF values
  <2> QED  BY <1>1, <1>2, <2>1, <2>2, <2>3
<1>8. ASSUME NEW t \in Threads, FreeExecutionContext(t) PROVE ContextOK'
  BY <1>8 DEF FreeExecutionContext, ContextOK
<1>9. ASSUME NEW t \in Threads,
             \/ ClearLastError(t) \/ \E text \in Texts : ParseFilter(t, text)
             \/ CreateSchemeBuilder(t) \/ BuildScheme(t) \/ FreeSchemeBuilder(t) \/ FreeScheme(t)
             \/ \E d \in Declarable : AddTypeField(t, d[1], d[2])
             \/ \E ty \in ListTypes, list \in {"always", "never"} : AddList(t, ty, list)
             \/ CompileFilter(t) \/ FreeParsedFilter(t) \/ FreeCompiledFilter(t)
             \/ \E f \in Fields : FilterUses(t, f)
             \/ BadName(t) \/ GetFilterHash(t) \/ SerializeToJson(t)
             \/ Match(t)
             \/ \E b \in BOOLEAN : SetEnabled(t, b) \/ SetFallbackMode(t, b)
             \/ SetPanicCatcherHook(t)
      PROVE  UNCHANGED context
  BY <1>9 DEF ClearLastError, ParseFilter, CreateSchemeBuilder, BuildScheme, FreeSchemeBuilder,
              FreeScheme, AddTypeField, AddList, CompileFilter, FreeParsedFilter,
              FreeCompiledFilter, FilterUses, BadName, GetFilterHash, SerializeToJson, Match,
              SetEnabled, SetFallbackMode, SetPanicCatcherHook, handles
<1>10. CASE UNCHANGED ffiVars
  BY <1>3, <1>10 DEF ffiVars, handles
<1>11. Callers \subseteq Threads
  BY FfiAssumption
<1> QED  BY <1>3, <1>4, <1>6, <1>7, <1>8, <1>9, <1>10, <1>11 DEF FfiNext

-----------------------------------------------------------------------------
\* How a call ends: it answers, it fails with a message of its own, or it panics
\* for a field without value.
LEMMA CallEnds ==
  ASSUME FfiInv, FfiNext
  PROVE  \E t \in Threads :
           \/ \E r \in {"ok", "false"} : Answers(t, r) /\ UNCHANGED backtrace
           \/ \E r \in {"Error", "false"}, m \in Messages : Fails(t, r, m) /\ UNCHANGED backtrace
           \/ \E f \in Fields : Panics(t, MissingField(f))
           \/ ClearLastError(t)
<1>1. Callers \subseteq Threads
  BY FfiAssumption
<1>2. {Argument, ParseErr, Mismatch} \subseteq Messages
  BY DEF Messages
<1>3. ASSUME NEW t \in Threads,
             \/ CreateSchemeBuilder(t) \/ BuildScheme(t) \/ FreeSchemeBuilder(t) \/ FreeScheme(t)
             \/ \E d \in Declarable : AddTypeField(t, d[1], d[2])
             \/ \E ty \in ListTypes, list \in {"always", "never"} : AddList(t, ty, list)
             \/ CompileFilter(t) \/ FreeParsedFilter(t) \/ FreeCompiledFilter(t)
             \/ GetFilterHash(t) \/ SerializeToJson(t)
             \/ CreateExecutionContext(t) \/ FreeExecutionContext(t)
             \/ \E f \in Fields, v \in Values : AddValue(t, f, v)
             \/ \E b \in BOOLEAN : SetEnabled(t, b)
             \/ SetPanicCatcherHook(t)
      PROVE  \E r \in {"ok", "false"} : Answers(t, r) /\ UNCHANGED backtrace
  BY <1>3 DEF CreateSchemeBuilder, BuildScheme, FreeSchemeBuilder, FreeScheme,
              AddTypeField, AddList, CompileFilter, FreeParsedFilter, FreeCompiledFilter,
              GetFilterHash, SerializeToJson, CreateExecutionContext, FreeExecutionContext,
              AddValue, SetEnabled, SetPanicCatcherHook, NoPanic, catcher
<1>4. ASSUME NEW t \in Threads,
             \/ \E text \in Texts : ParseFilter(t, text)
             \/ \E f \in Fields : FilterUses(t, f)
             \/ BadName(t)
             \/ \E f \in Fields, v \in Values : AddJsonValue(t, f, v)
             \/ \E doc \in Documents : DeserializeContext(t, doc)
             \/ \E b \in BOOLEAN : SetFallbackMode(t, b)
      PROVE  /\ UNCHANGED backtrace
             /\ \/ \E r \in {"ok", "false"} : Answers(t, r)
                \/ \E r \in {"Error", "false"}, m \in Messages : Fails(t, r, m)
  BY <1>2, <1>4 DEF ParseFilter, FilterUses, BadName, AddJsonValue, DeserializeContext,
                    SetFallbackMode, NoPanic, catcher
<1>5. ASSUME NEW t \in Threads, Match(t)
      PROVE  \/ Answers(t, "ok") /\ UNCHANGED backtrace
             \/ Fails(t, "Error", Mismatch) /\ UNCHANGED backtrace
             \/ \E f \in Fields : Panics(t, MissingField(f))
  <2>1. CASE Outcome = Mismatch
    BY <1>5, <2>1 DEF Match, NoPanic, catcher
  <2>2. CASE Outcome \in {Answer(TRUE), Answer(FALSE)} /\ Outcome # Mismatch
    BY <1>5, <2>2 DEF Match, NoPanic, catcher
  <2>3. CASE ~(Outcome \in {Answer(TRUE), Answer(FALSE)}) /\ Outcome # Mismatch
    <3>1. Panics(t, Outcome)
      BY <1>5, <2>3 DEF Match
    <3>2. filter # Absent /\ context # Absent /\ filter.store = context.store
          /\ Outcome = Decisive(filter.text)
      BY <1>5, <2>3 DEF Match, IsFilter, Outcome, SameStore
    <3>3. \E f \in Fields : Outcome = MissingField(f)
      BY <2>3, <3>2, OutcomeOfText
    <3> QED  BY <3>1, <3>3
  <2> QED  BY <2>1, <2>2, <2>3
<1> QED  BY <1>1, <1>2, <1>3, <1>4, <1>5 DEF FfiNext

\* Only two calls touch the catcher's switches, and none takes the hook away.
LEMMA SwitchStep ==
  ASSUME FfiInv, [FfiNext]_ffiVars
  PROVE  enabled' \in [Threads -> BOOLEAN] /\ hooked' \in BOOLEAN /\ (hooked => hooked')
<1>1. enabled \in [Threads -> BOOLEAN] /\ hooked \in BOOLEAN
  BY DEF FfiInv, CatcherOK
<1>2. ASSUME NEW t \in Threads, NEW b \in BOOLEAN, SetEnabled(t, b)
      PROVE  enabled' \in [Threads -> BOOLEAN] /\ UNCHANGED hooked
  BY <1>1, <1>2 DEF SetEnabled
<1>3. ASSUME NEW t \in Threads, SetPanicCatcherHook(t) PROVE hooked' = TRUE /\ UNCHANGED enabled
  BY <1>3 DEF SetPanicCatcherHook
<1>4. ASSUME NEW t \in Threads,
             \/ ClearLastError(t) \/ \E text \in Texts : ParseFilter(t, text)
             \/ CreateSchemeBuilder(t) \/ BuildScheme(t) \/ FreeSchemeBuilder(t) \/ FreeScheme(t)
             \/ \E d \in Declarable : AddTypeField(t, d[1], d[2])
             \/ \E ty \in ListTypes, list \in {"always", "never"} : AddList(t, ty, list)
             \/ CompileFilter(t) \/ FreeParsedFilter(t) \/ FreeCompiledFilter(t)
             \/ \E f \in Fields : FilterUses(t, f)
             \/ BadName(t) \/ GetFilterHash(t) \/ SerializeToJson(t)
             \/ CreateExecutionContext(t) \/ FreeExecutionContext(t)
             \/ \E f \in Fields, v \in Values : AddValue(t, f, v) \/ AddJsonValue(t, f, v)
             \/ \E doc \in Documents : DeserializeContext(t, doc)
             \/ \E b \in BOOLEAN : SetFallbackMode(t, b)
      PROVE  UNCHANGED <<enabled, hooked>>
  BY <1>4 DEF ClearLastError, ParseFilter, CreateSchemeBuilder, BuildScheme, FreeSchemeBuilder,
              FreeScheme, AddTypeField, AddList, CompileFilter, FreeParsedFilter,
              FreeCompiledFilter, FilterUses, BadName, GetFilterHash, SerializeToJson,
              CreateExecutionContext, FreeExecutionContext, AddValue, AddJsonValue,
              DeserializeContext, SetFallbackMode, NoPanic, catcher
<1>5. ASSUME NEW t \in Threads, Match(t) PROVE UNCHANGED <<enabled, hooked>>
  BY <1>5 DEF Match, NoPanic, Panics, catcher
<1>6. CASE UNCHANGED ffiVars
  BY <1>1, <1>6 DEF ffiVars, catcher
<1>7. Callers \subseteq Threads
  BY FfiAssumption
<1> QED  BY <1>1, <1>2, <1>3, <1>4, <1>5, <1>6, <1>7 DEF FfiNext

LEMMA CatcherStep ==
  ASSUME FfiInv, [FfiNext]_ffiVars
  PROVE  CatcherOK'
<1>1. /\ last_error \in [Threads -> Messages] /\ backtrace \in [Threads -> Messages]
      /\ ~hooked => \A t \in Threads : backtrace[t] = Unknown
  BY DEF FfiInv, CatcherOK
<1>2. enabled' \in [Threads -> BOOLEAN] /\ hooked' \in BOOLEAN /\ (hooked => hooked')
  BY SwitchStep
<1>3. ASSUME UNCHANGED backtrace, last_error' \in [Threads -> Messages] PROVE CatcherOK'
  BY <1>1, <1>2, <1>3 DEF CatcherOK
<1>4. ASSUME NEW t \in Threads, NEW f \in Fields, Panics(t, MissingField(f)) PROVE CatcherOK'
  <2>1. MissingField(f) \in Messages
    BY DEF Messages
  <2>2. backtrace' \in [Threads -> Messages]
    BY <1>1, <1>4, <2>1 DEF Panics
  <2>3. ~hooked => UNCHANGED backtrace
    BY <1>4 DEF Panics
  <2>4. last_error' \in [Threads -> Messages]
    BY <1>1, <1>4, <2>2 DEF Panics, ReportPanic, WriteLastError
  <2> QED  BY <1>1, <1>2, <2>2, <2>3, <2>4 DEF CatcherOK
<1>5. ASSUME NEW t \in Threads, ClearLastError(t) PROVE CatcherOK'
  <2>1. Null \in Messages
    BY DEF Messages
  <2>2. UNCHANGED backtrace /\ last_error' \in [Threads -> Messages]
    BY <1>1, <1>5, <2>1 DEF ClearLastError, NoPanic, catcher
  <2> QED  BY <1>3, <2>2
<1>6. ASSUME NEW t \in Threads, NEW r \in {"ok", "false"}, Answers(t, r), UNCHANGED backtrace
      PROVE  CatcherOK'
  BY <1>1, <1>3, <1>6 DEF Answers
<1>7. ASSUME NEW t \in Threads, NEW r \in {"Error", "false"}, NEW m \in Messages,
             Fails(t, r, m), UNCHANGED backtrace
      PROVE  CatcherOK'
  <2>1. last_error' \in [Threads -> Messages]
    BY <1>1, <1>7 DEF Fails, WriteLastError
  <2> QED  BY <1>3, <1>7, <2>1
<1>8. CASE UNCHANGED ffiVars
  BY <1>1, <1>3, <1>8 DEF ffiVars, catcher
<1>9. CASE FfiNext
  BY <1>4, <1>5, <1>6, <1>7, <1>9, CallEnds
<1> QED  BY <1>8, <1>9

\* The invariant is inductive.
LEMMA FfiInvStep == FfiInv /\ [FfiNext]_ffiVars => FfiInv'
<1> SUFFICES ASSUME FfiInv, [FfiNext]_ffiVars PROVE FfiInv'
  OBVIOUS
<1>1. StoresOK'
  BY StoresStep DEF StoresGrow, StoresOK
<1> QED  BY <1>1, SchemeStep, FilterStep, ContextStep, CatcherStep DEF FfiInv

-----------------------------------------------------------------------------
\* However the handles are created, given away, freed and created again, what
\* they refer to exists and fits: a filter's text still parses with the store it
\* was parsed with, a context's values have the types of its store's fields, and
\* no thread has a backtrace before the hook is installed.
THEOREM HandlesFit == FfiSpec => []FfiInv
  BY FfiInvInit, FfiInvStep, PTL DEF FfiSpec

\* wirefilter_filter_uses tells a program all that it has to set: when each field
\* that the filter uses has a value, wirefilter_match answers, without error and
\* without panic, and rightly where no test is of an always list; and a context of
\* another scheme's store is refused.
THEOREM UsedFieldsGiveTheAnswer == FfiSpec => []UsedFieldsSuffice
<1>1. FfiInv => UsedFieldsSuffice
  <2> SUFFICES ASSUME FfiInv PROVE UsedFieldsSuffice
    OBVIOUS
  <2>1. ASSUME IsFilter, context # Absent, filter.store # context.store
        PROVE  Outcome = Mismatch
    BY <2>1 DEF Outcome, SameStore
  <2>2. ASSUME Supplied
        PROVE  /\ Outcome \in {Answer(TRUE), Answer(FALSE)}
               /\ Outcome = Answer(Reading(filter.text))
    <3>1. /\ filter # Absent /\ context # Absent /\ filter.store = context.store
          /\ \A f \in Fields : Uses(filter.text, f) => context.values[f] # Absent
      BY <2>2 DEF Supplied, IsFilter
    <3>2. Outcome = Decisive(filter.text)
      BY <3>1 DEF Outcome, SameStore
    <3>3. /\ Reading(filter.text) \in BOOLEAN
          /\ Decisive(filter.text) = Answer(Reading(filter.text))
      BY <3>1, OutcomeOfText
    <3> QED  BY <3>2, <3>3
  <2>3. ASSUME Supplied, ~TestsAlwaysList(filter.text)
        PROVE  Outcome = Answer(Meaning(filter.text))
    <3>1. filter.text \in Texts
      BY <2>3 DEF FfiInv, FilterOK, Supplied, IsFilter
    <3>2. \A i \in DOMAIN filter.text.tests : filter.text.tests[i].op \in {"eq", "in"}
      BY <3>1, InputAssumption DEF IsText
    <3>3. Reading(filter.text) = Meaning(filter.text)
      BY <2>3, <3>2, ReadingIsMeaning
    <3> QED  BY <2>2, <2>3, <3>3
  <2> QED  BY <2>1, <2>2, <2>3 DEF UsedFieldsSuffice
<1> QED  BY <1>1, HandlesFit, PTL

\* A call that fails or panics leaves its own message with the thread that made
\* it, and no call touches another thread's; a panic's message is unknown only
\* while there is no hook.
THEOREM FailuresLeaveTheirOwnMessage == FfiSpec => FailuresLeaveTheirMessage
<1> DEFINE Own ==
      /\ \A t \in Threads : last_error'[t] # last_error[t] => returned'.thread = t
      /\ returned' # returned /\ returned'.result \in {"Error", "Panic"} =>
           last_error'[returned'.thread] \in
             {returned'.reason} \cup (IF hooked THEN {} ELSE {Unknown})
<1>1. ASSUME FfiInv, FfiNext PROVE Own
  <2>1. /\ last_error \in [Threads -> Messages] /\ backtrace \in [Threads -> Messages]
        /\ ~hooked => \A t \in Threads : backtrace[t] = Unknown
    BY <1>1 DEF FfiInv, CatcherOK
  <2>2. ASSUME NEW t \in Threads, NEW r \in {"ok", "false"}, Answers(t, r) PROVE Own
    BY <2>2 DEF Answers
  <2>3. ASSUME NEW t \in Threads, NEW r \in {"Error", "false"}, NEW m \in Messages, Fails(t, r, m)
        PROVE  Own
    <3>1. /\ returned' = [thread |-> t, result |-> r, reason |-> m]
          /\ last_error' = [last_error EXCEPT ![t] = m]
      BY <2>3 DEF Fails, WriteLastError
    <3> QED  BY <2>1, <3>1
  <2>4. ASSUME NEW t \in Threads, NEW f \in Fields, Panics(t, MissingField(f)) PROVE Own
    <3>1. CASE enabled[t]
      <4> DEFINE m == MissingField(f)
      <4>1. /\ returned' = [thread |-> t, result |-> "Panic", reason |-> m]
            /\ last_error' = [last_error EXCEPT ![t] = backtrace'[t]]
        BY <2>4, <3>1 DEF Panics, ReportPanic, WriteLastError
      <4>2. backtrace'[t] = IF hooked THEN m ELSE Unknown
        BY <2>1, <2>4, <3>1 DEF Panics
      <4> HIDE DEF m
      <4> QED  BY <2>1, <4>1, <4>2
    <3>2. CASE ~enabled[t]
      BY <2>4, <3>2 DEF Panics
    <3> QED  BY <3>1, <3>2
  <2>5. ASSUME NEW t \in Threads, ClearLastError(t) PROVE Own
    <3>1. /\ last_error' = [last_error EXCEPT ![t] = Null]
          /\ returned' = [thread |-> t, result |-> "ok", reason |-> Null]
      BY <2>5 DEF ClearLastError
    <3> QED  BY <2>1, <3>1
  <2> HIDE DEF Own
  <2> QED  BY <1>1, <2>2, <2>3, <2>4, <2>5, CallEnds
<1>2. FfiInv /\ [FfiNext]_ffiVars => [Own]_ffiVars
  BY <1>1
<1> QED  BY <1>2, HandlesFit, PTL DEF FfiSpec, FailuresLeaveTheirMessage

\* A context whose document was refused holds the entries in front of the one
\* that does not fit and is otherwise as it was.
THEOREM RefusedDocumentsStop == FfiSpec => RefusedDocumentsArePrefixes
<1> DEFINE Prefix ==
      context # Absent /\ context' # context /\ context' # Absent
        /\ returned'.result = "false" =>
          \E doc \in Documents : \E n \in 0..Len(doc) - 1 :
            /\ \A i \in 1..n : Accepts(doc[i][1], doc[i][2])
            /\ ~Accepts(doc[n + 1][1], doc[n + 1][2])
            /\ \A f \in Fields :
                 IF \E i \in 1..n : doc[i][1] = f
                 THEN \E i \in 1..n : doc[i] = <<f, context'.values[f]>>
                 ELSE context'.values[f] = context.values[f]
<1>1. ASSUME FfiInv, NEW t \in Threads, NEW doc \in Documents, DeserializeContext(t, doc)
      PROVE  Prefix
  <2> SUFFICES ASSUME context # Absent, returned'.result = "false"
               PROVE  \E n \in 0..Len(doc) - 1 :
                        /\ \A i \in 1..n : Accepts(doc[i][1], doc[i][2])
                        /\ ~Accepts(doc[n + 1][1], doc[n + 1][2])
                        /\ \A f \in Fields :
                             IF \E i \in 1..n : doc[i][1] = f
                             THEN \E i \in 1..n : doc[i] = <<f, context'.values[f]>>
                             ELSE context'.values[f] = context.values[f]
    OBVIOUS
  <2> DEFINE n == Good(doc)
  <2>1. n # Len(doc)
    BY <1>1 DEF DeserializeContext, Answers
  <2>2. /\ n \in 0..Len(doc) - 1
        /\ \A i \in 1..n : Accepts(doc[i][1], doc[i][2])
        /\ ~Accepts(doc[n + 1][1], doc[n + 1][2])
    BY <2>1, GoodEntries, Entries
  <2>3. context'.values = ReadEntries(doc)
    BY <1>1 DEF DeserializeContext, FfiInv, ContextOK
  <2>4. ASSUME NEW f \in Fields
        PROVE  IF \E i \in 1..n : doc[i][1] = f
               THEN \E i \in 1..n : doc[i] = <<f, context'.values[f]>>
               ELSE context'.values[f] = context.values[f]
    <3>1. CASE \E i \in 1..n : doc[i][1] = f /\ ReadEntries(doc)[f] = doc[i][2]
      <4>1. PICK i \in 1..n : doc[i][1] = f /\ ReadEntries(doc)[f] = doc[i][2]
        BY <3>1
      <4>2. i \in 1..Len(doc)
        BY <2>2, Entries
      <4>3. doc[i] = <<f, context'.values[f]>>
        BY <2>3, <4>1, <4>2, Entries
      <4> QED  BY <4>1, <4>3
    <3>2. CASE (\A i \in 1..n : doc[i][1] # f) /\ ReadEntries(doc)[f] = context.values[f]
      BY <2>3, <3>2
    <3> QED  BY <3>1, <3>2, LastEntry
  <2> QED  BY <2>2, <2>4
<1>2. ASSUME NEW t \in Threads, NEW f \in Fields, NEW v \in Values,
             AddValue(t, f, v) \/ AddJsonValue(t, f, v)
      PROVE  Prefix
  BY <1>2 DEF AddValue, AddJsonValue, Answers
<1>3. ASSUME NEW t \in Threads, CreateExecutionContext(t) \/ FreeExecutionContext(t)
      PROVE  Prefix
  BY <1>3 DEF CreateExecutionContext, FreeExecutionContext
<1>4. ASSUME NEW t \in Threads,
             \/ ClearLastError(t) \/ \E text \in Texts : ParseFilter(t, text)
             \/ CreateSchemeBuilder(t) \/ BuildScheme(t) \/ FreeSchemeBuilder(t) \/ FreeScheme(t)
             \/ \E d \in Declarable : AddTypeField(t, d[1], d[2])
             \/ \E ty \in ListTypes, list \in {"always", "never"} : AddList(t, ty, list)
             \/ CompileFilter(t) \/ FreeParsedFilter(t) \/ FreeCompiledFilter(t)
             \/ \E f \in Fields : FilterUses(t, f)
             \/ BadName(t) \/ GetFilterHash(t) \/ SerializeToJson(t)
             \/ Match(t)
             \/ \E b \in BOOLEAN : SetEnabled(t, b) \/ SetFallbackMode(t, b)
             \/ SetPanicCatcherHook(t)
      PROVE  Prefix
  BY <1>4 DEF ClearLastError, ParseFilter, CreateSchemeBuilder, BuildScheme, FreeSchemeBuilder,
              FreeScheme, AddTypeField, AddList, CompileFilter, FreeParsedFilter,
              FreeCompiledFilter, FilterUses, BadName, GetFilterHash, SerializeToJson, Match,
              SetEnabled, SetFallbackMode, SetPanicCatcherHook, handles
<1>5. Callers \subseteq Threads
  BY FfiAssumption
<1>6. FfiInv /\ [FfiNext]_ffiVars => [Prefix]_ffiVars
  <2> HIDE DEF Prefix
  <2> QED  BY <1>1, <1>2, <1>3, <1>4, <1>5 DEF FfiNext
<1> QED  BY <1>6, HandlesFit, PTL DEF FfiSpec, RefusedDocumentsArePrefixes
=============================================================================
