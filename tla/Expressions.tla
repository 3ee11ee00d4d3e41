----------------------------- MODULE Expressions -----------------------------
(***************************************************************************)
(* One filter or one value expression, parsed against a scheme, and        *)
(* executed on a context whose fields and lists change between executions. *)
(***************************************************************************)
EXTENDS Evaluate, Documents

CONSTANTS
  FilterTexts,   \* what is given to parse
  ValueTexts,    \* what is given to parse_value
  FieldValues,   \* field -> the values it is set to
  ListContents   \* what a list can hold

VARIABLES
  text,    \* the text that was parsed, or NoText
  ast,     \* what the parser made of it
  wants,   \* "filter" or "value"
  fields,  \* the context's values
  lists,   \* type -> what its list matcher matches
  nil      \* the scheme's nil_not_equal_behavior

exprVars == <<text, ast, wants, fields, lists, nil>>

NoText == [kind |-> "None"]
Parsed == text # NoText

\* An expression of the grammar with all that is inside it.
RECURSIVE PartsOf(_)
PartsOf(e) ==
  {e} \cup UNION {PartsOf(part) : part \in
    CASE e.kind \in {"Field", "Literal"} -> {}
      [] e.kind = "FunctionCall"  -> ToSet(e.args)
      [] e.kind = "IndexExpr"     -> {e.identifier}
      [] e.kind = "Comparison"    -> {e.lhs}
      [] e.kind = "Parenthesized" -> {e.expr}
      [] e.kind = "Unary"         -> {e.arg}
      [] e.kind = "Combining"     -> ToSet(e.items)}
IsListTest(e) == e.kind = "Comparison" /\ e.op = InList

ExpressionsInit ==
  /\ text = NoText /\ ast = NoText
  /\ wants \in {"filter", "value"}
  /\ fields = [f \in Fields |-> NoValue]
  /\ lists = [ty \in ListTypes |-> {}]
  /\ nil \in BOOLEAN

ParseFilter(t) ==
  /\ ~Parsed /\ wants = "filter"
  /\ FilterAccepted(t)
  /\ text' = t /\ ast' = AstOf(t)
  /\ UNCHANGED <<wants, fields, lists, nil>>

ParseValue(t) ==
  /\ ~Parsed /\ wants = "value"
  /\ ValueAccepted(t)
  /\ text' = t /\ ast' = AstOf(t)
  /\ UNCHANGED <<wants, fields, lists, nil>>

\* set_field_value of a value of the field's type (ExecutionContext.tla has the
\* checks that it is), and the field's share of ExecutionContext::clear.  Bound:
\* only what the filter uses is set, which OnlyUsedFieldsMatter shows to be enough.
SetField(f, v) ==
  /\ Parsed /\ Uses(ast, f)
  /\ fields' = [fields EXCEPT ![f] = v]
  /\ UNCHANGED <<text, ast, wants, lists, nil>>

\* What is in a list changes behind the context's back.  Bound: only while there
\* is an expression that compares with a list.
SetList(ty, content) ==
  /\ Parsed /\ \E part \in PartsOf(text) : IsListTest(part)
  /\ lists' = [lists EXCEPT ![ty] = content]
  /\ UNCHANGED <<text, ast, wants, fields, nil>>

\* The filter and its context are dropped; the scheme stays.
Drop ==
  /\ Parsed
  /\ text' = NoText /\ ast' = NoText
  /\ fields' = [f \in Fields |-> NoValue]
  /\ lists' = [ty \in ListTypes |-> {}]
  /\ UNCHANGED <<wants, nil>>

ExpressionsNext ==
  \/ Drop
  \/ \E t \in FilterTexts : ParseFilter(t)
  \/ \E t \in ValueTexts : ParseValue(t)
  \/ \E f \in Fields : \E v \in FieldValues[f] \cup {NoValue} : SetField(f, v)
  \/ \E ty \in ListTypes, content \in ListContents : SetList(ty, content)

ExpressionsSpec == ExpressionsInit /\ [][ExpressionsNext]_exprVars

Context == [fields |-> fields, lists |-> lists, nil |-> nil]

\* A FilterAst compiled and executed: a vector of booleans would reach the
\* unreachable!() of compile_with_compiler.
FilterAnswer(ctx) ==
  LET result == Execute(ast, ctx) IN IF result.is = "vec" THEN Panicked ELSE result

\* A FilterValueAst, which is an index expression.
ValueAnswer(ctx) == Value(ast, ctx)

\* Filter::execute and FilterValue::execute: a function of the state.
AnswerIn(ctx) == IF wants = "filter" THEN FilterAnswer(ctx) ELSE ValueAnswer(ctx)
Answer == AnswerIn(Context)

-----------------------------------------------------------------------------
(* What a text means, read off its grammar tree: every index expression is *)
(* the sequence of the elements it leads to, and there are no chains, fast *)
(* paths or booleans in place of vectors.                                  *)

\* Results of a value expression as sequences of at most one value.
AsResult(vs, ty) == IF vs = <<>> THEN Missing(ty) ELSE Ok(vs[1])

RECURSIVE Sense(_, _), Meaning(_, _)
LeavesOf(base, path) == IF base = <<>> THEN <<>> ELSE Leaves(base[1], path)
Elements(id, path, ctx) == LeavesOf(Sense(id, ctx), path)

\* A call is mapped over nothing when its first argument is missing.  What is
\* missing depends on the shape of the path: with a single, final [*] any step
\* before it, otherwise only the identifier.
NothingToMap(e, ctx) ==
  Elements(e.identifier, IF EndsInOnlyEach(e) THEN Front(e.indexes) ELSE <<>>, ctx) = <<>>

BoolsOf(v) == {DataOf(b) : b \in ToSet(DataOf(v))}
BuiltIn(fn, values, ret) ==
  CASE values = <<>> -> <<>>
    [] values # <<>> /\ fn = "any" -> << <<BoolType, TRUE \in BoolsOf(values[1])>> >>
    [] values # <<>> /\ fn = "all" -> << <<BoolType, FALSE \notin BoolsOf(values[1])>> >>
    [] values # <<>> /\ fn = "concat" -> << <<ret, Joined(values)>> >>
Called(fn, args, ret) ==
  IF fn \in {"any", "all", "concat"} THEN BuiltIn(fn, ValuesIn(args), ret)
  ELSE SelectSeq(<<Implementation(fn, args \o Defaults(fn, Len(args)))>>, Exists)

SenseOfArgument(arg, ctx) == AsResult(Sense(arg, ctx), ExprType(arg))
SenseOfEach(c, elems, rest) ==
  <<ArrayOf(ReturnType(c)),
    FlattenSeq([i \in DOMAIN elems |->
                  Called(c.fn, <<Ok(elems[i])>> \o rest, ReturnType(c))])>>
SenseOfMapped(c, first, rest, ctx) ==
  IF NothingToMap(first, ctx) THEN <<>>
  ELSE <<SenseOfEach(c, Elements(first.identifier, first.indexes, ctx), rest)>>
SenseOfCall(c, ctx) ==
  IF c.args # <<>> /\ MapEachCount(Head(c.args)) > 0
  THEN SenseOfMapped(c, Head(c.args),
                     [i \in DOMAIN Tail(c.args) |-> SenseOfArgument(Tail(c.args)[i], ctx)], ctx)
  ELSE Called(c.fn, [i \in DOMAIN c.args |-> SenseOfArgument(c.args[i], ctx)], ReturnType(c))

SenseOfLogical(r) ==
  IF r.is = "one" THEN << <<BoolType, r.bool>> >> ELSE <<BoolArray(r.bools)>>

Sense(e, ctx) ==
  CASE e.kind = "Field" -> SelectSeq(<<ctx.fields[e.field]>>, Exists)
    [] e.kind = "Literal" -> <<e.value>>
    [] e.kind = "FunctionCall" -> SenseOfCall(e, ctx)
    [] e.kind = "IndexExpr" -> Elements(e.identifier, e.indexes, ctx)
    [] OTHER -> SenseOfLogical(Meaning(e, ctx))

MeaningOfOne(op, elems, ctx) ==
  One(IF elems = <<>> THEN op.is = "Ordering" /\ op.ordering = "NotEqual" /\ ctx.nil
      ELSE Compare(op, elems[1], ctx))
MeaningOfEach(op, elems, ctx) == Vec([i \in DOMAIN elems |-> Compare(op, elems[i], ctx)])
IsContainer(e) == e.op = IsTrue /\ ExprType(e.lhs) # BoolType
MeaningOfComparison(e, ctx) ==
  CASE IsContainer(e) ->
         MeaningOfEach(e.op, Elements(e.lhs, <<MapEach>>, ctx), ctx)
    [] ~IsContainer(e) /\ MapEachCount(e.lhs) > 0 -> MeaningOfEach(e.op, Sense(e.lhs, ctx), ctx)
    [] OTHER -> MeaningOfOne(e.op, Sense(e.lhs, ctx), ctx)

MeaningOfTwo(op, l, r) ==
  IF l.is = "one" THEN One(BoolOp(op, l.bool, r.bool))
  ELSE Vec([i \in DOMAIN l.bools \cap DOMAIN r.bools |-> BoolOp(op, l.bools[i], r.bools[i])])

Meaning(e, ctx) ==
  CASE e.kind = "Comparison" -> MeaningOfComparison(e, ctx)
    [] e.kind = "Parenthesized" -> Meaning(e.expr, ctx)
    [] e.kind = "Unary" -> Negated(Meaning(e.arg, ctx))
    [] e.kind = "Combining" ->
         MeaningOfTwo(e.op, Meaning(e.items[1], ctx), Meaning(e.items[2], ctx))

-----------------------------------------------------------------------------
\* The parser keeps only well-typed fields and one tree.
ExpressionsTypeOK ==
  /\ \A f \in Fields : Exists(fields[f]) =>
       TypeOf(fields[f]) = FieldType[f] /\ WellTyped(fields[f])
  /\ Parsed /\ wants = "filter" => ExprType(ast) = BoolType

\* Whatever the parser accepted executes without reaching an unwrap, an
\* assertion (function_expr.rs debug_assert) or an unreachable!() that fails,
\* with fields missing, containers empty or too short, at any nesting of calls.
AnswersNeverPanic == Parsed => Answer # Panicked

\* A filter answers what its text means: gathering chains, dropping the final
\* [*], the three paths of index expressions and the vectors of booleans that
\* stand for arrays change nothing.
FilterAnswersMeaning == Parsed /\ wants = "filter" => Answer = Meaning(text, Context)

\* The same of a value, up to the element type of empty containers; a value has
\* the type the parser computed, and so has the error of a missing one.
Agrees(answer, vs, ty) ==
  /\ answer.is = "ok" <=> vs # <<>>
  /\ answer.is = "ok" =>
       /\ Serialize(answer.value) = Serialize(vs[1])
       /\ TypeOf(answer.value) = ty \/ DataOf(answer.value) = <<>>
  /\ answer.is = "missing" <=> vs = <<>>
  /\ answer.is = "missing" => answer.type = ty
ValueAnswersMeaning ==
  Parsed /\ wants = "value" =>
    \A answer \in {Answer}, vs \in {Sense(text, Context)} : Agrees(answer, vs, ExprType(text))

\* uses: a field the filter does not use can be left unset or set to anything
\* without changing the answer, wherever else it occurs in the scheme.
OnlyUsedFieldsMatter ==
  Parsed =>
    \A answer \in {Answer}, f \in Fields : ~Uses(ast, f) =>
      \A v \in FieldValues[f] \cup {NoValue} :
        AnswerIn([Context EXCEPT !.fields[f] = v]) = answer

\* The comparisons with a list in which no field occurs, as in lower("a") in $l: for
\* these uses_list reports none, though "Recursively checks whether a [`FilterAst`]
\* uses a list." (ast/mod.rs:143) could be read otherwise.
FieldlessListTests ==
  {e \in PartsOf(text) : IsListTest(e) /\ \A part \in PartsOf(e) : part.kind # "Field"}

\* uses_list: when no field is said to be compared with a list, directly or inside
\* an argument of a function, what is in the lists decides at most by the
\* comparisons that have no field: as long as these hold or fail as before, no
\* content of the lists changes the answer.
OnlyUsedListsMatter ==
  Parsed /\ (\A f \in Fields : ~UsesList(ast, f)) =>
    \A answer \in {Answer}, ty \in ListTypes, content \in ListContents :
      \A ctx \in {[Context EXCEPT !.lists[ty] = content]} :
        (\A e \in FieldlessListTests : Meaning(e, ctx) = Meaning(e, Context))
          => AnswerIn(ctx) = answer
=============================================================================
