------------------------------ MODULE Evaluate ------------------------------
(***************************************************************************)
(* What the compiled closures of a filter do when it is executed, one      *)
(* operator per shape of closure the default compiler builds.              *)
(*                                                                         *)
(* ctx is what they read: [fields, lists, nil] -- the value of each field  *)
(* or NoValue, what the list of a type holds, and the scheme's answer to   *)
(* `!=` on a missing value.  Panicked stands for every unwrap, assert,     *)
(* debug_assert and unreachable! that fails.                               *)
(***************************************************************************)
EXTENDS Ast, Bitwise

CONSTANTS
  Implementation(_, _),  \* external: a simple function, on its arguments
  IsMatch(_, _)          \* external: a regex or wildcard on a byte string

\* Results of a CompiledExpr: one boolean, or a vector of them.
One(b)  == [is |-> "one", bool |-> b]
Vec(bs) == [is |-> "vec", bools |-> bs]

-----------------------------------------------------------------------------
\* Compare::compare of each operator, on a value of the type it casts to.
Mask == [Equal |-> {"equal"}, NotEqual |-> {"less", "greater"},
         GreaterThanEqual |-> {"greater", "equal"},
         LessThanEqual |-> {"less", "equal"},
         GreaterThan |-> {"greater"}, LessThan |-> {"less"}]

DataLess(ty, a, b) ==
  CASE ty = IntType   -> a < b
    [] ty = BytesType -> BytesLess(a, b)
    [] ty = IpType    -> a[2] < b[2]

\* Addresses of different families are not ordered (strict_partial_cmp).
Comparable(ty, a, b) == ty = IpType => a[1] = b[1]

Order(ty, a, b) ==
  IF a = b THEN "equal" ELSE IF DataLess(ty, a, b) THEN "less" ELSE "greater"

MatchesOpt(o, ty, a, b) ==
  IF Comparable(ty, a, b) THEN Order(ty, a, b) \in Mask[o] ELSE o = "NotEqual"

Within(ty, r, a) ==
  /\ Comparable(ty, r[1], a) /\ ~DataLess(ty, a, r[1]) /\ ~DataLess(ty, r[2], a)

IsPart(part, whole) ==
  \E i \in 0..Len(whole) - Len(part) : SubSeq(whole, i + 1, i + Len(part)) = part

CastsTo(op, v) ==
  CASE op.is = "IsTrue" -> TypeOf(v) = BoolType
    [] op.is = "OneOf"  -> \A r \in op.ranges : TypeOf(r[1]) = TypeOf(v)
    [] op.is = "InList" -> TRUE
    [] op.is \in {"Contains", "Matches"} -> TypeOf(v) = BytesType
    [] OTHER            -> TypeOf(v) = TypeOf(op.rhs)

IsTrueAnswer(v) == DataOf(v)
OrderingAnswer(op, v) ==
  MatchesOpt(op.ordering, TypeOf(v), DataOf(v), DataOf(op.rhs))
BitwiseAndAnswer(op, v) == (DataOf(v) & DataOf(op.rhs)) # 0
ContainsAnswer(op, v)   == IsPart(DataOf(op.rhs), DataOf(v))
MatchesAnswer(op, v)    == IsMatch(DataOf(op.rhs), DataOf(v))
OneOfAnswer(op, v) ==
  \E r \in op.ranges : Within(TypeOf(v), <<DataOf(r[1]), DataOf(r[2])>>, DataOf(v))
InListAnswer(v, ctx) == v \in ctx.lists[TypeOf(v)]

Compare(op, v, ctx) ==
  CASE op.is = "IsTrue"   -> IsTrueAnswer(v)
    [] op.is = "Ordering" -> OrderingAnswer(op, v)
    [] op.is = "Int"      -> BitwiseAndAnswer(op, v)
    [] op.is = "Contains" -> ContainsAnswer(op, v)
    [] op.is = "Matches"  -> MatchesAnswer(op, v)
    [] op.is = "OneOf"    -> OneOfAnswer(op, v)
    [] op.is = "InList"   -> InListAnswer(v, ctx)

CompareOne(op, v, ctx) == IF CastsTo(op, v) THEN One(Compare(op, v, ctx)) ELSE Panicked
CompareVec(op, vs, ctx) ==
  IF \A i \in DOMAIN vs : CastsTo(op, vs[i])
  THEN Vec([i \in DOMAIN vs |-> Compare(op, vs[i], ctx)])
  ELSE Panicked

-----------------------------------------------------------------------------
\* Calling a function on the results of its arguments; ret is its return type,
\* for the None it answers.
IsBoolArray(v) ==
  IsArray(TypeOf(v)) /\ \A i \in DOMAIN DataOf(v) : TypeOf(DataOf(v)[i]) = BoolType
Bools(v) == {DataOf(DataOf(v)[i]) : i \in DOMAIN DataOf(v)}

AnyImpl(arg, ret) ==
  CASE arg.is = "ok" /\ IsBoolArray(arg.value) -> Ok(<<BoolType, TRUE \in Bools(arg.value)>>)
    [] arg.is = "missing" /\ arg.type = ArrayOf(BoolType) -> Missing(ret)
    [] OTHER -> Panicked
AllImpl(arg, ret) ==
  CASE arg.is = "ok" /\ IsBoolArray(arg.value) -> Ok(<<BoolType, FALSE \notin Bools(arg.value)>>)
    [] arg.is = "missing" /\ arg.type = ArrayOf(BoolType) -> Missing(ret)
    [] OTHER -> Panicked

Joined(values) == FlattenSeq([i \in DOMAIN values |-> DataOf(values[i])])

\* An array that is alone stays as it is; otherwise the elements of the others
\* have to be of its element type.
ConcatArrays(values) ==
  CASE Len(values) = 1 -> Ok(values[1])
    [] \E i \in DOMAIN values : ~IsArray(TypeOf(values[i])) -> Panicked
    [] OTHER -> TryFromIter(ElementType(values[1]), Joined(values))
ConcatBytes(values) ==
  Ok(<<BytesType, Joined(SelectSeq(values, LAMBDA v : TypeOf(v) = BytesType))>>)

\* The first argument that is there decides.
ConcatValues(values, ret) ==
  CASE values = <<>> -> Missing(ret)
    [] values # <<>> /\ IsArray(TypeOf(values[1])) -> ConcatArrays(values)
    [] values # <<>> /\ TypeOf(values[1]) = BytesType -> ConcatBytes(values)
    [] OTHER -> Panicked
ValuesIn(results) ==
  FoldLeft(LAMBDA vs, r : IF r.is = "ok" THEN Append(vs, r.value) ELSE vs, <<>>, results)
Concat(args, ret) == ConcatValues(ValuesIn(args), ret)

\* SimpleFunctionDefinition::compile appends the defaults of the optional
\* parameters that were not given.
Defaults(fn, count) ==
  [i \in 1..Len(SimpleFunctions[fn].params) + Len(SimpleFunctions[fn].opt_params) - count |->
     Ok(SimpleParam(fn, count + i).default_value)]

Apply(fn, args, ret) ==
  CASE \E i \in DOMAIN args : args[i].is = "panic" -> Panicked
    [] fn = "any" -> AnyImpl(args[1], ret)
    [] fn = "all" -> AllImpl(args[1], ret)
    [] fn = "concat" -> Concat(args, ret)
    [] OTHER -> Found(Implementation(fn, args \o Defaults(fn, Len(args))), ret)

\* The debug_assert on the value of a call, and the assert of filter_map_to.
Declared(r, ret) == IF r.is = "ok" /\ TypeOf(r.value) # ret THEN Panicked ELSE r

EmptyMapped(ret)   == Ok(<<ArrayOf(ret), <<>> >>)    \* mutant of NothingMapped
NothingMapped(ret) == Missing(ArrayOf(ret))

\* compute, on the first argument: each element of it, with the rest.  The
\* values of a map come as an array; an empty array is returned as it is.
Gathered(results, ret) ==
  IF \E i \in DOMAIN results : results[i].is = "panic" THEN Panicked
  ELSE Ok(<<ArrayOf(ret), ValuesIn(results)>>)
ComputeEach(fn, elems, rest, ret) ==
  Gathered([i \in DOMAIN elems |-> Declared(Apply(fn, <<Ok(elems[i])>> \o rest, ret), ret)],
           ret)
Compute(fn, first, rest, ret) ==
  CASE first.is = "panic" -> Panicked
    [] first.is = "missing" -> NothingMapped(ret)
    [] first.is = "ok" /\ DOMAIN DataOf(first.value) = {} ->
         Ok(<<ArrayOf(ElementType(first.value)), <<>> >>)
    [] OTHER -> ComputeEach(fn, ElementsOf(first.value), rest, ret)

-----------------------------------------------------------------------------
\* get_nested and extract_nested of what an identifier answered.
NestedOf(base, path, ty) ==
  CASE base.is = "ok" -> Nested(base.value, path, ty)
    [] base.is = "missing" -> Missing(ty)
    [] OTHER -> Panicked

\* simplify_indexes: a final [*] is dropped.
Simplified(path) == IF path # <<>> /\ Last(path) = MapEach THEN Front(path) ELSE path
EndsInOnlyEach(e) == MapEachCount(e) = 1 /\ Last(e.indexes) = MapEach

RECURSIVE Value(_, _), Execute(_, _)

CallOn(c, args, ret) ==
  IF c.args # <<>> /\ MapEachCount(Head(c.args)) > 0
  THEN Compute(c.fn, Head(args), Tail(args), ret)
  ELSE Declared(Apply(c.fn, args, ret), ret)
CallValue(c, ctx) == CallOn(c, [i \in DOMAIN c.args |-> Value(c.args[i], ctx)], ReturnType(c))

\* The fast, average and slow path of a compiled index expression.
Gather(base, path, ty) ==
  CASE base.is = "ok" /\ Walkable(base.value, path) ->
         TryFromIter(ty, Leaves(base.value, path))
    [] base.is = "missing" -> Missing(ArrayOf(ty))
    [] OTHER -> Panicked
IsWholeCall(e) == e.indexes = <<MapEach>> /\ e.identifier.kind = "FunctionCall"
IndexInto(e, base, ty) ==
  CASE e.indexes = <<>> \/ IsWholeCall(e) -> base
    [] e.indexes # <<>> /\ MapEachCount(e) = 0 -> NestedOf(base, e.indexes, ty)
    [] EndsInOnlyEach(e) -> NestedOf(base, Front(e.indexes), ArrayOf(ty))
    [] OTHER -> Gather(base, e.indexes, ty)
IndexValue(e, ctx) == IndexInto(e, Value(e.identifier, ctx), ExprType(e))

\* A logical argument is executed and its booleans made a value.
AsValue(r) ==
  CASE r.is = "one" -> Ok(<<BoolType, r.bool>>)
    [] r.is = "vec" -> Ok(BoolArray(r.bools))
    [] OTHER -> Panicked

Value(e, ctx) ==
  CASE e.kind = "Field" -> Found(ctx.fields[e.field], FieldType[e.field])
    [] e.kind = "FunctionCall" -> CallValue(e, ctx)
    [] e.kind = "IndexExpr" -> IndexValue(e, ctx)
    [] e.kind = "Literal" -> Ok(e.value)
    [] OTHER -> AsValue(Execute(e, ctx))

-----------------------------------------------------------------------------
\* compile_one_with, compile_vec_with and compile_iter_with, on what the
\* identifier and the path before the last [*] answered.
OneWith(r, op, default, ctx) ==
  CASE r.is = "ok" -> CompareOne(op, r.value, ctx)
    [] r.is = "missing" -> One(default)
    [] OTHER -> Panicked

VecWith(r, op, ctx) ==
  CASE r.is = "ok" /\ Len(TypeOf(r.value)) > 1 -> CompareVec(op, ElementsOf(r.value), ctx)
    [] r.is = "missing" -> Vec(<<>>)
    [] OTHER -> Panicked

IterWith(base, path, op, ctx) ==
  CASE base.is = "ok" /\ Walkable(base.value, path) ->
         CompareVec(op, Leaves(base.value, path), ctx)
    [] base.is = "missing" -> Vec(<<>>)
    [] OTHER -> Panicked

NilAnswer(op, ctx) == op.is = "Ordering" /\ op.ordering = "NotEqual" /\ ctx.nil
IsCoerced(e) == e.op = IsTrue /\ ExprType(e.lhs) # BoolType

\* compile_with, and the choice of it in a comparison.
Compared(e, base, ctx) ==
  CASE IsCoerced(e) \/ EndsInOnlyEach(e.lhs) ->
         VecWith(NestedOf(base, Simplified(e.lhs.indexes), ExprType(e.lhs)), e.op, ctx)
    [] ~IsCoerced(e) /\ MapEachCount(e.lhs) = 0 ->
         OneWith(NestedOf(base, e.lhs.indexes, ExprType(e.lhs)), e.op, NilAnswer(e.op, ctx), ctx)
    [] OTHER -> IterWith(base, e.lhs.indexes, e.op, ctx)
ExecuteComparison(e, ctx) == Compared(e, Value(e.lhs.identifier, ctx), ctx)

BoolOp(op, a, b) ==
  CASE op = "And" -> a /\ b [] op = "Or" -> a \/ b [] op = "Xor" -> a # b

\* A chain of booleans stops at the first that decides it.
CombineOne(op, acc, item) ==
  IF (op = "And" /\ ~acc.bool) \/ (op = "Or" /\ acc.bool) THEN acc
  ELSE IF item.is # "one" THEN Panicked
  ELSE One(BoolOp(op, acc.bool, item.bool))

\* A chain of vectors is as long as the shortest.
CombineVec(op, acc, item) ==
  IF item.is # "vec" THEN Panicked
  ELSE Vec([i \in 1..(IF Len(item.bools) < Len(acc.bools) THEN Len(item.bools)
                      ELSE Len(acc.bools)) |-> BoolOp(op, acc.bools[i], item.bools[i])])

Combine(op, results) ==
  FoldLeft(LAMBDA acc, item :
             CASE acc.is = "one" -> CombineOne(op, acc, item)
               [] acc.is = "vec" -> CombineVec(op, acc, item)
               [] OTHER -> acc,
           Head(results), Tail(results))
ExecuteCombining(e, ctx) ==
  Combine(e.op, [i \in DOMAIN e.items |-> Execute(e.items[i], ctx)])

Negated(r) ==
  CASE r.is = "one" -> One(~r.bool)
    [] r.is = "vec" -> Vec([i \in DOMAIN r.bools |-> ~r.bools[i]])
    [] OTHER -> r

Execute(e, ctx) ==
  CASE e.kind = "Comparison" -> ExecuteComparison(e, ctx)
    [] e.kind = "Parenthesized" -> Execute(e.expr, ctx)
    [] e.kind = "Unary" -> Negated(Execute(e.arg, ctx))
    [] e.kind = "Combining" -> ExecuteCombining(e, ctx)
=============================================================================
