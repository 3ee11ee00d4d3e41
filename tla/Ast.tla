--------------------------------- MODULE Ast ---------------------------------
(***************************************************************************)
(* What the parser accepts and builds: index expressions, function calls   *)
(* with their checked parameters, comparisons, and logical expressions.    *)
(*                                                                         *)
(* A filter's text is given as its grammar tree (LogicalParser.tla has the *)
(* parser that finds it), in the records the tree is made of, each with    *)
(* its `kind`.  Every Combining of a text has two items; AstOf gathers     *)
(* chains of one operator, as the parser does while it reads them.  Which  *)
(* error a refused text gets, and where, is left out.                      *)
(***************************************************************************)
EXTENDS Values

CONSTANTS
  FieldType,        \* the scheme: the type of each field
  SimpleFunctions,  \* name -> [params, opt_params, returns], each parameter
                    \* [arg_kind, val_type], an optional one with default_value
  ListTypes         \* the types the scheme has a list for

Fields == DOMAIN FieldType

-----------------------------------------------------------------------------
\* Records of the tree.
FieldExpr(f)         == [kind |-> "Field", field |-> f]
CallExpr(fn, args)   == [kind |-> "FunctionCall", fn |-> fn, args |-> args]
IndexExpr(id, path)  == [kind |-> "IndexExpr", identifier |-> id, indexes |-> path]
Literal(v)           == [kind |-> "Literal", value |-> v]
Comparison(lhs, op)  == [kind |-> "Comparison", lhs |-> lhs, op |-> op]
Parenthesized(e)     == [kind |-> "Parenthesized", expr |-> e]
Negation(e)          == [kind |-> "Unary", arg |-> e]
Combining(op, items) == [kind |-> "Combining", op |-> op, items |-> items]

\* ComparisonOpExpr.
IsTrue           == [is |-> "IsTrue"]
Ordering(o, v)   == [is |-> "Ordering", ordering |-> o, rhs |-> v]
BitwiseAnd(v)    == [is |-> "Int", rhs |-> v]
ContainsBytes(v) == [is |-> "Contains", rhs |-> v]
MatchesRegex(v)  == [is |-> "Matches", rhs |-> v]    \* and the two wildcards
OneOf(ranges)    == [is |-> "OneOf", ranges |-> ranges]  \* set of <<from, to>>
InList           == [is |-> "InList"]

Ordered == {IpType, BytesType, IntType}

MapEachCount(e) ==
  IF e.kind = "IndexExpr" THEN Len(SelectSeq(e.indexes, LAMBDA i : i = MapEach))
  ELSE 0

\* FunctionParam::arg_kind.
ArgKind(arg) == IF arg.kind = "Literal" THEN "Literal" ELSE "Field"

-----------------------------------------------------------------------------
\* GetType of every kind of expression.
RECURSIVE ExprType(_)
ReturnType(call) ==
  CASE call.fn \in {"any", "all"} -> BoolType
    [] call.fn = "concat" -> ExprType(call.args[1])
    [] OTHER -> SimpleFunctions[call.fn].returns

ComparisonType(e) ==
  IF MapEachCount(e.lhs) > 0 THEN ArrayOf(BoolType)
  ELSE IF e.op = IsTrue THEN ExprType(e.lhs)
  ELSE BoolType

CallType(c) ==
  IF c.args # <<>> /\ MapEachCount(Head(c.args)) > 0
  THEN ArrayOf(ReturnType(c)) ELSE ReturnType(c)

PathType(e) ==
  LET ty == ExprType(e.identifier) IN SubSeq(ty, Len(e.indexes) + 1, Len(ty))

ExprType(e) ==
  CASE e.kind = "Field" -> FieldType[e.field]
    [] e.kind = "FunctionCall" -> CallType(e)
    [] e.kind = "IndexExpr" -> PathType(e)
    [] e.kind = "Literal" -> TypeOf(e.value)
    [] e.kind = "Comparison" -> ComparisonType(e)
    [] e.kind = "Parenthesized" -> ExprType(e.expr)
    [] e.kind = "Unary" -> ExprType(e.arg)
    [] e.kind = "Combining" -> ExprType(Head(e.items))

-----------------------------------------------------------------------------
\* FunctionDefinition::arg_count and check_param of the i-th argument.
MinArgs(fn) ==
  CASE fn \in {"any", "all"} -> 1
    [] fn = "concat" -> 2
    [] OTHER -> Len(SimpleFunctions[fn].params)
AcceptsCount(fn, i) ==
  CASE fn \in {"any", "all"} -> i <= 1
    [] fn = "concat" -> TRUE
    [] OTHER -> i <= MinArgs(fn) + Len(SimpleFunctions[fn].opt_params)

SimpleParam(fn, i) ==
  (SimpleFunctions[fn].params \o SimpleFunctions[fn].opt_params)[i]

\* FunctionArgKind::expect and SimpleFunctionArgKind::expect, and FunctionParam::expect_val_type, which takes
\* a type or any array.
ExpectKind(arg, kind)    == ArgKind(arg) = kind
ExpectArgKind(arg, kind) == kind \in {ArgKind(arg), "Both"}
AnyArray == <<"Array">>
ExpectValType(arg, types) ==
  \/ ExprType(arg) \in types
  \/ AnyArray \in types /\ IsArray(ExprType(arg))

SimpleFits(fn, args, i) ==
  /\ ExpectArgKind(args[i], SimpleParam(fn, i).arg_kind)
  /\ ExpectValType(args[i], {SimpleParam(fn, i).val_type})
BoolArrayFits(arg) ==
  ExpectKind(arg, "Field") /\ ExpectValType(arg, {ArrayOf(BoolType)})
ConcatFits(args, i) ==
  ExpectValType(args[i], IF i = 1 THEN {AnyArray, BytesType} ELSE {ExprType(args[1])})
ParamFits(fn, args, i) ==
  CASE fn \in {"any", "all"} -> BoolArrayFits(args[i])
    [] fn = "concat" -> ConcatFits(args, i)
    [] OTHER -> SimpleFits(fn, args, i)

\* The two sides of a logical operator: both booleans, or both arrays.
Combinable(l, r) ==
  \/ ExprType(l) = BoolType /\ ExprType(r) = BoolType
  \/ IsArray(ExprType(l)) /\ IsArray(ExprType(r))

RECURSIVE Accepted(_)
\* FunctionCallExpr::lex_with_function: the loop over the arguments.
CallAccepted(c) ==
  /\ \A i \in DOMAIN c.args :
        /\ Accepted(c.args[i])
        /\ MapEachCount(c.args[i]) > 0 => i = 1
        /\ AcceptsCount(c.fn, i)
        /\ ParamFits(c.fn, c.args, i)
  /\ Len(c.args) >= MinArgs(c.fn)

\* The operators a type takes.  A literal is read by the type it is compared to.
SetFits(op, ty) ==
  \/ op.is = "OneOf" /\ \A r \in op.ranges : TypeOf(r[1]) = ty
  \/ op.is = "InList" /\ ty \in ListTypes
OperatorFits(op, ty) ==
  \/ ty \in Ordered /\ SetFits(op, ty)
  \/ ty \in Ordered /\ op.is = "Ordering" /\ TypeOf(op.rhs) = ty
  \/ ty = IntType /\ op.is = "Int"
  \/ ty = BytesType /\ op.is \in {"Contains", "Matches"}

\* ComparisonExpr::lex_with_lhs.
ComparisonAccepted(e) ==
  LET ty == ExprType(e.lhs)
      op == e.op
  IN /\ Accepted(e.lhs)
     /\ CASE ty = BoolType -> op = IsTrue
          [] ty # BoolType /\ NextType(ty) = BoolType ->
               op = IsTrue /\ MapEachCount(e.lhs) = 0
          [] OTHER -> OperatorFits(op, ty)

\* The parser accepts an expression when it accepts all of its parts.
Accepted(e) ==
  CASE e.kind = "Field" -> e.field \in Fields
    [] e.kind = "FunctionCall" -> CallAccepted(e)
    [] e.kind = "IndexExpr" ->
         Accepted(e.identifier) /\ Fits(ExprType(e.identifier), e.indexes)
    [] e.kind = "Literal" -> TRUE
    [] e.kind = "Comparison" -> ComparisonAccepted(e)
    [] e.kind = "Parenthesized" -> Accepted(e.expr)
    [] e.kind = "Unary" -> Accepted(e.arg)
    [] e.kind = "Combining" ->
         LET l == e.items[1]
             r == e.items[2]
         IN Accepted(l) /\ Accepted(r) /\ Combinable(l, r)

\* FilterAst::lex_with and FilterValueAst::lex_with.
FilterAccepted(text) == Accepted(text) /\ ExprType(text) = BoolType
ValueAccepted(text)  == Accepted(text) /\ MapEachCount(text) = 0

-----------------------------------------------------------------------------
\* The tree the parser keeps: lex_more_with_precedence pushes the right-hand
\* side onto a left-hand side that is a chain of the same operator.
\* Mutant of Chain: the operator of the chain is not compared.
ChainAnyOperator(op, l, r) ==
  IF l.kind = "Combining" THEN [l EXCEPT !.items = Append(@, r)]
  ELSE Combining(op, <<l, r>>)

Chain(op, l, r) ==
  IF l.kind = "Combining" /\ l.op = op THEN [l EXCEPT !.items = Append(@, r)]
  ELSE Combining(op, <<l, r>>)

RECURSIVE AstOf(_)
AstOf(e) ==
  CASE e.kind \in {"Field", "Literal"} -> e
    [] e.kind = "FunctionCall" ->
         [e EXCEPT !.args = [i \in DOMAIN e.args |-> AstOf(e.args[i])]]
    [] e.kind = "IndexExpr" -> [e EXCEPT !.identifier = AstOf(@)]
    [] e.kind = "Comparison" -> [e EXCEPT !.lhs = AstOf(@)]
    [] e.kind = "Parenthesized" -> [e EXCEPT !.expr = AstOf(@)]
    [] e.kind = "Unary" -> [e EXCEPT !.arg = AstOf(@)]
    [] e.kind = "Combining" -> Chain(e.op, AstOf(e.items[1]), AstOf(e.items[2]))

-----------------------------------------------------------------------------
\* Mutant of Children: the arguments of a call are not walked to.
ChildrenButArgs(e) ==
  CASE e.kind \in {"Field", "Literal", "FunctionCall"} -> {}
    [] e.kind = "IndexExpr" -> {e.identifier}
    [] e.kind = "Comparison" -> {e.lhs}
    [] e.kind = "Parenthesized" -> {e.expr}
    [] e.kind = "Unary" -> {e.arg}
    [] e.kind = "Combining" -> ToSet(e.items)

\* The children a visitor walks to, and the visitors behind uses and uses_list.
Children(e) ==
  CASE e.kind \in {"Field", "Literal"} -> {}
    [] e.kind = "FunctionCall" -> ToSet(e.args)
    [] e.kind = "IndexExpr" -> {e.identifier}
    [] e.kind = "Comparison" -> {e.lhs}
    [] e.kind = "Parenthesized" -> {e.expr}
    [] e.kind = "Unary" -> {e.arg}
    [] e.kind = "Combining" -> ToSet(e.items)

RECURSIVE Uses(_, _)
Uses(e, f) ==
  \/ e = FieldExpr(f)
  \/ \E child \in Children(e) : Uses(child, f)

\* Mutant of UsesList: only a list that is the whole filter's.
UsesListDirectly(e, f) == e.kind = "Comparison" /\ e.op = InList /\ Uses(e, f)

RECURSIVE UsesList(_, _)
UsesList(e, f) ==
  \/ e.kind = "Comparison" /\ e.op = InList /\ Uses(e, f)
  \/ \E child \in Children(e) : UsesList(child, f)
=============================================================================
