---------------------------- MODULE LogicalParser ----------------------------
(***************************************************************************)
(* How the tokens of a logical expression become a tree: simple            *)
(* expressions, and the loop that climbs precedences while it gathers      *)
(* chains.  A token is an operator, a parenthesis, "not", or the name of a *)
(* field standing for a whole comparison; the two spellings of an operator *)
(* and the spaces between tokens are left out.                             *)
(***************************************************************************)
EXTENDS Ast

CONSTANT MaxTokens   \* bound: the longest text

VARIABLE tokens      \* the text so far

-----------------------------------------------------------------------------
\* LogicalOp, in ascending order; no operator at all comes below them.
Prec == [None |-> 0, Or |-> 1, Xor |-> 2, And |-> 3]
Operators == DOMAIN Prec \ {"None"}

\* A tree and what is left of the text, or a refusal.
Refused == [ok |-> FALSE]
Lexed(e, rest) == [ok |-> TRUE, expr |-> e, rest |-> rest]

\* lex_combining_op: the operator that comes next, if any.
LexCombiningOp(rest) ==
  IF rest # <<>> /\ Head(rest) \in Operators
  THEN [op |-> Head(rest), rest |-> Tail(rest)]
  ELSE [op |-> "None", rest |-> rest]

RECURSIVE LexSimpleExpr(_), LexMore(_, _, _), Absorb(_, _, _)

LexLogical(rest) ==
  LET first == LexSimpleExpr(rest) IN
  IF ~first.ok THEN Refused
  ELSE LexMore(first.expr, "None", LexCombiningOp(first.rest))

LexSimpleExpr(rest) ==
  CASE rest = <<>> -> Refused
    [] rest # <<>> /\ rest[1] = "(" ->
         LET inner == LexLogical(Tail(rest)) IN
         IF inner.ok /\ inner.rest # <<>> /\ inner.rest[1] = ")"
         THEN Lexed(Parenthesized(inner.expr), Tail(inner.rest))
         ELSE Refused
    [] rest # <<>> /\ rest[1] = "not" ->
         LET arg == LexSimpleExpr(Tail(rest)) IN
         IF arg.ok THEN Lexed(Negation(arg.expr), arg.rest) ELSE Refused
    [] rest # <<>> /\ rest[1] \in Fields ->
         Lexed(Comparison(IndexExpr(FieldExpr(rest[1]), <<>>), IsTrue), Tail(rest))
    [] OTHER -> Refused

\* Mutant of BindsTighter: an equal operator is taken as well.
BindsAsTight(next, op) == Prec[next] >= Prec[op]

BindsTighter(next, op) == Prec[next] > Prec[op]

\* The inner loop: the right-hand side takes what binds tighter than op.
Absorb(rhs, rest, op) ==
  LET next == LexCombiningOp(rest) IN
  IF ~BindsTighter(next.op, op) THEN Lexed(rhs, rest)
  ELSE LET more == LexMore(rhs, next.op, next) IN
       IF more.ok THEN Absorb(more.expr, more.rest, op) ELSE Refused

\* The outer loop: an operator below min_prec is left for the caller.
LexMore(lhs, min_prec, lookahead) ==
  IF lookahead.op = "None" THEN Lexed(lhs, lookahead.rest)
  ELSE LET simple == LexSimpleExpr(lookahead.rest)
           rhs == IF simple.ok THEN Absorb(simple.expr, simple.rest, lookahead.op)
                  ELSE Refused
           next == LexCombiningOp(rhs.rest)
       IN IF ~rhs.ok THEN Refused
          ELSE IF ~Combinable(lhs, rhs.expr) THEN Refused
          ELSE LexMore(Chain(lookahead.op, lhs, rhs.expr), min_prec,
                       IF Prec[next.op] < Prec[min_prec]
                       THEN [op |-> "None", rest |-> rhs.rest] ELSE next)

\* FilterParser::parse: the whole text, and a boolean.
ParseText ==
  LET r == LexLogical(tokens) IN
  IF r.ok /\ r.rest = <<>> /\ ExprType(r.expr) = BoolType THEN Lexed(r.expr, <<>>)
  ELSE Refused

-----------------------------------------------------------------------------
\* Every text, token by token.  After a token that no expression continues
\* with, nothing more is read: such a text is not made longer.
OperandNext(ts) == ts # <<>> => Last(ts) \in {"(", "not"} \cup Operators
Sensible(ts) ==
  ts # <<>> =>
     (Last(ts) \in {"(", "not"} \cup Fields) = OperandNext(Front(ts))

ParserInit == tokens = <<>>
TypeToken(token) ==
  /\ Len(tokens) < MaxTokens
  /\ Sensible(tokens)
  /\ tokens' = Append(tokens, token)
ParserNext ==
  \E token \in Fields \cup Operators \cup {"not", "(", ")"} : TypeToken(token)
ParserSpec == ParserInit /\ [][ParserNext]_tokens

-----------------------------------------------------------------------------
\* Reference: a text splits at its last, loosest operator outside parentheses.
Depth(ts, i) ==
  Len(SelectSeq(SubSeq(ts, 1, i), LAMBDA t : t = "("))
  - Len(SelectSeq(SubSeq(ts, 1, i), LAMBDA t : t = ")"))

Splits(ts) == {i \in DOMAIN ts : ts[i] \in Operators /\ Depth(ts, i) = 0}
LastLoosest(ts) ==
  CHOOSE i \in Splits(ts) : \A j \in Splits(ts) :
    Prec[ts[i]] < Prec[ts[j]] \/ (ts[i] = ts[j] /\ j <= i)

NoTree == [kind |-> "NoTree"]
RECURSIVE Tree(_)
Tree(ts) ==
  CASE Splits(ts) # {} ->
         LET i == LastLoosest(ts)
             l == Tree(SubSeq(ts, 1, i - 1))
             r == Tree(SubSeq(ts, i + 1, Len(ts)))
         IN IF NoTree \in {l, r} THEN NoTree ELSE Combining(ts[i], <<l, r>>)
    [] Splits(ts) = {} /\ Len(ts) > 1 /\ ts[1] = "not" ->
         IF Tree(Tail(ts)) = NoTree THEN NoTree ELSE Negation(Tree(Tail(ts)))
    [] Splits(ts) = {} /\ Len(ts) > 2 /\ ts[1] = "(" /\ Last(ts) = ")" ->
         LET inner == Tree(SubSeq(ts, 2, Len(ts) - 1)) IN
         IF inner = NoTree THEN NoTree ELSE Parenthesized(inner)
    [] Len(ts) = 1 /\ ts[1] \in Fields ->
         Comparison(IndexExpr(FieldExpr(ts[1]), <<>>), IsTrue)
    [] OTHER -> NoTree

\* The parser accepts exactly the texts of the grammar whose sides are
\* comparable, and gathers exactly the chains of its tree: `and` before `xor`
\* before `or`, each from left to right, at any nesting (logical_expr.rs
\* lex_more_with_precedence, whose loops leave an operator to their caller).
ParserFollowsGrammar ==
  LET tree == Tree(tokens) IN
  ParseText = IF tree # NoTree /\ FilterAccepted(tree) THEN Lexed(AstOf(tree), <<>>)
              ELSE Refused
=============================================================================
