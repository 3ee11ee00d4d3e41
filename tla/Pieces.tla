------------------------------- MODULE Pieces -------------------------------
(* The pieces of the engine and of its C interface that share no state,     *)
(* checked in one run: the initial state picks one, which takes its steps   *)
(* while the others rest.                                                   *)
EXTENDS CString, CType, RangeSet, Literals, PanicCatcher, MapEachIterator, Containers

CONSTANTS
  FieldType, SimpleFunctions, ListTypes, MaxTokens,     \* of LogicalParser
  FieldNames,                                  \* of Arguments
  ExprFieldType, ExprFunctions, ExprListTypes, \* of Expressions
  Implementation(_, _), IsMatch(_, _), FilterTexts, ValueTexts, FieldValues, ListContents

VARIABLES
  piece,
  tokens,
  text, ast, wants, fields, lists, nil         \* of Expressions

Parser == INSTANCE LogicalParser
Argument == INSTANCE Arguments
Expression == INSTANCE Expressions WITH
  FieldType <- ExprFieldType, SimpleFunctions <- ExprFunctions, ListTypes <- ExprListTypes

expressionVars == <<text, ast, wants, fields, lists, nil>>
piecesVars ==
  <<piece, tokens, literalVars, containerVars, iteratorVars, cstringVars, typeVars,
    ctypeVars, rangeVars, vars, expressionVars>>

ParserRests == tokens = <<>>
LexerRests  == kind = "none" /\ chars = <<>>
BoxesRest   == container = EmptyOf(<<"Array", "Int">>) /\ failed = FALSE
WalkRests   == /\ root = NoValue /\ indexes = <<>> /\ stack = <<>>
               /\ out = <<NoValue>> /\ panicked = FALSE
TypeRests   == compound = New("Bool") /\ type = <<"Bool">> /\ refused = FALSE
CTypeRests  == ctype = CreatePrimitiveType("Bool") /\ meant = <<"Bool">>
RangeRests  == RangeInit /\ needle = 0
ExpressionRests == Expression!ExpressionsInit /\ wants = "filter" /\ nil = FALSE

PiecesInit ==
  /\ piece \in {"parser", "lexer", "boxes", "walk", "cstring", "type", "ctype", "range",
             "panic", "expression"}
  /\ IF piece = "parser" THEN Parser!ParserInit ELSE ParserRests
  /\ IF piece = "lexer" THEN LiteralsInit ELSE LexerRests
  /\ IF piece = "boxes" THEN ContainersInit ELSE BoxesRest
  /\ IF piece = "walk" THEN IteratorInit ELSE WalkRests
  /\ IF piece = "type" THEN TypeInit ELSE TypeRests
  /\ IF piece = "ctype" THEN CTypeInit ELSE CTypeRests
  /\ IF piece = "range" THEN RangeInit ELSE RangeRests
  /\ IF piece = "expression" THEN Expression!ExpressionsInit ELSE ExpressionRests
  /\ CStringInit
  /\ Init

PiecesNext ==
  \/ /\ piece = "parser" /\ Parser!ParserNext
     /\ UNCHANGED <<piece, literalVars, containerVars, iteratorVars, cstringVars, typeVars, ctypeVars, rangeVars, vars, expressionVars>>
  \/ /\ piece = "lexer" /\ TypeChar
     /\ UNCHANGED <<piece, tokens, containerVars, iteratorVars, cstringVars, typeVars, ctypeVars, rangeVars, vars, expressionVars>>
  \/ /\ piece = "boxes" /\ ContainersNext
     /\ UNCHANGED <<piece, tokens, literalVars, iteratorVars, cstringVars, typeVars, ctypeVars, rangeVars, vars, expressionVars>>
  \/ /\ piece = "walk" /\ IteratorNext
     /\ UNCHANGED <<piece, tokens, literalVars, containerVars, cstringVars, typeVars, ctypeVars, rangeVars, vars, expressionVars>>
  \/ /\ piece = "cstring" /\ CStringNext
     /\ UNCHANGED <<piece, tokens, literalVars, containerVars, iteratorVars, typeVars, ctypeVars, rangeVars, vars, expressionVars>>
  \/ /\ piece = "type" /\ TypeNext
     /\ UNCHANGED <<piece, tokens, literalVars, containerVars, iteratorVars, cstringVars, ctypeVars, rangeVars, vars, expressionVars>>
  \/ /\ piece = "ctype" /\ CTypeNext
     /\ UNCHANGED <<piece, tokens, literalVars, containerVars, iteratorVars, cstringVars, typeVars, rangeVars, vars, expressionVars>>
  \/ /\ piece = "range" /\ RangeNext
     /\ UNCHANGED <<piece, tokens, literalVars, containerVars, iteratorVars, cstringVars, typeVars, ctypeVars, vars, expressionVars>>
  \/ /\ piece = "panic" /\ Next
     /\ UNCHANGED <<piece, tokens, literalVars, containerVars, iteratorVars, cstringVars, typeVars, ctypeVars, rangeVars, expressionVars>>
  \/ /\ piece = "expression" /\ Expression!ExpressionsNext
     /\ UNCHANGED <<piece, tokens, literalVars, containerVars, iteratorVars, cstringVars, typeVars, ctypeVars, rangeVars, vars>>

PiecesSpec == PiecesInit /\ [][PiecesNext]_piecesVars /\ IteratorFairness
-----------------------------------------------------------------------------
(* The properties of the instances; those of the extended modules are in   *)
(* scope as they are, and hold at rest.                                    *)

\* Every text of tokens parses to its grammar's tree, or to nothing (logical_expr.rs
\* lex_more_with_precedence).
ParserFollowsGrammar == piece = "parser" => Parser!ParserFollowsGrammar

\* A text that is one integer is that integer as an argument (function_expr.rs
\* FunctionCallArgExpr::lex_with).
IntArgumentsAreRead == piece = "lexer" => Argument!IntArgumentsAreRead

\* The compiled form of a filter answers what its text means, and that of a value
\* what its text leads to (index_expr.rs, function_expr.rs, logical_expr.rs).
FilterAnswersMeaning == piece = "expression" => Expression!FilterAnswersMeaning
ValueAnswersMeaning  == piece = "expression" => Expression!ValueAnswersMeaning

\* What uses and uses_list do not report does not change an answer, a list that is
\* compared with no field excepted (visitor.rs).
OnlyUsedFieldsMatter == piece = "expression" => Expression!OnlyUsedFieldsMatter
OnlyUsedListsMatter  == piece = "expression" => Expression!OnlyUsedListsMatter
=============================================================================
