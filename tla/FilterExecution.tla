--------------------------- MODULE FilterExecution ---------------------------
(***************************************************************************)
(* A filter from its text to Filter::execute, next to the contexts of      *)
(* ExecutionContext: parsing resolves a field of a scheme to an index,     *)
(* compilation reads the store's nil_not_equal flag into the closures, and *)
(* execution indexes the context's slots after comparing only the stores.  *)
(*                                                                         *)
(* The expression is one comparison of a field: with a literal, or with a  *)
(* list.  Execution changes nothing, so it is an operator, Execute, that   *)
(* the properties read in every state.  Of the context's calls only those  *)
(* that succeed are steps here: a call that fails leaves the slots alone.  *)
(***************************************************************************)
EXTENDS ExecutionContext

CONSTANTS
  Filters,
  Literal,        \* the literal that filters compare with
  NoFilter

ASSUME FilterAssumption == Literal \in Data

VARIABLES
  nil_not_equal_is_false,   \* each store's flag
  filter                    \* each filter: none, an AST, or compiled

filterVars == <<vars, nil_not_equal_is_false, filter>>

ComparisonOps == {"eq", "ne", "in"}
Ast      == [stage : {"ast"}, store : Stores, field : Nat, ty : Types, op : ComparisonOps,
             list : Nat]
Compiled == [stage : {"compiled"}, store : Stores, field : Nat, ty : Types,
             op : ComparisonOps, list : Nat, default : BOOLEAN]

FilterTypeOK ==
  /\ nil_not_equal_is_false \in [Stores -> BOOLEAN]
  /\ filter \in [Filters -> Ast \cup Compiled \cup {NoFilter}]

FilterInit ==
  /\ Init
  /\ nil_not_equal_is_false \in [Stores -> BOOLEAN]
  /\ filter = [f \in Filters |-> NoFilter]

-----------------------------------------------------------------------------
\* set_nil_not_equal_behavior of some builder on the store.
SetNilNotEqual(s, value) ==
  /\ nil_not_equal_is_false' = [nil_not_equal_is_false EXCEPT ![s] = value]
  /\ UNCHANGED <<vars, filter>>

\* The list that the right-hand side of "in $name" stands for.
ParsedList(s, t, op) == IF op = "in" THEN ListOf(s, t) ELSE 0

\* Scheme::parse with a scheme that owns field i; a list has to exist in the
\* store for the type of the field.
Parse(f, s, i, op) ==
  LET t == fields[s][i].ty IN
  /\ filter[f] = NoFilter
  /\ i \in 1..Len(fields[s])
  /\ op = "in" => Listed(s, t)
  /\ filter' = [filter EXCEPT ![f] =
       [stage |-> "ast", store |-> s, field |-> i, ty |-> t, op |-> op,
        list |-> ParsedList(s, t, op)]]
  /\ UNCHANGED <<vars, nil_not_equal_is_false>>

\* FilterAst::compile; the flag is read now.
Compile(f) ==
  LET ast     == filter[f]
      default == ast.op = "ne" /\ ~nil_not_equal_is_false[ast.store]
  IN
  /\ ast # NoFilter /\ ast.stage = "ast"
  /\ filter' = [filter EXCEPT ![f] =
       [stage |-> "compiled", store |-> ast.store, field |-> ast.field, ty |-> ast.ty,
        op |-> ast.op, list |-> ast.list, default |-> default]]
  /\ UNCHANGED <<vars, nil_not_equal_is_false>>

Answer(b) == IF b THEN "true" ELSE "false"

\* The closure of a comparison on the value of its field.
Compare(fl, v, c) ==
  CASE v.ty # fl.ty                                     -> "Miscast"
    [] fl.op = "in" /\ fl.list > Len(list_matchers[c])  -> "IndexPanic"
    [] fl.op = "in" /\ fl.list <= Len(list_matchers[c]) -> Answer(list_matchers[c][fl.list])
    [] fl.op = "eq"                                     -> Answer(v.data = Literal)
    [] fl.op = "ne"                                     -> Answer(v.data # Literal)

\* Mutant of Default: the store's flag is read when the filter runs.
LiveDefault(fl) == Answer(fl.op = "ne" /\ ~nil_not_equal_is_false[fl.store])

\* The default that compile_one_with moved into the closure.
Default(fl) == Answer(fl.default)

\* get_field_value_unchecked, and the default of an optional field without value.
Evaluate(fl, c) ==
  CASE ~InBounds(c, fl.field)                 -> "IndexPanic"
    [] InBounds(c, fl.field)
       /\ values[c][fl.field] # Unset         -> Compare(fl, values[c][fl.field], c)
    [] InBounds(c, fl.field)
       /\ values[c][fl.field] = Unset         -> IF fields[fl.store][fl.field].optional
                                                 THEN Default(fl) ELSE "MandatoryPanic"

\* Filter::execute compares the Arcs of the stores, not the schemes.
Execute(fl, c) ==
  IF scheme_store[c] = fl.store THEN Evaluate(fl, c) ELSE "SchemeMismatch"

-----------------------------------------------------------------------------
Succeeds(A) == A /\ result' = "Ok" /\ UNCHANGED <<nil_not_equal_is_false, filter>>

FilterNext ==
  \/ \E s \in Stores, def \in FieldDefinition : Succeeds(RegisterField(s, def))
  \/ \E s \in Stores, t \in Types : Succeeds(RegisterList(s, t))
  \/ \E s \in Stores, v \in BOOLEAN : SetNilNotEqual(s, v)
  \/ \E c \in Contexts :
       \/ \E s \in Stores : \E own \in SUBSET Indices(s) : Succeeds(New(c, s, own))
       \/ Succeeds(NewMatchers(c))
       \/ \E i \in Indices(scheme_store[c]), v \in Value :
            Succeeds(SetFieldValueFromName(c, i, v))
       \/ \E t \in Types, m \in Matcher : Succeeds(GetListMatcherMutFromType(c, t, m))
       \/ Succeeds(Clear(c))
  \/ \E f \in Filters :
       \/ \E s \in Stores, op \in ComparisonOps : \E i \in Indices(s) : Parse(f, s, i, op)
       \/ Compile(f)

FilterSpec == FilterInit /\ [][FilterNext]_filterVars

-----------------------------------------------------------------------------
Runs(f, c) == filter[f] # NoFilter /\ filter[f].stage = "compiled" /\ Live(c)

\* A context runs any filter on fields of its scheme, however long after its
\* creation and by which scheme the filter was compiled: never past the end of
\* the slots, never on a value of another type.  A mandatory field without value
\* panics, and so does a list that is younger than the context.
OwnFieldsExecute ==
  \A f \in Filters, c \in Contexts :
    LET fl == filter[f] IN
    Runs(f, c) /\ fl.store = scheme_store[c] /\ fl.field \in items[c] =>
      \/ Execute(fl, c) \in {"true", "false"}
      \/ Execute(fl, c) = "MandatoryPanic" /\ values[c][fl.field] = Unset
      \/ Execute(fl, c) = "IndexPanic" /\ fl.list > Len(list_matchers[c])

\* Action property: the answer of a compiled filter on a context changes only
\* with the context's slots; registrations and the store's flag do not reach it.
AnswersNeedAWrite ==
  [][\A f \in Filters, c \in Contexts :
       Runs(f, c) /\ Live(c)' /\ UNCHANGED slots
         => Execute(filter[f], c)' = Execute(filter[f], c)]_filterVars

=============================================================================
