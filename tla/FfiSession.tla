----------------------------- MODULE FfiSession -----------------------------
(***************************************************************************)
(* The C interface (ffi/src/lib.rs) as a C program uses it: handles to     *)
(* builders, schemes, ASTs, filters and contexts, each call's result, the  *)
(* message that wirefilter_get_last_error finds in the calling thread, and *)
(* the panics that calls catch.                                            *)
(*                                                                         *)
(* The program keeps the contract of the header: it passes live handles,   *)
(* gives an owned one away once, shares a context between threads only to  *)
(* read it.  So a call is one step.  Builders come from the default        *)
(* constructor: each has a store of its own, shared by reference with all  *)
(* that is made from its scheme; two schemes are the same only if their    *)
(* stores are.  The fields that C declares are all mandatory.              *)
(*                                                                         *)
(* A filter is a conjunction or disjunction of tests.  Installing the hook *)
(* is one step here; what two installers do to each other is in            *)
(* PanicCatcher.                                                           *)
(***************************************************************************)
EXTENDS Integers, Sequences, FiniteSets

CONSTANTS
  Threads,
  Callers,       \* bound: the threads that do more than parse and clear
  Fields,        \* field names
  Types,
  Declarable,    \* bound: the <<field, type>> pairs that are declared
  ListTypes,     \* bound: the types that lists are declared for
  Values,        \* values [ty, data]
  Texts,         \* filter texts [op, tests]
  Documents,     \* serialized contexts: sequences of <<field, value>>
  MaxStores,     \* bound on the builders created
  Absent         \* no handle, no field, no value

ASSUME FfiAssumption ==
  /\ Callers \subseteq Threads
  /\ Declarable \subseteq Fields \X Types /\ ListTypes \subseteq Types
  /\ MaxStores \in Nat
  /\ Absent \notin Types \cup Threads \cup {"always", "never"}
  /\ \A v \in Values : v # Absent /\ v.ty \in Types

\* A text is a sequence of tests, a document a sequence of entries.
IsText(text) ==
  /\ text.op \in {"and", "or"}
  /\ text.tests \in Seq({text.tests[i] : i \in DOMAIN text.tests})
  /\ \A i \in DOMAIN text.tests :
       text.tests[i].field \in Fields /\ text.tests[i].op \in {"eq", "in"}
IsDocument(doc) ==
  /\ doc \in Seq({doc[i] : i \in DOMAIN doc})
  /\ \A i \in DOMAIN doc :
       /\ doc[i] \in Fields \X {doc[i][2]}
       /\ doc[i][2] # Absent /\ doc[i][2].ty \in Types

ASSUME InputAssumption ==
  (\A text \in Texts : IsText(text)) /\ (\A doc \in Documents : IsDocument(doc))

VARIABLES
  stores,        \* what each store holds: the fields' types and the lists
  scheme,        \* the handle of a builder or scheme
  filter,        \* the handle of an AST or compiled filter
  context,       \* the handle of an execution context
  last_error,    \* LAST_ERROR
  enabled,       \* whether the thread's panic catcher is enabled
  backtrace,     \* the message the panic hook recorded last in the thread
  hooked,        \* whether the panic hook is installed
  aborted,       \* a panic left an extern "C" function
  returned       \* the last call: its thread, its result, and why it failed

handles == <<stores, scheme, filter, context>>
catcher == <<enabled, backtrace, hooked>>
ffiVars == <<handles, last_error, catcher, aborted, returned>>

\* Messages.  A NULL pointer is Null.
Null    == <<"null">>
Unknown == <<"unknown">>
Argument  == <<"argument">>     \* not UTF-8, no such field, bad JSON, bad mode
ParseErr  == <<"parse">>
Mismatch  == <<"mismatch">>
MissingField(f) == <<"panic", f>>

EmptyStore == [fields |-> [f \in Fields |-> Absent], lists |-> [ty \in ListTypes |-> Absent]]

FfiInit ==
  /\ stores = <<>>
  /\ scheme = Absent /\ filter = Absent /\ context = Absent
  /\ last_error = [t \in Threads |-> Null]
  /\ enabled = [t \in Threads |-> FALSE]
  /\ backtrace = [t \in Threads |-> Unknown]
  /\ hooked = FALSE /\ aborted = FALSE
  /\ returned = [thread |-> Absent, result |-> "ok", reason |-> Null]

-----------------------------------------------------------------------------
\* How a call ends, when it does not write LAST_ERROR.  Success, true, void and
\* what a successful call answers are all "ok".
Answers(t, result) ==
  /\ returned' = [thread |-> t, result |-> result, reason |-> Null]
  /\ UNCHANGED last_error

\* Mutant of WriteLastError: one string for all threads.
WriteOneError(t, message) == last_error' = [u \in Threads |-> message]

\* write_last_error!
WriteLastError(t, message) == last_error' = [last_error EXCEPT ![t] = message]

Fails(t, result, message) ==
  /\ returned' = [thread |-> t, result |-> result, reason |-> message]
  /\ WriteLastError(t, message)

Idle == ~aborted
NoPanic == UNCHANGED <<catcher, aborted>>

\* The arm of a caught panic: the message is what the hook recorded, if there
\* is a hook.
ReportPanic(t, message) ==
  /\ returned' = [thread |-> t, result |-> "Panic", reason |-> message]
  /\ WriteLastError(t, backtrace'[t])

\* catch_panic around a call that panics; with the catcher disabled the panic
\* reaches the extern "C" function, which aborts.
Panics(t, message) ==
  /\ backtrace' = IF hooked /\ enabled[t] THEN [backtrace EXCEPT ![t] = message]
                  ELSE backtrace
  /\ IF enabled[t] THEN ReportPanic(t, message) /\ UNCHANGED aborted
     ELSE aborted' = TRUE /\ UNCHANGED <<returned, last_error>>
  /\ UNCHANGED <<enabled, hooked>>

-----------------------------------------------------------------------------
\* wirefilter_create_scheme_builder.
CreateSchemeBuilder(t) ==
  /\ Idle /\ scheme = Absent /\ Len(stores) < MaxStores
  /\ stores' = Append(stores, EmptyStore)
  /\ scheme' = [stage |-> "builder", store |-> Len(stores) + 1]
  /\ Answers(t, "ok") /\ NoPanic
  /\ UNCHANGED <<filter, context>>

IsBuilder == scheme # Absent /\ scheme.stage = "builder"
IsScheme  == scheme # Absent /\ scheme.stage = "scheme"

\* wirefilter_add_type_field_to_scheme: is_ok of SchemeBuilder::add_field, which
\* writes no message.
AddTypeField(t, f, ty) ==
  LET free == stores[scheme.store].fields[f] = Absent IN
  /\ Idle /\ IsBuilder
  /\ stores' = IF free THEN [stores EXCEPT ![scheme.store].fields[f] = ty] ELSE stores
  /\ Answers(t, IF free THEN "ok" ELSE "false") /\ NoPanic
  /\ UNCHANGED <<scheme, filter, context>>

\* wirefilter_add_always_list_to_scheme, wirefilter_add_never_list_to_scheme.
AddList(t, ty, list) ==
  LET free == stores[scheme.store].lists[ty] = Absent IN
  /\ Idle /\ IsBuilder
  /\ stores' = IF free THEN [stores EXCEPT ![scheme.store].lists[ty] = list] ELSE stores
  /\ Answers(t, IF free THEN "ok" ELSE "false") /\ NoPanic
  /\ UNCHANGED <<scheme, filter, context>>

\* wirefilter_build_scheme takes the builder.
BuildScheme(t) ==
  /\ Idle /\ IsBuilder
  /\ scheme' = [scheme EXCEPT !.stage = "scheme"]
  /\ Answers(t, "ok") /\ NoPanic
  /\ UNCHANGED <<stores, filter, context>>

\* The wirefilter_free_* functions; a store lives on in what refers to it.
FreeSchemeBuilder(t) ==
  /\ Idle /\ IsBuilder
  /\ scheme' = Absent
  /\ Answers(t, "ok") /\ NoPanic
  /\ UNCHANGED <<stores, filter, context>>
FreeScheme(t) ==
  /\ Idle /\ IsScheme
  /\ scheme' = Absent
  /\ Answers(t, "ok") /\ NoPanic
  /\ UNCHANGED <<stores, filter, context>>
FreeExecutionContext(t) ==
  /\ Idle /\ context # Absent
  /\ context' = Absent
  /\ Answers(t, "ok") /\ NoPanic
  /\ UNCHANGED <<stores, scheme, filter>>

-----------------------------------------------------------------------------
TypeIn(s, f) == stores[s].fields[f]

\* Whether Scheme::parse accepts a text: its fields exist, a test compares with
\* a literal of its field's type, or with a list declared for the type.
Parses(s, text) ==
  \A i \in DOMAIN text.tests :
    LET test == text.tests[i] IN
    /\ TypeIn(s, test.field) # Absent
    /\ CASE test.op = "eq" -> test.value.ty = TypeIn(s, test.field)
         [] test.op = "in" -> /\ TypeIn(s, test.field) \in ListTypes
                              /\ stores[s].lists[TypeIn(s, test.field)] # Absent

\* wirefilter_parse_filter.
ParseFilter(t, text) ==
  /\ Idle /\ IsScheme /\ filter = Absent
  /\ IF Parses(scheme.store, text)
     THEN /\ filter' = [stage |-> "ast", store |-> scheme.store, text |-> text]
          /\ Answers(t, "ok")
     ELSE Fails(t, "Error", ParseErr) /\ UNCHANGED filter
  /\ NoPanic
  /\ UNCHANGED <<stores, scheme, context>>

IsAst    == filter # Absent /\ filter.stage = "ast"
IsFilter == filter # Absent /\ filter.stage = "filter"

\* wirefilter_free_parsed_filter, wirefilter_free_compiled_filter.
FreeParsedFilter(t) ==
  /\ Idle /\ IsAst
  /\ filter' = Absent
  /\ Answers(t, "ok") /\ NoPanic
  /\ UNCHANGED <<stores, scheme, context>>
FreeCompiledFilter(t) ==
  /\ Idle /\ IsFilter
  /\ filter' = Absent
  /\ Answers(t, "ok") /\ NoPanic
  /\ UNCHANGED <<stores, scheme, context>>

\* wirefilter_compile_filter takes the AST; no text of this model makes it panic.
CompileFilter(t) ==
  /\ Idle /\ IsAst
  /\ filter' = [filter EXCEPT !.stage = "filter"]
  /\ Answers(t, "ok") /\ NoPanic
  /\ UNCHANGED <<stores, scheme, context>>

\* UsesVisitor: the answer of wirefilter_filter_uses.
Uses(text, f) == \E i \in DOMAIN text.tests : text.tests[i].field = f

\* wirefilter_filter_uses, wirefilter_filter_uses_list: an answer, or the error
\* for a name that the scheme does not have.
FilterUses(t, f) ==
  /\ Idle /\ IsAst
  /\ IF TypeIn(filter.store, f) = Absent THEN Fails(t, "Error", Argument)
     ELSE Answers(t, "ok")
  /\ NoPanic /\ UNCHANGED handles

\* A name that is not UTF-8 (to_str!), in any call that takes one.
BadName(t) ==
  /\ Idle
  /\ \/ IsAst /\ Fails(t, "Error", Argument)
     \/ IsScheme /\ Fails(t, "Error", Argument)
     \/ IsBuilder /\ Fails(t, "false", Argument)
     \/ context # Absent /\ Fails(t, "false", Argument)
  /\ NoPanic /\ UNCHANGED handles

\* wirefilter_get_filter_hash.
GetFilterHash(t) ==
  /\ Idle /\ IsAst
  /\ Answers(t, "ok") /\ NoPanic
  /\ UNCHANGED handles

\* The wirefilter_serialize_* functions, of handles whose JSON cannot fail.
SerializeToJson(t) ==
  /\ Idle /\ (IsAst \/ IsScheme \/ context # Absent)
  /\ Answers(t, "ok") /\ NoPanic
  /\ UNCHANGED handles

-----------------------------------------------------------------------------
\* wirefilter_create_execution_context.
CreateExecutionContext(t) ==
  /\ Idle /\ IsScheme /\ context = Absent
  /\ context' = [store |-> scheme.store, values |-> [f \in Fields |-> Absent]]
  /\ Answers(t, "ok") /\ NoPanic
  /\ UNCHANGED <<stores, scheme, filter>>

Accepts(f, v) == TypeIn(context.store, f) = v.ty
SetValue(values, f, v) == [values EXCEPT ![f] = v]

\* wirefilter_add_int_value_..., and those of bytes, addresses and booleans: no
\* message when false.
AddValue(t, f, v) ==
  /\ Idle /\ context # Absent
  /\ context' = IF Accepts(f, v)
                THEN [context EXCEPT !.values = SetValue(@, f, v)] ELSE context
  /\ Answers(t, IF Accepts(f, v) THEN "ok" ELSE "false") /\ NoPanic
  /\ UNCHANGED <<stores, scheme, filter>>

\* wirefilter_add_json_value_to_execution_context; a value that does not read as
\* one of the field's type is a JSON error.
AddJsonValue(t, f, v) ==
  /\ Idle /\ context # Absent
  /\ IF Accepts(f, v)
     THEN /\ context' = [context EXCEPT !.values = SetValue(@, f, v)]
          /\ Answers(t, "ok")
     ELSE Fails(t, "false", Argument) /\ UNCHANGED context
  /\ NoPanic
  /\ UNCHANGED <<stores, scheme, filter>>

\* The entries of a document up to the first that is refused.
Good(doc) ==
  LET bad == {i \in DOMAIN doc : ~Accepts(doc[i][1], doc[i][2])} IN
  IF bad = {} THEN Len(doc) ELSE (CHOOSE i \in bad : \A j \in bad : i <= j) - 1

\* Mutant of ReadEntries: an entry that is refused is skipped.
ReadGoodEntries(doc) ==
  [f \in Fields |->
     LET at == {i \in DOMAIN doc : doc[i][1] = f /\ Accepts(f, doc[i][2])} IN
     IF at = {} THEN context.values[f]
     ELSE doc[CHOOSE i \in at : \A j \in at : i >= j][2]]

\* visit_map writes entry by entry; a later one replaces an earlier one.
ReadEntries(doc) ==
  [f \in Fields |->
     LET at == {i \in 1..Good(doc) : doc[i][1] = f} IN
     IF at = {} THEN context.values[f]
     ELSE doc[CHOOSE i \in at : \A j \in at : i >= j][2]]

\* wirefilter_deserialize_json_to_execution_context.
DeserializeContext(t, doc) ==
  /\ Idle /\ context # Absent
  /\ context' = [context EXCEPT !.values = ReadEntries(doc)]
  /\ IF Good(doc) = Len(doc) THEN Answers(t, "ok") ELSE Fails(t, "false", Argument)
  /\ NoPanic
  /\ UNCHANGED <<stores, scheme, filter>>

-----------------------------------------------------------------------------
Answer(b) == <<"answer", b>>

\* match_value of AlwaysListMatcher and of NeverListMatcher, which are the same.
AlwaysListMatch == FALSE
NeverListMatch  == FALSE
MatchValue(list) == IF list = "always" THEN AlwaysListMatch ELSE NeverListMatch

\* What a test comes to: an answer, or the panic of a mandatory field
\* without value.
TestOn(test) ==
  LET v == context.values[test.field] IN
  CASE v = Absent -> MissingField(test.field)
    [] v # Absent /\ test.op = "eq" -> Answer(v = test.value)
    [] v # Absent /\ test.op = "in" ->
         Answer(MatchValue(stores[context.store].lists[v.ty]))

\* The tests from left to right, up to the one that decides.
Decisive(text) ==
  LET goOn == Answer(text.op = "and")
      at   == {i \in DOMAIN text.tests : TestOn(text.tests[i]) # goOn}
  IN  IF at = {} THEN goOn
      ELSE TestOn(text.tests[CHOOSE i \in at : \A j \in at : i <= j])

\* Mutant of SameStore: stores are compared by what they hold.
EqualStore == stores[filter.store] = stores[context.store]

\* Filter::execute compares the stores by address.
SameStore == filter.store = context.store

\* What filter.execute gives: an error, an answer, or a panic's message.
Outcome == IF SameStore THEN Decisive(filter.text) ELSE Mismatch

\* wirefilter_match.
Match(t) ==
  /\ Idle /\ IsFilter /\ context # Absent
  /\ CASE Outcome = Mismatch             -> Fails(t, "Error", Mismatch) /\ NoPanic
       [] Outcome \in {Answer(TRUE), Answer(FALSE)}  -> Answers(t, "ok") /\ NoPanic
       [] OTHER                          -> Panics(t, Outcome)
  /\ UNCHANGED handles

-----------------------------------------------------------------------------
\* wirefilter_clear_last_error.
ClearLastError(t) ==
  /\ Idle
  /\ last_error' = [last_error EXCEPT ![t] = Null]
  /\ returned' = [thread |-> t, result |-> "ok", reason |-> Null]
  /\ NoPanic /\ UNCHANGED handles

\* wirefilter_enable_panic_catcher, wirefilter_disable_panic_catcher.
SetEnabled(t, value) ==
  /\ Idle
  /\ enabled' = [enabled EXCEPT ![t] = value]
  /\ Answers(t, "ok")
  /\ UNCHANGED <<handles, backtrace, hooked, aborted>>

\* wirefilter_set_panic_catcher_hook.
SetPanicCatcherHook(t) ==
  /\ Idle
  /\ hooked' = TRUE
  /\ Answers(t, "ok")
  /\ UNCHANGED <<handles, enabled, backtrace, aborted>>

\* wirefilter_set_panic_catcher_fallback_mode: both modes end in an abort here,
\* because every other thread of the process is C.
SetFallbackMode(t, valid) ==
  /\ Idle
  /\ IF valid THEN Answers(t, "ok") ELSE Fails(t, "false", Argument)
  /\ NoPanic /\ UNCHANGED handles

FfiNext ==
  \/ \E t \in Threads :
       ClearLastError(t) \/ \E text \in Texts : ParseFilter(t, text)
  \/ \E t \in Callers :
       \/ CreateSchemeBuilder(t) \/ BuildScheme(t)
       \/ FreeSchemeBuilder(t) \/ FreeScheme(t)
       \/ \E d \in Declarable : AddTypeField(t, d[1], d[2])
       \/ \E ty \in ListTypes, list \in {"always", "never"} : AddList(t, ty, list)
       \/ CompileFilter(t) \/ FreeParsedFilter(t) \/ FreeCompiledFilter(t)
       \/ \E f \in Fields : FilterUses(t, f)
       \/ BadName(t) \/ GetFilterHash(t) \/ SerializeToJson(t)
       \/ CreateExecutionContext(t) \/ FreeExecutionContext(t)
       \/ \E f \in Fields, v \in Values : AddValue(t, f, v) \/ AddJsonValue(t, f, v)
       \/ \E doc \in Documents : DeserializeContext(t, doc)
       \/ Match(t)
       \/ \E b \in BOOLEAN : SetEnabled(t, b) \/ SetFallbackMode(t, b)
       \/ SetPanicCatcherHook(t)

FfiSpec == FfiInit /\ [][FfiNext]_ffiVars

-----------------------------------------------------------------------------
\* A call that answers Error or Panic has left its own message, and not an older
\* one, where wirefilter_get_last_error finds it in that thread; once the hook is
\* installed that is also so for a panic.  No call touches the message of another
\* thread (lib.rs Status).
FailuresLeaveTheirMessage ==
  [][/\ \A t \in Threads : last_error'[t] # last_error[t] => returned'.thread = t
     /\ returned' # returned /\ returned'.result \in {"Error", "Panic"} =>
          last_error'[returned'.thread] \in
            {returned'.reason} \cup (IF hooked THEN {} ELSE {Unknown})]_ffiVars

\* What a text means.  Of the lists it is what their doc comments say
\* (list_matcher.rs:80, 111): one always matches, the other never does.
ListOf(test) == stores[context.store].lists[TypeIn(context.store, test.field)]
DocumentedMatch(list) == list = "always"
Holds(test) ==
  IF test.op = "eq" THEN context.values[test.field] = test.value
  ELSE DocumentedMatch(ListOf(test))
Meaning(text) ==
  IF text.op = "and" THEN \A i \in DOMAIN text.tests : Holds(text.tests[i])
  ELSE \E i \in DOMAIN text.tests : Holds(text.tests[i])

\* The context is of the filter's store and has all that the filter uses.
Supplied ==
  /\ IsFilter /\ context # Absent /\ filter.store = context.store
  /\ \A f \in Fields : Uses(filter.text, f) => context.values[f] # Absent
TestsAlwaysList(text) ==
  \E i \in DOMAIN text.tests : text.tests[i].op = "in" /\ ListOf(text.tests[i]) = "always"

\* The contract of wirefilter_filter_uses: a program that has set each field the
\* AST was said to use gets an answer from wirefilter_match, and neither a panic
\* nor an error, though the scheme was freed and its handle reused; it is the
\* right one, unless a test is of an always list, which AlwaysListsMatch is
\* about.  A context of another scheme is refused though it declares the same.
UsedFieldsSuffice ==
  /\ IsFilter /\ context # Absent /\ filter.store # context.store => Outcome = Mismatch
  /\ Supplied => Outcome \in {Answer(TRUE), Answer(FALSE)}
  /\ Supplied /\ ~TestsAlwaysList(filter.text) => Outcome = Answer(Meaning(filter.text))

\* "List that always matches." (list_matcher.rs:80): a filter that tests whether a
\* value is in such a list is answered as if the test held.  The code's matcher
\* answers false.
AlwaysListsMatch ==
  Supplied /\ TestsAlwaysList(filter.text) => Outcome = Answer(Meaning(filter.text))

\* A call on a context that answers false has written at most the entries of its
\* document in front of the one that was refused; in particular the values keep
\* the types of their fields, and a call that sets one field changes nothing.
RefusedDocumentsArePrefixes ==
  [][context # Absent /\ context' # context /\ context' # Absent
       /\ returned'.result = "false" =>
         \E doc \in Documents : \E n \in 0..Len(doc) - 1 :
           /\ \A i \in 1..n : Accepts(doc[i][1], doc[i][2])
           /\ ~Accepts(doc[n + 1][1], doc[n + 1][2])
           /\ \A f \in Fields :
                IF \E i \in 1..n : doc[i][1] = f
                THEN \E i \in 1..n : doc[i] = <<f, context'.values[f]>>
                ELSE context'.values[f] = context.values[f]]_ffiVars
=============================================================================
