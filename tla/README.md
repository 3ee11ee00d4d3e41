# Verification of wirefilter

This directory holds TLA+ models of wirefilter, the TLC runs that check them on
small instances, and theorems that TLAPS proves for every value of the constants.
wirefilter compiles textual filters over a *scheme* (typed fields, functions and
lists) and runs them against *execution contexts*.  Several schemes may share one
`SchemeStore`: the store grows while schemes, contexts and compiled filters that
were made earlier keep indices into it.  That sharing is where most of what can go
wrong is, and it is modelled first.

Paths below are relative to the repository; `scheme.rs` alone means
`engine/src/scheme.rs`, and so on.

## Inventory

| Part | State | Operations | Talks to |
| --- | --- | --- | --- |
| Store and builders, `scheme.rs` | per store: vectors of fields, functions and lists, a map into each, `next_scheme_id`, the `nil !=` flag, all behind one `RwLock`; per builder: `items`, `list_types`, `scheme_id` | `new_with_scheme_store`, `add_field`, `add_optional_field`, `add_function`, `add_list`, `set_nil_not_equal_behavior`, `build`, the readers of `Scheme` | builders share the store; fields, functions and lists hold an `Arc` to it and an index |
| The store's lock, `scheme.rs`, `ast/function_expr.rs` | parking_lot `RwLock`, mapped read guards | every accessor; the parser, the serializer and `==` nest them | all users of a store, from any thread |
| Execution context, `execution_context.rs` | `scheme_store`, `scheme`, a slot per field, a matcher per list | `new_with`, four setters, matcher access, `clear`, `clone_with`, `take_with`, `borrow_with` and its guard, (de)serialization | sized from the store at creation; read by filters |
| Filter, `filter.rs`, `ast/*` | AST with a scheme; compiled closures with a store | parse, `compile`, `execute` | reads store at parse and compile time, context at run time |
| Panic catcher, `panic.rs` | thread-local ENABLED, LEVEL, FALLBACK_MODE, BACKTRACE; process-wide hook and HOOK_SET | `catch_panic`, enable, disable, fallback mode, `set_hook`, the hook | the C interface wraps calls in it |
| Logical expressions, `ast/logical_expr.rs` | none (AST) | precedence parsing with flattened chains, compilation of combinations | parser, filter |
| Index and map-each, `ast/index_expr.rs` | iterator stack of `MapEachIterator` | indexing, `[*]` | filter, functions |
| Functions, `ast/function_expr.rs`, `functions/` | definition context | argument checks, map-each over the first argument, `any`, `all`, `concat` | parser, filter |
| Values and types, `types.rs`, `lhs_types/`, `rhs_types/`, `range_set.rs`, `lex.rs` | packed nested types, typed arrays and maps, merged ranges | conversions, lexing, membership | all of the above |
| C interface, `ffi/src` | handles, thread-local last error and panic state | one exported function per operation | engine, panic catcher |
| Lists, `list_matcher.rs`; visitors, `ast/visitor.rs`, `filter/uses` | a matcher's contents | `match_value`, `clear`; `uses`, `uses_list` | contexts, filters, the C interface |
| Compiler trait, wasm, fuzz, benches, examples | none of interest | | |

What is hard here:

* **Concurrency.** A registration takes the store's lock twice, to look and to
  push; other builders run in between.  `new_with` reads two counts of a store
  that grows.  A read guard is held while code below asks for the same lock.
  `panic_catcher_set_hook` is four steps.
* **Stale state.** Slots are counted once; filters keep indices, a type and the
  `nil !=` flag from parse and compile time; the backtrace outlives its panic.
* **Partial failure.** A rejected registration among accepted ones; a
  deserialization that fails in the middle; panics that unwind through frames
  that were entered with the catcher disabled.
* **Boundaries.** Ranges that touch or nest, nested types that fill their word,
  empty arrays under `[*]`, literals at the ends of their range.
* **Many shapes, one meaning.** An index expression is compiled in three ways, a
  logical one in two, a call in two; chains are gathered while they are parsed,
  a final `[*]` is dropped.  All have to agree with what the text says.
* **Callers in C.** Handles, one message per thread, panics that must not leave
  `extern "C"` functions.

What makes each part correct is stated with its module below.  `PROJECT.json`
lists the hazards line by line with the properties that watch them.

## Modules

### SchemeStore: registrations, two locks at a time

`store` is `SchemeStoreInner`; `items`, `builder_lists`, `scheme_id` are the
builder's, and `items` outlives `Build` as the scheme's.  One action is one
critical section of the lock, with the code of the same call up to the next one:

| Action | Code |
| --- | --- |
| `New` | `new_with_scheme_store`, `allocate_scheme_id` |
| `AddField`, `AddFieldInternal` | `add_field_full` and `get_or_add_field` up to the end of the read lock; `add_field_internal` and the insertion into `items` |
| `AddFunction`, `AddFunctionInternal` | `add_function`, the two halves of `get_or_add_function` |
| `AddList`, `AddListInternal` | `add_list`, the two halves of `get_or_add_list` |
| `SetNilNotEqualBehavior`, `Build`, `Drop` | the methods of these names; an unbuilt builder dropped |

`call[b]` is the registration between its locks.  A builder is `&mut self`, so it
has at most one.  `returned` and `asked` are history variables for the properties.

* `StoreIndexed`: each map is the inverse of its vector.
* `ItemsResolve`: each item names the store's one definition of its name, and a
  field has the type its owner asked for even if another builder defined it.
* `SchemeIdsIdentify`: ids tell builders apart, and the id in a field is of a
  builder that owns it.
* `AnswersAreStable`: definitions never move, owned identifiers never change.
* `FailedCallsChangeNothing`: no half-done registration after an error.

`SchemeCatalogue` is what a shared store promises with the locks forgotten: one
catalogue, each key written once by whoever comes first, adopted by the others
if compatible.  `SchemeStoreRefines` gives the mapping (a key is defined when its
map has it; its value is what the vector holds), and `ImplementsCatalogue` says
that the concurrent store implements it; read-locked halves and rejected calls
stutter.

### StoreLock: who waits for whom

The same lock from the side of its users.  A thread has one of five tasks:
registering, plain lookups, parsing a function call (whose definition guard is
held while arguments, nested calls among them, are parsed), serializing a scheme
(the field's name is held while its type is read) and comparing two stores.  The
lock's rule is parking_lot's: a writer sets WRITER_BIT, then waits for the
readers; no reader enters after that, not even one that has a guard.

* `DeadlockIsNestedRead`: a deadlock needs a thread that waits for a read lock
  while holding a guard, and a registration that holds nothing (`StuckIsNestedRead`,
  proved below); registrations and lookups by themselves never block each other, and
  nothing but a lock stops a task.
* `GuardsPinTheStore`: nothing is pushed while any thread has a guard on the store.
* `SettledTasksEnd`: if nobody registers while others nest, every task ends.

### ExecutionContext: slots of a store that grows

The name of a field is its index (that is what `StoreIndexed` says of the store),
so a store is two growing vectors here, and a scheme is its store and the set of
indices it owns.  Every method on slots and matchers is an action, and every way
it ends is a `result`, index panics included.  `New` and `NewMatchers` are the
two store reads of `new_with`; a guard of `borrow_with` is a context whose `old`
is the lender; deserialization is a sequence of entries that stops at an error.
User data is left out.

* `OwnFieldsFit`: a context in use has a slot for each field of its scheme,
  after any growth of the store, clone, move or loan.
* `ValuesAreTyped`: a slot holds a value of its field's type.
* `LentToOneGuard`: a lent context is empty and has exactly one guard, with its
  store and scheme.
* `WritesAreOwned`: deserialization writes only own fields; lazy setters never
  replace a value.

### FilterExecution: from text to answer, while the rest moves on

Extends ExecutionContext with one comparison (`==`, `!=` with a literal, `in`
with a list) parsed by some scheme of a store, compiled when the `nil !=` flag
has some value, and run later.  `Execute` is an operator evaluated in every state.

* `OwnFieldsExecute`: on a field of the context's own scheme a filter answers, or
  panics for a mandatory field without value or a list younger than the context;
  it never miscasts.
* `AnswersNeedAWrite`: an answer changes only with the context's slots.

### PanicCatcher: LEVEL, the hook and unwinding

Per thread a stack of `catch_panic` frames, catching or plain as ENABLED was at
entry; a panic runs the hook and then unwinds frame by frame.  The hook's
installation is its four steps.

* `LevelCountsFrames`: LEVEL is the number of catching frames, so the checked
  subtraction never aborts.
* `AbortIsUncaught`: the process aborts only for a panic nobody would catch, in a
  thread that asked for it.
* `MessageIsOfThisPanic`: the message of an Err is never an earlier panic's.
* `RegisteredHookIsInstalled`: with one installer, HOOK_SET implies the hook.

### Values, Documents, Ast, Evaluate, Expressions: what a filter says and what it answers

`Values` has types (the sequence of their layers, ended by the primitive), values
with element access and iteration; what a `[*]` path reaches is `Leaves`, level by
level.  `Documents` has their JSON both ways, from the scalars outwards.  `Ast` is what the
parser accepts: index expressions against the type they go through, calls with
kinds, types and counts of arguments, comparisons by operator and type, logical
expressions of comparable sides; and `uses` and `uses_list` of the visitors.
`Evaluate` has one operator per closure the default compiler builds: the three
ways of an index expression (`OneWith`, `VecWith`, `IterWith`), calls with and
without a mapped first argument, combinations of booleans and of vectors, `any`,
`all` and `concat` in full.  Every unwrap, assertion, `debug_assert!` and
`unreachable!` that can fail gives `Panicked`.  User functions and pattern matching
are constant operators.

`Expressions` composes them: a text is parsed, then fields are set and lists
change between executions.  Its reference is a second, direct definition of the
meaning of a text (`Meaning`, `Sense`), in which a chain is a nesting of binary
operators, an index expression is the list of the elements it reaches, and no
step is shared between the paths above.

* `FilterAnswersMeaning`, `ValueAnswersMeaning`: the compiled form answers what
  the text means.
* `OnlyUsedFieldsMatter`: a field that `uses` does not report cannot change an
  answer.
* `OnlyUsedListsMatter`: while `uses_list` reports no field, a list can change an
  answer only through a comparison in which no field occurs, such as
  `lower("a") in $l`.  The texts have such comparisons, alone and beside others.
* `AnswersNeverPanic`: fails for one text, see below.

### LogicalParser: precedence, token by token

The recursion of `lex_more_with_precedence` with its lookahead, on texts that
grow by a token.  `ParserFollowsGrammar` compares it with a definition that splits
a text at its last, loosest operator, for accepted and refused texts.

### Literals, Arguments: lexers on texts that grow by a character

One operator per lexer: integers with their radix and range, quoted and raw
strings, byte strings, list names, ranges of integers, operator tables, indexes
and paths.  `Arguments` adds the look-ahead of `FunctionCallArgExpr::lex_with`.

* `IntsAreTheirDigits`, `StringsEndAtFirstClose`: value and end of a literal by a
  definition that looks at the whole text at once.
* `LiteralsAreMaximal`: no literal stops before a character that continues it, and
  no operator is read as the start of a longer one.
* `IntArgumentsAreRead`: fails, see below.

### Containers: typed wrappers over untyped containers

`TypedArray` and `TypedMap` reinterpret containers of values as containers of
containers.  The actions are push, truncate, insert, get_or_insert with growth
of the inner container, and deserialization in place.  The constants are types,
scalars of scalar types, keys that are byte strings, and documents together with those
inside them, in which every text is one that JSON can hold (`ContainersAssumption`).

* `ContainersWellTyped`: elements have the static type at every depth.
* `RoundTrip`: what a container serializes to reads back as itself, text or not.
* `RefusedDocumentIsBounded`: a refused document takes no key from a map, and
  leaves an array as it was or empty.

### MapEachIterator: a stack resumed in the middle

One action per branch of `next`.  `Parts` is a set of values that has
the elements of its values (`PartsAssumption`); a walk starts on a path that fits.
`WalkReturnsLeaves`: what it has returned is the
beginning of the depth-first list of leaves, and all of it at the end.  `WalkEnds`:
a caller that keeps asking comes to the end.

### RangeSet: sort, merge in place, search by halves

The merge is one comparison a step, the search one probe a step, of any element
of the remaining part.  `RangesCoverLiteral`: no point is gained or lost by
sorting and merging.  `SearchAnswers`: the search finds exactly the members.

### CompoundType: nested types in one word

`Push` and `Pop` on the bits, with the width as a constant.  `Represents`: the word
stands for the nested type that was built.  That no bit is left above the length, so
that equal types are equal words, is proved below.

### CType: the same types as C describes them

A C program wraps a `CType` in one layer after another and declares fields with it.
The module has the packing of `ffi/src/lib.rs` (no limit, unlike CompoundType's)
and the conversions in both directions.  `TypesCrossC`: a type of at most `Width`
layers is declared as it was wrapped, and described to C the same way; of one with
a layer more only the innermost is lost.

### CString, FfiSession: the C interface

`CString` is the buffer of the last error, written in pieces: `CReadsAllWritten`
says that C reads all of it, zeros replaced.  In `FfiSession` a C program creates,
declares, builds, parses, compiles, sets, deserializes, matches and frees, from
several threads, with the panic catcher enabled or not.  Each exported function is
an action that says how it ends and what `wirefilter_get_last_error` then finds.
Handles follow the contract of the header: no call on a freed handle, and
none on one that another thread changes.

* `UsedFieldsSuffice`: a filter whose used fields are set answers, even after its
  scheme was freed, and rightly unless it tests an always list; a context of an
  equal-looking scheme is refused.  Of a list, right is what its doc comment says.
* `AlwaysListsMatch`: the right answer for the others; fails, see below.
* `FailuresLeaveTheirMessage`: Error and Panic leave their own message, in their
  own thread.
* `RefusedDocumentsArePrefixes`: a refused document has written exactly the
  entries in front of the bad one.

### Pieces

LogicalParser, Literals with Arguments, Containers, MapEachIterator, CString,
CompoundType, CType, RangeSet, PanicCatcher and Expressions share no state with each other.  `Pieces`
checks them in one run: the initial state picks one, which takes its steps while
the others rest.  The properties keep their names; the guarded ones only speak of their own piece.

## Runs

Each run's question and properties are in `PROJECT.json`; here the bounds and why
they suffice.  All use two TLC workers.

| Run | Bounds | Why enough |
| --- | --- | --- |
| `store` | 2 builders, 2 names, 2 types, 1 list type | a race needs two builders and one name; the second name moves indices apart; the second type gives mismatches |
| `store_refines` | 2 builders, 1 name, 2 types, one of them with lists, 2 definitions | the mapping is per key; two definitions tell adoption from redefinition |
| `lock` | 3 threads of any task, 2 stores, 2 rounds, nesting 2 | reader, waiting writer, and a third to compare in the opposite order |
| `context` | 2 contexts, stores of 2 fields and of 1 field and 1 list, 2 types | one context to clone, move or lend into another; the second store is for foreign references; 2 fields separate "as many as owned" from "as many as exist" |
| `filter` | 1 context, 1 filter, the same stores, 2 data values | a filter and a context meet pairwise |
| `pieces` | see below | about a million states |
| `ffi` | 2 fields of 2 types, 1 list type, 2 texts, 2 documents, 2 stores, a thread that makes every call and one that parses and clears | the second store tells identity from looks; the second thread tells messages apart; the second document has its bad entry in the middle; about a million states |

The pieces of `pieces`:

| Piece | Bounds | Why enough |
| --- | --- | --- |
| parser | texts of 6 tokens, over `and`, `or`, `xor`, `not`, parentheses and a boolean, an array of booleans and a map | two operators in any order with a `not`, or one in parentheses beside a `not`; texts that no token could complete are not made longer |
| lexer | integers of 5 characters with `MaxInt` 127, strings of 6 with 2 hashes at most, byte strings of 8, list names of 5, ranges of 6, arguments of 5, operators of 3, paths of 6 | three byte pairs; a quote with one hash too many or too few; a range with signs on both sides; all three characters the argument's look-ahead sees and two after them |
| boxes | 7 types of depth 1 and 2, 2 keys (one of them no text), 2 elements, 17 documents | growth of an existing and of a missing inner container; documents with a bad entry first, last, nested |
| walk | grids of up to 3 rows, maps, cubes; paths of up to 3 indexes over `[*]`, positions and keys | empty containers first, in the middle and last on every level |
| cstring | 4 bytes, fragments with zeros first, last, alone and none at all | a message in several pieces |
| type | width 5 instead of 32 | the limit is reached and passed |
| ctype | the same width, types of 6 layers | one layer more than the word has bits, as many as a `Type` can have |
| range | 5 points, 3 ranges | three ranges that touch, nest, repeat or leave gaps, and points on every side of them |
| expression | about 80 filters and 18 value expressions over ten fields of every shape of type, each field they use set to each of up to four values, nested arrays with empty rows first, last and between among them (`MCExpressions`) | one text for each way of compiling, of combining and of refusing; about 2,000 states, because a text only sets what it uses |
| panic | 2 threads, 1 installer of the hook, depth 2, 2 panics each | a nested frame and an earlier panic |

In the piece `expression` only fields that an expression uses are set (`OnlyUsedFieldsMatter`
says that the others do not matter), and lists only while the text
has a comparison with one.

Symmetry is used for model values that the modules only compare, in runs without
liveness.  Deadlock checking is off in the passing runs: builders,
contexts and threads may simply be finished.  For StoreLock `DeadlockIsNestedRead`
says what deadlock is allowed.

Bounds in guards: `MaxFields` and `MaxLists` (ExecutionContext), `Rounds` and
`MaxDepth` (StoreLock), `MaxDepth` and `MaxPanics` (PanicCatcher), `MaxStores`
(FfiSession), `MaxTokens`, `MaxChars`, `MaxElements`, `MaxBytes`, `MaxRanges`,
`MaxLayers` (CType).
SchemeStore needs none: a builder is used once and a name is added at most once.
`Width`, `MaxInt`, `MaxHashes` and `MaxIndex` are limits of the code, smaller here.

Fairness: StoreLock's `Spec` has weak fairness of each thread's step.  The threads
are scheduled by the OS and parking_lot unparks a waiter that can go on; no
fairness between competing requests is assumed.  `Pieces` has weak fairness of the
iterator's step: the closures that use a `MapEachIterator` loop over it to its end.

### Where code and comments differ

Five runs end in a counterexample.

* `lock_parse`: `lex_with_function` holds a guard during argument lookups; with a
  registration waiting in between, parse and registration block for ever.
* `panic_race`: two threads in `panic_catcher_set_hook`; a caught panic's message
  is `<unknown>`, although one of them has returned.
* `expressions_empty`: `concat(any(aab[*]), any(aab[*]))` with an empty `aab`.  A
  mapped call over an empty array returns that array, with the element type of the
  argument, and the `debug_assert!` on the type of the next call fails; in a
  release build `concat` unwraps an error when one array is empty and the
  other is not.
* `ffi_always`: a value is never in a list declared by
  `wirefilter_add_always_list_to_scheme`: the matcher of `AlwaysList` ("List that
  always matches.", `list_matcher.rs:80`) answers false.  `UsedFieldsSuffice` leaves
  such tests out.
* `argument_int`: the look-ahead takes `0x1` for a name, so a call cannot be given
  a hexadecimal argument.

Not shown by a run, but met while reading.

Shared stores: a builder gets `FieldRedefinitionError` for a field it never defined
when another one pushes it between its locks (`scheme.rs:803`), and `Ok` a moment
earlier or later; `add_optional_field` and `add_function` are `Ok` though the name
has another definition (785, 838; only field types are compared); setters accept
fields of other schemes on the same store (`execution_context.rs:97`);
`Filter::execute` panics on an index for a field younger than the context (217);
`Scheme::list_count` counts the lists of the whole store; serializing a context
panics when the store has a younger list; a serialized scheme has no
functions, lists or `nil !=` flag.

Language: a field whose name starts with `not` cannot be used; `{1-2}` is 1 and -2; `10:11` as an argument
is read as the integer 10 and then refused; a field named `10` hides the literal;
`010` is 8 and `-010` is -10; of a missing key `k`, `m["k"][*]` is missing and
`m["k"][*][0]` an empty array; of
`lower("a") in $l` `uses_list` ("Recursively checks whether a `FilterAst` uses a
list", `ast/mod.rs:143`) answers no for every field, and the list decides: a caller
that loads lists by it would leave this one empty; a bare `Map(Bool)` field is a comparison of
type `Map(Bool)`, where the comment says "Bool or Array(Bool)" (`field_expr.rs:292`),
so that a function declared on `Map(Bool)` takes `not m` and is given an
`Array(Bool)`.

C interface: calls that answer a boolean mostly write no message;
`UsingResult::PANIC` has status `Error` although `Status` has `Panic`; `CType`
shifts the bit of its 33rd layer out of the word and reads it back as an array, so
that a `Map` wrapped in 32 arrays is declared as 33 arrays (a `Type` has room for one
layer more than the word, so nothing panics); a type of 34 layers or more aborts the
call that declares it.

## Proofs

Type invariants are proved as parts of the inductive invariants and are no
property of a run.

`SchemeStoreProofs` proves, for any builders, names, types and definitions, that
SchemeStore satisfies all properties of run `store`.  The only assumption is
`ListTypes \subseteq Types`.

The inductive invariant `IInv` is TypeOK, StoreIndexed, ItemsResolve,
SchemeIdsIdentify and two facts that make it inductive: `PendingCalls` (a call
between its locks belongs to an open builder that does not own the name yet:
otherwise the write-locked half would overwrite an item) and `IdsBelow` (ids
handed out are below `next_scheme_id`: otherwise the next one could be a
repetition).  The argument:

1. `TypeStep`: each action keeps the types (`CallTyping` recovers the record of a
   pending call from its `op`).
2. `OnlyPushes` reduces every action to: the vectors and maps are unchanged, or
   one of them gets one push with its map entry, of a key that was free.
   `FieldPush`, `FunctionPush` and `ListPush` show that such a push keeps the map
   inverse to the vector, whence `StoreIndexedStep`, and `StoreGrows` shows that
   old entries stay.
3. `OnlyInsertions` does the same for `items`: at most one vacant entry of one
   builder is filled, with an index that resolves; `ItemsResolveStep` follows.
4. `SchemeIdsIdentifyStep` and `IdsBelowStep` for ids, `PendingCallsStep` for calls.
5. `InvInit`, `InvStep` and PTL give `InvariantHolds`; the invariants are its
   conjuncts, and the two action properties follow from it step by step.

Its second part proves `ImplementsCatalogue`: the store with its two locks
implements SchemeCatalogue.  A key of the catalogue is a field's or a function's name,
or a type of list (`KeyForms`).  Its entry is read off the vector where its map points,
its adopters off the builders' `items` and `list_types`; `EntryOf`, `AdoptionOf` and
their primed versions say so key by key.  The argument uses `IInv`
and the facts about pushes:

1. `EntriesStay`: a push changes the entry of its own key only, which was not
   defined, because the other indices still point below the end of the vector.
2. `ItemTaken` and `ListTaken`: a new item is a step of the catalogue, a definition
   together with its adoption when there was a push, an adoption of a compatible entry
   otherwise.
3. One lemma for each action; the read-locked halves that go on, every error (also that
   of a write-locked half that finds the key taken meanwhile) and calls on the flag
   stutter (`NoEffectStep`), and creating, building and dropping are the builder's
   stages (`LifeStep`).
4. `RefinesInit`, `RefinesStep` and PTL.

`StoreLockProofs` proves, for any threads, stores, workloads, rounds and depth of calls,
`GuardsPinTheStore` and `StuckIsNestedRead`.  The invariant `LockInv` is the types,
`WriterBits` (a bit is set by the one thread that is between the two steps of
`RwLock::write`), `GuardsFollowCalls` (a thread has as many guards as its label says:
none, at least one, or one), and `RoundsLeft` and `TaskLabels`, without which the
counter would leave its range and the label `second` say nothing of two stores.  Every
step but the two of a writer is a `ReaderMoves`, which changes no bit.  A stuck thread
leads to a thread in `RwLock::write` (`RefusedByWriter`), that one to a holder, and a
holder that has to wait waits to read (`HolderReads`).  `DeadlockIsNestedRead` adds that
only locks stop a task, a fact about ENABLED that TLC checks.  The assumption that a
comparison has two stores is Rust's: `SchemeStore::eq` is reached through `Arc`, whose
`==` answers for one and the same store without it.

`PanicCatcherProofs` proves, for any threads, installers, depth of nesting and
number of panics, TypeOK, `LevelCountsFrames` and `AbortIsUncaught`.  The
invariant is their conjunction: LevelCountsFrames needs the types (a stack is a
sequence of frames), the types need LevelCountsFrames (the level stays a natural
number because a catching frame on the stack means it is positive), and
AbortIsUncaught needs both: `StopsCatching` shows that the checked subtraction
under a catching frame is never refused, so only the hook aborts, and
`LevelZero` that it does so with no catching frame.  `PushFrame` and `PopFrame`
are the facts about stacks, by cardinality of the set of catching positions.

For `MessageIsOfThisPanic` and `RegisteredHookIsInstalled` the theorems have the
hypothesis `OneInstaller`: one thread of the program calls
`panic_catcher_set_hook`.  It is needed, as run `panic_race` shows: with two, an
installer takes the other's hook away while HOOK_SET is already true.  `MessageInv`
adds to the invariant where the hook is while its installer is on its way
(`HookFollowsInstaller`), that the hook has recorded any panic that will be caught
(`BacktraceIsCurrent`), and that the last caught panic has its message.

`ExecutionContextProofs` proves, for any stores, contexts, types and bounds,
`OwnFieldsFit`, `ValuesAreTyped` and `LentToOneGuard`.  The invariant is their
conjunction with the types and with `AtRest`: an object that is no context has no
slots and guards nothing, without which a new context could overwrite a guard.  The
three need each other: a registration keeps the types of slots only because there
are no more slots than fields, and a returning guard restores the right scheme only
because it is the only one.  Calls on slots, matchers and documents are one lemma,
`KeepsStep`, over what they may do to a slot; moves are another, `MovedContextsFit`
(each context stays, empties, or becomes what a live one was), and
`GuardsUndisturbed` keeps loans apart from contexts that are neither lent nor guards;
`BorrowKeeps` and `DropGuardKeeps` do the rest.

`WritesAreOwned` follows from the same invariant, one lemma for the calls on slots, one
for moves and one for documents.  FilterExecution's steps on contexts are steps of
ExecutionContext (`FilterStepIsStep`), so that the invariant holds there too; to it
`FiltersFit` adds that what a parse found stays so, the field's type and the list's
index, because the vectors only grow (`VectorsGrow`).  `OwnFieldsExecute` then follows
from OwnFieldsFit (the slot exists) and ValuesAreTyped (the cast succeeds);
`AnswersNeedAWrite` from the compiled filter having copied the flag (`CompiledTyping`).

`CInterfaceProofs` proves `CReadsAllWritten` for pieces of any length: the buffer is
always empty or one terminated, printable copy of what was written (`CStringInv`);
`PrintableConcat` and `TerminatedBytes` are the facts about sequences, by extensionality.
For FfiSession it proves `UsedFieldsSuffice`, `FailuresLeaveTheirMessage` and
`RefusedDocumentsArePrefixes` for any threads, fields, types, lists, texts and documents.
The invariant `FfiInv` says what handles refer to: a filter's text still parses with its
store, a context's values have the types of its store's fields, and no thread has a
recorded message before the hook is installed.  That the compiled filter answers
what its tests come to is `OutcomeOfText`: the first test that decides is the one a
short-circuiting loop stops at (`FirstDecides`, by a least position).  `ReadingIsMeaning`
adds that this is what the text means when no test is of an always list.  `FfiAssumption` and `InputAssumption` only say
what a text and a document are and that the marker `Absent` is no value.

`LiteralsProofs` proves `RangesCoverLiteral` and `SearchAnswers` for any number of
ranges over any set of integers, from a loop invariant of the merge (what is merged
is sorted, disjoint, and ends before what is left) and one of the search
(`NeedleIsKept`).  The order in which an unstable sort leaves equal starts
and the probe of each step are arbitrary.

The same module proves `IntsAreTheirDigits` and `StringsEndAtFirstClose` for texts of
any length, over any alphabets and with any bounds on values and hashes.  The lexers are
recursive functions of how many characters are left, each first shown to satisfy its
equation (`IterationExists`, `QuotedExists`, `RawEndExists`).  For an integer, the
characters before the digits leave one way to read it (`IntIsNumber`), and reading digit
by digit gives the sum of the digits at their places (`Horner`, `NumberIsWeighted`).  For
a string, a least counterexample follows the loop from the end of the text: every place
it reads from leads to the first quote behind it that may end the string
(`EndOfRawIsFirst`, `QuotedEnds`).  A quoted string needs more: the backslashes before such
a place are even in number (`QuotedTurn`), because an escape takes its backslash with
what it escapes and holds no quote that may end the string (`EscapeIsInside`).

`LiteralsAreMaximal` is a theorem there too (`LiteralsNeitherStopShortNorRunOn`).  What
follows a run of digits or of a name's characters is none of them by what a run is
(`IntTakes`, `ListNameStops`), and the loop over bytes stops only where no separator
follows (`BytesStop`).  The loops over ranges and over indexes are followed like that of
a string; `LoopExists` gives both, as each turn leaves a shorter text.  A list takes
spaces and the characters of ranges, so its end is the first closing brace
(`RangesTurn`).  For a path, every place the loop arrives at is `Clear`: outside a key,
with no backslash before it, and with as many brackets of each kind counted as indexes
read (`TurnCounts`).  A key keeps that because its string ends at the first quote that
may end one, whatever stands before it (`QuotedEndsFrom`, `KeyRun`), a number or a star
because it holds no quote and no bracket (`PlainRun`).  An operator is the longest
because in the table no spelling starts with an earlier one (`LongestOperator`).

`CompoundTypeProofs` proves `Represents` for any width, and `Canonical`: no bit is set
above the length.  Canonical is what `Represents` needs: a push shifts the layers, so a bit left by a pop would come
back as a layer.  It also proves `TypesCrossC`, the agreement with the C struct.  Both
conversions of CType are recursive functions, and a recursive function is one that
satisfies its equation if there is one: `ReadOnce` exhibits one for reading (the bits in
order), `WritingExists` and `WritingUnique` build the other by the length of the type.
`CInv` then says that the struct packs like CompoundType while it fits the word, and
`FullPushKeeps` that the layer after it pushes out only the innermost: a power of two
above a bit does not reach it (`HighBitIgnored`).  Such facts are by a least
counterexample (`LeastNumber`), because the library's induction takes an operator, which
no installed prover instantiates.

`ValuesProofs` proves `WalkReturnsLeaves` for any values, of any nesting, and any path
that fits, and that no unwrap of `FieldIndexIterator::new` fails on the way
(`IteratorNeverPanics`).  The invariant `IteratorInv` completes the stack level by level
to what is still pending at each depth (`Pendings`): what was returned, followed by what
is pending at the deepest level, is always `Leaves`.  `LeafKeeps`, `DescendKeeps` and
`FinishKeeps` are the three branches of `next`; `KeepsPrefix` gives the property during
the walk and `KeepsAll` at its end.  `Leaves` and `Pendings` are recursive functions, so
each is first shown to satisfy its equation by exhibiting a solution (`IterationExists`,
`LevelsUnfold`).

The same module proves `ContainersWellTyped` and `RefusedDocumentIsBounded`, for any
element types, scalars, keys and documents.  `Sound` adds to well-typed that arrays are
sequences, at every depth, without which a push says nothing; `SoundUnfolds` says it of
a container by its elements, and `ContainerIsSound` back.  `DeserializeSound` is what
every action with a document rests on: whatever the document, what is read is refused or
sound for the wanted type, by a least counterexample over the type's layers.  An entry
written half way (`InsertEntriesKeeps`) is sound like a whole one, which is why refused
documents are harmless.

`RoundTrip` is a theorem there too (`ContainersReadBack`), for any nesting.  It needs
what `Formed`, the part of `Sound` about one value, says of data: map keys and strings
are byte strings, addresses sequences of numbers.  `BytesLess` is a strict total order
(`BytesLessTransitive`, `BytesLessTotal`), by the first place where two strings differ,
so keys have distinct ranks and `KeysOf` lists every key (`KeysAreListed`); inserting the
listed entries into an empty map then rebuilds it (`EntriesRebuild`), in either shape of
its document (`MapShapes`).  `WrittenInside` follows the documents from the outermost in,
`SoundReadsBack` the values from the scalars out: a container reads back once its
elements do (`ArrayReadsBack`, `MapReadsBack`).  `SerializeEquation` and
`DeserializeEquation` first show that both recursions have solutions.

What stays with TLC:

* Liveness and ENABLED: `SettledTasksEnd`, `ParseReturns`, `WalkEnds`, and of
  `DeadlockIsNestedRead` the conjunct that only locks stop a task.
* What RECURSIVE operators compute, of which tlapm proves nothing: parser, filters and
  value expressions (`ParserFollowsGrammar` and the four properties of Expressions).
* Properties that a run shows violated.

## Not modelled

* Regular expressions, wildcard patterns, memory search: libraries, behind `IsMatch`
  and membership of a substring.  The text of addresses and CIDR ranges; an address is
  its family and a number.
* Definition contexts of functions and user data of contexts: opaque to the engine.
* Scheme and AST serialization: text without a reader in the engine.
* Memory: handles used after they were freed, NULL arguments, alignment.  The header
  forbids them, and the code does not check.  Builders shared between stores through
  C: the C interface has no such constructor.
* wasm, fuzz targets, benches, examples, macros that only generate code.
* Texts of the parser above the bounds, and `u64` counters at their ends.

## Plan

All modules of the plan are written, and what the provers reach of their properties is
proved but for the modules with RECURSIVE operators.  Left to do, in this order:

1. The parser and the evaluation over expressions by depth, as Documents has it for
   values.
2. What a blocked StoreLock step waits for, from which the ENABLED conjunct would
   follow if the provers had rules for it.
