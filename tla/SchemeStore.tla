------------------------------ MODULE SchemeStore ------------------------------
(***************************************************************************)
(* engine/src/scheme.rs: one SchemeStore shared by several SchemeBuilders. *)
(*                                                                         *)
(* The store is an RwLock around growing vectors and the maps that index   *)
(* them.  A registration takes the lock twice: once to read (is the name   *)
(* known?) and once to write (push the definition), and the lock is free   *)
(* in between.  Each builder is a `&mut self` object, so at most one call  *)
(* is in progress per builder; the builders run in threads of their own.   *)
(* An action is one critical section of the lock together with the code of *)
(* the same call that runs before the next one.                            *)
(*                                                                         *)
(* Vectors are sequences, so an index i of the code is i + 1 here, and 0   *)
(* is the None of a lookup.                                                *)
(***************************************************************************)
EXTENDS Integers, Sequences, FiniteSets

CONSTANTS
  Builders,      \* SchemeBuilder values, each driven by its own thread
  Names,         \* identifier names
  Types,         \* values of the Type enum
  ListTypes,     \* the types that lists are registered for
  Definitions    \* function and list definitions (Box<dyn ...Definition>)

ASSUME ListTypesAssumption == ListTypes \subseteq Types

VARIABLES
  fields,                 \* Vec<FieldDefinition>
  field_names,            \* HashMap<name, index into fields>
  functions,              \* Vec<(name, definition)>
  function_names,         \* HashMap<name, index into functions>
  lists,                  \* Vec<(Type, definition)>
  list_types,             \* HashMap<Type, index into lists>
  next_scheme_id,
  nil_not_equal_is_false,
  phase,                  \* each builder: not created, in use, built, dropped
  scheme_id,              \* SchemeBuilder::scheme_id
  items,                  \* SchemeBuilder::items, then SchemeInner::items
  builder_lists,          \* SchemeBuilder::list_types
  call,                   \* the registration that is between its two locks
  returned,               \* history: what the last completed call returned
  asked                   \* history: arguments of the add_* calls that were Ok

store    == <<fields, field_names, functions, function_names, lists, list_types,
              next_scheme_id, nil_not_equal_is_false>>
history  == <<returned, asked>>
vars     == <<store, phase, scheme_id, items, builder_lists, call, history>>

-----------------------------------------------------------------------------
None     == 0
NoItem   == [kind |-> "none", index |-> None]
NoCall   == [op |-> "none"]
NotAsked == [kind |-> "none"]

FieldDefinition == [name : Names, ty : Types, optional : BOOLEAN, scheme_id : Nat]
SchemeItem      == [kind : {"field", "function"}, index : Nat]
Kinds           == {"field", "function"}

FieldCall    == [op : {"field"}, name : Names, ty : Types, optional : BOOLEAN]
FunctionCall == [op : {"function"}, name : Names, def : Definitions]
ListCall     == [op : {"list"}, ty : Types, def : Definitions]

FieldAsked    == [kind : {"field"}, ty : Types, optional : BOOLEAN]
FunctionAsked == [kind : {"function"}, def : Definitions]

\* IdentifierRedefinitionError and ListRedefinitionError, with the name they carry
IdentifierErrors == {"FieldRedefinition", "FunctionRedefinition", "FieldTypeMismatch"}
Returns ==
  [result : IdentifierErrors, builder : Builders, name : Names]
    \cup [result : {"ListRedefinition"}, builder : Builders, ty : Types]
    \cup [result : {"Ok"}]

TypeOK ==
  /\ fields \in Seq(FieldDefinition)
  /\ field_names \in [Names -> Nat]
  /\ functions \in Seq([name : Names, def : Definitions])
  /\ function_names \in [Names -> Nat]
  /\ lists \in Seq([ty : Types, def : Definitions])
  /\ list_types \in [Types -> Nat]
  /\ next_scheme_id \in Nat
  /\ nil_not_equal_is_false \in BOOLEAN
  /\ phase \in [Builders -> {"none", "open", "built", "dropped"}]
  /\ scheme_id \in [Builders -> Nat]
  /\ items \in [Builders -> [Names -> SchemeItem \cup {NoItem}]]
  /\ builder_lists \in [Builders -> SUBSET Types]
  /\ call \in [Builders -> FieldCall \cup FunctionCall \cup ListCall \cup {NoCall}]
  /\ returned \in Returns
  /\ asked \in [Builders -> [Names -> FieldAsked \cup FunctionAsked \cup {NotAsked}]]

Init ==
  /\ fields = << >> /\ field_names = [n \in Names |-> None]
  /\ functions = << >> /\ function_names = [n \in Names |-> None]
  /\ lists = << >> /\ list_types = [t \in Types |-> None]
  /\ next_scheme_id = 0
  /\ nil_not_equal_is_false \in BOOLEAN          \* argument of SchemeStore::new
  /\ phase = [b \in Builders |-> "none"]
  /\ scheme_id = [b \in Builders |-> 0]
  /\ items = [b \in Builders |-> [n \in Names |-> NoItem]]
  /\ builder_lists = [b \in Builders |-> {}]
  /\ call = [b \in Builders |-> NoCall]
  /\ returned = [result |-> "Ok"]
  /\ asked = [b \in Builders |-> [n \in Names |-> NotAsked]]

-----------------------------------------------------------------------------
\* A builder whose owner may call it.
Ready(b) == phase[b] = "open" /\ call[b] = NoCall

\* Every registration ends in one of these.
ReturnOk == returned' = [result |-> "Ok"]
ReturnErr(b, error, name) ==
  returned' = [result |-> error, builder |-> b, name |-> name]
ReturnListRedefinition(b, ty) ==
  returned' = [result |-> "ListRedefinition", builder |-> b, ty |-> ty]

\* entry.insert(SchemeItem::...) followed by Ok(())
InsertItem(b, name, kind, index, request) ==
  /\ items' = [items EXCEPT ![b][name] = [kind |-> kind, index |-> index]]
  /\ asked' = [asked EXCEPT ![b][name] = request]
  /\ ReturnOk

\* The read lock is released and the write lock is still to be taken.
AwaitWrite(b, c) == call' = [call EXCEPT ![b] = c]
EndCall(b)       == call' = [call EXCEPT ![b] = NoCall]

-----------------------------------------------------------------------------
\* Mutant of AllocateSchemeId: the id is not used up.
AllocateSameSchemeId(b) ==
  /\ scheme_id' = [scheme_id EXCEPT ![b] = next_scheme_id]
  /\ UNCHANGED next_scheme_id

\* allocate_scheme_id runs under one write lock.
AllocateSchemeId(b) ==
  /\ scheme_id' = [scheme_id EXCEPT ![b] = next_scheme_id]
  /\ next_scheme_id' = next_scheme_id + 1

\* new_with_scheme_store.
New(b) ==
  /\ phase[b] = "none"
  /\ phase' = [phase EXCEPT ![b] = "open"]
  /\ AllocateSchemeId(b)
  /\ UNCHANGED <<fields, field_names, functions, function_names, lists, list_types,
                 nil_not_equal_is_false, items, builder_lists, call, history>>

FieldRequest(ty, optional) == [kind |-> "field", ty |-> ty, optional |-> optional]
FunctionRequest(def)       == [kind |-> "function", def |-> def]

\* Mutant of Vacant: entry() is not matched on.
AlwaysVacant(b, name) == TRUE

\* Entry::Vacant of SchemeBuilder::items.
Vacant(b, name) == items[b][name] = NoItem

\* Mutant of RejectOccupied: the entry is taken out and not put back.
RejectAndRemove(b, name) ==
  /\ items[b][name] # NoItem
  /\ ReturnErr(b, IF items[b][name].kind = "field" THEN "FieldRedefinition"
                                                   ELSE "FunctionRedefinition", name)
  /\ items' = [items EXCEPT ![b][name] = NoItem]
  /\ UNCHANGED <<asked, call>>

\* The occupied branch that add_field_full and add_function share.
RejectOccupied(b, name) ==
  /\ items[b][name] # NoItem
  /\ ReturnErr(b, IF items[b][name].kind = "field" THEN "FieldRedefinition"
                                                   ELSE "FunctionRedefinition", name)
  /\ UNCHANGED <<items, asked, call>>

\* Mutant of SameType: a known field is adopted whatever its type.
AnyType(name, ty) == TRUE

\* existing_ty == ty, in get_or_add_field.
SameType(name, ty) == fields[field_names[name]].ty = ty

\* add_field_full up to the end of get_or_add_field's read lock.
AddField(b, name, ty, optional) ==
  /\ Ready(b)
  /\ \/ RejectOccupied(b, name)
     \/ /\ Vacant(b, name)
        /\ field_names[name] # None
        /\ ~SameType(name, ty)
        /\ ReturnErr(b, "FieldTypeMismatch", name)
        /\ UNCHANGED <<items, asked, call>>
     \/ /\ Vacant(b, name)
        /\ field_names[name] # None
        /\ SameType(name, ty)
        /\ InsertItem(b, name, "field", field_names[name], FieldRequest(ty, optional))
        /\ UNCHANGED call
     \/ /\ Vacant(b, name)
        /\ field_names[name] = None
        /\ AwaitWrite(b, [op |-> "field", name |-> name, ty |-> ty, optional |-> optional])
        /\ UNCHANGED <<items, history>>
  /\ UNCHANGED <<store, phase, scheme_id, builder_lists>>

\* Mutant of AddFieldInternal: the name is not looked up again.
PushFieldBlindly(b) ==
  /\ call[b].op = "field"
  /\ fields' = Append(fields, [name |-> call[b].name, ty |-> call[b].ty,
                               optional |-> call[b].optional, scheme_id |-> scheme_id[b]])
  /\ field_names' = [field_names EXCEPT ![call[b].name] = Len(fields) + 1]
  /\ InsertItem(b, call[b].name, "field", Len(fields) + 1,
                FieldRequest(call[b].ty, call[b].optional))
  /\ EndCall(b)
  /\ UNCHANGED <<functions, function_names, lists, list_types, next_scheme_id,
                 nil_not_equal_is_false, phase, scheme_id, builder_lists>>

\* add_field_internal, under the write lock, and the rest of add_field_full.
AddFieldInternal(b) ==
  /\ call[b].op = "field"
  /\ LET name == call[b].name IN
     \/ /\ field_names[name] # None
        /\ ReturnErr(b, "FieldRedefinition", name)
        /\ UNCHANGED <<fields, field_names, items, asked>>
     \/ /\ field_names[name] = None
        /\ fields' = Append(fields, [name |-> name, ty |-> call[b].ty,
                                     optional |-> call[b].optional,
                                     scheme_id |-> scheme_id[b]])
        /\ field_names' = [field_names EXCEPT ![name] = Len(fields) + 1]
        /\ InsertItem(b, name, "field", Len(fields) + 1,
                      FieldRequest(call[b].ty, call[b].optional))
  /\ EndCall(b)
  /\ UNCHANGED <<functions, function_names, lists, list_types, next_scheme_id,
                 nil_not_equal_is_false, phase, scheme_id, builder_lists>>

\* add_function up to the end of get_or_add_function's read lock.
AddFunction(b, name, def) ==
  /\ Ready(b)
  /\ \/ RejectOccupied(b, name)
     \/ /\ Vacant(b, name)
        /\ function_names[name] # None
        /\ InsertItem(b, name, "function", function_names[name], FunctionRequest(def))
        /\ UNCHANGED call
     \/ /\ Vacant(b, name)
        /\ function_names[name] = None
        /\ AwaitWrite(b, [op |-> "function", name |-> name, def |-> def])
        /\ UNCHANGED <<items, history>>
  /\ UNCHANGED <<store, phase, scheme_id, builder_lists>>

\* The write-locked half of get_or_add_function and the rest of add_function.
AddFunctionInternal(b) ==
  /\ call[b].op = "function"
  /\ LET name == call[b].name IN
     \/ /\ function_names[name] # None
        /\ ReturnErr(b, "FunctionRedefinition", name)
        /\ UNCHANGED <<functions, function_names, items, asked>>
     \/ /\ function_names[name] = None
        /\ functions' = Append(functions, [name |-> name, def |-> call[b].def])
        /\ function_names' = [function_names EXCEPT ![name] = Len(functions) + 1]
        /\ InsertItem(b, name, "function", Len(functions) + 1, FunctionRequest(call[b].def))
  /\ EndCall(b)
  /\ UNCHANGED <<fields, field_names, lists, list_types, next_scheme_id,
                 nil_not_equal_is_false, phase, scheme_id, builder_lists>>

\* add_list up to the end of get_or_add_list's read lock.
AddList(b, ty, def) ==
  /\ Ready(b)
  /\ \/ /\ ty \in builder_lists[b]
        /\ ReturnListRedefinition(b, ty)
        /\ UNCHANGED <<builder_lists, call>>
     \/ /\ ty \notin builder_lists[b]
        /\ list_types[ty] # None
        /\ builder_lists' = [builder_lists EXCEPT ![b] = @ \cup {ty}]
        /\ ReturnOk
        /\ UNCHANGED call
     \/ /\ ty \notin builder_lists[b]
        /\ list_types[ty] = None
        /\ AwaitWrite(b, [op |-> "list", ty |-> ty, def |-> def])
        /\ UNCHANGED <<builder_lists, returned>>
  /\ UNCHANGED <<store, phase, scheme_id, items, asked>>

\* The write-locked half of get_or_add_list and the rest of add_list.
AddListInternal(b) ==
  /\ call[b].op = "list"
  /\ LET ty == call[b].ty IN
     \/ /\ list_types[ty] # None
        /\ ReturnListRedefinition(b, ty)
        /\ UNCHANGED <<lists, list_types, builder_lists>>
     \/ /\ list_types[ty] = None
        /\ lists' = Append(lists, [ty |-> ty, def |-> call[b].def])
        /\ list_types' = [list_types EXCEPT ![ty] = Len(lists) + 1]
        /\ builder_lists' = [builder_lists EXCEPT ![b] = @ \cup {ty}]
        /\ ReturnOk
  /\ EndCall(b)
  /\ UNCHANGED <<fields, field_names, functions, function_names, next_scheme_id,
                 nil_not_equal_is_false, phase, scheme_id, items, asked>>

\* set_nil_not_equal_behavior writes the flag of the whole store.
SetNilNotEqualBehavior(b, behavior) ==
  /\ Ready(b)
  /\ nil_not_equal_is_false' = ~behavior
  /\ UNCHANGED <<fields, field_names, functions, function_names, lists, list_types,
                 next_scheme_id, phase, scheme_id, items, builder_lists, call, history>>

\* build consumes the builder; items live on in the Scheme.
Build(b) ==
  /\ Ready(b)
  /\ phase' = [phase EXCEPT ![b] = "built"]
  /\ UNCHANGED <<store, scheme_id, items, builder_lists, call, history>>

\* A builder dropped unbuilt, as the owner does that returns on the first Err:
\* there is no undo, what the builder has pushed stays in the store.
Drop(b) ==
  /\ Ready(b)
  /\ phase' = [phase EXCEPT ![b] = "dropped"]
  /\ UNCHANGED <<store, scheme_id, items, builder_lists, call, history>>

Next ==
  \E b \in Builders :
    \/ New(b)
    \/ \E n \in Names, t \in Types, o \in BOOLEAN : AddField(b, n, t, o)
    \/ AddFieldInternal(b)
    \/ \E n \in Names, d \in Definitions : AddFunction(b, n, d)
    \/ AddFunctionInternal(b)
    \/ \E t \in ListTypes, d \in Definitions : AddList(b, t, d)
    \/ AddListInternal(b)
    \/ \E v \in BOOLEAN : SetNilNotEqualBehavior(b, v)
    \/ Build(b)
    \/ Drop(b)

Spec == Init /\ [][Next]_vars

-----------------------------------------------------------------------------
\* What a built Scheme answers (Scheme::get with FieldRef / FunctionRef).
Owns(b, name)       == items[b][name] # NoItem
FieldAt(b, name)    == fields[items[b][name].index]
FunctionAt(b, name) == functions[items[b][name].index]

-----------------------------------------------------------------------------
(***************************************************************************)
(* Safety.  FieldIndex, FunctionIndex and ListIndex: the map and the       *)
(* vector of the store describe each other, whatever the order in which    *)
(* the two halves of concurrent registrations run.  A name that was pushed *)
(* twice, or an index taken before another push, breaks them.              *)
(***************************************************************************)
FieldIndex ==
  /\ \A n \in Names : field_names[n] # None =>
       /\ field_names[n] \in 1..Len(fields)
       /\ fields[field_names[n]].name = n
  /\ \A i \in 1..Len(fields) : field_names[fields[i].name] = i

FunctionIndex ==
  /\ \A n \in Names : function_names[n] # None =>
       /\ function_names[n] \in 1..Len(functions)
       /\ functions[function_names[n]].name = n
  /\ \A i \in 1..Len(functions) : function_names[functions[i].name] = i

ListIndex ==
  /\ \A t \in Types : list_types[t] # None =>
       /\ list_types[t] \in 1..Len(lists)
       /\ lists[list_types[t]].ty = t
  /\ \A i \in 1..Len(lists) : list_types[lists[i].ty] = i

\* The store's maps and vectors agree for fields, functions and lists.
StoreIndexed == FieldIndex /\ FunctionIndex /\ ListIndex

\* Every identifier of a builder or scheme resolves, to the store's one
\* definition of that name, and a field has the type its owner asked for
\* although another builder may have defined it (get_or_add_field's mismatch
\* check); a builder's lists are in the store.
ItemsResolve ==
  \A b \in Builders :
    /\ \A n \in Names :
         /\ items[b][n].kind = "field" =>
              /\ items[b][n].index \in 1..Len(fields)
              /\ items[b][n].index = field_names[n]
              /\ asked[b][n].kind = "field"
              /\ FieldAt(b, n).ty = asked[b][n].ty
         /\ items[b][n].kind = "function" =>
              /\ items[b][n].index \in 1..Len(functions)
              /\ items[b][n].index = function_names[n]
              /\ asked[b][n].kind = "function"
    /\ \A t \in builder_lists[b] : list_types[t] # None

\* Scheme ids tell builders apart, and the scheme_id in a field definition is
\* that of a builder that owns the field (add_field_internal pushes and the
\* caller inserts its item before anybody else can use the name).
Created(b) == phase[b] # "none"

SchemeIdsIdentify ==
  /\ \A a, b \in Builders : Created(a) /\ Created(b) /\ scheme_id[a] = scheme_id[b] => a = b
  /\ \A i \in 1..Len(fields) : \E b \in Builders :
       /\ Created(b)
       /\ scheme_id[b] = fields[i].scheme_id
       /\ items[b][fields[i].name] = [kind |-> "field", index |-> i]

\* What the invariants above need to be inductive: a call between its two locks
\* belongs to a builder in use that does not own the name yet, and every id that
\* was handed out is below the next one.
PendingCalls ==
  \A b \in Builders : call[b] # NoCall =>
    /\ phase[b] = "open"
    /\ call[b].op \in {"field", "function"} => items[b][call[b].name] = NoItem

IdsBelow == \A b \in Builders : Created(b) => scheme_id[b] < next_scheme_id

IInv ==
  TypeOK /\ StoreIndexed /\ ItemsResolve /\ SchemeIdsIdentify /\ PendingCalls /\ IdsBelow

\* Action property: a definition never moves or changes, so an index held by a
\* Field, a Function or a compiled filter keeps its meaning, and an identifier
\* once owned keeps its answer, while other builders go on registering.
AnswersAreStable ==
  [][/\ \A i \in 1..Len(fields) : i \in 1..Len(fields') /\ fields'[i] = fields[i]
     /\ \A i \in 1..Len(functions) : i \in 1..Len(functions') /\ functions'[i] = functions[i]
     /\ \A i \in 1..Len(lists) : i \in 1..Len(lists') /\ lists'[i] = lists[i]
     /\ \A b \in Builders, n \in Names : Owns(b, n) => items'[b][n] = items[b][n]]_vars

\* Action property: a call that does not return Ok leaves its builder and the
\* store as they were (no half-done registration).
FailedCallsChangeNothing ==
  [][returned' # returned /\ returned'.result # "Ok"
       => UNCHANGED <<store, items, builder_lists>>]_vars

=============================================================================
