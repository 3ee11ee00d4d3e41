--------------------------- MODULE ExecutionContext ---------------------------
(***************************************************************************)
(* engine/src/execution_context.rs: the contexts that hold the values a    *)
(* filter runs against, while other builders go on registering fields and  *)
(* lists in the SchemeStore the contexts were sized from.                  *)
(*                                                                         *)
(* A store is the two vectors of SchemeStore that contexts index: they are *)
(* append-only (SchemeStore!AnswersAreStable), and the name of a field is  *)
(* its index (SchemeStore!StoreIndexed), so RegisterField and RegisterList *)
(* stand for all that SchemeBuilders do to it.  A Scheme is its store and  *)
(* the fields it owns.  Contexts are `&mut self` objects: a call runs alone *)
(* on its context, but the store may grow before any of its locks.         *)
(*                                                                         *)
(* Indices start at 1; borrow_with's guard is a context of its own.        *)
(***************************************************************************)
EXTENDS Integers, Sequences, FiniteSets

CONSTANTS
  Stores,           \* Arc<SchemeStore> objects
  Contexts,         \* ExecutionContext objects
  Types,
  FieldDefinition,  \* the fields that may be registered
  Data,             \* contents of a value
  MaxFields,        \* bound on the fields of each store
  MaxLists,         \* bound on the lists of each store
  NoContext

ASSUME ContextAssumption ==
  /\ Stores # {}
  /\ FieldDefinition \subseteq [ty : Types, optional : BOOLEAN]
  /\ MaxFields \in [Stores -> Nat]
  /\ MaxLists \in [Stores -> Nat]
  /\ NoContext \notin Contexts

VARIABLES
  fields,           \* each store's Vec<FieldDefinition>
  lists,            \* each store's Vec<(Type, ListDefinition)>
  phase,            \* each context: none, making (in new_with), live, reading, lent
  scheme_store,
  items,            \* the fields of the context's scheme
  values,           \* Box<[Option<LhsValue>]>
  list_matchers,    \* Box<[Box<dyn ListMatcher>]>
  old,              \* of a guard: the context it restores
  result            \* history: how the last call ended

stores   == <<fields, lists>>
slots    == <<values, list_matchers>>
owners   == <<phase, scheme_store, items, old>>
vars     == <<stores, owners, slots, result>>

Value    == [ty : Types, data : Data]
Unset    == [ty |-> "unset"]
\* A list matcher: does it match?  Fresh and cleared ones do not.
Matcher  == BOOLEAN
Results  == {"Ok", "SetLazily", "Kept", "SchemeMismatch", "UnknownField", "TypeMismatch",
             "NoList", "Invalid", "IndexPanic", "StorePanic"}

Indices(s) == 1..MaxFields[s]

TypeOK ==
  /\ fields \in [Stores -> Seq(FieldDefinition)]
  /\ lists \in [Stores -> Seq(Types)]
  /\ phase \in [Contexts -> {"none", "making", "live", "reading", "lent"}]
  /\ scheme_store \in [Contexts -> Stores]
  /\ \A c \in Contexts : items[c] \subseteq Indices(scheme_store[c])
  /\ values \in [Contexts -> Seq(Value \cup {Unset})]
  /\ list_matchers \in [Contexts -> Seq(Matcher)]
  /\ old \in [Contexts -> Contexts \cup {NoContext}]
  /\ result \in Results

Init ==
  /\ fields = [s \in Stores |-> << >>]
  /\ lists = [s \in Stores |-> << >>]
  /\ phase = [c \in Contexts |-> "none"]
  /\ scheme_store \in [Contexts -> {CHOOSE s \in Stores : TRUE}]
  /\ items = [c \in Contexts |-> {}]
  /\ values = [c \in Contexts |-> << >>]
  /\ list_matchers = [c \in Contexts |-> << >>]
  /\ old = [c \in Contexts |-> NoContext]
  /\ result = "Ok"

-----------------------------------------------------------------------------
Listed(s, t) == \E i \in 1..Len(lists[s]) : lists[s][i] = t
ListOf(s, t) == CHOOSE i \in 1..Len(lists[s]) : lists[s][i] = t

\* What SchemeBuilders do meanwhile.
RegisterField(s, def) ==
  /\ Len(fields[s]) < MaxFields[s]
  /\ fields' = [fields EXCEPT ![s] = Append(@, def)]
  /\ UNCHANGED <<lists, owners, slots, result>>

RegisterList(s, t) ==
  /\ Len(lists[s]) < MaxLists[s]
  /\ ~Listed(s, t)
  /\ lists' = [lists EXCEPT ![s] = Append(@, t)]
  /\ UNCHANGED <<fields, owners, slots, result>>

Return(r)       == result' = r
Live(c)         == phase[c] = "live"

\* Mutant of New: a slot for each field of the scheme, not of the store.
NewOwnSlots(c, s, own) ==
  /\ phase[c] = "none"
  /\ own \subseteq 1..Len(fields[s])
  /\ phase' = [phase EXCEPT ![c] = "making"]
  /\ scheme_store' = [scheme_store EXCEPT ![c] = s]
  /\ items' = [items EXCEPT ![c] = own]
  /\ values' = [values EXCEPT ![c] = [i \in 1..Cardinality(own) |-> Unset]]
  /\ UNCHANGED <<stores, list_matchers, old, result>>

\* new_with reads field_count ...
New(c, s, own) ==
  /\ phase[c] = "none"
  /\ own \subseteq 1..Len(fields[s])
  /\ phase' = [phase EXCEPT ![c] = "making"]
  /\ scheme_store' = [scheme_store EXCEPT ![c] = s]
  /\ items' = [items EXCEPT ![c] = own]
  /\ values' = [values EXCEPT ![c] = [i \in 1..Len(fields[s]) |-> Unset]]
  /\ UNCHANGED <<stores, list_matchers, old, result>>

\* ... and then list_count, for one matcher of each list of the store.
NewMatchers(c) ==
  /\ phase[c] = "making"
  /\ phase' = [phase EXCEPT ![c] = "live"]
  /\ list_matchers' = [list_matchers EXCEPT
                        ![c] = [i \in 1..Len(lists[scheme_store[c]]) |-> FALSE]]
  /\ Return("Ok")
  /\ UNCHANGED <<stores, scheme_store, items, values, old>>

Free(c) == /\ phase' = [phase EXCEPT ![c] = "none"]
           /\ items' = [items EXCEPT ![c] = {}]

\* Dropping a context that is not a guard.
Drop(c) ==
  /\ Live(c) /\ old[c] = NoContext
  /\ Free(c)
  /\ values' = [values EXCEPT ![c] = << >>]
  /\ list_matchers' = [list_matchers EXCEPT ![c] = << >>]
  /\ UNCHANGED <<stores, scheme_store, old, result>>

-----------------------------------------------------------------------------
\* self.values[index]: the vector is as long as the store was at new_with.
InBounds(c, i) == i \in 1..Len(values[c])

\* Mutant of TypeMatches: any value is taken.
AnyTypeMatches(c, i, v) == TRUE

\* field_type == value_type.
TypeMatches(c, i, v) == fields[scheme_store[c]][i].ty = v.ty

\* The types are compared, then the slot is indexed and replaced.
Replace(c, i, v, done) ==
  \/ /\ ~TypeMatches(c, i, v)
     /\ Return("TypeMismatch")
     /\ UNCHANGED values
  \/ /\ TypeMatches(c, i, v)
     /\ ~InBounds(c, i)
     /\ Return("IndexPanic")
     /\ UNCHANGED values
  \/ /\ TypeMatches(c, i, v)
     /\ InBounds(c, i)
     /\ values' = [values EXCEPT ![c][i] = v]
     /\ Return(done)

\* The slot is indexed first; only an empty one has the callback run.
ReplaceIfUnset(c, i, v) ==
  \/ /\ ~InBounds(c, i)
     /\ Return("IndexPanic")
     /\ UNCHANGED values
  \/ /\ InBounds(c, i) /\ values[c][i] # Unset
     /\ Return("Kept")
     /\ UNCHANGED values
  \/ /\ InBounds(c, i) /\ values[c][i] = Unset
     /\ Replace(c, i, v, "SetLazily")

\* field is a FieldRef: a store and an index that the store has.
IsField(f) == f.index \in 1..Len(fields[f.store])

SetFieldValue(c, f, v) ==
  /\ Live(c) /\ IsField(f)
  /\ \/ f.store # scheme_store[c] /\ Return("SchemeMismatch") /\ UNCHANGED values
     \/ f.store = scheme_store[c] /\ Replace(c, f.index, v, "Ok")
  /\ UNCHANGED <<stores, owners, list_matchers>>

SetFieldValueLazy(c, f, v) ==
  /\ Live(c) /\ IsField(f)
  /\ \/ f.store # scheme_store[c] /\ Return("SchemeMismatch") /\ UNCHANGED values
     \/ f.store = scheme_store[c] /\ ReplaceIfUnset(c, f.index, v)
  /\ UNCHANGED <<stores, owners, list_matchers>>

\* The name is looked up in the store: every field registered so far is found.
Registered(c, name) == name \in 1..Len(fields[scheme_store[c]])

SetFieldValueFromName(c, name, v) ==
  /\ Live(c)
  /\ \/ ~Registered(c, name) /\ Return("UnknownField") /\ UNCHANGED values
     \/ Registered(c, name) /\ Replace(c, name, v, "Ok")
  /\ UNCHANGED <<stores, owners, list_matchers>>

SetFieldValueFromNameLazy(c, name, v) ==
  /\ Live(c)
  /\ \/ ~Registered(c, name) /\ Return("UnknownField") /\ UNCHANGED values
     \/ Registered(c, name) /\ ReplaceIfUnset(c, name, v)
  /\ UNCHANGED <<stores, owners, list_matchers>>

\* list_matchers[index], also sized at new_with, and what the caller does with
\* the matcher.
PutMatcher(c, i, m) ==
  \/ /\ i \notin 1..Len(list_matchers[c])
     /\ Return("IndexPanic")
     /\ UNCHANGED list_matchers
  \/ /\ i \in 1..Len(list_matchers[c])
     /\ list_matchers' = [list_matchers EXCEPT ![c][i] = m]
     /\ Return("Ok")

\* get_list_matcher_mut asserts that the ListRef is of its store.
GetListMatcherMut(c, s, i, m) ==
  /\ Live(c) /\ i \in 1..Len(lists[s])
  /\ \/ s # scheme_store[c] /\ Return("StorePanic") /\ UNCHANGED list_matchers
     \/ s = scheme_store[c] /\ PutMatcher(c, i, m)
  /\ UNCHANGED <<stores, owners, values>>

\* Scheme::get_list asks the store for the list of a type.
GetListMatcherMutFromType(c, t, m) ==
  LET s == scheme_store[c] IN
  /\ Live(c)
  /\ \/ ~Listed(s, t) /\ Return("NoList") /\ UNCHANGED list_matchers
     \/ Listed(s, t) /\ PutMatcher(c, ListOf(s, t), m)
  /\ UNCHANGED <<stores, owners, values>>

Clear(c) ==
  /\ Live(c)
  /\ values' = [values EXCEPT ![c] = [i \in 1..Len(@) |-> Unset]]
  /\ list_matchers' = [list_matchers EXCEPT ![c] = [i \in 1..Len(@) |-> FALSE]]
  /\ Return("Ok")
  /\ UNCHANGED <<stores, owners>>

-----------------------------------------------------------------------------
\* The contents of c become those of d.
Hand(c, d, rest) ==
  /\ scheme_store' = [scheme_store EXCEPT ![d] = scheme_store[c]]
  /\ values' = [values EXCEPT ![d] = values[c], ![c] = rest[1]]
  /\ list_matchers' = [list_matchers EXCEPT ![d] = list_matchers[c], ![c] = rest[2]]
  /\ Return("Ok")
  /\ UNCHANGED stores

CloneWith(c, d) ==
  /\ Live(c) /\ phase[d] = "none"
  /\ Hand(c, d, <<values[c], list_matchers[c]>>)
  /\ phase' = [phase EXCEPT ![d] = "live"]
  /\ items' = [items EXCEPT ![d] = items[c]]
  /\ UNCHANGED old

\* take_with consumes a context by value; a guard only lends references to one.
TakeWith(c, d) ==
  /\ Live(c) /\ old[c] = NoContext /\ phase[d] = "none"
  /\ Hand(c, d, << << >>, << >> >>)
  /\ phase' = [phase EXCEPT ![c] = "none", ![d] = "live"]
  /\ items' = [items EXCEPT ![c] = {}, ![d] = items[c]]
  /\ UNCHANGED old

\* Mutant of BorrowWith: the slots are cloned instead of taken.
BorrowClone(c, g) ==
  /\ Live(c) /\ phase[g] = "none"
  /\ Hand(c, g, <<values[c], list_matchers[c]>>)
  /\ phase' = [phase EXCEPT ![c] = "lent", ![g] = "live"]
  /\ items' = [items EXCEPT ![g] = items[c]]
  /\ old' = [old EXCEPT ![g] = c]

\* mem::take leaves empty slices; g mutably borrows c while it exists.
BorrowWith(c, g) ==
  /\ Live(c) /\ phase[g] = "none"
  /\ Hand(c, g, << << >>, << >> >>)
  /\ phase' = [phase EXCEPT ![c] = "lent", ![g] = "live"]
  /\ items' = [items EXCEPT ![g] = items[c]]
  /\ old' = [old EXCEPT ![g] = c]

\* Drop of ExecutionContextGuard.
DropGuard(g) ==
  /\ Live(g) /\ old[g] # NoContext
  /\ LET c == old[g] IN
     /\ values' = [values EXCEPT ![c] = values[g], ![g] = << >>]
     /\ list_matchers' = [list_matchers EXCEPT ![c] = list_matchers[g], ![g] = << >>]
     /\ phase' = [phase EXCEPT ![c] = "live", ![g] = "none"]
  /\ items' = [items EXCEPT ![g] = {}]
  /\ old' = [old EXCEPT ![g] = NoContext]
  /\ Return("Ok")
  /\ UNCHANGED <<stores, scheme_store>>

-----------------------------------------------------------------------------
\* Deserialization mutates the context in place, one entry after the other, and
\* stops at the first bad one.
Deserialize(c) ==
  /\ Live(c)
  /\ phase' = [phase EXCEPT ![c] = "reading"]
  /\ UNCHANGED <<stores, scheme_store, items, old, slots, result>>

EndDeserialize(c, r) ==
  /\ phase' = [phase EXCEPT ![c] = "live"]
  /\ Return(r)

\* Mutant of OwnField: the name is looked up in the store.
StoreField(c, name) == Registered(c, name)

\* self.scheme.get_field(name).
OwnField(c, name) == name \in items[c]

\* scheme.get_field, a value of the field's type, set_field_value_from_name.
DeserializeField(c, name, data) ==
  /\ phase[c] = "reading"
  /\ \/ /\ ~OwnField(c, name)
        /\ EndDeserialize(c, "UnknownField")
        /\ UNCHANGED values
     \/ /\ OwnField(c, name)
        /\ LET v == [ty |-> fields[scheme_store[c]][name].ty, data |-> data]
           IN  Replace(c, name, v, "Ok")
        /\ phase' = [phase EXCEPT ![c] = IF InBounds(c, name) THEN @ ELSE "live"]
  /\ UNCHANGED <<stores, scheme_store, items, old, list_matchers>>

\* An element of "$lists".
DeserializeList(c, t, m) ==
  LET s == scheme_store[c]
      i == ListOf(s, t)
  IN
  /\ phase[c] = "reading"
  /\ \/ /\ ~Listed(s, t)
        /\ EndDeserialize(c, "NoList")
        /\ UNCHANGED list_matchers
     \/ /\ Listed(s, t)
        /\ PutMatcher(c, i, m)
        /\ phase' = [phase EXCEPT ![c] = IF i \in 1..Len(list_matchers[c]) THEN @ ELSE "live"]
  /\ UNCHANGED <<stores, scheme_store, items, old, values>>

\* The end of the text, or a text that is no value of the field's type.
DeserializeEnd(c) ==
  /\ phase[c] = "reading"
  /\ \E r \in {"Ok", "Invalid"} : EndDeserialize(c, r)
  /\ UNCHANGED <<stores, scheme_store, items, old, slots>>

\* The scheme's own fields are read with get(index); for a context with matchers,
\* every list of the store is indexed.
Serialize(c) ==
  /\ Live(c)
  /\ Return(
       IF list_matchers[c] # << >> /\ Len(lists[scheme_store[c]]) > Len(list_matchers[c])
       THEN "IndexPanic" ELSE "Ok")
  /\ UNCHANGED <<stores, owners, slots>>

-----------------------------------------------------------------------------
FieldRefs == [store : Stores, index : UNION {Indices(s) : s \in Stores}]

SlotStep(c) ==
  \/ \E f \in FieldRefs, v \in Value : SetFieldValue(c, f, v) \/ SetFieldValueLazy(c, f, v)
  \/ \E i \in Indices(scheme_store[c]), v \in Value :
       SetFieldValueFromName(c, i, v) \/ SetFieldValueFromNameLazy(c, i, v)
  \/ \E s \in Stores : \E i \in 1..MaxLists[s], m \in Matcher : GetListMatcherMut(c, s, i, m)
  \/ \E t \in Types, m \in Matcher : GetListMatcherMutFromType(c, t, m)
  \/ Clear(c)

MoveStep(c) ==
  \/ \E s \in Stores : \E own \in SUBSET Indices(s) : New(c, s, own)
  \/ NewMatchers(c)
  \/ Drop(c)
  \/ \E d \in Contexts : CloneWith(c, d) \/ TakeWith(c, d) \/ BorrowWith(c, d)
  \/ DropGuard(c)

SerdeStep(c) ==
  \/ Deserialize(c)
  \/ \E i \in Indices(scheme_store[c]), d \in Data : DeserializeField(c, i, d)
  \/ \E t \in Types, m \in Matcher : DeserializeList(c, t, m)
  \/ DeserializeEnd(c)
  \/ Serialize(c)

Next ==
  \/ \E s \in Stores, def \in FieldDefinition : RegisterField(s, def)
  \/ \E s \in Stores, t \in Types : RegisterList(s, t)
  \/ \E c \in Contexts : SlotStep(c) \/ MoveStep(c) \/ SerdeStep(c)

Spec == Init /\ [][Next]_vars

-----------------------------------------------------------------------------
(***************************************************************************)
(* Safety.  A context in use can hold a value for every field of its       *)
(* scheme, however the store grew between the scheme's build, the          *)
(* context's creation and the call, and through clones, moves and guards:  *)
(* the index panics above hit fields of other schemes only.                *)
(***************************************************************************)
InUse(c) == phase[c] \in {"making", "live", "reading"}

OwnFieldsFit ==
  \A c \in Contexts : InUse(c) =>
    /\ items[c] \subseteq 1..Len(values[c])
    /\ Len(values[c]) <= Len(fields[scheme_store[c]])
    /\ Len(list_matchers[c]) <= Len(lists[scheme_store[c]])

\* A slot holds a value of the type its field has in the store of the context,
\* whichever call put it there: the casts of compiled filters rely on it.
ValuesAreTyped ==
  \A c \in Contexts : \A i \in 1..Len(values[c]) :
    values[c][i] # Unset => values[c][i].ty = fields[scheme_store[c]][i].ty

\* A context is lent to one guard, which has its store and scheme; nothing is
\* left in the lender that a call could see.
LentToOneGuard ==
  /\ \A c \in Contexts : phase[c] = "lent" =>
       /\ values[c] = << >> /\ list_matchers[c] = << >>
       /\ \E g \in Contexts :
            /\ old[g] = c /\ phase[g] # "none"
            /\ scheme_store[g] = scheme_store[c] /\ items[g] = items[c]
            /\ \A h \in Contexts : old[h] = c => h = g
  /\ \A g \in Contexts : old[g] # NoContext => phase[old[g]] = "lent"

\* Action property: deserialization, complete or stopped by an error, writes only
\* fields of the context's scheme, and lazy setters never replace a value.
WritesAreOwned ==
  [][\A c \in Contexts :
       /\ phase[c] = "reading" =>
            \A i \in 1..Len(values[c]) : values'[c][i] # values[c][i] => i \in items[c]
       /\ Live(c) /\ Live(c)' /\ result' = "SetLazily" =>
            \A i \in 1..Len(values[c]) : values[c][i] # Unset => values'[c][i] = values[c][i]]_vars

=============================================================================
