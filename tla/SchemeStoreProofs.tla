-------------------------- MODULE SchemeStoreProofs --------------------------
(***************************************************************************)
(* Theorems about SchemeStore, for any number of builders, names, types    *)
(* and definitions: its invariants, what a step may do, and, at the end,   *)
(* that SchemeStore implements SchemeCatalogue.                            *)
(***************************************************************************)
EXTENDS SchemeStoreRefines, TLAPS

Calls == FieldCall \cup FunctionCall \cup ListCall \cup {NoCall}

\* The op of a pending call tells which arguments it carries.
USE DEF Vacant, SameType, AllocateSchemeId

LEMMA CallTyping ==
  ASSUME NEW c \in Calls
  PROVE  /\ c.op = "field" => c.name \in Names /\ c.ty \in Types /\ c.optional \in BOOLEAN
         /\ c.op = "function" => c.name \in Names /\ c.def \in Definitions
         /\ c.op = "list" => c.ty \in Types /\ c.def \in Definitions
  BY DEF Calls, FieldCall, FunctionCall, ListCall, NoCall

\* Adding a well-typed definition to a vector keeps it well typed.
LEMMA AppendTyping ==
  ASSUME NEW S, NEW s \in Seq(S), NEW e \in S
  PROVE  /\ Append(s, e) \in Seq(S)
         /\ Len(Append(s, e)) = Len(s) + 1
         /\ \A i \in 1..Len(s) : Append(s, e)[i] = s[i]
         /\ Append(s, e)[Len(s) + 1] = e
  OBVIOUS

\* A vector's elements are definitions.
LEMMA ElementTyping ==
  ASSUME NEW S, NEW s \in Seq(S), NEW i \in 1..Len(s)
  PROVE  s[i] \in S
  OBVIOUS

\* The initial state is well typed.
LEMMA TypeInit == Init => TypeOK
  BY DEF Init, TypeOK, Returns, NoItem, NoCall, NotAsked, None

\* What InsertItem leaves behind is well typed.
LEMMA InsertTyping ==
  ASSUME TypeOK, NEW b \in Builders, NEW n \in Names, NEW k \in Kinds, NEW i \in Nat,
         NEW r \in FieldAsked \cup FunctionAsked, InsertItem(b, n, k, i, r)
  PROVE  /\ items' \in [Builders -> [Names -> SchemeItem \cup {NoItem}]]
         /\ asked' \in [Builders -> [Names -> FieldAsked \cup FunctionAsked \cup {NotAsked}]]
         /\ returned' \in Returns
<1>1. [kind |-> k, index |-> i] \in SchemeItem
  BY DEF SchemeItem, Kinds
<1>2. items' \in [Builders -> [Names -> SchemeItem \cup {NoItem}]]
  BY <1>1 DEF TypeOK, InsertItem
<1>3. asked' \in [Builders -> [Names -> FieldAsked \cup FunctionAsked \cup {NotAsked}]]
  BY DEF TypeOK, InsertItem
<1>4. returned' \in Returns
  BY DEF InsertItem, ReturnOk, Returns
<1> QED  BY <1>2, <1>3, <1>4

\* The error values are returns.
LEMMA ErrTyping ==
  ASSUME NEW b \in Builders, NEW n \in Names, NEW e \in IdentifierErrors, ReturnErr(b, e, n)
  PROVE  returned' \in Returns
  BY DEF ReturnErr, Returns

LEMMA ListErrTyping ==
  ASSUME NEW b \in Builders, NEW t \in Types, ReturnListRedefinition(b, t)
  PROVE  returned' \in Returns
  BY DEF ReturnListRedefinition, Returns

-----------------------------------------------------------------------------
\* Every step keeps the state well typed.
LEMMA TypeStep == TypeOK /\ [Next]_vars => TypeOK'
<1> SUFFICES ASSUME TypeOK, [Next]_vars PROVE TypeOK'
  OBVIOUS
<1> USE DEF None
<1>1. ASSUME NEW b \in Builders, New(b) PROVE TypeOK'
  BY <1>1 DEF TypeOK, New, history, Returns
<1>2. ASSUME NEW b \in Builders, NEW n \in Names, NEW t \in Types, NEW o \in BOOLEAN,
             AddField(b, n, t, o)
      PROVE  TypeOK'
  <2>1. CASE RejectOccupied(b, n)
    <3>1. returned' \in Returns
      BY <2>1, ErrTyping DEF RejectOccupied, IdentifierErrors
    <3> QED  BY <1>2, <2>1, <3>1 DEF TypeOK, RejectOccupied, AddField, store
  <2>2. CASE /\ ReturnErr(b, "FieldTypeMismatch", n)
             /\ UNCHANGED <<items, asked, call>>
    <3>1. returned' \in Returns
      BY <2>2, ErrTyping DEF IdentifierErrors
    <3> QED  BY <1>2, <2>2, <3>1 DEF TypeOK, AddField, store
  <2>3. CASE /\ InsertItem(b, n, "field", field_names[n], FieldRequest(t, o))
             /\ UNCHANGED call
    <3>1. FieldRequest(t, o) \in FieldAsked /\ field_names[n] \in Nat
      BY DEF FieldRequest, FieldAsked, TypeOK
    <3> QED  BY <1>2, <2>3, <3>1, InsertTyping DEF TypeOK, AddField, store, Kinds
  <2>4. CASE /\ AwaitWrite(b, [op |-> "field", name |-> n, ty |-> t, optional |-> o])
             /\ UNCHANGED <<items, history>>
    <3>1. [op |-> "field", name |-> n, ty |-> t, optional |-> o] \in FieldCall
      BY DEF FieldCall
    <3>2. call' \in [Builders -> FieldCall \cup FunctionCall \cup ListCall \cup {NoCall}]
      BY <2>4, <3>1 DEF TypeOK, AwaitWrite
    <3> QED  BY <1>2, <2>4, <3>2 DEF TypeOK, AddField, store, history
  <2> QED  BY <1>2, <2>1, <2>2, <2>3, <2>4 DEF AddField
<1>3. ASSUME NEW b \in Builders, AddFieldInternal(b) PROVE TypeOK'
  <2> DEFINE n == call[b].name
  <2>1. call[b] \in Calls /\ call[b].op = "field"
    BY <1>3 DEF TypeOK, Calls, AddFieldInternal
  <2>2. n \in Names /\ call[b].ty \in Types /\ call[b].optional \in BOOLEAN
    BY <2>1, CallTyping
  <2>3. call' \in [Builders -> FieldCall \cup FunctionCall \cup ListCall \cup {NoCall}]
    BY <1>3 DEF TypeOK, AddFieldInternal, EndCall
  <2>4. CASE ReturnErr(b, "FieldRedefinition", n) /\ UNCHANGED <<fields, field_names, items, asked>>
    <3>1. returned' \in Returns
      BY <2>2, <2>4, ErrTyping DEF IdentifierErrors
    <3> QED  BY <1>3, <2>3, <2>4, <3>1 DEF TypeOK, AddFieldInternal
  <2> DEFINE d == [name |-> n, ty |-> call[b].ty, optional |-> call[b].optional,
                   scheme_id |-> scheme_id[b]]
  <2>5. CASE /\ fields' = Append(fields, d)
             /\ field_names' = [field_names EXCEPT ![n] = Len(fields) + 1]
             /\ InsertItem(b, n, "field", Len(fields) + 1,
                           FieldRequest(call[b].ty, call[b].optional))
    <3>1. d \in FieldDefinition
      BY <2>2 DEF FieldDefinition, TypeOK
    <3>2. fields' \in Seq(FieldDefinition) /\ Len(fields) + 1 \in Nat
      BY <2>5, <3>1, AppendTyping DEF TypeOK
    <3>3. field_names' \in [Names -> Nat]
      BY <2>2, <2>5, <3>2 DEF TypeOK
    <3>4. FieldRequest(call[b].ty, call[b].optional) \in FieldAsked
      BY <2>2 DEF FieldRequest, FieldAsked
    <3>5. /\ items' \in [Builders -> [Names -> SchemeItem \cup {NoItem}]]
          /\ asked' \in [Builders -> [Names -> FieldAsked \cup FunctionAsked \cup {NotAsked}]]
          /\ returned' \in Returns
      BY <2>2, <2>5, <3>2, <3>4, InsertTyping DEF Kinds
    <3> QED  BY <1>3, <2>3, <3>2, <3>3, <3>5 DEF TypeOK, AddFieldInternal
  <2> QED  BY <1>3, <2>4, <2>5 DEF AddFieldInternal
<1>4. ASSUME NEW b \in Builders, NEW n \in Names, NEW d \in Definitions, AddFunction(b, n, d)
      PROVE  TypeOK'
  <2>1. CASE RejectOccupied(b, n)
    <3>1. returned' \in Returns
      BY <2>1, ErrTyping DEF RejectOccupied, IdentifierErrors
    <3> QED  BY <1>4, <2>1, <3>1 DEF TypeOK, RejectOccupied, AddFunction, store
  <2>2. CASE /\ InsertItem(b, n, "function", function_names[n], FunctionRequest(d))
             /\ UNCHANGED call
    <3>1. FunctionRequest(d) \in FunctionAsked /\ function_names[n] \in Nat
      BY DEF FunctionRequest, FunctionAsked, TypeOK
    <3> QED  BY <1>4, <2>2, <3>1, InsertTyping DEF TypeOK, AddFunction, store, Kinds
  <2>3. CASE /\ AwaitWrite(b, [op |-> "function", name |-> n, def |-> d])
             /\ UNCHANGED <<items, history>>
    <3>1. [op |-> "function", name |-> n, def |-> d] \in FunctionCall
      BY DEF FunctionCall
    <3>2. call' \in [Builders -> FieldCall \cup FunctionCall \cup ListCall \cup {NoCall}]
      BY <2>3, <3>1 DEF TypeOK, AwaitWrite
    <3> QED  BY <1>4, <2>3, <3>2 DEF TypeOK, AddFunction, store, history
  <2> QED  BY <1>4, <2>1, <2>2, <2>3 DEF AddFunction
<1>5. ASSUME NEW b \in Builders, AddFunctionInternal(b) PROVE TypeOK'
  <2> DEFINE n == call[b].name
  <2>1. call[b] \in Calls /\ call[b].op = "function"
    BY <1>5 DEF TypeOK, Calls, AddFunctionInternal
  <2>2. n \in Names /\ call[b].def \in Definitions
    BY <2>1, CallTyping
  <2>3. call' \in [Builders -> FieldCall \cup FunctionCall \cup ListCall \cup {NoCall}]
    BY <1>5 DEF TypeOK, AddFunctionInternal, EndCall
  <2>4. CASE /\ ReturnErr(b, "FunctionRedefinition", n)
             /\ UNCHANGED <<functions, function_names, items, asked>>
    <3>1. returned' \in Returns
      BY <2>2, <2>4, ErrTyping DEF IdentifierErrors
    <3> QED  BY <1>5, <2>3, <2>4, <3>1 DEF TypeOK, AddFunctionInternal
  <2> DEFINE d == [name |-> n, def |-> call[b].def]
  <2>5. CASE /\ functions' = Append(functions, d)
             /\ function_names' = [function_names EXCEPT ![n] = Len(functions) + 1]
             /\ InsertItem(b, n, "function", Len(functions) + 1, FunctionRequest(call[b].def))
    <3>1. d \in [name : Names, def : Definitions]
      BY <2>2
    <3>2. functions' \in Seq([name : Names, def : Definitions]) /\ Len(functions) + 1 \in Nat
      BY <2>5, <3>1, AppendTyping DEF TypeOK
    <3>3. function_names' \in [Names -> Nat]
      BY <2>2, <2>5, <3>2 DEF TypeOK
    <3>4. FunctionRequest(call[b].def) \in FunctionAsked
      BY <2>2 DEF FunctionRequest, FunctionAsked
    <3>5. /\ items' \in [Builders -> [Names -> SchemeItem \cup {NoItem}]]
          /\ asked' \in [Builders -> [Names -> FieldAsked \cup FunctionAsked \cup {NotAsked}]]
          /\ returned' \in Returns
      BY <2>2, <2>5, <3>2, <3>4, InsertTyping DEF Kinds
    <3> QED  BY <1>5, <2>3, <3>2, <3>3, <3>5 DEF TypeOK, AddFunctionInternal
  <2> QED  BY <1>5, <2>4, <2>5 DEF AddFunctionInternal
<1>6. ASSUME NEW b \in Builders, NEW t \in ListTypes, NEW d \in Definitions, AddList(b, t, d)
      PROVE  TypeOK'
  <2>1. t \in Types
    BY ListTypesAssumption
  <2>2. CASE ReturnListRedefinition(b, t) /\ UNCHANGED <<builder_lists, call>>
    BY <1>6, <2>1, <2>2, ListErrTyping DEF TypeOK, AddList, store
  <2>3. CASE /\ builder_lists' = [builder_lists EXCEPT ![b] = @ \cup {t}]
             /\ ReturnOk
             /\ UNCHANGED call
    BY <1>6, <2>1, <2>3 DEF TypeOK, AddList, store, ReturnOk, Returns
  <2>4. CASE /\ AwaitWrite(b, [op |-> "list", ty |-> t, def |-> d])
             /\ UNCHANGED <<builder_lists, returned>>
    <3>1. [op |-> "list", ty |-> t, def |-> d] \in ListCall
      BY <2>1 DEF ListCall
    <3>2. call' \in [Builders -> FieldCall \cup FunctionCall \cup ListCall \cup {NoCall}]
      BY <2>4, <3>1 DEF TypeOK, AwaitWrite
    <3> QED  BY <1>6, <2>4, <3>2 DEF TypeOK, AddList, store
  <2> QED  BY <1>6, <2>2, <2>3, <2>4 DEF AddList
<1>7. ASSUME NEW b \in Builders, AddListInternal(b) PROVE TypeOK'
  <2> DEFINE t == call[b].ty
  <2>1. call[b] \in Calls /\ call[b].op = "list"
    BY <1>7 DEF TypeOK, Calls, AddListInternal
  <2>2. t \in Types /\ call[b].def \in Definitions
    BY <2>1, CallTyping
  <2>3. call' \in [Builders -> FieldCall \cup FunctionCall \cup ListCall \cup {NoCall}]
    BY <1>7 DEF TypeOK, AddListInternal, EndCall
  <2>4. CASE ReturnListRedefinition(b, t) /\ UNCHANGED <<lists, list_types, builder_lists>>
    BY <1>7, <2>2, <2>3, <2>4, ListErrTyping DEF TypeOK, AddListInternal
  <2> DEFINE d == [ty |-> t, def |-> call[b].def]
  <2>5. CASE /\ lists' = Append(lists, d)
             /\ list_types' = [list_types EXCEPT ![t] = Len(lists) + 1]
             /\ builder_lists' = [builder_lists EXCEPT ![b] = @ \cup {t}]
             /\ ReturnOk
    <3>1. lists' \in Seq([ty : Types, def : Definitions]) /\ Len(lists) + 1 \in Nat
      BY <2>2, <2>5, AppendTyping DEF TypeOK
    <3>2. list_types' \in [Types -> Nat]
      BY <2>2, <2>5, <3>1 DEF TypeOK
    <3>3. builder_lists' \in [Builders -> SUBSET Types]
      BY <2>2, <2>5 DEF TypeOK
    <3>4. returned' \in Returns
      BY <2>5 DEF ReturnOk, Returns
    <3> QED  BY <1>7, <2>3, <3>1, <3>2, <3>3, <3>4 DEF TypeOK, AddListInternal
  <2> QED  BY <1>7, <2>4, <2>5 DEF AddListInternal
<1>8. ASSUME NEW b \in Builders, NEW v \in BOOLEAN, SetNilNotEqualBehavior(b, v) PROVE TypeOK'
  BY <1>8 DEF TypeOK, SetNilNotEqualBehavior, history
<1>9. ASSUME NEW b \in Builders, Build(b) PROVE TypeOK'
  BY <1>9 DEF TypeOK, Build, store, history
<1>10. ASSUME NEW b \in Builders, Drop(b) PROVE TypeOK'
  BY <1>10 DEF TypeOK, Drop, store, history
<1>11. CASE UNCHANGED vars
  BY <1>11 DEF TypeOK, vars, store, history
<1> QED
  BY <1>1, <1>2, <1>3, <1>4, <1>5, <1>6, <1>7, <1>8, <1>9, <1>10, <1>11 DEF Next

\* Type correctness: the vectors, the maps, the builders' items and the calls in
\* progress stay in their types in every execution.
THEOREM TypeCorrect == Spec => []TypeOK
  BY TypeInit, TypeStep, PTL DEF Spec
-----------------------------------------------------------------------------
\* The three vectors grow in the write-locked halves only.
FieldPushed(b)    == AddFieldInternal(b) /\ field_names[call[b].name] = None
FunctionPushed(b) == AddFunctionInternal(b) /\ function_names[call[b].name] = None
ListPushed(b)     == AddListInternal(b) /\ list_types[call[b].ty] = None

LEMMA OnlyPushes ==
  ASSUME [Next]_vars
  PROVE  /\ UNCHANGED <<fields, field_names>> \/ \E b \in Builders : FieldPushed(b)
         /\ UNCHANGED <<functions, function_names>> \/ \E b \in Builders : FunctionPushed(b)
         /\ UNCHANGED <<lists, list_types>> \/ \E b \in Builders : ListPushed(b)
<1> USE DEF store, history, FieldPushed, FunctionPushed, ListPushed
<1>1. ASSUME NEW b \in Builders,
             \/ New(b) \/ Build(b) \/ Drop(b)
             \/ \E v \in BOOLEAN : SetNilNotEqualBehavior(b, v)
             \/ \E n \in Names, t \in Types, o \in BOOLEAN : AddField(b, n, t, o)
             \/ \E n \in Names, d \in Definitions : AddFunction(b, n, d)
             \/ \E t \in ListTypes, d \in Definitions : AddList(b, t, d)
      PROVE  UNCHANGED <<fields, field_names, functions, function_names, lists, list_types>>
  BY <1>1 DEF New, Build, Drop, SetNilNotEqualBehavior, AddField, AddFunction, AddList
<1>2. ASSUME NEW b \in Builders, AddFieldInternal(b)
      PROVE  /\ UNCHANGED <<functions, function_names, lists, list_types>>
             /\ UNCHANGED <<fields, field_names>> \/ FieldPushed(b)
  BY <1>2 DEF AddFieldInternal
<1>3. ASSUME NEW b \in Builders, AddFunctionInternal(b)
      PROVE  /\ UNCHANGED <<fields, field_names, lists, list_types>>
             /\ UNCHANGED <<functions, function_names>> \/ FunctionPushed(b)
  BY <1>3 DEF AddFunctionInternal
<1>4. ASSUME NEW b \in Builders, AddListInternal(b)
      PROVE  /\ UNCHANGED <<fields, field_names, functions, function_names>>
             /\ UNCHANGED <<lists, list_types>> \/ ListPushed(b)
  BY <1>4 DEF AddListInternal
<1>5. CASE UNCHANGED vars
  BY <1>5 DEF vars
<1> QED  BY <1>1, <1>2, <1>3, <1>4, <1>5 DEF Next

\* What a push does to fields and field_names.
LEMMA FieldPush ==
  ASSUME TypeOK, NEW b \in Builders, FieldPushed(b)
  PROVE  LET n == call[b].name IN
         /\ n \in Names
         /\ field_names[n] = None
         /\ Len(fields) \in Nat
         /\ Len(fields') = Len(fields) + 1
         /\ \A i \in 1..Len(fields) : fields'[i] = fields[i]
         /\ fields'[Len(fields) + 1] =
              [name |-> n, ty |-> call[b].ty, optional |-> call[b].optional,
               scheme_id |-> scheme_id[b]]
         /\ fields'[Len(fields) + 1].name = n
         /\ fields'[Len(fields) + 1].ty = call[b].ty
         /\ fields'[Len(fields) + 1].optional = call[b].optional
         /\ fields'[Len(fields) + 1].scheme_id = scheme_id[b]
         /\ field_names' = [field_names EXCEPT ![n] = Len(fields) + 1]
<1>1. call[b] \in Calls /\ call[b].op = "field"
  BY DEF TypeOK, Calls, FieldPushed, AddFieldInternal
<1>2. call[b].name \in Names /\ call[b].ty \in Types /\ call[b].optional \in BOOLEAN
  BY <1>1, CallTyping
<1> DEFINE d == [name |-> call[b].name, ty |-> call[b].ty, optional |-> call[b].optional,
                 scheme_id |-> scheme_id[b]]
<1>3. d \in FieldDefinition /\ fields \in Seq(FieldDefinition)
  BY <1>2 DEF TypeOK, FieldDefinition
<1>4. fields' = Append(fields, d) /\ field_names' = [field_names EXCEPT ![call[b].name] = Len(fields) + 1]
  BY DEF FieldPushed, AddFieldInternal
<1>5. /\ Len(fields') = Len(fields) + 1
      /\ \A i \in 1..Len(fields) : fields'[i] = fields[i]
      /\ fields'[Len(fields) + 1] = d
  BY <1>3, <1>4, AppendTyping
<1> QED  BY <1>2, <1>3, <1>4, <1>5 DEF FieldPushed

\* What a push does to functions and function_names.
LEMMA FunctionPush ==
  ASSUME TypeOK, NEW b \in Builders, FunctionPushed(b)
  PROVE  LET n == call[b].name IN
         /\ n \in Names
         /\ function_names[n] = None
         /\ Len(functions) \in Nat
         /\ Len(functions') = Len(functions) + 1
         /\ \A i \in 1..Len(functions) : functions'[i] = functions[i]
         /\ functions'[Len(functions) + 1].name = n
         /\ functions'[Len(functions) + 1].def = call[b].def
         /\ function_names' = [function_names EXCEPT ![n] = Len(functions) + 1]
<1>1. call[b] \in Calls /\ call[b].op = "function"
  BY DEF TypeOK, Calls, FunctionPushed, AddFunctionInternal
<1>2. call[b].name \in Names /\ call[b].def \in Definitions
  BY <1>1, CallTyping
<1> DEFINE d == [name |-> call[b].name, def |-> call[b].def]
           S == [name : Names, def : Definitions]
<1>3. d \in S /\ functions \in Seq(S)
  BY <1>2 DEF TypeOK
<1>4. /\ functions' = Append(functions, d)
      /\ function_names' = [function_names EXCEPT ![call[b].name] = Len(functions) + 1]
  BY DEF FunctionPushed, AddFunctionInternal
<1> HIDE DEF S
<1>5. /\ Len(functions') = Len(functions) + 1
      /\ \A i \in 1..Len(functions) : functions'[i] = functions[i]
      /\ functions'[Len(functions) + 1] = d
  BY <1>3, <1>4, AppendTyping
<1> QED  BY <1>2, <1>3, <1>4, <1>5 DEF FunctionPushed

\* What a push does to lists and list_types.
LEMMA ListPush ==
  ASSUME TypeOK, NEW b \in Builders, ListPushed(b)
  PROVE  LET t == call[b].ty IN
         /\ t \in Types
         /\ list_types[t] = None
         /\ Len(lists) \in Nat
         /\ Len(lists') = Len(lists) + 1
         /\ \A i \in 1..Len(lists) : lists'[i] = lists[i]
         /\ lists'[Len(lists) + 1].ty = t
         /\ lists'[Len(lists) + 1].def = call[b].def
         /\ list_types' = [list_types EXCEPT ![t] = Len(lists) + 1]
<1>1. call[b] \in Calls /\ call[b].op = "list"
  BY DEF TypeOK, Calls, ListPushed, AddListInternal
<1>2. call[b].ty \in Types /\ call[b].def \in Definitions
  BY <1>1, CallTyping
<1> DEFINE d == [ty |-> call[b].ty, def |-> call[b].def]
           S == [ty : Types, def : Definitions]
<1>3. d \in S /\ lists \in Seq(S)
  BY <1>2 DEF TypeOK
<1>4. /\ lists' = Append(lists, d)
      /\ list_types' = [list_types EXCEPT ![call[b].ty] = Len(lists) + 1]
  BY DEF ListPushed, AddListInternal
<1> HIDE DEF S
<1>5. /\ Len(lists') = Len(lists) + 1
      /\ \A i \in 1..Len(lists) : lists'[i] = lists[i]
      /\ lists'[Len(lists) + 1] = d
  BY <1>3, <1>4, AppendTyping
<1> QED  BY <1>2, <1>3, <1>4, <1>5 DEF ListPushed

\* Pushing keeps the maps and the vectors in step, because the write-locked half
\* looks the name up again.
LEMMA StoreIndexedStep == TypeOK /\ StoreIndexed /\ [Next]_vars => StoreIndexed'
<1> SUFFICES ASSUME TypeOK, StoreIndexed, [Next]_vars PROVE StoreIndexed'
  OBVIOUS
<1> USE DEF StoreIndexed, None
<1>1. FieldIndex'
  <2>1. CASE UNCHANGED <<fields, field_names>>
    BY <2>1 DEF FieldIndex
  <2>2. ASSUME NEW b \in Builders, FieldPushed(b) PROVE FieldIndex'
    <3> DEFINE n == call[b].name
               L == Len(fields)
    <3>1. /\ n \in Names /\ field_names[n] = 0 /\ L \in Nat /\ Len(fields') = L + 1
          /\ \A i \in 1..L : fields'[i] = fields[i]
          /\ fields'[L + 1].name = n
          /\ field_names' = [field_names EXCEPT ![n] = L + 1]
      BY <2>2, FieldPush
    <3>2. \A i \in 1..L : fields[i].name \in Names
      <4>1. \A i \in 1..L : fields[i] \in FieldDefinition
        BY ElementTyping DEF TypeOK
      <4> QED  BY <4>1 DEF FieldDefinition
    <3>3. ASSUME NEW m \in Names, field_names'[m] # 0
          PROVE  field_names'[m] \in 1..Len(fields') /\ fields'[field_names'[m]].name = m
      <4>1. CASE m = n
        BY <3>1, <4>1 DEF TypeOK
      <4>2. CASE m # n
        <5>1. field_names'[m] = field_names[m]
          BY <3>1, <4>2 DEF TypeOK
        <5>2. field_names[m] \in 1..L /\ fields[field_names[m]].name = m
          BY <3>3, <5>1 DEF FieldIndex
        <5> QED  BY <3>1, <5>1, <5>2
      <4> QED  BY <4>1, <4>2
    <3>4. ASSUME NEW i \in 1..Len(fields') PROVE field_names'[fields'[i].name] = i
      <4>1. CASE i = L + 1
        BY <3>1, <4>1 DEF TypeOK
      <4>2. CASE i # L + 1
        <5>1. i \in 1..L /\ i # 0
          BY <3>1, <4>2
        <5>2. field_names[fields[i].name] = i /\ fields[i].name # n
          BY <3>1, <5>1 DEF FieldIndex
        <5> QED  BY <3>1, <3>2, <5>1, <5>2 DEF TypeOK
      <4> QED  BY <4>1, <4>2
    <3> QED  BY <3>3, <3>4 DEF FieldIndex
  <2> QED  BY <2>1, <2>2, OnlyPushes
<1>2. FunctionIndex'
  <2>1. CASE UNCHANGED <<functions, function_names>>
    BY <2>1 DEF FunctionIndex
  <2>2. ASSUME NEW b \in Builders, FunctionPushed(b) PROVE FunctionIndex'
    <3> DEFINE n == call[b].name
               L == Len(functions)
    <3>1. /\ n \in Names /\ function_names[n] = 0 /\ L \in Nat /\ Len(functions') = L + 1
          /\ \A i \in 1..L : functions'[i] = functions[i]
          /\ functions'[L + 1].name = n
          /\ function_names' = [function_names EXCEPT ![n] = L + 1]
      BY <2>2, FunctionPush
    <3>2. \A i \in 1..L : functions[i].name \in Names
      <4>1. \A i \in 1..L : functions[i] \in [name : Names, def : Definitions]
        BY ElementTyping DEF TypeOK
      <4> QED  BY <4>1
    <3>3. ASSUME NEW m \in Names, function_names'[m] # 0
          PROVE  function_names'[m] \in 1..Len(functions') /\ functions'[function_names'[m]].name = m
      <4>1. CASE m = n
        BY <3>1, <4>1 DEF TypeOK
      <4>2. CASE m # n
        <5>1. function_names'[m] = function_names[m]
          BY <3>1, <4>2 DEF TypeOK
        <5>2. function_names[m] \in 1..L /\ functions[function_names[m]].name = m
          BY <3>3, <5>1 DEF FunctionIndex
        <5> QED  BY <3>1, <5>1, <5>2
      <4> QED  BY <4>1, <4>2
    <3>4. ASSUME NEW i \in 1..Len(functions') PROVE function_names'[functions'[i].name] = i
      <4>1. CASE i = L + 1
        BY <3>1, <4>1 DEF TypeOK
      <4>2. CASE i # L + 1
        <5>1. i \in 1..L /\ i # 0
          BY <3>1, <4>2
        <5>2. function_names[functions[i].name] = i /\ functions[i].name # n
          BY <3>1, <5>1 DEF FunctionIndex
        <5> QED  BY <3>1, <3>2, <5>1, <5>2 DEF TypeOK
      <4> QED  BY <4>1, <4>2
    <3> QED  BY <3>3, <3>4 DEF FunctionIndex
  <2> QED  BY <2>1, <2>2, OnlyPushes
<1>3. ListIndex'
  <2>1. CASE UNCHANGED <<lists, list_types>>
    BY <2>1 DEF ListIndex
  <2>2. ASSUME NEW b \in Builders, ListPushed(b) PROVE ListIndex'
    <3> DEFINE n == call[b].ty
               L == Len(lists)
    <3>1. /\ n \in Types /\ list_types[n] = 0 /\ L \in Nat /\ Len(lists') = L + 1
          /\ \A i \in 1..L : lists'[i] = lists[i]
          /\ lists'[L + 1].ty = n
          /\ list_types' = [list_types EXCEPT ![n] = L + 1]
      BY <2>2, ListPush
    <3>2. \A i \in 1..L : lists[i].ty \in Types
      <4>1. \A i \in 1..L : lists[i] \in [ty : Types, def : Definitions]
        BY ElementTyping DEF TypeOK
      <4> QED  BY <4>1
    <3>3. ASSUME NEW m \in Types, list_types'[m] # 0
          PROVE  list_types'[m] \in 1..Len(lists') /\ lists'[list_types'[m]].ty = m
      <4>1. CASE m = n
        BY <3>1, <4>1 DEF TypeOK
      <4>2. CASE m # n
        <5>1. list_types'[m] = list_types[m]
          BY <3>1, <4>2 DEF TypeOK
        <5>2. list_types[m] \in 1..L /\ lists[list_types[m]].ty = m
          BY <3>3, <5>1 DEF ListIndex
        <5> QED  BY <3>1, <5>1, <5>2
      <4> QED  BY <4>1, <4>2
    <3>4. ASSUME NEW i \in 1..Len(lists') PROVE list_types'[lists'[i].ty] = i
      <4>1. CASE i = L + 1
        BY <3>1, <4>1 DEF TypeOK
      <4>2. CASE i # L + 1
        <5>1. i \in 1..L /\ i # 0
          BY <3>1, <4>2
        <5>2. list_types[lists[i].ty] = i /\ lists[i].ty # n
          BY <3>1, <5>1 DEF ListIndex
        <5> QED  BY <3>1, <3>2, <5>1, <5>2 DEF TypeOK
      <4> QED  BY <4>1, <4>2
    <3> QED  BY <3>3, <3>4 DEF ListIndex
  <2> QED  BY <2>1, <2>2, OnlyPushes
<1> QED  BY <1>1, <1>2, <1>3
-----------------------------------------------------------------------------
\* Definitions stay where they are and names keep their index.
LEMMA StoreGrows ==
  ASSUME TypeOK, [Next]_vars
  PROVE  /\ \A i \in 1..Len(fields) : i \in 1..Len(fields') /\ fields'[i] = fields[i]
         /\ \A i \in 1..Len(functions) : i \in 1..Len(functions') /\ functions'[i] = functions[i]
         /\ \A i \in 1..Len(lists) : i \in 1..Len(lists') /\ lists'[i] = lists[i]
         /\ \A n \in Names : field_names[n] # 0 => field_names'[n] = field_names[n]
         /\ \A n \in Names : function_names[n] # 0 => function_names'[n] = function_names[n]
         /\ \A t \in Types : list_types[t] # 0 => list_types'[t] = list_types[t]
<1> USE DEF None
<1>1. /\ \A i \in 1..Len(fields) : i \in 1..Len(fields') /\ fields'[i] = fields[i]
      /\ \A n \in Names : field_names[n] # 0 => field_names'[n] = field_names[n]
  <2>1. CASE UNCHANGED <<fields, field_names>>
    BY <2>1
  <2>2. ASSUME NEW b \in Builders, FieldPushed(b)
        PROVE  /\ \A i \in 1..Len(fields) : i \in 1..Len(fields') /\ fields'[i] = fields[i]
               /\ \A n \in Names : field_names[n] # 0 => field_names'[n] = field_names[n]
    <3> DEFINE m == call[b].name
               L == Len(fields)
    <3>1. /\ m \in Names /\ field_names[m] = 0 /\ L \in Nat /\ Len(fields') = L + 1
          /\ \A i \in 1..L : fields'[i] = fields[i]
          /\ field_names' = [field_names EXCEPT ![m] = L + 1]
      BY <2>2, FieldPush
    <3>2. \A i \in 1..L : i \in 1..Len(fields') /\ fields'[i] = fields[i]
      BY <3>1
    <3>3. \A n \in Names : field_names[n] # 0 => field_names'[n] = field_names[n]
      BY <3>1 DEF TypeOK
    <3> QED  BY <3>2, <3>3
  <2> QED  BY <2>1, <2>2, OnlyPushes
<1>2. /\ \A i \in 1..Len(functions) : i \in 1..Len(functions') /\ functions'[i] = functions[i]
      /\ \A n \in Names : function_names[n] # 0 => function_names'[n] = function_names[n]
  <2>1. CASE UNCHANGED <<functions, function_names>>
    BY <2>1
  <2>2. ASSUME NEW b \in Builders, FunctionPushed(b)
        PROVE  /\ \A i \in 1..Len(functions) : i \in 1..Len(functions') /\ functions'[i] = functions[i]
               /\ \A n \in Names : function_names[n] # 0 => function_names'[n] = function_names[n]
    <3> DEFINE m == call[b].name
               L == Len(functions)
    <3>1. /\ m \in Names /\ function_names[m] = 0 /\ L \in Nat /\ Len(functions') = L + 1
          /\ \A i \in 1..L : functions'[i] = functions[i]
          /\ function_names' = [function_names EXCEPT ![m] = L + 1]
      BY <2>2, FunctionPush
    <3>2. \A i \in 1..L : i \in 1..Len(functions') /\ functions'[i] = functions[i]
      BY <3>1
    <3>3. \A n \in Names : function_names[n] # 0 => function_names'[n] = function_names[n]
      BY <3>1 DEF TypeOK
    <3> QED  BY <3>2, <3>3
  <2> QED  BY <2>1, <2>2, OnlyPushes
<1>3. /\ \A i \in 1..Len(lists) : i \in 1..Len(lists') /\ lists'[i] = lists[i]
      /\ \A t \in Types : list_types[t] # 0 => list_types'[t] = list_types[t]
  <2>1. CASE UNCHANGED <<lists, list_types>>
    BY <2>1
  <2>2. ASSUME NEW b \in Builders, ListPushed(b)
        PROVE  /\ \A i \in 1..Len(lists) : i \in 1..Len(lists') /\ lists'[i] = lists[i]
               /\ \A t \in Types : list_types[t] # 0 => list_types'[t] = list_types[t]
    <3> DEFINE m == call[b].ty
               L == Len(lists)
    <3>1. /\ m \in Types /\ list_types[m] = 0 /\ L \in Nat /\ Len(lists') = L + 1
          /\ \A i \in 1..L : lists'[i] = lists[i]
          /\ list_types' = [list_types EXCEPT ![m] = L + 1]
      BY <2>2, ListPush
    <3>2. \A i \in 1..L : i \in 1..Len(lists') /\ lists'[i] = lists[i]
      BY <3>1
    <3>3. \A t \in Types : list_types[t] # 0 => list_types'[t] = list_types[t]
      BY <3>1 DEF TypeOK
    <3> QED  BY <3>2, <3>3
  <2> QED  BY <2>1, <2>2, OnlyPushes
<1> QED  BY <1>1, <1>2, <1>3

\* An item is inserted for a name that had none, with the index of the store's
\* definition of that name, whose type is the one asked for.
Insertion(b, n, k, i, r) ==
  /\ InsertItem(b, n, k, i, r)
  /\ items[b][n] = NoItem
  /\ r.kind = k
  /\ k = "field" => /\ i \in 1..Len(fields') /\ i = field_names'[n]
                    /\ fields'[i].ty = r.ty
  /\ k = "function" => i \in 1..Len(functions') /\ i = function_names'[n]

Inserts == \E b \in Builders, n \in Names, k \in Kinds, i \in Nat,
             r \in FieldAsked \cup FunctionAsked : Insertion(b, n, k, i, r)

LEMMA FieldPushInserts ==
  ASSUME TypeOK, PendingCalls, NEW b \in Builders, FieldPushed(b)
  PROVE  Insertion(b, call[b].name, "field", Len(fields) + 1,
                   FieldRequest(call[b].ty, call[b].optional))
<1> DEFINE n == call[b].name
<1>1. /\ n \in Names /\ Len(fields) \in Nat /\ Len(fields') = Len(fields) + 1
      /\ fields'[Len(fields) + 1].ty = call[b].ty
      /\ field_names' = [field_names EXCEPT ![n] = Len(fields) + 1]
  BY FieldPush
<1>2. InsertItem(b, n, "field", Len(fields) + 1, FieldRequest(call[b].ty, call[b].optional))
  BY DEF FieldPushed, AddFieldInternal, None
<1>3. items[b][n] = NoItem
  BY DEF PendingCalls, FieldPushed, AddFieldInternal, NoCall
<1>4. field_names'[n] = Len(fields) + 1
  BY <1>1 DEF TypeOK
<1> QED  BY <1>1, <1>2, <1>3, <1>4 DEF Insertion, FieldRequest

LEMMA FunctionPushInserts ==
  ASSUME TypeOK, PendingCalls, NEW b \in Builders, FunctionPushed(b)
  PROVE  Insertion(b, call[b].name, "function", Len(functions) + 1, FunctionRequest(call[b].def))
<1> DEFINE n == call[b].name
<1>1. /\ n \in Names /\ Len(functions) \in Nat /\ Len(functions') = Len(functions) + 1
      /\ function_names' = [function_names EXCEPT ![n] = Len(functions) + 1]
  BY FunctionPush
<1>2. InsertItem(b, n, "function", Len(functions) + 1, FunctionRequest(call[b].def))
  BY DEF FunctionPushed, AddFunctionInternal, None
<1>3. items[b][n] = NoItem
  BY DEF PendingCalls, FunctionPushed, AddFunctionInternal, NoCall
<1>4. function_names'[n] = Len(functions) + 1
  BY <1>1 DEF TypeOK
<1> QED  BY <1>1, <1>2, <1>3, <1>4 DEF Insertion, FunctionRequest

LEMMA OnlyInsertions ==
  ASSUME TypeOK, StoreIndexed, PendingCalls, [Next]_vars
  PROVE  UNCHANGED <<items, asked>> \/ Inserts
<1> USE DEF store, history, None
<1>1. ASSUME NEW b \in Builders, NEW n \in Names, NEW t \in Types, NEW o \in BOOLEAN,
             AddField(b, n, t, o)
      PROVE  UNCHANGED <<items, asked>> \/ Inserts
  <2>1. CASE UNCHANGED <<items, asked>>
    BY <2>1
  <2>2. CASE /\ items[b][n] = NoItem /\ field_names[n] # 0 /\ fields[field_names[n]].ty = t
             /\ InsertItem(b, n, "field", field_names[n], FieldRequest(t, o))
    <3>1. field_names[n] \in 1..Len(fields) /\ field_names[n] \in Nat
      BY <2>2 DEF StoreIndexed, FieldIndex, TypeOK
    <3>2. UNCHANGED <<fields, field_names>>
      BY <1>1 DEF AddField
    <3>3. FieldRequest(t, o) \in FieldAsked
      BY DEF FieldRequest, FieldAsked
    <3>4. Insertion(b, n, "field", field_names[n], FieldRequest(t, o))
      BY <2>2, <3>1, <3>2 DEF Insertion, FieldRequest
    <3> QED  BY <3>1, <3>3, <3>4 DEF Inserts, Kinds
  <2> QED  BY <1>1, <2>1, <2>2 DEF AddField, RejectOccupied
<1>2. ASSUME NEW b \in Builders, AddFieldInternal(b)
      PROVE  UNCHANGED <<items, asked>> \/ Inserts
  <2>1. CASE field_names[call[b].name] = 0
    <3>1. FieldPushed(b)
      BY <1>2, <2>1 DEF FieldPushed
    <3>2. call[b].name \in Names /\ call[b].ty \in Types /\ call[b].optional \in BOOLEAN
      BY <1>2, CallTyping DEF TypeOK, Calls, AddFieldInternal
    <3>3. FieldRequest(call[b].ty, call[b].optional) \in FieldAsked
      BY <3>2 DEF FieldRequest, FieldAsked
    <3>4. Len(fields) + 1 \in Nat
      BY DEF TypeOK
    <3> QED  BY <3>1, <3>2, <3>3, <3>4, FieldPushInserts DEF Inserts, Kinds
  <2>2. CASE field_names[call[b].name] # 0
    BY <1>2, <2>2 DEF AddFieldInternal
  <2> QED  BY <2>1, <2>2
<1>3. ASSUME NEW b \in Builders, NEW n \in Names, NEW d \in Definitions, AddFunction(b, n, d)
      PROVE  UNCHANGED <<items, asked>> \/ Inserts
  <2>1. CASE UNCHANGED <<items, asked>>
    BY <2>1
  <2>2. CASE /\ items[b][n] = NoItem /\ function_names[n] # 0
             /\ InsertItem(b, n, "function", function_names[n], FunctionRequest(d))
    <3>1. function_names[n] \in 1..Len(functions) /\ function_names[n] \in Nat
      BY <2>2 DEF StoreIndexed, FunctionIndex, TypeOK
    <3>2. UNCHANGED <<functions, function_names>>
      BY <1>3 DEF AddFunction
    <3>3. FunctionRequest(d) \in FunctionAsked
      BY DEF FunctionRequest, FunctionAsked
    <3>4. Insertion(b, n, "function", function_names[n], FunctionRequest(d))
      BY <2>2, <3>1, <3>2 DEF Insertion, FunctionRequest
    <3> QED  BY <3>1, <3>3, <3>4 DEF Inserts, Kinds
  <2> QED  BY <1>3, <2>1, <2>2 DEF AddFunction, RejectOccupied
<1>4. ASSUME NEW b \in Builders, AddFunctionInternal(b)
      PROVE  UNCHANGED <<items, asked>> \/ Inserts
  <2>1. CASE function_names[call[b].name] = 0
    <3>1. FunctionPushed(b)
      BY <1>4, <2>1 DEF FunctionPushed
    <3>2. call[b].name \in Names /\ call[b].def \in Definitions
      BY <1>4, CallTyping DEF TypeOK, Calls, AddFunctionInternal
    <3>3. FunctionRequest(call[b].def) \in FunctionAsked
      BY <3>2 DEF FunctionRequest, FunctionAsked
    <3>4. Len(functions) + 1 \in Nat
      BY DEF TypeOK
    <3> QED  BY <3>1, <3>2, <3>3, <3>4, FunctionPushInserts DEF Inserts, Kinds
  <2>2. CASE function_names[call[b].name] # 0
    BY <1>4, <2>2 DEF AddFunctionInternal
  <2> QED  BY <2>1, <2>2
<1>5. ASSUME NEW b \in Builders,
             \/ New(b) \/ Build(b) \/ Drop(b) \/ AddListInternal(b)
             \/ \E v \in BOOLEAN : SetNilNotEqualBehavior(b, v)
             \/ \E t \in ListTypes, d \in Definitions : AddList(b, t, d)
      PROVE  UNCHANGED <<items, asked>>
  BY <1>5 DEF New, Build, Drop, SetNilNotEqualBehavior, AddList, AddListInternal
<1>6. CASE UNCHANGED vars
  BY <1>6 DEF vars
<1> QED  BY <1>1, <1>2, <1>3, <1>4, <1>5, <1>6 DEF Next

\* An item that is there is never replaced.
LEMMA ItemsKept ==
  ASSUME TypeOK, StoreIndexed, PendingCalls, [Next]_vars,
         NEW b \in Builders, NEW n \in Names, items[b][n] # NoItem
  PROVE  items'[b][n] = items[b][n] /\ asked'[b][n] = asked[b][n]
<1>1. CASE UNCHANGED <<items, asked>>
  BY <1>1
<1>2. ASSUME NEW c \in Builders, NEW m \in Names, NEW k, NEW i, NEW r, Insertion(c, m, k, i, r)
      PROVE  items'[b][n] = items[b][n] /\ asked'[b][n] = asked[b][n]
  <2>1. /\ items' = [items EXCEPT ![c][m] = [kind |-> k, index |-> i]]
        /\ asked' = [asked EXCEPT ![c][m] = r]
        /\ c # b \/ m # n
    BY <1>2 DEF Insertion, InsertItem
  <2> QED  BY <2>1 DEF TypeOK
<1> QED  BY <1>1, <1>2, OnlyInsertions DEF Inserts

\* A builder lists only types that the store has a list for.
LEMMA ListsKept ==
  ASSUME TypeOK, StoreIndexed, [Next]_vars, NEW b \in Builders, NEW t \in builder_lists'[b]
  PROVE  t \in builder_lists[b] \/ (t \in Types /\ list_types'[t] # None)
<1> USE ListTypesAssumption DEF store, history, None
<1>1. ASSUME NEW c \in Builders, NEW u \in ListTypes, NEW d \in Definitions, AddList(c, u, d)
      PROVE  t \in builder_lists[b] \/ (t \in Types /\ list_types'[t] # 0)
  <2>1. CASE UNCHANGED builder_lists
    BY <2>1
  <2>2. CASE /\ list_types[u] # 0
             /\ builder_lists' = [builder_lists EXCEPT ![c] = @ \cup {u}]
    <3>1. list_types' = list_types
      BY <1>1 DEF AddList
    <3>2. t \in builder_lists[b] \/ t = u
      BY <2>2 DEF TypeOK
    <3> QED  BY <2>2, <3>1, <3>2
  <2> QED  BY <1>1, <2>1, <2>2 DEF AddList
<1>2. ASSUME NEW c \in Builders, AddListInternal(c)
      PROVE  t \in builder_lists[b] \/ (t \in Types /\ list_types'[t] # 0)
  <2>1. CASE list_types[call[c].ty] # 0
    BY <1>2, <2>1 DEF AddListInternal
  <2>2. CASE list_types[call[c].ty] = 0
    <3>1. ListPushed(c)
      BY <1>2, <2>2 DEF ListPushed
    <3> DEFINE u == call[c].ty
    <3>2. /\ u \in Types /\ Len(lists) \in Nat
          /\ list_types' = [list_types EXCEPT ![u] = Len(lists) + 1]
      BY <3>1, ListPush
    <3>3. builder_lists' = [builder_lists EXCEPT ![c] = @ \cup {u}]
      BY <1>2, <2>2 DEF AddListInternal
    <3>4. list_types'[u] # 0
      BY <3>2 DEF TypeOK
    <3>5. t \in builder_lists[b] \/ t = u
      BY <3>3 DEF TypeOK
    <3> QED  BY <3>2, <3>4, <3>5
  <2> QED  BY <2>1, <2>2
<1>3. CASE UNCHANGED builder_lists
  BY <1>3
<1>4. ASSUME NEW c \in Builders,
             \/ New(c) \/ Build(c) \/ Drop(c) \/ AddFieldInternal(c) \/ AddFunctionInternal(c)
             \/ \E v \in BOOLEAN : SetNilNotEqualBehavior(c, v)
             \/ \E n \in Names, y \in Types, o \in BOOLEAN : AddField(c, n, y, o)
             \/ \E n \in Names, d \in Definitions : AddFunction(c, n, d)
      PROVE  UNCHANGED builder_lists
  BY <1>4 DEF New, Build, Drop, SetNilNotEqualBehavior, AddField, AddFunction,
              AddFieldInternal, AddFunctionInternal
<1>5. CASE UNCHANGED vars
  BY <1>3, <1>5 DEF vars
<1> QED  BY <1>1, <1>2, <1>3, <1>4, <1>5 DEF Next

\* What a scheme's identifiers resolve to survives every step of every builder:
\* the store only grows (StoreGrows) and a new item points at the definition its
\* builder asked for (OnlyInsertions).
LEMMA ItemsResolveStep ==
  TypeOK /\ StoreIndexed /\ PendingCalls /\ ItemsResolve /\ [Next]_vars => ItemsResolve'
<1> SUFFICES ASSUME TypeOK, StoreIndexed, PendingCalls, ItemsResolve, [Next]_vars
             PROVE  ItemsResolve'
  OBVIOUS
<1> USE DEF None
<1> DEFINE FieldPart(b, n) ==
             items[b][n].kind = "field" =>
               /\ items[b][n].index \in 1..Len(fields)
               /\ items[b][n].index = field_names[n]
               /\ asked[b][n].kind = "field"
               /\ FieldAt(b, n).ty = asked[b][n].ty
           FunctionPart(b, n) ==
             items[b][n].kind = "function" =>
               /\ items[b][n].index \in 1..Len(functions)
               /\ items[b][n].index = function_names[n]
               /\ asked[b][n].kind = "function"
<1>1. ASSUME NEW b \in Builders, NEW n \in Names,
             items'[b][n] = items[b][n], asked'[b][n] = asked[b][n]
      PROVE  FieldPart(b, n)' /\ FunctionPart(b, n)'
  <2>1. CASE items[b][n].kind = "field"
    <3> DEFINE i == items[b][n].index
    <3>1. /\ i \in 1..Len(fields) /\ i = field_names[n] /\ asked[b][n].kind = "field"
          /\ fields[i].ty = asked[b][n].ty
      BY <2>1 DEF ItemsResolve, FieldAt
    <3>2. i # 0
      BY <3>1
    <3>3. i \in 1..Len(fields') /\ fields'[i] = fields[i] /\ field_names'[n] = field_names[n]
      BY <3>1, <3>2, StoreGrows
    <3> QED  BY <1>1, <2>1, <3>1, <3>3 DEF FieldAt
  <2>2. CASE items[b][n].kind = "function"
    <3> DEFINE i == items[b][n].index
    <3>1. i \in 1..Len(functions) /\ i = function_names[n] /\ asked[b][n].kind = "function"
      BY <2>2 DEF ItemsResolve
    <3>2. i # 0
      BY <3>1
    <3>3. i \in 1..Len(functions') /\ function_names'[n] = function_names[n]
      BY <3>1, <3>2, StoreGrows
    <3> QED  BY <1>1, <2>2, <3>1, <3>3
  <2> QED  BY <1>1, <2>1, <2>2
<1>2. ASSUME NEW b \in Builders, NEW n \in Names, NEW k \in Kinds, NEW i \in Nat,
             NEW r \in FieldAsked \cup FunctionAsked, Insertion(b, n, k, i, r)
      PROVE  FieldPart(b, n)' /\ FunctionPart(b, n)'
  <2>1. items'[b][n] = [kind |-> k, index |-> i] /\ asked'[b][n] = r
    BY <1>2 DEF Insertion, InsertItem, TypeOK
  <2> QED  BY <1>2, <2>1 DEF Insertion, Kinds, FieldAt
<1>3. \A b \in Builders, n \in Names : FieldPart(b, n)' /\ FunctionPart(b, n)'
  <2>1. CASE UNCHANGED <<items, asked>>
    BY <1>1, <2>1
  <2>2. ASSUME NEW c \in Builders, NEW m \in Names, NEW k \in Kinds, NEW i \in Nat,
               NEW r \in FieldAsked \cup FunctionAsked, Insertion(c, m, k, i, r),
               NEW b \in Builders, NEW n \in Names
        PROVE  FieldPart(b, n)' /\ FunctionPart(b, n)'
    <3>1. CASE b = c /\ n = m
      BY <1>2, <2>2, <3>1
    <3>2. CASE ~(b = c /\ n = m)
      <4>1. items'[b][n] = items[b][n] /\ asked'[b][n] = asked[b][n]
        BY <2>2, <3>2 DEF Insertion, InsertItem, TypeOK
      <4> QED  BY <1>1, <4>1
    <3> QED  BY <3>1, <3>2
  <2> QED  BY <2>1, <2>2, OnlyInsertions DEF Inserts
<1>4. ASSUME NEW b \in Builders, NEW t \in builder_lists'[b] PROVE list_types'[t] # 0
  <2>1. CASE t \in builder_lists[b]
    <3>1. t \in Types /\ list_types[t] # 0 /\ list_types[t] = list_types[t]
      BY <2>1 DEF ItemsResolve, TypeOK
    <3> QED  BY <3>1, StoreGrows
  <2> QED  BY <2>1, ListsKept
<1> QED  BY <1>3, <1>4 DEF ItemsResolve

\* A step changes the phase, the call and the items of one builder.
Frame(b) == \A a \in Builders : a # b =>
  /\ phase'[a] = phase[a] /\ call'[a] = call[a]
  /\ items'[a] = items[a] /\ scheme_id'[a] = scheme_id[a]


\* A call between its two locks: PendingCalls for one builder.
Pending(b) == call[b] # NoCall =>
  /\ phase[b] = "open"
  /\ call[b].op \in {"field", "function"} => items[b][call[b].name] = NoItem

LEMMA Frames ==
  ASSUME TypeOK, PendingCalls, Next
  PROVE  \E c \in Builders : Frame(c) /\ Pending(c)'
<1> USE DEF store, history, TypeOK, PendingCalls, Pending, Frame, Ready, ReturnOk,
            RejectOccupied, InsertItem, AwaitWrite, EndCall
<1>1. ASSUME NEW c \in Builders, NEW n \in Names, NEW t \in Types, NEW o \in BOOLEAN,
             AddField(c, n, t, o)
      PROVE  Frame(c) /\ Pending(c)'
  BY <1>1 DEF AddField
<1>2. ASSUME NEW c \in Builders, AddFieldInternal(c) PROVE Frame(c) /\ Pending(c)'
  BY <1>2 DEF AddFieldInternal
<1>3. ASSUME NEW c \in Builders, NEW n \in Names, NEW d \in Definitions, AddFunction(c, n, d)
      PROVE  Frame(c) /\ Pending(c)'
  BY <1>3 DEF AddFunction
<1>4. ASSUME NEW c \in Builders, AddFunctionInternal(c) PROVE Frame(c) /\ Pending(c)'
  BY <1>4 DEF AddFunctionInternal
<1>5. ASSUME NEW c \in Builders, NEW t \in ListTypes, NEW d \in Definitions, AddList(c, t, d)
      PROVE  Frame(c) /\ Pending(c)'
  BY <1>5 DEF AddList
<1>6. ASSUME NEW c \in Builders, AddListInternal(c) PROVE Frame(c) /\ Pending(c)'
  BY <1>6 DEF AddListInternal
<1>7. ASSUME NEW c \in Builders, New(c) PROVE Frame(c) /\ Pending(c)'
  BY <1>7 DEF New
<1>8. ASSUME NEW c \in Builders, \E v \in BOOLEAN : SetNilNotEqualBehavior(c, v)
      PROVE  Frame(c) /\ Pending(c)'
  BY <1>8 DEF SetNilNotEqualBehavior
<1>9. ASSUME NEW c \in Builders, Build(c) \/ Drop(c) PROVE Frame(c) /\ Pending(c)'
  BY <1>9 DEF Build, Drop
<1> QED
  BY <1>1, <1>2, <1>3, <1>4, <1>5, <1>6, <1>7, <1>8, <1>9 DEF Next

LEMMA PendingCallsStep == TypeOK /\ PendingCalls /\ [Next]_vars => PendingCalls'
<1> SUFFICES ASSUME TypeOK, PendingCalls, [Next]_vars PROVE PendingCalls'
  OBVIOUS
<1>1. CASE UNCHANGED vars
  BY <1>1 DEF vars, PendingCalls
<1>2. CASE Next
  <2>1. PICK c \in Builders : Frame(c) /\ Pending(c)'
    BY <1>2, Frames
  <2>2. ASSUME NEW a \in Builders, a # c PROVE Pending(a)'
    BY <2>1, <2>2 DEF Frame, Pending, PendingCalls
  <2> QED  BY <2>1, <2>2 DEF Pending, PendingCalls
<1> QED  BY <1>1, <1>2

\* Ids are handed out once: allocate_scheme_id reads and increments under one
\* write lock.
LEMMA IdsStep ==
  ASSUME TypeOK, PendingCalls, [Next]_vars
  PROVE  /\ next_scheme_id \in Nat /\ next_scheme_id' \in Nat
         /\ \A b \in Builders : Created(b) => Created(b)' /\ scheme_id'[b] = scheme_id[b]
         /\ \/ /\ next_scheme_id' = next_scheme_id
               /\ \A b \in Builders : Created(b)' => Created(b)
            \/ /\ next_scheme_id' = next_scheme_id + 1
               /\ \E b \in Builders :
                    /\ scheme_id'[b] = next_scheme_id
                    /\ \A a \in Builders : Created(a)' => Created(a) \/ a = b
<1> USE DEF store, history, TypeOK, PendingCalls, Created, Ready
<1>1. ASSUME NEW b \in Builders, New(b)
      PROVE  /\ next_scheme_id' = next_scheme_id + 1
             /\ scheme_id'[b] = next_scheme_id
             /\ \A a \in Builders : Created(a)' => Created(a) \/ a = b
             /\ \A a \in Builders : Created(a) => Created(a)' /\ scheme_id'[a] = scheme_id[a]
  BY <1>1 DEF New
<1>2. ASSUME NEW b \in Builders,
             \/ AddFieldInternal(b) \/ AddFunctionInternal(b) \/ AddListInternal(b)
             \/ \E v \in BOOLEAN : SetNilNotEqualBehavior(b, v)
             \/ \E n \in Names, t \in Types, o \in BOOLEAN : AddField(b, n, t, o)
             \/ \E n \in Names, d \in Definitions : AddFunction(b, n, d)
             \/ \E t \in ListTypes, d \in Definitions : AddList(b, t, d)
      PROVE  UNCHANGED <<next_scheme_id, phase, scheme_id>>
  BY <1>2 DEF AddField, AddFunction, AddList, AddFieldInternal, AddFunctionInternal,
              AddListInternal, SetNilNotEqualBehavior
<1>3. ASSUME NEW b \in Builders, Build(b) \/ Drop(b)
      PROVE  /\ UNCHANGED <<next_scheme_id, scheme_id>>
             /\ \A a \in Builders : Created(a)' <=> Created(a)
  BY <1>3 DEF Build, Drop
<1>4. CASE UNCHANGED vars
  BY <1>4 DEF vars
<1>5. next_scheme_id \in Nat
  OBVIOUS
<1> QED  BY <1>1, <1>2, <1>3, <1>4, <1>5 DEF Next

LEMMA IdsBelowStep == TypeOK /\ PendingCalls /\ IdsBelow /\ [Next]_vars => IdsBelow'
<1> SUFFICES ASSUME TypeOK, PendingCalls, IdsBelow, [Next]_vars, NEW a \in Builders, Created(a)'
             PROVE  scheme_id'[a] < next_scheme_id'
  BY DEF IdsBelow
<1>1. CASE Created(a)
  <2>1. scheme_id[a] \in Nat /\ scheme_id[a] < next_scheme_id
    BY <1>1 DEF IdsBelow, TypeOK
  <2> QED  BY <1>1, <2>1, IdsStep
<1>2. CASE ~Created(a)
  BY <1>2, IdsStep
<1> QED  BY <1>1, <1>2

LEMMA SchemeIdsIdentifyStep ==
  /\ TypeOK /\ StoreIndexed /\ PendingCalls /\ IdsBelow /\ SchemeIdsIdentify
  /\ [Next]_vars
  => SchemeIdsIdentify'
<1> SUFFICES ASSUME TypeOK, StoreIndexed, PendingCalls, IdsBelow, SchemeIdsIdentify, [Next]_vars
             PROVE  SchemeIdsIdentify'
  OBVIOUS
<1>1. ASSUME NEW a \in Builders, NEW b \in Builders, Created(a)', Created(b)',
             scheme_id'[a] = scheme_id'[b]
      PROVE  a = b
  <2>1. \A c \in Builders : Created(c) => scheme_id[c] \in Nat /\ scheme_id[c] < next_scheme_id
    BY DEF IdsBelow, TypeOK
  <2>2. \A c \in Builders : Created(c) => scheme_id'[c] = scheme_id[c]
    BY IdsStep
  <2>3. CASE Created(a) /\ Created(b)
    BY <1>1, <2>2, <2>3 DEF SchemeIdsIdentify
  <2>4. CASE ~(Created(a) /\ Created(b))
    <3>1. PICK c \in Builders :
            /\ scheme_id'[c] = next_scheme_id
            /\ \A e \in Builders : Created(e)' => Created(e) \/ e = c
      BY <1>1, <2>4, IdsStep
    <3> QED  BY <1>1, <2>1, <2>2, <2>4, <3>1, IdsStep
  <2> QED  BY <2>3, <2>4
<1> DEFINE Owner(b, i) == /\ Created(b)
                          /\ scheme_id[b] = fields[i].scheme_id
                          /\ items[b][fields[i].name] = [kind |-> "field", index |-> i]
<1>2. ASSUME NEW i \in 1..Len(fields) PROVE \E b \in Builders : Owner(b, i)'
  <2>1. PICK b \in Builders : Owner(b, i)
    BY DEF SchemeIdsIdentify
  <2>2. fields'[i] = fields[i]
    BY StoreGrows
  <2>3. fields[i].name \in Names
    <3>1. fields[i] \in FieldDefinition
      BY ElementTyping DEF TypeOK
    <3> QED  BY <3>1 DEF FieldDefinition
  <2>4. items[b][fields[i].name] # NoItem
    BY <2>1 DEF NoItem
  <2>5. items'[b][fields[i].name] = items[b][fields[i].name]
    BY <2>3, <2>4, ItemsKept
  <2> QED  BY <2>1, <2>2, <2>5, IdsStep
<1>3. ASSUME NEW i \in 1..Len(fields') PROVE \E b \in Builders : Owner(b, i)'
  <2>1. CASE UNCHANGED <<fields, field_names>>
    BY <1>2, <2>1
  <2>2. ASSUME NEW b \in Builders, FieldPushed(b) PROVE \E a \in Builders : Owner(a, i)'
    <3> DEFINE n == call[b].name
    <3>1. /\ n \in Names /\ Len(fields) \in Nat /\ Len(fields') = Len(fields) + 1
          /\ fields'[Len(fields) + 1].name = n
          /\ fields'[Len(fields) + 1].scheme_id = scheme_id[b]
      BY <2>2, FieldPush
    <3>2. items' = [items EXCEPT ![b][n] = [kind |-> "field", index |-> Len(fields) + 1]]
      BY <2>2, FieldPushInserts DEF Insertion, InsertItem
    <3>3. Created(b) /\ call[b] # NoCall
      BY <2>2 DEF FieldPushed, AddFieldInternal, NoCall, PendingCalls, Created
    <3>4. CASE i = Len(fields) + 1
      <4>1. items'[b][n] = [kind |-> "field", index |-> i]
        BY <3>1, <3>2, <3>4 DEF TypeOK
      <4>2. Created(b)' /\ scheme_id'[b] = scheme_id[b]
        BY <3>3, IdsStep
      <4> QED  BY <3>1, <3>4, <4>1, <4>2
    <3>5. CASE i # Len(fields) + 1
      <4>1. i \in 1..Len(fields)
        BY <3>1, <3>5
      <4> QED  BY <1>2, <4>1
    <3> QED  BY <3>4, <3>5
  <2> QED  BY <2>1, <2>2, OnlyPushes
<1> QED  BY <1>1, <1>3 DEF SchemeIdsIdentify
-----------------------------------------------------------------------------
LEMMA InvInit == Init => IInv
<1> SUFFICES ASSUME Init PROVE IInv
  OBVIOUS
<1>1. TypeOK
  BY TypeInit
<1>2. Len(fields) = 0 /\ Len(functions) = 0 /\ Len(lists) = 0
  BY DEF Init
<1>3. StoreIndexed
  BY <1>2 DEF Init, StoreIndexed, FieldIndex, FunctionIndex, ListIndex
<1>4. ItemsResolve
  BY DEF Init, ItemsResolve, NoItem
<1>5. SchemeIdsIdentify
  BY <1>2 DEF Init, SchemeIdsIdentify, Created
<1>6. PendingCalls /\ IdsBelow
  BY DEF Init, PendingCalls, IdsBelow, Created
<1> QED  BY <1>1, <1>3, <1>4, <1>5, <1>6 DEF IInv

LEMMA InvStep == IInv /\ [Next]_vars => IInv'
  BY TypeStep, StoreIndexedStep, ItemsResolveStep, SchemeIdsIdentifyStep, PendingCallsStep,
     IdsBelowStep DEF IInv

\* The inductive invariant holds throughout.
THEOREM InvariantHolds == Spec => []IInv
  BY InvInit, InvStep, PTL DEF Spec

\* Whatever the interleaving of the two halves of registrations, each map of the
\* store and its vector describe each other: no name is pushed twice.
THEOREM StoreAlwaysIndexed == Spec => []StoreIndexed
<1>1. IInv => StoreIndexed
  BY DEF IInv
<1> QED  BY <1>1, InvariantHolds, PTL

\* Every identifier of every builder and scheme resolves in the shared store, a
\* field to one of the type that was asked for.
THEOREM ItemsAlwaysResolve == Spec => []ItemsResolve
<1>1. IInv => ItemsResolve
  BY DEF IInv
<1> QED  BY <1>1, InvariantHolds, PTL

\* Scheme ids are unique and every field definition names a builder that owns it.
THEOREM SchemeIdsAlwaysIdentify == Spec => []SchemeIdsIdentify
<1>1. IInv => SchemeIdsIdentify
  BY DEF IInv
<1> QED  BY <1>1, InvariantHolds, PTL

\* Indices keep their meaning: a definition is never moved or changed and an
\* owned identifier keeps its answer, whatever other builders register.
THEOREM AnswersStayStable == Spec => AnswersAreStable
<1> DEFINE Stable ==
      /\ \A i \in 1..Len(fields) : i \in 1..Len(fields') /\ fields'[i] = fields[i]
      /\ \A i \in 1..Len(functions) : i \in 1..Len(functions') /\ functions'[i] = functions[i]
      /\ \A i \in 1..Len(lists) : i \in 1..Len(lists') /\ lists'[i] = lists[i]
      /\ \A b \in Builders, n \in Names : Owns(b, n) => items'[b][n] = items[b][n]
<1>1. IInv /\ [Next]_vars => [Stable]_vars
  BY StoreGrows, ItemsKept DEF IInv, Owns
<1> QED  BY <1>1, InvariantHolds, PTL DEF Spec, AnswersAreStable

\* A registration that returns an error is without effect.
THEOREM FailuresChangeNothing == Spec => FailedCallsChangeNothing
<1> DEFINE NoEffect == returned' # returned /\ returned'.result # "Ok"
                         => UNCHANGED <<store, items, builder_lists>>
<1>1. ASSUME Next PROVE NoEffect
  <2> USE DEF store, history, ReturnOk, ReturnErr, ReturnListRedefinition, InsertItem,
              RejectOccupied, AwaitWrite
  <2>1. ASSUME NEW b \in Builders,
               \/ New(b) \/ Build(b) \/ Drop(b)
               \/ \E v \in BOOLEAN : SetNilNotEqualBehavior(b, v)
        PROVE  UNCHANGED returned
    BY <2>1 DEF New, Build, Drop, SetNilNotEqualBehavior
  <2>2. ASSUME NEW b \in Builders,
               \/ \E n \in Names, t \in Types, o \in BOOLEAN : AddField(b, n, t, o)
               \/ \E n \in Names, d \in Definitions : AddFunction(b, n, d)
               \/ \E t \in ListTypes, d \in Definitions : AddList(b, t, d)
        PROVE  NoEffect
    BY <2>2 DEF AddField, AddFunction, AddList
  <2>3. ASSUME NEW b \in Builders,
               AddFieldInternal(b) \/ AddFunctionInternal(b) \/ AddListInternal(b)
        PROVE  NoEffect
    BY <2>3 DEF AddFieldInternal, AddFunctionInternal, AddListInternal
  <2> QED  BY <1>1, <2>1, <2>2, <2>3 DEF Next
<1>2. [Next]_vars => [NoEffect]_vars
  BY <1>1
<1> QED  BY <1>2, PTL DEF Spec, FailedCallsChangeNothing

-----------------------------------------------------------------------------
(***************************************************************************)
(* The refinement: each step of the store is one step of the catalogue or  *)
(* leaves it as it is.                                                     *)
(***************************************************************************)
HIDE DEF Vacant, SameType, AllocateSchemeId
USE DEF None

\* The catalogue's keys.
LEMMA KeyForms ==
  /\ \A n \in Names : <<"field", n>> \in Keys /\ <<"function", n>> \in Keys
  /\ \A t \in Types : <<"list", t>> \in Keys
  /\ \A key \in Keys : \/ key[1] = "field" /\ key[2] \in Names
                       \/ key[1] = "function" /\ key[2] \in Names
                       \/ key[1] = "list" /\ key[2] \in Types
  /\ \A j, k \in Keys : j[1] = k[1] /\ j[2] = k[2] => j = k
  BY DEF Keys

\* What the refinement mapping gives for each kind of key.
LEMMA EntryOf ==
  \A key \in Keys : /\ key[1] = "field"    => Entries[key] = FieldEntry(key[2])
                    /\ key[1] = "function" => Entries[key] = FunctionEntry(key[2])
                    /\ key[1] = "list"     => Entries[key] = ListEntry(key[2])
  BY DEF Entries, Entry

LEMMA EntryOfNext ==
  \A key \in Keys : /\ key[1] = "field"    => Entries'[key] = FieldEntry(key[2])'
                    /\ key[1] = "function" => Entries'[key] = FunctionEntry(key[2])'
                    /\ key[1] = "list"     => Entries'[key] = ListEntry(key[2])'
  BY DEF Entries, Entry

LEMMA AdoptionOf ==
  \A b \in Builders, key \in Keys :
    /\ key[1] = "list" => Adoptions[b][key] = ListAdopted(b, key[2])
    /\ key[1] # "list" => Adoptions[b][key] = ItemAdopted(b, key[1], key[2])
  BY DEF Adoptions, Adopted

LEMMA AdoptionOfNext ==
  \A b \in Builders, key \in Keys :
    /\ key[1] = "list" => Adoptions'[b][key] = ListAdopted(b, key[2])'
    /\ key[1] # "list" => Adoptions'[b][key] = ItemAdopted(b, key[1], key[2])'
  BY DEF Adoptions, Adopted

LEMMA MappedFunctions ==
  /\ Entries = [key \in Keys |-> Entries[key]]
  /\ Entries' = [key \in Keys |-> Entries'[key]]
  /\ Adoptions = [b \in Builders |-> Adoptions[b]] /\ Adoptions' = [b \in Builders |-> Adoptions'[b]]
  /\ Stages = [b \in Builders |-> Stages[b]]
  /\ Stages' = [b \in Builders |-> Stages'[b]]
<1>1. Entries = [key \in Keys |-> Entries[key]]
  BY DEF Entries
<1>2. Entries' = [key \in Keys |-> Entries'[key]]
  BY DEF Entries
<1>3. Adoptions = [b \in Builders |-> Adoptions[b]] /\ Adoptions' = [b \in Builders |-> Adoptions'[b]]
  BY DEF Adoptions
<1>5. Stages = [b \in Builders |-> Stages[b]] /\ Stages' = [b \in Builders |-> Stages'[b]]
  BY DEF Stages
<1> QED  BY <1>1, <1>2, <1>3, <1>5

\* A change of the catalogue is known from what it does to each key.
LEMMA FunctionChange ==
  ASSUME NEW S, NEW f, NEW g, f = [x \in S |-> f[x]], g = [x \in S |-> g[x]],
         NEW k \in S, NEW v, g[k] = v, \A x \in S : x # k => g[x] = f[x]
  PROVE  g = [f EXCEPT ![k] = v]
<1>1. g = [x \in S |-> IF x = k THEN v ELSE f[x]]
  OBVIOUS
<1> QED  BY <1>1

LEMMA FunctionKept ==
  ASSUME NEW S, NEW f, NEW g, f = [x \in S |-> f[x]], g = [x \in S |-> g[x]],
         \A x \in S : g[x] = f[x]
  PROVE  g = f
  OBVIOUS

LEMMA EntriesChange ==
  ASSUME NEW k \in Keys, NEW v, Entries'[k] = v,
         \A key \in Keys : key # k => Entries'[key] = Entries[key]
  PROVE  Entries' = [Entries EXCEPT ![k] = v]
  BY FunctionChange, MappedFunctions

LEMMA EntriesKept ==
  ASSUME \A key \in Keys : Entries'[key] = Entries[key]
  PROVE  Entries' = Entries
  BY FunctionKept, MappedFunctions

LEMMA AdoptionsChange ==
  ASSUME NEW b \in Builders, NEW k \in Keys, NEW v, Adoptions'[b][k] = v,
         \A a \in Builders, key \in Keys :
           ~(a = b /\ key = k) => Adoptions'[a][key] = Adoptions[a][key]
  PROVE  Adoptions' = [Adoptions EXCEPT ![b][k] = v]
<1> DEFINE f(a) == Adoptions[a]
           g(a) == Adoptions'[a]
<1>1. \A a \in Builders : /\ f(a) = [key \in Keys |-> f(a)[key]]
                          /\ g(a) = [key \in Keys |-> g(a)[key]]
  BY DEF Adoptions
<1>2. g(b) = [f(b) EXCEPT ![k] = v]
  BY <1>1, FunctionChange
<1>3. \A a \in Builders : a # b => g(a) = f(a)
  BY <1>1, FunctionKept
<1> QED  BY <1>2, <1>3, FunctionChange, MappedFunctions

LEMMA AdoptionsKept ==
  ASSUME \A b \in Builders, key \in Keys : Adoptions'[b][key] = Adoptions[b][key]
  PROVE  Adoptions' = Adoptions
  BY DEF Adoptions

-----------------------------------------------------------------------------
\* What the store has for a key is a request for something of that kind.
LEMMA EntryTyping ==
  ASSUME TypeOK, StoreIndexed
  PROVE  /\ \A n \in Names : field_names[n] # None =>
              /\ FieldEntry(n) \in FieldAsked /\ FieldEntry(n) # NotAsked
              /\ FieldEntry(n).ty = fields[field_names[n]].ty
         /\ \A n \in Names : function_names[n] # None =>
              FunctionEntry(n) \in FunctionAsked /\ FunctionEntry(n) # NotAsked
         /\ \A t \in Types : list_types[t] # None =>
              ListEntry(t) \in ListAsked /\ ListEntry(t) # NotAsked
<1> USE DEF StoreIndexed, NotAsked
<1>1. ASSUME NEW n \in Names, field_names[n] # None
      PROVE  /\ FieldEntry(n) \in FieldAsked /\ FieldEntry(n) # NotAsked
             /\ FieldEntry(n).ty = fields[field_names[n]].ty
  <2>1. fields[field_names[n]] \in FieldDefinition
    BY <1>1, ElementTyping DEF FieldIndex, TypeOK
  <2> QED  BY <1>1, <2>1 DEF FieldEntry, FieldRequest, FieldAsked, FieldDefinition
<1>2. ASSUME NEW n \in Names, function_names[n] # None
      PROVE  FunctionEntry(n) \in FunctionAsked /\ FunctionEntry(n) # NotAsked
  <2>1. functions[function_names[n]] \in [name : Names, def : Definitions]
    BY <1>2, ElementTyping DEF FunctionIndex, TypeOK
  <2> QED  BY <1>2, <2>1 DEF FunctionEntry, FunctionRequest, FunctionAsked
<1>3. ASSUME NEW t \in Types, list_types[t] # None
      PROVE  ListEntry(t) \in ListAsked /\ ListEntry(t) # NotAsked
  <2>1. lists[list_types[t]] \in [ty : Types, def : Definitions]
    BY <1>3, ElementTyping DEF ListIndex, TypeOK
  <2> QED  BY <1>3, <2>1 DEF ListEntry, ListRequest, ListAsked
<1> QED  BY <1>1, <1>2, <1>3

\* A step leaves every entry that is there as it is, and also one whose name stays
\* unknown.
LEMMA EntriesStay ==
  ASSUME TypeOK, StoreIndexed, [Next]_vars
  PROVE  /\ \A n \in Names : field_names[n] # None \/ field_names'[n] = None =>
              FieldEntry(n)' = FieldEntry(n)
         /\ \A n \in Names : function_names[n] # None \/ function_names'[n] = None =>
              FunctionEntry(n)' = FunctionEntry(n)
         /\ \A t \in Types : list_types[t] # None \/ list_types'[t] = None =>
              ListEntry(t)' = ListEntry(t)
<1> USE DEF StoreIndexed
<1>1. ASSUME NEW n \in Names, field_names[n] # None PROVE FieldEntry(n)' = FieldEntry(n)
  <2>1. field_names[n] \in 1..Len(fields)
    BY <1>1 DEF FieldIndex
  <2>2. field_names'[n] = field_names[n] /\ fields'[field_names[n]] = fields[field_names[n]]
    BY <1>1, <2>1, StoreGrows
  <2> QED  BY <2>2 DEF FieldEntry
<1>2. ASSUME NEW n \in Names, function_names[n] # None PROVE FunctionEntry(n)' = FunctionEntry(n)
  <2>1. function_names[n] \in 1..Len(functions)
    BY <1>2 DEF FunctionIndex
  <2>2. /\ function_names'[n] = function_names[n]
        /\ functions'[function_names[n]] = functions[function_names[n]]
    BY <1>2, <2>1, StoreGrows
  <2> QED  BY <2>2 DEF FunctionEntry
<1>3. ASSUME NEW t \in Types, list_types[t] # None PROVE ListEntry(t)' = ListEntry(t)
  <2>1. list_types[t] \in 1..Len(lists)
    BY <1>3 DEF ListIndex
  <2>2. list_types'[t] = list_types[t] /\ lists'[list_types[t]] = lists[list_types[t]]
    BY <1>3, <2>1, StoreGrows
  <2> QED  BY <2>2 DEF ListEntry
<1>4. /\ \A n \in Names : field_names[n] = None /\ field_names'[n] = None =>
           FieldEntry(n)' = FieldEntry(n)
      /\ \A n \in Names : function_names[n] = None /\ function_names'[n] = None =>
           FunctionEntry(n)' = FunctionEntry(n)
      /\ \A t \in Types : list_types[t] = None /\ list_types'[t] = None =>
           ListEntry(t)' = ListEntry(t)
  BY DEF FieldEntry, FunctionEntry, ListEntry
<1> QED  BY <1>1, <1>2, <1>3, <1>4

-----------------------------------------------------------------------------
\* An adoption, seen key by key.
Adopts(b, k, v) ==
  /\ Stages[b] = "open" /\ UNCHANGED phase
  /\ Adoptions[b][k] = NotAsked
  /\ \A j \in Keys : <<j, k>> \in SameName => Adoptions[b][j] = NotAsked
  /\ \/ Entries[k] = NotAsked /\ Entries'[k] = v
     \/ Entries[k] # NotAsked /\ <<Entries[k], v>> \in Accepted /\ Entries'[k] = Entries[k]
  /\ \A key \in Keys : key # k => Entries'[key] = Entries[key]
  /\ Adoptions'[b][k] = v
  /\ \A a \in Builders, key \in Keys :
       ~(a = b /\ key = k) => Adoptions'[a][key] = Adoptions[a][key]

LEMMA AdoptsIsAdopt ==
  ASSUME NEW b \in Builders, NEW k \in Keys, NEW v \in AskedFor(k), Adopts(b, k, v)
  PROVE  Catalogue!Next
<1>1. Adoptions' = [Adoptions EXCEPT ![b][k] = v]
  BY AdoptionsChange DEF Adopts
<1>2. \/ Entries[k] = NotAsked /\ Entries' = [Entries EXCEPT ![k] = v]
      \/ Entries[k] # NotAsked /\ <<Entries[k], v>> \in Accepted /\ Entries' = Entries
  <2>1. CASE Entries[k] = NotAsked /\ Entries'[k] = v
    BY <2>1, EntriesChange DEF Adopts
  <2>2. CASE Entries[k] # NotAsked /\ <<Entries[k], v>> \in Accepted /\ Entries'[k] = Entries[k]
    <3>1. Entries' = Entries
      BY <2>2, EntriesKept DEF Adopts
    <3> QED  BY <2>2, <3>1
  <2> QED  BY <2>1, <2>2 DEF Adopts
<1>3. Stages' = Stages
  BY DEF Adopts, Stages, Stage
<1>4. Catalogue!Adopt(b, k, v)
  BY <1>1, <1>2, <1>3 DEF Adopts, Catalogue!Adopt
<1>5. [key \in Keys |-> AskedFor(key)][k] = AskedFor(k)
  OBVIOUS
<1> QED  BY <1>4, <1>5 DEF Catalogue!Next

\* Filling the entry of a name in SchemeBuilder::items adopts that name.
LEMMA ItemTaken ==
  ASSUME TypeOK,
         NEW b \in Builders, NEW n \in Names, NEW kind \in Kinds, NEW i, NEW r,
         phase[b] = "open", items[b][n] = NoItem,
         items' = [items EXCEPT ![b][n] = [kind |-> kind, index |-> i]],
         asked' = [asked EXCEPT ![b][n] = r],
         UNCHANGED <<phase, builder_lists, lists, list_types>>,
         \A m \in Names : kind # "field" \/ m # n => FieldEntry(m)' = FieldEntry(m),
         \A m \in Names : kind # "function" \/ m # n => FunctionEntry(m)' = FunctionEntry(m),
         NEW k \in Keys, k[1] = kind, k[2] = n,
         \/ Entries[k] = NotAsked /\ Entries'[k] = r
         \/ Entries[k] # NotAsked /\ <<Entries[k], r>> \in Accepted /\ Entries'[k] = Entries[k]
  PROVE  Adopts(b, k, r)
<1> USE DEF Kinds
<1>1. Stages[b] = "open"
  BY DEF Stages, Stage
<1>2. Adoptions[b][k] = NotAsked
  BY AdoptionOf DEF ItemAdopted, NoItem
<1>3. ASSUME NEW j \in Keys, <<j, k>> \in SameName PROVE Adoptions[b][j] = NotAsked
  <2>1. j[1] # "list" /\ j[2] = n
    BY <1>3 DEF SameName
  <2>2. j[1] \in Kinds
    BY <2>1, KeyForms
  <2> QED  BY <2>1, <2>2, AdoptionOf DEF ItemAdopted, NoItem
<1>4. \A t \in Types : ListEntry(t)' = ListEntry(t)
  BY DEF ListEntry
<1>5. ASSUME NEW key \in Keys, key # k PROVE Entries'[key] = Entries[key]
  <2>1. CASE key[1] = "field"
    <3>1. key[2] \in Names /\ (kind = "field" => key[2] # n)
      BY <1>5, <2>1, KeyForms
    <3> QED  BY <2>1, <3>1, EntryOf, EntryOfNext
  <2>2. CASE key[1] = "function"
    <3>1. key[2] \in Names /\ (kind = "function" => key[2] # n)
      BY <1>5, <2>2, KeyForms
    <3> QED  BY <2>2, <3>1, EntryOf, EntryOfNext
  <2>3. CASE key[1] = "list"
    BY <1>4, <2>3, KeyForms, EntryOf, EntryOfNext
  <2> QED  BY <2>1, <2>2, <2>3, KeyForms
<1>6. items'[b][n] = [kind |-> kind, index |-> i] /\ asked'[b][n] = r
  BY DEF TypeOK
<1>7. Adoptions'[b][k] = r
  BY <1>6, AdoptionOfNext DEF ItemAdopted
<1>8. ASSUME NEW a \in Builders, NEW key \in Keys, ~(a = b /\ key = k)
      PROVE  Adoptions'[a][key] = Adoptions[a][key]
  <2>1. CASE key[1] = "list"
    <3>1. key[2] \in Types
      BY <2>1, KeyForms
    <3>2. ListAdopted(a, key[2])' = ListAdopted(a, key[2])
      BY <1>4, <3>1 DEF ListAdopted
    <3> QED  BY <2>1, <3>2, AdoptionOf, AdoptionOfNext
  <2>2. ASSUME NEW x \in Kinds, key[1] = x PROVE Adoptions'[a][key] = Adoptions[a][key]
    <3>1. key[2] \in Names /\ x # "list"
      BY <2>2, KeyForms
    <3> DEFINE m == key[2]
    <3>2. CASE ~(a = b /\ m = n)
      <4>1. items'[a][m] = items[a][m] /\ asked'[a][m] = asked[a][m]
        BY <3>1, <3>2 DEF TypeOK
      <4>2. ItemAdopted(a, x, m)' = ItemAdopted(a, x, m)
        BY <4>1 DEF ItemAdopted
      <4> QED  BY <2>2, <3>1, <4>2, AdoptionOf, AdoptionOfNext
    <3>3. CASE a = b /\ m = n
      <4>1. x # kind
        BY <1>8, <2>2, <3>3, KeyForms
      <4>2. ItemAdopted(a, x, m)' = NotAsked /\ ItemAdopted(a, x, m) = NotAsked
        BY <1>6, <3>3, <4>1 DEF ItemAdopted, NoItem
      <4> QED  BY <2>2, <3>1, <4>2, AdoptionOf, AdoptionOfNext
    <3> QED  BY <3>2, <3>3
  <2> QED  BY <2>1, <2>2, KeyForms
<1> QED  BY <1>1, <1>2, <1>3, <1>5, <1>7, <1>8 DEF Adopts

\* Adding a type to SchemeBuilder::list_types adopts the list that is then there.
LEMMA ListTaken ==
  ASSUME TypeOK, StoreIndexed, ItemsResolve, [Next]_vars,
         NEW b \in Builders, NEW t \in Types, NEW k \in Keys, k[1] = "list", k[2] = t,
         phase[b] = "open", t \notin builder_lists[b],
         builder_lists' = [builder_lists EXCEPT ![b] = @ \cup {t}],
         UNCHANGED <<phase, items, asked, fields, field_names, functions, function_names>>,
         \A u \in Types : u # t => ListEntry(u)' = ListEntry(u),
         ListEntry(t)' \in ListAsked
  PROVE  Adopts(b, k, ListEntry(t)')
<1>1. Stages[b] = "open"
  BY DEF Stages, Stage
<1>2. Adoptions[b][k] = NotAsked
  BY AdoptionOf DEF ListAdopted
<1>3. \A j \in Keys : <<j, k>> \notin SameName
  BY DEF SameName
<1>4. \/ Entries[k] = NotAsked
      \/ Entries[k] # NotAsked /\ <<Entries[k], ListEntry(t)'>> \in Accepted /\ Entries'[k] = Entries[k]
  <2>1. CASE list_types[t] = None
    BY <2>1, EntryOf DEF ListEntry
  <2>2. CASE list_types[t] # None
    <3>1. ListEntry(t)' = ListEntry(t) /\ ListEntry(t) \in ListAsked /\ ListEntry(t) # NotAsked
      BY <2>2, EntriesStay, EntryTyping
    <3>2. <<ListEntry(t), ListEntry(t)>> \in Accepted
      BY <3>1 DEF Accepted
    <3> QED  BY <3>1, <3>2, EntryOf, EntryOfNext
  <2> QED  BY <2>1, <2>2
<1>5. \A n \in Names : FieldEntry(n)' = FieldEntry(n) /\ FunctionEntry(n)' = FunctionEntry(n)
  BY DEF FieldEntry, FunctionEntry
<1>6. ASSUME NEW key \in Keys, key # k PROVE Entries'[key] = Entries[key]
  <2>1. CASE key[1] = "field"
    BY <1>5, <2>1, KeyForms, EntryOf, EntryOfNext
  <2>2. CASE key[1] = "function"
    BY <1>5, <2>2, KeyForms, EntryOf, EntryOfNext
  <2>3. CASE key[1] = "list"
    <3>1. key[2] \in Types /\ key[2] # t
      BY <1>6, <2>3, KeyForms
    <3> QED  BY <2>3, <3>1, EntryOf, EntryOfNext
  <2> QED  BY <2>1, <2>2, <2>3, KeyForms
<1>7. Entries'[k] = ListEntry(t)' /\ Adoptions'[b][k] = ListEntry(t)'
  <2>1. t \in builder_lists'[b]
    BY DEF TypeOK
  <2>2. ListAdopted(b, t)' = ListEntry(t)'
    BY <2>1 DEF ListAdopted
  <2> QED  BY <2>2, EntryOfNext, AdoptionOfNext DEF ListAdopted
<1>8. ASSUME NEW a \in Builders, NEW key \in Keys, ~(a = b /\ key = k)
      PROVE  Adoptions'[a][key] = Adoptions[a][key]
  <2>1. CASE key[1] = "list"
    <3>1. key[2] \in Types
      BY <2>1, KeyForms
    <3> DEFINE u == key[2]
    <3>2. u \in builder_lists'[a] <=> u \in builder_lists[a]
      BY <1>8, <2>1, <3>1, KeyForms DEF TypeOK
    <3>3. u \in builder_lists[a] => ListEntry(u)' = ListEntry(u)
      BY <3>1, EntriesStay DEF ItemsResolve
    <3>4. ListAdopted(a, u)' = ListAdopted(a, u)
      BY <3>2, <3>3 DEF ListAdopted
    <3> QED  BY <2>1, <3>1, <3>4, AdoptionOf, AdoptionOfNext
  <2>2. ASSUME NEW x \in Kinds, key[1] = x PROVE Adoptions'[a][key] = Adoptions[a][key]
    <3>1. key[2] \in Names /\ x # "list"
      BY <2>2, KeyForms DEF Kinds
    <3>2. ItemAdopted(a, x, key[2])' = ItemAdopted(a, x, key[2])
      BY DEF ItemAdopted
    <3> QED  BY <2>2, <3>1, <3>2, AdoptionOf, AdoptionOfNext
  <2> QED  BY <2>1, <2>2, KeyForms DEF Kinds
<1> QED  BY <1>1, <1>2, <1>3, <1>4, <1>6, <1>7, <1>8 DEF Adopts

-----------------------------------------------------------------------------
\* One lemma per kind of step.  A step that leaves definitions, items and lists
\* alone is a step of the builder's life or none.
LEMMA NoAdoption ==
  ASSUME UNCHANGED <<fields, field_names, functions, function_names, lists, list_types,
                     items, asked, builder_lists>>
  PROVE  Entries' = Entries /\ Adoptions' = Adoptions
<1>1. /\ \A n \in Names : FieldEntry(n)' = FieldEntry(n) /\ FunctionEntry(n)' = FunctionEntry(n)
      /\ \A t \in Types : ListEntry(t)' = ListEntry(t)
  BY DEF FieldEntry, FunctionEntry, ListEntry
<1>2. \A key \in Keys : Entries'[key] = Entries[key]
  BY <1>1, KeyForms, EntryOf, EntryOfNext
<1>3. \A b \in Builders, key \in Keys : Adoptions'[b][key] = Adoptions[b][key]
  BY <1>1, KeyForms, AdoptionOf, AdoptionOfNext DEF ListAdopted, ItemAdopted
<1> QED  BY <1>2, <1>3, EntriesKept, AdoptionsKept

LEMMA LifeStep ==
  ASSUME TypeOK, NEW b \in Builders,
         \/ New(b) \/ Build(b) \/ Drop(b)
         \/ \E v \in BOOLEAN : SetNilNotEqualBehavior(b, v)
  PROVE  Catalogue!Next \/ UNCHANGED Catalogue!vars
<1> USE DEF store, history
<1>1. Entries' = Entries /\ Adoptions' = Adoptions
  BY NoAdoption DEF New, Build, Drop, SetNilNotEqualBehavior
<1>2. CASE New(b)
  <2>1. Stages[b] = "new" /\ Stages' = [Stages EXCEPT ![b] = "open"]
    BY <1>2 DEF New, Stages, Stage, TypeOK
  <2> QED  BY <1>1, <2>1 DEF Catalogue!Next, Catalogue!Open
<1>3. CASE Build(b) \/ Drop(b)
  <2>1. Stages[b] = "open" /\ Stages' = [Stages EXCEPT ![b] = "closed"]
    BY <1>3 DEF Build, Drop, Ready, Stages, Stage, TypeOK
  <2> QED  BY <1>1, <2>1 DEF Catalogue!Next, Catalogue!Close
<1>4. CASE \E v \in BOOLEAN : SetNilNotEqualBehavior(b, v)
  <2>1. Stages' = Stages
    BY <1>4 DEF SetNilNotEqualBehavior, Stages, Stage
  <2> QED  BY <1>1, <2>1 DEF Catalogue!vars
<1> QED  BY <1>2, <1>3, <1>4

\* A rejected call, and one that goes on to wait for the write lock.
LEMMA NoEffectStep ==
  ASSUME UNCHANGED <<fields, field_names, functions, function_names, lists, list_types,
                     items, asked, builder_lists, phase>>
  PROVE  UNCHANGED Catalogue!vars
<1>1. Stages' = Stages
  BY DEF Stages, Stage
<1> QED  BY <1>1, NoAdoption DEF Catalogue!vars

LEMMA AddFieldStep ==
  ASSUME IInv, NEW b \in Builders, NEW n \in Names, NEW t \in Types, NEW o \in BOOLEAN,
         AddField(b, n, t, o)
  PROVE  Catalogue!Next \/ UNCHANGED Catalogue!vars
<1> DEFINE r == FieldRequest(t, o)
           k == <<"field", n>>
<1> USE DEF IInv, store, history
<1>1. CASE UNCHANGED <<items, asked>>
  BY <1>1, NoEffectStep DEF AddField
<1>2. CASE /\ Vacant(b, n) /\ field_names[n] # None /\ SameType(n, t)
           /\ InsertItem(b, n, "field", field_names[n], r)
  <2>1. k \in Keys /\ k[1] = "field" /\ k[2] = n
    BY KeyForms
  <2>2. r \in FieldAsked /\ r \in AskedFor(k) /\ r.ty = t
    BY <2>1 DEF FieldRequest, FieldAsked, AskedFor
  <2>3. /\ \A m \in Names : FieldEntry(m)' = FieldEntry(m) /\ FunctionEntry(m)' = FunctionEntry(m)
        /\ UNCHANGED <<phase, builder_lists, lists, list_types>>
    BY DEF AddField, FieldEntry, FunctionEntry
  <2>4. FieldEntry(n) \in FieldAsked /\ FieldEntry(n) # NotAsked /\ FieldEntry(n).ty = t
    BY <1>2, EntryTyping DEF SameType
  <2>5. <<FieldEntry(n), r>> \in Accepted
    BY <2>2, <2>4 DEF Accepted
  <2>6. Entries[k] # NotAsked /\ <<Entries[k], r>> \in Accepted /\ Entries'[k] = Entries[k]
    BY <2>1, <2>3, <2>4, <2>5, EntryOf, EntryOfNext
  <2>7. /\ phase[b] = "open" /\ items[b][n] = NoItem
        /\ items' = [items EXCEPT ![b][n] = [kind |-> "field", index |-> field_names[n]]]
        /\ asked' = [asked EXCEPT ![b][n] = r]
    BY <1>2 DEF AddField, Ready, InsertItem, Vacant
  <2> HIDE DEF r, k
  <2>8. Adopts(b, k, r)
    BY <2>1, <2>3, <2>6, <2>7, ItemTaken DEF Kinds
  <2> QED  BY <2>1, <2>2, <2>8, AdoptsIsAdopt
<1> QED  BY <1>1, <1>2 DEF AddField, RejectOccupied

LEMMA AddFieldInternalStep ==
  ASSUME IInv, [Next]_vars, NEW b \in Builders, AddFieldInternal(b)
  PROVE  Catalogue!Next \/ UNCHANGED Catalogue!vars
<1>1. PICK n \in Names : n = call[b].name
  BY CallTyping DEF IInv, TypeOK, Calls, AddFieldInternal
<1> DEFINE r == FieldRequest(call[b].ty, call[b].optional)
           k == <<"field", n>>
<1> USE DEF IInv
<1>2. CASE field_names[n] # None
  BY <1>1, <1>2, NoEffectStep DEF AddFieldInternal
<1>3. CASE field_names[n] = None
  <2>1. FieldPushed(b)
    BY <1>1, <1>3 DEF FieldPushed
  <2>2. /\ n \in Names /\ Len(fields) \in Nat
        /\ fields'[Len(fields) + 1].ty = call[b].ty
        /\ fields'[Len(fields) + 1].optional = call[b].optional
        /\ field_names' = [field_names EXCEPT ![n] = Len(fields) + 1]
    BY <1>1, <2>1, FieldPush
  <2>3. call[b].ty \in Types /\ call[b].optional \in BOOLEAN
    BY CallTyping DEF TypeOK, Calls, AddFieldInternal
  <2>4. k \in Keys /\ k[1] = "field" /\ k[2] = n
    BY <2>2, KeyForms
  <2>5. r \in AskedFor(k)
    BY <2>3, <2>4 DEF FieldRequest, FieldAsked, AskedFor
  <2>6. Entries[k] = NotAsked /\ Entries'[k] = r
    <3>1. field_names'[n] = Len(fields) + 1
      BY <2>2 DEF TypeOK
    <3>2. FieldEntry(n) = NotAsked /\ FieldEntry(n)' = r
      BY <1>3, <2>2, <3>1 DEF FieldEntry
    <3> QED  BY <2>4, <3>2, EntryOf, EntryOfNext
  <2>7. \A m \in Names : m # n => FieldEntry(m)' = FieldEntry(m)
    <3>1. \A m \in Names : m # n => field_names'[m] = field_names[m]
      BY <2>2 DEF TypeOK
    <3> QED  BY <3>1, EntriesStay
  <2>8. /\ \A m \in Names : FunctionEntry(m)' = FunctionEntry(m)
        /\ UNCHANGED <<phase, builder_lists, lists, list_types>>
    BY DEF AddFieldInternal, FunctionEntry
  <2>9. /\ phase[b] = "open" /\ items[b][n] = NoItem
        /\ items' = [items EXCEPT ![b][n] = [kind |-> "field", index |-> Len(fields) + 1]]
        /\ asked' = [asked EXCEPT ![b][n] = r]
    BY <1>1, <1>3 DEF AddFieldInternal, PendingCalls, NoCall, InsertItem
  <2> HIDE DEF r, k
  <2>10. Adopts(b, k, r)
    BY <2>2, <2>4, <2>6, <2>7, <2>8, <2>9, ItemTaken DEF Kinds
  <2> QED  BY <2>4, <2>5, <2>10, AdoptsIsAdopt
<1> QED  BY <1>2, <1>3

LEMMA AddFunctionStep ==
  ASSUME IInv, NEW b \in Builders, NEW n \in Names, NEW d \in Definitions, AddFunction(b, n, d)
  PROVE  Catalogue!Next \/ UNCHANGED Catalogue!vars
<1> DEFINE r == FunctionRequest(d)
           k == <<"function", n>>
<1> USE DEF IInv, store, history
<1>1. CASE UNCHANGED <<items, asked>>
  BY <1>1, NoEffectStep DEF AddFunction
<1>2. CASE /\ Vacant(b, n) /\ function_names[n] # None
           /\ InsertItem(b, n, "function", function_names[n], r)
  <2>1. k \in Keys /\ k[1] = "function" /\ k[2] = n
    BY KeyForms
  <2>2. r \in FunctionAsked /\ r \in AskedFor(k)
    BY <2>1 DEF FunctionRequest, FunctionAsked, AskedFor
  <2>3. /\ \A m \in Names : FieldEntry(m)' = FieldEntry(m) /\ FunctionEntry(m)' = FunctionEntry(m)
        /\ UNCHANGED <<phase, builder_lists, lists, list_types>>
    BY DEF AddFunction, FieldEntry, FunctionEntry
  <2>4. FunctionEntry(n) \in FunctionAsked /\ FunctionEntry(n) # NotAsked
    BY <1>2, EntryTyping
  <2>5. <<FunctionEntry(n), r>> \in Accepted
    BY <2>2, <2>4 DEF Accepted
  <2>6. Entries[k] # NotAsked /\ <<Entries[k], r>> \in Accepted /\ Entries'[k] = Entries[k]
    BY <2>1, <2>3, <2>4, <2>5, EntryOf, EntryOfNext
  <2>7. /\ phase[b] = "open" /\ items[b][n] = NoItem
        /\ items' = [items EXCEPT ![b][n] = [kind |-> "function", index |-> function_names[n]]]
        /\ asked' = [asked EXCEPT ![b][n] = r]
    BY <1>2 DEF AddFunction, Ready, InsertItem, Vacant
  <2> HIDE DEF r, k
  <2>8. Adopts(b, k, r)
    BY <2>1, <2>3, <2>6, <2>7, ItemTaken DEF Kinds
  <2> QED  BY <2>1, <2>2, <2>8, AdoptsIsAdopt
<1> QED  BY <1>1, <1>2 DEF AddFunction, RejectOccupied

LEMMA AddFunctionInternalStep ==
  ASSUME IInv, [Next]_vars, NEW b \in Builders, AddFunctionInternal(b)
  PROVE  Catalogue!Next \/ UNCHANGED Catalogue!vars
<1>1. PICK n \in Names : n = call[b].name
  BY CallTyping DEF IInv, TypeOK, Calls, AddFunctionInternal
<1> DEFINE r == FunctionRequest(call[b].def)
           k == <<"function", n>>
<1> USE DEF IInv
<1>2. CASE function_names[n] # None
  BY <1>1, <1>2, NoEffectStep DEF AddFunctionInternal
<1>3. CASE function_names[n] = None
  <2>1. FunctionPushed(b)
    BY <1>1, <1>3 DEF FunctionPushed
  <2>2. /\ n \in Names /\ Len(functions) \in Nat
        /\ functions'[Len(functions) + 1].def = call[b].def
        /\ function_names' = [function_names EXCEPT ![n] = Len(functions) + 1]
    BY <1>1, <2>1, FunctionPush
  <2>3. call[b].def \in Definitions
    BY CallTyping DEF TypeOK, Calls, AddFunctionInternal
  <2>4. k \in Keys /\ k[1] = "function" /\ k[2] = n
    BY <2>2, KeyForms
  <2>5. r \in AskedFor(k)
    BY <2>3, <2>4 DEF FunctionRequest, FunctionAsked, AskedFor
  <2>6. Entries[k] = NotAsked /\ Entries'[k] = r
    <3>1. function_names'[n] = Len(functions) + 1
      BY <2>2 DEF TypeOK
    <3>2. FunctionEntry(n) = NotAsked /\ FunctionEntry(n)' = r
      BY <1>3, <2>2, <3>1 DEF FunctionEntry
    <3> QED  BY <2>4, <3>2, EntryOf, EntryOfNext
  <2>7. \A m \in Names : m # n => FunctionEntry(m)' = FunctionEntry(m)
    <3>1. \A m \in Names : m # n => function_names'[m] = function_names[m]
      BY <2>2 DEF TypeOK
    <3> QED  BY <3>1, EntriesStay
  <2>8. /\ \A m \in Names : FieldEntry(m)' = FieldEntry(m)
        /\ UNCHANGED <<phase, builder_lists, lists, list_types>>
    BY DEF AddFunctionInternal, FieldEntry
  <2>9. /\ phase[b] = "open" /\ items[b][n] = NoItem
        /\ items' = [items EXCEPT ![b][n] = [kind |-> "function", index |-> Len(functions) + 1]]
        /\ asked' = [asked EXCEPT ![b][n] = r]
    BY <1>1, <1>3 DEF AddFunctionInternal, PendingCalls, NoCall, InsertItem
  <2> HIDE DEF r, k
  <2>10. Adopts(b, k, r)
    BY <2>2, <2>4, <2>6, <2>7, <2>8, <2>9, ItemTaken DEF Kinds
  <2> QED  BY <2>4, <2>5, <2>10, AdoptsIsAdopt
<1> QED  BY <1>2, <1>3

LEMMA AddListStep ==
  ASSUME IInv, [Next]_vars, NEW b \in Builders, NEW t \in Types, NEW d \in Definitions,
         AddList(b, t, d)
  PROVE  Catalogue!Next \/ UNCHANGED Catalogue!vars
<1> DEFINE k == <<"list", t>>
<1> USE DEF IInv, store
<1>1. CASE UNCHANGED builder_lists
  BY <1>1, NoEffectStep DEF AddList
<1>2. CASE /\ t \notin builder_lists[b] /\ list_types[t] # None
           /\ builder_lists' = [builder_lists EXCEPT ![b] = @ \cup {t}]
  <2>1. k \in Keys /\ k[1] = "list" /\ k[2] = t
    BY KeyForms
  <2>2. /\ \A u \in Types : ListEntry(u)' = ListEntry(u)
        /\ UNCHANGED <<phase, items, asked, fields, field_names, functions, function_names>>
        /\ phase[b] = "open"
    BY DEF AddList, ListEntry, Ready
  <2>3. ListEntry(t)' \in ListAsked /\ AskedFor(k) = ListAsked
    BY <1>2, <2>1, <2>2, EntryTyping DEF AskedFor
  <2> HIDE DEF k
  <2>4. Adopts(b, k, ListEntry(t)')
    BY <1>2, <2>1, <2>2, <2>3, ListTaken
  <2> QED  BY <2>1, <2>3, <2>4, AdoptsIsAdopt
<1> QED  BY <1>1, <1>2 DEF AddList

LEMMA AddListInternalStep ==
  ASSUME IInv, [Next]_vars, NEW b \in Builders, AddListInternal(b)
  PROVE  Catalogue!Next \/ UNCHANGED Catalogue!vars
<1>1. PICK t \in Types : t = call[b].ty
  BY CallTyping DEF IInv, TypeOK, Calls, AddListInternal
<1> DEFINE k == <<"list", t>>
<1> USE DEF IInv
<1>2. CASE list_types[t] # None
  BY <1>1, <1>2, NoEffectStep DEF AddListInternal
<1>3. CASE list_types[t] = None
  <2>1. ListPushed(b)
    BY <1>1, <1>3 DEF ListPushed
  <2>2. /\ t \in Types /\ Len(lists) \in Nat
        /\ lists'[Len(lists) + 1].def = call[b].def
        /\ list_types' = [list_types EXCEPT ![t] = Len(lists) + 1]
    BY <1>1, <2>1, ListPush
  <2>3. call[b].def \in Definitions
    BY CallTyping DEF TypeOK, Calls, AddListInternal
  <2>4. k \in Keys /\ k[1] = "list" /\ k[2] = t /\ AskedFor(k) = ListAsked
    BY <2>2, KeyForms DEF AskedFor
  <2>5. ListEntry(t)' \in ListAsked
    <3>1. list_types'[t] = Len(lists) + 1
      BY <2>2 DEF TypeOK
    <3>2. ListEntry(t)' = ListRequest(call[b].def)
      BY <2>2, <3>1 DEF ListEntry
    <3> QED  BY <2>3, <3>2 DEF ListRequest, ListAsked
  <2>6. \A u \in Types : u # t => ListEntry(u)' = ListEntry(u)
    <3>1. \A u \in Types : u # t => list_types'[u] = list_types[u]
      BY <2>2 DEF TypeOK
    <3> QED  BY <3>1, EntriesStay
  <2>7. /\ UNCHANGED <<phase, items, asked, fields, field_names, functions, function_names>>
        /\ builder_lists' = [builder_lists EXCEPT ![b] = @ \cup {t}]
        /\ phase[b] = "open"
    BY <1>1, <1>3 DEF AddListInternal, PendingCalls, NoCall
  <2>8. t \notin builder_lists[b]
    BY <1>1, <1>3 DEF ItemsResolve
  <2> HIDE DEF k
  <2>9. Adopts(b, k, ListEntry(t)')
    BY <2>2, <2>4, <2>5, <2>6, <2>7, <2>8, ListTaken
  <2> QED  BY <2>4, <2>5, <2>9, AdoptsIsAdopt
<1> QED  BY <1>2, <1>3

-----------------------------------------------------------------------------
LEMMA RefinesInit == Init => Catalogue!Init
<1> SUFFICES ASSUME Init PROVE Catalogue!Init
  OBVIOUS
<1>1. \A key \in Keys : Entries[key] = NotAsked
  BY KeyForms, EntryOf DEF Init, FieldEntry, FunctionEntry, ListEntry
<1>2. \A b \in Builders, key \in Keys : Adoptions[b][key] = NotAsked
  BY KeyForms, AdoptionOf DEF Init, ListAdopted, ItemAdopted, NoItem
<1>3. Stages = [b \in Builders |-> "new"]
  BY DEF Init, Stages, Stage
<1>4. Entries = [key \in Keys |-> NotAsked]
  BY <1>1 DEF Entries
<1>5. Adoptions = [b \in Builders |-> [key \in Keys |-> NotAsked]]
  BY <1>2 DEF Adoptions
<1> QED  BY <1>3, <1>4, <1>5 DEF Catalogue!Init

LEMMA RefinesStep == IInv /\ [Next]_vars => [Catalogue!Next]_(Catalogue!vars)
<1> SUFFICES ASSUME IInv, [Next]_vars PROVE Catalogue!Next \/ UNCHANGED Catalogue!vars
  OBVIOUS
<1>1. CASE UNCHANGED vars
  BY <1>1, NoEffectStep DEF vars, store, history
<1>2. ASSUME NEW b \in Builders,
             \/ New(b) \/ Build(b) \/ Drop(b)
             \/ \E v \in BOOLEAN : SetNilNotEqualBehavior(b, v)
      PROVE  Catalogue!Next \/ UNCHANGED Catalogue!vars
  BY <1>2, LifeStep DEF IInv
<1>3. ASSUME NEW b \in Builders,
             \/ \E n \in Names, t \in Types, o \in BOOLEAN : AddField(b, n, t, o)
             \/ AddFieldInternal(b)
      PROVE  Catalogue!Next \/ UNCHANGED Catalogue!vars
  BY <1>3, AddFieldStep, AddFieldInternalStep
<1>4. ASSUME NEW b \in Builders,
             (\E n \in Names, d \in Definitions : AddFunction(b, n, d)) \/ AddFunctionInternal(b)
      PROVE  Catalogue!Next \/ UNCHANGED Catalogue!vars
  BY <1>4, AddFunctionStep, AddFunctionInternalStep
<1>5. ASSUME NEW b \in Builders,
             (\E t \in ListTypes, d \in Definitions : AddList(b, t, d)) \/ AddListInternal(b)
      PROVE  Catalogue!Next \/ UNCHANGED Catalogue!vars
  BY <1>5, AddListStep, AddListInternalStep, ListTypesAssumption
<1> QED  BY <1>1, <1>2, <1>3, <1>4, <1>5 DEF Next

\* However the halves of concurrent registrations interleave, builders see one
\* catalogue: of each name and list the first definition stands for ever, a
\* builder takes it only if it is what it asked for, and a call that fails, or
\* that lost the race for the write lock, has done nothing (scheme.rs
\* get_or_add_field, get_or_add_function, get_or_add_list).
THEOREM StoreImplementsCatalogue == Spec => ImplementsCatalogue
  BY RefinesInit, RefinesStep, InvariantHolds, PTL DEF Spec, ImplementsCatalogue, Catalogue!Spec
=============================================================================
