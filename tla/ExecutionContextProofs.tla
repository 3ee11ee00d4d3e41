------------------------ MODULE ExecutionContextProofs ------------------------
(***************************************************************************)
(* For any stores, contexts and bounds: in every interleaving of           *)
(* registrations and calls, the slots of a context in use fit its scheme,  *)
(* hold values of their fields' types, and are lent to one guard at most.  *)
(* For any filters on top of them: a compiled one finds the slots of its   *)
(* scheme's fields as it was parsed for them.                              *)
(***************************************************************************)
EXTENDS FilterExecution, SequenceTheorems, TLAPS

Phases   == {"none", "making", "live", "reading", "lent"}
UsePhase == {"making", "live", "reading"}
Slot     == Value \cup {Unset}

Shape ==
  /\ fields \in [Stores -> Seq(FieldDefinition)]
  /\ lists \in [Stores -> Seq(Types)]
  /\ phase \in [Contexts -> Phases]
  /\ scheme_store \in [Contexts -> Stores]
  /\ items \in [Contexts -> SUBSET Nat]
  /\ values \in [Contexts -> Seq(Slot)]
  /\ list_matchers \in [Contexts -> Seq(BOOLEAN)]
  /\ old \in [Contexts -> Contexts \cup {NoContext}]

\* An object that is no context has nothing, and guards nothing.
AtRest ==
  \A c \in Contexts : phase[c] = "none" =>
    values[c] = << >> /\ list_matchers[c] = << >> /\ old[c] = NoContext

IInv == Shape /\ AtRest /\ OwnFieldsFit /\ ValuesAreTyped /\ LentToOneGuard

LEMMA InitIInv == Init => IInv
<1> SUFFICES ASSUME Init PROVE IInv
  OBVIOUS
<1> USE DEF Init
<1>1. (CHOOSE s \in Stores : TRUE) \in Stores
  BY ContextAssumption
<1>2. Shape
  BY <1>1, ContextAssumption DEF Shape, Phases
<1>3. AtRest /\ OwnFieldsFit
  BY DEF AtRest, OwnFieldsFit, InUse
<1>4. ValuesAreTyped
  BY DEF ValuesAreTyped
<1>5. LentToOneGuard
  BY DEF LentToOneGuard
<1> QED BY <1>2, <1>3, <1>4, <1>5 DEF IInv

-----------------------------------------------------------------------------
(***************************************************************************)
(* Calls that neither move contexts nor touch a store: they keep the       *)
(* number of slots, and put into a slot nothing or a value of its field's  *)
(* type; only a context in use is given another number of matchers.        *)
(***************************************************************************)
Fits(c, i, v) == v = Unset \/ (v \in Value /\ v.ty = fields[scheme_store[c]][i].ty)

KeepsSlots ==
  /\ values' \in [Contexts -> Seq(Slot)]
  /\ \A c \in Contexts :
       /\ Len(values'[c]) = Len(values[c])
       /\ \A i \in 1..Len(values[c]) :
            values'[c][i] = values[c][i] \/ Fits(c, i, values'[c][i])

KeepsMatchers ==
  /\ list_matchers' \in [Contexts -> Seq(BOOLEAN)]
  /\ \A c \in Contexts :
       \/ Len(list_matchers'[c]) = Len(list_matchers[c])
       \/ InUse(c) /\ Len(list_matchers'[c]) <= Len(lists[scheme_store[c]])

KeepsUse ==
  /\ phase' \in [Contexts -> Phases]
  /\ \A c \in Contexts :
       phase'[c] = phase[c] \/ (phase[c] \in UsePhase /\ phase'[c] \in UsePhase)

KeepsOwners == UNCHANGED <<fields, lists, scheme_store, items, old>>

LEMMA KeepsStep ==
  ASSUME IInv, KeepsOwners, KeepsUse, KeepsSlots, KeepsMatchers
  PROVE  IInv'
<1> USE DEF IInv
<1>1. Shape'
  BY DEF Shape, KeepsOwners, KeepsUse, KeepsSlots, KeepsMatchers
<1>2. ASSUME NEW s \in Seq(Slot) \cup Seq(BOOLEAN), Len(s) = 0 PROVE s = << >>
  BY <1>2
<1>3. AtRest'
  <2> SUFFICES ASSUME NEW c \in Contexts, phase'[c] = "none"
               PROVE  values'[c] = << >> /\ list_matchers'[c] = << >> /\ old'[c] = NoContext
    BY DEF AtRest
  <2>1. phase[c] = "none"
    BY DEF KeepsUse, UsePhase
  <2>2. values[c] = << >> /\ list_matchers[c] = << >> /\ old[c] = NoContext
    BY <2>1 DEF AtRest
  <2>3. /\ values'[c] \in Seq(Slot) /\ Len(values'[c]) = 0
        /\ list_matchers'[c] \in Seq(BOOLEAN) /\ Len(list_matchers'[c]) = 0
    BY <2>1, <2>2 DEF KeepsSlots, KeepsMatchers, InUse
  <2> QED BY <1>2, <2>2, <2>3 DEF KeepsOwners
<1>4. OwnFieldsFit'
  <2> SUFFICES ASSUME NEW c \in Contexts, InUse(c)'
               PROVE  /\ items'[c] \subseteq 1..Len(values'[c])
                      /\ Len(values'[c]) <= Len(fields'[scheme_store'[c]])
                      /\ Len(list_matchers'[c]) <= Len(lists'[scheme_store'[c]])
    BY DEF OwnFieldsFit
  <2>1. InUse(c)
    BY DEF InUse, KeepsUse, UsePhase
  <2> QED BY <2>1 DEF OwnFieldsFit, KeepsOwners, KeepsSlots, KeepsMatchers
<1>5. ValuesAreTyped'
  <2> SUFFICES ASSUME NEW c \in Contexts, NEW i \in 1..Len(values'[c]), values'[c][i] # Unset
               PROVE  values'[c][i].ty = fields'[scheme_store'[c]][i].ty
    BY DEF ValuesAreTyped
  <2>1. i \in 1..Len(values[c])
    BY DEF KeepsSlots
  <2>2. values'[c][i] = values[c][i] \/ Fits(c, i, values'[c][i])
    BY <2>1 DEF KeepsSlots
  <2> QED BY <2>1, <2>2 DEF ValuesAreTyped, Fits, KeepsOwners
<1>6. LentToOneGuard'
  <2>1. ASSUME NEW c \in Contexts, phase'[c] = "lent"
        PROVE  /\ values'[c] = << >> /\ list_matchers'[c] = << >>
               /\ \E g \in Contexts :
                    /\ old'[g] = c /\ phase'[g] # "none"
                    /\ scheme_store'[g] = scheme_store'[c] /\ items'[g] = items'[c]
                    /\ \A h \in Contexts : old'[h] = c => h = g
    <3>1. phase[c] = "lent"
      BY <2>1 DEF KeepsUse, UsePhase
    <3>2. values[c] = << >> /\ list_matchers[c] = << >>
      BY <3>1 DEF LentToOneGuard
    <3>3. /\ values'[c] \in Seq(Slot) /\ Len(values'[c]) = 0
          /\ list_matchers'[c] \in Seq(BOOLEAN) /\ Len(list_matchers'[c]) = 0
      BY <3>1, <3>2 DEF KeepsSlots, KeepsMatchers, InUse
    <3>4. PICK g \in Contexts :
            /\ old[g] = c /\ phase[g] # "none"
            /\ scheme_store[g] = scheme_store[c] /\ items[g] = items[c]
            /\ \A h \in Contexts : old[h] = c => h = g
      BY <3>1 DEF LentToOneGuard
    <3>5. phase'[g] # "none"
      BY <3>4 DEF KeepsUse, UsePhase
    <3> QED BY <1>2, <3>3, <3>4, <3>5 DEF KeepsOwners
  <2>2. ASSUME NEW g \in Contexts, old'[g] # NoContext PROVE phase'[old'[g]] = "lent"
    <3>1. old[g] \in Contexts /\ old'[g] = old[g] /\ phase[old[g]] = "lent"
      BY <2>2 DEF Shape, LentToOneGuard, KeepsOwners
    <3> QED BY <3>1 DEF KeepsUse, UsePhase
  <2> QED BY <2>1, <2>2 DEF LentToOneGuard
<1> QED BY <1>1, <1>3, <1>4, <1>5, <1>6

-----------------------------------------------------------------------------
(***************************************************************************)
(* How the calls touch slots, matchers and phases.                         *)
(***************************************************************************)
LEMMA SlotsUnchanged ==
  ASSUME IInv, UNCHANGED values PROVE KeepsSlots
BY DEF IInv, Shape, KeepsSlots

LEMMA MatchersUnchanged ==
  ASSUME IInv, UNCHANGED list_matchers PROVE KeepsMatchers
BY DEF IInv, Shape, KeepsMatchers

LEMMA UseUnchanged ==
  ASSUME IInv, UNCHANGED phase PROVE KeepsUse
BY DEF IInv, Shape, KeepsUse

LEMMA UseMoved ==
  ASSUME IInv, NEW c \in Contexts, phase[c] \in UsePhase,
         NEW p \in UsePhase, phase' = [phase EXCEPT ![c] = p]
  PROVE  KeepsUse
BY DEF IInv, Shape, KeepsUse, UsePhase, Phases

LEMMA ReplaceKeepsSlots ==
  ASSUME IInv, NEW c \in Contexts, NEW i, NEW v \in Value, NEW done,
         Replace(c, i, v, done)
  PROVE  KeepsSlots
<1>1. CASE UNCHANGED values
  BY <1>1, SlotsUnchanged
<1>2. CASE /\ TypeMatches(c, i, v) /\ InBounds(c, i)
           /\ values' = [values EXCEPT ![c][i] = v]
  <2>1. values[c] \in Seq(Slot) /\ i \in 1..Len(values[c]) /\ v \in Slot
    BY <1>2 DEF IInv, Shape, InBounds, Slot
  <2> DEFINE s == [values[c] EXCEPT ![i] = v]
  <2>2. /\ s \in Seq(Slot) /\ Len(s) = Len(values[c]) /\ s[i] = v
        /\ \A j \in 1..Len(values[c]) : j # i => s[j] = values[c][j]
    BY <2>1
  <2>3. values' = [values EXCEPT ![c] = s]
    BY <1>2
  <2> HIDE DEF s
  <2>4. values' \in [Contexts -> Seq(Slot)] /\ values'[c] = s
    BY <2>2, <2>3 DEF IInv, Shape
  <2>5. \A d \in Contexts : d # c => values'[d] = values[d]
    BY <2>3 DEF IInv, Shape
  <2>6. Fits(c, i, v)
    BY <1>2 DEF Fits, TypeMatches
  <2> QED BY <2>2, <2>4, <2>5, <2>6 DEF KeepsSlots
<1> QED BY <1>1, <1>2 DEF Replace

LEMMA ReplaceIfUnsetKeepsSlots ==
  ASSUME IInv, NEW c \in Contexts, NEW i, NEW v \in Value, ReplaceIfUnset(c, i, v)
  PROVE  KeepsSlots
BY SlotsUnchanged, ReplaceKeepsSlots DEF ReplaceIfUnset

LEMMA PutMatcherKeepsMatchers ==
  ASSUME IInv, NEW c \in Contexts, NEW i, NEW m \in BOOLEAN, PutMatcher(c, i, m)
  PROVE  KeepsMatchers
<1>1. CASE UNCHANGED list_matchers
  BY <1>1, MatchersUnchanged
<1>2. CASE /\ i \in 1..Len(list_matchers[c])
           /\ list_matchers' = [list_matchers EXCEPT ![c][i] = m]
  <2>1. list_matchers[c] \in Seq(BOOLEAN)
    BY DEF IInv, Shape
  <2> DEFINE s == [list_matchers[c] EXCEPT ![i] = m]
  <2>2. s \in Seq(BOOLEAN) /\ Len(s) = Len(list_matchers[c])
    BY <1>2, <2>1
  <2>3. list_matchers' = [list_matchers EXCEPT ![c] = s]
    BY <1>2
  <2> HIDE DEF s
  <2> QED BY <2>2, <2>3 DEF IInv, Shape, KeepsMatchers
<1> QED BY <1>1, <1>2 DEF PutMatcher

LEMMA ClearKeepsStep ==
  ASSUME IInv, NEW c \in Contexts, Clear(c) PROVE IInv'
<1> DEFINE s == [i \in 1..Len(values[c]) |-> Unset]
           t == [i \in 1..Len(list_matchers[c]) |-> FALSE]
<1>1. values[c] \in Seq(Slot) /\ list_matchers[c] \in Seq(BOOLEAN)
  BY DEF IInv, Shape
<1>2. Len(values[c]) \in Nat /\ Len(list_matchers[c]) \in Nat
  BY <1>1
<1>3. Unset \in Slot
  BY DEF Slot
<1>4. /\ s \in Seq(Slot) /\ Len(s) = Len(values[c])
      /\ \A i \in 1..Len(values[c]) : s[i] = Unset
  BY <1>2, <1>3
<1>5. t \in Seq(BOOLEAN) /\ Len(t) = Len(list_matchers[c])
  BY <1>2
<1>6. values' = [values EXCEPT ![c] = s] /\ list_matchers' = [list_matchers EXCEPT ![c] = t]
  BY DEF Clear
<1> HIDE DEF s, t
<1>7. KeepsSlots
  <2>1. values' \in [Contexts -> Seq(Slot)] /\ values'[c] = s
    BY <1>4, <1>6 DEF IInv, Shape
  <2>2. \A d \in Contexts : d # c => values'[d] = values[d]
    BY <1>6 DEF IInv, Shape
  <2> QED BY <1>4, <2>1, <2>2 DEF KeepsSlots, Fits
<1>8. KeepsMatchers
  BY <1>5, <1>6 DEF IInv, Shape, KeepsMatchers
<1> QED BY <1>7, <1>8, UseUnchanged, KeepsStep DEF Clear, KeepsOwners, stores, owners

LEMMA SlotStepKeeps ==
  ASSUME IInv, NEW c \in Contexts, SlotStep(c) PROVE IInv'
<1> USE UseUnchanged, SlotsUnchanged, MatchersUnchanged, KeepsStep
    DEF stores, owners, KeepsOwners
<1>1. CASE \E f \in FieldRefs, v \in Value : SetFieldValue(c, f, v)
  BY <1>1, ReplaceKeepsSlots DEF SetFieldValue
<1>2. CASE \E f \in FieldRefs, v \in Value : SetFieldValueLazy(c, f, v)
  BY <1>2, ReplaceIfUnsetKeepsSlots DEF SetFieldValueLazy
<1>3. CASE \E i \in Indices(scheme_store[c]), v \in Value : SetFieldValueFromName(c, i, v)
  BY <1>3, ReplaceKeepsSlots DEF SetFieldValueFromName
<1>4. CASE \E i \in Indices(scheme_store[c]), v \in Value : SetFieldValueFromNameLazy(c, i, v)
  BY <1>4, ReplaceIfUnsetKeepsSlots DEF SetFieldValueFromNameLazy
<1>5. CASE \E s \in Stores : \E i \in 1..MaxLists[s], m \in Matcher :
             GetListMatcherMut(c, s, i, m)
  BY <1>5, PutMatcherKeepsMatchers DEF GetListMatcherMut, Matcher
<1>6. CASE \E t \in Types, m \in Matcher : GetListMatcherMutFromType(c, t, m)
  BY <1>6, PutMatcherKeepsMatchers DEF GetListMatcherMutFromType, Matcher
<1>7. CASE Clear(c)
  BY <1>7, ClearKeepsStep
<1> QED BY <1>1, <1>2, <1>3, <1>4, <1>5, <1>6, <1>7 DEF SlotStep

-----------------------------------------------------------------------------
LEMMA DeserializeFieldKeeps ==
  ASSUME IInv, NEW c \in Contexts, NEW name, NEW data \in Data,
         DeserializeField(c, name, data)
  PROVE  IInv'
<1> USE DEF KeepsOwners, stores, UsePhase
<1>1. CASE EndDeserialize(c, "UnknownField") /\ UNCHANGED values
  <2>1. KeepsUse
    BY <1>1, UseMoved DEF EndDeserialize, DeserializeField
  <2> QED BY <1>1, <2>1, SlotsUnchanged, MatchersUnchanged, KeepsStep DEF DeserializeField
<1>2. CASE OwnField(c, name)
  <2> DEFINE v == [ty |-> fields[scheme_store[c]][name].ty, data |-> data]
  <2>1. phase[c] = "reading" /\ Replace(c, name, v, "Ok") /\ UNCHANGED list_matchers
    BY <1>2 DEF DeserializeField
  <2>2. /\ name \in 1..Len(values[c])
        /\ Len(values[c]) <= Len(fields[scheme_store[c]])
    BY <1>2, <2>1 DEF IInv, OwnFieldsFit, InUse, OwnField
  <2>3. fields[scheme_store[c]] \in Seq(FieldDefinition) /\ values[c] \in Seq(Slot)
    BY DEF IInv, Shape
  <2>4. fields[scheme_store[c]][name] \in FieldDefinition
    BY <2>2, <2>3
  <2>5. v \in Value
    BY <2>4, ContextAssumption DEF Value
  <2>6. KeepsSlots
    BY <2>1, <2>5, ReplaceKeepsSlots
  <2>7. phase' = phase
    BY <1>2, <2>1, <2>2 DEF DeserializeField, InBounds, IInv, Shape
  <2> QED BY <2>1, <2>6, <2>7, UseUnchanged, MatchersUnchanged, KeepsStep
          DEF DeserializeField
<1> QED BY <1>1, <1>2 DEF DeserializeField

LEMMA DeserializeListKeeps ==
  ASSUME IInv, NEW c \in Contexts, NEW t, NEW m \in BOOLEAN, DeserializeList(c, t, m)
  PROVE  IInv'
<1> USE DEF KeepsOwners, stores, UsePhase
<1>1. phase[c] = "reading" /\ UNCHANGED <<stores, scheme_store, items, old, values>>
  BY DEF DeserializeList
<1>2. CASE EndDeserialize(c, "NoList") /\ UNCHANGED list_matchers
  <2>1. KeepsUse
    BY <1>1, <1>2, UseMoved DEF EndDeserialize
  <2> QED BY <1>1, <1>2, <2>1, SlotsUnchanged, MatchersUnchanged, KeepsStep
<1>3. CASE Listed(scheme_store[c], t)
  <2> DEFINE i == ListOf(scheme_store[c], t)
             p == IF i \in 1..Len(list_matchers[c]) THEN phase[c] ELSE "live"
  <2>1. PutMatcher(c, i, m) /\ phase' = [phase EXCEPT ![c] = p]
    BY <1>3 DEF DeserializeList
  <2>2. KeepsMatchers
    BY <2>1, PutMatcherKeepsMatchers
  <2>3. p \in UsePhase
    BY <1>1
  <2>4. KeepsUse
    BY <1>1, <2>1, <2>3, UseMoved
  <2> QED BY <1>1, <2>2, <2>4, SlotsUnchanged, KeepsStep
<1> QED BY <1>2, <1>3 DEF DeserializeList

LEMMA SerdeStepKeeps ==
  ASSUME IInv, NEW c \in Contexts, SerdeStep(c) PROVE IInv'
<1> USE SlotsUnchanged, MatchersUnchanged, KeepsStep
    DEF KeepsOwners, stores, owners, slots, UsePhase
<1>1. CASE Deserialize(c)
  <2>1. KeepsUse
    BY <1>1, UseMoved DEF Deserialize, Live
  <2> QED BY <1>1, <2>1 DEF Deserialize
<1>2. CASE \E i \in Indices(scheme_store[c]), d \in Data : DeserializeField(c, i, d)
  BY <1>2, DeserializeFieldKeeps
<1>3. CASE \E t \in Types, m \in Matcher : DeserializeList(c, t, m)
  BY <1>3, DeserializeListKeeps DEF Matcher
<1>4. CASE DeserializeEnd(c)
  <2>1. KeepsUse
    BY <1>4, UseMoved DEF DeserializeEnd, EndDeserialize
  <2> QED BY <1>4, <2>1 DEF DeserializeEnd
<1>5. CASE Serialize(c)
  BY <1>5, UseUnchanged DEF Serialize
<1> QED BY <1>1, <1>2, <1>3, <1>4, <1>5 DEF SerdeStep

LEMMA NewMatchersKeeps ==
  ASSUME IInv, NEW c \in Contexts, NewMatchers(c) PROVE IInv'
<1> DEFINE n == Len(lists[scheme_store[c]])
           t == [i \in 1..n |-> FALSE]
<1>1. n \in Nat
  BY DEF IInv, Shape
<1>2. t \in Seq(BOOLEAN) /\ Len(t) = n
  BY <1>1
<1>3. /\ phase[c] = "making" /\ phase' = [phase EXCEPT ![c] = "live"]
      /\ list_matchers' = [list_matchers EXCEPT ![c] = t]
  BY DEF NewMatchers
<1> HIDE DEF t
<1>4. KeepsMatchers
  BY <1>1, <1>2, <1>3 DEF IInv, Shape, KeepsMatchers, InUse
<1>5. KeepsUse
  BY <1>3, UseMoved DEF UsePhase
<1> QED BY <1>4, <1>5, SlotsUnchanged, KeepsStep DEF NewMatchers, KeepsOwners, stores

-----------------------------------------------------------------------------
(***************************************************************************)
(* Registrations only lengthen the vectors of a store; a context that is   *)
(* not in use has no slots at all.                                         *)
(***************************************************************************)
LEMMA SlotsAreFields ==
  ASSUME IInv, NEW c \in Contexts
  PROVE  /\ Len(values[c]) <= Len(fields[scheme_store[c]])
         /\ Len(list_matchers[c]) <= Len(lists[scheme_store[c]])
<1>1. CASE InUse(c)
  BY <1>1 DEF IInv, OwnFieldsFit
<1>2. CASE ~InUse(c)
  <2>1. phase[c] \in {"none", "lent"}
    BY <1>2 DEF IInv, Shape, InUse, Phases
  <2>2. values[c] = << >> /\ list_matchers[c] = << >>
    BY <2>1 DEF IInv, AtRest, LentToOneGuard
  <2>3. /\ Len(fields[scheme_store[c]]) \in Nat
        /\ Len(lists[scheme_store[c]]) \in Nat
    BY DEF IInv, Shape
  <2> QED BY <2>2, <2>3
<1> QED BY <1>1, <1>2

LEMMA RegisterFieldKeeps ==
  ASSUME IInv, NEW s \in Stores, NEW def \in FieldDefinition, RegisterField(s, def)
  PROVE  IInv'
<1> USE DEF IInv
<1>1. UNCHANGED <<lists, owners, slots, result>>
  BY DEF RegisterField
<1> DEFINE more == Append(fields[s], def)
<1>2. fields[s] \in Seq(FieldDefinition)
  BY DEF Shape
<1>3. /\ more \in Seq(FieldDefinition) /\ Len(more) = Len(fields[s]) + 1
      /\ \A i \in 1..Len(fields[s]) : more[i] = fields[s][i]
  BY <1>2
<1>4. fields' = [fields EXCEPT ![s] = more]
  BY DEF RegisterField
<1> HIDE DEF more
<1>5. fields' \in [Stores -> Seq(FieldDefinition)]
  BY <1>3, <1>4 DEF Shape
<1>6. \A t \in Stores :
        /\ Len(fields[t]) \in Nat /\ Len(fields[t]) <= Len(fields'[t])
        /\ \A i \in 1..Len(fields[t]) : fields'[t][i] = fields[t][i]
  BY <1>3, <1>4 DEF Shape
<1>7. Shape' /\ AtRest' /\ LentToOneGuard'
  BY <1>1, <1>5 DEF Shape, AtRest, LentToOneGuard, owners, slots
<1>8. ASSUME NEW c \in Contexts
      PROVE  /\ scheme_store[c] \in Stores /\ Len(values[c]) \in Nat
             /\ Len(fields'[scheme_store[c]]) \in Nat
  BY <1>5 DEF Shape
<1>9. OwnFieldsFit'
  <2> SUFFICES ASSUME NEW c \in Contexts, InUse(c)'
               PROVE  /\ items'[c] \subseteq 1..Len(values'[c])
                      /\ Len(values'[c]) <= Len(fields'[scheme_store'[c]])
                      /\ Len(list_matchers'[c]) <= Len(lists'[scheme_store'[c]])
    BY DEF OwnFieldsFit
  <2>1. InUse(c)
    BY <1>1 DEF InUse, owners
  <2> QED BY <2>1, <1>1, <1>6, <1>8 DEF OwnFieldsFit, owners, slots
<1>10. ValuesAreTyped'
  <2> SUFFICES ASSUME NEW c \in Contexts, NEW i \in 1..Len(values'[c]), values'[c][i] # Unset
               PROVE  values'[c][i].ty = fields'[scheme_store'[c]][i].ty
    BY DEF ValuesAreTyped
  <2>1. i \in 1..Len(values[c]) /\ values[c][i] # Unset
    BY <1>1 DEF slots
  <2>2. i \in 1..Len(fields[scheme_store[c]])
    BY <2>1, <1>6, <1>8, SlotsAreFields
  <2>3. fields'[scheme_store[c]][i] = fields[scheme_store[c]][i]
    BY <2>2, <1>6, <1>8
  <2> QED BY <2>1, <2>3, <1>1 DEF ValuesAreTyped, owners, slots
<1> QED BY <1>7, <1>9, <1>10

LEMMA RegisterListKeeps ==
  ASSUME IInv, NEW s \in Stores, NEW t \in Types, RegisterList(s, t)
  PROVE  IInv'
<1> USE DEF IInv
<1>1. UNCHANGED <<fields, owners, slots, result>>
  BY DEF RegisterList
<1> DEFINE more == Append(lists[s], t)
<1>2. lists[s] \in Seq(Types)
  BY DEF Shape
<1>3. more \in Seq(Types) /\ Len(more) = Len(lists[s]) + 1
  BY <1>2
<1>4. lists' = [lists EXCEPT ![s] = more]
  BY DEF RegisterList
<1> HIDE DEF more
<1>5. lists' \in [Stores -> Seq(Types)]
  BY <1>3, <1>4 DEF Shape
<1>6. \A u \in Stores : Len(lists[u]) \in Nat /\ Len(lists[u]) <= Len(lists'[u])
  BY <1>3, <1>4 DEF Shape
<1>7. Shape' /\ AtRest' /\ LentToOneGuard'
  BY <1>1, <1>5 DEF Shape, AtRest, LentToOneGuard, owners, slots
<1>8. ValuesAreTyped'
  BY <1>1 DEF ValuesAreTyped, owners, slots
<1>9. OwnFieldsFit'
  <2> SUFFICES ASSUME NEW c \in Contexts, InUse(c)'
               PROVE  /\ items'[c] \subseteq 1..Len(values'[c])
                      /\ Len(values'[c]) <= Len(fields'[scheme_store'[c]])
                      /\ Len(list_matchers'[c]) <= Len(lists'[scheme_store'[c]])
    BY DEF OwnFieldsFit
  <2>1. InUse(c)
    BY <1>1 DEF InUse, owners
  <2>2. /\ scheme_store[c] \in Stores /\ Len(list_matchers[c]) \in Nat
        /\ Len(lists'[scheme_store[c]]) \in Nat
    BY <1>5 DEF Shape
  <2> QED BY <2>1, <2>2, <1>1, <1>6 DEF OwnFieldsFit, owners, slots
<1> QED BY <1>7, <1>8, <1>9

-----------------------------------------------------------------------------
(***************************************************************************)
(* Moves.  Where the contexts that a call touches are neither lent nor     *)
(* guards, before and after it, it leaves every loan alone.                *)
(***************************************************************************)
SameContext(x) ==
  /\ phase'[x] = phase[x] /\ scheme_store'[x] = scheme_store[x] /\ items'[x] = items[x]
  /\ values'[x] = values[x] /\ list_matchers'[x] = list_matchers[x] /\ old'[x] = old[x]

Unguarded(S) ==
  \A x \in S : /\ phase[x] # "lent" /\ phase'[x] # "lent"
               /\ old[x] = NoContext /\ old'[x] = NoContext

LEMMA GuardsUndisturbed ==
  ASSUME IInv, NEW S \in SUBSET Contexts,
         \A x \in Contexts \ S : SameContext(x), Unguarded(S)
  PROVE  LentToOneGuard'
<1>1. ASSUME NEW x \in Contexts, phase'[x] = "lent"
      PROVE  /\ values'[x] = << >> /\ list_matchers'[x] = << >>
             /\ \E g \in Contexts :
                  /\ old'[g] = x /\ phase'[g] # "none"
                  /\ scheme_store'[g] = scheme_store'[x] /\ items'[g] = items'[x]
                  /\ \A h \in Contexts : old'[h] = x => h = g
  <2>1. x # NoContext
    BY ContextAssumption
  <2>2. SameContext(x) /\ phase[x] = "lent"
    BY <1>1 DEF Unguarded, SameContext
  <2>3. PICK g \in Contexts :
          /\ old[g] = x /\ phase[g] # "none"
          /\ scheme_store[g] = scheme_store[x] /\ items[g] = items[x]
          /\ \A h \in Contexts : old[h] = x => h = g
    BY <2>2 DEF IInv, LentToOneGuard
  <2>4. SameContext(g)
    BY <2>1, <2>3 DEF Unguarded
  <2>5. ASSUME NEW h \in Contexts, old'[h] = x PROVE h = g
    BY <2>1, <2>3, <2>5 DEF Unguarded, SameContext
  <2>6. values[x] = << >> /\ list_matchers[x] = << >>
    BY <2>2 DEF IInv, LentToOneGuard
  <2> QED BY <2>2, <2>3, <2>4, <2>5, <2>6 DEF SameContext
<1>2. ASSUME NEW g \in Contexts, old'[g] # NoContext PROVE phase'[old'[g]] = "lent"
  <2>1. old'[g] = old[g] /\ old[g] \in Contexts /\ phase[old[g]] = "lent"
    BY <1>2 DEF Unguarded, SameContext, IInv, LentToOneGuard, Shape
  <2> QED BY <2>1 DEF Unguarded, SameContext
<1> QED BY <1>1, <1>2 DEF LentToOneGuard

LEMMA NewKeeps ==
  ASSUME IInv, NEW c \in Contexts, NEW s \in Stores, NEW own \in SUBSET Indices(s),
         New(c, s, own)
  PROVE  IInv'
<1> USE DEF IInv
<1> DEFINE n == Len(fields[s])
           empty == [i \in 1..n |-> Unset]
<1>1. n \in Nat
  BY DEF Shape
<1>2. /\ empty \in Seq(Slot) /\ Len(empty) = n
      /\ \A i \in 1..n : empty[i] = Unset
  BY <1>1 DEF Slot
<1>3. /\ phase[c] = "none" /\ own \subseteq 1..n
      /\ phase' = [phase EXCEPT ![c] = "making"]
      /\ scheme_store' = [scheme_store EXCEPT ![c] = s]
      /\ items' = [items EXCEPT ![c] = own]
      /\ values' = [values EXCEPT ![c] = empty]
      /\ UNCHANGED <<fields, lists, list_matchers, old>>
  BY DEF New, stores
<1> HIDE DEF empty
<1>4. own \in SUBSET Nat
  BY <1>1, <1>3
<1>5. Shape'
  BY <1>2, <1>3, <1>4 DEF Shape, Phases
<1>6. list_matchers[c] = << >> /\ old[c] = NoContext
  BY <1>3 DEF AtRest
<1>7. AtRest'
  BY <1>3 DEF AtRest, Shape
<1>8. OwnFieldsFit'
  <2> SUFFICES ASSUME NEW d \in Contexts, InUse(d)'
               PROVE  /\ items'[d] \subseteq 1..Len(values'[d])
                      /\ Len(values'[d]) <= Len(fields'[scheme_store'[d]])
                      /\ Len(list_matchers'[d]) <= Len(lists'[scheme_store'[d]])
    BY DEF OwnFieldsFit
  <2>1. CASE d = c
    <3>1. Len(lists[s]) \in Nat
      BY DEF Shape
    <3>2. /\ items'[c] = own /\ values'[c] = empty /\ scheme_store'[c] = s
          /\ list_matchers'[c] = << >> /\ fields' = fields /\ lists' = lists
      BY <1>3, <1>6 DEF Shape
    <3>3. Len(<< >>) = 0
      OBVIOUS
    <3> QED BY <2>1, <3>1, <3>2, <3>3, <1>1, <1>2, <1>3
  <2>2. CASE d # c
    BY <2>2, <1>3 DEF OwnFieldsFit, InUse, Shape
  <2> QED BY <2>1, <2>2
<1>9. ValuesAreTyped'
  BY <1>2, <1>3 DEF ValuesAreTyped, Shape
<1>10. LentToOneGuard'
  <2>1. \A x \in Contexts \ {c} : SameContext(x)
    BY <1>3 DEF SameContext, Shape
  <2>2. Unguarded({c})
    BY <1>3, <1>6 DEF Unguarded, Shape
  <2> QED BY <2>1, <2>2, GuardsUndisturbed
<1> QED BY <1>5, <1>7, <1>8, <1>9, <1>10

LEMMA DropKeeps ==
  ASSUME IInv, NEW c \in Contexts, Drop(c) PROVE IInv'
<1> USE DEF IInv
<1>1. /\ phase[c] = "live" /\ old[c] = NoContext
      /\ phase' = [phase EXCEPT ![c] = "none"]
      /\ items' = [items EXCEPT ![c] = {}]
      /\ values' = [values EXCEPT ![c] = << >>]
      /\ list_matchers' = [list_matchers EXCEPT ![c] = << >>]
      /\ UNCHANGED <<fields, lists, scheme_store, old>>
  BY DEF Drop, Live, Free, stores
<1>2. Shape'
  BY <1>1 DEF Shape, Phases
<1>3. AtRest' /\ OwnFieldsFit' /\ ValuesAreTyped'
  BY <1>1 DEF AtRest, OwnFieldsFit, InUse, ValuesAreTyped, Shape
<1>4. LentToOneGuard'
  <2>1. \A x \in Contexts \ {c} : SameContext(x)
    BY <1>1 DEF SameContext, Shape
  <2>2. Unguarded({c})
    BY <1>1 DEF Unguarded, Shape
  <2> QED BY <2>1, <2>2, GuardsUndisturbed
<1> QED BY <1>2, <1>3, <1>4

\* What Hand leaves: c's slots and matchers in d, and v and m in c.
Handed(c, d, v, m) ==
  /\ fields' = fields /\ lists' = lists
  /\ scheme_store' \in [Contexts -> Stores]
  /\ values' \in [Contexts -> Seq(Slot)]
  /\ list_matchers' \in [Contexts -> Seq(BOOLEAN)]
  /\ scheme_store'[d] = scheme_store[c] /\ scheme_store'[c] = scheme_store[c]
  /\ values'[d] = values[c] /\ values'[c] = v
  /\ list_matchers'[d] = list_matchers[c] /\ list_matchers'[c] = m
  /\ \A x \in Contexts \ {c, d} :
       /\ scheme_store'[x] = scheme_store[x]
       /\ values'[x] = values[x] /\ list_matchers'[x] = list_matchers[x]

LEMMA HandedOver ==
  ASSUME IInv, NEW c \in Contexts, NEW d \in Contexts, c # d,
         NEW rest, rest[1] \in Seq(Slot), rest[2] \in Seq(BOOLEAN), Hand(c, d, rest)
  PROVE  Handed(c, d, rest[1], rest[2])
<1>1. /\ scheme_store \in [Contexts -> Stores]
      /\ values \in [Contexts -> Seq(Slot)]
      /\ list_matchers \in [Contexts -> Seq(BOOLEAN)]
  BY DEF IInv, Shape
<1> DEFINE v == rest[1]
           m == rest[2]
<1>2. /\ scheme_store' = [scheme_store EXCEPT ![d] = scheme_store[c]]
      /\ values' = [values EXCEPT ![d] = values[c], ![c] = v]
      /\ list_matchers' = [list_matchers EXCEPT ![d] = list_matchers[c], ![c] = m]
      /\ UNCHANGED <<fields, lists>>
  BY DEF Hand, stores
<1>3. v \in Seq(Slot) /\ m \in Seq(BOOLEAN)
  OBVIOUS
<1> HIDE DEF v, m
<1>4. /\ fields' = fields /\ lists' = lists
      /\ scheme_store' \in [Contexts -> Stores]
      /\ scheme_store'[d] = scheme_store[c] /\ scheme_store'[c] = scheme_store[c]
      /\ \A x \in Contexts \ {c, d} : scheme_store'[x] = scheme_store[x]
  BY <1>1, <1>2
<1>5. /\ values' \in [Contexts -> Seq(Slot)]
      /\ values'[d] = values[c] /\ values'[c] = v
      /\ \A x \in Contexts \ {c, d} : values'[x] = values[x]
  BY <1>1, <1>2, <1>3
<1>6. /\ list_matchers' \in [Contexts -> Seq(BOOLEAN)]
      /\ list_matchers'[d] = list_matchers[c] /\ list_matchers'[c] = m
      /\ \A x \in Contexts \ {c, d} : list_matchers'[x] = list_matchers[x]
  BY <1>1, <1>2, <1>3
<1> QED BY <1>4, <1>5, <1>6 DEF Handed, v, m

\* After a move a context is what it was, empties, or is what a live one was.
Emptied(x) ==
  /\ values'[x] = << >> /\ list_matchers'[x] = << >>
  /\ phase'[x] = "lent" \/ (phase'[x] = "none" /\ old'[x] = NoContext)

Became(x, y) ==
  /\ phase[y] = "live" /\ phase'[x] = "live"
  /\ scheme_store'[x] = scheme_store[y] /\ items'[x] = items[y]
  /\ values'[x] = values[y] /\ list_matchers'[x] = list_matchers[y]

LEMMA MovedContextsFit ==
  ASSUME IInv, UNCHANGED <<fields, lists>>,
         \A x \in Contexts :
           SameContext(x) \/ Emptied(x) \/ (\E y \in Contexts : Became(x, y))
  PROVE  AtRest' /\ OwnFieldsFit' /\ ValuesAreTyped'
<1> USE DEF IInv
<1>1. ASSUME NEW x \in Contexts
      PROVE  /\ phase'[x] = "none" =>
                  values'[x] = << >> /\ list_matchers'[x] = << >> /\ old'[x] = NoContext
             /\ phase'[x] \in UsePhase =>
                  /\ items'[x] \subseteq 1..Len(values'[x])
                  /\ Len(values'[x]) <= Len(fields[scheme_store'[x]])
                  /\ Len(list_matchers'[x]) <= Len(lists[scheme_store'[x]])
             /\ \A i \in 1..Len(values'[x]) :
                  values'[x][i] # Unset => values'[x][i].ty = fields[scheme_store'[x]][i].ty
  <2>1. CASE SameContext(x)
    BY <2>1 DEF SameContext, AtRest, OwnFieldsFit, InUse, UsePhase, ValuesAreTyped
  <2>2. CASE Emptied(x)
    BY <2>2 DEF Emptied, UsePhase
  <2>3. ASSUME NEW y \in Contexts, Became(x, y)
        PROVE  /\ phase'[x] # "none"
               /\ items'[x] \subseteq 1..Len(values'[x])
               /\ Len(values'[x]) <= Len(fields[scheme_store'[x]])
               /\ Len(list_matchers'[x]) <= Len(lists[scheme_store'[x]])
               /\ \A i \in 1..Len(values'[x]) :
                    values'[x][i] # Unset => values'[x][i].ty = fields[scheme_store'[x]][i].ty
    BY <2>3 DEF Became, OwnFieldsFit, InUse, ValuesAreTyped
  <2> QED BY <2>1, <2>2, <2>3
<1> QED BY <1>1 DEF AtRest, OwnFieldsFit, InUse, UsePhase, ValuesAreTyped

LEMMA CloneKeeps ==
  ASSUME IInv, NEW c \in Contexts, NEW d \in Contexts, CloneWith(c, d) PROVE IInv'
<1> DEFINE rest == <<values[c], list_matchers[c]>>
<1>1. /\ phase[c] = "live" /\ phase[d] = "none" /\ Hand(c, d, rest)
      /\ phase' = [phase EXCEPT ![d] = "live"] /\ items' = [items EXCEPT ![d] = items[c]]
      /\ old' = old
  BY DEF CloneWith, Live
<1>2. rest[1] = values[c] /\ rest[2] = list_matchers[c]
  OBVIOUS
<1>3. values[c] \in Seq(Slot) /\ list_matchers[c] \in Seq(BOOLEAN)
  BY DEF IInv, Shape
<1> HIDE DEF rest
<1>4. /\ phase' \in [Contexts -> Phases] /\ phase'[d] = "live"
      /\ items' \in [Contexts -> SUBSET Nat] /\ items'[d] = items[c] /\ c # d
      /\ \A x \in Contexts \ {d} : phase'[x] = phase[x] /\ items'[x] = items[x]
  BY <1>1 DEF IInv, Shape, Phases
<1>5. Handed(c, d, values[c], list_matchers[c])
  BY <1>1, <1>2, <1>3, <1>4, HandedOver
<1>6. /\ Became(d, c)
      /\ \A x \in Contexts \ {d} : SameContext(x)
  BY <1>1, <1>4, <1>5 DEF Handed, Became, SameContext
<1>7. Shape'
  BY <1>1, <1>4, <1>5 DEF Handed, IInv, Shape
<1>8. Unguarded({d})
  BY <1>1, <1>4 DEF Unguarded, IInv, AtRest
<1>9. LentToOneGuard'
  BY <1>6, <1>8, GuardsUndisturbed
<1>10. fields' = fields /\ lists' = lists
  BY <1>5 DEF Handed
<1> QED BY <1>6, <1>7, <1>9, <1>10, MovedContextsFit DEF IInv

LEMMA TakeKeeps ==
  ASSUME IInv, NEW c \in Contexts, NEW d \in Contexts, TakeWith(c, d) PROVE IInv'
<1> DEFINE rest == << << >>, << >> >>
<1>1. /\ phase[c] = "live" /\ old[c] = NoContext /\ phase[d] = "none" /\ Hand(c, d, rest)
      /\ phase' = [phase EXCEPT ![c] = "none", ![d] = "live"]
      /\ items' = [items EXCEPT ![c] = {}, ![d] = items[c]]
      /\ old' = old
  BY DEF TakeWith, Live
<1>2. rest[1] = << >> /\ rest[2] = << >>
  OBVIOUS
<1>3. << >> \in Seq(Slot) /\ << >> \in Seq(BOOLEAN)
  OBVIOUS
<1> HIDE DEF rest
<1>4. /\ phase' \in [Contexts -> Phases] /\ phase'[d] = "live" /\ phase'[c] = "none"
      /\ items' \in [Contexts -> SUBSET Nat] /\ items'[d] = items[c] /\ c # d
      /\ \A x \in Contexts \ {c, d} : phase'[x] = phase[x] /\ items'[x] = items[x]
  BY <1>1 DEF IInv, Shape, Phases
<1>5. Handed(c, d, << >>, << >>)
  <2>1. rest[1] \in Seq(Slot) /\ rest[2] \in Seq(BOOLEAN)
    BY <1>2, <1>3
  <2>2. Handed(c, d, rest[1], rest[2])
    BY <1>1, <1>4, <2>1, HandedOver
  <2> QED BY <1>2, <2>2
<1>6. /\ Became(d, c) /\ Emptied(c)
      /\ \A x \in Contexts \ {c, d} : SameContext(x)
  BY <1>1, <1>4, <1>5 DEF Handed, Became, Emptied, SameContext
<1>7. Shape'
  BY <1>1, <1>4, <1>5 DEF Handed, IInv, Shape
<1>8. Unguarded({c, d})
  BY <1>1, <1>4 DEF Unguarded, IInv, AtRest
<1>9. LentToOneGuard'
  BY <1>6, <1>8, GuardsUndisturbed
<1>10. fields' = fields /\ lists' = lists
  BY <1>5 DEF Handed
<1> QED BY <1>6, <1>7, <1>9, <1>10, MovedContextsFit DEF IInv

\* The guard of c is new, and c had none: a lent context is not live.
LEMMA BorrowKeeps ==
  ASSUME IInv, NEW c \in Contexts, NEW g \in Contexts, BorrowWith(c, g) PROVE IInv'
<1> DEFINE rest == << << >>, << >> >>
<1>1. /\ phase[c] = "live" /\ phase[g] = "none" /\ Hand(c, g, rest)
      /\ phase' = [phase EXCEPT ![c] = "lent", ![g] = "live"]
      /\ items' = [items EXCEPT ![g] = items[c]]
      /\ old' = [old EXCEPT ![g] = c]
  BY DEF BorrowWith, Live
<1>2. rest[1] = << >> /\ rest[2] = << >>
  OBVIOUS
<1>3. << >> \in Seq(Slot) /\ << >> \in Seq(BOOLEAN)
  OBVIOUS
<1> HIDE DEF rest
<1>4. /\ c # g
      /\ phase' \in [Contexts -> Phases] /\ phase'[g] = "live" /\ phase'[c] = "lent"
      /\ items' \in [Contexts -> SUBSET Nat] /\ items'[g] = items[c] /\ items'[c] = items[c]
      /\ old' \in [Contexts -> Contexts \cup {NoContext}] /\ old'[g] = c
      /\ \A x \in Contexts \ {g} : old'[x] = old[x]
      /\ \A x \in Contexts \ {c, g} : phase'[x] = phase[x] /\ items'[x] = items[x]
  BY <1>1 DEF IInv, Shape, Phases
<1>5. Handed(c, g, << >>, << >>)
  <2>1. rest[1] \in Seq(Slot) /\ rest[2] \in Seq(BOOLEAN)
    BY <1>2, <1>3
  <2>2. Handed(c, g, rest[1], rest[2])
    BY <1>1, <1>4, <2>1, HandedOver
  <2> QED BY <1>2, <2>2
<1>6. /\ Became(g, c) /\ Emptied(c)
      /\ scheme_store'[g] = scheme_store'[c] /\ scheme_store'[c] = scheme_store[c]
      /\ \A x \in Contexts \ {c, g} : SameContext(x)
  BY <1>1, <1>4, <1>5 DEF Handed, Became, Emptied, SameContext
<1>7. Shape'
  BY <1>1, <1>4, <1>5 DEF Handed, IInv, Shape
<1>8. fields' = fields /\ lists' = lists
  BY <1>5 DEF Handed
<1>9. \A h \in Contexts : old[h] # c /\ old[h] # g
  BY <1>1, ContextAssumption DEF IInv, LentToOneGuard
<1>10. ASSUME NEW x \in Contexts, phase'[x] = "lent"
      PROVE  /\ values'[x] = << >> /\ list_matchers'[x] = << >>
             /\ \E h \in Contexts :
                  /\ old'[h] = x /\ phase'[h] # "none"
                  /\ scheme_store'[h] = scheme_store'[x] /\ items'[h] = items'[x]
                  /\ \A k \in Contexts : old'[k] = x => k = h
  <2>1. CASE x = c
    <3>1. \A k \in Contexts : old'[k] = c => k = g
      BY <1>4, <1>9
    <3> QED BY <2>1, <3>1, <1>4, <1>6 DEF Emptied
  <2>2. CASE x # c
    <3>1. x # g /\ SameContext(x) /\ phase[x] = "lent"
      BY <1>4, <1>6, <1>10, <2>2 DEF SameContext
    <3>2. PICK h \in Contexts :
            /\ old[h] = x /\ phase[h] # "none"
            /\ scheme_store[h] = scheme_store[x] /\ items[h] = items[x]
            /\ \A k \in Contexts : old[k] = x => k = h
      BY <3>1 DEF IInv, LentToOneGuard
    <3>3. h # g
      BY <1>1, <3>2
    <3>4. /\ old'[h] = x /\ phase'[h] # "none"
          /\ scheme_store'[h] = scheme_store[h] /\ items'[h] = items[h]
      BY <1>4, <1>6, <3>2, <3>3 DEF SameContext
    <3>5. \A k \in Contexts : old'[k] = x => k = h
      BY <1>4, <2>2, <3>2
    <3>6. values[x] = << >> /\ list_matchers[x] = << >>
      BY <3>1 DEF IInv, LentToOneGuard
    <3> QED BY <3>1, <3>2, <3>4, <3>5, <3>6 DEF SameContext
  <2> QED BY <2>1, <2>2
<1>11. ASSUME NEW h \in Contexts, old'[h] # NoContext PROVE phase'[old'[h]] = "lent"
  <2>1. CASE h = g
    BY <2>1, <1>4
  <2>2. CASE h # g
    <3>1. old'[h] = old[h] /\ old[h] \in Contexts \ {c, g} /\ phase[old[h]] = "lent"
      BY <2>2, <1>4, <1>9, <1>11 DEF IInv, Shape, LentToOneGuard
    <3> QED BY <3>1, <1>4
  <2> QED BY <2>1, <2>2
<1>12. LentToOneGuard'
  BY <1>10, <1>11 DEF LentToOneGuard
<1> QED BY <1>6, <1>7, <1>8, <1>12, MovedContextsFit DEF IInv

\* g is the only guard of c, so that c gets back its own scheme.
LEMMA DropGuardKeeps ==
  ASSUME IInv, NEW g \in Contexts, DropGuard(g) PROVE IInv'
<1>0. old[g] \in Contexts
  BY DEF DropGuard, IInv, Shape
<1> PICK c \in Contexts : c = old[g]
  BY <1>0
<1>1. /\ phase[g] = "live" /\ c # NoContext
      /\ values' = [values EXCEPT ![c] = values[g], ![g] = << >>]
      /\ list_matchers' = [list_matchers EXCEPT ![c] = list_matchers[g], ![g] = << >>]
      /\ phase' = [phase EXCEPT ![c] = "live", ![g] = "none"]
      /\ items' = [items EXCEPT ![g] = {}]
      /\ old' = [old EXCEPT ![g] = NoContext]
      /\ UNCHANGED <<fields, lists, scheme_store>>
  BY DEF DropGuard, Live, stores
<1>2. phase[c] = "lent" /\ c # g
  BY <1>1 DEF IInv, Shape, LentToOneGuard
<1>3. /\ scheme_store[g] = scheme_store[c] /\ items[g] = items[c]
      /\ \A h \in Contexts : old[h] = c => h = g
  BY <1>2 DEF IInv, LentToOneGuard
<1>5. /\ values' \in [Contexts -> Seq(Slot)] /\ values'[c] = values[g] /\ values'[g] = << >>
      /\ list_matchers' \in [Contexts -> Seq(BOOLEAN)]
      /\ list_matchers'[c] = list_matchers[g] /\ list_matchers'[g] = << >>
      /\ \A x \in Contexts \ {c, g} :
           values'[x] = values[x] /\ list_matchers'[x] = list_matchers[x]
  <2>1. << >> \in Seq(Slot) /\ << >> \in Seq(BOOLEAN)
    OBVIOUS
  <2> QED BY <2>1, <1>1, <1>2 DEF IInv, Shape
<1>6. /\ phase' \in [Contexts -> Phases] /\ phase'[g] = "none" /\ phase'[c] = "live"
      /\ items' \in [Contexts -> SUBSET Nat] /\ items'[c] = items[c]
      /\ old' \in [Contexts -> Contexts \cup {NoContext}] /\ old'[g] = NoContext
      /\ \A x \in Contexts \ {g} : old'[x] = old[x] /\ items'[x] = items[x]
      /\ \A x \in Contexts \ {c, g} : phase'[x] = phase[x]
  BY <1>1, <1>2 DEF IInv, Shape, Phases
<1>7. /\ Became(c, g) /\ Emptied(g)
      /\ \A x \in Contexts \ {c, g} : SameContext(x)
  BY <1>1, <1>2, <1>3, <1>5, <1>6 DEF Became, Emptied, SameContext
<1>8. Shape'
  BY <1>1, <1>5, <1>6 DEF IInv, Shape
<1>9. ASSUME NEW x \in Contexts, phase'[x] = "lent"
      PROVE  /\ values'[x] = << >> /\ list_matchers'[x] = << >>
             /\ \E h \in Contexts :
                  /\ old'[h] = x /\ phase'[h] # "none"
                  /\ scheme_store'[h] = scheme_store'[x] /\ items'[h] = items'[x]
                  /\ \A k \in Contexts : old'[k] = x => k = h
  <2>1. x \in Contexts \ {c, g} /\ phase[x] = "lent" /\ SameContext(x)
    BY <1>6, <1>7, <1>9
  <2>2. PICK h \in Contexts :
          /\ old[h] = x /\ phase[h] # "none"
          /\ scheme_store[h] = scheme_store[x] /\ items[h] = items[x]
          /\ \A k \in Contexts : old[k] = x => k = h
    BY <2>1 DEF IInv, LentToOneGuard
  <2>3. h # g
    BY <2>1, <2>2
  <2>4. old'[h] = x /\ phase'[h] # "none" /\ items'[h] = items[h]
    BY <1>6, <2>2, <2>3
  <2>5. \A k \in Contexts : old'[k] = x => k = h
    BY <1>6, <2>2, ContextAssumption
  <2>6. values[x] = << >> /\ list_matchers[x] = << >>
    BY <2>1 DEF IInv, LentToOneGuard
  <2> QED BY <1>1, <2>1, <2>2, <2>4, <2>5, <2>6 DEF SameContext
<1>10. ASSUME NEW h \in Contexts, old'[h] # NoContext PROVE phase'[old'[h]] = "lent"
  <2>1. h # g /\ old'[h] = old[h]
    BY <1>6, <1>10
  <2>2. old[h] \in Contexts /\ phase[old[h]] = "lent"
    BY <2>1, <1>10 DEF IInv, Shape, LentToOneGuard
  <2>3. old[h] # c /\ old[h] # g
    BY <1>1, <1>3, <2>1, <2>2
  <2> QED BY <1>6, <2>1, <2>2, <2>3
<1>11. LentToOneGuard'
  BY <1>9, <1>10 DEF LentToOneGuard
<1> QED BY <1>1, <1>7, <1>8, <1>11, MovedContextsFit DEF IInv

-----------------------------------------------------------------------------
LEMMA NextKeeps ==
  IInv /\ [Next]_vars => IInv'
<1> SUFFICES ASSUME IInv, [Next]_vars PROVE IInv'
  OBVIOUS
<1>1. CASE UNCHANGED vars
  BY <1>1, SlotsUnchanged, MatchersUnchanged, UseUnchanged, KeepsStep
     DEF KeepsOwners, vars, stores, owners, slots
<1>2. CASE \E s \in Stores, def \in FieldDefinition : RegisterField(s, def)
  BY <1>2, RegisterFieldKeeps
<1>3. CASE \E s \in Stores, t \in Types : RegisterList(s, t)
  BY <1>3, RegisterListKeeps
<1>4. ASSUME NEW c \in Contexts, SlotStep(c) \/ MoveStep(c) \/ SerdeStep(c)
      PROVE  IInv'
  <2>1. CASE SlotStep(c)
    BY <2>1, SlotStepKeeps
  <2>2. CASE SerdeStep(c)
    BY <2>2, SerdeStepKeeps
  <2>3. CASE MoveStep(c)
    BY <2>3, NewKeeps, NewMatchersKeeps, DropKeeps, CloneKeeps, TakeKeeps, BorrowKeeps,
       DropGuardKeeps DEF MoveStep
  <2> QED BY <1>4, <2>1, <2>2, <2>3
<1> QED BY <1>1, <1>2, <1>3, <1>4 DEF Next

LEMMA IInvHolds == Spec => []IInv
<1>1. IInv /\ [Next]_vars => IInv'
  BY NextKeeps
<1> QED BY <1>1, InitIInv, PTL DEF Spec

\* A context in use has a slot for every field of its scheme, and no more slots or
\* matchers than its store has fields and lists, for any number of contexts,
\* stores and registrations (execution_context.rs new_with, setters, guards).
THEOREM SlotsFitSchemes == Spec => []OwnFieldsFit
<1>1. IInv => OwnFieldsFit
  BY DEF IInv
<1> QED BY <1>1, IInvHolds, PTL

\* No sequence of setters, deserializations, clones and moves puts a value of
\* another type into a field's slot (execution_context.rs set_field_value*).
THEOREM SlotsHoldTheirTypes == Spec => []ValuesAreTyped
<1>1. IInv => ValuesAreTyped
  BY DEF IInv
<1> QED BY <1>1, IInvHolds, PTL

\* A lent context is empty and has exactly one guard, of its own scheme, which
\* gives it back what it lent (execution_context.rs borrow_with, Drop).
THEOREM LoansAreExclusive == Spec => []LentToOneGuard
<1>1. IInv => LentToOneGuard
  BY DEF IInv
<1> QED BY <1>1, IInvHolds, PTL

-----------------------------------------------------------------------------
(***************************************************************************)
(* What a call writes.                                                     *)
(***************************************************************************)
LazyKeeps(c) ==
  result' = "SetLazily" =>
    \A i \in 1..Len(values[c]) : values[c][i] # Unset => values'[c][i] = values[c][i]

LEMMA ReplaceWrites ==
  ASSUME IInv, NEW c \in Contexts, NEW i, NEW v, NEW done, Replace(c, i, v, done)
  PROVE  /\ \A d \in Contexts : d # c => values'[d] = values[d]
         /\ \A j \in 1..Len(values[c]) : j # i => values'[c][j] = values[c][j]
         /\ result' = "SetLazily" => done = "SetLazily"
<1>1. CASE UNCHANGED values
  BY <1>1 DEF Replace, Return
<1>2. CASE InBounds(c, i) /\ values' = [values EXCEPT ![c][i] = v] /\ Return(done)
  <2> DEFINE s == [values[c] EXCEPT ![i] = v]
  <2>1. values[c] \in Seq(Slot) /\ i \in 1..Len(values[c])
    BY <1>2 DEF IInv, Shape, InBounds
  <2>2. \A j \in 1..Len(values[c]) : j # i => s[j] = values[c][j]
    BY <2>1
  <2>3. values' = [values EXCEPT ![c] = s]
    BY <1>2
  <2> HIDE DEF s
  <2>4. values'[c] = s /\ \A d \in Contexts : d # c => values'[d] = values[d]
    BY <2>3 DEF IInv, Shape
  <2> QED BY <1>2, <2>2, <2>4 DEF Return
<1> QED BY <1>1, <1>2 DEF Replace

LEMMA ReplaceIfUnsetWrites ==
  ASSUME IInv, NEW c \in Contexts, NEW i, NEW v, ReplaceIfUnset(c, i, v)
  PROVE  LazyKeeps(c) /\ \A d \in Contexts : d # c => values'[d] = values[d]
<1>1. CASE UNCHANGED values
  BY <1>1 DEF LazyKeeps
<1>2. CASE values[c][i] = Unset /\ Replace(c, i, v, "SetLazily")
  BY <1>2, ReplaceWrites DEF LazyKeeps
<1> QED BY <1>1, <1>2 DEF ReplaceIfUnset

\* A setter writes one live context, and a lazy one only an empty slot.
LEMMA SlotStepWrites ==
  ASSUME IInv, NEW c \in Contexts, SlotStep(c)
  PROVE  /\ phase[c] = "live" /\ LazyKeeps(c)
         /\ \A d \in Contexts : d # c => values'[d] = values[d]
<1>1. ASSUME NEW i, NEW v, Replace(c, i, v, "Ok")
      PROVE  LazyKeeps(c) /\ \A d \in Contexts : d # c => values'[d] = values[d]
  BY <1>1, ReplaceWrites DEF LazyKeeps
<1>2. CASE \E f \in FieldRefs, v \in Value : SetFieldValue(c, f, v) \/ SetFieldValueLazy(c, f, v)
  BY <1>1, <1>2, ReplaceIfUnsetWrites DEF SetFieldValue, SetFieldValueLazy, Live, LazyKeeps
<1>3. CASE \E i \in Indices(scheme_store[c]), v \in Value :
             SetFieldValueFromName(c, i, v) \/ SetFieldValueFromNameLazy(c, i, v)
  BY <1>1, <1>3, ReplaceIfUnsetWrites
     DEF SetFieldValueFromName, SetFieldValueFromNameLazy, Live, LazyKeeps
<1>4. CASE \E s \in Stores : \E i \in 1..MaxLists[s], m \in Matcher : GetListMatcherMut(c, s, i, m)
  BY <1>4 DEF GetListMatcherMut, Live, LazyKeeps
<1>5. CASE \E t \in Types, m \in Matcher : GetListMatcherMutFromType(c, t, m)
  BY <1>5 DEF GetListMatcherMutFromType, Live, LazyKeeps
<1>6. CASE Clear(c)
  BY <1>6 DEF Clear, Return, Live, LazyKeeps, IInv, Shape
<1> QED BY <1>2, <1>3, <1>4, <1>5, <1>6 DEF SlotStep

\* Creating, dropping, cloning, taking, lending and giving back touch no context
\* that is being read into, nor one that was in use and stays so unless the call
\* answers "Ok".
LEMMA MoveStepWrites ==
  ASSUME IInv, NEW c \in Contexts, MoveStep(c), NEW x \in Contexts
  PROVE  /\ phase[x] = "reading" => values'[x] = values[x]
         /\ Live(x) /\ Live(x)' => LazyKeeps(x)
<1> USE DEF IInv, Shape, Live, LazyKeeps, Return, Hand
<1>1. CASE \E s \in Stores : \E own \in SUBSET Indices(s) : New(c, s, own)
  BY <1>1 DEF New
<1>2. CASE NewMatchers(c)
  BY <1>2 DEF NewMatchers
<1>3. CASE Drop(c)
  BY <1>3 DEF Drop, Free
<1>4. CASE \E d \in Contexts : CloneWith(c, d)
  BY <1>4 DEF CloneWith
<1>5. CASE \E d \in Contexts : TakeWith(c, d)
  BY <1>5 DEF TakeWith
<1>6. CASE \E d \in Contexts : BorrowWith(c, d)
  BY <1>6 DEF BorrowWith
<1>7. CASE DropGuard(c)
  <2>1. old[c] \in Contexts /\ phase[old[c]] = "lent" /\ phase[c] = "live"
    BY <1>7 DEF DropGuard, LentToOneGuard
  <2> QED BY <1>7, <2>1 DEF DropGuard
<1> QED BY <1>1, <1>2, <1>3, <1>4, <1>5, <1>6, <1>7 DEF MoveStep

\* Deserialization writes the context it reads into, and there only own fields.
LEMMA SerdeStepWrites ==
  ASSUME IInv, NEW c \in Contexts, SerdeStep(c), NEW x \in Contexts
  PROVE  /\ phase[x] = "reading" =>
              \A i \in 1..Len(values[x]) : values'[x][i] # values[x][i] => i \in items[x]
         /\ Live(x) => LazyKeeps(x)
<1>1. CASE UNCHANGED values
  BY <1>1 DEF LazyKeeps
<1>2. ASSUME NEW i, NEW d \in Data, DeserializeField(c, i, d)
      PROVE  /\ phase[x] = "reading" =>
                  \A j \in 1..Len(values[x]) : values'[x][j] # values[x][j] => j \in items[x]
             /\ Live(x) => LazyKeeps(x)
  <2>1. phase[c] = "reading"
    BY <1>2 DEF DeserializeField
  <2>2. CASE OwnField(c, i)
    <3> DEFINE v == [ty |-> fields[scheme_store[c]][i].ty, data |-> d]
    <3>1. Replace(c, i, v, "Ok")
      BY <1>2, <2>2 DEF DeserializeField
    <3> HIDE DEF v
    <3> QED BY <2>1, <2>2, <3>1, ReplaceWrites DEF OwnField, Live, LazyKeeps
  <2>3. CASE ~OwnField(c, i)
    BY <1>1, <1>2, <2>3 DEF DeserializeField
  <2> QED BY <2>2, <2>3
<1>3. CASE Deserialize(c) \/ DeserializeEnd(c) \/ Serialize(c)
  BY <1>1, <1>3 DEF Deserialize, DeserializeEnd, Serialize, slots
<1>4. CASE \E t \in Types, m \in Matcher : DeserializeList(c, t, m)
  BY <1>1, <1>4 DEF DeserializeList
<1> QED BY <1>2, <1>3, <1>4 DEF SerdeStep

\* A document, whether it was read to its end or refused half way, changes only
\* fields of the context's own scheme, although names are looked up in a store
\* that has others; and a lazy setter never replaces a value, in whatever order
\* it and the other calls come (execution_context.rs visit_map,
\* set_field_value_lazy).
THEOREM WritesStayOwned == Spec => WritesAreOwned
<1> DEFINE Owned ==
      \A c \in Contexts :
        /\ phase[c] = "reading" =>
             \A i \in 1..Len(values[c]) : values'[c][i] # values[c][i] => i \in items[c]
        /\ Live(c) /\ Live(c)' /\ result' = "SetLazily" =>
             \A i \in 1..Len(values[c]) : values[c][i] # Unset => values'[c][i] = values[c][i]
<1>1. ASSUME IInv, Next PROVE Owned
  <2>1. CASE UNCHANGED values
    BY <2>1
  <2>2. CASE \/ \E s \in Stores, def \in FieldDefinition : RegisterField(s, def)
             \/ \E s \in Stores, t \in Types : RegisterList(s, t)
    BY <2>1, <2>2 DEF RegisterField, RegisterList, slots
  <2>3. ASSUME NEW c \in Contexts, SlotStep(c) PROVE Owned
    BY <1>1, <2>3, SlotStepWrites DEF LazyKeeps
  <2>4. ASSUME NEW c \in Contexts, MoveStep(c) PROVE Owned
    BY <1>1, <2>4, MoveStepWrites DEF LazyKeeps
  <2>5. ASSUME NEW c \in Contexts, SerdeStep(c) PROVE Owned
    BY <1>1, <2>5, SerdeStepWrites DEF LazyKeeps
  <2> QED BY <1>1, <2>2, <2>3, <2>4, <2>5 DEF Next
<1>2. IInv /\ [Next]_vars => [Owned]_vars
  BY <1>1
<1> QED BY <1>2, IInvHolds, PTL DEF Spec, WritesAreOwned
-----------------------------------------------------------------------------
(***************************************************************************)
(* FilterExecution.  Its steps on contexts are steps of ExecutionContext,  *)
(* whose invariant therefore holds there too.                              *)
(***************************************************************************)
\* What Parse found stays so: the store has the field, with the type that the
\* comparison was checked for, and the list.
Fitting(fl) ==
  /\ fl \in Ast \cup Compiled
  /\ fl.field \in 1..Len(fields[fl.store])
  /\ fields[fl.store][fl.field].ty = fl.ty
  /\ fl.op = "in" => fl.list \in 1..Len(lists[fl.store])

FiltersFit ==
  /\ filter \in [Filters -> Ast \cup Compiled \cup {NoFilter}]
  /\ nil_not_equal_is_false \in [Stores -> BOOLEAN]
  /\ \A f \in Filters : filter[f] # NoFilter => Fitting(filter[f])

FilterInv == IInv /\ FiltersFit

LEMMA FilterInitInv == FilterInit => FilterInv
  BY InitIInv DEF FilterInit, FilterInv, FiltersFit

LEMMA FilterStepIsStep ==
  ASSUME [FilterNext]_filterVars PROVE [Next]_vars
<1> USE DEF Next, SlotStep, MoveStep
<1>1. CASE \E s \in Stores, def \in FieldDefinition : Succeeds(RegisterField(s, def))
  BY <1>1 DEF Succeeds
<1>2. CASE \E s \in Stores, t \in Types : Succeeds(RegisterList(s, t))
  BY <1>2 DEF Succeeds
<1>3. CASE \E s \in Stores, v \in BOOLEAN : SetNilNotEqual(s, v)
  BY <1>3 DEF SetNilNotEqual
<1>4. ASSUME NEW c \in Contexts,
             \E s \in Stores : \E own \in SUBSET Indices(s) : Succeeds(New(c, s, own))
      PROVE  Next
  BY <1>4 DEF Succeeds
<1>5. ASSUME NEW c \in Contexts, Succeeds(NewMatchers(c)) \/ Succeeds(Clear(c)) PROVE Next
  BY <1>5 DEF Succeeds
<1>6. ASSUME NEW c \in Contexts,
             \E i \in Indices(scheme_store[c]), v \in Value : Succeeds(SetFieldValueFromName(c, i, v))
      PROVE  Next
  BY <1>6 DEF Succeeds
<1>7. ASSUME NEW c \in Contexts,
             \E t \in Types, m \in Matcher : Succeeds(GetListMatcherMutFromType(c, t, m))
      PROVE  Next
  BY <1>7 DEF Succeeds
<1>8. ASSUME NEW f \in Filters, Compile(f)
              \/ \E s \in Stores, op \in ComparisonOps : \E i \in Indices(s) : Parse(f, s, i, op)
      PROVE  UNCHANGED vars
  BY <1>8 DEF Compile, Parse
<1>9. CASE UNCHANGED filterVars
  BY <1>9 DEF filterVars
<1> QED BY <1>1, <1>2, <1>3, <1>4, <1>5, <1>6, <1>7, <1>8, <1>9 DEF FilterNext

\* The vectors of a store only grow.
LEMMA VectorsGrow ==
  ASSUME IInv, [FilterNext]_filterVars, NEW s \in Stores
  PROVE  /\ \A i \in 1..Len(fields[s]) : i \in 1..Len(fields'[s]) /\ fields'[s][i] = fields[s][i]
         /\ \A i \in 1..Len(lists[s]) : i \in 1..Len(lists'[s])
<1> USE DEF IInv, Shape
<1>1. CASE UNCHANGED stores
  BY <1>1 DEF stores
<1>2. ASSUME NEW r \in Stores, NEW def \in FieldDefinition, RegisterField(r, def)
      PROVE  /\ \A i \in 1..Len(fields[s]) : i \in 1..Len(fields'[s]) /\ fields'[s][i] = fields[s][i]
             /\ \A i \in 1..Len(lists[s]) : i \in 1..Len(lists'[s])
  <2>1. fields[r] \in Seq(FieldDefinition)
    OBVIOUS
  <2> DEFINE q == Append(fields[r], def)
  <2>2. /\ Len(q) = Len(fields[r]) + 1
        /\ \A i \in 1..Len(fields[r]) : i \in 1..Len(q) /\ q[i] = fields[r][i]
    BY <2>1
  <2>3. fields' = [fields EXCEPT ![r] = q] /\ lists' = lists
    BY <1>2 DEF RegisterField
  <2> HIDE DEF q
  <2> QED BY <2>2, <2>3
<1>3. ASSUME NEW r \in Stores, NEW t \in Types, RegisterList(r, t)
      PROVE  /\ \A i \in 1..Len(fields[s]) : i \in 1..Len(fields'[s]) /\ fields'[s][i] = fields[s][i]
             /\ \A i \in 1..Len(lists[s]) : i \in 1..Len(lists'[s])
  <2>1. lists[r] \in Seq(Types)
    OBVIOUS
  <2> DEFINE q == Append(lists[r], t)
  <2>2. Len(q) = Len(lists[r]) + 1 /\ \A i \in 1..Len(lists[r]) : i \in 1..Len(q)
    BY <2>1
  <2>3. lists' = [lists EXCEPT ![r] = q] /\ fields' = fields
    BY <1>3 DEF RegisterList
  <2> HIDE DEF q
  <2> QED BY <2>2, <2>3
<1>4. ASSUME NEW c \in Contexts,
             \/ \E r \in Stores : \E own \in SUBSET Indices(r) : Succeeds(New(c, r, own))
             \/ Succeeds(NewMatchers(c)) \/ Succeeds(Clear(c))
             \/ \E i \in Indices(scheme_store[c]), v \in Value : Succeeds(SetFieldValueFromName(c, i, v))
             \/ \E t \in Types, m \in Matcher : Succeeds(GetListMatcherMutFromType(c, t, m))
      PROVE  UNCHANGED stores
  BY <1>4 DEF Succeeds, New, NewMatchers, Clear, SetFieldValueFromName, GetListMatcherMutFromType
<1>5. ASSUME NEW f \in Filters, Compile(f)
              \/ \E r \in Stores, op \in ComparisonOps : \E i \in Indices(r) : Parse(f, r, i, op)
      PROVE  UNCHANGED stores
  BY <1>5 DEF Compile, Parse, vars
<1>6. CASE (\E r \in Stores, v \in BOOLEAN : SetNilNotEqual(r, v)) \/ UNCHANGED filterVars
  BY <1>1, <1>6 DEF SetNilNotEqual, filterVars, vars
<1> QED BY <1>1, <1>2, <1>3, <1>4, <1>5, <1>6 DEF FilterNext, Succeeds

\* A filter is parsed once and compiled once.
LEMMA FilterChanges ==
  ASSUME [FilterNext]_filterVars
  PROVE  \/ UNCHANGED filter
         \/ \E f \in Filters : UNCHANGED vars /\
              \/ Compile(f)
              \/ \E s \in Stores, op \in ComparisonOps : \E i \in Indices(s) : Parse(f, s, i, op)
BY DEF FilterNext, Succeeds, SetNilNotEqual, Compile, Parse, filterVars

LEMMA ListOfIsIndex ==
  ASSUME NEW s, NEW t, Listed(s, t) PROVE ListOf(s, t) \in 1..Len(lists[s])
BY DEF Listed, ListOf

LEMMA FilterStepKeeps == FilterInv /\ [FilterNext]_filterVars => FilterInv'
<1> SUFFICES ASSUME FilterInv, [FilterNext]_filterVars PROVE FilterInv'
  OBVIOUS
<1> USE DEF FilterInv
<1>1. IInv'
  BY FilterStepIsStep, NextKeeps
<1>2. nil_not_equal_is_false' \in [Stores -> BOOLEAN]
  BY DEF FilterNext, Succeeds, SetNilNotEqual, Compile, Parse, filterVars, FiltersFit
<1>3. ASSUME NEW f \in Filters, filter[f] # NoFilter, filter'[f] = filter[f]
      PROVE  Fitting(filter[f])'
  <2> DEFINE fl == filter[f]
  <2>1. Fitting(fl) /\ fl.store \in Stores
    BY <1>3 DEF FiltersFit, Fitting, Ast, Compiled
  <2> QED BY <1>3, <2>1, VectorsGrow DEF Fitting
<1>4. CASE UNCHANGED filter
  BY <1>1, <1>2, <1>3, <1>4 DEF FiltersFit
<1>5. ASSUME NEW g \in Filters, NEW fl, fl \in Ast \cup Compiled, Fitting(fl), UNCHANGED vars,
             filter' = [filter EXCEPT ![g] = fl]
      PROVE  FiltersFit'
  <2>1. filter' \in [Filters -> Ast \cup Compiled \cup {NoFilter}]
    BY <1>5 DEF FiltersFit
  <2>2. ASSUME NEW f \in Filters, filter'[f] # NoFilter PROVE Fitting(filter[f])'
    <3>1. CASE f = g
      <4>1. filter'[f] = fl /\ UNCHANGED <<fields, lists>>
        BY <1>5, <3>1 DEF FiltersFit, vars, stores
      <4> QED BY <1>5, <4>1 DEF Fitting
    <3>2. CASE f # g
      <4>1. filter'[f] = filter[f]
        BY <1>5, <3>2 DEF FiltersFit
      <4> QED BY <1>3, <2>2, <4>1
    <3> QED BY <3>1, <3>2
  <2> QED BY <1>2, <2>1, <2>2 DEF FiltersFit
<1>6. ASSUME NEW f \in Filters, NEW s \in Stores, NEW op \in ComparisonOps, NEW i \in Indices(s),
             Parse(f, s, i, op), UNCHANGED vars
      PROVE  FiltersFit'
  <2> DEFINE t  == fields[s][i].ty
             fl == [stage |-> "ast", store |-> s, field |-> i, ty |-> t, op |-> op,
                    list |-> ParsedList(s, t, op)]
  <2>1. i \in 1..Len(fields[s]) /\ fields[s] \in Seq(FieldDefinition) /\ lists[s] \in Seq(Types)
    BY <1>6 DEF Parse, IInv, Shape
  <2>2. t \in Types
    <3>1. fields[s][i] \in FieldDefinition
      BY <2>1
    <3> QED BY <3>1, ContextAssumption
  <2>3. op = "in" => ParsedList(s, t, op) \in 1..Len(lists[s])
    BY <1>6, ListOfIsIndex DEF Parse, ParsedList
  <2>4. ParsedList(s, t, op) \in Nat
    BY <2>1, <2>3 DEF ParsedList
  <2>5. fl \in Ast
    BY <2>1, <2>2, <2>4 DEF Ast
  <2>6. Fitting(fl)
    BY <2>1, <2>3, <2>5 DEF Fitting
  <2>7. filter' = [filter EXCEPT ![f] = fl]
    BY <1>6 DEF Parse
  <2> HIDE DEF fl
  <2> QED BY <1>5, <1>6, <2>5, <2>6, <2>7
<1>7. ASSUME NEW f \in Filters, Compile(f), UNCHANGED vars PROVE FiltersFit'
  <2> DEFINE ast == filter[f]
             default == ast.op = "ne" /\ ~nil_not_equal_is_false[ast.store]
             fl == [stage |-> "compiled", store |-> ast.store, field |-> ast.field,
                    ty |-> ast.ty, op |-> ast.op, list |-> ast.list, default |-> default]
  <2>1. Fitting(ast)
    BY <1>7 DEF Compile, FiltersFit
  <2>2. /\ ast.store \in Stores /\ ast.field \in Nat /\ ast.ty \in Types
        /\ ast.op \in ComparisonOps /\ ast.list \in Nat
    BY <2>1 DEF Fitting, Ast, Compiled
  <2>3. default \in BOOLEAN
    OBVIOUS
  <2>4. filter' = [filter EXCEPT ![f] = fl]
    BY <1>7 DEF Compile
  <2> HIDE DEF default
  <2>5. fl \in Compiled
    BY <2>2, <2>3 DEF Compiled
  <2>6. Fitting(fl)
    BY <2>1, <2>5 DEF Fitting
  <2> HIDE DEF fl
  <2> QED BY <1>5, <1>7, <2>4, <2>5, <2>6
<1> QED BY <1>1, <1>4, <1>6, <1>7, FilterChanges

LEMMA FilterInvHolds == FilterSpec => []FilterInv
  BY FilterInitInv, FilterStepKeeps, PTL DEF FilterSpec

-----------------------------------------------------------------------------
\* A compiled filter that runs is complete.
LEMMA CompiledTyping ==
  ASSUME FilterInv, NEW f \in Filters, NEW c \in Contexts, Runs(f, c)
  PROVE  filter[f] \in Compiled /\ Fitting(filter[f])
<1>1. filter[f] \in Ast \cup Compiled /\ filter[f].stage = "compiled" /\ Fitting(filter[f])
  BY DEF FilterInv, FiltersFit, Runs, Fitting
<1> QED BY <1>1 DEF Ast

\* Whatever the store grew by between the scheme's build, the context's creation
\* and the filter's parse: on its own scheme's fields a filter neither leaves the
\* slots nor reads a value as another type; the panics left are a mandatory field
\* that nobody set and a list younger than the context (filter.rs execute,
\* field_expr.rs compile_with_compiler).
THEOREM OwnFieldsAlwaysExecute == FilterSpec => []OwnFieldsExecute
<1>1. ASSUME FilterInv, NEW f \in Filters, NEW c \in Contexts, Runs(f, c),
             filter[f].store = scheme_store[c], filter[f].field \in items[c]
      PROVE  LET fl == filter[f] IN
             \/ Execute(fl, c) \in {"true", "false"}
             \/ Execute(fl, c) = "MandatoryPanic" /\ values[c][fl.field] = Unset
             \/ Execute(fl, c) = "IndexPanic" /\ fl.list > Len(list_matchers[c])
  <2> DEFINE fl == filter[f]
             v  == values[c][fl.field]
  <2>1. fl \in Compiled /\ Fitting(fl)
    BY <1>1, CompiledTyping
  <2>2. /\ fl.field \in 1..Len(values[c]) /\ values[c] \in Seq(Slot)
        /\ Len(list_matchers[c]) \in Nat /\ \A i \in 1..Len(list_matchers[c]) :
                                               list_matchers[c][i] \in BOOLEAN
    BY <1>1 DEF FilterInv, IInv, Shape, OwnFieldsFit, InUse, Runs, Live
  <2>3. Execute(fl, c) = Evaluate(fl, c) /\ InBounds(c, fl.field)
    BY <1>1, <2>2 DEF Execute, InBounds
  <2>4. CASE v = Unset
    <3>1. Evaluate(fl, c) = IF fields[fl.store][fl.field].optional
                            THEN Default(fl) ELSE "MandatoryPanic"
      BY <2>3, <2>4 DEF Evaluate
    <3> QED BY <2>3, <2>4, <3>1 DEF Default, Answer
  <2>5. CASE v # Unset
    <3>1. Evaluate(fl, c) = Compare(fl, v, c)
      BY <2>3, <2>5 DEF Evaluate
    <3>2. v.ty = fl.ty
      BY <1>1, <2>1, <2>2, <2>5 DEF FilterInv, IInv, ValuesAreTyped, Fitting
    <3>3. fl.op \in ComparisonOps /\ fl.list \in Nat
      BY <2>1 DEF Compiled
    <3>4. CASE fl.op = "in" /\ fl.list > Len(list_matchers[c])
      <4>1. ~(fl.list <= Len(list_matchers[c]))
        BY <2>2, <3>3, <3>4
      <4>2. Compare(fl, v, c) = "IndexPanic"
        BY <3>2, <3>4, <4>1 DEF Compare
      <4> QED BY <2>3, <3>1, <3>4, <4>2
    <3>5. CASE fl.op = "in" /\ fl.list <= Len(list_matchers[c])
      <4>1. ~(fl.list > Len(list_matchers[c]))
        BY <2>2, <3>3, <3>5
      <4>2. Compare(fl, v, c) = Answer(list_matchers[c][fl.list])
        BY <3>2, <3>5, <4>1 DEF Compare
      <4> QED BY <2>3, <3>1, <4>2 DEF Answer
    <3>6. CASE fl.op = "eq"
      BY <2>3, <3>1, <3>2, <3>6 DEF Compare, Answer
    <3>7. CASE fl.op = "ne"
      BY <2>3, <3>1, <3>2, <3>7 DEF Compare, Answer
    <3> QED BY <2>2, <3>3, <3>4, <3>5, <3>6, <3>7 DEF ComparisonOps
  <2> QED BY <2>4, <2>5
<1>2. FilterInv => OwnFieldsExecute
  BY <1>1 DEF OwnFieldsExecute
<1> QED BY <1>2, FilterInvHolds, PTL

\* The answer of a compiled filter on a context moves only with what the context
\* holds: registrations and the store's "nil !=" flag, which any builder may set
\* at any time, do not reach it (scheme.rs set_nil_not_equal_behavior, field_expr.rs
\* compile_with_compiler).
THEOREM AnswersOnlyFollowWrites == FilterSpec => AnswersNeedAWrite
<1> DEFINE Same == \A f \in Filters, c \in Contexts :
                     Runs(f, c) /\ Live(c)' /\ UNCHANGED slots
                       => Execute(filter[f], c)' = Execute(filter[f], c)
<1>1. ASSUME FilterInv, FilterNext, NEW f \in Filters, NEW c \in Contexts,
             Runs(f, c), UNCHANGED slots
      PROVE  Execute(filter[f], c)' = Execute(filter[f], c)
  <2> DEFINE fl == filter[f]
  <2>1. fl \in Compiled /\ Fitting(fl)
    BY <1>1, CompiledTyping
  <2>2. filter'[f] = fl
    <3>1. filter[f] # NoFilter /\ filter[f].stage # "ast"
      BY <1>1 DEF Runs
    <3> QED BY <1>1, <3>1, FilterChanges DEF Compile, Parse, FilterInv, FiltersFit
  <2>3. scheme_store'[c] = scheme_store[c]
    BY <1>1 DEF FilterNext, Succeeds, RegisterField, RegisterList, New, NewMatchers, Clear,
                SetFieldValueFromName, GetListMatcherMutFromType, SetNilNotEqual, Parse,
                Compile, vars, owners, Runs, Live, FilterInv, IInv, Shape
  <2>4. fields'[fl.store][fl.field] = fields[fl.store][fl.field]
    BY <1>1, <2>1, VectorsGrow DEF Fitting, Compiled, FilterInv
  <2> QED BY <1>1, <2>2, <2>3, <2>4
          DEF Execute, Evaluate, Compare, Default, Answer, InBounds, slots
<1>2. FilterInv /\ [FilterNext]_filterVars => [Same]_filterVars
  BY <1>1
<1> QED BY <1>2, FilterInvHolds, PTL DEF FilterSpec, AnswersNeedAWrite
=============================================================================
