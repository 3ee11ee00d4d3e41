-------------------------- MODULE SchemeStoreRefines --------------------------
(***************************************************************************)
(* SchemeStore implements SchemeCatalogue.  The catalogue's entry for a    *)
(* key is what the store's map and vector give for it; the read-locked     *)
(* halves of the registrations, and every rejected call, are stuttering.   *)
(***************************************************************************)
EXTENDS SchemeStore

Keys == ({"field", "function"} \X Names) \cup ({"list"} \X Types)

ListRequest(def) == [kind |-> "list", def |-> def]
ListAsked        == [kind : {"list"}, def : Definitions]

AskedFor(key) == CASE key[1] = "field"    -> FieldAsked
                   [] key[1] = "function" -> FunctionAsked
                   [] key[1] = "list"     -> ListAsked

\* A field is accepted as it is when its type is the one asked for; a function and
\* a list always are.
Accepted ==
  {p \in FieldAsked \X FieldAsked : p[1].ty = p[2].ty}
    \cup (FunctionAsked \X FunctionAsked) \cup (ListAsked \X ListAsked)

\* One entry per name in SchemeBuilder::items.
SameName == {p \in Keys \X Keys : p[1][1] # "list" /\ p[2][1] # "list" /\ p[1][2] = p[2][2]}

-----------------------------------------------------------------------------
\* What the store has for a key.
FieldEntry(name) ==
  IF field_names[name] = None THEN NotAsked
  ELSE FieldRequest(fields[field_names[name]].ty, fields[field_names[name]].optional)
FunctionEntry(name) ==
  IF function_names[name] = None THEN NotAsked
  ELSE FunctionRequest(functions[function_names[name]].def)
ListEntry(ty) ==
  IF list_types[ty] = None THEN NotAsked ELSE ListRequest(lists[list_types[ty]].def)

Entry(key) == CASE key[1] = "field"    -> FieldEntry(key[2])
                [] key[1] = "function" -> FunctionEntry(key[2])
                [] key[1] = "list"     -> ListEntry(key[2])

\* What b asked for under a key it has.  add_list keeps no trace of the definition
\* it was given, any one is accepted: it counts as a request for the store's.
ItemAdopted(b, kind, name) == IF items[b][name].kind = kind THEN asked[b][name] ELSE NotAsked
ListAdopted(b, ty)         == IF ty \in builder_lists[b] THEN ListEntry(ty) ELSE NotAsked

Adopted(b, key) ==
  IF key[1] = "list" THEN ListAdopted(b, key[2]) ELSE ItemAdopted(b, key[1], key[2])

Stage(b) == CASE phase[b] = "none" -> "new"
              [] phase[b] = "open" -> "open"
              [] OTHER             -> "closed"

Entries   == [key \in Keys |-> Entry(key)]
Adoptions == [b \in Builders |-> [key \in Keys |-> Adopted(b, key)]]
Stages    == [b \in Builders |-> Stage(b)]

Catalogue == INSTANCE SchemeCatalogue WITH
  Clients    <- Builders,
  Keys       <- Keys,
  Values     <- [key \in Keys |-> AskedFor(key)],
  Compatible <- Accepted,
  Exclusive  <- SameName,
  Undefined  <- NotAsked,
  defined    <- Entries,
  adopted    <- Adoptions,
  state      <- Stages

\* The concurrent store behaves as the atomic catalogue: first definition wins,
\* it never changes, whoever adopts it asked for something compatible, and a
\* call that fails has no effect.
ImplementsCatalogue == Catalogue!Spec
=============================================================================
