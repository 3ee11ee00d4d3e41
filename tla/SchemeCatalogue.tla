--------------------------- MODULE SchemeCatalogue ---------------------------
(***************************************************************************)
(* What a shared SchemeStore promises to the schemes built on it, with no  *)
(* lock, no index and no call in progress: one catalogue of definitions,   *)
(* written once per key by whoever comes first, from which every client    *)
(* adopts entries that are compatible with what it asks for, until it      *)
(* closes.                                                                 *)
(***************************************************************************)
CONSTANTS
  Clients,      \* the owners of schemes
  Keys,         \* what can be defined
  Values,       \* what each key can be defined as
  Compatible,   \* <<defined, asked>>: a client asking for the second accepts the first
  Exclusive,    \* pairs of keys that no client adopts both
  Undefined     \* not a value

VARIABLES
  defined,      \* the definition of each key
  adopted,      \* what each client asked for, by key
  state         \* "new", "open" or "closed"

vars == <<defined, adopted, state>>

Init ==
  /\ defined = [k \in Keys |-> Undefined]
  /\ adopted = [c \in Clients |-> [k \in Keys |-> Undefined]]
  /\ state = [c \in Clients |-> "new"]

Open(c) ==
  /\ state[c] = "new"
  /\ state' = [state EXCEPT ![c] = "open"]
  /\ UNCHANGED <<defined, adopted>>

\* The client takes the definition that is there, or gives the first one.
Adopt(c, k, v) ==
  /\ state[c] = "open"
  /\ adopted[c][k] = Undefined
  /\ \A j \in Keys : adopted[c][j] # Undefined => <<j, k>> \notin Exclusive
  /\ \/ /\ defined[k] = Undefined
        /\ defined' = [defined EXCEPT ![k] = v]
     \/ /\ defined[k] # Undefined
        /\ <<defined[k], v>> \in Compatible
        /\ UNCHANGED defined
  /\ adopted' = [adopted EXCEPT ![c][k] = v]
  /\ UNCHANGED state

Close(c) ==
  /\ state[c] = "open"
  /\ state' = [state EXCEPT ![c] = "closed"]
  /\ UNCHANGED <<defined, adopted>>

Next ==
  \E c \in Clients :
    \/ Open(c)
    \/ \E k \in Keys : \E v \in Values[k] : Adopt(c, k, v)
    \/ Close(c)

Spec == Init /\ [][Next]_vars
=============================================================================
