------------------------------- MODULE StoreLock -------------------------------
(***************************************************************************)
(* The parking_lot::RwLock of each SchemeStore, as the code of src/engine  *)
(* takes it.  Accessors return mapped read guards, so a caller can hold a  *)
(* guard while code it calls takes another one of the same thread:         *)
(*   - FunctionCallExpr::lex_with_function holds the function's definition *)
(*     while the arguments are parsed (and may be calls themselves), and   *)
(*     return_type and compile hold it while they ask for argument types;  *)
(*   - Scheme::serialize holds a field's name while it reads the type;     *)
(*   - SchemeStore::eq holds one store while it locks the other.           *)
(* The lock's rule for such readers is the library's: a writer announces   *)
(* itself with WRITER_BIT before the readers have left, and from then on   *)
(* no new read guard is given, not even to a thread that has one.          *)
(*                                                                         *)
(* Each thread runs one task.  A read lock taken and released with nothing *)
(* in between is one step (a "peek").                                      *)
(***************************************************************************)
EXTENDS Integers, Sequences

CONSTANTS
  Threads,
  Stores,
  Rounds,      \* fields to serialize, arguments to parse, names to register
  MaxDepth,    \* bound on nested function calls
  Workloads,   \* a set of functions from Threads to Tasks
  NoThread

Tasks == {"register", "lookup", "call", "serialize", "compare"}

ASSUME StoreLockAssumption ==
  /\ NoThread \notin Threads
  /\ Rounds \in Nat \ {0}
  /\ MaxDepth \in Nat \ {0}
  /\ Workloads \subseteq [Threads -> Tasks]
  \* a comparison is of two stores
  /\ (\E w \in Workloads, t \in Threads : w[t] = "compare") => \A s \in Stores : Stores # {s}

VARIABLES
  task,         \* what each thread does
  home,         \* the store it does it with
  writer_bit,   \* WRITER_BIT of each lock, with the thread that set it
  guards,       \* the read guards of each thread, the latest one last
  pc,
  left          \* rounds left

vars == <<task, home, writer_bit, guards, pc, left>>

Labels == {"peek", "request", "write", "hold", "argument", "nested", "close",
           "type", "optional", "second", "release", "done"}

TypeOK ==
  /\ task \in Workloads
  /\ home \in [Threads -> Stores]
  /\ writer_bit \in [Stores -> Threads \cup {NoThread}]
  /\ guards \in [Threads -> Seq(Stores)]
  /\ pc \in [Threads -> Labels]
  /\ left \in [Threads -> 0..Rounds]

FirstLabel(t) == IF t \in {"register", "lookup"} THEN "peek" ELSE "hold"

Init ==
  /\ task \in Workloads
  /\ home \in [Threads -> Stores]
  /\ writer_bit = [s \in Stores |-> NoThread]
  /\ guards = [t \in Threads |-> << >>]
  /\ pc = [t \in Threads |-> FirstLabel(task[t])]
  /\ left = [t \in Threads |-> Rounds]

-----------------------------------------------------------------------------
\* The library's side of a lock operation.
CanRead(s)    == writer_bit[s] = NoThread
Acquire(t, s) == CanRead(s) /\ guards' = [guards EXCEPT ![t] = Append(@, s)]
Holds(t, s)   == \E i \in 1..Len(guards[t]) : guards[t][i] = s
NoReaders(s)  == \A t \in Threads : ~Holds(t, s)
Release(t)    == guards' = [guards EXCEPT ![t] = SubSeq(@, 1, Len(@) - 1)]

At(t, kind, label) == task[t] = kind /\ pc[t] = label
Goto(t, label)     == pc' = [pc EXCEPT ![t] = label]
EndRound(t, again) ==
  /\ left' = [left EXCEPT ![t] = @ - 1]
  /\ Goto(t, IF left[t] > 1 THEN again ELSE "done")

\* A method that reads the store and lets go of it (get_field_index, get_type,
\* field_count, list_at_index ...).
Lookup(t) ==
  /\ At(t, "lookup", "peek")
  /\ CanRead(home[t])
  /\ EndRound(t, "peek")
  /\ UNCHANGED <<task, home, writer_bit, guards>>

\* Mutant of Check: the guard is still held when the write lock is requested.
CheckAndHold(t) ==
  /\ At(t, "register", "peek")
  /\ Acquire(t, home[t])
  /\ Goto(t, "request")
  /\ UNCHANGED <<task, home, writer_bit, left>>

\* get_or_add_*: the read-locked check, whose guard is dropped with its block.
Check(t) ==
  /\ At(t, "register", "peek")
  /\ CanRead(home[t])
  /\ Goto(t, "request")
  /\ UNCHANGED <<task, home, writer_bit, guards, left>>

\* RwLock::write sets WRITER_BIT ...
RequestWrite(t) ==
  /\ At(t, "register", "request")
  /\ writer_bit[home[t]] = NoThread
  /\ writer_bit' = [writer_bit EXCEPT ![home[t]] = t]
  /\ Goto(t, "write")
  /\ UNCHANGED <<task, home, guards, left>>

\* Mutant of Write: the write guard is leaked.
WriteAndKeep(t) ==
  /\ At(t, "register", "write")
  /\ NoReaders(home[t])
  /\ EndRound(t, "peek")
  /\ UNCHANGED <<task, home, writer_bit, guards>>

\* Mutant of Write: the push happens under the read lock.
WriteUnderRead(t) ==
  /\ At(t, "register", "write")
  /\ writer_bit' = [writer_bit EXCEPT ![home[t]] = NoThread]
  /\ EndRound(t, "peek")
  /\ UNCHANGED <<task, home, guards>>

\* ... and returns when the readers have left; push, insert, unlock.
Write(t) ==
  /\ At(t, "register", "write")
  /\ NoReaders(home[t])
  /\ writer_bit' = [writer_bit EXCEPT ![home[t]] = NoThread]
  /\ EndRound(t, "peek")
  /\ UNCHANGED <<task, home, guards>>

\* The text decides what follows in an argument list: a field or a literal, a
\* nested call, or ")".
NextInList(t, args, depth) ==
  \E label \in {"argument", "nested", "close"} :
    /\ label # "close" => args > 0
    /\ label = "nested" => depth < MaxDepth
    /\ Goto(t, label)

\* Function::as_definition at the start of a call expression.
OpenCall(t) ==
  /\ At(t, "call", "hold")
  /\ Acquire(t, home[t])
  /\ NextInList(t, left[t], 1)
  /\ UNCHANGED <<task, home, writer_bit, left>>

\* A field argument: its lookup and its type are read under the call's guard.
FieldArgument(t) ==
  /\ At(t, "call", "argument")
  /\ CanRead(home[t])
  /\ left' = [left EXCEPT ![t] = @ - 1]
  /\ NextInList(t, left[t] - 1, Len(guards[t]))
  /\ UNCHANGED <<task, home, writer_bit, guards>>

\* An argument that is a call takes a guard of its own.
NestedCall(t) ==
  /\ At(t, "call", "nested")
  /\ Acquire(t, home[t])
  /\ left' = [left EXCEPT ![t] = @ - 1]
  /\ NextInList(t, left[t] - 1, Len(guards[t]) + 1)
  /\ UNCHANGED <<task, home, writer_bit>>

\* ")" : the definition guard goes out of scope.
CloseCall(t) ==
  /\ At(t, "call", "close")
  /\ Release(t)
  /\ IF Len(guards[t]) = 1 THEN Goto(t, "done")
                           ELSE NextInList(t, left[t], Len(guards[t]) - 1)
  /\ UNCHANGED <<task, home, writer_bit, left>>

\* Scheme::serialize, one entry: name() is held, get_type() and optional() peek.
SerializeName(t) ==
  /\ At(t, "serialize", "hold")
  /\ Acquire(t, home[t])
  /\ Goto(t, "type")
  /\ UNCHANGED <<task, home, writer_bit, left>>

SerializeType(t) ==
  /\ At(t, "serialize", "type")
  /\ CanRead(home[t])
  /\ Goto(t, "optional")
  /\ UNCHANGED <<task, home, writer_bit, guards, left>>

SerializeOptional(t) ==
  /\ At(t, "serialize", "optional")
  /\ CanRead(home[t])
  /\ Goto(t, "release")
  /\ UNCHANGED <<task, home, writer_bit, guards, left>>

SerializeEntry(t) ==
  /\ At(t, "serialize", "release")
  /\ Release(t)
  /\ EndRound(t, "hold")
  /\ UNCHANGED <<task, home, writer_bit>>

\* SchemeStore::eq, reached from == on fields, functions and lists of two stores.
EqFirst(t) ==
  /\ At(t, "compare", "hold")
  /\ Acquire(t, home[t])
  /\ Goto(t, "second")
  /\ UNCHANGED <<task, home, writer_bit, left>>

EqSecond(t) ==
  /\ At(t, "compare", "second")
  /\ \E s \in Stores \ {home[t]} : CanRead(s)
  /\ Goto(t, "release")
  /\ UNCHANGED <<task, home, writer_bit, guards, left>>

EqEnd(t) ==
  /\ At(t, "compare", "release")
  /\ Release(t)
  /\ EndRound(t, "hold")
  /\ UNCHANGED <<task, home, writer_bit>>

Step(t) ==
  \/ Lookup(t)
  \/ Check(t) \/ RequestWrite(t) \/ Write(t)
  \/ OpenCall(t) \/ FieldArgument(t) \/ NestedCall(t) \/ CloseCall(t)
  \/ SerializeName(t) \/ SerializeType(t) \/ SerializeOptional(t) \/ SerializeEntry(t)
  \/ EqFirst(t) \/ EqSecond(t) \/ EqEnd(t)

Next == \E t \in Threads : Step(t)

\* Every thread is scheduled; parking_lot wakes the parked ones when they can go.
Spec == Init /\ [][Next]_vars /\ \A t \in Threads : WF_vars(Step(t))

-----------------------------------------------------------------------------
Done(t) == pc[t] = "done"

\* A thread about to take a read guard that it cannot have now.
WaitsToRead(t) ==
  \/ pc[t] \in {"peek", "hold", "argument", "nested", "type", "optional"} /\ ~CanRead(home[t])
  \/ pc[t] = "second" /\ \A s \in Stores \ {home[t]} : ~CanRead(s)

\* Holding a guard and waiting for another.
WaitsInside(t) == guards[t] # << >> /\ WaitsToRead(t)

\* A thread that has to wait for a lock.
Blocked(t) ==
  \/ WaitsToRead(t)
  \/ pc[t] = "request" /\ writer_bit[home[t]] # NoThread
  \/ pc[t] = "write" /\ ~NoReaders(home[t])

AllStop == \A t \in Threads : Done(t) \/ Blocked(t)
Stuck   == AllStop /\ \E t \in Threads : ~Done(t)

StuckIsNestedRead ==
  Stuck => /\ \E t \in Threads : WaitsInside(t)
           /\ \E t \in Threads : pc[t] = "write" /\ guards[t] = << >>

(***************************************************************************)
(* Safety.  If everybody waits for everybody, some thread is taking a      *)
(* second read guard under a first one, and a registration waits for the   *)
(* first: registrations alone never block each other, because the check's  *)
(* guard is dropped before RwLock::write.  Nothing but a lock stops a task. *)
(***************************************************************************)
DeadlockIsNestedRead ==
  /\ (\A t \in Threads : ~ENABLED Step(t)) => AllStop
  /\ StuckIsNestedRead

\* Action property: a store is not written while a thread holds a guard on it
\* (the guard maps into the vectors that push may reallocate).
GuardsPinTheStore ==
  [][\A t \in Threads : pc[t] = "write" /\ pc'[t] # "write"
       => \A u \in Threads : ~Holds(u, home[t]) /\ ~Holds(u, home[t])']_vars

\* Tasks that nest read locks next to one that registers.
Nested  == {"call", "serialize", "compare"}
Settled == ~\E t, u \in Threads : task[t] \in Nested /\ task[u] = "register"

\* Liveness: when the names are registered in one phase and the schemes used in
\* another, every parse, serialization, comparison, lookup and registration ends.
SettledTasksEnd == Settled => \A t \in Threads : <>Done(t)

\* Scheme::parse returns a result or an error.
ParseReturns == \A t \in Threads : task[t] = "call" ~> Done(t)
=============================================================================
