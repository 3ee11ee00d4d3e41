---------------------------- MODULE PanicCatcher ----------------------------
(***************************************************************************)
(* engine/src/panic.rs: catch_panic and the panic hook.  Whether a thread  *)
(* catches is thread-local (ENABLED, LEVEL, FALLBACK_MODE, BACKTRACE); the *)
(* hook is one for the process, and panic_catcher_set_hook installs it in  *)
(* four steps that another thread's panics and set_hook can run between:   *)
(* load HOOK_SET, take_hook (which leaves the default hook in place),      *)
(* set_hook, store HOOK_SET.                                               *)
(*                                                                         *)
(* A frame is a catch_panic call on the stack of a thread: "catching" if   *)
(* start_catching said so, "plain" if the catcher was disabled then.  The  *)
(* hook runs in the panicking thread before its stack unwinds.             *)
(***************************************************************************)
EXTENDS Integers, Sequences, FiniteSets

CONSTANTS
  Threads,
  Installers,     \* the threads that call panic_catcher_set_hook
  MaxDepth,       \* bound on nested catch_panic calls
  MaxPanics,      \* bound on the panics of a thread
  NoThread

ASSUME PanicAssumption ==
  /\ Installers \subseteq Threads
  /\ NoThread \notin Threads
  /\ MaxDepth \in Nat /\ MaxPanics \in Nat

VARIABLES
  enabled,          \* PANIC_CATCHER_ENABLED
  level,            \* PANIC_CATCHER_LEVEL
  fallback_mode,    \* PANIC_CATCHER_FALLBACK_MODE
  backtrace,        \* PANIC_CATCHER_BACKTRACE: the panic it describes, 0 when empty
  hook_set,         \* PANIC_CATCHER_HOOK_SET
  hook,             \* the installed hook: catcher hooks chained before the default one
  taken,            \* what take_hook returned to an installer
  pc,               \* each installer's place in panic_catcher_set_hook
  frames,           \* each thread's catch_panic calls, the innermost last
  status,           \* running, unwinding, dead
  panics,           \* the panics of each thread so far
  caught,           \* history: the last panic that catch_panic returned, its message
  aborted           \* the thread that called abort

locals  == <<enabled, level, fallback_mode, backtrace>>
install == <<hook_set, hook, taken, pc>>
vars    == <<locals, install, frames, status, panics, caught, aborted>>

Unknown == 0      \* the message "... panicked at '<unknown>' ..."
Frame   == {"catching", "plain"}

TypeOK ==
  /\ enabled \in [Threads -> BOOLEAN]
  /\ level \in [Threads -> Nat]
  /\ fallback_mode \in [Threads -> {"Continue", "Abort"}]
  /\ backtrace \in [Threads -> Nat]
  /\ hook_set \in BOOLEAN
  /\ hook \in Nat
  /\ taken \in [Threads -> Nat]
  /\ pc \in [Threads -> {"load", "take", "set", "store", "done"}]
  /\ frames \in [Threads -> Seq(Frame)]
  /\ status \in [Threads -> {"running", "unwinding", "dead"}]
  /\ panics \in [Threads -> Nat]
  /\ caught \in [Threads -> [panic : Nat, message : Nat, hooked : BOOLEAN]]
  /\ aborted \in Threads \cup {NoThread}

Init ==
  /\ enabled = [t \in Threads |-> FALSE]
  /\ level = [t \in Threads |-> 0]
  /\ fallback_mode = [t \in Threads |-> "Continue"]
  /\ backtrace = [t \in Threads |-> 0]
  /\ hook_set = FALSE /\ hook = 0
  /\ taken = [t \in Threads |-> 0]
  /\ pc = [t \in Threads |-> IF t \in Installers THEN "load" ELSE "done"]
  /\ frames = [t \in Threads |-> << >>]
  /\ status = [t \in Threads |-> "running"]
  /\ panics = [t \in Threads |-> 0]
  /\ caught = [t \in Threads |-> [panic |-> 0, message |-> 0, hooked |-> FALSE]]
  /\ aborted = NoThread

-----------------------------------------------------------------------------
\* A thread that can make a call; one inside set_hook first returns from it.
Runs(t) == aborted = NoThread /\ status[t] = "running" /\ pc[t] \in {"load", "done"}

SetEnabled(t, value) ==
  /\ Runs(t)
  /\ enabled' = [enabled EXCEPT ![t] = value]
  /\ UNCHANGED <<level, fallback_mode, backtrace, install, frames, status, panics, caught,
                 aborted>>

SetFallbackMode(t, mode) ==
  /\ Runs(t)
  /\ fallback_mode' = [fallback_mode EXCEPT ![t] = mode]
  /\ UNCHANGED <<enabled, level, backtrace, install, frames, status, panics, caught, aborted>>

\* catch_panic up to the call of f.
StartCatching(t) ==
  /\ Runs(t) /\ Len(frames[t]) < MaxDepth
  /\ IF enabled[t]
     THEN /\ level' = [level EXCEPT ![t] = @ + 1]
          /\ frames' = [frames EXCEPT ![t] = Append(@, "catching")]
     ELSE /\ frames' = [frames EXCEPT ![t] = Append(@, "plain")]
          /\ UNCHANGED level
  /\ UNCHANGED <<enabled, fallback_mode, backtrace, install, status, panics, caught, aborted>>

Innermost(t) == frames[t][Len(frames[t])]
DropFrame(t) == frames' = [frames EXCEPT ![t] = SubSeq(@, 1, Len(@) - 1)]

\* Mutant of StopCatching: nothing is subtracted if the catcher has been
\* disabled meanwhile.
StopCatchingIfEnabled(t) ==
  /\ level' = [level EXCEPT ![t] = IF enabled[t] THEN @ - 1 ELSE @]
  /\ UNCHANGED aborted

\* panic_catcher_stop_catching: checked_sub aborts below zero.
StopCatching(t) ==
  IF level[t] = 0 THEN aborted' = t /\ UNCHANGED level
                  ELSE level' = [level EXCEPT ![t] = @ - 1] /\ UNCHANGED aborted

\* f returns.
Return(t) ==
  /\ Runs(t) /\ frames[t] # << >>
  /\ DropFrame(t)
  /\ IF Innermost(t) = "catching" THEN StopCatching(t) ELSE UNCHANGED <<level, aborted>>
  /\ UNCHANGED <<enabled, fallback_mode, backtrace, install, status, panics, caught>>

\* Mutant of HookRecords: the hook asks for ENABLED.
HookRecordsIfEnabled(t) == enabled[t]

\* Inside a catch_panic, the hook records the backtrace and is done.
HookRecords(t) == level[t] > 0

\* The closure that set_hook installed; the default hook only prints.
RunHook(t) ==
  \/ /\ hook > 0 /\ HookRecords(t)
     /\ backtrace' = [backtrace EXCEPT ![t] = panics'[t]]
     /\ UNCHANGED aborted
  \/ /\ hook > 0 /\ ~HookRecords(t) /\ fallback_mode[t] = "Abort"
     /\ aborted' = t
     /\ UNCHANGED backtrace
  \/ /\ hook = 0 \/ (~HookRecords(t) /\ fallback_mode[t] = "Continue")
     /\ UNCHANGED <<backtrace, aborted>>

\* f, or the thread outside any catch_panic, panics.
Panic(t) ==
  /\ Runs(t) /\ panics[t] < MaxPanics
  /\ panics' = [panics EXCEPT ![t] = @ + 1]
  /\ RunHook(t)
  /\ status' = [status EXCEPT ![t] = "unwinding"]
  /\ caught' = [caught EXCEPT ![t].hooked = hook_set]
  /\ UNCHANGED <<enabled, level, fallback_mode, install, frames>>

\* Nothing catches the panic: the thread ends.
Die(t) ==
  /\ aborted = NoThread /\ status[t] = "unwinding" /\ frames[t] = << >>
  /\ status' = [status EXCEPT ![t] = "dead"]
  /\ UNCHANGED <<locals, install, frames, panics, caught, aborted>>

\* A frame that was disabled when it was entered has no catch_unwind.
Unwind(t) ==
  /\ aborted = NoThread /\ status[t] = "unwinding" /\ frames[t] # << >>
  /\ Innermost(t) = "plain"
  /\ DropFrame(t)
  /\ UNCHANGED <<locals, install, status, panics, caught, aborted>>

\* catch_unwind returns Err, catch_panic stops catching and reads the backtrace.
Catch(t) ==
  /\ aborted = NoThread /\ status[t] = "unwinding" /\ frames[t] # << >>
  /\ Innermost(t) = "catching"
  /\ DropFrame(t)
  /\ StopCatching(t)
  /\ status' = [status EXCEPT ![t] = "running"]
  /\ caught' = [caught EXCEPT ![t].panic = panics[t], ![t].message = backtrace[t]]
  /\ UNCHANGED <<enabled, fallback_mode, backtrace, install, panics>>

-----------------------------------------------------------------------------
At(t, label) == aborted = NoThread /\ status[t] = "running" /\ pc[t] = label
Goto(t, label) ==
  /\ pc' = [pc EXCEPT ![t] = label]
  /\ UNCHANGED <<locals, frames, status, panics, caught, aborted>>

\* Mutant of LoadHookSet: swap(true), before there is a hook.
SwapHookSet(t) ==
  /\ At(t, "load")
  /\ hook_set' = TRUE
  /\ Goto(t, IF hook_set THEN "done" ELSE "take")
  /\ UNCHANGED <<hook, taken>>

LoadHookSet(t) ==
  /\ At(t, "load")
  /\ Goto(t, IF hook_set THEN "done" ELSE "take")
  /\ UNCHANGED <<hook_set, hook, taken>>

\* std::panic::take_hook unregisters: the default hook is back.
TakeHook(t) ==
  /\ At(t, "take")
  /\ taken' = [taken EXCEPT ![t] = hook]
  /\ hook' = 0
  /\ Goto(t, "set")
  /\ UNCHANGED hook_set

SetHook(t) ==
  /\ At(t, "set")
  /\ hook' = taken[t] + 1
  /\ Goto(t, "store")
  /\ UNCHANGED <<hook_set, taken>>

StoreHookSet(t) ==
  /\ At(t, "store")
  /\ hook_set' = TRUE
  /\ Goto(t, "done")
  /\ UNCHANGED <<hook, taken>>

Next ==
  \E t \in Threads :
    \/ \E b \in BOOLEAN : SetEnabled(t, b)
    \/ \E m \in {"Continue", "Abort"} : SetFallbackMode(t, m)
    \/ StartCatching(t) \/ Return(t)
    \/ Panic(t) \/ Die(t) \/ Unwind(t) \/ Catch(t)
    \/ LoadHookSet(t) \/ TakeHook(t) \/ SetHook(t) \/ StoreHookSet(t)

Spec == Init /\ [][Next]_vars

-----------------------------------------------------------------------------
(***************************************************************************)
(* Safety.  LEVEL is the number of catch_panic calls that will catch, in   *)
(* every nesting, with the catcher enabled and disabled in between, and    *)
(* while a panic unwinds through some of them: so the checked subtraction  *)
(* never aborts.                                                           *)
(***************************************************************************)
Catching(t) == {i \in 1..Len(frames[t]) : frames[t][i] = "catching"}

LevelCountsFrames ==
  \A t \in Threads : level[t] = Cardinality(Catching(t))

\* The process aborts only for a panic that no catch_panic of its thread would
\* have caught, and only if that thread asked for it.
AbortIsUncaught ==
  aborted # NoThread => Catching(aborted) = {} /\ fallback_mode[aborted] = "Abort"

\* LEVEL and the frames move together in every step, and nothing moves after an
\* abort: with the types, this is inductive.
IInv == TypeOK /\ LevelCountsFrames /\ AbortIsUncaught

\* The message that catch_panic returns with a caught panic is never that of an
\* earlier panic of the thread, caught or not.
MessageIsOfThisPanic ==
  \A t \in Threads : caught[t].panic > 0 /\ status[t] = "running" =>
    caught[t].message \in {caught[t].panic, Unknown}

\* panic_catcher_set_hook "registers panic catcher panic hook": from its return
\* on, the hook is there.
RegisteredHookIsInstalled == hook_set => hook > 0

\* test_panic_catcher_can_catch_panic: after panic_catcher_set_hook, the Err of
\* catch_panic holds the message of the panic.
HookedPanicHasMessage ==
  \A t \in Threads :
    caught[t].hooked /\ caught[t].panic = panics[t] /\ caught[t].panic > 0
      => caught[t].message = caught[t].panic
=============================================================================
