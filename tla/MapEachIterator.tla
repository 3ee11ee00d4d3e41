--------------------------- MODULE MapEachIterator ---------------------------
(***************************************************************************)
(* The iterator that walks `field[*]["k"][*]`: a stack of iterators, one   *)
(* per index already descended into, resumed in the middle of nested       *)
(* containers each time the caller asks for the next element.              *)
(*                                                                         *)
(* An iterator of the stack is the sequence of the values it has still to  *)
(* return: all elements for [*], at most one for a position or a key.      *)
(***************************************************************************)
EXTENDS Values

CONSTANTS
  Roots,      \* the values that are walked
  Parts,      \* the roots, their elements, and so on
  IndexPaths  \* the sequences of indexes they are walked with

Indexes == UNION {Range(path) : path \in IndexPaths}
PartsOf(ty) == {v \in Parts : TypeOf(v) = ty}

\* Every element has the type its container declares, which the constructors of
\* Array and Map see to (Containers.tla has them).
ASSUME PartsAssumption ==
  /\ Roots \subseteq Parts
  /\ IndexPaths \subseteq Seq(Indexes)
  /\ \A v \in Parts : TypeOf(v) \in Seq(Layers \cup Primitives)
  /\ \A v \in Parts, idx \in Indexes :
        Iterable(v, idx) => NewIterator(v, idx) \in Seq(PartsOf(ElementType(v)))

VARIABLES
  root,       \* the value given to reset
  indexes,    \* the path
  stack,      \* the stack of iterators
  out,        \* the values returned so far
  panicked    \* whether an unwrap of FieldIndexIterator::new failed

iteratorVars == <<root, indexes, stack, out, panicked>>

\* MapEachIterator::from_indexes, then reset.
IteratorInit ==
  /\ root \in Roots
  /\ indexes \in {path \in IndexPaths : path # <<>> /\ Fits(TypeOf(root), path)}
  /\ stack = <<NewIterator(root, Head(indexes))>>
  /\ out = <<>>
  /\ panicked = FALSE

-----------------------------------------------------------------------------
\* One turn of the loop in MapEachIterator::next, on the last iterator.
Top  == stack[Len(stack)]
RestEmptied == [stack EXCEPT ![Len(stack)] = <<>>]    \* mutant of Rest
Rest == [stack EXCEPT ![Len(stack)] = Tail(@)]
Running == stack # <<>> /\ ~panicked
IsLeaf  == Len(stack) = Len(indexes)

ReturnLeaf ==
  /\ Running /\ IsLeaf /\ Top # <<>>
  /\ out' = Append(out, Head(Top))
  /\ stack' = Rest
  /\ UNCHANGED <<root, indexes, panicked>>

Descend ==
  /\ Running /\ ~IsLeaf /\ Top # <<>>
  /\ LET idx == indexes[Len(stack) + 1] IN
     IF Iterable(Head(Top), idx)
     THEN stack' = Append(Rest, NewIterator(Head(Top), idx)) /\ UNCHANGED panicked
     ELSE panicked' = TRUE /\ stack' = Rest
  /\ UNCHANGED <<root, indexes, out>>

\* Mutant of Finish: the exhausted iterator stays on the stack.
FinishKeeping == Running /\ Top = <<>> /\ UNCHANGED iteratorVars

Finish ==
  /\ Running /\ Top = <<>>
  /\ stack' = Front(stack)
  /\ UNCHANGED <<root, indexes, out, panicked>>

IteratorNext == ReturnLeaf \/ Descend \/ Finish

\* try_from_iter and TypedArray::from_iter ask until the iterator is exhausted.
IteratorFairness == WF_iteratorVars(IteratorNext)
IteratorSpec == IteratorInit /\ [][IteratorNext]_iteratorVars /\ IteratorFairness

-----------------------------------------------------------------------------
\* What was returned so far is a prefix of the leaves in depth-first order, and
\* at the end all of them: no element is skipped or repeated when the walk
\* resumes after a leaf, and the stack is never deeper than the path, which an
\* assertion of index_expr.rs next claims.
WalkReturnsLeaves ==
  LET leaves == Leaves(root, indexes) IN
  /\ Len(stack) <= Len(indexes)
  /\ IsPrefix(out, leaves)
  /\ stack = <<>> => out = leaves

\* A caller that keeps asking comes to the end, through any nesting of empty and
\* short containers: it is not stopped by a panic, as no unwrap of
\* FieldIndexIterator::new fails on a path that fits the value's type.
WalkEnds == <>(stack = <<>>)
=============================================================================
