-------------------------- MODULE MCExecutionContext --------------------------
\* TLC instance of ExecutionContext: two contexts, so that one can be cloned,
\* moved and lent, over a store that grows, and a second store for references
\* that do not belong; the lists are in the second one.
EXTENDS ExecutionContext, TLC

CONSTANTS s1, s2

\* Whether a field is optional matters to filters only.
Mandatory   == {[ty |-> t, optional |-> FALSE] : t \in Types}
MCMaxFields == s1 :> 2 @@ s2 :> 1
MCMaxLists  == s1 :> 0 @@ s2 :> 1
Symmetry    == Permutations(Contexts) \cup Permutations(Types)
=============================================================================
