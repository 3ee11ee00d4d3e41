-------------------------- MODULE MCFilterExecution --------------------------
\* TLC instance of FilterExecution: one context and one filter over a store that
\* grows, and a second store.
EXTENDS FilterExecution, TLC

CONSTANTS s1, s2

MCDefinitions == [ty : Types, optional : BOOLEAN]
MCMaxFields   == s1 :> 2 @@ s2 :> 1
MCMaxLists    == s1 :> 1 @@ s2 :> 0
Symmetry      == Permutations(Types)
=============================================================================
