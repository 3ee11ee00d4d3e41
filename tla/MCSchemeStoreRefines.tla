------------------------- MODULE MCSchemeStoreRefines -------------------------
\* TLC instance of SchemeStoreRefines: two builders race for one name, as a field and as a
\* function, and for one list.
EXTENDS SchemeStoreRefines, TLC

Symmetry == Permutations(Builders)
=============================================================================
