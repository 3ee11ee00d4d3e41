---------------------------- MODULE MCSchemeStore ----------------------------
\* TLC instance of SchemeStore: all parameters are sets of interchangeable
\* model values, and every property is a safety property.
EXTENDS SchemeStore, TLC

Symmetry == Permutations(Builders) \cup Permutations(Names)
              \cup Permutations(Definitions)
=============================================================================
