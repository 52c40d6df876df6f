------------------------------ MODULE MC_Client ------------------------------
(***************************************************************************)
(* Model-checking instance of Client: two caller threads, two item values, *)
(* two distinct chunk errors (so that "the first error" is observable).    *)
(***************************************************************************)
EXTENDS Client, TLC

CONSTANTS c1, c2, i1, i2, e1, e2

MCCallers == {c1, c2}
MCItems == {i1, i2}
MCErrors == {e1, e2}
MCOneError == {e1}

\* Callers, items and errors are interchangeable in every property.
Symmetry == Permutations(MCCallers) \cup Permutations(MCItems)
              \cup Permutations(MCErrors)

=============================================================================
