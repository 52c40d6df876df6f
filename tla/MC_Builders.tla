----------------------------- MODULE MC_Builders -----------------------------
(***************************************************************************)
(* Model-checking instance of Builders: the empty key and one real key,    *)
(* two ordered sort-key operands (so lower > upper is reachable), segment  *)
(* arguments 0..2 (so segment = total_segments and total_segments = 0 are  *)
(* reachable), one expression referencing one placeholder.                 *)
(***************************************************************************)
EXTENDS Builders, TLC

CONSTANTS k0, k1, s1, n1, v1, f1, p1, x1

MCKeys == {k0, k1}
MCPlaceholdersOf == [e \in {f1} |-> {p1}]

=============================================================================
