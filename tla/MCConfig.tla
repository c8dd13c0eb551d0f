------------------------------ MODULE MCConfig ------------------------------
(* Two names, two types of two values each.                                *)
EXTENDS Config, TLC

CONSTANTS t1, t2, n1, n2

TwoThreads == {t1, t2}
TwoNames == {n1, n2}
Symmetry == Permutations(TwoThreads) \cup Permutations(TwoNames)
TwoTypes == {{0, 1}, {2, 3}}
DefaultOf == [T \in TwoTypes |-> IF 0 \in T THEN 0 ELSE 2]
=============================================================================
