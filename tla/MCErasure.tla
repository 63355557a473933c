----------------------------- MODULE MCErasure -----------------------------
(* Instances of erasure for model checking. *)
EXTENDS Erasure, TLC

CONSTANTS a, e1, e2, i1

Symmetry == Permutations(Armers)

\* The folder is sealed a second time only while executes do not overlap.
Bound ==
    seals = 2 => \A p, q \in Armers : p = q \/ "out" \in {exec[p].stage, exec[q].stage}
=============================================================================
