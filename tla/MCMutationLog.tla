--------------------------- MODULE MCMutationLog ---------------------------
(* Instances of the mutation log for model checking. *)
EXTENDS MutationLog

CONSTANTS p1, p2, p3, x, y

BothAppend    == [p \in Procs |-> {"append"}]
=============================================================================
