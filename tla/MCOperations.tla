---------------------------- MODULE MCOperations ----------------------------
(* An instance of governed operation for model checking. *)
EXTENDS Operations, TLC

CONSTANTS c1, g1, g2, bot, pii, t1, t2

Case(prohibited, grade, reserved, tags) ==
    [allowed |-> {bot}, prohibited |-> prohibited, grade |-> grade, reserved |-> reserved,
     tags |-> tags]

Issue(sure, tags) == [sure |-> sure, tags |-> tags]

SomeCases == {Case(FALSE, 2, {}, {}), Case(FALSE, 3, {pii}, {}), Case(FALSE, 3, {pii}, {pii}),
              Case(TRUE, 3, {}, {}), Case(FALSE, 3, {"always"}, {})}
SomeLists == {<<>>, <<Issue(TRUE, {}), Issue(TRUE, {pii})>>}

\* Writers do the same, and terms differ only in not being each other.
Symmetry == Permutations(Writers) \cup Permutations(Terms)
=============================================================================
