-------------------------- MODULE MCDecisionQueue --------------------------
(* Instances of the decision queue for model checking. *)
EXTENDS DecisionQueue, TLC

CONSTANTS c1, c2, bot, p1, p2, p3, erase, keep

Of(seats, rule, m) == [seats |-> seats, rule |-> rule, m |-> m]

\* A unanimous panel of two, and two of three concordant or as a quorum.
SomePanels == {Of(2, "unanimous", 2), Of(3, "m_concordant", 2), Of(3, "any_m", 2)}
NoPanels   == {}

Symmetry == Permutations(Parties \ {Raiser}) \cup Permutations(Options)
=============================================================================
