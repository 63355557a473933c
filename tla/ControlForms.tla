---------------------------- MODULE ControlForms ----------------------------
(***************************************************************************)
(* The control-form algebra (controlforms.py).  A form of human control is *)
(* the set of guarantees it gives; it is stricter the more it gives, and   *)
(* BLOCKED is above everything.  Policy packs are composed by conjunction. *)
(***************************************************************************)
EXTENDS Naturals

NOTIFY    == "notify_human"
PRE       == "pre_approval"
TWO       == "two_approvers"
COMPETENT == "competent_approver"
SAMPLING  == "post_hoc_sampling"
VETO      == "veto_expires_to_deny"
BLOCKED   == "blocked"

Guarantees == {NOTIFY, PRE, TWO, COMPETENT, SAMPLING, VETO, BLOCKED}

\* The named forms.
AUTO           == {}
SpotCheck      == {NOTIFY, SAMPLING}
VetoWindow     == {NOTIFY, VETO}
SingleApprover == {NOTIFY, PRE}
FourEyes       == {NOTIFY, PRE, TWO}
ExpertReview   == {NOTIFY, PRE, COMPETENT}
Block          == {BLOCKED}

\* a is at most as strict as b.
Leq(a, b) == BLOCKED \in b \/ (BLOCKED \notin a /\ a \subseteq b)

\* Both forms at once; BLOCK absorbs.
Compose(a, b) == IF BLOCKED \in a \/ BLOCKED \in b THEN Block ELSE a \cup b

\* A stack of packs is composed from the left, starting at AUTO.
ComposeAll(forms) == IF \E f \in forms : BLOCKED \in f THEN Block ELSE UNION forms

\* Guarantees for which a person has to act before the step may run.
Hands == {PRE, TWO, COMPETENT}

\* The approvals a form demands when the request names no quorum.
HandsOf(form) == IF TWO \in form THEN 2
                 ELSE IF PRE \in form \/ VETO \in form THEN 1 ELSE 0
=============================================================================
