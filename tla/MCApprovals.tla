---------------------------- MODULE MCApprovals ----------------------------
(* Instances of approvals for model checking. *)
EXTENDS Approvals, TLC

CONSTANTS c1, c2, r1, bot, ann, ben, law

Human(comps) == [kind |-> "human", status |-> "active", comps |-> comps]

\* bot is not registered at first.
Roster == [p \in Parties |-> IF p = bot THEN Unregistered
                             ELSE IF p = ann THEN Human({law}) ELSE Human({})]
Later  == {<<ann, "human", {}>>, <<bot, "human", {}>>}

AskedBy(p, form, comps, onElapse) ==
    [form |-> form, quorum |-> 0, comps |-> comps, onElapse |-> onElapse,
     requester |-> p, timeout |-> 1]

Asked == {AskedBy(ann, ExpertReview, {law}, "halt"), AskedBy(bot, FourEyes, {}, "proceed")}
Split == [c \in Callers |-> IF c = c1 THEN {"request", "decide", "delegate"} ELSE {"effect"}]
=============================================================================
