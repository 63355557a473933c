---------------------------- MODULE MCWorkflows ----------------------------
(* An instance of workflow execution for model checking. *)
EXTENDS Workflows, TLC

CONSTANTS w1, w2, q1, c1, ann, ben, pub, law

Roster == [p \in Parties |-> [kind |-> "human", status |-> "active",
                              comps |-> IF p = ben THEN {pub} ELSE {}]]
Decide == [c \in Callers |-> {"decide"}]
ForAnn == [w \in Runners |-> ann]

Step(verdict, footprint, onFailure, retries, threads) ==
    [verdict |-> verdict, footprint |-> footprint, onFailure |-> onFailure,
     retries |-> retries, threads |-> threads]

\* A step that may not run, one under the packs, one that needs a sign-off and
\* reads what the second said.
Publish == <<Step("NO_GO", <<law>>, "continue", 0, 0),
             Step("GO", <<pub, law>>, "stop", 0, 0),
             Step("CONDITIONAL", <<>>, "retry", 1, 2)>>

Above   == {{<<law, SingleApprover>>}}
Stacks  == {{{<<pub, ExpertReview>>}}}
Signs   == {{}, {3}}
=============================================================================
