----------------------------- MODULE Workflows -----------------------------
(***************************************************************************)
(* Executing a workflow (run_workflow in workflows.py) in a folder whose   *)
(* packs demand forms of control (juris_packs.py), with the approvals of   *)
(* approvals.py deciding whether a step may run.                           *)
(*                                                                         *)
(* Each step is gated, resolved and dispatched in turn.  Between the       *)
(* replay of the chain, the reading of the registry and the dispatch,      *)
(* people decide, packs change and other executions of the same workflow   *)
(* proceed: all of them share one approval request per step.  A run's id   *)
(* comes from the queue, which may hand it out again.                      *)
(***************************************************************************)
EXTENDS Approvals, Sequences

CONSTANTS
    Runners,          \* threads that execute the workflow
    Actor,            \* the party each acts for
    Runs,             \* run ids
    Plan,             \* the steps: [verdict, footprint, onFailure, retries, threads]
    Rationales,       \* sets of steps a caller may have signed off
    AncestorPacks,    \* packs declared above the folder; a pack is a set of <<tag, form>>
    Declarations,     \* pack stacks the folder may declare
    ApprovalTimeout,
    MaxExecutions,    \* bound: executions started
    MaxDeclared       \* bound: declarations

Steps == DOMAIN Plan

PlanStep == [verdict : {"GO", "CONDITIONAL", "NO_GO"}, footprint : Seq(Competences),
             onFailure : {"stop", "continue", "retry"}, retries : Nat, threads : Nat]

Packs == SUBSET (Competences \X SUBSET Guarantees)

ASSUME WorkflowConstants ==
    /\ Plan \in Seq(PlanStep) /\ Plan # <<>>
    /\ Requests = Steps
    /\ IsFiniteSet(Parties)
    /\ AncestorPacks \subseteq Packs /\ Declarations \subseteq SUBSET Packs
    /\ Actor \in [Runners -> Parties]
    /\ Rationales \subseteq SUBSET Steps
    /\ ApprovalTimeout \in Nat \ {0}
    /\ \A i \in Steps : Plan[i].threads < i

VARIABLES
    own,          \* the packs the folder declares
    exec,         \* what each runner is executing
    view,         \* the chain as the runner replayed it, with the time it took before
    runlog,       \* the last run-level event of each run
    dispatched,   \* history: the dispatches
    executions,
    declared

workflowVars == <<own, exec, view, runlog, dispatched, executions, declared>>
vars         == <<approvalVars, workflowVars>>

NoView  == [at |-> 0, decs |-> {}, dels |-> {}]
Resting == [stage |-> "none", run |-> "none", signed |-> {}, results |-> <<>>,
            form |-> {}, approved |-> FALSE, tries |-> 0, outcome |-> "none"]

Started(run, signed) ==
    [stage |-> "gate", run |-> run, signed |-> signed, results |-> <<>>,
     form |-> {}, approved |-> FALSE, tries |-> 0, outcome |-> "none"]

Results  == {"clean", "dirty", "failed", "blocked"}
Gating   == {"gate", "resolve", "open", "judge", "dispatch"}
Outcomes == {"done", "held", "failed"}

Execution == [stage : Gating \cup {"none", "end"}, run : Runs \cup {"none"},
              signed : SUBSET Steps, results : Seq(Results), form : SUBSET Guarantees,
              approved : BOOLEAN, tries : Nat, outcome : Outcomes \cup {"none"}]

Dispatches == [run : Runs, step : Steps, form : SUBSET Guarantees, signed : BOOLEAN,
               tainted : BOOLEAN]

WorkflowTypeOK ==
    /\ own \in SUBSET Packs
    /\ exec \in [Runners -> Execution]
    /\ \A w \in Runners :
         /\ Len(exec[w].results) <= Len(Plan)
         /\ exec[w].stage \in Gating => Len(exec[w].results) < Len(Plan)
         /\ exec[w].stage # "none" => exec[w].run \in Runs
         /\ (exec[w].stage = "end") = (exec[w].outcome # "none")
    /\ view \in [Runners -> [at : Nat, decs : SUBSET Decision, dels : SUBSET Grant]]
    /\ runlog \in [Runs -> Outcomes \cup {"none", "running"}]
    /\ dispatched \subseteq Dispatches

WorkflowInit ==
    /\ ApprovalInit
    /\ own = {}
    /\ exec = [w \in Runners |-> Resting]
    /\ view = [w \in Runners |-> NoView]
    /\ runlog = [r \in Runs |-> "none"]
    /\ dispatched = {}
    /\ executions = 0 /\ declared = 0

-----------------------------------------------------------------------------
(***************************************************************************)
(* What the folder's packs demand of a step.                               *)
(***************************************************************************)

\* An ancestor's packs cannot be removed below.
FolderPacks == AncestorPacks \cup own

Demanded(step) ==
    ComposeAll({c[2] : c \in {c \in UNION FolderPacks :
                                \E k \in DOMAIN step.footprint : step.footprint[k] = c[1]}})

SetFolderPacks(stack) ==
    /\ declared < MaxDeclared
    /\ declared' = declared + 1
    /\ own' = stack
    /\ UNCHANGED <<approvalVars, exec, view, runlog, dispatched, executions>>

-----------------------------------------------------------------------------
(***************************************************************************)
(* One execution.                                                          *)
(***************************************************************************)
At(e)    == Len(e.results) + 1
Now(e)   == Plan[At(e)]

SignedOff(e) == e.approved \/ At(e) \in e.signed

\* The step's query refers to an earlier result and the scan finds something in it.
Tainted(e) == Now(e).threads > 0 /\ e.results[Now(e).threads] = "dirty"

\* Mutant: the sign-off of one step is still there at the next.
Finished_Signed(e, result) ==
    LET stop == result \in {"failed", "blocked"} /\ Now(e).onFailure # "continue"
        over == stop \/ At(e) = Len(Plan)
    IN [e EXCEPT !.results = Append(@, result), !.form = {}, !.tries = 0,
                 !.stage = IF over THEN "end" ELSE "gate",
                 !.outcome = IF stop THEN "failed" ELSE IF over THEN "done" ELSE "none"]

\* Mutant: a step that was blocked does not end the run.
Finished_Blocked(e, result) ==
    LET stop == result = "failed" /\ Now(e).onFailure # "continue"
        over == stop \/ At(e) = Len(Plan)
    IN [e EXCEPT !.results = Append(@, result), !.form = {}, !.approved = FALSE, !.tries = 0,
                 !.stage = IF over THEN "end" ELSE "gate",
                 !.outcome = IF stop THEN "failed" ELSE IF over THEN "done" ELSE "none"]

\* The step has its result; a failure ends the run unless the step lets it go on.
Finished(e, result) ==
    LET stop == result \in {"failed", "blocked"} /\ Now(e).onFailure # "continue"
        over == stop \/ At(e) = Len(Plan)
    IN [e EXCEPT !.results = Append(@, result), !.form = {}, !.approved = FALSE, !.tries = 0,
                 !.stage = IF over THEN "end" ELSE "gate",
                 !.outcome = IF stop THEN "failed" ELSE IF over THEN "done" ELSE "none"]

To(e, stage) == [e EXCEPT !.stage = stage]

Held(e) == [e EXCEPT !.stage = "end", !.outcome = "held"]

\* After the form gate: CONDITIONAL and a dirty thread wait for a sign-off.
Proceed(e) ==
    IF (Now(e).verdict = "CONDITIONAL" \/ Tainted(e)) /\ ~SignedOff(e)
    THEN Held(e) ELSE To(e, "dispatch")

StartRun(w, run, signed) ==
    /\ exec[w] = Resting
    /\ executions < MaxExecutions
    /\ executions' = executions + 1
    /\ exec' = [exec EXCEPT ![w] = Started(run, signed)]
    /\ runlog' = [runlog EXCEPT ![run] = "running"]
    /\ UNCHANGED <<approvalVars, own, view, dispatched, declared>>

\* Steps that change nothing but the execution itself.
Moves(w, e) ==
    /\ exec' = [exec EXCEPT ![w] = e]
    /\ UNCHANGED <<approvalVars, own, view, runlog, dispatched, executions, declared>>

\* The action gate says NO-GO.
BlockStep(w) ==
    /\ exec[w].stage = "gate"
    /\ Now(exec[w]).verdict = "NO_GO"
    /\ Moves(w, Finished(exec[w], "blocked"))

\* A form that needs hands is resolved first.
GateStep(w) ==
    /\ exec[w].stage = "gate"
    /\ Now(exec[w]).verdict # "NO_GO"
    /\ LET form == Demanded(Now(exec[w]))
           e    == [exec[w] EXCEPT !.form = form]
       IN Moves(w, IF form \cap Hands # {} THEN To(e, "resolve") ELSE Proceed(e))

\* resolve_approval: take the time and replay the chain ...
ReplayChain(w) ==
    /\ exec[w].stage = "resolve"
    /\ IF request[At(exec[w])] = NoRequest
       THEN exec' = [exec EXCEPT ![w] = To(exec[w], "open")] /\ UNCHANGED view
       ELSE /\ exec' = [exec EXCEPT ![w] = To(exec[w], "judge")]
            /\ view' = [view EXCEPT ![w] =
                          [at |-> clock, decs |-> decisions, dels |-> delegations]]
    /\ UNCHANGED <<approvalVars, own, runlog, dispatched, executions, declared>>

\* ... nobody has asked yet: ask, and resolve again ...
OpenRequest(w) ==
    /\ exec[w].stage = "open"
    /\ LET e == exec[w] IN
       request' = Opened(At(e),
          [form |-> e.form, quorum |-> 0,
           comps |-> IF COMPETENT \in e.form THEN {Now(e).footprint[1]} ELSE {},
           onElapse |-> "halt", requester |-> Actor[w], timeout |-> ApprovalTimeout,
           at |-> clock])
    /\ exec' = [exec EXCEPT ![w] = To(exec[w], "resolve")]
    /\ UNCHANGED <<party, decisions, delegations, elapsed, clock, call, held, told, changes,
                   own, view, runlog, dispatched, executions, declared>>

Verdict(w) == LET r == At(exec[w]) IN
    Resolve(r, request[r], view[w].at, view[w].decs, view[w].dels)

\* Mutant: only a denial keeps the step from running.
JudgeForm_Lax(w) ==
    /\ exec[w].stage = "judge"
    /\ LET e == exec[w] IN
       exec' = [exec EXCEPT ![w] =
          IF Verdict(w).state = "denied" THEN Finished(e, "blocked")
          ELSE Proceed([e EXCEPT !.approved = TRUE])]
    /\ view' = [view EXCEPT ![w] = NoView]
    /\ UNCHANGED <<approvalVars, own, runlog, dispatched, executions, declared>>

\* Mutant: the execution waits for the approval.
JudgeForm_Waits(w) ==
    /\ exec[w].stage = "judge"
    /\ LET e == exec[w] IN
       exec' = [exec EXCEPT ![w] =
          IF Verdict(w).state = "denied" THEN Finished(e, "blocked")
          ELSE IF Verdict(w).state = "pending" THEN To(e, "resolve")
          ELSE Proceed([e EXCEPT !.approved = TRUE])]
    /\ view' = [view EXCEPT ![w] = NoView]
    /\ UNCHANGED <<approvalVars, own, runlog, dispatched, executions, declared>>

\* ... read the registry and decide.  A granted form counts as a sign-off.
JudgeForm(w) ==
    /\ exec[w].stage = "judge"
    /\ LET e == exec[w] IN
       exec' = [exec EXCEPT ![w] =
          IF Verdict(w).state = "denied" THEN Finished(e, "blocked")
          ELSE IF Verdict(w).state = "pending" THEN Held(e)
          ELSE Proceed([e EXCEPT !.approved = TRUE])]
    /\ view' = [view EXCEPT ![w] = NoView]
    /\ UNCHANGED <<approvalVars, own, runlog, dispatched, executions, declared>>

DispatchRecord(e) ==
    [run |-> e.run, step |-> At(e), form |-> e.form, signed |-> At(e) \in e.signed,
     tainted |-> Tainted(e)]

Retries(e) == IF Now(e).onFailure = "retry" THEN Now(e).retries ELSE 0

\* One attempt: the skill runs and answers, or fails and may be tried again.
Dispatch(w, result) ==
    /\ exec[w].stage = "dispatch"
    /\ dispatched' = dispatched \cup {DispatchRecord(exec[w])}
    /\ LET e == exec[w] IN
       exec' = [exec EXCEPT ![w] =
         IF result = "failed" /\ e.tries < Retries(e)
         THEN [e EXCEPT !.tries = @ + 1] ELSE Finished(e, result)]
    /\ UNCHANGED <<approvalVars, own, view, runlog, executions, declared>>

EndRun(w) ==
    /\ exec[w].stage = "end"
    /\ runlog' = [runlog EXCEPT ![exec[w].run] = exec[w].outcome]
    /\ exec' = [exec EXCEPT ![w] = Resting]
    /\ UNCHANGED <<approvalVars, own, view, dispatched, executions, declared>>

RunnerDies(w) ==
    /\ exec[w] # Resting
    /\ exec' = [exec EXCEPT ![w] = Resting]
    /\ view' = [view EXCEPT ![w] = NoView]
    /\ UNCHANGED <<approvalVars, own, runlog, dispatched, executions, declared>>

\* What a step put out is told apart where a later one reads it.
Outputs(e) == {"clean", "failed"} \cup
              IF \E j \in Steps : Plan[j].threads = At(e) THEN {"dirty"} ELSE {}

RunnerStep(w) ==
    \/ BlockStep(w) \/ GateStep(w)
    \/ ReplayChain(w) \/ OpenRequest(w) \/ JudgeForm(w)
    \/ \E result \in Outputs(exec[w]) : Dispatch(w, result)
    \/ EndRun(w)

WorkflowNext ==
    \/ \E w \in Runners :
         \/ \E run \in Runs, signed \in Rationales : StartRun(w, run, signed)
         \/ RunnerStep(w)
         \/ RunnerDies(w)
    \/ \E stack \in Declarations : SetFolderPacks(stack)
    \/ ApprovalNext /\ UNCHANGED workflowVars

\* A runner that is alive goes on; nobody has to decide or start anything.
WorkflowSpec == WorkflowInit /\ [][WorkflowNext]_vars /\ \A w \in Runners : WF_vars(RunnerStep(w))

-----------------------------------------------------------------------------
(***************************************************************************)
(* A step that was dispatched under a form that needs hands was asked for, *)
(* and as many different people as the request needs approved it before    *)
(* its deadline, none of whom made the request; whatever happened between  *)
(* the replay of the chain and the dispatch, and whichever run asked.  (A  *)
(* runner never asks for silence to proceed; somebody else may have.)      *)
(***************************************************************************)
ApprovedInTime(r) ==
    {p \in Parties : \E d \in decisions :
        /\ d.request = r /\ d.by = p /\ d.decision = "approve"
        /\ d.at <= Deadline(request[r]) /\ p # request[r].requester}

DispatchedOnApproval ==
    \A d \in dispatched : d.form \cap Hands # {} =>
        /\ request[d.step] # NoRequest
        /\ \/ request[d.step].onElapse = "proceed"
           \/ Cardinality(ApprovedInTime(d.step)) >= Needed(request[d.step])

(***************************************************************************)
(* A CONDITIONAL step and one that is fed something the scan objects to    *)
(* run only when somebody signed off that very step: in words, or by the   *)
(* form.  A NO-GO step never runs.                                         *)
(***************************************************************************)
SignOffIsPerStep ==
    \A d \in dispatched :
        /\ Plan[d.step].verdict # "NO_GO"
        /\ Plan[d.step].verdict = "CONDITIONAL" \/ d.tainted =>
             d.signed \/ d.form \cap Hands # {}

(***************************************************************************)
(* What the run-level event says is what happened to the steps: "done"     *)
(* only after the last one and when every failure was one the plan goes on *)
(* after; "failed" at the first it does not; "held" with a step left.      *)
(***************************************************************************)
Fatal(e) == {i \in DOMAIN e.results :
               e.results[i] \in {"failed", "blocked"} /\ Plan[i].onFailure # "continue"}

EndsAsItsSteps ==
    \A w \in Runners : exec[w].stage = "end" =>
        /\ exec[w].outcome = "done" =>
             Fatal(exec[w]) = {} /\ Len(exec[w].results) = Len(Plan)
        /\ exec[w].outcome = "failed" => Fatal(exec[w]) = {Len(exec[w].results)}
        /\ exec[w].outcome = "held" =>
             Fatal(exec[w]) = {} /\ Len(exec[w].results) < Len(Plan)

(***************************************************************************)
(* Every execution ends: with its outcome on the chain, or with its runner.*)
(* A hold is an end too: nothing waits for a person.                       *)
(***************************************************************************)
ExecutionsEnd == \A w \in Runners : exec[w] # Resting ~> exec[w] = Resting

(***************************************************************************)
(* What a pack forbids does not happen: a step that stands under BLOCK is  *)
(* not dispatched (controlforms.py:19 "nothing executes"). It does not     *)
(* hold (README, section 5): the code's form gate only looks at forms that *)
(* need hands.                                                             *)
(***************************************************************************)
BlockedStepsDoNotRun == \A d \in dispatched : BLOCKED \notin d.form
=============================================================================
