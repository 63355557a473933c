-------------------------- MODULE WorkflowsProofs --------------------------
(***************************************************************************)
(* No step runs without the approval or the sign-off it needs, and an      *)
(* execution ends as its steps did, for any plan, packs, runners, parties  *)
(* and number of executions.  The argument: what a runner has seen of the  *)
(* chain can only be confirmed by what is appended later, and an execution *)
(* reaches the dispatch of a step only through its gates.                  *)
(***************************************************************************)
EXTENDS Workflows, ApprovalsProofs, FiniteSetTheorems

\* Enough people approved the request in time, or it lets silence proceed.
Approved(r) ==
    /\ request[r] # NoRequest
    /\ \/ request[r].onElapse = "proceed"
       \/ Cardinality(ApprovedInTime(r)) >= Needed(request[r])

NeedsHands(e) == e.form \cap Hands # {}

\* An execution e whose runner has seen v of the chain.
BoundsOK(e) ==
    /\ Len(e.results) <= Len(Plan)
    /\ e.stage \in Gating => Len(e.results) < Len(Plan)
    /\ e.stage # "none" => e.run \in Runs
    /\ (e.stage = "end") = (e.outcome # "none")

GateOK(e) ==
    /\ e.stage \in {"resolve", "open", "judge", "dispatch"} => Now(e).verdict # "NO_GO"
    /\ e.stage \in {"resolve", "open", "judge"} => NeedsHands(e)
    /\ e.stage = "gate" => ~e.approved
    /\ e.approved => NeedsHands(e)
    /\ e.stage \in {"resolve", "open"} /\ COMPETENT \in e.form => Now(e).footprint # <<>>

ViewOK(e, v) == e.stage = "judge" => request[At(e)] # NoRequest /\ v.decs \subseteq decisions

DispatchOK(e) ==
    e.stage = "dispatch" =>
        /\ NeedsHands(e) => Approved(At(e))
        /\ Now(e).verdict = "CONDITIONAL" \/ Tainted(e) => SignedOff(e)

ResultsOK(e) ==
    /\ e.stage \in Gating => Fatal(e) = {}
    /\ e.outcome = "done" => Fatal(e) = {} /\ Len(e.results) = Len(Plan)
    /\ e.outcome = "failed" => Fatal(e) = {Len(e.results)}
    /\ e.outcome = "held" => Fatal(e) = {} /\ Len(e.results) < Len(Plan)

ExecOK(e, v) == BoundsOK(e) /\ GateOK(e) /\ ViewOK(e, v) /\ DispatchOK(e) /\ ResultsOK(e)

TypesOK ==
    /\ own \in SUBSET Packs
    /\ exec \in [Runners -> Execution]
    /\ view \in [Runners -> [at : Nat, decs : SUBSET Decision, dels : SUBSET Grant]]
    /\ runlog \in [Runs -> Outcomes \cup {"none", "running"}]
    /\ dispatched \subseteq Dispatches

WInv ==
    /\ IInv
    /\ TypesOK
    /\ \A w \in Runners : ExecOK(exec[w], view[w])
    /\ DispatchedOnApproval
    /\ SignOffIsPerStep

-----------------------------------------------------------------------------
(* Approvals only accumulate.                                              *)

\* What a step may do to the chain under a running workflow.
Grows ==
    /\ \A r \in Requests : request[r] # NoRequest => request'[r] = request[r]
    /\ decisions \subseteq decisions'

LEMMA ApprovalGrows ==
    ASSUME IInv, [ApprovalNext]_approvalVars PROVE Grows
<1>1. CASE RegistryStep
  BY <1>1 DEF RegistryStep, Register, SetStatus, Change, chain, Grows
<1>2. CASE Tick
  BY <1>2 DEF Tick, chain, Grows
<1>3. CASE UNCHANGED approvalVars
  BY <1>3 DEF approvalVars, Grows
<1>4. ASSUME NEW c \in Callers, CallStep(c) PROVE Grows
  <2>1. CASE \E o \in Requests, spec \in RequestSpecs : RequestApproval(c, o, spec)
    BY <2>1 DEF RequestApproval, Opened, IInv, TypeOK, Grows
  <2>2. CASE AppendDecision(c)
    BY <2>2 DEF AppendDecision, Grows
  <2>3. CASE AppendDelegation(c) \/ RecordElapsed(c) \/ Die(c)
    BY <2>3 DEF AppendDelegation, RecordElapsed, Die, chain, Grows
  <2>4. CASE LookForRecord(c) \/ JudgeEffect(c)
    BY <2>4 DEF LookForRecord, JudgeEffect, chain, Grows
  <2>5. CASE \/ \E o \in Requests, p \in Parties, choice \in {"approve", "deny"} :
                  DecideApproval(c, o, p, choice)
             \/ \E p, q \in Parties, comp \in Competences : DelegateCompetence(c, p, q, comp)
             \/ \E o \in Requests : EffectApproval(c, o)
    BY <2>5 DEF DecideApproval, DelegateCompetence, EffectApproval, chain, Grows
  <2> QED
    BY <1>4, <2>1, <2>2, <2>3, <2>4, <2>5 DEF CallStep
<1> QED
  BY <1>1, <1>2, <1>3, <1>4 DEF ApprovalNext

LEMMA ApprovedStays ==
    ASSUME IInv, IInv', Grows, NEW r \in Requests, Approved(r) PROVE Approved(r)'
<1>1. request'[r] = request[r] /\ request[r] # NoRequest /\ request[r] \in Request
  BY DeadlineNat DEF Approved, Grows, IInv
<1>2. ApprovedInTime(r) \subseteq ApprovedInTime(r)'
  BY <1>1 DEF ApprovedInTime, Grows, Deadline
<1>3. ApprovedInTime(r)' \subseteq Parties
  BY DEF ApprovedInTime
<1>4. IsFiniteSet(ApprovedInTime(r)')
  BY <1>3, FS_Subset, WorkflowConstants
<1>5. /\ Cardinality(ApprovedInTime(r)) <= Cardinality(ApprovedInTime(r)')
      /\ Cardinality(ApprovedInTime(r)) \in Nat /\ Cardinality(ApprovedInTime(r)') \in Nat
  BY <1>2, <1>4, FS_Subset, FS_CardinalityType
<1>6. Needed(request[r]) \in Nat /\ Needed(request[r])' = Needed(request[r])
  BY <1>1 DEF Needed, HandsOf, Request
<1> QED
  BY <1>1, <1>5, <1>6 DEF Approved

LEMMA ExecStays ==
    ASSUME IInv, IInv', Grows, NEW e \in Execution, NEW v, ExecOK(e, v)
    PROVE  ExecOK(e, v)'
<1>1. e.stage \in Gating => At(e) \in Requests
  BY WorkflowConstants DEF ExecOK, BoundsOK, At, Steps, Execution, Gating
<1>2. ViewOK(e, v)'
  BY <1>1 DEF ExecOK, ViewOK, Grows, Gating, At
<1>3. DispatchOK(e)'
  <2>1. e.stage = "dispatch" /\ NeedsHands(e) => Approved(At(e))'
    BY <1>1, ApprovedStays DEF ExecOK, DispatchOK, Gating
  <2> QED
    BY <2>1 DEF ExecOK, DispatchOK, NeedsHands, Now, At, Tainted, SignedOff
<1> QED
  BY <1>2, <1>3 DEF ExecOK, BoundsOK, GateOK, ResultsOK, NeedsHands, Now, At, Fatal

-----------------------------------------------------------------------------
(* What becomes of an execution.                                           *)

\* An execution in the middle of a step, nothing fatal behind it.
Midway(e) ==
    /\ e \in Execution /\ e.stage \in Gating
    /\ Len(e.results) < Len(Plan) /\ e.run \in Runs /\ Fatal(e) = {}

LEMMA PlanIsSeq == Len(Plan) \in Nat /\ Steps = 1..Len(Plan)
BY WorkflowConstants DEF Steps

LEMMA NowIsAStep ==
    ASSUME NEW e \in Execution, Len(e.results) < Len(Plan)
    PROVE  At(e) \in Steps /\ At(e) \in 1..Len(Plan) /\ Now(e) \in PlanStep
<1>1. At(e) \in 1..Len(Plan)
  BY PlanIsSeq DEF Execution, At
<1> QED
  BY <1>1, PlanIsSeq, WorkflowConstants DEF Now

LEMMA FinishedOK ==
    ASSUME NEW e, Midway(e), NEW result \in Results
    PROVE  Finished(e, result) \in Execution /\ \A v : ExecOK(Finished(e, result), v)
<1> DEFINE f == Finished(e, result)
<1> DEFINE stop == result \in {"failed", "blocked"} /\ Now(e).onFailure # "continue"
<1> DEFINE over == stop \/ At(e) = Len(Plan)
<1>1. /\ e \in Execution /\ e.results \in Seq(Results) /\ Len(e.results) \in Nat
      /\ Len(e.results) < Len(Plan) /\ e.run \in Runs /\ Fatal(e) = {} /\ Len(Plan) \in Nat
  BY PlanIsSeq DEF Midway, Execution
<1>2. f = [stage |-> IF over THEN "end" ELSE "gate", run |-> e.run, signed |-> e.signed,
           results |-> Append(e.results, result), form |-> {}, approved |-> FALSE, tries |-> 0,
           outcome |-> IF stop THEN "failed" ELSE IF over THEN "done" ELSE "none"]
  <2>1. f = [e EXCEPT !.results = Append(e.results, result), !.form = {}, !.approved = FALSE,
                      !.tries = 0, !.stage = IF over THEN "end" ELSE "gate",
                      !.outcome = IF stop THEN "failed" ELSE IF over THEN "done" ELSE "none"]
    BY DEF Finished
  <2> HIDE DEF f, stop, over
  <2> QED
    BY <1>1, <2>1 DEF Execution
<1>3. /\ f.results \in Seq(Results) /\ Len(f.results) = Len(e.results) + 1
      /\ \A i \in 1..Len(e.results) : f.results[i] = e.results[i]
      /\ f.results[Len(e.results) + 1] = result
  BY <1>1, <1>2
<1>4. f \in Execution
  BY <1>1, <1>2, <1>3 DEF Execution, Gating, Outcomes
<1>5. At(e) = Len(e.results) + 1 /\ Now(e) = Plan[Len(e.results) + 1]
  BY DEF At, Now
<1>6. Fatal(f) = IF stop THEN {Len(f.results)} ELSE {}
  <2>1. DOMAIN f.results = 1..(Len(e.results) + 1) /\ DOMAIN e.results = 1..Len(e.results)
    BY <1>1, <1>3
  <2>2. \A i \in 1..Len(e.results) :
          ~(e.results[i] \in {"failed", "blocked"} /\ Plan[i].onFailure # "continue")
    BY <1>1, <2>1 DEF Fatal
  <2>3. \A i \in 1..(Len(e.results) + 1) :
          i \in 1..Len(e.results) \/ i = Len(e.results) + 1
    BY <1>1
  <2>4. Len(e.results) + 1 \in DOMAIN f.results
    BY <1>1, <2>1
  <2> QED
    BY <1>3, <1>5, <2>1, <2>2, <2>3, <2>4 DEF Fatal
<1>7. /\ f.stage = (IF over THEN "end" ELSE "gate") /\ f.run = e.run
      /\ f.form = {} /\ f.approved = FALSE
      /\ f.outcome = (IF stop THEN "failed" ELSE IF over THEN "done" ELSE "none")
  BY <1>2
<1> HIDE DEF f, stop
<1>8. BoundsOK(f)
  BY <1>1, <1>3, <1>5, <1>7 DEF BoundsOK, Gating
<1>9. GateOK(f) /\ DispatchOK(f) /\ \A v : ViewOK(f, v)
  BY <1>7 DEF GateOK, DispatchOK, ViewOK
<1>10. ResultsOK(f)
  BY <1>1, <1>3, <1>5, <1>6, <1>7 DEF ResultsOK, Gating
<1> QED
  BY <1>4, <1>8, <1>9, <1>10 DEF ExecOK, f

\* On to another stage of the same step.
LEMMA StageOK ==
    ASSUME NEW e, Midway(e), NEW stage \in Gating, e.outcome = "none", NEW v,
           GateOK(To(e, stage)), ViewOK(To(e, stage), v), DispatchOK(To(e, stage))
    PROVE  To(e, stage) \in Execution /\ ExecOK(To(e, stage), v)
<1> DEFINE f == To(e, stage)
<1>1. f = [e EXCEPT !.stage = stage] /\ e \in Execution
  BY DEF To, Midway
<1>2. f \in Execution /\ f.stage = stage
  BY <1>1 DEF Execution
<1>3. /\ f.run = e.run /\ f.results = e.results /\ f.outcome = e.outcome
  BY <1>1 DEF Execution
<1>4. Fatal(f) = {}
  BY <1>3 DEF Midway, Fatal
<1> HIDE DEF f
<1>5. BoundsOK(f)
  <2>1. Len(e.results) \in Nat /\ Len(Plan) \in Nat /\ Len(e.results) < Len(Plan)
    BY PlanIsSeq DEF Midway, Execution
  <2> QED
    BY <1>2, <1>3, <2>1 DEF BoundsOK, Midway, Gating
<1>6. ResultsOK(f)
  BY <1>2, <1>3, <1>4 DEF ResultsOK
<1> QED
  BY <1>2, <1>5, <1>6 DEF ExecOK, f

LEMMA HeldOKs ==
    ASSUME NEW e, Midway(e), e.approved => NeedsHands(e)
    PROVE  Held(e) \in Execution /\ \A v : ExecOK(Held(e), v)
<1> DEFINE f == Held(e)
<1>1. f = [e EXCEPT !.stage = "end", !.outcome = "held"] /\ e \in Execution
  BY DEF Held, Midway
<1>2. f \in Execution /\ f.stage = "end" /\ f.outcome = "held"
  BY <1>1 DEF Execution, Outcomes
<1>3. f.run = e.run /\ f.results = e.results /\ f.form = e.form /\ f.approved = e.approved
  BY <1>1 DEF Execution
<1>4. Fatal(f) = {}
  BY <1>3 DEF Midway, Fatal
<1> HIDE DEF f
<1>5. BoundsOK(f)
  <2>1. Len(e.results) \in Nat /\ Len(Plan) \in Nat /\ Len(e.results) < Len(Plan)
    BY PlanIsSeq DEF Midway, Execution
  <2> QED
    BY <1>2, <1>3, <2>1 DEF BoundsOK, Midway, Gating
<1>6. GateOK(f) /\ DispatchOK(f) /\ \A v : ViewOK(f, v)
  BY <1>2, <1>3 DEF GateOK, DispatchOK, ViewOK, NeedsHands
<1>7. ResultsOK(f)
  BY <1>2, <1>3, <1>4 DEF ResultsOK, Gating, Midway
<1> QED
  BY <1>2, <1>5, <1>6, <1>7 DEF ExecOK, f

LEMMA ToKeeps ==
    ASSUME NEW e \in Execution, NEW stage
    PROVE  /\ To(e, stage).stage = stage
           /\ To(e, stage).results = e.results /\ To(e, stage).form = e.form
           /\ To(e, stage).approved = e.approved /\ To(e, stage).signed = e.signed
           /\ At(To(e, stage)) = At(e) /\ Now(To(e, stage)) = Now(e)
           /\ Tainted(To(e, stage)) = Tainted(e) /\ NeedsHands(To(e, stage)) = NeedsHands(e)
           /\ SignedOff(To(e, stage)) = SignedOff(e)
<1>1. /\ To(e, stage).stage = stage
      /\ To(e, stage).results = e.results /\ To(e, stage).form = e.form
      /\ To(e, stage).approved = e.approved /\ To(e, stage).signed = e.signed
  BY DEF To, Execution
<1> QED
  BY <1>1 DEF At, Now, Tainted, NeedsHands, SignedOff

\* Past the form gate.
LEMMA ProceedOK ==
    ASSUME NEW e, Midway(e), e.outcome = "none", Now(e).verdict # "NO_GO",
           e.approved => NeedsHands(e), NeedsHands(e) => Approved(At(e))
    PROVE  Proceed(e) \in Execution /\ \A v : ExecOK(Proceed(e), v)
<1>1. CASE (Now(e).verdict = "CONDITIONAL" \/ Tainted(e)) /\ ~SignedOff(e)
  BY <1>1, HeldOKs DEF Proceed
<1>2. CASE ~((Now(e).verdict = "CONDITIONAL" \/ Tainted(e)) /\ ~SignedOff(e))
  <2> DEFINE f == To(e, "dispatch")
  <2>1. Proceed(e) = f
    BY <1>2 DEF Proceed
  <2>2. /\ f.stage = "dispatch" /\ f.approved = e.approved
        /\ At(f) = At(e) /\ Now(f) = Now(e) /\ Tainted(f) = Tainted(e)
        /\ NeedsHands(f) = NeedsHands(e) /\ SignedOff(f) = SignedOff(e)
    BY ToKeeps DEF Midway
  <2> HIDE DEF f
  <2>3. GateOK(f) /\ DispatchOK(f) /\ \A v : ViewOK(f, v)
    BY <1>2, <2>2 DEF GateOK, DispatchOK, ViewOK
  <2>4. \A v : f \in Execution /\ ExecOK(f, v)
    BY <2>3, StageOK DEF Gating, f
  <2> QED
    BY <2>1, <2>4
<1> QED
  BY <1>1, <1>2

-----------------------------------------------------------------------------
(* The steps.                                                              *)

\* One runner moves; the others and the chain stay.
LEMMA MoveRunner ==
    ASSUME WInv, NEW w \in Runners, NEW f \in Execution,
           NEW v \in [at : Nat, decs : SUBSET Decision, dels : SUBSET Grant],
           exec' = [exec EXCEPT ![w] = f], view' = [view EXCEPT ![w] = v],
           ExecOK(f, v), IInv', Grows, own' = own,
           runlog' \in [Runs -> Outcomes \cup {"none", "running"}],
           dispatched' \subseteq Dispatches, DispatchedOnApproval', SignOffIsPerStep'
    PROVE  WInv'
<1>1. TypesOK'
  BY DEF WInv, TypesOK
<1>2. ASSUME NEW u \in Runners PROVE ExecOK(exec[u], view[u])'
  <2>1. CASE u = w
    <3>1. exec'[u] = f /\ view'[u] = v
      BY <2>1 DEF WInv, TypesOK
    <3>2. ExecOK(f, v)'
      BY ExecStays DEF WInv
    <3> QED
      BY <3>1, <3>2
  <2>2. CASE u # w
    <3>1. exec'[u] = exec[u] /\ view'[u] = view[u] /\ exec[u] \in Execution
      BY <2>2 DEF WInv, TypesOK
    <3> DEFINE e == exec[u]
    <3> DEFINE x == view[u]
    <3>2. \A g \in Execution : \A y : ExecOK(g, y) => ExecOK(g, y)'
      BY ExecStays DEF WInv
    <3> QED
      BY <3>1, <3>2 DEF WInv
  <2> QED
    BY <2>1, <2>2
<1> QED
  BY <1>1, <1>2 DEF WInv

LEMMA DispatchedStays ==
    ASSUME WInv, IInv', Grows, dispatched' = dispatched
    PROVE  DispatchedOnApproval' /\ SignOffIsPerStep'
<1>1. ASSUME NEW d \in dispatched, d.form \cap Hands # {} PROVE Approved(d.step)'
  <2>1. d.step \in Requests
    BY WorkflowConstants DEF WInv, TypesOK, Dispatches
  <2>2. Approved(d.step)
    BY <1>1 DEF WInv, DispatchedOnApproval, Approved
  <2> QED
    BY <2>1, <2>2, ApprovedStays DEF WInv
<1>2. DispatchedOnApproval'
  BY <1>1 DEF DispatchedOnApproval, Approved
<1>3. SignOffIsPerStep'
  BY DEF WInv, SignOffIsPerStep
<1> QED
  BY <1>2, <1>3

\* A runner moves while the chain and the dispatches stay as they are.
LEMMA QuietMove ==
    ASSUME WInv, NEW w \in Runners, NEW f \in Execution,
           NEW v \in [at : Nat, decs : SUBSET Decision, dels : SUBSET Grant],
           exec' = [exec EXCEPT ![w] = f], view' = [view EXCEPT ![w] = v], ExecOK(f, v),
           UNCHANGED <<approvalVars, own, dispatched>>,
           runlog' \in [Runs -> Outcomes \cup {"none", "running"}]
    PROVE  WInv'
<1>1. IInv' /\ Grows
  BY StutterInv, ApprovalGrows DEF WInv
<1>2. DispatchedOnApproval' /\ SignOffIsPerStep'
  BY <1>1, DispatchedStays
<1>3. dispatched' \subseteq Dispatches
  BY DEF WInv, TypesOK
<1> QED
  BY <1>1, <1>2, <1>3, MoveRunner

LEMMA MovesInv ==
    ASSUME WInv, NEW w \in Runners, NEW f \in Execution, \A v : ExecOK(f, v), Moves(w, f)
    PROVE  WInv'
<1> DEFINE v == view[w]
<1>1. /\ exec' = [exec EXCEPT ![w] = f] /\ view' = view
      /\ UNCHANGED <<approvalVars, own, dispatched, runlog>>
  BY DEF Moves
<1>2. v \in [at : Nat, decs : SUBSET Decision, dels : SUBSET Grant]
  BY DEF WInv, TypesOK
<1>3. view' = [view EXCEPT ![w] = v]
  BY <1>1 DEF WInv, TypesOK
<1>4. runlog' \in [Runs -> Outcomes \cup {"none", "running"}]
  BY <1>1 DEF WInv, TypesOK
<1> HIDE DEF v
<1> QED
  BY <1>1, <1>2, <1>3, <1>4, QuietMove

LEMMA GatingIsMidway ==
    ASSUME WInv, NEW w \in Runners, exec[w].stage \in Gating
    PROVE  Midway(exec[w]) /\ exec[w].outcome = "none"
BY DEF WInv, TypesOK, ExecOK, BoundsOK, ResultsOK, Midway, Execution, Gating

LEMMA BlockStepInv ==
    ASSUME WInv, NEW w \in Runners, BlockStep(w) PROVE WInv'
<1>1. exec[w].stage \in Gating /\ Moves(w, Finished(exec[w], "blocked"))
  BY DEF BlockStep, Gating
<1>2. /\ Finished(exec[w], "blocked") \in Execution
      /\ \A v : ExecOK(Finished(exec[w], "blocked"), v)
  BY <1>1, GatingIsMidway, FinishedOK DEF Results
<1> QED
  BY <1>1, <1>2, MovesInv

\* The packs demand a form, and a competent approver only of a step with a tag.
LEMMA DemandedIsAForm ==
    ASSUME WInv, NEW step \in PlanStep
    PROVE  /\ Demanded(step) \in SUBSET Guarantees
           /\ COMPETENT \in Demanded(step) => step.footprint # <<>>
<1> DEFINE matching == {c \in UNION FolderPacks :
                          \E k \in DOMAIN step.footprint : step.footprint[k] = c[1]}
<1> DEFINE forms == {c[2] : c \in matching}
<1>1. Demanded(step) = ComposeAll(forms)
  BY DEF Demanded
<1>2. UNION FolderPacks \subseteq Competences \X SUBSET Guarantees
  BY WorkflowConstants DEF WInv, TypesOK, FolderPacks, Packs
<1>3. forms \subseteq SUBSET Guarantees
  BY <1>2
<1>4. Block \subseteq Guarantees /\ COMPETENT \notin Block
  BY DEF Block, Guarantees, COMPETENT, BLOCKED
<1>5. Demanded(step) \in SUBSET Guarantees
  BY <1>1, <1>3, <1>4 DEF ComposeAll
<1>6. ASSUME COMPETENT \in Demanded(step) PROVE step.footprint # <<>>
  <2>1. COMPETENT \in UNION forms
    BY <1>1, <1>4, <1>6 DEF ComposeAll
  <2>2. PICK k \in DOMAIN step.footprint : TRUE
    BY <2>1
  <2> QED
    BY <2>2 DEF PlanStep
<1> QED
  BY <1>5, <1>6

LEMMA GateStepInv ==
    ASSUME WInv, NEW w \in Runners, GateStep(w) PROVE WInv'
<1> DEFINE old == exec[w]
<1> DEFINE form == Demanded(Now(old))
<1> DEFINE e == [old EXCEPT !.form = form]
<1>1. /\ old.stage = "gate" /\ Now(old).verdict # "NO_GO"
      /\ Moves(w, IF form \cap Hands # {} THEN To(e, "resolve") ELSE Proceed(e))
  BY DEF GateStep
<1>2. Midway(old) /\ old.outcome = "none" /\ old \in Execution
  BY <1>1, GatingIsMidway DEF Gating, Midway
<1>3. Now(old) \in PlanStep
  BY <1>2, NowIsAStep DEF Midway
<1>4. form \in SUBSET Guarantees /\ (COMPETENT \in form => Now(old).footprint # <<>>)
  BY <1>3, DemandedIsAForm
<1>5. ~old.approved
  BY <1>1 DEF WInv, ExecOK, GateOK
<1>6. /\ e \in Execution /\ e.stage = "gate" /\ e.results = old.results /\ e.form = form
      /\ e.run = old.run /\ e.outcome = "none" /\ e.approved = old.approved
  <2> HIDE DEF form, old
  <2> QED
    BY <1>1, <1>2, <1>4 DEF Execution
<1>7. At(e) = At(old) /\ Now(e) = Now(old) /\ Midway(e)
  BY <1>2, <1>6 DEF At, Now, Midway, Fatal
<1> HIDE DEF e, form, old
<1>8. CASE form \cap Hands # {}
  <2> DEFINE f == To(e, "resolve")
  <2>1. /\ f.stage = "resolve" /\ f.approved = e.approved /\ f.form = e.form
        /\ Now(f) = Now(e) /\ NeedsHands(f) = NeedsHands(e)
    BY <1>6, ToKeeps
  <2> HIDE DEF f
  <2>2. GateOK(f) /\ DispatchOK(f) /\ \A v : ViewOK(f, v)
    BY <1>1, <1>4, <1>5, <1>6, <1>7, <1>8, <2>1 DEF GateOK, DispatchOK, ViewOK, NeedsHands
  <2>3. \A v : f \in Execution /\ ExecOK(f, v)
    BY <1>6, <1>7, <2>2, StageOK DEF Gating, f
  <2>4. Moves(w, f)
    BY <1>1, <1>8 DEF f
  <2> QED
    BY <2>3, <2>4, MovesInv
<1>9. CASE ~(form \cap Hands # {})
  <2>1. ~NeedsHands(e)
    BY <1>6, <1>9 DEF NeedsHands
  <2>2. ~e.approved
    BY <1>5, <1>6
  <2>3. Proceed(e) \in Execution /\ \A v : ExecOK(Proceed(e), v)
    BY <1>1, <1>6, <1>7, <2>1, <2>2, ProceedOK
  <2> QED
    BY <1>1, <1>9, <2>3, MovesInv
<1> QED
  BY <1>8, <1>9

LEMMA ReplayChainInv ==
    ASSUME WInv, NEW w \in Runners, ReplayChain(w) PROVE WInv'
<1> DEFINE e == exec[w]
<1>1. e.stage = "resolve" /\ UNCHANGED <<approvalVars, own, runlog, dispatched>>
  BY DEF ReplayChain
<1>2. Midway(e) /\ e.outcome = "none" /\ e \in Execution
  BY <1>1, GatingIsMidway DEF Gating, Midway
<1>3. GateOK(e)
  BY DEF WInv, ExecOK
<1>4. runlog' \in [Runs -> Outcomes \cup {"none", "running"}]
  BY <1>1 DEF WInv, TypesOK
<1>5. CASE request[At(e)] = NoRequest
  <2> DEFINE f == To(e, "open")
  <2> DEFINE v == view[w]
  <2>1. exec' = [exec EXCEPT ![w] = f] /\ view' = view
    BY <1>5 DEF ReplayChain
  <2>2. /\ f.stage = "open" /\ f.approved = e.approved /\ f.form = e.form
        /\ Now(f) = Now(e) /\ NeedsHands(f) = NeedsHands(e)
    BY <1>2, ToKeeps
  <2>3. v \in [at : Nat, decs : SUBSET Decision, dels : SUBSET Grant]
        /\ view' = [view EXCEPT ![w] = v]
    BY <2>1 DEF WInv, TypesOK
  <2> HIDE DEF f, v, e
  <2>4. GateOK(f) /\ DispatchOK(f) /\ ViewOK(f, v)
    BY <1>1, <1>3, <2>2 DEF GateOK, DispatchOK, ViewOK
  <2>5. f \in Execution /\ ExecOK(f, v)
    BY <1>2, <2>4, StageOK DEF Gating, f
  <2> QED
    BY <1>1, <1>4, <2>1, <2>3, <2>5, QuietMove
<1>6. CASE request[At(e)] # NoRequest
  <2> DEFINE f == To(e, "judge")
  <2> DEFINE v == [at |-> clock, decs |-> decisions, dels |-> delegations]
  <2>1. exec' = [exec EXCEPT ![w] = f] /\ view' = [view EXCEPT ![w] = v]
    BY <1>6 DEF ReplayChain
  <2>2. /\ f.stage = "judge" /\ f.approved = e.approved /\ f.form = e.form
        /\ Now(f) = Now(e) /\ NeedsHands(f) = NeedsHands(e) /\ At(f) = At(e)
    BY <1>2, ToKeeps
  <2>3. v \in [at : Nat, decs : SUBSET Decision, dels : SUBSET Grant] /\ v.decs = decisions
    BY DEF WInv, IInv, TypeOK
  <2> HIDE DEF f, v, e
  <2>4. GateOK(f) /\ DispatchOK(f) /\ ViewOK(f, v)
    BY <1>1, <1>3, <1>6, <2>2, <2>3 DEF GateOK, DispatchOK, ViewOK
  <2>5. f \in Execution /\ ExecOK(f, v)
    BY <1>2, <2>4, StageOK DEF Gating, f
  <2> QED
    BY <1>1, <1>4, <2>1, <2>3, <2>5, QuietMove
<1> QED
  BY <1>5, <1>6

LEMMA OpenRequestInv ==
    ASSUME WInv, NEW w \in Runners, OpenRequest(w) PROVE WInv'
<1> DEFINE e == exec[w]
<1> DEFINE f == To(e, "resolve")
<1> DEFINE v == view[w]
<1> DEFINE q == [form |-> e.form, quorum |-> 0,
                 comps |-> IF COMPETENT \in e.form THEN {Now(e).footprint[1]} ELSE {},
                 onElapse |-> "halt", requester |-> Actor[w], timeout |-> ApprovalTimeout,
                 at |-> clock]
<1>1. /\ e.stage = "open" /\ request' = Opened(At(e), q)
      /\ exec' = [exec EXCEPT ![w] = f] /\ view' = view
      /\ UNCHANGED <<party, decisions, delegations, elapsed, clock, call, held, told, changes>>
      /\ UNCHANGED <<own, runlog, dispatched>>
  BY DEF OpenRequest
<1>2. Midway(e) /\ e.outcome = "none" /\ e \in Execution /\ GateOK(e)
  BY <1>1, GatingIsMidway DEF Gating, Midway, WInv, ExecOK
<1>3. At(e) \in Requests /\ Now(e) \in PlanStep
  BY <1>2, NowIsAStep, WorkflowConstants DEF Midway
<1>4. COMPETENT \in e.form => Now(e).footprint[1] \in Competences
  <2> SUFFICES ASSUME COMPETENT \in e.form PROVE Now(e).footprint[1] \in Competences
    OBVIOUS
  <2>1. Now(e).footprint # <<>>
    BY <1>1, <1>2 DEF GateOK
  <2> QED
    BY <1>3, <2>1 DEF PlanStep
<1>5. q \in Request
  BY <1>2, <1>4, WorkflowConstants DEF Request, Execution, WInv, IInv, TypeOK
<1>6. IInv' /\ Grows
  BY <1>1, <1>3, <1>5, OpenedInv DEF WInv, Grows
<1>7. DispatchedOnApproval' /\ SignOffIsPerStep' /\ dispatched' \subseteq Dispatches
  BY <1>1, <1>6, DispatchedStays DEF WInv, TypesOK
<1>8. /\ v \in [at : Nat, decs : SUBSET Decision, dels : SUBSET Grant]
      /\ view' = [view EXCEPT ![w] = v]
      /\ runlog' \in [Runs -> Outcomes \cup {"none", "running"}]
  BY <1>1 DEF WInv, TypesOK
<1>9. /\ f.stage = "resolve" /\ f.approved = e.approved /\ f.form = e.form
      /\ Now(f) = Now(e) /\ NeedsHands(f) = NeedsHands(e)
  BY <1>2, ToKeeps
<1> HIDE DEF f, v, e, q
<1>10. GateOK(f) /\ DispatchOK(f) /\ ViewOK(f, v)
  BY <1>1, <1>2, <1>9 DEF GateOK, DispatchOK, ViewOK
<1>11. f \in Execution /\ ExecOK(f, v)
  BY <1>2, <1>10, StageOK DEF Gating, f
<1> QED
  BY <1>1, <1>6, <1>7, <1>8, <1>11, MoveRunner

\* A grant of hands is as many people as the request needs, in time.
LEMMA GrantedIsApproved ==
    ASSUME IInv, NEW r \in Requests, request[r] # NoRequest, NEW t \in Nat,
           NEW decs \in SUBSET decisions, NEW dels,
           Resolve(r, request[r], t, decs, dels).state = "granted"
    PROVE  Approved(r)
<1> DEFINE q == request[r]
<1> DEFINE hands == Approvers(r, q, t, decs, dels)
<1>1. Deadline(q) \in Nat /\ q \in Request
  BY DeadlineNat DEF IInv
<1>2. q.onElapse = "proceed" \/ Cardinality(hands) >= Needed(q)
  BY DEF Resolve, Answer
<1>3. Cutoff(q, t) <= Deadline(q) /\ Cutoff(q, t) \in Nat
  BY <1>1 DEF Cutoff
<1>4. \A d \in decs : d.at \in Nat
  BY DEF IInv, TypeOK, Decision
<1>5. hands \subseteq ApprovedInTime(r)
  BY <1>1, <1>3, <1>4 DEF Approvers, Counts, ApprovedInTime
<1>6. IsFiniteSet(ApprovedInTime(r))
  <2>1. ApprovedInTime(r) \subseteq Parties
    BY DEF ApprovedInTime
  <2> QED
    BY <2>1, FS_Subset, WorkflowConstants
<1>7. /\ Cardinality(hands) <= Cardinality(ApprovedInTime(r))
      /\ Cardinality(hands) \in Nat /\ Cardinality(ApprovedInTime(r)) \in Nat
  BY <1>5, <1>6, FS_Subset, FS_CardinalityType
<1>8. Needed(q) \in Nat
  BY <1>1 DEF Needed, HandsOf, Request
<1> HIDE DEF hands
<1> QED
  BY <1>2, <1>7, <1>8 DEF Approved

LEMMA JudgeFormInv ==
    ASSUME WInv, NEW w \in Runners, JudgeForm(w) PROVE WInv'
<1> DEFINE e == exec[w]
<1> DEFINE a == [e EXCEPT !.approved = TRUE]
<1> DEFINE f == IF Verdict(w).state = "denied" THEN Finished(e, "blocked")
                ELSE IF Verdict(w).state = "pending" THEN Held(e) ELSE Proceed(a)
<1>1. /\ e.stage = "judge" /\ exec' = [exec EXCEPT ![w] = f]
      /\ view' = [view EXCEPT ![w] = NoView]
      /\ UNCHANGED <<approvalVars, own, runlog, dispatched>>
  BY DEF JudgeForm
<1>2. /\ Midway(e) /\ e.outcome = "none" /\ e \in Execution
      /\ GateOK(e) /\ ViewOK(e, view[w])
  BY <1>1, GatingIsMidway DEF Gating, Midway, WInv, ExecOK
<1>3. At(e) \in Requests
  BY <1>2, NowIsAStep, WorkflowConstants DEF Midway
<1>4. NeedsHands(e) /\ Now(e).verdict # "NO_GO" /\ request[At(e)] # NoRequest
  BY <1>1, <1>2 DEF GateOK, ViewOK
<1>5. f \in Execution /\ \A v : ExecOK(f, v)
  <2>1. CASE Verdict(w).state = "denied"
    <3>1. f = Finished(e, "blocked")
      BY <2>1
    <3> HIDE DEF f, e
    <3> QED
      BY <1>2, <3>1, FinishedOK DEF Results
  <2>2. CASE Verdict(w).state = "pending"
    <3>1. f = Held(e)
      BY <2>2
    <3> HIDE DEF f, e
    <3> QED
      BY <1>2, <1>4, <3>1, HeldOKs
  <2>3. CASE ~(Verdict(w).state \in {"denied", "pending"})
    <3>1. f = Proceed(a)
      BY <2>3
    <3>2. Verdict(w).state = "granted"
      BY <2>3 DEF Verdict, Resolve, Answer
    <3>3. view[w].at \in Nat /\ view[w].decs \in SUBSET decisions
      BY <1>1, <1>2 DEF WInv, TypesOK, ViewOK
    <3>4. Approved(At(e))
      BY <1>3, <1>4, <3>2, <3>3, GrantedIsApproved DEF Verdict, WInv
    <3>5. /\ a \in Execution /\ a.stage = "judge" /\ a.results = e.results /\ a.form = e.form
          /\ a.run = e.run /\ a.outcome = "none" /\ a.approved
      <4> HIDE DEF e
      <4> QED
        BY <1>1, <1>2 DEF Execution
    <3>6. At(a) = At(e) /\ Now(a) = Now(e) /\ Midway(a) /\ NeedsHands(a) = NeedsHands(e)
      BY <1>2, <3>5 DEF At, Now, Midway, Fatal, NeedsHands, Gating
    <3> HIDE DEF f, a, e
    <3> QED
      BY <1>4, <3>1, <3>4, <3>5, <3>6, ProceedOK
  <2> QED
    BY <2>1, <2>2, <2>3
<1>6. NoView \in [at : Nat, decs : SUBSET Decision, dels : SUBSET Grant]
  BY DEF NoView
<1>7. runlog' \in [Runs -> Outcomes \cup {"none", "running"}]
  BY <1>1 DEF WInv, TypesOK
<1> HIDE DEF f, e
<1> QED
  BY <1>1, <1>5, <1>6, <1>7, QuietMove

LEMMA DispatchInv ==
    ASSUME WInv, NEW w \in Runners, NEW result \in Outputs(exec[w]), Dispatch(w, result)
    PROVE  WInv'
<1> DEFINE e == exec[w]
<1> DEFINE again == [e EXCEPT !.tries = @ + 1]
<1> DEFINE f == IF result = "failed" /\ e.tries < Retries(e) THEN again ELSE Finished(e, result)
<1> DEFINE d == DispatchRecord(e)
<1> DEFINE v == view[w]
<1>1. /\ e.stage = "dispatch" /\ dispatched' = dispatched \cup {d}
      /\ exec' = [exec EXCEPT ![w] = f] /\ view' = view
      /\ UNCHANGED <<approvalVars, own, runlog>>
  BY DEF Dispatch
<1>2. /\ Midway(e) /\ e.outcome = "none" /\ e \in Execution /\ e.run \in Runs
      /\ BoundsOK(e) /\ GateOK(e) /\ DispatchOK(e) /\ ResultsOK(e)
  BY <1>1, GatingIsMidway DEF Gating, Midway, WInv, ExecOK
<1>3. result \in Results
  BY DEF Outputs, Results
<1>4. f \in Execution /\ \A y : ExecOK(f, y)
  <2>1. CASE result = "failed" /\ e.tries < Retries(e)
    <3>1. f = again
      BY <2>1
    <3>2. /\ again \in Execution /\ again.stage = e.stage /\ again.results = e.results
          /\ again.form = e.form /\ again.run = e.run /\ again.outcome = e.outcome
          /\ again.approved = e.approved /\ again.signed = e.signed
      <4> HIDE DEF e
      <4> QED
        BY <1>2 DEF Execution
    <3> HIDE DEF again, e
    <3>3. /\ At(again) = At(e) /\ Now(again) = Now(e) /\ Fatal(again) = Fatal(e)
          /\ Tainted(again) = Tainted(e) /\ SignedOff(again) = SignedOff(e)
          /\ NeedsHands(again) = NeedsHands(e)
      BY <3>2 DEF At, Now, Fatal, Tainted, SignedOff, NeedsHands
    <3>4. BoundsOK(again) /\ GateOK(again) /\ DispatchOK(again) /\ ResultsOK(again)
      BY <1>2, <3>2, <3>3 DEF BoundsOK, GateOK, DispatchOK, ResultsOK
    <3>5. \A y : ViewOK(again, y)
      BY <1>1, <3>2 DEF ViewOK
    <3> HIDE DEF f
    <3> QED
      BY <3>1, <3>2, <3>4, <3>5 DEF ExecOK
  <2>2. CASE ~(result = "failed" /\ e.tries < Retries(e))
    <3>1. f = Finished(e, result)
      BY <2>2
    <3> HIDE DEF f, e
    <3> QED
      BY <1>2, <1>3, <3>1, FinishedOK
  <2> QED
    BY <2>1, <2>2
<1>5. At(e) \in Steps /\ At(e) \in Requests
  BY <1>2, NowIsAStep, WorkflowConstants DEF Midway
<1>6. /\ d = [run |-> e.run, step |-> At(e), form |-> e.form, signed |-> At(e) \in e.signed,
              tainted |-> Tainted(e)]
      /\ d.step = At(e) /\ d.form = e.form /\ d.signed = (At(e) \in e.signed)
      /\ d.tainted = Tainted(e)
  BY DEF DispatchRecord
<1>7. d \in Dispatches
  BY <1>2, <1>5, <1>6 DEF Dispatches, Execution, Tainted
<1>8. IInv' /\ Grows
  BY <1>1, StutterInv, ApprovalGrows DEF WInv
<1>9. DispatchedOnApproval'
  <2> HIDE DEF d, e
  <2>1. ASSUME NEW x \in dispatched', x.form \cap Hands # {} PROVE Approved(x.step)'
    <3>1. CASE x = d
      <4>1. Approved(At(e))
        BY <1>1, <1>2, <1>6, <2>1, <3>1 DEF DispatchOK, NeedsHands
      <4>2. \A o \in Requests : Approved(o) => Approved(o)'
        BY <1>8, ApprovedStays DEF WInv
      <4>3. At(e) = x.step
        BY <1>6, <3>1
      <4> QED
        BY <1>5, <4>1, <4>2, <4>3
    <3>2. CASE x \in dispatched
      <4>1. x.step \in Requests
        BY <3>2, WorkflowConstants DEF WInv, TypesOK, Dispatches
      <4>2. Approved(x.step)
        BY <2>1, <3>2 DEF WInv, DispatchedOnApproval, Approved
      <4> QED
        BY <1>8, <4>1, <4>2, ApprovedStays DEF WInv
    <3> QED
      BY <1>1, <3>1, <3>2
  <2> QED
    BY <2>1 DEF DispatchedOnApproval, Approved
<1>10. SignOffIsPerStep'
  <2>1. /\ Plan[d.step].verdict # "NO_GO"
        /\ Plan[d.step].verdict = "CONDITIONAL" \/ d.tainted =>
             d.signed \/ d.form \cap Hands # {}
    <3> HIDE DEF d, e
    <3> QED
      BY <1>1, <1>2, <1>6 DEF GateOK, DispatchOK, SignedOff, NeedsHands, Now
  <2> HIDE DEF d
  <2> QED
    BY <1>1, <2>1 DEF WInv, SignOffIsPerStep
<1>11. /\ v \in [at : Nat, decs : SUBSET Decision, dels : SUBSET Grant]
       /\ view' = [view EXCEPT ![w] = v]
       /\ runlog' \in [Runs -> Outcomes \cup {"none", "running"}]
       /\ dispatched' \subseteq Dispatches
  BY <1>1, <1>7 DEF WInv, TypesOK
<1> HIDE DEF f, v, e, d
<1> QED
  BY <1>1, <1>4, <1>8, <1>9, <1>10, <1>11, MoveRunner

LEMMA RestingOK == Resting \in Execution /\ \A v : ExecOK(Resting, v)
<1>1. /\ Resting \in Execution /\ Resting.stage = "none" /\ Resting.outcome = "none"
      /\ Resting.results = <<>> /\ ~Resting.approved /\ Len(Resting.results) = 0
  BY DEF Resting, Execution
<1>2. Fatal(Resting) = {}
  BY <1>1 DEF Fatal
<1> QED
  BY <1>1, <1>2, PlanIsSeq DEF ExecOK, BoundsOK, GateOK, ViewOK, DispatchOK, ResultsOK, Gating

LEMMA StartRunInv ==
    ASSUME WInv, NEW w \in Runners, NEW run \in Runs, NEW signed \in Rationales,
           StartRun(w, run, signed)
    PROVE  WInv'
<1> DEFINE f == Started(run, signed)
<1> DEFINE v == view[w]
<1>1. /\ exec' = [exec EXCEPT ![w] = f] /\ view' = view
      /\ runlog' = [runlog EXCEPT ![run] = "running"]
      /\ UNCHANGED <<approvalVars, own, dispatched>>
  BY DEF StartRun
<1>2. /\ f.stage = "gate" /\ f.run = run /\ f.results = <<>> /\ ~f.approved
      /\ f.outcome = "none" /\ Len(f.results) = 0
  BY DEF Started
<1>3. f \in Execution
  <2>1. f = [stage |-> "gate", run |-> run, signed |-> signed, results |-> <<>>,
             form |-> {}, approved |-> FALSE, tries |-> 0, outcome |-> "none"]
    BY DEF Started
  <2>2. <<>> \in Seq(Results)
    OBVIOUS
  <2>3. signed \in SUBSET Steps
    BY WorkflowConstants
  <2> HIDE DEF f
  <2> QED
    BY <2>1, <2>2, <2>3 DEF Execution, Gating
<1>4. Len(Plan) > 0
  BY PlanIsSeq, WorkflowConstants
<1> QED
  <2>1. Fatal(f) = {}
    BY <1>2 DEF Fatal
  <2> HIDE DEF f
  <2>2. \A y : ExecOK(f, y)
    BY <1>2, <1>4, <2>1, PlanIsSeq
       DEF ExecOK, BoundsOK, GateOK, ViewOK, DispatchOK, ResultsOK, Gating
  <2>3. /\ v \in [at : Nat, decs : SUBSET Decision, dels : SUBSET Grant]
        /\ view' = [view EXCEPT ![w] = v]
        /\ runlog' \in [Runs -> Outcomes \cup {"none", "running"}]
    BY <1>1 DEF WInv, TypesOK
  <2> HIDE DEF v
  <2> QED
    BY <1>1, <1>3, <2>2, <2>3, QuietMove

LEMMA EndRunInv ==
    ASSUME WInv, NEW w \in Runners, EndRun(w) PROVE WInv'
<1> DEFINE v == view[w]
<1>1. /\ exec[w].stage = "end" /\ exec' = [exec EXCEPT ![w] = Resting] /\ view' = view
      /\ runlog' = [runlog EXCEPT ![exec[w].run] = exec[w].outcome]
      /\ UNCHANGED <<approvalVars, own, dispatched>>
  BY DEF EndRun
<1>2. exec[w].outcome \in Outcomes
  BY <1>1 DEF WInv, TypesOK, ExecOK, BoundsOK, Execution
<1>3. /\ v \in [at : Nat, decs : SUBSET Decision, dels : SUBSET Grant]
      /\ view' = [view EXCEPT ![w] = v]
      /\ runlog' \in [Runs -> Outcomes \cup {"none", "running"}]
  BY <1>1, <1>2 DEF WInv, TypesOK
<1> HIDE DEF v
<1> QED
  BY <1>1, <1>3, RestingOK, QuietMove

LEMMA RunnerDiesInv ==
    ASSUME WInv, NEW w \in Runners, RunnerDies(w) PROVE WInv'
<1>1. /\ exec' = [exec EXCEPT ![w] = Resting] /\ view' = [view EXCEPT ![w] = NoView]
      /\ UNCHANGED <<approvalVars, own, dispatched, runlog>>
  BY DEF RunnerDies
<1>2. /\ NoView \in [at : Nat, decs : SUBSET Decision, dels : SUBSET Grant]
      /\ runlog' \in [Runs -> Outcomes \cup {"none", "running"}]
  BY <1>1 DEF NoView, WInv, TypesOK
<1> QED
  BY <1>1, <1>2, RestingOK, QuietMove

\* The chain grows or the folder declares packs, while the runners stay.
LEMMA BesidesInv ==
    ASSUME WInv, IInv', Grows, own' \in SUBSET Packs,
           UNCHANGED <<exec, view, runlog, dispatched>>
    PROVE  WInv'
<1>1. \A g \in Execution : \A y : ExecOK(g, y) => ExecOK(g, y)'
  BY ExecStays DEF WInv
<1>2. \A w \in Runners : ExecOK(exec[w], view[w])'
  BY <1>1 DEF WInv, TypesOK
<1>3. DispatchedOnApproval' /\ SignOffIsPerStep'
  BY DispatchedStays
<1>4. TypesOK'
  BY DEF WInv, TypesOK
<1> QED
  BY <1>2, <1>3, <1>4 DEF WInv

LEMMA SetFolderPacksInv ==
    ASSUME WInv, NEW stack \in Declarations, SetFolderPacks(stack) PROVE WInv'
<1>1. IInv' /\ Grows
  BY StutterInv, ApprovalGrows DEF WInv, SetFolderPacks
<1>2. own' \in SUBSET Packs
  BY WorkflowConstants DEF SetFolderPacks
<1> QED
  BY <1>1, <1>2, BesidesInv DEF SetFolderPacks

LEMMA ApprovalBesideInv ==
    ASSUME WInv, [ApprovalNext]_approvalVars, UNCHANGED workflowVars PROVE WInv'
<1>1. IInv' /\ Grows
  BY NextInv, StutterInv, ApprovalGrows DEF WInv
<1> QED
  BY <1>1, BesidesInv DEF workflowVars, WInv, TypesOK

LEMMA RunnerStepInv ==
    ASSUME WInv, NEW w \in Runners, RunnerStep(w) PROVE WInv'
BY BlockStepInv, GateStepInv, ReplayChainInv, OpenRequestInv, JudgeFormInv, DispatchInv,
   EndRunInv DEF RunnerStep

THEOREM WorkflowInvariant == WorkflowSpec => []WInv
<1>1. WorkflowInit => WInv
  <2> SUFFICES ASSUME WorkflowInit PROVE WInv
    OBVIOUS
  <2>1. IInv
    BY InitInv DEF WorkflowInit
  <2>2. TypesOK
    BY RestingOK DEF WorkflowInit, TypesOK, NoView
  <2>3. \A w \in Runners : ExecOK(exec[w], view[w])
    BY RestingOK DEF WorkflowInit
  <2>4. DispatchedOnApproval /\ SignOffIsPerStep
    BY DEF WorkflowInit, DispatchedOnApproval, SignOffIsPerStep
  <2> QED
    BY <2>1, <2>2, <2>3, <2>4 DEF WInv
<1>2. WInv /\ [WorkflowNext]_vars => WInv'
  BY StartRunInv, RunnerStepInv, RunnerDiesInv, SetFolderPacksInv, ApprovalBesideInv
     DEF WorkflowNext, vars
<1> QED
  BY <1>1, <1>2, PTL DEF WorkflowSpec

-----------------------------------------------------------------------------
\* Every reachable state of the runners is well typed (run_workflow).
THEOREM WorkflowTypeCorrect == WorkflowSpec => []WorkflowTypeOK
<1>1. WInv => WorkflowTypeOK
  BY DEF WInv, TypesOK, ExecOK, BoundsOK, WorkflowTypeOK
<1> QED
  BY <1>1, WorkflowInvariant, PTL

\* A step under a form that needs hands runs only after enough different people
\* approved it in time (the form gate of run_workflow and resolve_approval).
THEOREM StepsRunOnApproval == WorkflowSpec => []DispatchedOnApproval
<1>1. WInv => DispatchedOnApproval
  BY DEF WInv
<1> QED
  BY <1>1, WorkflowInvariant, PTL

\* A sign-off is for one step, and a NO-GO step never runs (the action gate).
THEOREM SignOffsArePerStep == WorkflowSpec => []SignOffIsPerStep
<1>1. WInv => SignOffIsPerStep
  BY DEF WInv
<1> QED
  BY <1>1, WorkflowInvariant, PTL

\* The run-level event says what happened to the steps (the end of run_workflow).
THEOREM RunsEndAsTheirSteps == WorkflowSpec => []EndsAsItsSteps
<1>1. WInv => EndsAsItsSteps
  BY DEF WInv, ExecOK, ResultsOK, EndsAsItsSteps
<1> QED
  BY <1>1, WorkflowInvariant, PTL
=============================================================================
