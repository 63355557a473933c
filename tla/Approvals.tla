----------------------------- MODULE Approvals -----------------------------
(***************************************************************************)
(* Approval requests, decisions and delegations as events on a folder's    *)
(* chain (approvals.py).  Nothing is stored but the events: whether a      *)
(* request is granted is computed from the chain, the party registry and   *)
(* the clock each time somebody asks.                                      *)
(*                                                                         *)
(* A call takes the time first, reads the chain, and appends; other calls, *)
(* registry changes and the clock run in between.  Asking reads the events *)
(* in one replay and the parties in another.                               *)
(***************************************************************************)
EXTENDS Parties, ControlForms, FiniteSets

CONSTANTS
    Callers,        \* threads that execute approval calls
    CallerOps,      \* the calls each makes
    Requests,       \* request ids
    RequestSpecs,   \* [form, quorum, comps, onElapse, requester, timeout] callers may ask for
    FirstParties,   \* the registry before the first step
    Registrations,  \* <<party, kind, competences>> that may be registered later
    NoRequest,
    MaxChanges,     \* bound: registry changes
    MaxEvents,      \* bound: decisions and delegations
    Horizon         \* bound: the clock

ASSUME ApprovalConstants ==
    /\ Horizon \in Nat /\ MaxChanges \in Nat /\ MaxEvents \in Nat
    /\ FirstParties \in [Parties -> PartyRecord]
    /\ Registrations \subseteq Parties \X {"human", "agent"} \X SUBSET Competences
    /\ RequestSpecs \subseteq
         [form : SUBSET Guarantees, quorum : Nat, comps : SUBSET Competences,
          onElapse : {"halt", "proceed"}, requester : Parties, timeout : Nat \ {0}]

VARIABLES
    request,      \* the first ApprovalRequested of each id
    decisions,    \* ApprovalDecision events
    delegations,  \* CompetenceDelegated events
    elapsed,      \* number of ElapsedProceed events of each request
    clock,
    call,         \* what each caller is executing
    held,         \* history: <<party, competence>> some registration gave
    told,         \* history: requests whose effecter was told "elapsed-proceed"
    changes

chain        == <<request, decisions, delegations, elapsed>>
approvalVars == <<party, request, decisions, delegations, elapsed, clock, call, held, told,
                  changes>>

Idle == [stage |-> "idle"]

Request  == [form : SUBSET Guarantees, quorum : Nat, comps : SUBSET Competences,
             onElapse : {"halt", "proceed"}, requester : Parties, timeout : Nat, at : Nat]
Decision == [request : Requests, by : Parties, decision : {"approve", "deny"}, at : Nat]
Grant    == [comp : Competences, from : Parties, to : Parties, at : Nat]

Calls ==
    {Idle} \cup [stage : {"decide"}, event : Decision] \cup [stage : {"delegate"}, event : Grant]
    \cup [stage : {"judge"}, req : Requests, at : Nat, decs : SUBSET Decision, dels : SUBSET Grant]
    \cup [stage : {"look", "record"}, req : Requests]

TypeOK ==
    /\ party \in [Parties -> PartyRecord]
    /\ request \in [Requests -> Request \cup {NoRequest}]
    /\ decisions \subseteq Decision
    /\ delegations \subseteq Grant
    /\ elapsed \in [Requests -> Nat]
    /\ clock \in Nat
    /\ call \in [Callers -> Calls]
    /\ held \subseteq Parties \X Competences
    /\ told \subseteq Requests
    /\ changes \in 0..MaxChanges

HeldIn(reg) == {pc \in Parties \X Competences : pc[2] \in reg[pc[1]].comps}

ApprovalInit ==
    /\ party = FirstParties
    /\ request = [r \in Requests |-> NoRequest]
    /\ decisions = {} /\ delegations = {}
    /\ elapsed = [r \in Requests |-> 0]
    /\ clock = 0
    /\ call = [c \in Callers |-> Idle]
    /\ held = HeldIn(FirstParties)
    /\ told = {}
    /\ changes = 0

-----------------------------------------------------------------------------
(***************************************************************************)
(* resolve_approval: the answer at time t for the request q named r, from  *)
(* the events decs and dels and the registry as it is now.                 *)
(***************************************************************************)
Deadline(q)  == q.at + q.timeout
Cutoff(q, t) == IF t < Deadline(q) THEN t ELSE Deadline(q)

HoldsCompetence(p, comp, dels) ==
    comp \in party[p].comps \/ \E g \in dels : g.to = p /\ g.comp = comp

HoldsAny(p, comps, dels) == comps = {} \/ \E comp \in comps : HoldsCompetence(p, comp, dels)

\* Mutant: an approval counts whenever it was made, up to now.
Counts_NoCutoff(d, r, q, t) ==
    d.request = r /\ d.at <= t /\ ActiveHuman(d.by) /\ d.by # q.requester

\* A counting hand is an active human, not the requester, inside the deadline.
Counts(d, r, q, t) ==
    /\ d.request = r
    /\ d.at <= Cutoff(q, t)
    /\ ActiveHuman(d.by)
    /\ d.by # q.requester

Delegated(q, t, dels) == {g \in dels : g.at <= Cutoff(q, t)}

Approvers(r, q, t, decs, dels) ==
    {p \in Parties : \E d \in decs :
        /\ d.by = p /\ d.decision = "approve" /\ Counts(d, r, q, t)
        /\ HoldsAny(p, q.comps, Delegated(q, t, dels))}

Denied(r, q, t, decs) == \E d \in decs : d.decision = "deny" /\ Counts(d, r, q, t)

Needed(q) == IF q.quorum > 0 THEN q.quorum ELSE HandsOf(q.form)

Answer(state, reason, by) == [state |-> state, reason |-> reason, by |-> by]

\* Mutant: enough hands outweigh a denial.
Resolve_HandsFirst(r, q, t, decs, dels) ==
    LET approvers == Approvers(r, q, t, decs, dels) IN
    IF BLOCKED \in q.form THEN Answer("denied", "blocked", {})
    ELSE IF Cardinality(approvers) >= Needed(q) THEN Answer("granted", "hands", approvers)
    ELSE IF Denied(r, q, t, decs) THEN Answer("denied", "denied-by", {})
    ELSE IF t <= Deadline(q) THEN Answer("pending", "", approvers)
    ELSE IF q.onElapse = "proceed" THEN Answer("granted", "elapsed-proceed", approvers)
    ELSE Answer("denied", "timeout", {})

Resolve(r, q, t, decs, dels) ==
    LET approvers == Approvers(r, q, t, decs, dels) IN
    IF BLOCKED \in q.form THEN Answer("denied", "blocked", {})
    ELSE IF Denied(r, q, t, decs) THEN Answer("denied", "denied-by", {})
    ELSE IF Cardinality(approvers) >= Needed(q) THEN Answer("granted", "hands", approvers)
    ELSE IF t <= Deadline(q) THEN Answer("pending", "", approvers)
    ELSE IF q.onElapse = "proceed" THEN Answer("granted", "elapsed-proceed", approvers)
    ELSE Answer("denied", "timeout", {})

\* What a caller who asks at this moment is told.
ResolveNow(r) == Resolve(r, request[r], clock, decisions, delegations)

-----------------------------------------------------------------------------
(***************************************************************************)
(* The registry and the clock.                                             *)
(***************************************************************************)
Change ==
    /\ changes < MaxChanges
    /\ changes' = changes + 1
    /\ UNCHANGED <<chain, clock, call, told>>

Register(p, kind, comps) ==
    /\ Change
    /\ RegisterParty(p, kind, comps)
    /\ held' = held \cup {<<p, comp>> : comp \in comps}

SetStatus(p, s) ==
    /\ Change
    /\ SetPartyStatus(p, s)
    /\ UNCHANGED held

Tick ==
    /\ clock < Horizon
    /\ clock' = clock + 1
    /\ UNCHANGED <<party, chain, call, held, told, changes>>

-----------------------------------------------------------------------------
(***************************************************************************)
(* Calls that append events.                                               *)
(***************************************************************************)

Calling(c, op) == op \in CallerOps[c] /\ call[c] = Idle

\* Bound on the events of the model.
Room == Cardinality(decisions) + Cardinality(delegations) < MaxEvents

\* The first event of an id is the request; a later one is never looked at.
Opened(r, q) == IF request[r] = NoRequest THEN [request EXCEPT ![r] = q] ELSE request

Asking(spec, t) ==
    [form |-> spec.form, quorum |-> spec.quorum, comps |-> spec.comps,
     onElapse |-> spec.onElapse, requester |-> spec.requester, timeout |-> spec.timeout, at |-> t]

RequestApproval(c, r, spec) ==
    /\ Calling(c, "request")
    /\ request' = Opened(r, Asking(spec, clock))
    /\ UNCHANGED <<party, decisions, delegations, elapsed, clock, call, held, told, changes>>

\* Only the reading of the chain stands between the time and the append.
DecideApproval(c, r, p, choice) ==
    /\ Calling(c, "decide")
    /\ Room
    /\ request[r] # NoRequest
    /\ call' = [call EXCEPT ![c] = [stage |-> "decide",
                  event |-> [request |-> r, by |-> p, decision |-> choice, at |-> clock]]]
    /\ UNCHANGED <<party, chain, clock, held, told, changes>>

AppendDecision(c) ==
    /\ call[c].stage = "decide"
    /\ decisions' = decisions \cup {call[c].event}
    /\ call' = [call EXCEPT ![c] = Idle]
    /\ UNCHANGED <<party, request, delegations, elapsed, clock, held, told, changes>>

\* Mutant: what was delegated to a party it may delegate further.
DelegateCompetence_Passed(c, p, q, comp) ==
    /\ Calling(c, "delegate")
    /\ Room
    /\ ActiveHuman(p) /\ HoldsCompetence(p, comp, delegations)
    /\ party[q].kind = "human"
    /\ call' = [call EXCEPT ![c] = [stage |-> "delegate",
                  event |-> [comp |-> comp, from |-> p, to |-> q, at |-> clock]]]
    /\ UNCHANGED <<party, chain, clock, held, told, changes>>

\* A grant of what one has, to a registered human.
DelegateCompetence(c, p, q, comp) ==
    /\ Calling(c, "delegate")
    /\ Room
    /\ ActiveHuman(p) /\ comp \in party[p].comps
    /\ party[q].kind = "human"
    /\ call' = [call EXCEPT ![c] = [stage |-> "delegate",
                  event |-> [comp |-> comp, from |-> p, to |-> q, at |-> clock]]]
    /\ UNCHANGED <<party, chain, clock, held, told, changes>>

AppendDelegation(c) ==
    /\ call[c].stage = "delegate"
    /\ delegations' = delegations \cup {call[c].event}
    /\ call' = [call EXCEPT ![c] = Idle]
    /\ UNCHANGED <<party, request, decisions, elapsed, clock, held, told, changes>>

-----------------------------------------------------------------------------
(***************************************************************************)
(* effect_approval: resolve, and record a grant that no person gave.       *)
(***************************************************************************)
EffectApproval(c, r) ==
    /\ Calling(c, "effect")
    /\ request[r] # NoRequest
    /\ call' = [call EXCEPT ![c] = [stage |-> "judge", req |-> r, at |-> clock,
                                    decs |-> decisions, dels |-> delegations]]
    /\ UNCHANGED <<party, chain, clock, held, told, changes>>

JudgeEffect(c) ==
    /\ call[c].stage = "judge"
    /\ LET r == call[c].req IN
       call' = [call EXCEPT ![c] =
         IF Resolve(r, request[r], call[c].at, call[c].decs, call[c].dels).reason
              = "elapsed-proceed"
         THEN [stage |-> "look", req |-> r] ELSE Idle]
    /\ UNCHANGED <<party, chain, clock, held, told, changes>>

\* Mutant: the caller is answered from the resolution alone.
LookForRecord_Skipped(c) ==
    /\ call[c].stage = "look"
    /\ told' = told \cup {call[c].req}
    /\ call' = [call EXCEPT ![c] = Idle]
    /\ UNCHANGED <<party, chain, clock, held, changes>>

LookForRecord(c) ==
    /\ call[c].stage = "look"
    /\ LET r == call[c].req IN
       IF elapsed[r] > 0
       THEN told' = told \cup {r} /\ call' = [call EXCEPT ![c] = Idle]
       ELSE call' = [call EXCEPT ![c] = [stage |-> "record", req |-> r]] /\ UNCHANGED told
    /\ UNCHANGED <<party, chain, clock, held, changes>>

RecordElapsed(c) ==
    /\ call[c].stage = "record"
    /\ LET r == call[c].req IN
       /\ elapsed' = [elapsed EXCEPT ![r] = elapsed[r] + 1]
       /\ told' = told \cup {r}
    /\ call' = [call EXCEPT ![c] = Idle]
    /\ UNCHANGED <<party, request, decisions, delegations, clock, held, changes>>

\* A caller dies in the middle of a call.
Die(c) ==
    /\ call[c] # Idle
    /\ call' = [call EXCEPT ![c] = Idle]
    /\ UNCHANGED <<party, chain, clock, held, told, changes>>

RegistryStep ==
    \/ \E reg \in Registrations : Register(reg[1], reg[2], reg[3])
    \/ \E p \in Parties, s \in Statuses : SetStatus(p, s)

CallStep(c) ==
    \/ \E r \in Requests, spec \in RequestSpecs : RequestApproval(c, r, spec)
    \/ \E r \in Requests, p \in Parties, choice \in {"approve", "deny"} :
         DecideApproval(c, r, p, choice)
    \/ \E p, q \in Parties, comp \in Competences : DelegateCompetence(c, p, q, comp)
    \/ \E r \in Requests : EffectApproval(c, r)
    \/ AppendDecision(c) \/ AppendDelegation(c)
    \/ JudgeEffect(c) \/ LookForRecord(c) \/ RecordElapsed(c)
    \/ Die(c)

ApprovalNext == RegistryStep \/ Tick \/ \E c \in Callers : CallStep(c)

ApprovalSpec == ApprovalInit /\ [][ApprovalNext]_approvalVars

-----------------------------------------------------------------------------
(***************************************************************************)
(* Once the deadline has passed and every decision and delegation taken    *)
(* before it has reached the chain, only the registry can change the       *)
(* answer: a late approval does not resurrect a request, a late denial     *)
(* does not end one, and time alone changes nothing.                       *)
(***************************************************************************)
Settled(r) ==
    /\ request[r] # NoRequest
    /\ clock > Deadline(request[r])
    /\ \A c \in Callers : call[c].stage \in {"decide", "delegate"} =>
         call[c].event.at > Deadline(request[r])

DeadlineIsFinal ==
    [][\A r \in Requests : Settled(r) /\ party' = party => ResolveNow(r)' = ResolveNow(r)]_approvalVars

(***************************************************************************)
(* Whoever counts as an approver has the authority from a registration:    *)
(* their own, or one of the person who delegated to them.  Delegation      *)
(* passes on what one has, never what one was lent.                        *)
(***************************************************************************)
ApprovalsAreRooted ==
    \A r \in Requests : request[r] # NoRequest /\ request[r].comps # {} =>
        \A p \in ResolveNow(r).by : \E comp \in request[r].comps :
            \/ <<p, comp>> \in held
            \/ \E g \in delegations : g.to = p /\ g.comp = comp /\ <<g.from, comp>> \in held

(***************************************************************************)
(* Whoever is told to go ahead because a deadline passed with nobody       *)
(* deciding finds that on the chain (the trail says that no person did),   *)
(* and the chain says it of no request before its deadline or of one that  *)
(* halts.                                                                  *)
(***************************************************************************)
ElapsedIsOnRecord ==
    \A r \in Requests :
        /\ r \in told => elapsed[r] > 0
        /\ elapsed[r] > 0 => request[r].onElapse = "proceed" /\ clock > Deadline(request[r])

(***************************************************************************)
(* A request is granted once the hands it needs have approved, or it lets  *)
(* silence proceed.  In both cases nobody who may object has: a denial by  *)
(* somebody who is still entitled ends it, whatever came before or after.  *)
(***************************************************************************)
DenialAbsorbs ==
    \A r \in Requests : request[r] # NoRequest /\ ResolveNow(r).state = "granted" =>
        ~ \E d \in decisions : /\ d.request = r /\ d.decision = "deny"
                               /\ ActiveHuman(d.by) /\ d.by # request[r].requester
                               /\ d.at <= Deadline(request[r])
=============================================================================
