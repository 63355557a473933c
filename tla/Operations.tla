----------------------------- MODULE Operations -----------------------------
(***************************************************************************)
(* Governed operation: an agent with a session capability asks for a use   *)
(* case to be run over a set of issues (operate in operations.py), which   *)
(* admits it (session_admission.py, session_capability.py), decides per    *)
(* issue whether it runs unattended, and journals what it does.            *)
(*                                                                         *)
(* Everything admission asks for is a projection of the folder's chain or  *)
(* a file, and every question is a replay of its own; people, the guardian *)
(* (guardian.py), the lane registry (governance_lane.py) and other calls   *)
(* change the answers in between.                                          *)
(***************************************************************************)
EXTENDS Parties, Sequences, FiniteSets

CONSTANTS
    Operators,       \* threads that execute operate and governance_open
    Writers,         \* threads that execute revoke_agent, register_lane, guardian_act
    WriterOps,       \* the calls the writers make
    Agents,
    Tags,
    Terms,           \* lane id, policy fingerprint and grade, taken together
    UseCases,        \* the records a use case may be given
    IssueLists,      \* what operate may be called with
    Budgets,         \* what the policy file may say: a cap, no cap, or nothing readable
    Costs,           \* cents a captured exchange may have cost
    NoLane, NoUseCase, NoCap, Unreadable,
    AutoGradeMin,
    TTL, Skew,
    MaxTokens, MaxRuns, MaxVersion, MaxChanges, Horizon   \* bounds

UseCase == [allowed : SUBSET Agents, prohibited : BOOLEAN, grade : Nat,
            reserved : SUBSET (Tags \cup {"always"}), tags : SUBSET Tags]

ASSUME OperationConstants ==
    /\ Agents \subseteq Parties /\ Operators \cap Writers = {}
    /\ UseCases \subseteq UseCase
    /\ IssueLists \subseteq Seq([sure : BOOLEAN, tags : SUBSET Tags])
    /\ Budgets \subseteq Nat \cup {NoCap, Unreadable} /\ Costs \subseteq Nat
    /\ TTL \in Nat \ {0} /\ Skew \in Nat /\ AutoGradeMin \in Nat
    /\ MaxChanges \in Nat /\ Horizon \in Nat
    /\ NoLane \notin [version : Nat, terms : Terms]

VARIABLES
    lane,        \* the lane in force for each agent: [version, terms]
    usecase,     \* the latest version of the use case
    links,       \* the tags of the connectors linked to it
    budget, spend,
    tokens,      \* minted capabilities; a token's nonce is its index
    revoked,     \* revoked nonces
    journal,     \* the runs as runs_for projects them
    op,          \* what each operator is executing
    write,       \* what each writer is executing
    clock,
    met,         \* history: the demands that held at some moment of the operator's call
    seen,        \* history: what was there at the moments of it
    changes

authority == <<party, lane, usecase, links, budget, spend, revoked>>
operationVars == <<authority, tokens, journal, op, write, clock, met, seen, changes>>

Idle == [stage |-> "idle"]

Claims == [agent : Agents, terms : Terms, exp : Nat]
Lane   == [version : Nat \ {0}, terms : Terms]

Dispositions == {"auto", "human", "reserved"}
Finals       == {"running", "refused", "complete", "awaiting-human"}

OperationTypeOK ==
    /\ party \in [Parties -> PartyRecord]
    /\ lane \in [Agents -> Lane \cup {NoLane}]
    /\ usecase \in UseCase \cup {NoUseCase}
    /\ links \subseteq Tags /\ budget \in Budgets /\ spend \in Nat
    /\ tokens \in Seq(Claims) /\ revoked \subseteq DOMAIN tokens
    /\ journal \in Seq([agent : Agents, steps : Seq(Dispositions), final : Finals,
                        asked : IssueLists, warned : BOOLEAN])
    /\ \A c \in Operators : op[c].stage \in {"start", "tags", "issues"} =>
         op[c].uc \in UseCase /\ op[c].steps \in Seq(Dispositions)
    /\ clock \in 0..Horizon /\ changes \in 0..MaxChanges

OperationInit ==
    /\ party \in [Parties -> {Unregistered, [kind |-> "agent", status |-> "active", comps |-> {}]}]
    /\ \A p \in Parties : (party[p] = Unregistered) = (p \notin Agents)
    /\ lane \in [Agents -> {NoLane} \cup [version : {1}, terms : Terms]]
    /\ usecase \in UseCases \cup {NoUseCase}
    /\ links \in SUBSET Tags /\ budget \in Budgets /\ spend \in Costs \cup {0}
    /\ tokens = <<>> /\ revoked = {} /\ journal = <<>>
    /\ op = [c \in Operators |-> Idle]
    /\ write = [w \in Writers |-> Idle]
    /\ clock = 0 /\ changes = 0
    /\ met = [c \in Operators |-> {}]
    /\ seen = [c \in Operators |-> {}]

-----------------------------------------------------------------------------
(***************************************************************************)
(* What others change.                                                     *)
(***************************************************************************)
Change == changes < MaxChanges /\ changes' = changes + 1

Others == UNCHANGED <<tokens, journal, op, clock>>

SetStatus(p, s) ==
    /\ Change /\ SetPartyStatus(p, s)
    /\ Others /\ UNCHANGED <<lane, usecase, links, budget, spend, revoked, write>>

Reregister(a, kind) ==
    /\ Change /\ RegisterParty(a, kind, {})
    /\ Others /\ UNCHANGED <<lane, usecase, links, budget, spend, revoked, write>>

RegisterUseCase(u) ==
    /\ Change /\ usecase' = u
    /\ Others /\ UNCHANGED <<party, lane, links, budget, spend, revoked, write>>

LinkConnectors(tags) ==
    /\ Change /\ links' = tags
    /\ Others /\ UNCHANGED <<party, lane, usecase, budget, spend, revoked, write>>

SetBudget(b) ==
    /\ Change /\ budget' = b
    /\ Others /\ UNCHANGED <<party, lane, usecase, links, spend, revoked, write>>

\* An exchange is captured with what it cost ...
SpendCents(n) ==
    /\ Change /\ spend' = spend + n
    /\ Others /\ UNCHANGED <<party, lane, usecase, links, budget, revoked, write>>

\* ... and deleted or purged with it.
DeleteCapture(n) ==
    /\ n <= spend
    /\ Change /\ spend' = spend - n
    /\ Others /\ UNCHANGED <<party, lane, usecase, links, budget, revoked, write>>

\* CapabilityVerifier.revoke
RevokeToken(n) ==
    /\ Change /\ revoked' = revoked \cup {n}
    /\ Others /\ UNCHANGED <<party, lane, usecase, links, budget, spend, write>>

Tick ==
    /\ clock < Horizon /\ clock' = clock + 1
    /\ UNCHANGED <<authority, tokens, journal, op, write, changes>>

-----------------------------------------------------------------------------
(***************************************************************************)
(* Calls that read the chain and append what they made of it.              *)
(***************************************************************************)
Begin(w, op_, call) ==
    /\ op_ \in WriterOps
    /\ write[w] = Idle
    /\ Change
    /\ write' = [write EXCEPT ![w] = call]
    /\ UNCHANGED <<authority, tokens, journal, op, clock>>

Done(w) ==
    /\ write' = [write EXCEPT ![w] = Idle]
    /\ UNCHANGED <<tokens, journal, op, clock, changes>>

\* revoke_agent: the record without the agent, everything else carried forward ...
RevokeAgent(w, a) ==
    /\ usecase # NoUseCase /\ a \in usecase.allowed
    /\ Begin(w, "revoke", [stage |-> "carry",
                           record |-> [usecase EXCEPT !.allowed = usecase.allowed \ {a}]])

\* ... and what was not reserved or not prohibited there is looked up once more.
Carried(old) ==
    IF usecase = NoUseCase THEN old
    ELSE [old EXCEPT !.reserved = IF old.reserved = {} THEN usecase.reserved ELSE old.reserved,
                     !.prohibited = old.prohibited \/ usecase.prohibited]

CarryForward(w) ==
    /\ write[w].stage = "carry"
    /\ write' = [write EXCEPT ![w] = [stage |-> "revoke", record |-> Carried(write[w].record)]]
    /\ UNCHANGED <<authority, tokens, journal, op, clock, changes>>

AppendRevision(w) ==
    /\ write[w].stage = "revoke"
    /\ usecase' = write[w].record
    /\ Done(w) /\ UNCHANGED <<party, lane, links, budget, spend, revoked>>

\* register_lane: a replacement must increase the version ...
RegisterLane(w, a, terms, v) ==
    /\ lane[a] # NoLane => v > lane[a].version
    /\ Begin(w, "lane", [stage |-> "lane", agent |-> a,
                         lane |-> [version |-> v, terms |-> terms]])

\* Mutant: the last lane on the chain is in force.
AppendLane_Last(w) ==
    /\ write[w].stage = "lane"
    /\ lane' = [lane EXCEPT ![write[w].agent] = write[w].lane]
    /\ Done(w) /\ UNCHANGED <<party, usecase, links, budget, spend, revoked>>

\* ... and whatever was appended, list_lanes keeps the first of the highest version.
AppendLane(w) ==
    /\ write[w].stage = "lane"
    /\ LET a == write[w].agent new == write[w].lane IN
       lane' = IF lane[a] = NoLane \/ new.version > lane[a].version
               THEN [lane EXCEPT ![a] = new] ELSE lane
    /\ Done(w) /\ UNCHANGED <<party, usecase, links, budget, spend, revoked>>

\* guardian_act("pause"): agents that are active are suspended.
GuardianPause(w, a) ==
    /\ party[a].kind = "agent" /\ party[a].status = "active"
    /\ Begin(w, "pause", [stage |-> "pause", agent |-> a])

AppendPause(w) ==
    /\ write[w].stage = "pause"
    /\ SetPartyStatus(write[w].agent, "suspended")
    /\ Done(w) /\ UNCHANGED <<lane, usecase, links, budget, spend, revoked>>

-----------------------------------------------------------------------------
(***************************************************************************)
(* Sessions.                                                               *)
(***************************************************************************)
ActiveAgent(a) == party[a].kind = "agent" /\ party[a].status = "active"

Stays == UNCHANGED <<authority, write, clock, changes>>

\* governance_open: the party, then the lane.
GovernanceOpen(c, a) ==
    /\ op[c] = Idle /\ Len(tokens) < MaxTokens
    /\ ActiveAgent(a)
    /\ op' = [op EXCEPT ![c] = [stage |-> "mint", agent |-> a]]
    /\ Stays /\ UNCHANGED <<tokens, journal>>

Mint(c) ==
    /\ op[c].stage = "mint"
    /\ LET a == op[c].agent IN
       tokens' = IF lane[a] = NoLane \/ Len(tokens) = MaxTokens THEN tokens
                 ELSE Append(tokens, [agent |-> a, terms |-> lane[a].terms, exp |-> clock + TTL])
    /\ op' = [op EXCEPT ![c] = Idle]
    /\ Stays /\ UNCHANGED journal

TokenLive(n, a) ==
    /\ clock <= tokens[n].exp + Skew
    /\ n \notin revoked
    /\ tokens[n].agent = a

LaneCurrent(n, a) == lane[a] # NoLane /\ lane[a].terms = tokens[n].terms

-----------------------------------------------------------------------------
(***************************************************************************)
(* operate.                                                                *)
(***************************************************************************)
Operate(c, a, n, issues) ==
    /\ op[c] = Idle
    /\ Len(journal) + Cardinality({d \in Operators : op[d] # Idle}) < MaxRuns
    /\ op' = [op EXCEPT ![c] = [stage |-> "agent", agent |-> a, token |-> n, issues |-> issues]]
    /\ Stays /\ UNCHANGED <<tokens, journal>>

\* One question of admission: go on or refuse.
Ask(c, stage, answer, next) ==
    /\ op[c].stage = stage
    /\ op' = [op EXCEPT ![c] = IF answer THEN next ELSE [@ EXCEPT !.stage = "refuse"]]
    /\ Stays /\ UNCHANGED <<tokens, journal>>

To(c, stage) == [op[c] EXCEPT !.stage = stage]

Admitted(c) == [stage |-> "start", agent |-> op[c].agent, token |-> op[c].token,
                issues |-> op[c].issues, uc |-> op[c].uc, steps |-> <<>>]

CheckAgent(c) == Ask(c, "agent", ActiveAgent(op[c].agent), To(c, "token"))

\* Mutant: the revocations are not read.
CheckToken_Unrevoked(c) ==
    Ask(c, "token", clock <= tokens[op[c].token].exp + Skew
                    /\ tokens[op[c].token].agent = op[c].agent, To(c, "lane"))

CheckToken(c) == Ask(c, "token", TokenLive(op[c].token, op[c].agent), To(c, "lane"))

CheckLane(c) == Ask(c, "lane", LaneCurrent(op[c].token, op[c].agent), To(c, "usecase"))

\* The record read here is the one the run goes by.
ReadUseCase(c) ==
    Ask(c, "usecase", usecase # NoUseCase,
        [stage |-> "permitted", agent |-> op[c].agent, token |-> op[c].token,
         issues |-> op[c].issues, uc |-> usecase, steps |-> <<>>])

CheckPermitted(c) ==
    Ask(c, "permitted", usecase # NoUseCase /\ op[c].agent \in usecase.allowed,
        To(c, "status"))

\* An id that is no agent's has no status here; a prohibited act is severed for everybody.
CheckStatus(c) ==
    Ask(c, "status",
        (party[op[c].agent].kind = "agent" => party[op[c].agent].status = "active")
        /\ ~op[c].uc.prohibited,
        To(c, "budget"))

\* The cap is read from the policy file ...
ReadCap(c) ==
    Ask(c, "budget", budget # Unreadable,
        IF budget = NoCap THEN To(c, "start")
        ELSE [stage |-> "spend", agent |-> op[c].agent, token |-> op[c].token,
              issues |-> op[c].issues, uc |-> op[c].uc, steps |-> <<>>, cap |-> budget])

\* Mutant: the spend may reach the cap.
CheckSpend_AtCap(c) == Ask(c, "spend", spend <= op[c].cap, Admitted(c))

\* ... and then the spend from the captured exchanges.
CheckSpend(c) == Ask(c, "spend", spend < op[c].cap, Admitted(c))

FinalOf(steps) == IF \E k \in DOMAIN steps : steps[k] # "auto"
                  THEN "awaiting-human" ELSE "complete"

Record(c, steps, final, warned) ==
    [agent |-> op[c].agent, steps |-> steps, final |-> final, asked |-> op[c].issues,
     warned |-> warned]

Refuse(c) ==
    /\ op[c].stage = "refuse"
    /\ journal' = Append(journal, Record(c, <<>>, "refused", FALSE))
    /\ op' = [op EXCEPT ![c] = Idle]
    /\ Stays /\ UNCHANGED tokens

\* Mutant: a run counts as complete until something else is said.
StartRun_Complete(c) ==
    /\ op[c].stage = "start"
    /\ journal' = Append(journal, Record(c, <<>>, "complete", FALSE))
    /\ op' = [op EXCEPT ![c] = [stage |-> "tags", agent |-> op[c].agent, token |-> op[c].token,
                 issues |-> op[c].issues, uc |-> op[c].uc, steps |-> <<>>,
                 run |-> Len(journal) + 1]]
    /\ Stays /\ UNCHANGED tokens

StartRun(c) ==
    /\ op[c].stage = "start"
    /\ journal' = Append(journal, Record(c, <<>>, "running", FALSE))
    /\ op' = [op EXCEPT ![c] = [stage |-> "tags", agent |-> op[c].agent, token |-> op[c].token,
                 issues |-> op[c].issues, uc |-> op[c].uc, steps |-> <<>>,
                 run |-> Len(journal) + 1]]
    /\ Stays /\ UNCHANGED tokens

Lens(c, tags) ==
    /\ op[c].stage = "tags"
    /\ op' = [op EXCEPT ![c] = [stage |-> "issues", agent |-> op[c].agent,
                 token |-> op[c].token, issues |-> op[c].issues, uc |-> op[c].uc,
                 steps |-> <<>>, run |-> op[c].run, lens |-> tags]]
    /\ Stays /\ UNCHANGED tokens

ReadConnectors(c) == Lens(c, op[c].uc.tags \cup links) /\ UNCHANGED journal

\* The connector store is unreadable: a warning is journalled, and the run goes on
\* with the tags it has.
ConnectorsUnreadable(c) ==
    /\ Lens(c, op[c].uc.tags)
    /\ journal' = [journal EXCEPT ![op[c].run] = Record(c, <<>>, "running", TRUE)]

\* A reservation binds when its guard holds; one for another kind of issue still binds.
Reserved(uc, tags) == "always" \in uc.reserved \/ uc.reserved \cap tags # {}

\* Mutant: a sure node of an earned grade does not ask who it is reserved to.
Disposition_GradeFirst(uc, issue, lens) ==
    IF issue.sure /\ uc.grade >= AutoGradeMin THEN "auto"
    ELSE IF Reserved(uc, lens \cup issue.tags) THEN "reserved" ELSE "human"

Disposition(uc, issue, lens) ==
    IF Reserved(uc, lens \cup issue.tags) THEN "reserved"
    ELSE IF issue.sure /\ uc.grade >= AutoGradeMin THEN "auto" ELSE "human"

\* Each step is an event of its own.
StepIssue(c) ==
    /\ op[c].stage = "issues" /\ Len(op[c].steps) < Len(op[c].issues)
    /\ LET k == Len(op[c].steps) + 1
           steps == Append(op[c].steps, Disposition(op[c].uc, op[c].issues[k], op[c].lens))
       IN /\ op' = [op EXCEPT ![c].steps = steps]
          /\ journal' = [journal EXCEPT ![op[c].run].steps = steps]
    /\ Stays /\ UNCHANGED tokens

\* With no issue at all an unconditional reservation still reserves the act ...
ReservesAll(c) == op[c].issues = <<>> /\ op[c].steps = <<>> /\ "always" \in op[c].uc.reserved

ReserveAct(c) ==
    /\ op[c].stage = "issues" /\ ReservesAll(c)
    /\ op' = [op EXCEPT ![c].steps = <<"reserved">>]
    /\ journal' = [journal EXCEPT ![op[c].run].steps = <<"reserved">>]
    /\ Stays /\ UNCHANGED tokens

\* ... in a step before the outcome.
Outcome(c) ==
    /\ op[c].stage = "issues" /\ Len(op[c].steps) >= Len(op[c].issues) /\ ~ReservesAll(c)
    /\ journal' = [journal EXCEPT ![op[c].run].final = FinalOf(op[c].steps)]
    /\ op' = [op EXCEPT ![c] = Idle]
    /\ Stays /\ UNCHANGED tokens

\* The process dies; what it journalled stays.
Die(c) ==
    /\ op[c].stage \in {"refuse", "start", "tags", "issues"}
    /\ op' = [op EXCEPT ![c] = Idle]
    /\ Stays /\ UNCHANGED <<tokens, journal>>

-----------------------------------------------------------------------------
(***************************************************************************)
(* What admission demands of a call at a moment, beside the budget.         *)
(***************************************************************************)
Demands == {"agent", "token", "lane", "permitted"}

Holds(c) ==
    LET a == op[c].agent n == op[c].token IN
    {d \in Demands :
        \/ d = "agent" /\ ActiveAgent(a)
        \/ d = "token" /\ TokenLive(n, a)
        \/ d = "lane" /\ LaneCurrent(n, a)
        \/ d = "permitted" /\ usecase # NoUseCase /\ a \in usecase.allowed}

ChangeStep ==
    \/ \E p \in Parties, s \in Statuses : SetStatus(p, s)
    \/ \E a \in Agents, kind \in {"human", "agent"} : Reregister(a, kind)
    \/ \E u \in UseCases : RegisterUseCase(u)
    \/ \E tags \in SUBSET Tags : LinkConnectors(tags)
    \/ \E b \in Budgets : SetBudget(b)
    \/ \E n \in Costs : SpendCents(n) \/ DeleteCapture(n)
    \/ \E n \in DOMAIN tokens : RevokeToken(n)
    \/ Tick

WriteStep(w) ==
    \/ \E a \in Agents : RevokeAgent(w, a) \/ GuardianPause(w, a)
    \/ \E a \in Agents, terms \in Terms, v \in 1..MaxVersion : RegisterLane(w, a, terms, v)
    \/ CarryForward(w) \/ AppendRevision(w) \/ AppendLane(w) \/ AppendPause(w)

OperateStep(c) ==
    \/ \E a \in Agents : GovernanceOpen(c, a)
    \/ Mint(c)
    \/ \E a \in Agents, n \in DOMAIN tokens, issues \in IssueLists : Operate(c, a, n, issues)
    \/ CheckAgent(c) \/ CheckToken(c) \/ CheckLane(c)
    \/ ReadUseCase(c) \/ CheckPermitted(c) \/ CheckStatus(c)
    \/ ReadCap(c) \/ CheckSpend(c)
    \/ Refuse(c) \/ StartRun(c) \/ ReadConnectors(c) \/ ConnectorsUnreadable(c)
    \/ StepIssue(c) \/ ReserveAct(c) \/ Outcome(c) \/ Die(c)

Calling(c) == op[c].stage \notin {"idle", "mint"}

Present == [usecase |-> usecase, links |-> links, budget |-> budget, spend |-> spend]

\* The histories begin with the call and end with it.
Observe ==
    /\ met' = [c \in Operators |-> IF Calling(c)' THEN met[c] \cup Holds(c)' ELSE {}]
    /\ seen' = [c \in Operators |-> IF Calling(c)' THEN seen[c] \cup {Present'} ELSE {}]

OperationNext ==
    /\ ChangeStep \/ (\E w \in Writers : WriteStep(w)) \/ (\E c \in Operators : OperateStep(c))
    /\ Observe

OperationSpec == OperationInit /\ [][OperationNext]_operationVars

-----------------------------------------------------------------------------
(***************************************************************************)
(* A run starts only if everything admission demands held at some moment   *)
(* of the call: a suspension, a revocation, a new lane, a withdrawn        *)
(* permission or an expiry that was there when the call came in, and was   *)
(* not lifted, refuses it.  So does a spent budget: the cap and the spend  *)
(* are two reads, so they need not have left room at one and the same      *)
(* moment, but a spend that reached every cap there was during the call    *)
(* refuses it.                                                             *)
(***************************************************************************)
RoomLeft(c) == \E v, w \in seen[c] :
    v.budget # Unreadable /\ (v.budget = NoCap \/ w.spend < v.budget)

WhatStoodBeforeTheCallBinds ==
    \A c \in Operators : op[c].stage \in {"start", "tags", "issues"} =>
        met[c] = Demands /\ RoomLeft(c)

(***************************************************************************)
(* Nothing runs unattended on authority nobody gave.  When a step is       *)
(* journalled "auto", its issue is sure, and some record of the use case   *)
(* that was in force during the call grants the grade, does not prohibit   *)
(* the act, and reserves it neither always nor for a tag of the use case,  *)
(* of the issue or of the connectors as they were at some moment of the    *)
(* call.  The one exception is on the chain: a run whose record carries    *)
(* the warning that the connectors could not be read took no tag of theirs *)
(* into account.  A run is journalled "complete" only under such a record, *)
(* tags aside.                                                             *)
(***************************************************************************)
Allows(u) == u # NoUseCase /\ ~u.prohibited /\ "always" \notin u.reserved

Frees(u, tags) == Allows(u) /\ u.reserved \cap (u.tags \cup tags) = {}

\* The steps a call adds to its run when the journal changes.
Added(c) == IF op[c].stage = "issues" /\ op[c].run \in DOMAIN journal'
            THEN DOMAIN journal'[op[c].run].steps \ DOMAIN journal[op[c].run].steps ELSE {}

StepEarned(c, k) ==
    LET new == journal'[op[c].run] IN
    new.steps[k] = "auto" =>
        /\ new.asked[k].sure
        /\ \E v, w \in seen[c] :
             /\ Frees(v.usecase, new.asked[k].tags \cup IF new.warned THEN {} ELSE w.links)
             /\ v.usecase.grade >= AutoGradeMin

EndEarned(c) ==
    op[c].stage = "issues" /\ journal[op[c].run].final # "complete"
        /\ journal'[op[c].run].final = "complete" => \E v \in seen[c] : Allows(v.usecase)

UnattendedIsEarned ==
    [][\A c \in Operators : (\A k \in Added(c) : StepEarned(c, k)) /\ EndEarned(c)]_operationVars

(***************************************************************************)
(* What operations.py:249-251 says of the connectors that could not be     *)
(* read: a guard on a missing tag stays unfired, and "no authority is ever *)
(* GRANTED by a missing tag". So a step that runs unattended is reserved   *)
(* for no tag that was there throughout the call, warning or not. It does  *)
(* not hold (README, section 5): the guard is the one that reserves.       *)
(***************************************************************************)
MissingTagsGrantNothing ==
    [][\A c \in Operators : \A k \in Added(c) : journal'[op[c].run].steps[k] = "auto" =>
         \E v, w \in seen[c] : Frees(v.usecase, w.links)]_operationVars

(***************************************************************************)
(* What runs_for tells of a run is what happened: a refused run did        *)
(* nothing, a complete one settled every issue without anybody, one that   *)
(* awaits somebody says for which issue, and one that is still "running"   *)
(* has no step but those of its issues, one each, or the one by which a    *)
(* run without issues is reserved.                                         *)
(***************************************************************************)
JournalTellsTheRun ==
    \A i \in DOMAIN journal : LET r == journal[i] IN
        /\ r.final = "refused" => r.steps = <<>>
        /\ r.final = "complete" =>
             Len(r.steps) = Len(r.asked) /\ \A k \in DOMAIN r.steps : r.steps[k] = "auto"
        /\ r.final = "awaiting-human" => \E k \in DOMAIN r.steps : r.steps[k] # "auto"
        /\ Len(r.steps) <= Len(r.asked) \/ (r.asked = <<>> /\ r.steps = <<"reserved">>)

(***************************************************************************)
(* A stop stays until somebody lifts it: neither registering the party     *)
(* again, as an agent or as a human, nor a guardian that decided before    *)
(* the stop makes a stopped party active.                                  *)
(***************************************************************************)
StopsAreLiftedByPeople ==
    [][\A p \in Parties :
         party[p].status \in {"suspended", "killed"} /\ party'[p].status = "active"
           => SetStatus(p, "active")]_operationVars

(***************************************************************************)
(* The lane in force never goes back to an earlier version, whatever order *)
(* two approvals reach the chain in.                                       *)
(***************************************************************************)
LanesNeverGoBack ==
    [][\A a \in Agents : lane[a] # NoLane =>
         lane'[a] # NoLane /\ lane'[a].version >= lane[a].version]_operationVars
=============================================================================
