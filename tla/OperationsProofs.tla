-------------------------- MODULE OperationsProofs --------------------------
(***************************************************************************)
(* What stood before a call binds it, the journal tells the run, what runs *)
(* unattended was earned, stops are lifted by people and lanes never go    *)
(* back, for any operators, writers, agents, use cases, lists of issues    *)
(* and any number of changes.  The argument: a call carries with it what   *)
(* its questions were answered (CallOK), nobody else writes to the run it  *)
(* has in the journal (RunsApart), and the histories only grow while it    *)
(* lasts.                                                                  *)
(***************************************************************************)
EXTENDS Operations, TLAPS

Minting  == [stage : {"mint"}, agent : Agents]
Asking   == [stage : {"agent", "token", "lane", "usecase", "refuse"}, agent : Agents,
             token : Nat, issues : IssueLists]
Judged   == [stage : {"permitted", "status", "budget", "start", "refuse"}, agent : Agents,
             token : Nat, issues : IssueLists, uc : UseCase, steps : {<<>>}]
Pricing  == [stage : {"spend", "refuse"}, agent : Agents, token : Nat, issues : IssueLists,
             uc : UseCase, steps : {<<>>}, cap : Nat]
Tagging  == [stage : {"tags"}, agent : Agents, token : Nat, issues : IssueLists,
             uc : UseCase, steps : {<<>>}, run : Nat \ {0}]
Stepping == [stage : {"issues"}, agent : Agents, token : Nat, issues : IssueLists,
             uc : UseCase, steps : Seq(Dispositions), run : Nat \ {0}, lens : SUBSET Tags]

Calls == {Idle} \cup Minting \cup Asking \cup Judged \cup Pricing \cup Tagging \cup Stepping

Writes == {Idle} \cup [stage : {"carry", "revoke"}, record : UseCase]
          \cup [stage : {"lane"}, agent : Agents, lane : Lane]
          \cup [stage : {"pause"}, agent : Agents]

Run == [agent : Agents, steps : Seq(Dispositions), final : Finals, asked : IssueLists,
        warned : BOOLEAN]

TypeInv ==
    /\ party \in [Parties -> PartyRecord]
    /\ lane \in [Agents -> Lane \cup {NoLane}]
    /\ usecase \in UseCase \cup {NoUseCase}
    /\ links \subseteq Tags /\ budget \in Budgets /\ spend \in Nat
    /\ tokens \in Seq(Claims) /\ revoked \subseteq DOMAIN tokens
    /\ journal \in Seq(Run)
    /\ op \in [Operators -> Calls]
    /\ write \in [Writers -> Writes]
    /\ clock \in 0..Horizon /\ changes \in 0..MaxChanges
    /\ DOMAIN met = Operators /\ DOMAIN seen = Operators

\* The stages of a call in their order, from where a question has been answered.
AfterLast   == {"start", "tags", "issues"}
AfterStatus == AfterLast \cup {"spend", "budget"}
AfterRecord == AfterStatus \cup {"status", "permitted"}
AfterLane   == AfterRecord \cup {"usecase"}
AfterToken  == AfterLane \cup {"lane"}
AfterAgent  == AfterToken \cup {"token"}
InJournal   == {"tags", "issues"}

\* The questions a call has put were answered by what held at some moment of it.
MetOK(c) ==
    /\ met[c] \subseteq Demands
    /\ op[c].stage \in AfterAgent => "agent" \in met[c]
    /\ op[c].stage \in AfterToken => "token" \in met[c]
    /\ op[c].stage \in AfterLane => "lane" \in met[c]
    /\ op[c].stage \in AfterStatus \cup {"status"} => "permitted" \in met[c]
    /\ op[c].stage = "spend" => \E v \in seen[c] : v.budget # Unreadable /\ v.budget = op[c].cap
    /\ op[c].stage \in AfterLast => RoomLeft(c)

\* The record a run goes by was in force, and does not prohibit the act.
RecordOK(c) ==
    /\ op[c].stage \in AfterRecord => op[c].uc # NoUseCase /\ \E v \in seen[c] : v.usecase = op[c].uc
    /\ op[c].stage \in AfterStatus => ~op[c].uc.prohibited

Earned(uc, issue) == issue.sure /\ uc.grade >= AutoGradeMin /\ "always" \notin uc.reserved

\* It has a step for each issue so far, or the one that reserves a run without issues.
StepsFit(steps, issues) ==
    Len(steps) <= Len(issues) \/ (issues = <<>> /\ steps = <<"reserved">>)

\* The tags it goes by are those of the use case, and of the connectors if they were read.
LensOK(c) ==
    op[c].stage = "issues" =>
        /\ op[c].uc.tags \subseteq op[c].lens
        /\ ~journal[op[c].run].warned => \E w \in seen[c] : w.links \subseteq op[c].lens

\* Its run is in the journal as far as it got, and its unattended steps are earned.
RunOK(c) ==
    /\ op[c].stage \in InJournal =>
         /\ op[c].run \in DOMAIN journal
         /\ journal[op[c].run] = Record(c, op[c].steps, "running", journal[op[c].run].warned)
    /\ op[c].stage = "issues" =>
         /\ StepsFit(op[c].steps, op[c].issues)
         /\ \A k \in DOMAIN op[c].steps :
              op[c].steps[k] = "auto" => Earned(op[c].uc, op[c].issues[k])

CallOK == \A c \in Operators : MetOK(c) /\ RecordOK(c) /\ RunOK(c) /\ LensOK(c)

\* No two calls write to one run.
RunsApart ==
    \A c, d \in Operators :
        c # d /\ op[c].stage \in InJournal /\ op[d].stage \in InJournal => op[c].run # op[d].run

OInv == TypeInv /\ CallOK /\ RunsApart /\ JournalTellsTheRun

-----------------------------------------------------------------------------
THEOREM OperationInitInv == OperationInit => OInv
<1> SUFFICES ASSUME OperationInit PROVE OInv
  OBVIOUS
<1> USE OperationConstants
<1>1. \A c \in Operators : op[c] = Idle /\ op[c].stage = "idle" /\ met[c] = {}
  BY DEF OperationInit, Idle
<1>2. TypeInv
  <2>1. party \in [Parties -> PartyRecord]
    BY DEF OperationInit, PartyRecord, Statuses, Unregistered
  <2>2. lane \in [Agents -> Lane \cup {NoLane}]
    BY DEF OperationInit, Lane
  <2>3. usecase \in UseCase \cup {NoUseCase}
    BY DEF OperationInit
  <2>4. tokens \in Seq(Claims) /\ revoked \subseteq DOMAIN tokens /\ journal \in Seq(Run)
    BY DEF OperationInit
  <2>5. op \in [Operators -> Calls] /\ write \in [Writers -> Writes]
    BY DEF OperationInit, Calls, Writes
  <2> QED
    BY <2>1, <2>2, <2>3, <2>4, <2>5 DEF OperationInit, TypeInv
<1>3. CallOK
  BY <1>1 DEF CallOK, MetOK, RecordOK, RunOK, LensOK, AfterAgent, AfterToken, AfterLane, AfterRecord,
              AfterStatus, AfterLast, InJournal
<1>4. RunsApart /\ JournalTellsTheRun
  BY <1>1 DEF RunsApart, InJournal, JournalTellsTheRun, OperationInit
<1> QED
  BY <1>2, <1>3, <1>4 DEF OInv

-----------------------------------------------------------------------------
(* What a step leaves alone.                                               *)

\* Every kind of call is told by its stage.
LEMMA CallShape ==
    ASSUME TypeInv, NEW c \in Operators
    PROVE  /\ op[c] \in Calls
           /\ op[c].stage \in {"agent", "token", "lane", "usecase"} => op[c] \in Asking
           /\ op[c].stage \in {"permitted", "status", "budget", "start"} => op[c] \in Judged
           /\ op[c].stage = "spend" => op[c] \in Pricing
           /\ op[c].stage = "refuse" => op[c] \in Asking \cup Judged \cup Pricing
           /\ op[c].stage = "mint" => op[c] \in Minting
           /\ op[c].stage = "tags" => op[c] \in Tagging
           /\ op[c].stage = "issues" => op[c] \in Stepping
BY DEF TypeInv, Calls, Idle, Minting, Asking, Judged, Pricing, Tagging, Stepping

\* While a call lasts its histories only grow, by what is there after the step.
LEMMA HistoryGrows ==
    ASSUME TypeInv, Observe, NEW c \in Operators,
           op'[c].stage # "idle", op'[c].stage # "mint"
    PROVE  met'[c] = met[c] \cup Holds(c)' /\ seen'[c] = seen[c] \cup {Present'}
BY DEF Observe, Calling

LEMMA HistoryTyped ==
    ASSUME TypeInv, Observe, \A c \in Operators : MetOK(c)
    PROVE  /\ DOMAIN met' = Operators /\ DOMAIN seen' = Operators
           /\ \A c \in Operators : met'[c] \subseteq Demands
<1>1. \A c \in Operators : Holds(c)' \subseteq Demands
  BY DEF Holds
<1> QED
  BY <1>1 DEF Observe, MetOK

\* A call that takes no step keeps what it was told, if its run is left alone.
LEMMA CallKept ==
    ASSUME TypeInv, CallOK, Observe, NEW c \in Operators, op'[c] = op[c],
           op[c].stage \in InJournal =>
             op[c].run \in DOMAIN journal' /\ journal'[op[c].run] = journal[op[c].run]
    PROVE  (MetOK(c) /\ RecordOK(c) /\ RunOK(c) /\ LensOK(c))'
<1>1. MetOK(c) /\ RecordOK(c) /\ RunOK(c) /\ LensOK(c) /\ \A d \in Operators : MetOK(d)
  BY DEF CallOK
<1>2. met'[c] \subseteq Demands
  BY <1>1, HistoryTyped
<1>3. CASE op[c].stage \in {"idle", "mint", "refuse"}
  BY <1>2, <1>3 DEF MetOK, RecordOK, RunOK, LensOK, AfterAgent, AfterToken, AfterLane,
                    AfterRecord, AfterStatus, AfterLast, InJournal
<1>4. CASE op[c].stage \notin {"idle", "mint", "refuse"}
  <2>1. met[c] \subseteq met'[c] /\ seen[c] \subseteq seen'[c]
    BY <1>4, HistoryGrows
  <2>2. MetOK(c)'
    BY <1>1, <1>2, <2>1 DEF MetOK, RoomLeft
  <2>3. RecordOK(c)'
    BY <1>1, <2>1 DEF RecordOK
  <2>4. RunOK(c)'
    BY <1>1 DEF RunOK, Record
  <2>5. LensOK(c)'
    BY <1>1, <2>1 DEF LensOK, InJournal
  <2> QED
    BY <2>2, <2>3, <2>4, <2>5
<1> QED
  BY <1>3, <1>4

\* Steps that are no call's step.
LEMMA OthersKeep ==
    ASSUME OInv, Observe, TypeInv', UNCHANGED <<journal, op>>
    PROVE  OInv'
<1>1. CallOK'
  <2>1. \A c \in Operators : op[c].stage \in InJournal => op[c].run \in DOMAIN journal
    BY DEF OInv, CallOK, RunOK
  <2> QED
    BY <2>1, CallKept DEF OInv, CallOK
<1>2. RunsApart' /\ JournalTellsTheRun'
  BY DEF OInv, RunsApart, JournalTellsTheRun
<1> QED
  BY <1>1, <1>2 DEF OInv

\* The step of one call: what has to be shown of it, and of nothing else.
LEMMA CallStep ==
    ASSUME OInv, Observe, Stays, NEW c \in Operators, NEW r \in Calls,
           op' = [op EXCEPT ![c] = r],
           tokens' \in Seq(Claims), DOMAIN tokens \subseteq DOMAIN tokens',
           journal' \in Seq(Run), DOMAIN journal \subseteq DOMAIN journal',
           \A i \in DOMAIN journal :
             journal'[i] = journal[i] \/ (op[c].stage \in InJournal /\ i = op[c].run),
           r.stage \in InJournal =>
             \/ op[c].stage \in InJournal /\ r.run = op[c].run
             \/ r.run \notin DOMAIN journal,
           (MetOK(c) /\ RecordOK(c) /\ RunOK(c) /\ LensOK(c))',
           JournalTellsTheRun'
    PROVE  OInv'
<1>1. TypeInv /\ CallOK /\ RunsApart /\ op \in [Operators -> Calls]
  BY DEF OInv, TypeInv
<1>2. TypeInv'
  <2>1. DOMAIN met' = Operators /\ DOMAIN seen' = Operators
    BY <1>1, HistoryTyped DEF CallOK
  <2> QED
    BY <1>1, <2>1 DEF TypeInv, Stays, authority
<1>3. op'[c] = r /\ \A d \in Operators : d # c => op'[d] = op[d]
  BY <1>1
<1>4. \A d \in Operators : op[d].stage \in InJournal => op[d].run \in DOMAIN journal
  BY <1>1 DEF CallOK, RunOK
<1>5. CallOK'
  <2>1. SUFFICES ASSUME NEW d \in Operators, d # c
                 PROVE  (MetOK(d) /\ RecordOK(d) /\ RunOK(d) /\ LensOK(d))'
    BY DEF CallOK
  <2>2. op[d].stage \in InJournal =>
          op[d].run \in DOMAIN journal' /\ journal'[op[d].run] = journal[op[d].run]
    BY <1>1, <1>4, <2>1 DEF RunsApart
  <2> QED
    BY <1>1, <1>3, <2>1, <2>2, CallKept
<1>6. RunsApart'
  BY <1>1, <1>3, <1>4 DEF RunsApart
<1> QED
  BY <1>2, <1>5, <1>6 DEF OInv

-----------------------------------------------------------------------------
(* What others change, and what writers append.                            *)

LEMMA PartyTyped ==
    ASSUME TypeInv, NEW p \in Parties
    PROVE  /\ \A s \in Statuses : SetPartyStatus(p, s) => party' \in [Parties -> PartyRecord]
           /\ \A kind \in {"human", "agent"} :
                RegisterParty(p, kind, {}) => party' \in [Parties -> PartyRecord]
<1>1. party \in [Parties -> PartyRecord] /\ party[p] \in PartyRecord
  BY DEF TypeInv
<1>2. party[p] # Unregistered =>
        party[p] \in [kind : {"human", "agent"}, status : Statuses, comps : SUBSET Competences]
  BY <1>1 DEF PartyRecord
<1>3. ASSUME NEW s \in Statuses, SetPartyStatus(p, s)
      PROVE  party' \in [Parties -> PartyRecord]
  <2>1. CASE party[p] = Unregistered
    BY <1>1, <1>3, <2>1 DEF SetPartyStatus
  <2>2. CASE party[p] # Unregistered
    <3>1. [kind |-> party[p].kind, comps |-> party[p].comps, status |-> s] \in PartyRecord
      BY <1>2, <2>2 DEF PartyRecord
    <3> QED
      BY <1>1, <1>3, <2>2, <3>1 DEF SetPartyStatus
  <2> QED
    BY <2>1, <2>2
<1>4. ASSUME NEW kind \in {"human", "agent"}, RegisterParty(p, kind, {})
      PROVE  party' \in [Parties -> PartyRecord]
  <2> DEFINE status == IF party[p] = Unregistered THEN "active" ELSE party[p].status
  <2>1. status \in Statuses
    BY <1>2 DEF Statuses
  <2>2. [kind |-> kind, comps |-> {}, status |-> status] \in PartyRecord
    BY <2>1 DEF PartyRecord
  <2> QED
    BY <1>1, <1>4, <2>2 DEF RegisterParty
<1> QED
  BY <1>3, <1>4

LEMMA ChangeInv == OInv /\ ChangeStep /\ Observe => OInv'
<1> SUFFICES ASSUME OInv, ChangeStep, Observe PROVE OInv'
  OBVIOUS
<1> USE OperationConstants
<1>1. TypeInv /\ CallOK
  BY DEF OInv
<1>2. DOMAIN met' = Operators /\ DOMAIN seen' = Operators
  BY <1>1, HistoryTyped DEF CallOK
<1>3. Change => changes' \in 0..MaxChanges
  BY <1>1 DEF Change, TypeInv
<1>4. ASSUME NEW p \in Parties, NEW s \in Statuses, SetStatus(p, s) PROVE OInv'
  <2>1. party' \in [Parties -> PartyRecord]
    BY <1>1, <1>4, PartyTyped DEF SetStatus
  <2>2. TypeInv' /\ UNCHANGED <<journal, op>>
    BY <1>1, <1>2, <1>3, <1>4, <2>1 DEF TypeInv, SetStatus, Others
  <2> QED
    BY <2>2, OthersKeep
<1>5. ASSUME NEW a \in Agents, NEW kind \in {"human", "agent"}, Reregister(a, kind) PROVE OInv'
  <2>1. party' \in [Parties -> PartyRecord]
    BY <1>1, <1>5, PartyTyped DEF Reregister
  <2>2. TypeInv' /\ UNCHANGED <<journal, op>>
    BY <1>1, <1>2, <1>3, <1>5, <2>1 DEF TypeInv, Reregister, Others
  <2> QED
    BY <2>2, OthersKeep
<1>6. ASSUME NEW u \in UseCases, RegisterUseCase(u) PROVE OInv'
  <2>1. TypeInv' /\ UNCHANGED <<journal, op>>
    BY <1>1, <1>2, <1>3, <1>6 DEF TypeInv, RegisterUseCase, Others
  <2> QED
    BY <2>1, OthersKeep
<1>7. ASSUME NEW tags \in SUBSET Tags, LinkConnectors(tags) PROVE OInv'
  <2>1. TypeInv' /\ UNCHANGED <<journal, op>>
    BY <1>1, <1>2, <1>3, <1>7 DEF TypeInv, LinkConnectors, Others
  <2> QED
    BY <2>1, OthersKeep
<1>8. ASSUME NEW b \in Budgets, SetBudget(b) PROVE OInv'
  <2>1. TypeInv' /\ UNCHANGED <<journal, op>>
    BY <1>1, <1>2, <1>3, <1>8 DEF TypeInv, SetBudget, Others
  <2> QED
    BY <2>1, OthersKeep
<1>9. ASSUME NEW n \in Costs, SpendCents(n) \/ DeleteCapture(n) PROVE OInv'
  <2>1. spend' \in Nat
    <3>1. n \in Nat /\ spend \in Nat
      BY <1>1 DEF TypeInv
    <3> QED
      BY <1>9, <3>1 DEF SpendCents, DeleteCapture
  <2>2. TypeInv' /\ UNCHANGED <<journal, op>>
    BY <1>1, <1>2, <1>3, <1>9, <2>1 DEF TypeInv, SpendCents, DeleteCapture, Others
  <2> QED
    BY <2>2, OthersKeep
<1>10. ASSUME NEW n \in DOMAIN tokens, RevokeToken(n) PROVE OInv'
  <2>1. TypeInv' /\ UNCHANGED <<journal, op>>
    BY <1>1, <1>2, <1>3, <1>10 DEF TypeInv, RevokeToken, Others
  <2> QED
    BY <2>1, OthersKeep
<1>11. ASSUME Tick PROVE OInv'
  <2>1. TypeInv' /\ UNCHANGED <<journal, op>>
    BY <1>1, <1>2, <1>11 DEF TypeInv, Tick, authority
  <2> QED
    BY <2>1, OthersKeep
<1> QED
  BY <1>4, <1>5, <1>6, <1>7, <1>8, <1>9, <1>10, <1>11 DEF ChangeStep

\* What a writer is about to append is told by its stage.
LEMMA WriteShape ==
    ASSUME TypeInv, NEW w \in Writers
    PROVE  /\ write[w].stage \in {"carry", "revoke"} => write[w].record \in UseCase
           /\ write[w].stage = "lane" => write[w].agent \in Agents /\ write[w].lane \in Lane
           /\ write[w].stage = "pause" => write[w].agent \in Agents
BY DEF TypeInv, Writes, Idle

LEMMA BeginTyped ==
    ASSUME TypeInv, NEW w \in Writers, NEW o, NEW r \in Writes, Begin(w, o, r),
           DOMAIN met' = Operators, DOMAIN seen' = Operators
    PROVE  TypeInv' /\ UNCHANGED <<journal, op>>
BY OperationConstants DEF Begin, Change, TypeInv, authority

LEMMA WriteInv == \A w \in Writers : OInv /\ WriteStep(w) /\ Observe => OInv'
<1> SUFFICES ASSUME NEW w \in Writers, OInv, WriteStep(w), Observe PROVE OInv'
  OBVIOUS
<1> USE OperationConstants
<1>1. TypeInv /\ CallOK
  BY DEF OInv
<1>2. DOMAIN met' = Operators /\ DOMAIN seen' = Operators
  BY <1>1, HistoryTyped DEF CallOK
<1>3. ASSUME NEW a \in Agents, RevokeAgent(w, a) PROVE OInv'
  <2> DEFINE new == [usecase EXCEPT !.allowed = usecase.allowed \ {a}]
  <2>1. usecase \in UseCase
    BY <1>1, <1>3 DEF RevokeAgent, TypeInv
  <2>2. new \in UseCase
    BY <2>1 DEF UseCase
  <2>3. [stage |-> "carry", record |-> new] \in Writes
    BY <2>2 DEF Writes
  <2> QED
    BY <1>1, <1>2, <1>3, <2>3, BeginTyped, OthersKeep DEF RevokeAgent
<1>4. ASSUME NEW a \in Agents, GuardianPause(w, a) PROVE OInv'
  <2>1. [stage |-> "pause", agent |-> a] \in Writes
    BY DEF Writes
  <2> QED
    BY <1>1, <1>2, <1>4, <2>1, BeginTyped, OthersKeep DEF GuardianPause
<1>5. ASSUME NEW a \in Agents, NEW terms \in Terms, NEW v \in 1..MaxVersion,
             RegisterLane(w, a, terms, v)
      PROVE  OInv'
  <2>1. [stage |-> "lane", agent |-> a, lane |-> [version |-> v, terms |-> terms]] \in Writes
    BY DEF Writes, Lane
  <2> QED
    BY <1>1, <1>2, <1>5, <2>1, BeginTyped, OthersKeep DEF RegisterLane
<1>6. [write EXCEPT ![w] = Idle] \in [Writers -> Writes]
  BY <1>1 DEF TypeInv, Writes
<1>10. ASSUME CarryForward(w) PROVE OInv'
  <2> DEFINE old == write[w].record
             new == Carried(old)
  <2>1. old \in UseCase
    BY <1>1, <1>10, WriteShape DEF CarryForward
  <2>2. new \in UseCase
    <3>1. CASE usecase = NoUseCase
      BY <2>1, <3>1 DEF Carried
    <3>2. CASE usecase # NoUseCase
      <4>1. usecase \in UseCase
        BY <1>1, <3>2 DEF TypeInv
      <4> HIDE DEF old
      <4> QED
        BY <2>1, <4>1 DEF UseCase, Carried
    <3> QED
      BY <3>1, <3>2
  <2>3. [stage |-> "revoke", record |-> new] \in Writes
    BY <2>2 DEF Writes
  <2>4. TypeInv' /\ UNCHANGED <<journal, op>>
    BY <1>1, <1>2, <1>10, <2>3 DEF TypeInv, CarryForward, authority
  <2> QED
    BY <2>4, OthersKeep
<1>7. ASSUME AppendRevision(w) PROVE OInv'
  <2>1. TypeInv' /\ UNCHANGED <<journal, op>>
    BY <1>1, <1>2, <1>6, <1>7, WriteShape DEF TypeInv, AppendRevision, Done
  <2> QED
    BY <2>1, OthersKeep
<1>8. ASSUME AppendLane(w) PROVE OInv'
  <2>1. lane' \in [Agents -> Lane \cup {NoLane}]
    BY <1>1, <1>8, WriteShape DEF TypeInv, AppendLane
  <2>2. TypeInv' /\ UNCHANGED <<journal, op>>
    BY <1>1, <1>2, <1>6, <1>8, <2>1 DEF TypeInv, AppendLane, Done
  <2> QED
    BY <2>2, OthersKeep
<1>9. ASSUME AppendPause(w) PROVE OInv'
  <2>1. write[w].agent \in Parties /\ "suspended" \in Statuses
    BY <1>1, <1>9, WriteShape DEF AppendPause, Statuses
  <2>2. party' \in [Parties -> PartyRecord]
    BY <1>1, <1>9, <2>1, PartyTyped DEF AppendPause
  <2>3. TypeInv' /\ UNCHANGED <<journal, op>>
    BY <1>1, <1>2, <1>6, <1>9, <2>2 DEF TypeInv, AppendPause, Done
  <2> QED
    BY <2>3, OthersKeep
<1> QED
  BY <1>3, <1>4, <1>5, <1>7, <1>8, <1>9, <1>10 DEF WriteStep

-----------------------------------------------------------------------------
(* The questions of admission.                                             *)

\* A call that is not in the journal yet.
LEMMA QuestionStep ==
    ASSUME OInv, Observe, Stays, UNCHANGED <<tokens, journal>>,
           NEW c \in Operators, NEW r \in Calls, op' = [op EXCEPT ![c] = r],
           r.stage \notin InJournal, (MetOK(c) /\ RecordOK(c))'
    PROVE  OInv'
<1>1. op'[c] = r
  BY DEF OInv, TypeInv
<1>2. RunOK(c)' /\ LensOK(c)'
  BY <1>1 DEF RunOK, LensOK, InJournal
<1>3. JournalTellsTheRun'
  BY DEF OInv, JournalTellsTheRun
<1>4. tokens' \in Seq(Claims) /\ journal' \in Seq(Run)
  BY DEF OInv, TypeInv
<1> QED
  BY <1>2, <1>3, <1>4, CallStep

\* A call that has not got past any question.
LEMMA NothingAsked ==
    ASSUME TypeInv, CallOK, Observe, NEW c \in Operators,
           op'[c].stage \in {"idle", "mint", "agent", "refuse"}
    PROVE  (MetOK(c) /\ RecordOK(c))'
<1>1. met'[c] \subseteq Demands
  BY HistoryTyped DEF CallOK
<1> QED
  BY <1>1 DEF MetOK, RecordOK, AfterAgent, AfterToken, AfterLane, AfterRecord, AfterStatus,
              AfterLast

LEMMA RefusedStep ==
    ASSUME OInv, Observe, Stays, UNCHANGED <<tokens, journal>>, NEW c \in Operators,
           op[c] \in Asking \cup Judged \cup Pricing,
           op' = [op EXCEPT ![c] = [op[c] EXCEPT !.stage = "refuse"]]
    PROVE  OInv'
<1> DEFINE r == [op[c] EXCEPT !.stage = "refuse"]
<1>1. r \in Asking \cup Judged \cup Pricing /\ r.stage = "refuse"
  BY DEF Asking, Judged, Pricing
<1>2. r \in Calls /\ r.stage \notin InJournal
  BY <1>1 DEF Calls, InJournal
<1>3. op'[c] = r
  BY DEF OInv, TypeInv
<1>4. (MetOK(c) /\ RecordOK(c))'
  BY <1>1, <1>3, NothingAsked DEF OInv
<1> HIDE DEF r
<1> QED
  BY <1>2, <1>4, QuestionStep DEF r

\* A question answered yes: the next one is put, and what it asked for held.
LEMMA AskStep ==
    ASSUME OInv, Observe, NEW c \in Operators, NEW stage, NEW answer, NEW next,
           Ask(c, stage, answer, next), op[c] \in Asking \cup Judged \cup Pricing,
           answer => next \in Calls /\ next.stage \notin InJournal,
           answer /\ op'[c] = next => (MetOK(c) /\ RecordOK(c))'
    PROVE  OInv'
<1>1. op \in [Operators -> Calls]
  BY DEF OInv, TypeInv
<1>2. CASE answer
  <2>1. op' = [op EXCEPT ![c] = next] /\ op'[c] = next
    BY <1>1, <1>2 DEF Ask
  <2> QED
    BY <1>2, <2>1, QuestionStep DEF Ask
<1>3. CASE ~answer
  <2>1. op' = [op EXCEPT ![c] = [op[c] EXCEPT !.stage = "refuse"]]
    BY <1>1, <1>3 DEF Ask
  <2> QED
    BY <2>1, RefusedStep DEF Ask
<1> QED
  BY <1>2, <1>3

\* Going on to the next stage keeps everything else of the call.
LEMMA ToShape ==
    ASSUME NEW c, NEW s
    PROVE  /\ op[c] \in Asking /\ s \in {"agent", "token", "lane", "usecase", "refuse"} =>
                To(c, s) \in Asking
           /\ op[c] \in Judged /\ s \in {"permitted", "status", "budget", "start", "refuse"} =>
                To(c, s) \in Judged /\ To(c, s).uc = op[c].uc
           /\ op[c] \in Asking \cup Judged =>
                /\ To(c, s).stage = s /\ To(c, s).agent = op[c].agent
                /\ To(c, s).token = op[c].token
BY DEF To, Asking, Judged

LEMMA CheckAgentInv == \A c \in Operators : OInv /\ CheckAgent(c) /\ Observe => OInv'
<1> SUFFICES ASSUME NEW c \in Operators, OInv, CheckAgent(c), Observe PROVE OInv'
  OBVIOUS
<1> DEFINE next == To(c, "token")
<1>1. TypeInv /\ CallOK /\ op[c].stage = "agent"
  BY DEF OInv, CheckAgent, Ask
<1>2. op[c] \in Asking
  BY <1>1, CallShape
<1>3. next \in Asking /\ next.stage = "token" /\ next.agent = op[c].agent
  BY <1>2, ToShape
<1>4. next \in Calls /\ next.stage \notin InJournal
  BY <1>3 DEF Calls, InJournal
<1>5. ASSUME ActiveAgent(op[c].agent), op'[c] = next PROVE (MetOK(c) /\ RecordOK(c))'
  <2>1. Holds(c)' \subseteq met'[c] /\ met'[c] \subseteq Demands
    BY <1>1, <1>3, <1>5, HistoryGrows, HistoryTyped DEF CallOK
  <2>2. "agent" \in Holds(c)'
    BY <1>3, <1>5 DEF Holds, Demands, ActiveAgent, CheckAgent, Ask, Stays, authority
  <2> QED
    BY <1>3, <1>5, <2>1, <2>2 DEF MetOK, RecordOK, AfterAgent, AfterToken, AfterLane,
                                 AfterRecord, AfterStatus, AfterLast
<1> HIDE DEF next
<1> QED
  BY <1>2, <1>4, <1>5, AskStep DEF CheckAgent, next

LEMMA CheckTokenInv == \A c \in Operators : OInv /\ CheckToken(c) /\ Observe => OInv'
<1> SUFFICES ASSUME NEW c \in Operators, OInv, CheckToken(c), Observe PROVE OInv'
  OBVIOUS
<1> DEFINE next == To(c, "lane")
<1>1. TypeInv /\ CallOK /\ MetOK(c) /\ op[c].stage = "token"
  BY DEF OInv, CallOK, CheckToken, Ask
<1>2. op[c] \in Asking
  BY <1>1, CallShape
<1>3. next \in Asking /\ next.stage = "lane" /\ next.agent = op[c].agent
      /\ next.token = op[c].token
  BY <1>2, ToShape
<1>4. next \in Calls /\ next.stage \notin InJournal
  BY <1>3 DEF Calls, InJournal
<1>5. ASSUME TokenLive(op[c].token, op[c].agent), op'[c] = next
      PROVE  (MetOK(c) /\ RecordOK(c))'
  <2>1. met'[c] = met[c] \cup Holds(c)' /\ met'[c] \subseteq Demands
    BY <1>1, <1>3, <1>5, HistoryGrows, HistoryTyped DEF CallOK
  <2>2. "token" \in Holds(c)'
    BY <1>3, <1>5 DEF Holds, Demands, TokenLive, CheckToken, Ask, Stays, authority
  <2> QED
    BY <1>1, <1>3, <1>5, <2>1, <2>2 DEF MetOK, RecordOK, AfterAgent, AfterToken, AfterLane,
                                      AfterRecord, AfterStatus, AfterLast
<1> HIDE DEF next
<1> QED
  BY <1>2, <1>4, <1>5, AskStep DEF CheckToken, next

LEMMA CheckLaneInv == \A c \in Operators : OInv /\ CheckLane(c) /\ Observe => OInv'
<1> SUFFICES ASSUME NEW c \in Operators, OInv, CheckLane(c), Observe PROVE OInv'
  OBVIOUS
<1> DEFINE next == To(c, "usecase")
<1>1. TypeInv /\ CallOK /\ MetOK(c) /\ op[c].stage = "lane"
  BY DEF OInv, CallOK, CheckLane, Ask
<1>2. op[c] \in Asking
  BY <1>1, CallShape
<1>3. next \in Asking /\ next.stage = "usecase" /\ next.agent = op[c].agent
      /\ next.token = op[c].token
  BY <1>2, ToShape
<1>4. next \in Calls /\ next.stage \notin InJournal
  BY <1>3 DEF Calls, InJournal
<1>5. ASSUME LaneCurrent(op[c].token, op[c].agent), op'[c] = next
      PROVE  (MetOK(c) /\ RecordOK(c))'
  <2>1. met'[c] = met[c] \cup Holds(c)' /\ met'[c] \subseteq Demands
    BY <1>1, <1>3, <1>5, HistoryGrows, HistoryTyped DEF CallOK
  <2>2. "lane" \in Holds(c)'
    BY <1>3, <1>5 DEF Holds, Demands, LaneCurrent, CheckLane, Ask, Stays, authority
  <2> QED
    BY <1>1, <1>3, <1>5, <2>1, <2>2 DEF MetOK, RecordOK, AfterAgent, AfterToken, AfterLane,
                                      AfterRecord, AfterStatus, AfterLast
<1> HIDE DEF next
<1> QED
  BY <1>2, <1>4, <1>5, AskStep DEF CheckLane, next

LEMMA ReadUseCaseInv == \A c \in Operators : OInv /\ ReadUseCase(c) /\ Observe => OInv'
<1> SUFFICES ASSUME NEW c \in Operators, OInv, ReadUseCase(c), Observe PROVE OInv'
  OBVIOUS
<1> DEFINE next == [stage |-> "permitted", agent |-> op[c].agent, token |-> op[c].token,
                    issues |-> op[c].issues, uc |-> usecase, steps |-> <<>>]
<1>1. TypeInv /\ CallOK /\ MetOK(c) /\ op[c].stage = "usecase"
  BY DEF OInv, CallOK, ReadUseCase, Ask
<1>2. op[c] \in Asking
  BY <1>1, CallShape
<1>3. usecase # NoUseCase => next \in Judged
  BY <1>1, <1>2 DEF Asking, Judged, TypeInv
<1>4. next.stage = "permitted" /\ next.uc = usecase
  OBVIOUS
<1>5. usecase # NoUseCase => next \in Calls /\ next.stage \notin InJournal
  BY <1>3, <1>4 DEF Calls, InJournal
<1>6. ASSUME usecase # NoUseCase, op'[c] = next PROVE (MetOK(c) /\ RecordOK(c))'
  <2>1. met'[c] = met[c] \cup Holds(c)' /\ met'[c] \subseteq Demands
    BY <1>1, <1>4, <1>6, HistoryGrows, HistoryTyped DEF CallOK
  <2>2. usecase' = usecase /\ Present' \in seen'[c] /\ Present'.usecase = usecase'
    BY <1>1, <1>4, <1>6, HistoryGrows DEF ReadUseCase, Ask, Stays, authority, Present
  <2>3. MetOK(c)'
    BY <1>1, <1>4, <1>6, <2>1 DEF MetOK, AfterAgent, AfterToken, AfterLane, AfterRecord,
                                 AfterStatus, AfterLast
  <2>4. RecordOK(c)'
    BY <1>4, <1>6, <2>2 DEF RecordOK, AfterRecord, AfterStatus, AfterLast
  <2> QED
    BY <2>3, <2>4
<1> HIDE DEF next
<1> QED
  BY <1>2, <1>5, <1>6, AskStep DEF ReadUseCase, next

LEMMA CheckPermittedInv == \A c \in Operators : OInv /\ CheckPermitted(c) /\ Observe => OInv'
<1> SUFFICES ASSUME NEW c \in Operators, OInv, CheckPermitted(c), Observe PROVE OInv'
  OBVIOUS
<1> DEFINE next == To(c, "status")
           permitted == usecase # NoUseCase /\ op[c].agent \in usecase.allowed
<1>1. TypeInv /\ CallOK /\ MetOK(c) /\ RecordOK(c) /\ op[c].stage = "permitted"
  BY DEF OInv, CallOK, CheckPermitted, Ask
<1>2. op[c] \in Judged
  BY <1>1, CallShape
<1>3. next \in Judged /\ next.stage = "status" /\ next.agent = op[c].agent /\ next.uc = op[c].uc
  BY <1>2, ToShape
<1>4. next \in Calls /\ next.stage \notin InJournal
  BY <1>3 DEF Calls, InJournal
<1>5. ASSUME permitted, op'[c] = next PROVE (MetOK(c) /\ RecordOK(c))'
  <2>1. /\ met'[c] = met[c] \cup Holds(c)' /\ met'[c] \subseteq Demands
        /\ seen[c] \subseteq seen'[c]
    BY <1>1, <1>3, <1>5, HistoryGrows, HistoryTyped DEF CallOK
  <2>2. "permitted" \in Holds(c)'
    BY <1>3, <1>5 DEF Holds, Demands, CheckPermitted, Ask, Stays, authority
  <2>3. MetOK(c)'
    BY <1>1, <1>3, <1>5, <2>1, <2>2 DEF MetOK, AfterAgent, AfterToken, AfterLane, AfterRecord,
                                      AfterStatus, AfterLast
  <2>4. RecordOK(c)'
    BY <1>1, <1>3, <1>5, <2>1 DEF RecordOK, AfterRecord, AfterStatus, AfterLast
  <2> QED
    BY <2>3, <2>4
<1> HIDE DEF next
<1> QED
  BY <1>2, <1>4, <1>5, AskStep DEF CheckPermitted, next

LEMMA CheckStatusInv == \A c \in Operators : OInv /\ CheckStatus(c) /\ Observe => OInv'
<1> SUFFICES ASSUME NEW c \in Operators, OInv, CheckStatus(c), Observe PROVE OInv'
  OBVIOUS
<1> DEFINE next == To(c, "budget")
           clear == /\ party[op[c].agent].kind = "agent" => party[op[c].agent].status = "active"
                    /\ ~op[c].uc.prohibited
<1>1. TypeInv /\ CallOK /\ MetOK(c) /\ RecordOK(c) /\ op[c].stage = "status"
  BY DEF OInv, CallOK, CheckStatus, Ask
<1>2. op[c] \in Judged
  BY <1>1, CallShape
<1>3. next \in Judged /\ next.stage = "budget" /\ next.uc = op[c].uc
  BY <1>2, ToShape
<1>4. next \in Calls /\ next.stage \notin InJournal
  BY <1>3 DEF Calls, InJournal
<1>5. ASSUME clear, op'[c] = next PROVE (MetOK(c) /\ RecordOK(c))'
  <2>1. met[c] \subseteq met'[c] /\ met'[c] \subseteq Demands /\ seen[c] \subseteq seen'[c]
    BY <1>1, <1>3, <1>5, HistoryGrows, HistoryTyped DEF CallOK
  <2>2. MetOK(c)'
    BY <1>1, <1>3, <1>5, <2>1 DEF MetOK, AfterAgent, AfterToken, AfterLane, AfterRecord,
                                 AfterStatus, AfterLast
  <2>3. RecordOK(c)'
    BY <1>1, <1>3, <1>5, <2>1 DEF RecordOK, AfterRecord, AfterStatus, AfterLast
  <2> QED
    BY <2>2, <2>3
<1> HIDE DEF next
<1> QED
  BY <1>2, <1>4, <1>5, AskStep DEF CheckStatus, next

LEMMA ReadCapInv == \A c \in Operators : OInv /\ ReadCap(c) /\ Observe => OInv'
<1> SUFFICES ASSUME NEW c \in Operators, OInv, ReadCap(c), Observe PROVE OInv'
  OBVIOUS
<1> DEFINE start == To(c, "start")
           price == [stage |-> "spend", agent |-> op[c].agent, token |-> op[c].token,
                     issues |-> op[c].issues, uc |-> op[c].uc, steps |-> <<>>, cap |-> budget]
           next == IF budget = NoCap THEN start ELSE price
<1>1. TypeInv /\ CallOK /\ MetOK(c) /\ RecordOK(c) /\ op[c].stage = "budget"
  BY DEF OInv, CallOK, ReadCap, Ask
<1>2. op[c] \in Judged
  BY <1>1, CallShape
<1>3. start \in Judged /\ start.stage = "start" /\ start.uc = op[c].uc
  BY <1>2, ToShape
<1>4. budget # Unreadable /\ budget # NoCap => price \in Pricing
  BY <1>1, <1>2, OperationConstants DEF Judged, Pricing, TypeInv
<1>5. price.stage = "spend" /\ price.uc = op[c].uc /\ price.cap = budget
  OBVIOUS
<1> HIDE DEF start, price
<1>6. budget # Unreadable => next \in Calls /\ next.stage \notin InJournal
  BY <1>3, <1>4, <1>5 DEF Calls, InJournal
<1>7. next.stage \in {"start", "spend"} /\ next.uc = op[c].uc
      /\ (next.stage = "start" => budget = NoCap)
      /\ (next.stage = "spend" => next.cap = budget)
  BY <1>3, <1>5
<1> HIDE DEF next
<1>8. ASSUME budget # Unreadable, op'[c] = next
      PROVE  (MetOK(c) /\ RecordOK(c))'
  <2>1. /\ met[c] \subseteq met'[c] /\ met'[c] \subseteq Demands
        /\ seen[c] \subseteq seen'[c] /\ Present' \in seen'[c]
    BY <1>1, <1>7, <1>8, HistoryGrows, HistoryTyped DEF CallOK
  <2>2. Present'.budget = budget
    BY DEF Present, ReadCap, Ask, Stays, authority
  <2>3. MetOK(c)'
    BY <1>1, <1>7, <1>8, <2>1, <2>2 DEF MetOK, AfterAgent, AfterToken, AfterLane, AfterRecord,
                                      AfterStatus, AfterLast, RoomLeft
  <2>4. RecordOK(c)'
    BY <1>1, <1>7, <1>8, <2>1 DEF RecordOK, AfterRecord, AfterStatus, AfterLast
  <2> QED
    BY <2>3, <2>4
<1> QED
  BY <1>2, <1>6, <1>8, AskStep DEF ReadCap, next, start, price

LEMMA CheckSpendInv == \A c \in Operators : OInv /\ CheckSpend(c) /\ Observe => OInv'
<1> SUFFICES ASSUME NEW c \in Operators, OInv, CheckSpend(c), Observe PROVE OInv'
  OBVIOUS
<1> DEFINE next == Admitted(c)
<1>1. TypeInv /\ CallOK /\ MetOK(c) /\ RecordOK(c) /\ op[c].stage = "spend"
  BY DEF OInv, CallOK, CheckSpend, Ask
<1>2. op[c] \in Pricing
  BY <1>1, CallShape
<1>3. next \in Judged /\ next.stage = "start" /\ next.uc = op[c].uc
  BY <1>2 DEF Admitted, Pricing, Judged
<1>4. next \in Calls /\ next.stage \notin InJournal
  BY <1>3 DEF Calls, InJournal
<1> HIDE DEF next
<1>5. ASSUME spend < op[c].cap, op'[c] = next PROVE (MetOK(c) /\ RecordOK(c))'
  <2>1. /\ met[c] \subseteq met'[c] /\ met'[c] \subseteq Demands
        /\ seen[c] \subseteq seen'[c] /\ Present' \in seen'[c]
    BY <1>1, <1>3, <1>5, HistoryGrows, HistoryTyped DEF CallOK
  <2>2. Present'.spend = spend
    BY DEF Present, CheckSpend, Ask, Stays, authority
  <2>3. PICK v \in seen[c] : v.budget # Unreadable /\ v.budget = op[c].cap
    BY <1>1 DEF MetOK
  <2>4. RoomLeft(c)'
    BY <1>5, <2>1, <2>2, <2>3 DEF RoomLeft
  <2>5. MetOK(c)'
    BY <1>1, <1>3, <1>5, <2>1, <2>4 DEF MetOK, AfterAgent, AfterToken, AfterLane, AfterRecord,
                                      AfterStatus, AfterLast
  <2>6. RecordOK(c)'
    BY <1>1, <1>3, <1>5, <2>1 DEF RecordOK, AfterRecord, AfterStatus, AfterLast
  <2> QED
    BY <2>5, <2>6
<1> QED
  BY <1>2, <1>4, <1>5, AskStep DEF CheckSpend, next

-----------------------------------------------------------------------------
(* Sessions, and a call that begins or dies.                               *)

LEMMA GovernanceOpenInv ==
    \A c \in Operators, a \in Agents : OInv /\ GovernanceOpen(c, a) /\ Observe => OInv'
<1> SUFFICES ASSUME NEW c \in Operators, NEW a \in Agents, OInv, GovernanceOpen(c, a), Observe
             PROVE OInv'
  OBVIOUS
<1> DEFINE r == [stage |-> "mint", agent |-> a]
<1>1. r \in Calls /\ r.stage = "mint" /\ r.stage \notin InJournal
  BY DEF Calls, Minting, InJournal
<1>2. op' = [op EXCEPT ![c] = r] /\ op'[c] = r
  BY DEF GovernanceOpen, OInv, TypeInv
<1>3. (MetOK(c) /\ RecordOK(c))'
  BY <1>1, <1>2, NothingAsked DEF OInv
<1> HIDE DEF r
<1> QED
  BY <1>1, <1>2, <1>3, QuestionStep DEF GovernanceOpen

LEMMA MintInv == \A c \in Operators : OInv /\ Mint(c) /\ Observe => OInv'
<1> SUFFICES ASSUME NEW c \in Operators, OInv, Mint(c), Observe PROVE OInv'
  OBVIOUS
<1>1. TypeInv /\ op[c].agent \in Agents
  BY CallShape DEF OInv, Mint, Minting
<1>2. op' = [op EXCEPT ![c] = Idle] /\ op'[c] = Idle /\ Idle \in Calls /\ Idle.stage = "idle"
  BY <1>1 DEF Mint, TypeInv, Calls, Idle
<1>3. tokens' \in Seq(Claims) /\ DOMAIN tokens \subseteq DOMAIN tokens'
  <2> DEFINE claims == [agent |-> op[c].agent, terms |-> lane[op[c].agent].terms,
                        exp |-> clock + TTL]
  <2>1. tokens \in Seq(Claims)
    BY <1>1 DEF TypeInv
  <2>2. CASE lane[op[c].agent] = NoLane \/ Len(tokens) = MaxTokens
    BY <2>1, <2>2 DEF Mint
  <2>3. CASE ~(lane[op[c].agent] = NoLane \/ Len(tokens) = MaxTokens)
    <3>1. claims \in Claims
      BY <1>1, <2>3, OperationConstants DEF TypeInv, Lane, Claims
    <3>2. tokens' = Append(tokens, claims)
      BY <2>3 DEF Mint
    <3> HIDE DEF claims
    <3> QED
      BY <2>1, <3>1, <3>2
  <2> QED
    BY <2>2, <2>3
<1>4. (MetOK(c) /\ RecordOK(c) /\ RunOK(c) /\ LensOK(c))'
  BY <1>1, <1>2, NothingAsked DEF OInv, RunOK, LensOK, InJournal
<1>5. journal' = journal /\ journal' \in Seq(Run) /\ JournalTellsTheRun' /\ Stays
  BY <1>1 DEF OInv, TypeInv, JournalTellsTheRun, Mint
<1>6. Idle.stage \notin InJournal
  BY <1>2 DEF InJournal
<1> QED
  BY <1>2, <1>3, <1>4, <1>5, <1>6, CallStep

LEMMA OperateInv ==
    \A c \in Operators, a \in Agents, n \in DOMAIN tokens, issues \in IssueLists :
        OInv /\ Operate(c, a, n, issues) /\ Observe => OInv'
<1> SUFFICES ASSUME NEW c \in Operators, NEW a \in Agents, NEW n \in DOMAIN tokens,
                    NEW issues \in IssueLists, OInv, Operate(c, a, n, issues), Observe
             PROVE OInv'
  OBVIOUS
<1> DEFINE r == [stage |-> "agent", agent |-> a, token |-> n, issues |-> issues]
<1>1. n \in Nat
  BY DEF OInv, TypeInv
<1>2. r \in Calls /\ r.stage = "agent" /\ r.stage \notin InJournal
  BY <1>1 DEF Calls, Asking, InJournal
<1>3. op' = [op EXCEPT ![c] = r] /\ op'[c] = r
  BY DEF Operate, OInv, TypeInv
<1>4. (MetOK(c) /\ RecordOK(c))'
  BY <1>2, <1>3, NothingAsked DEF OInv
<1> HIDE DEF r
<1> QED
  BY <1>2, <1>3, <1>4, QuestionStep DEF Operate

LEMMA DieInv == \A c \in Operators : OInv /\ Die(c) /\ Observe => OInv'
<1> SUFFICES ASSUME NEW c \in Operators, OInv, Die(c), Observe PROVE OInv'
  OBVIOUS
<1>1. op' = [op EXCEPT ![c] = Idle] /\ op'[c] = Idle /\ Idle \in Calls /\ Idle.stage = "idle"
  BY DEF Die, OInv, TypeInv, Calls, Idle
<1>2. (MetOK(c) /\ RecordOK(c))'
  BY <1>1, NothingAsked DEF OInv
<1>3. Idle.stage \notin InJournal
  BY <1>1 DEF InJournal
<1> QED
  BY <1>1, <1>2, <1>3, QuestionStep DEF Die

-----------------------------------------------------------------------------
(* What a call writes to the journal.                                      *)

\* What JournalTellsTheRun says of one run.
Tells(r) ==
    /\ r.final = "refused" => r.steps = <<>>
    /\ r.final = "complete" =>
         Len(r.steps) = Len(r.asked) /\ \A k \in DOMAIN r.steps : r.steps[k] = "auto"
    /\ r.final = "awaiting-human" => \E k \in DOMAIN r.steps : r.steps[k] # "auto"
    /\ StepsFit(r.steps, r.asked)

LEMMA JournalAppended ==
    ASSUME OInv, NEW r \in Run, Tells(r), journal' = Append(journal, r)
    PROVE  /\ journal' \in Seq(Run) /\ DOMAIN journal \subseteq DOMAIN journal'
           /\ \A i \in DOMAIN journal : journal'[i] = journal[i]
           /\ Len(journal) + 1 \in DOMAIN journal' /\ Len(journal) + 1 \notin DOMAIN journal
           /\ journal'[Len(journal) + 1] = r
           /\ JournalTellsTheRun'
<1>1. journal \in Seq(Run)
  BY DEF OInv, TypeInv
<1>2. /\ journal' \in Seq(Run) /\ DOMAIN journal' = DOMAIN journal \cup {Len(journal) + 1}
      /\ \A i \in DOMAIN journal : journal'[i] = journal[i]
      /\ Len(journal) + 1 \notin DOMAIN journal
      /\ journal'[Len(journal) + 1] = r
  BY <1>1
<1>3. \A i \in DOMAIN journal' : Tells(journal'[i])
  BY <1>2 DEF OInv, JournalTellsTheRun, Tells, StepsFit
<1> QED
  BY <1>2, <1>3 DEF JournalTellsTheRun, Tells, StepsFit

LEMMA JournalReplaced ==
    ASSUME OInv, NEW i \in DOMAIN journal, NEW r \in Run, Tells(r),
           journal' = [journal EXCEPT ![i] = r]
    PROVE  /\ journal' \in Seq(Run) /\ DOMAIN journal' = DOMAIN journal
           /\ \A j \in DOMAIN journal : j # i => journal'[j] = journal[j]
           /\ journal'[i] = r
           /\ JournalTellsTheRun'
<1>1. journal \in Seq(Run)
  BY DEF OInv, TypeInv
<1>2. /\ journal' \in Seq(Run) /\ DOMAIN journal' = DOMAIN journal
      /\ \A j \in DOMAIN journal : j # i => journal'[j] = journal[j]
      /\ journal'[i] = r
  BY <1>1
<1>3. \A j \in DOMAIN journal' : Tells(journal'[j])
  BY <1>2 DEF OInv, JournalTellsTheRun, Tells, StepsFit
<1> QED
  BY <1>2, <1>3 DEF JournalTellsTheRun, Tells, StepsFit

LEMMA RunTyped ==
    ASSUME TypeInv, NEW i \in DOMAIN journal
    PROVE  journal[i] \in Run /\ journal[i].warned \in BOOLEAN
<1>1. journal[i] \in Run
  BY DEF TypeInv
<1> QED
  BY <1>1 DEF Run

LEMMA RefuseInv == \A c \in Operators : OInv /\ Refuse(c) /\ Observe => OInv'
<1> SUFFICES ASSUME NEW c \in Operators, OInv, Refuse(c), Observe PROVE OInv'
  OBVIOUS
<1> DEFINE r == Record(c, <<>>, "refused", FALSE)
<1>1. TypeInv /\ op[c] \in Asking \cup Judged \cup Pricing
  BY CallShape DEF OInv, Refuse
<1>2. r \in Run /\ Tells(r) /\ journal' = Append(journal, r)
  <2>1. op[c].agent \in Agents /\ op[c].issues \in IssueLists /\ Len(op[c].issues) \in Nat
    BY <1>1, OperationConstants DEF Asking, Judged, Pricing
  <2> QED
    BY <2>1 DEF Record, Run, Finals, Tells, StepsFit, Refuse
<1>3. op' = [op EXCEPT ![c] = Idle] /\ op'[c] = Idle /\ Idle \in Calls /\ Idle.stage = "idle"
  BY <1>1 DEF Refuse, TypeInv, Calls, Idle
<1>4. (MetOK(c) /\ RecordOK(c) /\ RunOK(c) /\ LensOK(c))'
  BY <1>1, <1>3, NothingAsked DEF OInv, RunOK, LensOK, InJournal
<1>5. Idle.stage \notin InJournal /\ tokens' \in Seq(Claims) /\ tokens' = tokens /\ Stays
  BY <1>1, <1>3 DEF InJournal, Refuse, TypeInv
<1> HIDE DEF r
<1> QED
  BY <1>2, <1>3, <1>4, <1>5, JournalAppended, CallStep

\* A call that goes on keeps what its questions were answered and its record.
LEMMA GoesOn ==
    ASSUME TypeInv, CallOK, Observe, NEW c \in Operators, op[c].stage \in AfterLast,
           op'[c].stage \in AfterLast, op'[c].uc = op[c].uc
    PROVE  (MetOK(c) /\ RecordOK(c))'
<1>1. op'[c].stage # "idle" /\ op'[c].stage # "mint"
  BY DEF AfterLast
<1>2. met[c] \subseteq met'[c] /\ met'[c] \subseteq Demands /\ seen[c] \subseteq seen'[c]
  BY <1>1, HistoryGrows, HistoryTyped DEF CallOK
<1>3. MetOK(c) /\ RecordOK(c)
  BY DEF CallOK
<1>4. MetOK(c)'
  BY <1>2, <1>3 DEF MetOK, RoomLeft, AfterAgent, AfterToken, AfterLane, AfterRecord,
                    AfterStatus, AfterLast
<1>5. RecordOK(c)'
  BY <1>2, <1>3 DEF RecordOK, AfterRecord, AfterStatus, AfterLast
<1> QED
  BY <1>4, <1>5

LEMMA StartRunInv == \A c \in Operators : OInv /\ StartRun(c) /\ Observe => OInv'
<1> SUFFICES ASSUME NEW c \in Operators, OInv, StartRun(c), Observe PROVE OInv'
  OBVIOUS
<1> DEFINE new == Len(journal) + 1
           r == Record(c, <<>>, "running", FALSE)
           next == [stage |-> "tags", agent |-> op[c].agent, token |-> op[c].token,
                    issues |-> op[c].issues, uc |-> op[c].uc, steps |-> <<>>, run |-> new]
<1>1. TypeInv /\ CallOK /\ op[c].stage = "start" /\ op[c] \in Judged
  BY CallShape DEF OInv, StartRun
<1>2. new \in Nat \ {0}
  BY <1>1 DEF TypeInv
<1>3. next \in Tagging
  BY <1>1, <1>2 DEF Judged, Tagging
<1>4. next \in Calls /\ next.stage = "tags" /\ next.run = new /\ next.uc = op[c].uc
      /\ next.steps = <<>> /\ next.agent = op[c].agent /\ next.issues = op[c].issues
  BY <1>3 DEF Calls
<1>5. op' = [op EXCEPT ![c] = next] /\ op'[c] = next
  BY <1>1 DEF StartRun, TypeInv
<1>6. Len(op[c].issues) \in Nat
  BY <1>1, OperationConstants DEF Judged
<1>7. r \in Run /\ Tells(r) /\ journal' = Append(journal, r)
  BY <1>1, <1>6 DEF Judged, Record, Run, Finals, Tells, StepsFit, StartRun
<1>8. (MetOK(c) /\ RecordOK(c))'
  BY <1>1, <1>4, <1>5, GoesOn DEF AfterLast
<1>9. RunOK(c)' /\ LensOK(c)'
  <2>1. new \in DOMAIN journal' /\ journal'[new] = r
    BY <1>7, JournalAppended
  <2> HIDE DEF new, next
  <2> QED
    BY <1>4, <1>5, <2>1 DEF RunOK, LensOK, Record, r
<1>10. tokens' \in Seq(Claims) /\ tokens' = tokens /\ Stays
  BY <1>1 DEF StartRun, TypeInv
<1>11. new \notin DOMAIN journal
  BY <1>7, JournalAppended
<1> HIDE DEF next, r, new
<1> QED
  BY <1>4, <1>5, <1>7, <1>8, <1>9, <1>10, <1>11, JournalAppended, CallStep

LEMMA LensInv ==
    ASSUME OInv, Observe, NEW c \in Operators, NEW tags \in SUBSET Tags, NEW warned \in BOOLEAN,
           Lens(c, tags), op[c].uc.tags \subseteq tags, warned \/ links \subseteq tags,
           journal' = [journal EXCEPT ![op[c].run] = Record(c, <<>>, "running", warned)]
    PROVE  OInv'
<1> DEFINE next == [stage |-> "issues", agent |-> op[c].agent, token |-> op[c].token,
                    issues |-> op[c].issues, uc |-> op[c].uc, steps |-> <<>>,
                    run |-> op[c].run, lens |-> tags]
           r == Record(c, <<>>, "running", warned)
<1>1. TypeInv /\ CallOK /\ RunOK(c) /\ op[c].stage = "tags" /\ op[c] \in Tagging
  BY CallShape DEF OInv, CallOK, Lens
<1>2. next \in Stepping
  BY <1>1 DEF Tagging, Stepping
<1>3. /\ next \in Calls /\ next.stage = "issues" /\ next.run = op[c].run /\ next.uc = op[c].uc
      /\ next.steps = <<>> /\ next.agent = op[c].agent /\ next.issues = op[c].issues
      /\ next.lens = tags
  BY <1>2 DEF Calls
<1>4. op' = [op EXCEPT ![c] = next] /\ op'[c] = next
  BY <1>1 DEF Lens, TypeInv
<1>5. (MetOK(c) /\ RecordOK(c))'
  BY <1>1, <1>3, <1>4, GoesOn DEF AfterLast
<1>6. Len(op[c].issues) \in Nat /\ op[c].agent \in Agents /\ op[c].issues \in IssueLists
  BY <1>1, OperationConstants DEF Tagging
<1>7. r \in Run /\ Tells(r)
  BY <1>6 DEF Record, Run, Finals, Tells, StepsFit
<1>8. op[c].run \in DOMAIN journal /\ op[c].stage \in InJournal
  BY <1>1 DEF RunOK, InJournal
<1>9. op[c].run \in DOMAIN journal' /\ journal'[op[c].run] = r
  BY <1>7, <1>8, JournalReplaced
<1>10. r = [agent |-> op[c].agent, steps |-> <<>>, final |-> "running",
            asked |-> op[c].issues, warned |-> warned]
  BY DEF Record
<1> HIDE DEF next
<1>11. RunOK(c)'
  BY <1>3, <1>4, <1>6, <1>9, <1>10 DEF RunOK, Record, StepsFit
<1>12. LensOK(c)'
  <2>1. Present' \in seen'[c]
    BY <1>1, <1>3, <1>4, HistoryGrows
  <2>2. Present'.links = links
    BY DEF Present, Lens, Stays, authority
  <2>3. r.warned = warned
    BY <1>10
  <2> HIDE DEF r
  <2> QED
    BY <1>3, <1>4, <1>9, <2>1, <2>2, <2>3 DEF LensOK
<1>13. tokens' = tokens /\ tokens' \in Seq(Claims) /\ Stays
  BY <1>1 DEF Lens, TypeInv
<1> HIDE DEF r
<1>14. /\ journal' \in Seq(Run) /\ DOMAIN journal' = DOMAIN journal /\ JournalTellsTheRun'
       /\ \A j \in DOMAIN journal : j # op[c].run => journal'[j] = journal[j]
  BY <1>7, <1>8, JournalReplaced DEF r
<1> QED
  BY <1>3, <1>4, <1>5, <1>8, <1>11, <1>12, <1>13, <1>14, CallStep

\* Both ways of reading the connectors write the run as it was, but for the warning.
LEMMA ConnectorsInv ==
    \A c \in Operators : OInv /\ (ReadConnectors(c) \/ ConnectorsUnreadable(c)) /\ Observe => OInv'
<1> SUFFICES ASSUME NEW c \in Operators, OInv, ReadConnectors(c) \/ ConnectorsUnreadable(c), Observe
             PROVE OInv'
  OBVIOUS
<1>1. TypeInv /\ RunOK(c) /\ op[c].stage = "tags" /\ op[c] \in Tagging
  BY CallShape DEF OInv, CallOK, ReadConnectors, ConnectorsUnreadable, Lens
<1>2. /\ op[c].steps = <<>> /\ op[c].uc.tags \subseteq Tags /\ links \subseteq Tags
  BY <1>1 DEF Tagging, UseCase, TypeInv
<1>3. /\ journal \in Seq(Run) /\ op[c].run \in DOMAIN journal
      /\ journal[op[c].run] = Record(c, <<>>, "running", journal[op[c].run].warned)
  BY <1>1, <1>2 DEF RunOK, InJournal, TypeInv
<1>4. journal[op[c].run].warned \in BOOLEAN
  <2>1. journal[op[c].run] \in Run
    BY <1>3
  <2> QED
    BY <2>1 DEF Run
<1>5. CASE ReadConnectors(c)
  <2>1. journal' = [journal EXCEPT ![op[c].run] =
                      Record(c, <<>>, "running", journal[op[c].run].warned)]
    BY <1>3, <1>5 DEF ReadConnectors
  <2> QED
    BY <1>2, <1>4, <1>5, <2>1, LensInv DEF ReadConnectors
<1>6. CASE ConnectorsUnreadable(c)
  <2> QED
    BY <1>2, <1>6, LensInv DEF ConnectorsUnreadable
<1> QED
  BY <1>5, <1>6

LEMMA DispositionIsEarned ==
    ASSUME NEW uc, NEW issue, NEW lens
    PROVE  /\ Disposition(uc, issue, lens) \in Dispositions
           /\ Disposition(uc, issue, lens) = "auto" =>
                Earned(uc, issue) /\ uc.reserved \cap (lens \cup issue.tags) = {}
BY DEF Disposition, Dispositions, Reserved, Earned

LEMMA StepIssueInv == \A c \in Operators : OInv /\ StepIssue(c) /\ Observe => OInv'
<1> SUFFICES ASSUME NEW c \in Operators, OInv, StepIssue(c), Observe PROVE OInv'
  OBVIOUS
<1> DEFINE k == Len(op[c].steps) + 1
           d == Disposition(op[c].uc, op[c].issues[k], op[c].lens)
           steps == Append(op[c].steps, d)
           next == [op[c] EXCEPT !.steps = steps]
           r == Record(c, steps, "running", journal[op[c].run].warned)
<1>1. TypeInv /\ CallOK /\ RunOK(c) /\ LensOK(c) /\ op[c].stage = "issues" /\ op[c] \in Stepping
  BY CallShape DEF OInv, CallOK, StepIssue
<1>2. op[c].steps \in Seq(Dispositions) /\ op[c].issues \in IssueLists
      /\ Len(op[c].steps) \in Nat /\ Len(op[c].issues) \in Nat
  BY <1>1, OperationConstants DEF Stepping
<1>3. d \in Dispositions /\ (d = "auto" => Earned(op[c].uc, op[c].issues[k]))
  BY DispositionIsEarned
<1> HIDE DEF d
<1>4. /\ steps \in Seq(Dispositions) /\ Len(steps) = k /\ steps[k] = d
      /\ DOMAIN steps = DOMAIN op[c].steps \cup {k}
      /\ \A j \in DOMAIN op[c].steps : steps[j] = op[c].steps[j]
  BY <1>2, <1>3
<1>5. k <= Len(op[c].issues)
  BY <1>2 DEF StepIssue
<1>6. op' = [op EXCEPT ![c].steps = steps]
      /\ journal' = [journal EXCEPT ![op[c].run].steps = steps]
  BY DEF StepIssue, d
<1>7. tokens' = tokens /\ tokens' \in Seq(Claims) /\ Stays
  BY <1>1 DEF StepIssue, TypeInv
<1> HIDE DEF steps, k
<1>8. next \in Stepping
  BY <1>1, <1>4 DEF Stepping
<1>9. /\ next \in Calls /\ next.stage = "issues" /\ next.run = op[c].run /\ next.uc = op[c].uc
      /\ next.steps = steps /\ next.agent = op[c].agent /\ next.issues = op[c].issues
      /\ next.lens = op[c].lens
  BY <1>1, <1>8 DEF Calls, Stepping
<1>10. op' = [op EXCEPT ![c] = next] /\ op'[c] = next
  BY <1>1, <1>6 DEF TypeInv
<1>11. /\ op[c].run \in DOMAIN journal /\ op[c].stage \in InJournal
       /\ journal[op[c].run] = Record(c, op[c].steps, "running", journal[op[c].run].warned)
       /\ journal[op[c].run].warned \in BOOLEAN
  BY <1>1, RunTyped DEF RunOK, InJournal
<1>12. [journal[op[c].run] EXCEPT !.steps = steps] = r
  BY <1>11 DEF Record
<1>13. journal' = [journal EXCEPT ![op[c].run] = r]
  BY <1>6, <1>12
<1>14. r \in Run /\ Tells(r)
  BY <1>1, <1>2, <1>4, <1>5, <1>11 DEF Record, Run, Finals, Tells, StepsFit, Stepping
<1> HIDE DEF next
<1>15. (MetOK(c) /\ RecordOK(c))'
  BY <1>1, <1>9, <1>10, GoesOn DEF AfterLast
<1>16. journal'[op[c].run] = r /\ op[c].run \in DOMAIN journal'
  BY <1>11, <1>13, <1>14, JournalReplaced
<1>17. RunOK(c)'
  <2>1. r = [agent |-> next.agent, steps |-> next.steps, final |-> "running",
             asked |-> next.issues, warned |-> r.warned]
    BY <1>9 DEF Record
  <2>2. \A j \in DOMAIN steps : steps[j] = "auto" => Earned(op[c].uc, op[c].issues[j])
    BY <1>1, <1>3, <1>4 DEF RunOK
  <2>3. StepsFit(steps, op[c].issues)
    BY <1>4, <1>5 DEF StepsFit
  <2> HIDE DEF r
  <2> QED
    BY <1>9, <1>10, <1>16, <2>1, <2>2, <2>3 DEF RunOK, Record
<1>18. LensOK(c)'
  <2>1. seen[c] \subseteq seen'[c]
    BY <1>1, <1>9, <1>10, HistoryGrows
  <2>2. r.warned = journal[op[c].run].warned
    BY DEF Record
  <2> HIDE DEF r
  <2> QED
    BY <1>1, <1>9, <1>10, <1>16, <2>1, <2>2 DEF LensOK
<1> HIDE DEF r
<1>19. /\ journal' \in Seq(Run) /\ DOMAIN journal' = DOMAIN journal /\ JournalTellsTheRun'
       /\ \A j \in DOMAIN journal : j # op[c].run => journal'[j] = journal[j]
  BY <1>11, <1>13, <1>14, JournalReplaced
<1> QED
  BY <1>7, <1>9, <1>10, <1>11, <1>15, <1>17, <1>18, <1>19, CallStep

LEMMA ReserveActInv == \A c \in Operators : OInv /\ ReserveAct(c) /\ Observe => OInv'
<1> SUFFICES ASSUME NEW c \in Operators, OInv, ReserveAct(c), Observe PROVE OInv'
  OBVIOUS
<1> DEFINE steps == <<"reserved">>
           next == [op[c] EXCEPT !.steps = steps]
           r == Record(c, steps, "running", journal[op[c].run].warned)
<1>1. TypeInv /\ CallOK /\ RunOK(c) /\ LensOK(c) /\ op[c].stage = "issues" /\ op[c] \in Stepping
  BY CallShape DEF OInv, CallOK, ReserveAct
<1>2. op[c].issues = <<>> /\ op[c].steps = <<>>
  BY DEF ReserveAct, ReservesAll
<1>3. steps \in Seq(Dispositions) /\ DOMAIN steps = {1} /\ steps[1] # "auto"
  <2>1. "reserved" \in Dispositions
    BY DEF Dispositions
  <2> QED
    BY <2>1
<1>4. next \in Stepping
  BY <1>1, <1>3 DEF Stepping
<1>5. op' = [op EXCEPT ![c].steps = steps]
      /\ journal' = [journal EXCEPT ![op[c].run].steps = steps]
  BY DEF ReserveAct
<1>6. tokens' = tokens /\ tokens' \in Seq(Claims) /\ Stays
  BY <1>1 DEF ReserveAct, TypeInv
<1>7. /\ next \in Calls /\ next.stage = "issues" /\ next.run = op[c].run /\ next.uc = op[c].uc
      /\ next.steps = steps /\ next.agent = op[c].agent /\ next.issues = op[c].issues
      /\ next.lens = op[c].lens
  BY <1>1, <1>4 DEF Calls, Stepping
<1>8. op' = [op EXCEPT ![c] = next] /\ op'[c] = next
  BY <1>1, <1>5 DEF TypeInv
<1>9. /\ op[c].run \in DOMAIN journal /\ op[c].stage \in InJournal
      /\ journal[op[c].run] = Record(c, op[c].steps, "running", journal[op[c].run].warned)
      /\ journal[op[c].run].warned \in BOOLEAN
  BY <1>1, RunTyped DEF RunOK, InJournal
<1>10. [journal[op[c].run] EXCEPT !.steps = steps] = r
  BY <1>9 DEF Record
<1>11. journal' = [journal EXCEPT ![op[c].run] = r]
  BY <1>5, <1>10
<1>12. r \in Run /\ Tells(r)
  BY <1>1, <1>2, <1>3, <1>9 DEF Record, Run, Finals, Tells, StepsFit, Stepping
<1> HIDE DEF next
<1>13. (MetOK(c) /\ RecordOK(c))'
  BY <1>1, <1>7, <1>8, GoesOn DEF AfterLast
<1>14. journal'[op[c].run] = r /\ op[c].run \in DOMAIN journal'
  BY <1>9, <1>11, <1>12, JournalReplaced
<1>15. RunOK(c)'
  <2>1. r = [agent |-> next.agent, steps |-> next.steps, final |-> "running",
             asked |-> next.issues, warned |-> r.warned]
    BY <1>7 DEF Record
  <2>2. StepsFit(steps, op[c].issues)
    BY <1>2 DEF StepsFit
  <2>3. \A j \in DOMAIN steps : steps[j] # "auto"
    BY <1>3
  <2> HIDE DEF r, steps
  <2> QED
    BY <1>7, <1>8, <1>14, <2>1, <2>2, <2>3 DEF RunOK, Record
<1>16. LensOK(c)'
  <2>1. seen[c] \subseteq seen'[c]
    BY <1>1, <1>7, <1>8, HistoryGrows
  <2>2. r.warned = journal[op[c].run].warned
    BY DEF Record
  <2> HIDE DEF r
  <2> QED
    BY <1>1, <1>7, <1>8, <1>14, <2>1, <2>2 DEF LensOK
<1> HIDE DEF r
<1>17. /\ journal' \in Seq(Run) /\ DOMAIN journal' = DOMAIN journal /\ JournalTellsTheRun'
       /\ \A j \in DOMAIN journal : j # op[c].run => journal'[j] = journal[j]
  BY <1>9, <1>11, <1>12, JournalReplaced
<1> QED
  BY <1>6, <1>7, <1>8, <1>9, <1>13, <1>15, <1>16, <1>17, CallStep

LEMMA OutcomeInv == \A c \in Operators : OInv /\ Outcome(c) /\ Observe => OInv'
<1> SUFFICES ASSUME NEW c \in Operators, OInv, Outcome(c), Observe PROVE OInv'
  OBVIOUS
<1> DEFINE steps == op[c].steps
           r == Record(c, steps, FinalOf(steps), journal[op[c].run].warned)
<1>1. TypeInv /\ CallOK /\ RunOK(c) /\ op[c].stage = "issues" /\ op[c] \in Stepping
  BY CallShape DEF OInv, CallOK, Outcome
<1>2. /\ steps \in Seq(Dispositions) /\ Len(steps) \in Nat /\ Len(op[c].issues) \in Nat
      /\ op[c].issues \in IssueLists /\ op[c].agent \in Agents
      /\ Len(steps) >= Len(op[c].issues)
  BY <1>1, OperationConstants DEF Stepping, Outcome
<1>3. /\ op[c].run \in DOMAIN journal /\ op[c].stage \in InJournal
      /\ journal[op[c].run] = Record(c, steps, "running", journal[op[c].run].warned)
      /\ journal[op[c].run].warned \in BOOLEAN /\ StepsFit(steps, op[c].issues)
  BY <1>1, RunTyped DEF RunOK, InJournal
<1>4. r \in Run
  BY <1>2, <1>3 DEF Record, Run, Finals, FinalOf
<1>5. Tells(r)
  <2>1. ASSUME FinalOf(steps) = "complete"
        PROVE  Len(steps) = Len(op[c].issues) /\ \A k \in DOMAIN steps : steps[k] = "auto"
    <3>1. \A k \in DOMAIN steps : steps[k] = "auto"
      BY <2>1 DEF FinalOf
    <3>2. steps # <<"reserved">>
      BY <3>1
    <3> QED
      BY <1>2, <1>3, <3>1, <3>2 DEF StepsFit
  <2>2. FinalOf(steps) = "awaiting-human" => \E k \in DOMAIN steps : steps[k] # "auto"
    BY DEF FinalOf
  <2>3. FinalOf(steps) \in {"complete", "awaiting-human"}
    BY DEF FinalOf
  <2> HIDE DEF steps
  <2> QED
    BY <1>3, <2>1, <2>2, <2>3 DEF Tells, Record
<1>6. journal' = [journal EXCEPT ![op[c].run] = r]
  <2>1. [journal[op[c].run] EXCEPT !.final = FinalOf(steps)] = r
    BY <1>3 DEF Record
  <2> HIDE DEF r
  <2> QED
    BY <2>1 DEF Outcome
<1>7. Stays /\ tokens' = tokens /\ tokens' \in Seq(Claims)
  BY <1>1 DEF Outcome, TypeInv
<1>8. op' = [op EXCEPT ![c] = Idle] /\ op'[c] = Idle /\ Idle \in Calls /\ Idle.stage = "idle"
  BY <1>1 DEF Outcome, TypeInv, Calls, Idle
<1>9. (MetOK(c) /\ RecordOK(c) /\ RunOK(c) /\ LensOK(c))' /\ Idle.stage \notin InJournal
  BY <1>1, <1>8, NothingAsked DEF OInv, RunOK, LensOK, InJournal
<1> HIDE DEF r
<1>10. /\ journal' \in Seq(Run) /\ DOMAIN journal' = DOMAIN journal /\ JournalTellsTheRun'
       /\ \A j \in DOMAIN journal : j # op[c].run => journal'[j] = journal[j]
  BY <1>3, <1>4, <1>5, <1>6, JournalReplaced
<1> QED
  BY <1>3, <1>7, <1>8, <1>9, <1>10, CallStep

-----------------------------------------------------------------------------
LEMMA OperateStepInv == \A c \in Operators : OInv /\ OperateStep(c) /\ Observe => OInv'
<1> SUFFICES ASSUME NEW c \in Operators, OInv, OperateStep(c), Observe PROVE OInv'
  OBVIOUS
<1> QED
  BY GovernanceOpenInv, MintInv, OperateInv, CheckAgentInv, CheckTokenInv, CheckLaneInv,
     ReadUseCaseInv, CheckPermittedInv, CheckStatusInv, ReadCapInv, CheckSpendInv, RefuseInv,
     StartRunInv, ConnectorsInv, StepIssueInv, ReserveActInv, OutcomeInv, DieInv
  DEF OperateStep

LEMMA OperationNextInv == OInv /\ [OperationNext]_operationVars => OInv'
<1> SUFFICES ASSUME OInv, [OperationNext]_operationVars PROVE OInv'
  OBVIOUS
<1>1. CASE OperationNext
  BY <1>1, ChangeInv, WriteInv, OperateStepInv DEF OperationNext
<1>2. CASE UNCHANGED operationVars
  <2>1. TypeInv' /\ UNCHANGED <<journal, op, met, seen>>
    BY <1>2 DEF OInv, TypeInv, operationVars, authority
  <2>2. CallOK'
    BY <2>1 DEF OInv, CallOK, MetOK, RoomLeft, RecordOK, RunOK, LensOK, Record
  <2>3. RunsApart' /\ JournalTellsTheRun'
    BY <2>1 DEF OInv, RunsApart, JournalTellsTheRun
  <2> QED
    BY <2>1, <2>2, <2>3 DEF OInv
<1> QED
  BY <1>1, <1>2

\* The inductive invariant.
THEOREM OperationInvariant == OperationSpec => []OInv
<1>1. OperationInit => OInv
  BY OperationInitInv
<1>2. OInv /\ [OperationNext]_operationVars => OInv'
  BY OperationNextInv
<1> QED
  BY <1>1, <1>2, PTL DEF OperationSpec

\* Every variable keeps its type.
THEOREM OperationTypeCorrect == OperationSpec => []OperationTypeOK
<1>1. OInv => OperationTypeOK
  <2> SUFFICES ASSUME OInv PROVE OperationTypeOK
    OBVIOUS
  <2>1. TypeInv /\ CallOK
    BY DEF OInv
  <2>2. ASSUME NEW c \in Operators, op[c].stage \in {"start", "tags", "issues"}
        PROVE  op[c].uc \in UseCase /\ op[c].steps \in Seq(Dispositions)
    <3>1. op[c] \in Judged \cup Tagging \cup Stepping
      BY <2>1, <2>2, CallShape
    <3>2. <<>> \in Seq(Dispositions)
      OBVIOUS
    <3> QED
      BY <3>1, <3>2 DEF Judged, Tagging, Stepping
  <2>3. journal \in Seq([agent : Agents, steps : Seq(Dispositions), final : Finals,
                         asked : IssueLists, warned : BOOLEAN])
    BY <2>1 DEF TypeInv, Run
  <2> QED
    BY <2>1, <2>2, <2>3 DEF OperationTypeOK, TypeInv
<1> QED
  BY <1>1, OperationInvariant, PTL

\* What stood against a call before it came in, and was not lifted, refuses it.
THEOREM StandingStopsBind == OperationSpec => []WhatStoodBeforeTheCallBinds
<1>1. OInv => WhatStoodBeforeTheCallBinds
  BY DEF OInv, CallOK, MetOK, WhatStoodBeforeTheCallBinds, Demands, AfterAgent, AfterToken,
         AfterLane, AfterRecord, AfterStatus, AfterLast
<1> QED
  BY <1>1, OperationInvariant, PTL

\* What runs_for tells of a run is what happened.
THEOREM JournalIsTrue == OperationSpec => []JournalTellsTheRun
<1>1. OInv => JournalTellsTheRun
  BY DEF OInv
<1> QED
  BY <1>1, OperationInvariant, PTL

-----------------------------------------------------------------------------
(* What a step may never do.                                               *)

\* Nobody else touches the run of a call that is deciding its issues.
LEMMA OthersLeaveTheRun ==
    ASSUME OInv, OperationNext, NEW c \in Operators, op[c].stage = "issues",
           ~StepIssue(c), ~ReserveAct(c), ~Outcome(c)
    PROVE  journal'[op[c].run] = journal[op[c].run]
<1> DEFINE OnRun(d) == StepIssue(d) \/ ReserveAct(d) \/ Outcome(d) \/ ConnectorsUnreadable(d)
<1>1. /\ journal \in Seq(Run) /\ op[c].run \in DOMAIN journal /\ op[c].stage \in InJournal
  BY DEF OInv, TypeInv, CallOK, RunOK, InJournal
<1>2. CASE journal' = journal
  BY <1>2
<1>3. ASSUME NEW r, journal' = Append(journal, r) PROVE journal'[op[c].run] = journal[op[c].run]
  BY <1>1, <1>3
<1>4. ASSUME NEW d \in Operators, OnRun(d)
      PROVE  journal'[op[c].run] = journal[op[c].run]
  <2>1. c # d /\ op[d].stage \in InJournal
    BY <1>4 DEF StepIssue, ReserveAct, Outcome, ConnectorsUnreadable, Lens, InJournal
  <2>2. op[d].run # op[c].run
    BY <1>1, <2>1 DEF OInv, RunsApart
  <2>3. \E r : journal' = [journal EXCEPT ![op[d].run] = r]
    BY <1>4 DEF StepIssue, ReserveAct, Outcome, ConnectorsUnreadable
  <2> QED
    BY <1>1, <2>2, <2>3
<1>5. ChangeStep => journal' = journal
  BY DEF ChangeStep, SetStatus, Reregister, RegisterUseCase, LinkConnectors, SetBudget,
         SpendCents, DeleteCapture, RevokeToken, Tick, Others
<1>6. \A w \in Writers : WriteStep(w) => journal' = journal
  BY DEF WriteStep, RevokeAgent, CarryForward, GuardianPause, RegisterLane, Begin,
         AppendRevision, AppendLane, AppendPause, Done
<1>7. ASSUME NEW d \in Operators, OperateStep(d)
      PROVE  journal' = journal \/ OnRun(d) \/ \E r : journal' = Append(journal, r)
  BY <1>7 DEF OperateStep, GovernanceOpen, Mint, Operate, CheckAgent, CheckToken, CheckLane,
              ReadUseCase, CheckPermitted, CheckStatus, ReadCap, CheckSpend, Ask, Refuse,
              StartRun, ReadConnectors, Die
<1> HIDE DEF OnRun
<1> QED
  BY <1>2, <1>3, <1>4, <1>5, <1>6, <1>7 DEF OperationNext

\* What the step of one issue adds: that issue's, unattended if nothing stands against it.
LEMMA StepIsEarned ==
    ASSUME OInv, NEW c \in Operators, StepIssue(c), NEW k \in Added(c),
           journal'[op[c].run].steps[k] = "auto"
    PROVE  /\ journal'[op[c].run].asked[k].sure
           /\ \E v, w \in seen[c] :
                /\ Frees(v.usecase, journal'[op[c].run].asked[k].tags
                                    \cup IF journal'[op[c].run].warned THEN {} ELSE w.links)
                /\ v.usecase.grade >= AutoGradeMin
<1> DEFINE uc == op[c].uc
           n == Len(op[c].steps) + 1
           issue == op[c].issues[n]
           d == Disposition(uc, issue, op[c].lens)
           steps == Append(op[c].steps, d)
           old == journal[op[c].run]
           new == journal'[op[c].run]
<1>1. /\ TypeInv /\ RunOK(c) /\ LensOK(c) /\ op[c] \in Stepping /\ op[c].stage = "issues"
      /\ op[c].run \in DOMAIN journal /\ journal \in Seq(Run)
      /\ old = Record(c, op[c].steps, "running", old.warned)
  BY CallShape DEF OInv, CallOK, RunOK, InJournal, TypeInv, StepIssue
<1>2. uc # NoUseCase /\ ~uc.prohibited /\ \E v \in seen[c] : v.usecase = uc
  BY <1>1 DEF OInv, CallOK, RecordOK, AfterRecord, AfterStatus, AfterLast
<1>3. d \in Dispositions
      /\ (d = "auto" => Earned(uc, issue) /\ uc.reserved \cap (op[c].lens \cup issue.tags) = {})
  BY DispositionIsEarned
<1>4. journal' = [journal EXCEPT ![op[c].run].steps = steps]
  BY DEF StepIssue
<1> HIDE DEF d
<1>5. op[c].steps \in Seq(Dispositions)
  BY <1>1 DEF Stepping
<1>6. DOMAIN steps = DOMAIN op[c].steps \cup {n} /\ steps[n] = d
  BY <1>3, <1>5
<1> HIDE DEF steps, n
<1>7. new = [old EXCEPT !.steps = steps]
  BY <1>1, <1>4
<1>8. old.steps = op[c].steps /\ new.steps = steps /\ new.asked = op[c].issues
      /\ new.warned = old.warned
  BY <1>1, <1>7 DEF Record
<1> HIDE DEF old, new
<1>9. k = n
  BY <1>6, <1>8 DEF Added, old, new
<1>10. d = "auto"
  BY <1>6, <1>8, <1>9 DEF new
<1>11. issue.sure /\ uc.grade >= AutoGradeMin /\ "always" \notin uc.reserved
       /\ uc.reserved \cap (op[c].lens \cup issue.tags) = {}
  BY <1>3, <1>10 DEF Earned
<1>12. new.asked[k] = issue
  BY <1>8, <1>9
<1>13. uc.tags \subseteq op[c].lens
       /\ (~new.warned => \E w \in seen[c] : w.links \subseteq op[c].lens)
  BY <1>1, <1>8 DEF LensOK, old
<1>14. PICK v \in seen[c] : v.usecase = uc
  BY <1>2
<1> HIDE DEF issue, uc
<1>15. PICK w \in seen[c] : ~new.warned => w.links \subseteq op[c].lens
  BY <1>13, <1>14
<1>16. Frees(v.usecase, new.asked[k].tags \cup IF new.warned THEN {} ELSE w.links)
  <2> DEFINE links_ == IF new.warned THEN {} ELSE w.links
  <2>1. links_ \subseteq op[c].lens
    BY <1>15
  <2> HIDE DEF links_
  <2>2. uc.reserved \cap (uc.tags \cup (issue.tags \cup links_)) = {}
    BY <1>11, <1>13, <2>1 DEF uc
  <2>3. Allows(uc)
    BY <1>2, <1>11 DEF Allows, uc
  <2> QED
    BY <1>12, <1>14, <2>2, <2>3 DEF Frees, links_
<1> QED
  BY <1>11, <1>12, <1>14, <1>16 DEF new, uc

\* A run is complete only on a record that allows the act.
LEMMA CompleteIsAllowed ==
    ASSUME OInv, NEW c \in Operators, Outcome(c), journal'[op[c].run].final = "complete"
    PROVE  \E v \in seen[c] : Allows(v.usecase)
<1> DEFINE steps == op[c].steps
<1>1. /\ TypeInv /\ RunOK(c) /\ op[c] \in Stepping /\ op[c].stage = "issues"
      /\ op[c].run \in DOMAIN journal /\ journal \in Seq(Run)
  BY CallShape DEF OInv, CallOK, RunOK, InJournal, TypeInv, Outcome
<1>2. op[c].uc # NoUseCase /\ ~op[c].uc.prohibited /\ \E v \in seen[c] : v.usecase = op[c].uc
  BY <1>1 DEF OInv, CallOK, RecordOK, AfterRecord, AfterStatus, AfterLast
<1>3. journal'[op[c].run].final = FinalOf(steps)
  <2>1. journal[op[c].run] \in Run
    BY <1>1
  <2> QED
    BY <1>1, <2>1 DEF Outcome, Run
<1>4. \A k \in DOMAIN steps : steps[k] = "auto"
  BY <1>3 DEF FinalOf
<1>5. "always" \notin op[c].uc.reserved
  <2>1. steps \in Seq(Dispositions) /\ op[c].issues \in Seq([sure : BOOLEAN, tags : SUBSET Tags])
    BY <1>1, OperationConstants DEF Stepping
  <2>2. CASE steps = <<>>
    <3>1. op[c].issues = <<>>
      BY <2>1, <2>2 DEF Outcome
    <3> QED
      BY <2>2, <3>1 DEF Outcome, ReservesAll
  <2>3. CASE steps # <<>>
    <3>1. 1 \in DOMAIN steps
      BY <2>1, <2>3
    <3>2. Earned(op[c].uc, op[c].issues[1])
      BY <1>1, <1>4, <3>1 DEF RunOK
    <3> QED
      BY <3>2 DEF Earned
  <2> QED
    BY <2>2, <2>3
<1> QED
  BY <1>2, <1>5 DEF Allows

\* Nothing runs unattended on authority nobody gave.
THEOREM UnattendedRunsAreEarned == OperationSpec => UnattendedIsEarned
<1>1. ASSUME OInv, OperationNext, NEW c \in Operators, op[c].stage = "issues"
      PROVE  /\ \A k \in Added(c) : StepEarned(c, k)
             /\ EndEarned(c)
  <2>1. /\ op[c].run \in DOMAIN journal /\ journal \in Seq(Run) /\ journal[op[c].run] \in Run
    BY <1>1 DEF OInv, CallOK, RunOK, InJournal, TypeInv
  <2>2. CASE StepIssue(c)
    <3>1. journal'[op[c].run].final = journal[op[c].run].final
      BY <2>1, <2>2 DEF StepIssue, Run
    <3>2. EndEarned(c)
      BY <3>1 DEF EndEarned
    <3>3. \A k \in Added(c) : StepEarned(c, k)
      BY <1>1, <2>2, StepIsEarned DEF StepEarned
    <3> QED
      BY <3>2, <3>3
  <2>3. CASE ReserveAct(c)
    <3>1. journal'[op[c].run] = [journal[op[c].run] EXCEPT !.steps = <<"reserved">>]
      BY <2>1, <2>3 DEF ReserveAct
    <3>2. /\ journal'[op[c].run].final = journal[op[c].run].final
          /\ journal'[op[c].run].steps = <<"reserved">>
      BY <2>1, <3>1 DEF Run
    <3>3. \A k \in Added(c) : journal'[op[c].run].steps[k] # "auto"
      BY <3>2 DEF Added
    <3> QED
      BY <3>2, <3>3 DEF StepEarned, EndEarned
  <2>4. CASE Outcome(c)
    <3>1. journal'[op[c].run].steps = journal[op[c].run].steps
      BY <2>1, <2>4 DEF Outcome, Run
    <3>2. Added(c) = {}
      BY <3>1 DEF Added
    <3> QED
      BY <1>1, <2>4, <3>2, CompleteIsAllowed DEF EndEarned
  <2>5. CASE ~StepIssue(c) /\ ~ReserveAct(c) /\ ~Outcome(c)
    <3>1. journal'[op[c].run] = journal[op[c].run]
      BY <1>1, <2>5, OthersLeaveTheRun
    <3>2. Added(c) = {}
      BY <3>1 DEF Added
    <3> QED
      BY <3>1, <3>2 DEF EndEarned
  <2> QED
    BY <2>2, <2>3, <2>4, <2>5
<1>2. \A c \in Operators : op[c].stage # "issues" => Added(c) = {} /\ EndEarned(c)
  BY DEF Added, EndEarned
<1>3. OInv /\ [OperationNext]_operationVars =>
        [\A c \in Operators : (\A k \in Added(c) : StepEarned(c, k)) /\ EndEarned(c)]_operationVars
  <2> SUFFICES ASSUME OInv, OperationNext, NEW c \in Operators
               PROVE  (\A k \in Added(c) : StepEarned(c, k)) /\ EndEarned(c)
    OBVIOUS
  <2>1. CASE op[c].stage = "issues"
    BY <1>1, <2>1
  <2>2. CASE op[c].stage # "issues"
    BY <1>2, <2>2
  <2> QED
    BY <2>1, <2>2
<1> QED
  BY <1>3, OperationInvariant, PTL DEF OperationSpec, UnattendedIsEarned

\* A stop stays until somebody lifts it.
THEOREM OnlyPeopleLiftStops == OperationSpec => StopsAreLiftedByPeople
<1>1. ASSUME OInv, OperationNext, NEW p \in Parties,
             party[p].status \in {"suspended", "killed"}, party'[p].status = "active"
      PROVE  SetStatus(p, "active")
  <2>1. party \in [Parties -> PartyRecord] /\ TypeInv
    BY <1>1 DEF OInv, TypeInv
  <2>2. party' # party
    BY <1>1
  <2>3. ASSUME NEW q \in Parties, NEW s \in Statuses, SetStatus(q, s)
        PROVE  SetStatus(p, "active")
    <3>1. party[q] # Unregistered
      BY <2>2, <2>3 DEF SetStatus, SetPartyStatus
    <3>2. party' = [party EXCEPT ![q] = [kind |-> party[q].kind, comps |-> party[q].comps,
                                         status |-> s]]
      BY <2>3, <3>1 DEF SetStatus, SetPartyStatus
    <3>3. p = q /\ s = "active"
      BY <1>1, <2>1, <3>2
    <3> QED
      BY <2>3, <3>3
  <2>4. ASSUME NEW a \in Agents, NEW kind \in {"human", "agent"}, Reregister(a, kind)
        PROVE  FALSE
    <3>1. party' = [party EXCEPT ![a] = [kind |-> kind, comps |-> {},
                      status |-> IF party[a] = Unregistered THEN "active" ELSE party[a].status]]
      BY <2>4 DEF Reregister, RegisterParty
    <3>2. p = a /\ party[a] = Unregistered
      BY <1>1, <2>1, <3>1
    <3> QED
      BY <1>1, <3>2 DEF Unregistered
  <2>5. ASSUME NEW w \in Writers, AppendPause(w) PROVE FALSE
    <3> DEFINE a == write[w].agent
    <3>1. party' = party \/
          party' = [party EXCEPT ![a] = [kind |-> party[a].kind, comps |-> party[a].comps,
                                         status |-> "suspended"]]
      BY <2>5 DEF AppendPause, SetPartyStatus
    <3> HIDE DEF a
    <3> QED
      BY <1>1, <2>1, <2>2, <3>1
  <2>6. ChangeStep => SetStatus(p, "active")
    BY <2>2, <2>3, <2>4 DEF ChangeStep, RegisterUseCase, LinkConnectors, SetBudget, SpendCents,
                            DeleteCapture, RevokeToken, Tick, authority
  <2>7. \A w \in Writers : ~WriteStep(w)
    BY <2>2, <2>5 DEF WriteStep, RevokeAgent, CarryForward, GuardianPause, RegisterLane, Begin,
                      AppendRevision, AppendLane, authority
  <2>8. \A c \in Operators : OperateStep(c) => party' = party
    BY DEF OperateStep, GovernanceOpen, Mint, Operate, CheckAgent, CheckToken, CheckLane,
           ReadUseCase, CheckPermitted, CheckStatus, ReadCap, CheckSpend, Ask, Refuse, StartRun,
           ReadConnectors, ConnectorsUnreadable, Lens, StepIssue, ReserveAct, Outcome, Die, Stays,
           authority
  <2> QED
    BY <1>1, <2>2, <2>6, <2>7, <2>8 DEF OperationNext
<1>2. OInv /\ [OperationNext]_operationVars =>
        [\A p \in Parties :
           party[p].status \in {"suspended", "killed"} /\ party'[p].status = "active"
             => SetStatus(p, "active")]_operationVars
  BY <1>1
<1> QED
  BY <1>2, OperationInvariant, PTL DEF OperationSpec, StopsAreLiftedByPeople

\* The lane in force never goes back to an earlier version.
THEOREM LanesOnlyAdvance == OperationSpec => LanesNeverGoBack
<1>1. ASSUME OInv, OperationNext, NEW a \in Agents, lane[a] # NoLane
      PROVE  lane'[a] # NoLane /\ lane'[a].version >= lane[a].version
  <2>1. TypeInv /\ lane \in [Agents -> Lane \cup {NoLane}] /\ lane[a] \in Lane
    BY <1>1 DEF OInv, TypeInv
  <2>2. lane[a].version \in Nat
    BY <2>1 DEF Lane
  <2>3. CASE lane' = lane
    BY <1>1, <2>2, <2>3
  <2>4. ASSUME NEW w \in Writers, AppendLane(w)
        PROVE  lane'[a] # NoLane /\ lane'[a].version >= lane[a].version
    <3> DEFINE b == write[w].agent new == write[w].lane
    <3>1. new \in Lane
      BY <2>1, <2>4, WriteShape DEF AppendLane
    <3>2. new # NoLane /\ new.version \in Nat
      BY <3>1, OperationConstants DEF Lane
    <3>3. lane' = IF lane[b] = NoLane \/ new.version > lane[b].version
                  THEN [lane EXCEPT ![b] = new] ELSE lane
      BY <2>4 DEF AppendLane
    <3> HIDE DEF b, new
    <3> QED
      BY <1>1, <2>1, <2>2, <3>2, <3>3
  <2>5. ChangeStep => lane' = lane
    BY DEF ChangeStep, SetStatus, Reregister, RegisterUseCase, LinkConnectors, SetBudget,
           SpendCents, DeleteCapture, RevokeToken, Tick, authority
  <2>6. ASSUME NEW w \in Writers, WriteStep(w) PROVE lane' = lane \/ AppendLane(w)
    BY <2>6 DEF WriteStep, RevokeAgent, CarryForward, GuardianPause, RegisterLane, Begin,
                AppendRevision, AppendPause, authority
  <2>7. \A c \in Operators : OperateStep(c) => lane' = lane
    BY DEF OperateStep, GovernanceOpen, Mint, Operate, CheckAgent, CheckToken, CheckLane,
           ReadUseCase, CheckPermitted, CheckStatus, ReadCap, CheckSpend, Ask, Refuse, StartRun,
           ReadConnectors, ConnectorsUnreadable, Lens, StepIssue, ReserveAct, Outcome, Die, Stays,
           authority
  <2> QED
    BY <1>1, <2>3, <2>4, <2>5, <2>6, <2>7 DEF OperationNext
<1>2. OInv /\ [OperationNext]_operationVars =>
        [\A a \in Agents : lane[a] # NoLane =>
           lane'[a] # NoLane /\ lane'[a].version >= lane[a].version]_operationVars
  BY <1>1
<1> QED
  BY <1>2, OperationInvariant, PTL DEF OperationSpec, LanesNeverGoBack
=============================================================================
