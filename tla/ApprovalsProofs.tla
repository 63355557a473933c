-------------------------- MODULE ApprovalsProofs --------------------------
(***************************************************************************)
(* Approvals are rooted, denials absorb, silence is on record and a        *)
(* deadline is final, for any parties, requests, callers and any number of *)
(* events, changes to the registry and ticks.  The argument: what a caller *)
(* carries between its reading of the chain and its append was true when   *)
(* it was read and stays true, since requests never change, time only      *)
(* passes, and the history of registrations only grows.                    *)
(***************************************************************************)
EXTENDS Approvals, TLAPS

\* Nothing on the chain is from the future, and every grant is of what the
\* grantor once had.
ChainOK ==
    /\ \A d \in decisions : d.at <= clock
    /\ \A g \in delegations : <<g.from, g.comp>> \in held

\* So is everything a caller is about to put there; whoever records silence
\* found a request whose silence proceeds, past its deadline.
CallOK ==
    \A c \in Callers :
        /\ call[c].stage = "decide" => call[c].event.at <= clock
        /\ call[c].stage = "delegate" => <<call[c].event.from, call[c].event.comp>> \in held
        /\ call[c].stage = "judge" => call[c].at <= clock /\ request[call[c].req] # NoRequest
        /\ call[c].stage \in {"look", "record"} =>
             /\ request[call[c].req] # NoRequest
             /\ request[call[c].req].onElapse = "proceed"
             /\ clock > Deadline(request[call[c].req])

HeldOK == \A p \in Parties : \A comp \in party[p].comps : <<p, comp>> \in held

\* Silence is recorded of requests that were made.
RecordOK == \A r \in Requests : elapsed[r] > 0 => request[r] # NoRequest

IInv == TypeOK /\ ChainOK /\ CallOK /\ HeldOK /\ RecordOK /\ ElapsedIsOnRecord

-----------------------------------------------------------------------------
(* What the answer to a caller tells of the request it is about.           *)

LEMMA DeadlineNat ==
    ASSUME TypeOK, NEW r \in Requests, request[r] # NoRequest
    PROVE  request[r] \in Request /\ Deadline(request[r]) \in Nat
<1>1. request[r] \in Request
  BY DEF TypeOK
<1> QED
  BY <1>1 DEF Request, Deadline

\* Silence is the reason only past the deadline of a request it lets proceed.
LEMMA SilenceIsPastTheDeadline ==
    ASSUME NEW r, NEW q, NEW t, NEW decs, NEW dels,
           Resolve(r, q, t, decs, dels).reason = "elapsed-proceed"
    PROVE  q.onElapse = "proceed" /\ ~(t <= Deadline(q))
BY DEF Resolve, Answer

\* Everybody in the answer approved and may.
LEMMA ByAreApprovers ==
    ASSUME NEW r, NEW q, NEW t, NEW decs, NEW dels,
           NEW p \in Resolve(r, q, t, decs, dels).by
    PROVE  p \in Approvers(r, q, t, decs, dels)
BY DEF Resolve, Answer

\* A grant means that no denial counts.
LEMMA GrantedIsNotDenied ==
    ASSUME NEW r, NEW q, NEW t, NEW decs, NEW dels,
           Resolve(r, q, t, decs, dels).state = "granted"
    PROVE  ~Denied(r, q, t, decs)
BY DEF Resolve, Answer

-----------------------------------------------------------------------------
THEOREM InitInv == ApprovalInit => IInv
<1> SUFFICES ASSUME ApprovalInit PROVE IInv
  OBVIOUS
<1>1. TypeOK
  <2>1. held \subseteq Parties \X Competences
    BY DEF ApprovalInit, HeldIn
  <2> QED
    BY <2>1, ApprovalConstants DEF ApprovalInit, TypeOK, Calls, Idle
<1>2. ChainOK /\ CallOK /\ RecordOK /\ ElapsedIsOnRecord
  BY DEF ApprovalInit, ChainOK, CallOK, RecordOK, ElapsedIsOnRecord, Idle
<1>3. HeldOK
  <2> SUFFICES ASSUME NEW p \in Parties, NEW comp \in party[p].comps
               PROVE  <<p, comp>> \in held
    BY DEF HeldOK
  <2>1. comp \in Competences
    BY <1>1 DEF TypeOK, PartyRecord, Unregistered
  <2> QED
    BY <2>1 DEF ApprovalInit, HeldIn
<1> QED
  BY <1>1, <1>2, <1>3 DEF IInv

-----------------------------------------------------------------------------
(* The registry and the clock.                                             *)

LEMMA RegisterInv ==
    ASSUME IInv, NEW reg \in Registrations, Register(reg[1], reg[2], reg[3])
    PROVE  IInv'
<1> DEFINE p == reg[1]
<1> DEFINE comps == reg[3]
<1>1. p \in Parties /\ reg[2] \in {"human", "agent"} /\ comps \in SUBSET Competences
  BY ApprovalConstants
<1>2. /\ party' = [party EXCEPT ![p] = [kind |-> reg[2], comps |-> comps,
                     status |-> IF party[p] = Unregistered THEN "active" ELSE party[p].status]]
      /\ held' = held \cup {<<p, comp>> : comp \in comps}
      /\ changes < MaxChanges /\ changes' = changes + 1
      /\ UNCHANGED <<request, decisions, delegations, elapsed, clock, call, told>>
  BY DEF Register, Change, chain, RegisterParty
<1>3. TypeOK'
  <2>1. (IF party[p] = Unregistered THEN "active" ELSE party[p].status) \in Statuses
    BY <1>1 DEF IInv, TypeOK, PartyRecord, Statuses
  <2>2. [kind |-> reg[2], comps |-> comps,
         status |-> IF party[p] = Unregistered THEN "active" ELSE party[p].status]
            \in PartyRecord
    BY <1>1, <2>1 DEF PartyRecord
  <2>3. party' \in [Parties -> PartyRecord]
    BY <1>2, <2>2 DEF IInv, TypeOK
  <2>4. held' \subseteq Parties \X Competences
    BY <1>1, <1>2 DEF IInv, TypeOK
  <2>5. changes' \in 0..MaxChanges
    BY <1>2, ApprovalConstants DEF IInv, TypeOK
  <2> QED
    BY <1>2, <2>3, <2>4, <2>5 DEF IInv, TypeOK
<1>4. HeldOK'
  BY <1>1, <1>2 DEF IInv, TypeOK, HeldOK
<1>5. ChainOK' /\ CallOK' /\ RecordOK' /\ ElapsedIsOnRecord'
  BY <1>2 DEF IInv, ChainOK, CallOK, RecordOK, ElapsedIsOnRecord, Deadline
<1> QED
  BY <1>3, <1>4, <1>5 DEF IInv

LEMMA SetStatusInv ==
    ASSUME IInv, NEW p \in Parties, NEW s \in Statuses, SetStatus(p, s)
    PROVE  IInv'
<1>1. /\ party' = IF party[p] = Unregistered THEN party
                  ELSE [party EXCEPT ![p] = [kind |-> party[p].kind, comps |-> party[p].comps,
                                             status |-> s]]
      /\ changes < MaxChanges /\ changes' = changes + 1
      /\ UNCHANGED <<request, decisions, delegations, elapsed, clock, call, held, told>>
  BY DEF SetStatus, Change, chain, SetPartyStatus
<1>2. party' \in [Parties -> PartyRecord]
  <2>1. CASE party[p] = Unregistered
    BY <1>1, <2>1 DEF IInv, TypeOK
  <2>2. CASE party[p] # Unregistered
    <3>1. party[p].kind \in {"human", "agent"} /\ party[p].comps \in SUBSET Competences
      BY <2>2 DEF IInv, TypeOK, PartyRecord
    <3> QED
      BY <1>1, <2>2, <3>1 DEF IInv, TypeOK, PartyRecord
  <2> QED
    BY <2>1, <2>2
<1>3. TypeOK'
  <2>1. changes' \in 0..MaxChanges
    BY <1>1, ApprovalConstants DEF IInv, TypeOK
  <2> QED
    BY <1>1, <1>2, <2>1 DEF IInv, TypeOK
<1>4. HeldOK'
  <2>1. \A q \in Parties : party'[q].comps = party[q].comps
    BY <1>1 DEF IInv, TypeOK
  <2> QED
    BY <1>1, <2>1 DEF IInv, HeldOK
<1>5. ChainOK' /\ CallOK' /\ RecordOK' /\ ElapsedIsOnRecord'
  BY <1>1 DEF IInv, ChainOK, CallOK, RecordOK, ElapsedIsOnRecord, Deadline
<1> QED
  BY <1>3, <1>4, <1>5 DEF IInv

LEMMA TickInv == ASSUME IInv, Tick PROVE IInv'
<1>1. /\ clock' = clock + 1 /\ clock \in Nat
      /\ UNCHANGED <<party, request, decisions, delegations, elapsed, call, held, told, changes>>
  BY DEF Tick, chain, IInv, TypeOK
<1>2. TypeOK' /\ HeldOK' /\ RecordOK'
  BY <1>1 DEF IInv, TypeOK, HeldOK, RecordOK
<1>3. ChainOK'
  BY <1>1 DEF IInv, TypeOK, ChainOK, Decision
<1>4. CallOK'
  <2> SUFFICES ASSUME NEW c \in Callers PROVE CallOK!(c)'
    BY DEF CallOK
  <2>1. call[c] \in Calls /\ CallOK!(c)
    BY DEF IInv, TypeOK, CallOK
  <2>2. call[c].stage = "decide" => call[c].event.at \in Nat
    BY <2>1 DEF Calls, Decision, Idle
  <2>3. call[c].stage = "judge" => call[c].at \in Nat
    BY <2>1 DEF Calls, Idle
  <2>4. call[c].stage \in {"look", "record"} => Deadline(request[call[c].req]) \in Nat
    BY <2>1, DeadlineNat DEF Calls, Idle, IInv
  <2> QED
    BY <1>1, <2>1, <2>2, <2>3, <2>4 DEF Deadline
<1>5. ElapsedIsOnRecord'
  BY <1>1, DeadlineNat DEF IInv, ElapsedIsOnRecord, RecordOK, Deadline
<1> QED
  BY <1>2, <1>3, <1>4, <1>5 DEF IInv

-----------------------------------------------------------------------------
(* The calls.                                                              *)

LEMMA OpenedInv ==
    ASSUME IInv, NEW r \in Requests, NEW q \in Request, request' = Opened(r, q),
           UNCHANGED <<party, decisions, delegations, elapsed, clock, call, held, told, changes>>
    PROVE  IInv' /\ \A o \in Requests : request[o] # NoRequest => request'[o] = request[o]
<1>1. \A o \in Requests : request[o] # NoRequest => request'[o] = request[o]
  BY DEF Opened, IInv, TypeOK
<1>2. TypeOK'
  <2>1. request' \in [Requests -> Request \cup {NoRequest}]
    BY DEF Opened, IInv, TypeOK
  <2> QED
    BY <2>1 DEF IInv, TypeOK
<1>3. ChainOK' /\ HeldOK'
  BY DEF IInv, ChainOK, HeldOK
<1>4. CallOK'
  <2> SUFFICES ASSUME NEW d \in Callers PROVE CallOK!(d)'
    BY DEF CallOK
  <2>1. call[d] \in Calls /\ CallOK!(d)
    BY DEF IInv, TypeOK, CallOK
  <2>2. call[d].stage \in {"judge", "look", "record"} => call[d].req \in Requests
    BY <2>1 DEF Calls, Idle
  <2> QED
    BY <1>1, <2>1, <2>2 DEF Deadline
<1>5. RecordOK' /\ ElapsedIsOnRecord'
  BY <1>1 DEF IInv, RecordOK, ElapsedIsOnRecord, Deadline
<1> QED
  BY <1>1, <1>2, <1>3, <1>4, <1>5 DEF IInv

LEMMA RequestInv ==
    ASSUME IInv, NEW c \in Callers, NEW r \in Requests, NEW spec \in RequestSpecs,
           RequestApproval(c, r, spec)
    PROVE  IInv'
<1>1. Asking(spec, clock) \in Request
  BY ApprovalConstants DEF Asking, Request, IInv, TypeOK
<1> QED
  BY <1>1, OpenedInv DEF RequestApproval

\* A call that only moves on: the chain, the registry and the histories stay.
LEMMA MoveInv ==
    ASSUME IInv, NEW c \in Callers, NEW new \in Calls,
           call' = [call EXCEPT ![c] = new],
           UNCHANGED <<party, request, decisions, delegations, elapsed, clock, held, told, changes>>,
           new.stage = "decide" => new.event.at <= clock,
           new.stage = "delegate" => <<new.event.from, new.event.comp>> \in held,
           new.stage = "judge" => new.at <= clock /\ request[new.req] # NoRequest,
           new.stage \in {"look", "record"} =>
             /\ request[new.req] # NoRequest
             /\ request[new.req].onElapse = "proceed"
             /\ clock > Deadline(request[new.req])
    PROVE  IInv'
<1>1. TypeOK'
  BY DEF IInv, TypeOK
<1>2. ChainOK' /\ HeldOK' /\ RecordOK' /\ ElapsedIsOnRecord'
  BY DEF IInv, ChainOK, HeldOK, RecordOK, ElapsedIsOnRecord, Deadline
<1>3. CallOK'
  <2> SUFFICES ASSUME NEW d \in Callers PROVE CallOK!(d)'
    BY DEF CallOK
  <2>1. CASE d = c
    <3>1. call'[d] = new
      BY <2>1 DEF IInv, TypeOK
    <3> QED
      BY <3>1 DEF Deadline
  <2>2. CASE d # c
    <3>1. call'[d] = call[d] /\ CallOK!(d)
      BY <2>2 DEF IInv, TypeOK, CallOK
    <3> QED
      BY <3>1 DEF Deadline
  <2> QED
    BY <2>1, <2>2
<1> QED
  BY <1>1, <1>2, <1>3 DEF IInv

LEMMA IdleIsACall == Idle \in Calls /\ Idle.stage = "idle"
BY DEF Idle, Calls

LEMMA DecideInv ==
    ASSUME IInv, NEW c \in Callers, NEW r \in Requests, NEW p \in Parties,
           NEW choice \in {"approve", "deny"}, DecideApproval(c, r, p, choice)
    PROVE  IInv'
<1> DEFINE event == [request |-> r, by |-> p, decision |-> choice, at |-> clock]
<1> DEFINE new == [stage |-> "decide", event |-> event]
<1>1. event \in Decision /\ clock \in Nat
  BY DEF Decision, IInv, TypeOK
<1>2. new \in Calls
  BY <1>1 DEF Calls
<1>3. new.stage = "decide" /\ new.event.at <= clock
  BY <1>1
<1>4. /\ call' = [call EXCEPT ![c] = new]
      /\ UNCHANGED <<party, request, decisions, delegations, elapsed, clock, held, told, changes>>
  BY DEF DecideApproval, chain
<1> HIDE DEF new, event
<1> QED
  BY <1>1, <1>2, <1>3, <1>4, MoveInv

LEMMA DelegateInv ==
    ASSUME IInv, NEW c \in Callers, NEW p \in Parties, NEW q \in Parties,
           NEW comp \in Competences, DelegateCompetence(c, p, q, comp)
    PROVE  IInv'
<1> DEFINE event == [comp |-> comp, from |-> p, to |-> q, at |-> clock]
<1> DEFINE new == [stage |-> "delegate", event |-> event]
<1>1. event \in Grant
  BY DEF Grant, IInv, TypeOK
<1>2. new \in Calls
  BY <1>1 DEF Calls
<1>3. new.stage = "delegate" /\ new.event.from = p /\ new.event.comp = comp
  OBVIOUS
<1>4. /\ call' = [call EXCEPT ![c] = new]
      /\ comp \in party[p].comps
      /\ UNCHANGED <<party, request, decisions, delegations, elapsed, clock, held, told, changes>>
  BY DEF DelegateCompetence, chain
<1>5. <<p, comp>> \in held
  BY <1>4 DEF IInv, HeldOK
<1> HIDE DEF new, event
<1> QED
  BY <1>2, <1>3, <1>4, <1>5, MoveInv

LEMMA EffectInv ==
    ASSUME IInv, NEW c \in Callers, NEW r \in Requests, EffectApproval(c, r)
    PROVE  IInv'
<1> DEFINE new == [stage |-> "judge", req |-> r, at |-> clock, decs |-> decisions,
                   dels |-> delegations]
<1>1. new \in Calls /\ clock \in Nat
  BY DEF Calls, IInv, TypeOK
<1>2. new.stage = "judge" /\ new.at <= clock /\ new.req = r
  BY <1>1
<1>3. /\ call' = [call EXCEPT ![c] = new]
      /\ request[r] # NoRequest
      /\ UNCHANGED <<party, request, decisions, delegations, elapsed, clock, held, told, changes>>
  BY DEF EffectApproval, chain
<1> HIDE DEF new
<1> QED
  BY <1>1, <1>2, <1>3, MoveInv

LEMMA JudgeInv ==
    ASSUME IInv, NEW c \in Callers, JudgeEffect(c)
    PROVE  IInv'
<1> DEFINE r == call[c].req
<1> DEFINE answer == Resolve(r, request[r], call[c].at, call[c].decs, call[c].dels)
<1> DEFINE look == [stage |-> "look", req |-> r]
<1>1. call[c].stage = "judge" /\ call[c] \in Calls
  BY DEF JudgeEffect, IInv, TypeOK
<1>2. /\ call' = [call EXCEPT ![c] = IF answer.reason = "elapsed-proceed" THEN look ELSE Idle]
      /\ UNCHANGED <<party, request, decisions, delegations, elapsed, clock, held, told, changes>>
  BY DEF JudgeEffect, chain
<1>3. r \in Requests /\ call[c].at \in Nat
  BY <1>1 DEF Calls, Idle
<1>4. call[c].at <= clock /\ request[r] # NoRequest /\ clock \in Nat
  BY <1>1 DEF IInv, CallOK, TypeOK
<1>5. CASE answer.reason = "elapsed-proceed"
  <2>1. request[r].onElapse = "proceed" /\ ~(call[c].at <= Deadline(request[r]))
    <3> HIDE DEF r
    <3> QED
      BY <1>5, SilenceIsPastTheDeadline
  <2>2. Deadline(request[r]) \in Nat
    BY <1>3, <1>4, DeadlineNat DEF IInv
  <2>3. clock > Deadline(request[r])
    BY <1>3, <1>4, <2>1, <2>2
  <2>4. look \in Calls /\ look.stage = "look" /\ look.req = r
    BY <1>3 DEF Calls
  <2>5. call' = [call EXCEPT ![c] = look]
    BY <1>2, <1>5
  <2> HIDE DEF look, r, answer
  <2> QED
    BY <1>2, <1>4, <2>1, <2>3, <2>4, <2>5, MoveInv
<1>6. CASE answer.reason # "elapsed-proceed"
  <2>1. call' = [call EXCEPT ![c] = Idle]
    BY <1>2, <1>6
  <2> QED
    BY <1>2, <2>1, IdleIsACall, MoveInv
<1> QED
  BY <1>5, <1>6

LEMMA DieInv == ASSUME IInv, NEW c \in Callers, Die(c) PROVE IInv'
<1>1. /\ call' = [call EXCEPT ![c] = Idle]
      /\ UNCHANGED <<party, request, decisions, delegations, elapsed, clock, held, told, changes>>
  BY DEF Die, chain
<1> QED
  BY <1>1, IdleIsACall, MoveInv

\* A caller that is done leaves nothing in its hands.
LEMMA DoneCallOK ==
    ASSUME IInv, NEW c \in Callers, call' = [call EXCEPT ![c] = Idle],
           UNCHANGED <<request, held, clock>>
    PROVE  CallOK' /\ call' \in [Callers -> Calls]
<1> SUFFICES ASSUME NEW d \in Callers PROVE CallOK!(d)'
  BY IdleIsACall DEF CallOK, IInv, TypeOK
<1>1. CASE d = c
  <2>1. call'[d].stage = "idle"
    BY <1>1, IdleIsACall DEF IInv, TypeOK
  <2> QED
    BY <2>1
<1>2. CASE d # c
  <2>1. call'[d] = call[d] /\ CallOK!(d)
    BY <1>2 DEF IInv, TypeOK, CallOK
  <2> QED
    BY <2>1 DEF Deadline
<1> QED
  BY <1>1, <1>2

LEMMA AppendDecisionInv ==
    ASSUME IInv, NEW c \in Callers, AppendDecision(c) PROVE IInv'
<1>1. /\ call[c].stage = "decide" /\ call[c] \in Calls
      /\ decisions' = decisions \cup {call[c].event}
      /\ call' = [call EXCEPT ![c] = Idle]
      /\ UNCHANGED <<party, request, delegations, elapsed, clock, held, told, changes>>
  BY DEF AppendDecision, IInv, TypeOK
<1>2. call[c].event \in Decision /\ call[c].event.at <= clock
  <2>1. call[c].event \in Decision
    BY <1>1 DEF Calls, Idle
  <2> QED
    BY <1>1, <2>1 DEF IInv, CallOK
<1>3. CallOK' /\ call' \in [Callers -> Calls]
  BY <1>1, DoneCallOK
<1>4. TypeOK'
  BY <1>1, <1>2, <1>3 DEF IInv, TypeOK
<1>5. ChainOK' /\ HeldOK' /\ RecordOK' /\ ElapsedIsOnRecord'
  BY <1>1, <1>2 DEF IInv, ChainOK, HeldOK, RecordOK, ElapsedIsOnRecord, Deadline
<1> QED
  BY <1>3, <1>4, <1>5 DEF IInv

LEMMA AppendDelegationInv ==
    ASSUME IInv, NEW c \in Callers, AppendDelegation(c) PROVE IInv'
<1>1. /\ call[c].stage = "delegate" /\ call[c] \in Calls
      /\ delegations' = delegations \cup {call[c].event}
      /\ call' = [call EXCEPT ![c] = Idle]
      /\ UNCHANGED <<party, request, decisions, elapsed, clock, held, told, changes>>
  BY DEF AppendDelegation, IInv, TypeOK
<1>2. call[c].event \in Grant /\ <<call[c].event.from, call[c].event.comp>> \in held
  BY <1>1 DEF Calls, Idle, IInv, CallOK
<1>3. CallOK' /\ call' \in [Callers -> Calls]
  BY <1>1, DoneCallOK
<1>4. TypeOK'
  BY <1>1, <1>2, <1>3 DEF IInv, TypeOK
<1>5. ChainOK' /\ HeldOK' /\ RecordOK' /\ ElapsedIsOnRecord'
  BY <1>1, <1>2 DEF IInv, ChainOK, HeldOK, RecordOK, ElapsedIsOnRecord, Deadline
<1> QED
  BY <1>3, <1>4, <1>5 DEF IInv

LEMMA LookInv ==
    ASSUME IInv, NEW c \in Callers, LookForRecord(c) PROVE IInv'
<1> DEFINE r == call[c].req
<1> DEFINE new == [stage |-> "record", req |-> r]
<1>1. /\ call[c].stage = "look" /\ call[c] \in Calls
      /\ UNCHANGED <<party, request, decisions, delegations, elapsed, clock, held, changes>>
  BY DEF LookForRecord, chain, IInv, TypeOK
<1>2. /\ r \in Requests /\ request[r] # NoRequest
      /\ request[r].onElapse = "proceed" /\ clock > Deadline(request[r])
  <2>1. r \in Requests
    BY <1>1 DEF Calls, Idle
  <2> QED
    BY <1>1, <2>1 DEF IInv, CallOK
<1>3. CASE elapsed[r] > 0
  <2>1. told' = told \cup {r} /\ call' = [call EXCEPT ![c] = Idle]
    BY <1>3 DEF LookForRecord
  <2>2. CallOK' /\ call' \in [Callers -> Calls]
    BY <1>1, <2>1, DoneCallOK
  <2>3. TypeOK'
    BY <1>1, <1>2, <2>1, <2>2 DEF IInv, TypeOK
  <2>4. ChainOK' /\ HeldOK' /\ RecordOK' /\ ElapsedIsOnRecord'
    BY <1>1, <1>3, <2>1 DEF IInv, ChainOK, HeldOK, RecordOK, ElapsedIsOnRecord, Deadline
  <2> QED
    BY <2>2, <2>3, <2>4 DEF IInv
<1>4. CASE ~(elapsed[r] > 0)
  <2>1. told' = told /\ call' = [call EXCEPT ![c] = new]
    BY <1>4 DEF LookForRecord
  <2>2. new \in Calls /\ new.stage = "record" /\ new.req = r
    BY <1>2 DEF Calls
  <2> HIDE DEF new, r
  <2> QED
    BY <1>1, <1>2, <2>1, <2>2, MoveInv
<1> QED
  BY <1>3, <1>4

LEMMA RecordInv ==
    ASSUME IInv, NEW c \in Callers, RecordElapsed(c) PROVE IInv'
<1> DEFINE r == call[c].req
<1>1. /\ call[c].stage = "record" /\ call[c] \in Calls
      /\ elapsed' = [elapsed EXCEPT ![r] = elapsed[r] + 1]
      /\ told' = told \cup {r}
      /\ call' = [call EXCEPT ![c] = Idle]
      /\ UNCHANGED <<party, request, decisions, delegations, clock, held, changes>>
  BY DEF RecordElapsed, IInv, TypeOK
<1>2. /\ r \in Requests /\ request[r] # NoRequest
      /\ request[r].onElapse = "proceed" /\ clock > Deadline(request[r])
  <2>1. r \in Requests
    BY <1>1 DEF Calls, Idle
  <2> QED
    BY <1>1, <2>1 DEF IInv, CallOK
<1>3. CallOK' /\ call' \in [Callers -> Calls]
  BY <1>1, DoneCallOK
<1>4. elapsed \in [Requests -> Nat]
  BY DEF IInv, TypeOK
<1>5. TypeOK'
  BY <1>1, <1>2, <1>3, <1>4 DEF IInv, TypeOK
<1>6. ChainOK' /\ HeldOK' /\ RecordOK'
  BY <1>1, <1>2, <1>4 DEF IInv, ChainOK, HeldOK, RecordOK
<1>7. ElapsedIsOnRecord'
  BY <1>1, <1>2, <1>4 DEF IInv, ElapsedIsOnRecord, Deadline
<1> QED
  BY <1>3, <1>5, <1>6, <1>7 DEF IInv

-----------------------------------------------------------------------------
LEMMA StutterInv == ASSUME IInv, UNCHANGED approvalVars PROVE IInv'
BY DEF IInv, TypeOK, ChainOK, CallOK, HeldOK, RecordOK, ElapsedIsOnRecord, Deadline,
       approvalVars

LEMMA CallStepInv == ASSUME IInv, NEW c \in Callers, CallStep(c) PROVE IInv'
BY RequestInv, DecideInv, DelegateInv, EffectInv, AppendDecisionInv, AppendDelegationInv,
   JudgeInv, LookInv, RecordInv, DieInv DEF CallStep

LEMMA NextInv == ASSUME IInv, ApprovalNext PROVE IInv'
<1>1. CASE RegistryStep
  BY <1>1, RegisterInv, SetStatusInv DEF RegistryStep
<1>2. CASE Tick
  BY <1>2, TickInv
<1>3. CASE \E c \in Callers : CallStep(c)
  BY <1>3, CallStepInv
<1> QED
  BY <1>1, <1>2, <1>3 DEF ApprovalNext

THEOREM Invariant == ApprovalSpec => []IInv
<1>1. IInv /\ [ApprovalNext]_approvalVars => IInv'
  BY NextInv, StutterInv
<1> QED
  BY <1>1, InitInv, PTL DEF ApprovalSpec

-----------------------------------------------------------------------------
(* The properties of the runs.                                             *)

\* Every reachable state of the approvals is well typed (approvals.py).
THEOREM TypeCorrect == ApprovalSpec => []TypeOK
<1>1. IInv => TypeOK
  BY DEF IInv
<1> QED
  BY <1>1, Invariant, PTL

\* Whoever is told to go ahead because nobody decided finds that on the chain
\* (effect_approval).
THEOREM SilenceIsOnRecord == ApprovalSpec => []ElapsedIsOnRecord
<1>1. IInv => ElapsedIsOnRecord
  BY DEF IInv
<1> QED
  BY <1>1, Invariant, PTL

\* Whoever counts as an approver has the competence from a registration, of
\* their own or of who delegated it to them (delegate_competence).
THEOREM AuthorityIsRooted == ApprovalSpec => []ApprovalsAreRooted
<1>1. IInv => ApprovalsAreRooted
  <2> SUFFICES ASSUME IInv, NEW r \in Requests, request[r] # NoRequest,
                      request[r].comps # {}, NEW p \in ResolveNow(r).by
               PROVE  \E comp \in request[r].comps :
                        \/ <<p, comp>> \in held
                        \/ \E g \in delegations :
                             g.to = p /\ g.comp = comp /\ <<g.from, comp>> \in held
    BY DEF ApprovalsAreRooted
  <2>1. p \in Approvers(r, request[r], clock, decisions, delegations)
    BY ByAreApprovers DEF ResolveNow
  <2>2. p \in Parties
    BY <2>1 DEF Approvers
  <2>3. HoldsAny(p, request[r].comps, Delegated(request[r], clock, delegations))
    BY <2>1 DEF Approvers
  <2>4. PICK comp \in request[r].comps :
          HoldsCompetence(p, comp, Delegated(request[r], clock, delegations))
    BY <2>3 DEF HoldsAny
  <2>5. \/ comp \in party[p].comps
        \/ \E g \in delegations : g.to = p /\ g.comp = comp
    BY <2>4 DEF HoldsCompetence, Delegated
  <2> QED
    BY <2>2, <2>5 DEF IInv, HeldOK, ChainOK
<1> QED
  BY <1>1, Invariant, PTL

\* A request is granted only while no denial counts (resolve_approval).
THEOREM DenialsAbsorb == ApprovalSpec => []DenialAbsorbs
<1>1. IInv => DenialAbsorbs
  <2> SUFFICES ASSUME IInv, NEW r \in Requests, request[r] # NoRequest,
                      ResolveNow(r).state = "granted",
                      NEW d \in decisions, d.request = r, d.decision = "deny",
                      ActiveHuman(d.by), d.by # request[r].requester,
                      d.at <= Deadline(request[r])
               PROVE  FALSE
    BY DEF DenialAbsorbs
  <2>1. d.at <= Cutoff(request[r], clock)
    BY DEF Cutoff, IInv, ChainOK
  <2>2. Denied(r, request[r], clock, decisions)
    BY <2>1 DEF Denied, Counts
  <2> QED
    BY <2>2, GrantedIsNotDenied DEF ResolveNow
<1> QED
  BY <1>1, Invariant, PTL

-----------------------------------------------------------------------------
(* A deadline is final.                                                    *)

\* What a step can do to a settled request: add events that come too late.
LEMMA SettledStep ==
    ASSUME IInv, [ApprovalNext]_approvalVars, NEW r \in Requests, Settled(r)
    PROVE  /\ request'[r] = request[r] /\ clock' \in Nat /\ clock' >= clock
           /\ decisions \subseteq decisions' /\ delegations \subseteq delegations'
           /\ \A d \in decisions' \ decisions : d.at > Deadline(request[r])
           /\ \A g \in delegations' \ delegations : g.at > Deadline(request[r])
<1>0. clock \in Nat /\ request[r] # NoRequest
  BY DEF IInv, TypeOK, Settled
<1>1. CASE RegistryStep
  BY <1>0, <1>1 DEF RegistryStep, Register, SetStatus, Change, chain
<1>2. CASE Tick
  BY <1>0, <1>2 DEF Tick, chain
<1>3. CASE UNCHANGED approvalVars
  BY <1>0, <1>3 DEF approvalVars
<1>4. ASSUME NEW c \in Callers, CallStep(c)
      PROVE  /\ request'[r] = request[r] /\ clock' \in Nat /\ clock' >= clock
             /\ decisions \subseteq decisions' /\ delegations \subseteq delegations'
             /\ \A d \in decisions' \ decisions : d.at > Deadline(request[r])
             /\ \A g \in delegations' \ delegations : g.at > Deadline(request[r])
  <2>1. CASE \E o \in Requests, spec \in RequestSpecs : RequestApproval(c, o, spec)
    BY <1>0, <2>1 DEF RequestApproval, Opened, IInv, TypeOK
  <2>2. CASE AppendDecision(c)
    <3>1. /\ call[c].event.at > Deadline(request[r])
          /\ decisions' = decisions \cup {call[c].event}
          /\ UNCHANGED <<request, delegations, clock>>
      BY <2>2 DEF AppendDecision, Settled
    <3> QED
      BY <1>0, <3>1
  <2>3. CASE AppendDelegation(c)
    <3>1. /\ call[c].event.at > Deadline(request[r])
          /\ delegations' = delegations \cup {call[c].event}
          /\ UNCHANGED <<request, decisions, clock>>
      BY <2>3 DEF AppendDelegation, Settled
    <3> QED
      BY <1>0, <3>1
  <2>4. CASE RecordElapsed(c) \/ Die(c) \/ LookForRecord(c) \/ JudgeEffect(c)
    BY <1>0, <2>4 DEF RecordElapsed, Die, LookForRecord, JudgeEffect, chain
  <2>5. CASE \/ \E o \in Requests, p \in Parties, choice \in {"approve", "deny"} :
                  DecideApproval(c, o, p, choice)
             \/ \E p, q \in Parties, comp \in Competences : DelegateCompetence(c, p, q, comp)
             \/ \E o \in Requests : EffectApproval(c, o)
    BY <1>0, <2>5 DEF DecideApproval, DelegateCompetence, EffectApproval, chain
  <2> QED
    BY <1>4, <2>1, <2>2, <2>3, <2>4, <2>5 DEF CallStep
<1> QED
  BY <1>1, <1>2, <1>3, <1>4 DEF ApprovalNext

\* Past its deadline and with the registry as it is, the same hands count.
LEMMA SettledAgree ==
    ASSUME IInv, [ApprovalNext]_approvalVars, NEW r \in Requests, Settled(r), party' = party
    PROVE  ResolveNow(r)' = ResolveNow(r)
<1> DEFINE q == request[r]
<1>0. /\ Deadline(q) \in Nat /\ clock \in Nat /\ clock > Deadline(q)
      /\ decisions \subseteq Decision /\ delegations \subseteq Grant
  BY DeadlineNat DEF Settled, IInv, TypeOK
<1>1. /\ q' = q /\ clock' \in Nat /\ clock' > Deadline(q)
      /\ decisions \subseteq decisions' /\ delegations \subseteq delegations'
      /\ \A d \in decisions' \ decisions : d.at > Deadline(q)
      /\ \A g \in delegations' \ delegations : g.at > Deadline(q)
  BY <1>0, SettledStep
<1>2. Deadline(q)' = Deadline(q)
  BY <1>1 DEF Deadline
<1>3. Cutoff(q, clock) = Deadline(q) /\ Cutoff(q, clock)' = Deadline(q)
  BY <1>0, <1>1, <1>2 DEF Cutoff
<1>4. decisions' \subseteq Decision /\ delegations' \subseteq Grant
  BY NextInv, StutterInv DEF IInv, TypeOK
<1>5. \A d \in decisions' : d.at \in Nat
  BY <1>4 DEF Decision
<1>6. \A g \in delegations' : g.at \in Nat
  BY <1>4 DEF Grant
<1>7. \A d : ActiveHuman(d)' = ActiveHuman(d)
  BY DEF ActiveHuman
<1>8. \A d \in decisions' :
        (d \in decisions /\ Counts(d, r, q, clock)) <=> Counts(d, r, q, clock)'
  BY <1>0, <1>1, <1>3, <1>5, <1>7 DEF Counts
<1>9. Delegated(q, clock, delegations)' = Delegated(q, clock, delegations)
  BY <1>0, <1>1, <1>3, <1>6 DEF Delegated
<1>10. \A p : HoldsAny(p, q.comps, Delegated(q, clock, delegations))'
                = HoldsAny(p, q.comps, Delegated(q, clock, delegations))
  BY <1>1, <1>9 DEF HoldsAny, HoldsCompetence
<1>11. Denied(r, q, clock, decisions)' = Denied(r, q, clock, decisions)
  BY <1>1, <1>8 DEF Denied
<1>12. Approvers(r, q, clock, decisions, delegations)'
         = Approvers(r, q, clock, decisions, delegations)
  BY <1>1, <1>8, <1>10 DEF Approvers
<1>13. ~(clock <= Deadline(q)) /\ ~(clock <= Deadline(q))'
  BY <1>0, <1>1, <1>2
<1> QED
  BY <1>1, <1>11, <1>12, <1>13 DEF ResolveNow, Resolve, Needed

\* Past its deadline, only the registry changes the answer to a request.
THEOREM DeadlinesAreFinal == ApprovalSpec => DeadlineIsFinal
<1>1. IInv /\ [ApprovalNext]_approvalVars
        => [\A r \in Requests : Settled(r) /\ party' = party
              => ResolveNow(r)' = ResolveNow(r)]_approvalVars
  BY SettledAgree
<1> QED
  BY <1>1, Invariant, PTL DEF ApprovalSpec, DeadlineIsFinal

-----------------------------------------------------------------------------
(***************************************************************************)
(* The algebra of control forms is what its users take it for: stacking    *)
(* packs is the least form at least as strict as each of them, in whatever *)
(* order they are stacked, and adding a pack never loosens anything.       *)
(***************************************************************************)

Forms == SUBSET Guarantees

\* A form that blocks gives no other guarantee; Compose yields no other kind.
Normal(f) == BLOCKED \in f => f = Block

\* Compose(a, b) is at least as strict as a and as b, and no stricter than it
\* has to be: the least upper bound of the two.
THEOREM ComposeIsLeastUpperBound ==
    ASSUME NEW a \in Forms, NEW b \in Forms
    PROVE  /\ Leq(a, Compose(a, b)) /\ Leq(b, Compose(a, b))
           /\ \A c \in Forms : Leq(a, c) /\ Leq(b, c) => Leq(Compose(a, b), c)
<1>1. CASE BLOCKED \in a \/ BLOCKED \in b
  <2>1. Compose(a, b) = Block /\ BLOCKED \in Block
    BY <1>1 DEF Compose, Block
  <2> QED
    BY <1>1, <2>1 DEF Leq
<1>2. CASE BLOCKED \notin a /\ BLOCKED \notin b
  <2>1. Compose(a, b) = a \cup b
    BY <1>2 DEF Compose
  <2> QED
    BY <1>2, <2>1 DEF Leq
<1> QED
  BY <1>1, <1>2

\* The order in which packs are stacked does not matter.
THEOREM ComposeIsCommutativeAssociative ==
    ASSUME NEW a \in Forms, NEW b \in Forms, NEW c \in Forms
    PROVE  /\ Compose(a, b) = Compose(b, a)
           /\ Compose(a, Compose(b, c)) = Compose(Compose(a, b), c)
<1>1. Compose(a, b) = Compose(b, a)
  BY DEF Compose
<1>2. BLOCKED \in Block
  BY DEF Block
<1>3. CASE BLOCKED \in a \/ BLOCKED \in b \/ BLOCKED \in c
  <2>1. Compose(a, Compose(b, c)) = Block
    BY <1>2, <1>3 DEF Compose
  <2>2. Compose(Compose(a, b), c) = Block
    BY <1>2, <1>3 DEF Compose
  <2> QED
    BY <1>1, <2>1, <2>2
<1>4. CASE ~(BLOCKED \in a \/ BLOCKED \in b \/ BLOCKED \in c)
  <2>1. Compose(a, Compose(b, c)) = a \cup (b \cup c)
    BY <1>4 DEF Compose
  <2>2. Compose(Compose(a, b), c) = (a \cup b) \cup c
    BY <1>4 DEF Compose
  <2> QED
    BY <1>1, <2>1, <2>2
<1> QED
  BY <1>3, <1>4

\* A stack is composed by adding one pack after the other to AUTO.
THEOREM StackIsFold ==
    ASSUME NEW forms \in SUBSET Forms, NEW f \in Forms
    PROVE  /\ ComposeAll({}) = AUTO
           /\ ComposeAll(forms \cup {f}) = Compose(ComposeAll(forms), f)
<1>1. ComposeAll({}) = AUTO
  <2>1. UNION {} = {}
    OBVIOUS
  <2>2. ~ \E g \in {} : BLOCKED \in g
    OBVIOUS
  <2> QED
    BY <2>1, <2>2 DEF ComposeAll, AUTO
<1>2. BLOCKED \in Block
  BY DEF Block
<1>3. CASE \E g \in forms : BLOCKED \in g
  <2>1. ComposeAll(forms) = Block /\ ComposeAll(forms \cup {f}) = Block
    BY <1>3 DEF ComposeAll
  <2> QED
    BY <1>1, <1>2, <2>1 DEF Compose
<1>4. CASE ~ \E g \in forms : BLOCKED \in g
  <2>1. ComposeAll(forms) = UNION forms /\ BLOCKED \notin UNION forms
    BY <1>4 DEF ComposeAll
  <2>2. CASE BLOCKED \in f
    <3>1. ComposeAll(forms \cup {f}) = Block
      BY <2>2 DEF ComposeAll
    <3> QED
      BY <1>1, <2>2, <3>1 DEF Compose
  <2>3. CASE BLOCKED \notin f
    <3>1. ComposeAll(forms \cup {f}) = UNION (forms \cup {f})
      BY <1>4, <2>3 DEF ComposeAll
    <3>2. UNION (forms \cup {f}) = (UNION forms) \cup f
      OBVIOUS
    <3> QED
      BY <1>1, <2>1, <2>3, <3>1, <3>2 DEF Compose
  <2> QED
    BY <2>2, <2>3
<1> QED
  BY <1>3, <1>4

\* Packs only ever tighten: more packs demand at least as much.
THEOREM PacksOnlyTighten ==
    ASSUME NEW forms \in SUBSET Forms, NEW more \in SUBSET Forms, forms \subseteq more
    PROVE  Leq(ComposeAll(forms), ComposeAll(more))
<1>1. BLOCKED \in Block
  BY DEF Block
<1>2. CASE \E g \in more : BLOCKED \in g
  <2>1. ComposeAll(more) = Block
    BY <1>2 DEF ComposeAll
  <2> QED
    BY <1>1, <2>1 DEF Leq
<1>3. CASE ~ \E g \in more : BLOCKED \in g
  <2>1. ComposeAll(forms) = UNION forms /\ ComposeAll(more) = UNION more
    BY <1>3 DEF ComposeAll
  <2>2. BLOCKED \notin UNION forms
    BY <1>3
  <2> QED
    BY <2>1, <2>2 DEF Leq
<1> QED
  BY <1>2, <1>3

\* A stricter form never needs fewer hands, unless nothing may run at all.
THEOREM StricterNeedsNoFewerHands ==
    ASSUME NEW a \in Forms, NEW b \in Forms, Leq(a, b), BLOCKED \notin b
    PROVE  HandsOf(a) \in Nat /\ HandsOf(b) \in Nat /\ HandsOf(a) <= HandsOf(b)
<1>1. a \subseteq b
  BY DEF Leq
<1> QED
  BY <1>1 DEF HandsOf
=============================================================================
