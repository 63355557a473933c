--------------------------- MODULE DecisionQueue ---------------------------
(***************************************************************************)
(* A pending decision and its humans (decisions/queue.py, and              *)
(* decision_record, which resolves one).  The queue is a file that every   *)
(* call reads as a whole when it starts and writes as a whole whenever it  *)
(* changed something; nothing is locked.  The bridge serves each request   *)
(* in a thread of its own, so calls may overlap; one caller makes them     *)
(* follow each other.                                                      *)
(*                                                                         *)
(* One decision is followed from being open, with or without a panel.      *)
(* Options and rationales are opaque; a call the queue refuses does what   *)
(* reading the entry does (Read).  A flush is taken as one step.           *)
(***************************************************************************)
EXTENDS Integers, FiniteSets

CONSTANTS
    Callers,        \* threads with a call on the decision
    Parties,        \* who may act on it
    Raiser,         \* the party that raised it
    Options,        \* what its surface offers
    Panels,         \* the panels it may be opened with
    NoPanel,        \* it is decided singly
    Nobody,         \* in place of a party
    NoOption,       \* in place of an option
    Ttl,            \* length of a lease and of a link, in ticks
    EscalateAt,     \* when an unclaimed decision widens to its ladder
    Horizon,        \* bound: the clock
    MaxLinks,       \* bound: links ever minted
    MaxCrashes      \* bound: calls that die

Rules == {"unanimous", "m_concordant", "any_m"}

\* open refuses any other panel; a unanimous one has m = seats.
PanelSpec == {s \in [seats : 2..Cardinality(Parties), rule : Rules, m : 2..Cardinality(Parties)] :
                 s.m <= s.seats /\ (s.rule = "unanimous" => s.m = s.seats)}

ASSUME DecisionQueueAssumption ==
    /\ Raiser \in Parties /\ Nobody \notin Parties /\ IsFiniteSet(Parties)
    /\ NoOption \notin Options
    /\ Panels \subseteq PanelSpec /\ NoPanel \notin PanelSpec
    /\ Ttl \in Nat \ {0}
    /\ {EscalateAt, Horizon, MaxLinks, MaxCrashes} \subseteq Nat

Link  == [id : 1..MaxLinks, party : Parties, until : Nat, used : BOOLEAN, dead : BOOLEAN]
Entry == [state : {"open", "decided"}, claim : Parties \cup {Nobody}, until : Nat,
          escalated : BOOLEAN, seats : [Parties -> Nat],
          records : [Parties -> Options \cup {NoOption}], links : SUBSET Link]
Call  == [stage : {"out", "loaded", "invalidate", "resolve", "choose", "spend", "close"},
          by : Parties \cup {Nobody}, link : 0..MaxLinks, option : Options \cup {NoOption}]

VARIABLES
    panel,      \* the panel it was opened with, never changed
    ladder,     \* whether a wider competence was declared, never changed
    file,       \* the entry in decisions/pending.jsonl
    now,        \* the clock
    call,       \* where each caller is
    copy,       \* the entry each caller has in memory
    minted,     \* links minted so far
    written,    \* governed writes each link has authenticated
    choices,    \* the residual-decision events on the chain
    crashes     \* calls that died

opened == <<panel, ladder>>
vars   == <<opened, file, now, call, copy, minted, written, choices, crashes>>

Fresh == [state |-> "open", claim |-> Nobody, until |-> 0, escalated |-> FALSE,
          seats |-> [p \in Parties |-> 0], records |-> [p \in Parties |-> NoOption],
          links |-> {}]
Out   == [stage |-> "out", by |-> Nobody, link |-> 0, option |-> NoOption]

Init ==
    /\ panel \in Panels \cup {NoPanel}
    /\ ladder \in BOOLEAN
    /\ file = Fresh
    /\ now = 0
    /\ call = [c \in Callers |-> Out]
    /\ copy = [c \in Callers |-> Fresh]
    /\ minted = 0
    /\ written = [l \in 1..MaxLinks |-> 0]
    /\ choices = {}
    /\ crashes = 0

-----------------------------------------------------------------------------
(***************************************************************************)
(* Reading an entry                                                        *)
(***************************************************************************)

\* _release_if_expired: an expired lease widens back to every holder.
Released(e) ==
    IF e.claim # Nobody /\ e.until <= now
    THEN [e EXCEPT !.claim = Nobody, !.until = 0] ELSE e

\* _maybe_escalate: once, and only while nobody has claimed.
Escalated(e) ==
    IF e.state = "open" /\ e.claim = Nobody /\ ~e.escalated /\ ladder /\ now >= EscalateAt
    THEN [e EXCEPT !.escalated = TRUE] ELSE e

\* get, which writes the file when it changed the entry.
Refreshed(e) == Escalated(Released(e))
SaveRefreshed(e) == file' = IF Refreshed(e) = e THEN file ELSE Refreshed(e)

\* A live lease of another party is honoured.
MayHold(e, p) == e.claim \in {Nobody, p}

\* Mutant: a link that was used still works.
LinkWorks_Used(e, l, p) ==
    l = 0 \/ \E r \in e.links : r.id = l /\ r.party = p /\ ~r.dead /\ r.until > now

\* verify_link: 0 stands for a call made without a link.
LinkWorks(e, l, p) ==
    l = 0 \/ \E r \in e.links : r.id = l /\ r.party = p /\ ~r.used /\ ~r.dead /\ r.until > now

Recorded(e) == {p \in Parties : e.records[p] # NoOption}

\* Seats other parties hold, by a live lease or by a record.
Taken(e, p) == {q \in Parties \ {p} : e.seats[q] > now} \cup Recorded(e)

\* A party that ever leased a seat in this round is let back in.
SeatFree(e, p) == e.seats[p] # 0 \/ Cardinality(Taken(e, p)) < panel.seats

Votes(e, o) == Cardinality({p \in Recorded(e) : e.records[p] = o})

Top(e, o) == \A q \in Options : Votes(e, q) <= Votes(e, o)

\* Mutant: one vote short of m is enough.
Met_OneShort(e) == \E o \in Options : Votes(e, o) >= panel.m - 1

Met(e) == \E o \in Options : Votes(e, o) >= panel.m

\* Mutant: the seat that has just recorded is counted as still to come.
Splits_Late(e) ==
    LET n == Cardinality(Recorded(e)) - 1
    IN  ~Met(e) /\ IF panel.rule = "any_m" THEN n >= panel.m
                   ELSE \A o \in Options : Votes(e, o) > 0 =>
                           Votes(e, o) + panel.seats - n < panel.m

\* Mutant: every rule splits on the first discord.
Splits_Early(e) == ~Met(e) /\ \E o \in Options : Votes(e, o) \notin {0, Cardinality(Recorded(e))}

\* _resolve_panel: any_m splits on discord at the quorum, the other rules when
\* no option that has a vote can reach m any more.
Splits(e) ==
    LET n == Cardinality(Recorded(e))
    IN  ~Met(e) /\ IF panel.rule = "any_m" THEN n >= panel.m
                   ELSE \A o \in Options : Votes(e, o) > 0 =>
                           Votes(e, o) + panel.seats - n < panel.m

\* The call c goes on to a stage, or returns.
Goto(c, k)  == call' = [call EXCEPT ![c] = k] /\ UNCHANGED copy
Return(c)   == call' = [call EXCEPT ![c] = Out] /\ copy' = [copy EXCEPT ![c] = Fresh]
Flush(c, e) == file' = e /\ copy' = [copy EXCEPT ![c] = e]

-----------------------------------------------------------------------------
(***************************************************************************)
(* The calls                                                               *)
(***************************************************************************)

\* DecisionQueue(folder): the whole file is read.
Load(c) ==
    /\ call[c] = Out
    /\ call' = [call EXCEPT ![c] = [Out EXCEPT !.stage = "loaded"]]
    /\ copy' = [copy EXCEPT ![c] = file]
    /\ UNCHANGED <<opened, file, now, minted, written, choices, crashes>>

\* pending, get, and every call that is refused.
Read(c) ==
    /\ call[c].stage = "loaded"
    /\ SaveRefreshed(copy[c])
    /\ Return(c)
    /\ UNCHANGED <<opened, now, minted, written, choices, crashes>>

\* Mutant: whether the decision is still open is not asked.
Acts_Closed(c, p, l) ==
    /\ call[c].stage = "loaded"
    /\ p # Raiser
    /\ LinkWorks(Refreshed(copy[c]), l, p)

\* The entry as the call finds it; p acts on it, by link l or without one.
Acts(c, p, l) ==
    /\ call[c].stage = "loaded"
    /\ Refreshed(copy[c]).state = "open"
    /\ p # Raiser
    /\ LinkWorks(Refreshed(copy[c]), l, p)

\* claim of a decision without a panel; it is written before the links of
\* others are.
Claim(c, p, l) ==
    LET e == Refreshed(copy[c])
    IN  /\ Acts(c, p, l)
        /\ panel = NoPanel
        /\ MayHold(e, p)
        /\ Flush(c, [e EXCEPT !.claim = p, !.until = now + Ttl])
        /\ call' = [call EXCEPT ![c] = [Out EXCEPT !.stage = "invalidate", !.by = p]]
        /\ UNCHANGED <<opened, now, minted, written, choices, crashes>>

\* _invalidate_foreign_links
InvalidateLinks(c) ==
    LET e    == copy[c]
        dies == {r \in e.links : r.party # call[c].by /\ ~r.used /\ ~r.dead}
        new  == (e.links \ dies) \cup {[r EXCEPT !.dead = TRUE] : r \in dies}
    IN  /\ call[c].stage = "invalidate"
        /\ file' = IF dies = {} THEN file ELSE [e EXCEPT !.links = new]
        /\ Return(c)
        /\ UNCHANGED <<opened, now, minted, written, choices, crashes>>

\* claim of a seat.
ClaimSeat(c, p, l) ==
    LET e == Refreshed(copy[c])
    IN  /\ Acts(c, p, l)
        /\ panel # NoPanel
        /\ p \notin Recorded(e)
        /\ SeatFree(e, p)
        /\ file' = [e EXCEPT !.seats[p] = now + Ttl]
        /\ Return(c)
        /\ UNCHANGED <<opened, now, minted, written, choices, crashes>>

Release(c, p) ==
    LET e == Refreshed(copy[c])
    IN  /\ call[c].stage = "loaded"
        /\ e.state = "open"
        /\ e.claim = p
        /\ file' = [e EXCEPT !.claim = Nobody, !.until = 0]
        /\ Return(c)
        /\ UNCHANGED <<opened, now, minted, written, choices, crashes>>

MintLink(c, p) ==
    LET e == Refreshed(copy[c])
        r == [id |-> minted + 1, party |-> p, until |-> now + Ttl, used |-> FALSE, dead |-> FALSE]
    IN  /\ Acts(c, p, 0)
        /\ minted < MaxLinks
        /\ minted' = minted + 1
        /\ file' = [e EXCEPT !.links = @ \cup {r}]
        /\ Return(c)
        /\ UNCHANGED <<opened, now, written, choices, crashes>>

\* One more governed write by a link.
Writes(l) == written' = [k \in 1..MaxLinks |-> IF k = l THEN written[k] + 1 ELSE written[k]]

-----------------------------------------------------------------------------
(***************************************************************************)
(* decision_record                                                         *)
(***************************************************************************)

\* A foreign live claim is honoured; the decision has no panel.
Record(c, p, l, o) ==
    /\ Acts(c, p, l)
    /\ panel = NoPanel
    /\ MayHold(Refreshed(copy[c]), p)
    /\ SaveRefreshed(copy[c])
    /\ copy' = [copy EXCEPT ![c] = Refreshed(copy[c])]
    /\ call' = [call EXCEPT ![c] = [stage |-> "choose", by |-> p, link |-> l, option |-> o]]
    /\ UNCHANGED <<opened, now, minted, written, choices, crashes>>

\* record_seat: a seat decides once.
RecordSeat(c, p, l, o) ==
    LET e == Refreshed(copy[c])
    IN  /\ Acts(c, p, l)
        /\ panel # NoPanel
        /\ p \notin Recorded(e)
        /\ SeatFree(e, p)
        /\ Flush(c, [e EXCEPT !.records[p] = o, !.seats[p] = 0])
        /\ call' = [call EXCEPT ![c] = [stage |-> "resolve", by |-> p, link |-> l, option |-> o]]
        /\ Writes(l)
        /\ UNCHANGED <<opened, now, minted, choices, crashes>>

\* The seat's call returns; a link it was made with is spent first.
SeatDone(c) == [call[c] EXCEPT !.stage = "spend"]

\* The rule is met: the panel chooses.
PanelMeets(c) ==
    /\ call[c].stage = "resolve"
    /\ Met(copy[c])
    /\ \E o \in Options :
          /\ Top(copy[c], o)
          /\ Goto(c, [call[c] EXCEPT !.stage = "choose", !.by = Nobody, !.option = o])
    /\ UNCHANGED <<opened, file, now, minted, written, choices, crashes>>

\* The panel splits: a fresh one opens, up the ladder if there is one left.
PanelSplits(c) ==
    LET e == copy[c]
    IN  /\ call[c].stage = "resolve"
        /\ Splits(e)
        /\ Flush(c, [e EXCEPT !.records = Fresh.records, !.seats = Fresh.seats,
                              !.escalated = @ \/ ladder])
        /\ call' = [call EXCEPT ![c] = SeatDone(c)]
        /\ UNCHANGED <<opened, now, minted, written, choices, crashes>>

\* Neither: the records stay sealed.
PanelWaits(c) ==
    /\ call[c].stage = "resolve"
    /\ ~Met(copy[c]) /\ ~Splits(copy[c])
    /\ file' = copy[c]
    /\ Goto(c, SeatDone(c))
    /\ UNCHANGED <<opened, now, minted, written, choices, crashes>>

\* record_choice: the originated choice on the signed chain.
Choose(c) ==
    /\ call[c].stage = "choose"
    /\ choices' = choices \cup {[nr      |-> Cardinality(choices) + 1,
                                 by      |-> call[c].by,
                                 option  |-> call[c].option,
                                 records |-> copy[c].records]}
    /\ IF call[c].by = Nobody THEN UNCHANGED written ELSE Writes(call[c].link)
    /\ Goto(c, [call[c] EXCEPT !.stage = "spend"])
    /\ UNCHANGED <<opened, file, now, minted, crashes>>

\* record_choice passes over an append that failed, and its caller goes on.
ChooseUnrecorded(c) ==
    /\ call[c].stage = "choose"
    /\ Goto(c, [call[c] EXCEPT !.stage = "spend"])
    /\ UNCHANGED <<opened, file, now, minted, written, choices, crashes>>

\* verify_link with consume, if the call came by one.  A choice is then closed.
SpendLink(c) ==
    LET e      == Refreshed(copy[c])
        l      == call[c].link
        spent  == {r \in e.links : r.id = l}
        works  == e.state = "open" /\ \E p \in Parties : LinkWorks(e, l, p)
        new    == [e EXCEPT !.links = (@ \ spent) \cup {[r EXCEPT !.used = TRUE] : r \in spent}]
    IN  /\ call[c].stage = "spend"
        /\ IF l = 0 THEN UNCHANGED file
           ELSE IF works THEN file' = new ELSE SaveRefreshed(copy[c])
        /\ IF panel = NoPanel \/ call[c].by = Nobody
           THEN /\ call' = [call EXCEPT ![c].stage = "close"]
                /\ copy' = [copy EXCEPT ![c] = IF l = 0 THEN @ ELSE IF works THEN new ELSE e]
           ELSE Return(c)
        /\ UNCHANGED <<opened, now, minted, written, choices, crashes>>

\* close, whatever has become of the entry.
Close(c) ==
    /\ call[c].stage = "close"
    /\ file' = [copy[c] EXCEPT !.state = "decided"]
    /\ Return(c)
    /\ UNCHANGED <<opened, now, minted, written, choices, crashes>>

-----------------------------------------------------------------------------
Tick ==
    /\ now < Horizon
    /\ now' = now + 1
    /\ UNCHANGED <<opened, file, call, copy, minted, written, choices, crashes>>

Crash(c) ==
    /\ crashes < MaxCrashes
    /\ call[c] # Out
    /\ crashes' = crashes + 1
    /\ Return(c)
    /\ UNCHANGED <<opened, file, now, minted, written, choices>>

Next ==
    \/ \E c \in Callers :
          \/ Load(c) \/ Read(c) \/ InvalidateLinks(c)
          \/ PanelMeets(c) \/ PanelSplits(c) \/ PanelWaits(c)
          \/ Choose(c) \/ ChooseUnrecorded(c) \/ SpendLink(c) \/ Close(c) \/ Crash(c)
          \/ \E p \in Parties :
                \/ Release(c, p) \/ MintLink(c, p)
                \/ \E l \in 0..minted :
                      \/ Claim(c, p, l) \/ ClaimSeat(c, p, l)
                      \/ \E o \in Options : Record(c, p, l, o) \/ RecordSeat(c, p, l, o)
    \/ Tick

Spec == Init /\ [][Next]_vars

-----------------------------------------------------------------------------
Choice == [nr : Nat, by : Parties \cup {Nobody}, option : Options,
           records : [Parties -> Options \cup {NoOption}]]

TypeOK ==
    /\ panel \in Panels \cup {NoPanel} /\ ladder \in BOOLEAN
    /\ file \in Entry
    /\ now \in 0..Horizon
    /\ call \in [Callers -> Call]
    /\ copy \in [Callers -> Entry]
    /\ minted \in 0..MaxLinks
    /\ written \in [1..MaxLinks -> Nat]
    /\ choices \subseteq Choice
    /\ crashes \in 0..MaxCrashes

(***************************************************************************)
(* A decision is decided once: unless the call that recorded the choice    *)
(* died before it closed the entry, no second choice reaches the chain.    *)
(* Holds for calls that follow each other, not for overlapping ones.       *)
(***************************************************************************)
OneChoicePerDecision == Cardinality(choices) <= 1 + crashes

(***************************************************************************)
(* decision_record (mcp_impl.py:4230): "a live foreign claim is honoured"; *)
(* decision_claim (4165): "the first claim locks it for the TTL". The      *)
(* claim is looked at when the call starts; by the time the choice reaches *)
(* the chain another party may hold one. It does not hold where calls      *)
(* overlap.                                                                *)
(***************************************************************************)
LeaseIsHonoured ==
    [][\A c \in Callers : Choose(c) /\ panel = NoPanel =>
          file.claim \in {Nobody, call[c].by} \/ file.until <= now]_vars

(***************************************************************************)
(* What a panel chooses its rule allows: m seats recorded it and, where    *)
(* the panel must be unanimous or its quorum agree, exactly m and no       *)
(* dissenter.  (A call that dies between record and resolution leaves a    *)
(* full panel behind, which a record by an expired lease can still join.)  *)
(***************************************************************************)
PanelChoosesByItsRule ==
    \A x \in choices : x.by = Nobody =>
        LET hands == {p \in Parties : x.records[p] = x.option}
            seats == {p \in Parties : x.records[p] # NoOption}
        IN  /\ Raiser \notin hands
            /\ Cardinality(hands) >= panel.m
            /\ panel.rule # "m_concordant" /\ crashes = 0 =>
                  hands = seats /\ Cardinality(hands) = panel.m

(***************************************************************************)
(* A panel always comes to an end: while it is open and no call is on its  *)
(* way (or died on it), a seat is left to record.                          *)
(***************************************************************************)
PanelIsNeverStuck ==
    panel # NoPanel /\ file.state = "open" /\ crashes = 0 /\ (\A c \in Callers : call[c] = Out) =>
        Cardinality(Recorded(file)) < panel.seats

\* The records a panel may end up with once its empty seats have recorded.
Completions(e) ==
    {f \in [Parties \ {Raiser} -> Options \cup {NoOption}] :
        /\ \A p \in Recorded(e) : f[p] = e.records[p]
        /\ Cardinality({p \in DOMAIN f : f[p] # NoOption}) <= panel.seats}

(***************************************************************************)
(* A panel splits only when nothing its empty seats could record would     *)
(* make it concord or, under any_m, when its quorum is there and differs.  *)
(***************************************************************************)
SplitsOnlyWhenHopeless ==
    [][\A c \in Callers : PanelSplits(c) =>
          IF panel.rule = "any_m"
          THEN Cardinality(Recorded(copy[c])) >= panel.m
               /\ \E p, q \in Recorded(copy[c]) : copy[c].records[p] # copy[c].records[q]
          ELSE ~\E f \in Completions(copy[c]), o \in Options :
                   Cardinality({p \in DOMAIN f : f[p] = o}) >= panel.m]_vars

(***************************************************************************)
(* "single-use": a link authenticates one governed write, and one more for *)
(* each call that died before it had spent it.                             *)
(***************************************************************************)
LinkWritesOnce == \A l \in 1..MaxLinks : written[l] <= 1 + crashes
=============================================================================
