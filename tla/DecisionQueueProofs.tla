------------------------ MODULE DecisionQueueProofs ------------------------
(***************************************************************************)
(* What the decision queue promises to calls that follow each other, for   *)
(* any parties, options, panels, leases and any number of links, ticks and *)
(* calls that die.  The argument: with a single caller the entry in memory *)
(* is the entry in the file from the load to the return, so whatever a     *)
(* call has looked at is still there when it acts on it.                   *)
(***************************************************************************)
EXTENDS DecisionQueue, FiniteSetTheorems, TLAPS

OneCaller == \E c : Callers = {c}

-----------------------------------------------------------------------------
(* The inductive invariant.                                                *)

\* What a call has in memory is what the file has.
CopyOK ==
    \A c \in Callers :
        IF call[c].stage = "out" THEN call[c] = Out ELSE copy[c] = file

\* What a call that goes on has found out; the raiser never records.
StageOK ==
    /\ file.records[Raiser] = NoOption
    /\ \A c \in Callers :
        /\ call[c].stage \notin {"out", "loaded"} => file.state = "open"
        /\ call[c].stage = "invalidate" => panel = NoPanel
        /\ call[c].stage = "resolve" =>
              panel # NoPanel /\ call[c].by # Nobody /\ Recorded(file) # {}
        /\ call[c].stage = "choose" =>
              call[c].option \in Options /\ (panel = NoPanel <=> call[c].by # Nobody)

\* A panel that is about to choose has the votes.
HoldOK ==
    \A c \in Callers : call[c].stage = "choose" /\ panel # NoPanel =>
        Votes(file, call[c].option) >= panel.m

\* The choice of a call is on the chain and the entry is still to be closed.
Chose(c) ==
    \/ call[c].stage = "close"
    \/ call[c].stage = "spend" /\ (panel = NoPanel \/ call[c].by = Nobody)

\* An open decision was chosen only by calls that died and the one on its way.
CountOK ==
    /\ IsFiniteSet(choices)
    /\ Cardinality(choices) <= 1 + crashes
    /\ file.state = "open" /\ (\A c \in Callers : ~Chose(c)) => Cardinality(choices) <= crashes

\* Records that end a panel one way or the other.
Quorum == IF panel.rule = "any_m" THEN panel.m ELSE panel.seats

\* The call c has nothing left to resolve.
Rests(c) ==
    \/ call[c].stage \in {"out", "loaded"}
    \/ call[c].stage = "spend" /\ call[c].by # Nobody

\* Where no call died, a panel that has its quorum is being resolved.
FullOK ==
    panel # NoPanel /\ crashes = 0 => \A c \in Callers :
        /\ file.state = "open" /\ Rests(c) => Cardinality(Recorded(file)) < Quorum
        /\ call[c].stage = "resolve" => Cardinality(Recorded(file)) <= Quorum
        /\ call[c].stage = "choose" /\ panel.rule # "m_concordant" =>
              /\ Cardinality(Recorded(file)) = panel.m
              /\ \A p \in Recorded(file) : file.records[p] = call[c].option

Works(l) == \E r \in file.links : r.id = l /\ ~r.used /\ ~r.dead /\ r.until > now

\* The call c has written by its link and not yet spent it.
Wrote(c) ==
    \/ call[c].stage \in {"resolve", "spend"}
    \/ call[c].stage = "choose" /\ call[c].by = Nobody

\* A link that still works has written only for calls that died and, it may
\* be, for the one on its way.
LinkOK ==
    /\ \A r \in file.links : r.id <= minted
    /\ \A c \in Callers : call[c].link <= minted
    /\ \A l \in 1..MaxLinks :
        /\ written[l] <= 1 + crashes
        /\ l > minted => written[l] = 0
        /\ (\A c \in Callers : ~(call[c].link = l /\ Wrote(c))) =>
              written[l] <= crashes \/ ~Works(l)
        /\ \A c \in Callers : call[c].link = l /\ call[c].stage = "choose" /\ call[c].by # Nobody =>
              written[l] <= crashes

IInv == TypeOK /\ CopyOK /\ StageOK /\ HoldOK /\ CountOK /\ FullOK /\ LinkOK /\ PanelChoosesByItsRule

-----------------------------------------------------------------------------
(* What reading an entry gives.                                            *)

LEMMA RefreshedKeeps ==
    ASSUME NEW e \in Entry
    PROVE  /\ Refreshed(e) \in Entry
           /\ Refreshed(e).state = e.state /\ Refreshed(e).links = e.links
           /\ Refreshed(e).records = e.records /\ Refreshed(e).seats = e.seats
           /\ Refreshed(e).claim \in {Nobody, e.claim}
<1>1. /\ Released(e) \in Entry
      /\ Released(e).state = e.state /\ Released(e).links = e.links
      /\ Released(e).records = e.records /\ Released(e).seats = e.seats
      /\ Released(e).claim \in {Nobody, e.claim}
  BY DEF Released, Entry
<1> DEFINE d == Released(e)
<1> HIDE DEF d
<1>2. /\ Escalated(d) \in Entry
      /\ Escalated(d).state = d.state /\ Escalated(d).links = d.links
      /\ Escalated(d).records = d.records /\ Escalated(d).seats = d.seats
      /\ Escalated(d).claim = d.claim
  BY <1>1 DEF Escalated, Entry, d
<1> QED
  BY <1>1, <1>2 DEF Refreshed, d

LEMMA RecordedFinite ==
    ASSUME NEW e
    PROVE  IsFiniteSet(Recorded(e)) /\ Cardinality(Recorded(e)) \in Nat
<1>1. Recorded(e) \in SUBSET Parties
  BY DEF Recorded
<1>2. IsFiniteSet(Recorded(e))
  BY <1>1, FS_Subset, DecisionQueueAssumption
<1> QED
  BY <1>2, FS_CardinalityType

\* The votes of an option are records; if they are all of them, all agree.
LEMMA VotesAreRecords ==
    ASSUME NEW e, NEW o
    PROVE  /\ Votes(e, o) \in Nat
           /\ Votes(e, o) <= Cardinality(Recorded(e))
           /\ Votes(e, o) = Cardinality(Recorded(e)) =>
                 \A p \in Recorded(e) : e.records[p] = o
<1> DEFINE V == {p \in Recorded(e) : e.records[p] = o}
<1>1. V \in SUBSET Recorded(e)
  OBVIOUS
<1>2. IsFiniteSet(V) /\ Cardinality(V) <= Cardinality(Recorded(e))
      /\ (Cardinality(Recorded(e)) = Cardinality(V) => Recorded(e) = V)
  BY <1>1, RecordedFinite, FS_Subset
<1>3. Cardinality(V) \in Nat
  BY <1>2, FS_CardinalityType
<1> QED
  BY <1>2, <1>3 DEF Votes

LEMMA PanelNumbers ==
    ASSUME TypeOK, panel # NoPanel
    PROVE  /\ panel \in PanelSpec
           /\ panel.m \in Nat /\ panel.seats \in Nat /\ panel.m >= 2 /\ panel.m <= panel.seats
           /\ panel.rule = "unanimous" => panel.m = panel.seats
           /\ panel.rule \in Rules
           /\ Quorum \in Nat /\ Quorum <= panel.seats /\ Quorum >= panel.m
           /\ panel.rule # "m_concordant" => Quorum = panel.m
<1>1. panel \in PanelSpec
  BY DecisionQueueAssumption DEF TypeOK
<1>2. Cardinality(Parties) \in Nat
  BY FS_CardinalityType, DecisionQueueAssumption
<1>3. panel.m \in Nat /\ panel.seats \in Nat /\ panel.m >= 2 /\ panel.m <= panel.seats
      /\ (panel.rule = "unanimous" => panel.m = panel.seats) /\ panel.rule \in Rules
  BY <1>1, <1>2 DEF PanelSpec
<1> QED
  BY <1>1, <1>3 DEF Quorum, Rules

-----------------------------------------------------------------------------
THEOREM InitInv == Init => IInv
<1> SUFFICES ASSUME Init PROVE IInv
  OBVIOUS
<1>1. TypeOK
  <2>1. Fresh \in Entry /\ Out \in Call
    BY DecisionQueueAssumption DEF Fresh, Out, Entry, Call
  <2> QED
    BY <2>1, DecisionQueueAssumption DEF Init, TypeOK
<1>2. Recorded(file) = {} /\ Cardinality(Recorded(file)) = 0
  <2>1. Recorded(file) = {}
    BY DEF Init, Fresh, Recorded
  <2> QED
    BY <2>1, FS_EmptySet
<1>3. CopyOK /\ HoldOK
  BY DEF Init, CopyOK, HoldOK, Out
<1>4. StageOK
  BY DecisionQueueAssumption DEF Init, StageOK, Out, Fresh
<1>5. CountOK
  BY FS_EmptySet DEF Init, CountOK
<1>6. FullOK
  <2> SUFFICES ASSUME panel # NoPanel, NEW c \in Callers
               PROVE  /\ Cardinality(Recorded(file)) < Quorum
                      /\ call[c].stage = "out"
    BY DEF FullOK, Init, Out
  <2> QED
    BY <1>1, <1>2, PanelNumbers DEF Init, Out
<1>7. LinkOK
  BY DEF Init, LinkOK, Fresh, Works, Out
<1>8. PanelChoosesByItsRule
  BY DEF Init, PanelChoosesByItsRule
<1> QED
  BY <1>1, <1>3, <1>4, <1>5, <1>6, <1>7, <1>8 DEF IInv

-----------------------------------------------------------------------------
(* A step between two calls, or of a call that only reads or leases: the   *)
(* state of the entry and its records stay.                                *)

Quiet(c) ==
    /\ call[c].stage \in {"out", "loaded", "invalidate"}
    /\ \/ call'[c] = Out
       \/ call'[c].stage = "loaded" /\ copy'[c] = file'
       \/ call'[c].stage = "invalidate" /\ copy'[c] = file' /\ file.state = "open" /\ panel = NoPanel
    /\ call'[c].link = 0
    /\ file'.state = file.state /\ file'.records = file.records
    /\ \A r \in file'.links : r.id <= minted'
    /\ minted <= minted'
    /\ \A l \in 1..MaxLinks : Works(l)' => Works(l) \/ written[l] = 0
    /\ UNCHANGED <<opened, written, choices, crashes>>

LEMMA QuietStep ==
    ASSUME IInv, TypeOK', NEW c, Callers = {c}, Quiet(c)
    PROVE  IInv'
<1>1. Recorded(file)' = Recorded(file)
  BY DEF Quiet, Recorded
<1>2. call'[c].stage \in {"out", "loaded", "invalidate"}
  BY DEF Quiet, Out
<1>3. CopyOK' /\ HoldOK'
  <2>1. CopyOK'
    BY DEF Quiet, CopyOK, Out
  <2>2. HoldOK'
    BY <1>2 DEF HoldOK
  <2> QED
    BY <2>1, <2>2
<1>4. StageOK'
  BY <1>2 DEF IInv, StageOK, Quiet, Out, opened
<1>5. CountOK'
  BY <1>2 DEF IInv, CountOK, Quiet, Chose, opened
<1>6. FullOK'
  <2> SUFFICES ASSUME panel' # NoPanel, crashes' = 0
               PROVE  file'.state = "open" /\ Rests(c)' => Cardinality(Recorded(file)') < Quorum'
    BY <1>2 DEF FullOK
  <2>1. CASE call[c].stage \in {"out", "loaded"}
    BY <1>1, <2>1 DEF IInv, FullOK, Rests, Quiet, opened, Quorum
  <2>2. CASE call[c].stage = "invalidate"
    BY <2>2 DEF IInv, StageOK, Quiet, opened
  <2> QED
    BY <2>1, <2>2 DEF Quiet
<1>7. LinkOK'
  <2>0. \A l \in 1..MaxLinks : written[l] \in Nat
    BY DEF IInv, TypeOK
  <2>1. minted \in Nat /\ minted' \in Nat /\ crashes \in Nat
    BY DecisionQueueAssumption DEF IInv, TypeOK
  <2>2. ~Wrote(c) /\ ~Wrote(c)' /\ call'[c].stage # "choose"
    BY <1>2 DEF Quiet, Wrote
  <2> SUFFICES ASSUME NEW l \in 1..MaxLinks
               PROVE  /\ written[l] <= 1 + crashes
                      /\ l > minted' => written[l] = 0
                      /\ written[l] <= crashes \/ ~Works(l)'
    BY <2>1, <2>2 DEF LinkOK, Quiet
  <2>3. written[l] <= 1 + crashes /\ (l > minted => written[l] = 0)
        /\ (written[l] <= crashes \/ ~Works(l))
    BY <2>2 DEF IInv, LinkOK
  <2> QED
    BY <2>0, <2>1, <2>3 DEF Quiet
<1>8. PanelChoosesByItsRule'
  BY DEF IInv, PanelChoosesByItsRule, Quiet, opened
<1> QED
  BY <1>3, <1>4, <1>5, <1>6, <1>7, <1>8 DEF IInv

\* A call that returns has written the entry or left it.
LEMMA ReturnTyped ==
    ASSUME TypeOK, NEW c \in Callers, Return(c), file' \in Entry,
           UNCHANGED <<opened, now, minted, written, choices, crashes>>
    PROVE  TypeOK' /\ call'[c] = Out
<1>1. Out \in Call /\ Fresh \in Entry
  BY DecisionQueueAssumption DEF Out, Call, Fresh, Entry
<1> QED
  BY <1>1 DEF TypeOK, Return, opened

LEMMA LoadStep ==
    ASSUME IInv, NEW c, Callers = {c}, Load(c)
    PROVE  IInv'
<1>1. [Out EXCEPT !.stage = "loaded"] \in Call
  BY DecisionQueueAssumption DEF Out, Call
<1>2. TypeOK'
  BY <1>1 DEF IInv, TypeOK, Load, opened
<1>3. call'[c].stage = "loaded" /\ copy'[c] = file' /\ call'[c].link = 0
  BY DEF IInv, TypeOK, Load, Out
<1>4. Quiet(c)
  BY <1>3 DEF Quiet, Load, IInv, LinkOK, TypeOK, Works, Out
<1> QED
  BY <1>2, <1>4, QuietStep

LEMMA CopyIsFile ==
    ASSUME IInv, NEW c \in Callers, call[c].stage # "out"
    PROVE  copy[c] = file /\ file \in Entry
BY DEF IInv, CopyOK, TypeOK

LEMMA MintedNat ==
    ASSUME TypeOK
    PROVE  minted \in Nat /\ now \in Nat /\ crashes \in Nat /\ MaxLinks \in Nat
BY DecisionQueueAssumption DEF TypeOK

\* A call that returns and has at most widened or leased the entry.
LEMMA QuietReturn ==
    ASSUME IInv, NEW c, Callers = {c}, call[c].stage \in {"loaded", "invalidate"},
           Return(c), file' \in Entry, UNCHANGED <<opened, now, minted, written, choices, crashes>>,
           file'.state = file.state, file'.records = file.records, file'.links = file.links
    PROVE  IInv'
<1>1. TypeOK' /\ call'[c] = Out
  BY ReturnTyped DEF IInv
<1>2. \A l \in 1..MaxLinks : Works(l)' => Works(l)
  BY DEF Works
<1>3. Quiet(c)
  BY <1>1, <1>2, MintedNat DEF Quiet, IInv, LinkOK, Out
<1> QED
  BY <1>1, <1>3, QuietStep

LEMMA ReadStep ==
    ASSUME IInv, NEW c, Callers = {c}, Read(c)
    PROVE  IInv'
<1>1. file' = Refreshed(file)
  BY CopyIsFile DEF Read, SaveRefreshed
<1>2. file' \in Entry /\ file'.state = file.state /\ file'.records = file.records
      /\ file'.links = file.links
  BY <1>1, RefreshedKeeps DEF IInv, TypeOK
<1> QED
  BY <1>2, QuietReturn DEF Read

LEMMA ReleaseStep ==
    ASSUME IInv, NEW c, Callers = {c}, NEW p \in Parties, Release(c, p)
    PROVE  IInv'
<1>1. file' = [Refreshed(file) EXCEPT !.claim = Nobody, !.until = 0]
  BY CopyIsFile DEF Release
<1>2. file' \in Entry /\ file'.state = file.state /\ file'.records = file.records
      /\ file'.links = file.links
  BY <1>1, RefreshedKeeps DEF IInv, TypeOK, Entry
<1> QED
  BY <1>2, QuietReturn DEF Release

LEMMA ClaimSeatStep ==
    ASSUME IInv, NEW c, Callers = {c}, NEW p \in Parties, NEW l \in 0..minted, ClaimSeat(c, p, l)
    PROVE  IInv'
<1> DEFINE e == Refreshed(file)
<1>1. file' = [e EXCEPT !.seats[p] = now + Ttl]
  BY CopyIsFile DEF ClaimSeat, Acts
<1>2. /\ e \in Entry /\ e.state = file.state /\ e.records = file.records
      /\ e.links = file.links
  BY RefreshedKeeps DEF IInv, TypeOK
<1> HIDE DEF e
<1>3. now + Ttl \in Nat
  BY MintedNat, DecisionQueueAssumption DEF IInv
<1>4. file' \in Entry /\ file'.state = file.state /\ file'.records = file.records
      /\ file'.links = file.links
  BY <1>1, <1>2, <1>3 DEF Entry
<1> QED
  BY <1>4, QuietReturn DEF ClaimSeat, Acts

LEMMA MintLinkStep ==
    ASSUME IInv, NEW c, Callers = {c}, NEW p \in Parties, MintLink(c, p)
    PROVE  IInv'
<1> DEFINE e == Refreshed(file)
           r == [id |-> minted + 1, party |-> p, until |-> now + Ttl, used |-> FALSE, dead |-> FALSE]
<1>1. file' = [e EXCEPT !.links = e.links \cup {r}]
  BY CopyIsFile DEF MintLink, Acts
<1>2. /\ e \in Entry /\ e.state = file.state /\ e.records = file.records
      /\ e.links = file.links
  BY RefreshedKeeps DEF IInv, TypeOK
<1> HIDE DEF e
<1>3. now + Ttl \in Nat /\ minted + 1 \in 1..MaxLinks /\ minted' = minted + 1
  BY MintedNat, DecisionQueueAssumption DEF IInv, MintLink
<1>4. r \in Link
  BY <1>3 DEF Link
<1>5. r.id = minted + 1
  OBVIOUS
<1> HIDE DEF r
<1>6. file' \in Entry /\ file'.state = file.state /\ file'.records = file.records
      /\ file'.links = file.links \cup {r}
  BY <1>1, <1>2, <1>4 DEF Entry
<1>7. TypeOK' /\ call'[c] = Out
  <2>1. Out \in Call /\ Fresh \in Entry
    BY DecisionQueueAssumption DEF Out, Call, Fresh, Entry
  <2> QED
    BY <1>3, <1>6, <2>1, MintedNat DEF IInv, TypeOK, Return, opened, MintLink
<1>8. \A l \in 1..MaxLinks : Works(l)' => Works(l) \/ written[l] = 0
  <2> SUFFICES ASSUME NEW l \in 1..MaxLinks, Works(l)'
               PROVE  Works(l) \/ written[l] = 0
    OBVIOUS
  <2>1. now' = now
    BY DEF MintLink
  <2>2. PICK k \in file'.links : k.id = l /\ ~k.used /\ ~k.dead /\ k.until > now
    BY <2>1 DEF Works
  <2>3. CASE k = r
    BY <1>5, <2>2, <2>3, MintedNat DEF IInv, LinkOK
  <2>4. CASE k \in file.links
    BY <2>2, <2>4 DEF Works
  <2> QED
    BY <1>6, <2>2, <2>3, <2>4
<1>9. \A k \in file'.links : k.id <= minted'
  <2> SUFFICES ASSUME NEW k \in file'.links PROVE k.id <= minted'
    OBVIOUS
  <2>1. CASE k = r
    BY <1>3, <1>5, <2>1
  <2>2. CASE k \in file.links
    BY <1>3, <2>2, MintedNat DEF IInv, LinkOK, TypeOK, Entry, Link
  <2> QED
    BY <1>6, <2>1, <2>2
<1>10. Quiet(c)
  BY <1>3, <1>6, <1>7, <1>8, <1>9, MintedNat DEF Quiet, MintLink, Acts, IInv, Out
<1> QED
  BY <1>7, <1>10, QuietStep

LEMMA ClaimStep ==
    ASSUME IInv, NEW c, Callers = {c}, NEW p \in Parties, NEW l \in 0..minted, Claim(c, p, l)
    PROVE  IInv'
<1> DEFINE e == Refreshed(file)
           f == [e EXCEPT !.claim = p, !.until = now + Ttl]
           k == [Out EXCEPT !.stage = "invalidate", !.by = p]
<1>1. file' = f /\ copy' = [copy EXCEPT ![c] = f] /\ call' = [call EXCEPT ![c] = k]
      /\ e.state = "open"
  BY CopyIsFile DEF Claim, Acts, Flush
<1>2. /\ e \in Entry /\ e.state = file.state /\ e.records = file.records
      /\ e.links = file.links
  BY RefreshedKeeps DEF IInv, TypeOK
<1> HIDE DEF e
<1>3. now + Ttl \in Nat
  BY MintedNat, DecisionQueueAssumption DEF IInv
<1>4. f \in Entry /\ f.state = file.state /\ f.records = file.records /\ f.links = file.links
  BY <1>2, <1>3 DEF Entry
<1>5. k \in Call /\ k.stage = "invalidate" /\ k.link = 0
  <2>1. Out \in Call
    BY DecisionQueueAssumption DEF Out, Call
  <2>2. k \in Call
    BY <2>1 DEF Call
  <2>3. k.stage = "invalidate" /\ k.link = 0
    BY <2>1 DEF Call, Out
  <2> QED
    BY <2>2, <2>3
<1> HIDE DEF f, k
<1>6. TypeOK' /\ call'[c] = k /\ copy'[c] = file'
  BY <1>1, <1>4, <1>5 DEF IInv, TypeOK, Claim, opened
<1>7. \A i \in 1..MaxLinks : Works(i)' => Works(i)
  BY <1>1, <1>4 DEF Works, Claim
<1>8. Quiet(c)
  <2>1. call[c].stage = "loaded" /\ panel = NoPanel /\ UNCHANGED <<opened, minted, written, choices, crashes>>
    BY DEF Claim, Acts
  <2>2. file'.state = file.state /\ file'.records = file.records /\ file.state = "open"
        /\ \A r \in file'.links : r.id <= minted'
    BY <1>1, <1>2, <1>4, <2>1 DEF IInv, LinkOK
  <2>3. call'[c].stage = "invalidate" /\ call'[c].link = 0
    BY <1>5, <1>6
  <2> QED
    BY <1>6, <1>7, <2>1, <2>2, <2>3, MintedNat DEF Quiet, IInv
<1> QED
  BY <1>6, <1>8, QuietStep

LEMMA InvalidateLinksStep ==
    ASSUME IInv, NEW c, Callers = {c}, InvalidateLinks(c)
    PROVE  IInv'
<1> DEFINE dies == {r \in file.links : r.party # call[c].by /\ ~r.used /\ ~r.dead}
           new  == (file.links \ dies) \cup {[r EXCEPT !.dead = TRUE] : r \in dies}
<1>1. file' = IF dies = {} THEN file ELSE [file EXCEPT !.links = new]
  BY CopyIsFile DEF InvalidateLinks
<1>2. \A r \in dies : r \in Link /\ [r EXCEPT !.dead = TRUE] \in Link
                        /\ [r EXCEPT !.dead = TRUE].id = r.id /\ [r EXCEPT !.dead = TRUE].dead
  BY DEF IInv, TypeOK, Entry, Link
<1>3. \A r \in new : r \in Link /\ (r \in file.links \/ (r.dead /\ \E q \in file.links : q.id = r.id))
  <2> SUFFICES ASSUME NEW r \in new
               PROVE  r \in Link /\ (r \in file.links \/ (r.dead /\ \E q \in file.links : q.id = r.id))
    OBVIOUS
  <2>1. CASE r \in file.links
    BY <2>1 DEF IInv, TypeOK, Entry
  <2>2. CASE r \notin file.links
    <3>1. PICK q \in dies : r = [q EXCEPT !.dead = TRUE]
      BY <2>2
    <3> QED
      BY <1>2, <3>1
  <2> QED
    BY <2>1, <2>2
<1> HIDE DEF new, dies
<1>4. file' \in Entry /\ file'.state = file.state /\ file'.records = file.records
      /\ (file'.links = file.links \/ file'.links = new)
  BY <1>1, <1>3 DEF IInv, TypeOK, Entry
<1>5. TypeOK' /\ call'[c] = Out
  BY <1>4, ReturnTyped DEF IInv, InvalidateLinks
<1>6. \A l \in 1..MaxLinks : Works(l)' => Works(l)
  BY <1>3, <1>4 DEF Works, InvalidateLinks
<1>7. \A r \in file'.links : r.id <= minted'
  BY <1>3, <1>4 DEF InvalidateLinks, IInv, LinkOK
<1>8. Quiet(c)
  BY <1>4, <1>5, <1>6, <1>7, MintedNat DEF Quiet, IInv, InvalidateLinks, Out
<1> QED
  BY <1>5, <1>8, QuietStep

-----------------------------------------------------------------------------
(* The steps that record, resolve and choose.                              *)

LEMMA TickStep ==
    ASSUME IInv, NEW c, Callers = {c}, Tick
    PROVE  IInv'
<1>1. TypeOK'
  BY MintedNat, DecisionQueueAssumption DEF IInv, TypeOK, Tick, opened
<1>2. \A l \in 1..MaxLinks : Works(l)' => Works(l)
  BY MintedNat DEF IInv, TypeOK, Entry, Link, Works, Tick
<1>3. CopyOK' /\ StageOK' /\ HoldOK' /\ CountOK' /\ PanelChoosesByItsRule'
  BY DEF IInv, CopyOK, StageOK, HoldOK, CountOK, PanelChoosesByItsRule, Tick, opened, Chose,
         Recorded, Votes
<1>4. FullOK'
  BY DEF IInv, FullOK, Rests, Quorum, Recorded, Tick, opened
<1>5. LinkOK'
  BY <1>2 DEF IInv, LinkOK, Wrote, Tick
<1> QED
  BY <1>1, <1>3, <1>4, <1>5 DEF IInv

LEMMA CrashStep ==
    ASSUME IInv, NEW c, Callers = {c}, Crash(c)
    PROVE  IInv'
<1>0. crashes \in Nat /\ crashes' = crashes + 1
  BY MintedNat DEF IInv, Crash
<1>1. TypeOK' /\ call'[c] = Out
  <2>1. Out \in Call /\ Fresh \in Entry
    BY DecisionQueueAssumption DEF Out, Call, Fresh, Entry
  <2>2. crashes' \in 0..MaxCrashes
    BY <1>0, DecisionQueueAssumption DEF IInv, Crash, TypeOK
  <2> QED
    BY <2>1, <2>2 DEF IInv, TypeOK, Crash, Return, opened
<1>2. CopyOK' /\ StageOK' /\ HoldOK'
  BY <1>1 DEF IInv, CopyOK, StageOK, HoldOK, Crash, Out
<1>3. CountOK'
  <2>1. Cardinality(choices) \in Nat
    BY FS_CardinalityType DEF IInv, CountOK
  <2> QED
    BY <1>0, <2>1 DEF IInv, CountOK, Crash
<1>4. FullOK'
  BY <1>0 DEF FullOK
<1>5. LinkOK'
  <2>1. \A l \in 1..MaxLinks : written[l] \in Nat /\ written[l] <= 1 + crashes
    BY DEF IInv, TypeOK, LinkOK
  <2> QED
    BY <1>0, <1>1, <2>1, MintedNat DEF IInv, LinkOK, Crash, Out
<1>6. PanelChoosesByItsRule'
  BY <1>0 DEF IInv, PanelChoosesByItsRule, Crash, opened
<1> QED
  BY <1>1, <1>2, <1>3, <1>4, <1>5, <1>6 DEF IInv

\* A step that leaves the links alone: what each has written.
LEMMA LinksKept ==
    ASSUME IInv, NEW c, Callers = {c}, file'.links = file.links, call'[c].link <= minted,
           UNCHANGED <<now, minted, crashes>>,
           \/ /\ written' = written
              /\ Wrote(c) => Wrote(c)' /\ call'[c].link = call[c].link
              /\ call'[c].stage = "choose" /\ call'[c].by # Nobody => call'[c].link = 0
           \/ /\ Wrote(c)' /\ ~Wrote(c)
              /\ call'[c].link = 0 => written' = written
              /\ \A l \in 1..MaxLinks :
                    written'[l] = IF l = call'[c].link THEN written[l] + 1 ELSE written[l]
              /\ call'[c].link # 0 => call'[c].link <= minted /\ written[call'[c].link] <= crashes
           \/ /\ written' = written
              /\ ~Wrote(c)
              /\ call'[c].link # 0 => written[call'[c].link] <= crashes
    PROVE  LinkOK'
<1>1. minted \in Nat /\ crashes \in Nat /\ \A l \in 1..MaxLinks : written[l] \in Nat
  BY MintedNat DEF IInv, TypeOK
<1>2. \A r \in file'.links : r.id <= minted'
  BY DEF IInv, LinkOK
<1>3. \A l \in 1..MaxLinks : Works(l)' <=> Works(l)
  BY DEF Works
<1> SUFFICES ASSUME NEW l \in 1..MaxLinks
             PROVE  /\ written'[l] <= 1 + crashes'
                    /\ l > minted' => written'[l] = 0
                    /\ ~(call'[c].link = l /\ Wrote(c)') => written'[l] <= crashes' \/ ~Works(l)'
                    /\ call'[c].link = l /\ call'[c].stage = "choose" /\ call'[c].by # Nobody =>
                          written'[l] <= crashes'
  BY <1>2 DEF LinkOK
<1>4. /\ written[l] <= 1 + crashes
      /\ l > minted => written[l] = 0
      /\ ~(call[c].link = l /\ Wrote(c)) => written[l] <= crashes \/ ~Works(l)
  BY DEF IInv, LinkOK
<1>5. ~(Wrote(c)' /\ call'[c].stage = "choose" /\ call'[c].by # Nobody)
  BY DEF Wrote
<1> QED
  BY <1>1, <1>3, <1>4, <1>5

\* A party that acts finds the entry open, and a link that works has written
\* for nobody but the calls that died.
LEMMA WhoActs ==
    ASSUME IInv, NEW c, Callers = {c}, NEW p \in Parties, NEW l \in 0..minted, Acts(c, p, l)
    PROVE  /\ copy[c] = file /\ file.state = "open" /\ p # Raiser /\ ~Wrote(c)
           /\ l # 0 => written[l] <= crashes
           /\ l \in 0..MaxLinks /\ l <= minted
<1>1. copy[c] = file /\ file \in Entry
  BY CopyIsFile DEF Acts
<1>2. Refreshed(file).state = file.state /\ Refreshed(file).links = file.links
  BY <1>1, RefreshedKeeps
<1>3. ~Wrote(c)
  BY DEF Acts, Wrote
<1>4. l \in 0..MaxLinks /\ l <= minted
  BY MintedNat DEF IInv, TypeOK
<1>5. ASSUME l # 0 PROVE written[l] <= crashes
  <2>1. Works(l)
    BY <1>1, <1>2, <1>5 DEF Acts, LinkWorks, Works
  <2>2. l \in 1..MaxLinks
    BY <1>4, <1>5
  <2> QED
    BY <1>3, <2>1, <2>2 DEF IInv, LinkOK
<1> QED
  BY <1>1, <1>2, <1>3, <1>4, <1>5 DEF Acts

LEMMA RecordStep ==
    ASSUME IInv, NEW c, Callers = {c}, NEW p \in Parties, NEW l \in 0..minted, NEW o \in Options,
           Record(c, p, l, o)
    PROVE  IInv'
<1> DEFINE e == Refreshed(file)
           k == [stage |-> "choose", by |-> p, link |-> l, option |-> o]
<1>1. /\ copy[c] = file /\ file.state = "open" /\ ~Wrote(c)
      /\ l # 0 => written[l] <= crashes
      /\ l \in 0..MaxLinks /\ l <= minted
  BY WhoActs DEF Record
<1>2. file' = e /\ copy' = [copy EXCEPT ![c] = e] /\ call' = [call EXCEPT ![c] = k]
      /\ e.claim \in {Nobody, p} /\ panel = NoPanel
  BY <1>1 DEF Record, SaveRefreshed, MayHold
<1>3. /\ e \in Entry /\ e.state = file.state /\ e.records = file.records
      /\ e.links = file.links
  BY RefreshedKeeps DEF IInv, TypeOK
<1> HIDE DEF e
<1>4. k \in Call /\ k.stage = "choose" /\ k.by = p /\ k.link = l /\ k.option = o
  BY <1>1 DEF Call
<1> HIDE DEF k
<1>5. p # Nobody
  BY DecisionQueueAssumption
<1>6. TypeOK' /\ call'[c] = k /\ copy'[c] = file'
  BY <1>2, <1>3, <1>4 DEF IInv, TypeOK, Record, opened
<1>7. CopyOK'
  BY <1>4, <1>6 DEF CopyOK
<1>8. StageOK'
  BY <1>1, <1>2, <1>3, <1>4, <1>5, <1>6 DEF IInv, StageOK, Record, opened
<1>9. HoldOK'
  BY <1>2, <1>4, <1>6 DEF HoldOK, Record, opened
<1>10. CountOK'
  BY <1>1, <1>4, <1>6 DEF IInv, CountOK, Record, Chose, Acts
<1>11. FullOK'
  BY <1>2 DEF FullOK, Record, opened
<1>12. LinkOK'
  BY <1>1, <1>2, <1>3, <1>4, <1>6, LinksKept DEF Record
<1>13. PanelChoosesByItsRule'
  BY DEF IInv, PanelChoosesByItsRule, Record, opened
<1> QED
  BY <1>6, <1>7, <1>8, <1>9, <1>10, <1>11, <1>12, <1>13 DEF IInv

LEMMA RecordSeatStep ==
    ASSUME IInv, NEW c, Callers = {c}, NEW p \in Parties, NEW l \in 0..minted, NEW o \in Options,
           RecordSeat(c, p, l, o)
    PROVE  IInv'
<1> DEFINE e == Refreshed(file)
           f == [e EXCEPT !.records[p] = o, !.seats[p] = 0]
           k == [stage |-> "resolve", by |-> p, link |-> l, option |-> o]
<1>1. /\ copy[c] = file /\ file.state = "open" /\ ~Wrote(c) /\ p # Raiser
      /\ l # 0 => written[l] <= crashes
      /\ l \in 0..MaxLinks /\ l <= minted
  BY WhoActs DEF RecordSeat
<1>2. file' = f /\ copy' = [copy EXCEPT ![c] = f] /\ call' = [call EXCEPT ![c] = k]
      /\ p \notin Recorded(e) /\ panel # NoPanel
  BY <1>1 DEF RecordSeat, Flush
<1>3. /\ e \in Entry /\ e.state = file.state /\ e.records = file.records
      /\ e.links = file.links
  BY RefreshedKeeps DEF IInv, TypeOK
<1> HIDE DEF e
<1>4. /\ f \in Entry /\ f.state = file.state /\ f.links = file.links
      /\ f.records = [file.records EXCEPT ![p] = o]
  BY <1>3 DEF Entry
<1>5. k \in Call /\ k.stage = "resolve" /\ k.by = p /\ k.link = l /\ k.option = o
  BY <1>1 DEF Call
<1> HIDE DEF k, f
<1>6. p # Nobody /\ o # NoOption
  BY DecisionQueueAssumption
<1>7. \A i \in 1..MaxLinks : written'[i] = IF i = l THEN written[i] + 1 ELSE written[i]
  BY DEF RecordSeat, Writes
<1>8. TypeOK' /\ call'[c] = k /\ copy'[c] = file'
  <2>1. written' \in [1..MaxLinks -> Nat]
    BY DEF RecordSeat, Writes, IInv, TypeOK
  <2> QED
    BY <1>2, <1>4, <1>5, <2>1 DEF IInv, TypeOK, RecordSeat, opened
<1>9. Recorded(file)' = Recorded(file) \cup {p} /\ p \notin Recorded(file)
  <2>1. file.records \in [Parties -> Options \cup {NoOption}]
    BY DEF IInv, TypeOK, Entry
  <2> QED
    BY <1>2, <1>3, <1>4, <1>6, <2>1 DEF Recorded
<1>10. Cardinality(Recorded(file)') = Cardinality(Recorded(file)) + 1
  BY <1>9, RecordedFinite, FS_AddElement
<1>11. CopyOK' /\ HoldOK'
  BY <1>5, <1>8 DEF CopyOK, HoldOK
<1>12. StageOK'
  <2>1. file'.records[Raiser] = NoOption
    BY <1>1, <1>2, <1>4, DecisionQueueAssumption DEF IInv, StageOK, TypeOK, Entry
  <2>2. Recorded(file)' # {}
    BY <1>9
  <2> QED
    BY <1>1, <1>2, <1>4, <1>5, <1>6, <1>8, <2>1, <2>2 DEF StageOK, RecordSeat, opened
<1>13. CountOK'
  BY <1>1, <1>5, <1>8 DEF IInv, CountOK, RecordSeat, Chose, Acts
<1>14. FullOK'
  <2> SUFFICES ASSUME crashes = 0
               PROVE  Cardinality(Recorded(file)') <= Quorum
    BY <1>5, <1>8 DEF FullOK, RecordSeat, opened, Rests, Quorum
  <2>1. Cardinality(Recorded(file)) < Quorum
    BY <1>1, <1>2 DEF IInv, FullOK, Rests, RecordSeat, Acts
  <2> QED
    BY <1>2, <1>10, <2>1, RecordedFinite, PanelNumbers DEF IInv
<1>15. LinkOK'
  <2>1. Wrote(c)'
    BY <1>5, <1>8 DEF Wrote
  <2>2. call'[c].link = 0 => written' = written
    BY <1>5, <1>8 DEF RecordSeat, Writes, IInv, TypeOK
  <2> QED
    BY <1>1, <1>2, <1>4, <1>5, <1>7, <1>8, <2>1, <2>2, LinksKept DEF RecordSeat
<1>16. PanelChoosesByItsRule'
  BY DEF IInv, PanelChoosesByItsRule, RecordSeat, opened
<1> QED
  BY <1>8, <1>11, <1>12, <1>13, <1>14, <1>15, <1>16 DEF IInv

LEMMA PanelMeetsStep ==
    ASSUME IInv, NEW c, Callers = {c}, PanelMeets(c)
    PROVE  IInv'
<1>1. copy[c] = file /\ file.state = "open" /\ panel # NoPanel /\ call[c] \in Call
      /\ call[c].stage = "resolve"
  BY CopyIsFile DEF PanelMeets, IInv, StageOK, TypeOK
<1>2. PICK o \in Options : Top(file, o) /\ Goto(c, [call[c] EXCEPT !.stage = "choose", !.by = Nobody, !.option = o])
  BY <1>1 DEF PanelMeets
<1> DEFINE k == [call[c] EXCEPT !.stage = "choose", !.by = Nobody, !.option = o]
<1>3. k \in Call /\ k.stage = "choose" /\ k.by = Nobody /\ k.link = call[c].link /\ k.option = o
  BY <1>1 DEF Call
<1>4. call' = [call EXCEPT ![c] = k] /\ copy' = copy
  BY <1>2 DEF Goto
<1> HIDE DEF k
<1>5. TypeOK' /\ call'[c] = k /\ file' = file
  BY <1>3, <1>4 DEF IInv, TypeOK, PanelMeets, opened
<1>6. Votes(file, o) >= panel.m
  <2>1. PICK q \in Options : Votes(file, q) >= panel.m
    BY <1>1 DEF PanelMeets, Met
  <2>2. Votes(file, q) <= Votes(file, o)
    BY <1>2 DEF Top
  <2> QED
    BY <1>1, <2>1, <2>2, VotesAreRecords, PanelNumbers DEF IInv
<1>7. CopyOK'
  BY <1>1, <1>3, <1>4, <1>5 DEF CopyOK
<1>8. StageOK'
  BY <1>1, <1>3, <1>5 DEF IInv, StageOK, PanelMeets, opened
<1>9. HoldOK'
  BY <1>1, <1>3, <1>5, <1>6 DEF HoldOK, PanelMeets, opened, Votes, Recorded
<1>10. CountOK'
  BY <1>1, <1>3, <1>5 DEF IInv, CountOK, Chose, PanelMeets
<1>11. FullOK'
  <2> SUFFICES ASSUME crashes = 0, panel.rule # "m_concordant"
               PROVE  /\ Cardinality(Recorded(file)) = panel.m
                      /\ \A p \in Recorded(file) : file.records[p] = o
    BY <1>3, <1>5 DEF FullOK, PanelMeets, opened, Rests, Recorded
  <2>1. Cardinality(Recorded(file)) <= Quorum
    BY <1>1 DEF IInv, FullOK
  <2>2. Cardinality(Recorded(file)) = Votes(file, o) /\ Votes(file, o) = panel.m
    BY <1>1, <1>6, <2>1, VotesAreRecords, RecordedFinite, PanelNumbers DEF IInv
  <2> QED
    BY <2>2, VotesAreRecords
<1>12. LinkOK'
  BY <1>1, <1>3, <1>5, LinksKept DEF PanelMeets, Wrote, IInv, LinkOK
<1>13. PanelChoosesByItsRule'
  BY DEF IInv, PanelChoosesByItsRule, PanelMeets, opened
<1> QED
  BY <1>5, <1>7, <1>8, <1>9, <1>10, <1>11, <1>12, <1>13 DEF IInv

\* The call of a seat goes on to spend its link: the panel has split or waits.
LEMMA SeatDoneStep ==
    ASSUME IInv, NEW c, Callers = {c}, call[c].stage = "resolve",
           call' = [call EXCEPT ![c] = SeatDone(c)], copy'[c] = file', copy' \in [Callers -> Entry],
           file' \in Entry, file'.state = file.state, file'.links = file.links,
           file'.records[Raiser] = NoOption,
           crashes = 0 => Cardinality(Recorded(file)') < Quorum,
           UNCHANGED <<opened, now, minted, written, choices, crashes>>
    PROVE  IInv'
<1> DEFINE k == SeatDone(c)
<1>1. /\ file.state = "open" /\ panel # NoPanel /\ call[c] \in Call /\ call[c].by # Nobody
  BY DEF IInv, StageOK, TypeOK
<1>2. k \in Call /\ k.stage = "spend" /\ k.by # Nobody /\ k.link = call[c].link
  BY <1>1 DEF Call, SeatDone
<1> HIDE DEF k
<1>3. TypeOK' /\ call'[c] = k
  BY <1>2 DEF IInv, TypeOK, opened, k
<1>4. CopyOK' /\ StageOK' /\ HoldOK'
  BY <1>1, <1>2, <1>3 DEF CopyOK, StageOK, HoldOK
<1>5. CountOK'
  BY <1>1, <1>2, <1>3 DEF IInv, CountOK, Chose, opened
<1>6. FullOK'
  BY <1>1, <1>2, <1>3 DEF FullOK, Rests, opened, Quorum
<1>7. LinkOK'
  BY <1>2, <1>3, LinksKept DEF Wrote, IInv, LinkOK
<1>8. PanelChoosesByItsRule'
  BY DEF IInv, PanelChoosesByItsRule, opened
<1> QED
  BY <1>3, <1>4, <1>5, <1>6, <1>7, <1>8 DEF IInv

LEMMA PanelSplitsStep ==
    ASSUME IInv, NEW c, Callers = {c}, PanelSplits(c)
    PROVE  IInv'
<1> DEFINE f == [file EXCEPT !.records = Fresh.records, !.seats = Fresh.seats,
                             !.escalated = file.escalated \/ ladder]
<1>1. copy[c] = file /\ file \in Entry /\ panel # NoPanel
  BY CopyIsFile DEF PanelSplits, IInv, StageOK
<1>2. file' = f /\ copy' = [copy EXCEPT ![c] = f]
  BY <1>1 DEF PanelSplits, Flush
<1>3. /\ f \in Entry /\ f.state = file.state /\ f.links = file.links
      /\ f.records = [p \in Parties |-> NoOption]
  BY <1>1 DEF Entry, Fresh, IInv, TypeOK
<1> HIDE DEF f
<1>4. Recorded(file)' = {}
  BY <1>2, <1>3 DEF Recorded
<1>5. Cardinality(Recorded(file)') < Quorum
  BY <1>1, <1>4, FS_EmptySet, PanelNumbers DEF IInv
<1>6. copy' \in [Callers -> Entry] /\ copy'[c] = file'
  BY <1>2, <1>3 DEF IInv, TypeOK
<1>7. file'.records[Raiser] = NoOption
  BY <1>2, <1>3, DecisionQueueAssumption
<1> QED
  BY <1>2, <1>3, <1>5, <1>6, <1>7, SeatDoneStep DEF PanelSplits

\* A full panel that does not meet its rule splits.
LEMMA FullPanelEnds ==
    ASSUME TypeOK, panel # NoPanel, NEW e, Cardinality(Recorded(e)) >= Quorum, ~Met(e)
    PROVE  Splits(e)
<1> DEFINE n == Cardinality(Recorded(e))
<1>1. \A o \in Options : Votes(e, o) \in Nat /\ Votes(e, o) < panel.m
  BY VotesAreRecords, PanelNumbers DEF Met
<1>2. n \in Nat
  BY RecordedFinite
<1>3. CASE panel.rule = "any_m"
  BY <1>2, <1>3, PanelNumbers DEF Splits, Quorum
<1>4. CASE panel.rule # "any_m"
  <2>1. n >= panel.seats
    BY <1>4 DEF Quorum
  <2>2. \A o \in Options : Votes(e, o) + panel.seats - n < panel.m
    BY <1>1, <1>2, <2>1, PanelNumbers
  <2> QED
    BY <1>4, <2>2 DEF Splits
<1> QED
  BY <1>3, <1>4

LEMMA PanelWaitsStep ==
    ASSUME IInv, NEW c, Callers = {c}, PanelWaits(c)
    PROVE  IInv'
<1>1. copy[c] = file /\ file \in Entry /\ panel # NoPanel /\ file' = file /\ copy' = copy
  BY CopyIsFile DEF PanelWaits, IInv, StageOK, Goto
<1>2. Cardinality(Recorded(file)) < Quorum
  BY <1>1, FullPanelEnds, RecordedFinite, PanelNumbers DEF IInv, PanelWaits
<1>3. Recorded(file)' = Recorded(file)
  BY <1>1 DEF Recorded
<1> QED
  BY <1>1, <1>2, <1>3, SeatDoneStep DEF PanelWaits, Goto, IInv, TypeOK, StageOK

LEMMA CloseStep ==
    ASSUME IInv, NEW c, Callers = {c}, Close(c)
    PROVE  IInv'
<1> DEFINE f == [file EXCEPT !.state = "decided"]
<1>1. copy[c] = file /\ file \in Entry /\ file' = f
  BY CopyIsFile DEF Close
<1>2. f \in Entry /\ f.state = "decided" /\ f.links = file.links /\ f.records = file.records
  BY <1>1 DEF Entry
<1> HIDE DEF f
<1>3. TypeOK' /\ call'[c] = Out
  BY <1>1, <1>2, ReturnTyped DEF IInv, Close
<1>4. CopyOK' /\ StageOK' /\ HoldOK' /\ CountOK'
  BY <1>1, <1>2, <1>3 DEF IInv, CopyOK, StageOK, HoldOK, CountOK, Close, Out
<1>5. FullOK'
  BY <1>1, <1>2, <1>3 DEF FullOK, Out
<1>6. LinkOK'
  BY <1>1, <1>2, <1>3, LinksKept, MintedNat DEF Close, Wrote, Out, IInv
<1>7. PanelChoosesByItsRule'
  BY DEF IInv, PanelChoosesByItsRule, Close, opened
<1> QED
  BY <1>3, <1>4, <1>5, <1>6, <1>7 DEF IInv

LEMMA ChooseStep ==
    ASSUME IInv, NEW c, Callers = {c}, Choose(c)
    PROVE  IInv'
<1> DEFINE k == [call[c] EXCEPT !.stage = "spend"]
           x == [nr      |-> Cardinality(choices) + 1, by |-> call[c].by,
                 option  |-> call[c].option, records |-> file.records]
<1>1. /\ copy[c] = file /\ file \in Entry /\ file.state = "open" /\ call[c] \in Call
      /\ call[c].stage = "choose" /\ call[c].option \in Options
      /\ panel = NoPanel <=> call[c].by # Nobody
  BY CopyIsFile DEF Choose, IInv, StageOK, TypeOK
<1>2. k \in Call /\ k.stage = "spend" /\ k.by = call[c].by /\ k.link = call[c].link
  BY <1>1 DEF Call
<1>3. /\ choices' = choices \cup {x} /\ call' = [call EXCEPT ![c] = k] /\ copy' = copy
      /\ file' = file
  BY <1>1 DEF Choose, Goto
<1>4. Cardinality(choices) \in Nat /\ IsFiniteSet(choices) /\ Cardinality(choices) <= crashes
  BY <1>1, FS_CardinalityType DEF IInv, CountOK, Chose
<1>5. /\ x \in Choice
      /\ x.by = call[c].by /\ x.option = call[c].option /\ x.records = file.records
  BY <1>1, <1>4 DEF Choice, Entry, Call
<1> HIDE DEF k, x
<1>6. TypeOK' /\ call'[c] = k
  <2>1. written' \in [1..MaxLinks -> Nat]
    BY DEF Choose, Writes, IInv, TypeOK
  <2> QED
    BY <1>2, <1>3, <1>5, <2>1 DEF IInv, TypeOK, Choose, opened
<1>7. CopyOK' /\ StageOK' /\ HoldOK'
  BY <1>1, <1>2, <1>3, <1>6 DEF IInv, CopyOK, StageOK, HoldOK
<1>8. CountOK'
  <2>0. /\ IsFiniteSet(choices \cup {x})
        /\ Cardinality(choices \cup {x}) = IF x \in choices THEN Cardinality(choices)
                                            ELSE Cardinality(choices) + 1
    BY <1>4, FS_AddElement
  <2>1. IsFiniteSet(choices') /\ Cardinality(choices') <= Cardinality(choices) + 1
    BY <1>3, <1>4, <2>0
  <2>2. Cardinality(choices') \in Nat
    BY <2>1, FS_CardinalityType
  <2>3. Chose(c)'
    BY <1>1, <1>2, <1>6 DEF Chose, Choose, opened
  <2>4. crashes' = crashes /\ crashes \in Nat
    BY MintedNat DEF Choose, IInv
  <2>5. Cardinality(choices') <= 1 + crashes'
    BY <1>4, <2>1, <2>2, <2>4
  <2> QED
    BY <2>1, <2>3, <2>5 DEF CountOK
<1>9. FullOK'
  BY <1>1, <1>2, <1>6 DEF FullOK, Rests, Choose, opened
<1>10. LinkOK'
  <2>1. Wrote(c)' /\ (call[c].by # Nobody <=> ~Wrote(c))
    BY <1>1, <1>2, <1>6 DEF Wrote
  <2>2. CASE call[c].by = Nobody
    BY <1>1, <1>2, <1>3, <1>6, <2>1, <2>2, LinksKept DEF Choose, IInv, LinkOK
  <2>3. CASE call[c].by # Nobody
    <3>1. \A i \in 1..MaxLinks : written'[i] = IF i = call'[c].link THEN written[i] + 1 ELSE written[i]
      BY <1>2, <1>6, <2>3 DEF Choose, Writes
    <3>2. call'[c].link = 0 => written' = written
      <4> SUFFICES ASSUME call'[c].link = 0 PROVE written' = written
        OBVIOUS
      <4>1. written \in [1..MaxLinks -> Nat] /\ written' \in [1..MaxLinks -> Nat]
        BY <1>6 DEF IInv, TypeOK, Choose
      <4>2. \A i \in 1..MaxLinks : written'[i] = written[i]
        BY <3>1
      <4>3. /\ written = [i \in 1..MaxLinks |-> written[i]]
            /\ written' = [i \in 1..MaxLinks |-> written'[i]]
        BY <4>1
      <4> QED
        BY <4>2, <4>3, Zenon
    <3>3. call[c].link # 0 => call[c].link \in 1..MaxLinks
      BY <1>1 DEF Call
    <3>4. call[c].link # 0 => call[c].link <= minted /\ written[call[c].link] <= crashes
      BY <1>1, <2>3, <3>3 DEF IInv, LinkOK
    <3>5. call'[c].link = call[c].link /\ Wrote(c)' /\ ~Wrote(c) /\ file'.links = file.links
          /\ UNCHANGED <<now, minted, crashes>>
      BY <1>2, <1>3, <1>6, <2>1, <2>3 DEF Choose
    <3>6. call'[c].link <= minted
      BY <3>5 DEF IInv, LinkOK
    <3> QED
      BY <3>1, <3>2, <3>4, <3>5, <3>6, LinksKept
  <2> QED
    BY <2>2, <2>3
<1>11. PanelChoosesByItsRule'
  <2> SUFFICES ASSUME x.by = Nobody
               PROVE  LET hands == {p \in Parties : x.records[p] = x.option}
                          seats == {p \in Parties : x.records[p] # NoOption}
                      IN  /\ Raiser \notin hands
                          /\ Cardinality(hands) >= panel.m
                          /\ panel.rule # "m_concordant" /\ crashes = 0 =>
                                hands = seats /\ Cardinality(hands) = panel.m
    BY <1>3 DEF IInv, PanelChoosesByItsRule, Choose, opened
  <2> DEFINE hands == {p \in Parties : x.records[p] = x.option}
  <2>1. x.option # NoOption /\ panel # NoPanel
    BY <1>1, <1>5, DecisionQueueAssumption
  <2>2. Raiser \notin hands
    BY <1>5, <2>1 DEF IInv, StageOK
  <2>3. hands = {p \in Recorded(file) : file.records[p] = call[c].option}
    BY <1>5, <2>1 DEF Recorded
  <2>4. Recorded(file) = {p \in Parties : x.records[p] # NoOption}
    BY <1>5 DEF Recorded
  <2>5. Cardinality(hands) >= panel.m
    BY <1>1, <2>1, <2>3 DEF IInv, HoldOK, Votes
  <2>6. ASSUME panel.rule # "m_concordant", crashes = 0
        PROVE  hands = Recorded(file) /\ Cardinality(hands) = panel.m
    BY <1>1, <2>1, <2>3, <2>6 DEF IInv, FullOK
  <2> HIDE DEF hands
  <2>7. QED
    BY <2>2, <2>4, <2>5, <2>6 DEF hands
<1> QED
  BY <1>6, <1>7, <1>8, <1>9, <1>10, <1>11 DEF IInv

LEMMA ChooseUnrecordedStep ==
    ASSUME IInv, NEW c, Callers = {c}, ChooseUnrecorded(c)
    PROVE  IInv'
<1> DEFINE k == [call[c] EXCEPT !.stage = "spend"]
<1>1. /\ copy[c] = file /\ file.state = "open" /\ call[c] \in Call
      /\ call[c].stage = "choose"
      /\ panel = NoPanel <=> call[c].by # Nobody
  BY CopyIsFile DEF ChooseUnrecorded, IInv, StageOK, TypeOK
<1>2. k \in Call /\ k.stage = "spend" /\ k.by = call[c].by /\ k.link = call[c].link
  BY <1>1 DEF Call
<1>3. /\ call' = [call EXCEPT ![c] = k] /\ copy' = copy /\ file' = file
      /\ UNCHANGED <<panel, ladder, now, minted, written, choices, crashes>>
  BY <1>1 DEF ChooseUnrecorded, Goto, opened
<1> HIDE DEF k
<1>4. TypeOK' /\ call'[c] = k
  BY <1>2, <1>3 DEF IInv, TypeOK
<1>5. CopyOK' /\ StageOK' /\ HoldOK'
  BY <1>1, <1>2, <1>3, <1>4 DEF IInv, CopyOK, StageOK, HoldOK
<1>6. CountOK'
  <2>1. Chose(c)'
    BY <1>1, <1>2, <1>3, <1>4 DEF Chose
  <2> QED
    BY <1>3, <2>1 DEF IInv, CountOK
<1>7. FullOK'
  BY <1>1, <1>2, <1>3, <1>4 DEF FullOK, Rests
<1>8. LinkOK'
  <2>1. Wrote(c)' /\ call'[c].link = call[c].link /\ (Wrote(c) \/ call[c].by # Nobody)
    BY <1>1, <1>2, <1>4 DEF Wrote
  <2>2. call'[c].stage = "spend"
    BY <1>2, <1>4
  <2> QED
    BY <1>3, <2>1, <2>2 DEF IInv, LinkOK, Works
<1>9. PanelChoosesByItsRule'
  BY <1>3 DEF IInv, PanelChoosesByItsRule
<1> QED
  BY <1>4, <1>5, <1>6, <1>7, <1>8, <1>9 DEF IInv

LEMMA SpendLinkStep ==
    ASSUME IInv, NEW c, Callers = {c}, SpendLink(c)
    PROVE  IInv'
<1> DEFINE e     == Refreshed(file)
           l     == call[c].link
           spent == {r \in e.links : r.id = l}
           used  == (e.links \ spent) \cup {[r EXCEPT !.used = TRUE] : r \in spent}
           f     == [e EXCEPT !.links = used]
           works == e.state = "open" /\ \E p \in Parties : LinkWorks(e, l, p)
<1>1. /\ copy[c] = file /\ file \in Entry /\ file.state = "open" /\ call[c] \in Call
      /\ call[c].stage = "spend" /\ l \in 0..MaxLinks
  BY CopyIsFile DEF SpendLink, IInv, StageOK, TypeOK, Call
<1>2. /\ e \in Entry /\ e.state = file.state /\ e.records = file.records
      /\ e.links = file.links
  BY RefreshedKeeps DEF IInv, TypeOK
<1>3. /\ file' = IF l = 0 THEN file ELSE IF works THEN f ELSE e
      /\ IF panel = NoPanel \/ call[c].by = Nobody
         THEN /\ call' = [call EXCEPT ![c].stage = "close"]
              /\ copy' = [copy EXCEPT ![c] = file']
         ELSE Return(c)
  BY <1>1 DEF SpendLink, SaveRefreshed
<1> HIDE DEF e, l, works
<1>4. \A r \in used : r \in Link /\ \/ r \in file.links /\ r.id # l
                                    \/ r.used /\ r.id = l /\ \E q \in file.links : q.id = l
  <2>0. e.links \subseteq Link
    BY <1>2 DEF Entry
  <2>1. \A r \in e.links \ spent : r \in Link /\ r \in file.links /\ r.id # l
    BY <1>2, <2>0
  <2>2. ASSUME NEW q \in spent, NEW r, r = [q EXCEPT !.used = TRUE]
        PROVE  r \in Link /\ r.used /\ r.id = l /\ q \in file.links /\ q.id = l
    <3>1. q \in Link /\ q.id = l /\ q \in file.links
      BY <1>2, <2>0
    <3> HIDE DEF spent
    <3> QED
      BY <2>2, <3>1 DEF Link
  <2>3. \A r \in used : r \in e.links \ spent \/ \E q \in spent : r = [q EXCEPT !.used = TRUE]
    OBVIOUS
  <2> HIDE DEF used, spent
  <2> QED
    BY <2>1, <2>2, <2>3
<1>5. ~works => l = 0 \/ ~Works(l)
  BY <1>1, <1>2 DEF Works, LinkWorks, Entry, Link, works
<1> HIDE DEF used
<1>6. works => /\ f \in Entry /\ f.state = file.state /\ f.records = file.records
               /\ f.links = used
  BY <1>2, <1>4 DEF Entry
<1> HIDE DEF f
<1>7. file' \in Entry /\ file'.state = file.state /\ file'.records = file.records
  BY <1>1, <1>2, <1>3, <1>6
<1>8. \A i \in 1..MaxLinks : Works(i)' => Works(i) /\ i # l
  <2> SUFFICES ASSUME NEW i \in 1..MaxLinks, Works(i)'
               PROVE  Works(i) /\ i # l
    OBVIOUS
  <2>0. now' = now
    BY DEF SpendLink
  <2>1. CASE l = 0
    BY <1>3, <2>0, <2>1 DEF Works
  <2>2. CASE l # 0 /\ works
    BY <1>3, <1>4, <1>6, <2>0, <2>2 DEF Works
  <2>3. CASE l # 0 /\ ~works
    BY <1>2, <1>3, <1>5, <2>0, <2>3 DEF Works
  <2> QED
    BY <2>1, <2>2, <2>3
<1>9. \A r \in file'.links : r.id <= minted'
  <2>1. minted' = minted /\ \A r \in file.links : r.id <= minted
    BY DEF SpendLink, IInv, LinkOK
  <2> QED
    BY <1>2, <1>3, <1>4, <1>6, <2>1
<1> HIDE DEF l
<1>10. /\ call'[c] = Out \/ (call'[c].stage = "close" /\ copy'[c] = file')
       /\ call'[c].stage = "close" => panel = NoPanel \/ call[c].by = Nobody
       /\ call'[c].stage # "close" => panel # NoPanel /\ call[c].by # Nobody
       /\ call'[c].stage \in {"out", "close"}
       /\ TypeOK'
  <2>1. CASE panel = NoPanel \/ call[c].by = Nobody
    <3>1. call' = [call EXCEPT ![c] = [call[c] EXCEPT !.stage = "close"]] /\ copy' = [copy EXCEPT ![c] = file']
      BY <1>3, <2>1
    <3> DEFINE k == [call[c] EXCEPT !.stage = "close"]
    <3>2. k \in Call /\ k.stage = "close"
      BY <1>1 DEF Call
    <3> HIDE DEF k
    <3>3. call'[c] = k /\ copy'[c] = file'
      BY <3>1 DEF k, IInv, TypeOK
    <3>4. TypeOK'
      BY <1>7, <3>1, <3>2 DEF IInv, TypeOK, SpendLink, opened, k
    <3> QED
      BY <2>1, <3>2, <3>3, <3>4
  <2>2. CASE ~(panel = NoPanel \/ call[c].by = Nobody)
    <3>1. TypeOK' /\ call'[c] = Out
      BY <1>3, <1>7, <2>2, ReturnTyped DEF IInv, SpendLink
    <3> QED
      BY <2>2, <3>1 DEF Out
  <2> QED
    BY <2>1, <2>2
<1>11. CopyOK' /\ StageOK' /\ HoldOK'
  BY <1>1, <1>7, <1>10 DEF IInv, CopyOK, StageOK, HoldOK, Out
<1>12. CountOK'
  BY <1>1, <1>7, <1>10 DEF IInv, CountOK, Chose, SpendLink
<1>13. FullOK'
  <2>1. Recorded(file)' = Recorded(file)
    BY <1>7 DEF Recorded
  <2> SUFFICES ASSUME panel # NoPanel, crashes = 0, call'[c].stage = "out"
               PROVE  Cardinality(Recorded(file)) < Quorum
    BY <1>10, <2>1 DEF FullOK, Rests, SpendLink, opened, Quorum
  <2> QED
    BY <1>1, <1>10 DEF IInv, FullOK, Rests
<1>14. LinkOK'
  <2>1. call'[c].stage # "choose"
    BY <1>10
  <2>2. call'[c].link <= minted
    <3>1. CASE panel = NoPanel \/ call[c].by = Nobody
      BY <1>1, <1>3, <3>1 DEF IInv, LinkOK, TypeOK, Call
    <3>2. CASE ~(panel = NoPanel \/ call[c].by = Nobody)
      BY <1>10, <3>2, MintedNat DEF IInv, Out
    <3> QED
      BY <3>1, <3>2
  <2> SUFFICES ASSUME NEW i \in 1..MaxLinks
               PROVE  /\ written[i] <= 1 + crashes
                      /\ i > minted => written[i] = 0
                      /\ written[i] <= crashes \/ ~Works(i)'
    BY <1>9, <1>10, <2>1, <2>2 DEF LinkOK, SpendLink
  <2> QED
    BY <1>8 DEF IInv, LinkOK, l
<1>15. PanelChoosesByItsRule'
  BY DEF IInv, PanelChoosesByItsRule, SpendLink, opened
<1> QED
  BY <1>10, <1>11, <1>12, <1>13, <1>14, <1>15 DEF IInv

-----------------------------------------------------------------------------
(* The theorems.                                                           *)

THEOREM Inductive ==
    ASSUME OneCaller, IInv, [Next]_vars
    PROVE  IInv'
<1> PICK c : Callers = {c}
  BY DEF OneCaller
<1>1. CASE \/ Load(c) \/ Read(c) \/ InvalidateLinks(c)
           \/ PanelMeets(c) \/ PanelSplits(c) \/ PanelWaits(c)
           \/ Choose(c) \/ ChooseUnrecorded(c) \/ SpendLink(c) \/ Close(c) \/ Crash(c)
  BY <1>1, LoadStep, ReadStep, InvalidateLinksStep, PanelMeetsStep, PanelSplitsStep, PanelWaitsStep,
     ChooseStep, ChooseUnrecordedStep, SpendLinkStep, CloseStep, CrashStep
<1>2. CASE \E p \in Parties : Release(c, p) \/ MintLink(c, p)
  BY <1>2, ReleaseStep, MintLinkStep
<1>3. CASE \E p \in Parties : \E l \in 0..minted : Claim(c, p, l) \/ ClaimSeat(c, p, l)
  BY <1>3, ClaimStep, ClaimSeatStep
<1>4. CASE \E p \in Parties : \E l \in 0..minted : \E o \in Options :
              Record(c, p, l, o) \/ RecordSeat(c, p, l, o)
  BY <1>4, RecordStep, RecordSeatStep
<1>5. CASE Tick
  BY <1>5, TickStep
<1>6. CASE UNCHANGED vars
  <2>1. /\ file' = file /\ now' = now /\ call' = call /\ copy' = copy /\ minted' = minted
        /\ written' = written /\ choices' = choices /\ crashes' = crashes
        /\ panel' = panel /\ ladder' = ladder
    BY <1>6 DEF vars, opened
  <2>2. TypeOK' /\ CopyOK' /\ StageOK' /\ HoldOK' /\ CountOK' /\ PanelChoosesByItsRule'
    BY <2>1 DEF IInv, TypeOK, CopyOK, StageOK, HoldOK, CountOK, PanelChoosesByItsRule, Chose,
                Recorded, Votes
  <2>3. FullOK' /\ LinkOK'
    BY <2>1 DEF IInv, FullOK, LinkOK, Rests, Quorum, Recorded, Wrote, Works
  <2> QED
    BY <2>2, <2>3 DEF IInv
<1> QED
  BY <1>1, <1>2, <1>3, <1>4, <1>5, <1>6 DEF Next

THEOREM Invariance ==
    ASSUME OneCaller
    PROVE  Spec => []IInv
<1>1. IInv /\ [Next]_vars => IInv'
  BY Inductive
<1> QED
  BY <1>1, InitInv, PTL DEF Spec

\* The entry, what every call has in memory and the chain are well-formed.
THEOREM TypeCorrect ==
    ASSUME OneCaller
    PROVE  Spec => []TypeOK
<1>1. IInv => TypeOK
  BY DEF IInv
<1> QED
  BY <1>1, Invariance, PTL

\* Calls that follow each other decide a decision once (but for those that
\* died between the choice and the closing of the entry).
THEOREM OneChoice ==
    ASSUME OneCaller
    PROVE  Spec => []OneChoicePerDecision
<1>1. IInv => OneChoicePerDecision
  BY DEF IInv, CountOK, OneChoicePerDecision
<1> QED
  BY <1>1, Invariance, PTL

\* What a panel chooses, its rule allows.
THEOREM PanelRule ==
    ASSUME OneCaller
    PROVE  Spec => []PanelChoosesByItsRule
<1>1. IInv => PanelChoosesByItsRule
  BY DEF IInv
<1> QED
  BY <1>1, Invariance, PTL

\* A panel that is open and has no call on its way has a seat left.
THEOREM PanelNeverStuck ==
    ASSUME OneCaller
    PROVE  Spec => []PanelIsNeverStuck
<1>1. IInv => PanelIsNeverStuck
  <2> SUFFICES ASSUME IInv, panel # NoPanel, file.state = "open", crashes = 0,
                      \A c \in Callers : call[c] = Out
               PROVE  Cardinality(Recorded(file)) < panel.seats
    BY DEF PanelIsNeverStuck
  <2> PICK c : Callers = {c}
    BY DEF OneCaller
  <2>1. Cardinality(Recorded(file)) < Quorum
    BY DEF IInv, FullOK, Rests, Out
  <2> QED
    BY <2>1, RecordedFinite, PanelNumbers DEF IInv
<1> QED
  BY <1>1, Invariance, PTL

\* A link authenticates one governed write (and one for each call that died
\* before it spent it).
THEOREM LinkOnce ==
    ASSUME OneCaller
    PROVE  Spec => []LinkWritesOnce
<1>1. IInv => LinkWritesOnce
  BY DEF IInv, LinkOK, LinkWritesOnce
<1> QED
  BY <1>1, Invariance, PTL

LEMMA SplitIsHopeless ==
    ASSUME IInv, NEW c \in Callers, call[c].stage = "resolve", Splits(copy[c]), panel.rule # "any_m",
           NEW f \in Completions(copy[c]), NEW o \in Options
    PROVE  ~(Cardinality({p \in DOMAIN f : f[p] = o}) >= panel.m)
<1> DEFINE e     == copy[c]
           R     == Recorded(e)
           F     == {p \in DOMAIN f : f[p] # NoOption}
           V     == {p \in R : e.records[p] = o}
           hands == {p \in DOMAIN f : f[p] = o}
<1>1. /\ panel # NoPanel /\ e = file /\ R # {} /\ Raiser \notin R
      /\ e.records \in [Parties -> Options \cup {NoOption}]
  BY CopyIsFile DEF IInv, StageOK, Recorded, Entry
<1>2. /\ f \in [Parties \ {Raiser} -> Options \cup {NoOption}]
      /\ \A p \in R : f[p] = e.records[p]
      /\ Cardinality(F) <= panel.seats
  BY DEF Completions
<1>3. /\ \A q \in Options : Votes(e, q) > 0 =>
            Votes(e, q) + panel.seats - Cardinality(R) < panel.m
      /\ panel.m \in Nat /\ panel.seats \in Nat
  BY <1>1, PanelNumbers DEF Splits, IInv
<1>4. R \in SUBSET F /\ R \in SUBSET Parties /\ F \in SUBSET Parties /\ V \in SUBSET R
      /\ hands \in SUBSET (V \cup (F \ R))
  <2>1. R \subseteq Parties \ {Raiser}
    BY <1>1 DEF Recorded
  <2>2. \A p \in R : p \in DOMAIN f /\ f[p] # NoOption
    BY <1>2, <2>1 DEF Recorded
  <2>3. \A p \in hands : p \in F
    BY DecisionQueueAssumption
  <2>4. \A p \in hands : p \in R => p \in V
    BY <1>2
  <2>5. R \subseteq F /\ R \subseteq Parties /\ F \subseteq Parties /\ V \subseteq R
    BY <1>2, <2>1, <2>2
  <2> QED
    BY <2>3, <2>4, <2>5
<1>5. Votes(e, o) = Cardinality(V)
  BY DEF Votes
<1> HIDE DEF e, R, F, V, hands
<1>6. IsFiniteSet(F) /\ IsFiniteSet(R) /\ IsFiniteSet(V)
  BY <1>4, FS_Subset, DecisionQueueAssumption
<1>7. IsFiniteSet(F \ R) /\ Cardinality(F \ R) = Cardinality(F) - Cardinality(R)
  <2>1. IsFiniteSet(F \ R) /\ Cardinality(F \ R) = Cardinality(F) - Cardinality(F \cap R)
    BY <1>6, FS_Difference
  <2>2. F \cap R = R
    BY <1>4
  <2> QED
    BY <2>1, <2>2
<1>8. IsFiniteSet(V \cup (F \ R)) /\ Cardinality(V \cup (F \ R)) <= Cardinality(V) + Cardinality(F \ R)
  <2>1. /\ IsFiniteSet(V \cup (F \ R))
        /\ Cardinality(V \cup (F \ R)) =
              Cardinality(V) + Cardinality(F \ R) - Cardinality(V \cap (F \ R))
    BY <1>6, <1>7, FS_Union
  <2>2. V \cap (F \ R) = {}
    BY <1>4
  <2>3. Cardinality(V \cap (F \ R)) = 0
    BY <2>2, FS_EmptySet
  <2> QED
    BY <1>6, <1>7, <2>1, <2>3, FS_CardinalityType
<1>9. Cardinality(hands) <= Cardinality(V \cup (F \ R))
  BY <1>4, <1>8, FS_Subset
<1>10. /\ Cardinality(V) \in Nat /\ Cardinality(F) \in Nat /\ Cardinality(R) \in Nat
       /\ Cardinality(hands) \in Nat /\ Cardinality(F \ R) \in Nat
       /\ Cardinality(V \cup (F \ R)) \in Nat
  BY <1>4, <1>6, <1>7, <1>8, FS_Subset, FS_CardinalityType
<1>11. Cardinality(V) + panel.seats - Cardinality(R) < panel.m
  <2>1. CASE Votes(e, o) > 0
    BY <1>3, <1>5, <2>1
  <2>2. CASE ~(Votes(e, o) > 0)
    <3>1. PICK p \in R : TRUE
      BY <1>1
    <3>2. e.records[p] \in Options
      BY <1>1, <3>1 DEF Recorded, R
    <3> DEFINE q == e.records[p]
               W == {x \in R : e.records[x] = q}
    <3>3. Votes(e, q) = Cardinality(W)
      BY DEF Votes, R
    <3>4. W \in SUBSET R /\ p \in W
      BY <3>1
    <3>5. IsFiniteSet(W) /\ Cardinality(W) \in Nat /\ Cardinality(W) # 0
      BY <1>6, <3>4, FS_Subset, FS_CardinalityType, FS_EmptySet
    <3>6. Votes(e, q) > 0
      BY <3>3, <3>5
    <3>7. Votes(e, q) + panel.seats - Cardinality(R) < panel.m
      BY <1>3, <3>2, <3>6
    <3> QED
      BY <1>3, <1>5, <1>10, <2>2, <3>3, <3>5, <3>7
  <2> QED
    BY <2>1, <2>2
<1>12. ~(Cardinality(hands) >= panel.m)
  BY <1>2, <1>3, <1>7, <1>8, <1>9, <1>10, <1>11
<1> QED
  BY <1>12 DEF hands

\* Under any_m a panel splits on discord at its quorum.
LEMMA SplitIsDiscord ==
    ASSUME IInv, NEW c \in Callers, call[c].stage = "resolve", Splits(copy[c]), panel.rule = "any_m"
    PROVE  /\ Cardinality(Recorded(copy[c])) >= panel.m
           /\ \E p, q \in Recorded(copy[c]) : copy[c].records[p] # copy[c].records[q]
<1> DEFINE e == copy[c]
<1>1. /\ panel # NoPanel /\ Recorded(e) # {}
      /\ e.records \in [Parties -> Options \cup {NoOption}]
  BY CopyIsFile DEF IInv, StageOK, Entry
<1>2. Cardinality(Recorded(e)) >= panel.m /\ ~Met(e)
  BY DEF Splits
<1>3. PICK p \in Recorded(e) : TRUE
  BY <1>1
<1>4. e.records[p] \in Options
  BY <1>1, <1>3 DEF Recorded
<1>5. ASSUME \A q \in Recorded(e) : e.records[p] = e.records[q]
      PROVE  FALSE
  <2>1. {q \in Recorded(e) : e.records[q] = e.records[p]} = Recorded(e)
    BY <1>5
  <2>2. Votes(e, e.records[p]) = Cardinality(Recorded(e))
    BY <2>1 DEF Votes
  <2> QED
    BY <1>2, <1>4, <2>2 DEF Met
<1> QED
  BY <1>2, <1>3, <1>5

\* A panel splits only when its rule is out of reach: by discord at the quorum
\* under any_m, else because no completion of its records would concord.
THEOREM SplitsHopeless ==
    ASSUME OneCaller
    PROVE  Spec => SplitsOnlyWhenHopeless
<1>1. IInv => (\A c \in Callers : PanelSplits(c) =>
          IF panel.rule = "any_m"
          THEN Cardinality(Recorded(copy[c])) >= panel.m
               /\ \E p, q \in Recorded(copy[c]) : copy[c].records[p] # copy[c].records[q]
          ELSE ~\E f \in Completions(copy[c]), o \in Options :
                   Cardinality({p \in DOMAIN f : f[p] = o}) >= panel.m)
  BY SplitIsHopeless, SplitIsDiscord DEF PanelSplits
<1> QED
  BY <1>1, Invariance, PTL DEF SplitsOnlyWhenHopeless, Spec
=============================================================================
