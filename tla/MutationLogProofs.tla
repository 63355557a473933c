------------------------- MODULE MutationLogProofs -------------------------
(***************************************************************************)
(* A log to which processes only append, on a disk that does not fill, and *)
(* in which a death does not tear a line, is what AuditLog promises: every *)
(* line is linked to the one before it, whether its writer took the tail   *)
(* from its cache or from the file, appends return only for lines that are *)
(* there, the anchor is one of them unless a death cut it short, and with  *)
(* key pinning the first is a registration.  For any processes, pairs,     *)
(* deaths and number of events.                                            *)
(* With purges, full disks or torn lines that is false (see the README).   *)
(***************************************************************************)
EXTENDS MutationLog, TLAPS

AppendsOnly ==
    /\ \A p \in Procs : OpsOf[p] \subseteq {"append"}
    /\ ~DiskMayFill /\ ~TornWrites

Anchoring == {"anchor", "anchorwrite", "anchormove"}

Appending == [stage : {"out", "open", "lock"} \cup Anchoring, pair : Pairs \cup {NoPair},
              kind : {"event", "registration"}, id : Ids \cup {Genesis},
              next : Ids \cup {Genesis}, file : Nat, size : Nat, lines : {<<>>},
              heads : {NoHeads}]

Entry == [id : Ids, pair : Pairs \cup {NoPair}, kind : {"event", "registration"},
          prev : Ids \cup {Genesis}]

TypeInv ==
    /\ dir = TRUE /\ sealed = Unsealed
    /\ path \in {NoFile, 1} /\ inodes = path
    /\ path # NoFile => path \in Inodes
    /\ content \in [Inodes -> Seq(Entry)]
    /\ \A i \in Inodes : i # path => content[i] = <<>>
    /\ holder = [i \in Inodes |-> Nobody]
    /\ call \in [Procs -> Appending]
    /\ cache \in [Procs -> [head : Ids \cup {Genesis}, size : Nat]]
    /\ used \in 0..MaxEvents

Prev(lines, k) == IF k = 1 THEN Genesis ELSE lines[k - 1].id

Linked(lines) == \A k \in 1..Len(lines) : lines[k].prev = Prev(lines, k)

\* Everything that is said to be in the log is there.
LogOK ==
    /\ Linked(Log)
    /\ IdsIn(Log) \subseteq 1..used
    /\ acked \subseteq IdsIn(Log)
    /\ RegistrationComesFirst

\* A cached head is the line at the cached size: lines are never changed.
CacheOK ==
    \A p \in Procs : cache[p].head # Genesis =>
        cache[p].size \in 1..Len(Log) /\ Log[cache[p].size].id = cache[p].head

\* A call has an event of its own to write, in the file of that name, or has
\* written it; where registrations are asked for, an event does not come first.
EventOK(p) ==
    call[p].stage # "out" =>
        /\ call[p].id \in 1..used /\ call[p].next \in 0..used /\ call[p].id # call[p].next
        /\ call[p].next \notin IdsIn(Log)
        /\ call[p].stage \in {"open", "lock"} => call[p].id \notin IdsIn(Log)
        /\ call[p].stage = "lock" => call[p].file = path /\ path # NoFile
        /\ call[p].stage \in Anchoring => call[p].id \in IdsIn(Log)
        /\ Pinning /\ call[p].kind = "event" => Log # <<>>

CallOK == \A p \in Procs : EventOK(p)

\* No two calls have the same event.
CallsApart ==
    \A p, q \in Procs : p # q /\ call[p].stage # "out" /\ call[q].stage # "out" =>
        /\ call[p].id # call[q].id /\ call[p].id # call[q].next
        /\ call[p].next # Genesis => call[p].next # call[q].next

LInv == TypeInv /\ LogOK /\ CacheOK /\ CallOK /\ CallsApart

\* An anchor file holds a line of the log, unless it was cut off by someone who is
\* about to write to it, or has died.
FileOK(f, ids, writing, deaths) ==
    /\ f.holds \in ids \cup {Genesis, Cut}
    /\ f.open \subseteq writing
    /\ f.holds = Cut => deaths > 0 \/ f.open # {}

Writing == {q \in Procs : call[q].stage = "anchorwrite"}

AnchorOK ==
    /\ FileOK(anchor.file, IdsIn(Log), Writing, crashes)
    /\ FileOK(anchor.temp, IdsIn(Log), Writing, crashes)
    /\ crashes \in Nat

-----------------------------------------------------------------------------
(* Lines without damage.                                                   *)

LEMMA EntryFormed == \A e \in Entry : Formed(e)
BY DEF Entry, Formed

LEMMA BeforeIsThePrevious ==
    ASSUME NEW lines \in Seq(Entry), NEW k \in 1..(Len(lines) + 1)
    PROVE  Before(lines, k) = k - 1
<1> DEFINE J == {j \in 1..(k - 1) : Formed(lines[j])}
<1>1. J = 1..(k - 1)
  BY EntryFormed
<1>2. CASE k = 1
  BY <1>1, <1>2 DEF Before
<1>3. CASE k # 1
  <2>1. k - 1 \in J /\ \A i \in J : i <= k - 1
    BY <1>1, <1>3
  <2>2. \A j \in J : (\A i \in J : i <= j) => j = k - 1
    BY <1>1, <2>1
  <2>3. (CHOOSE j \in J : \A i \in J : i <= j) = k - 1
    BY <2>1, <2>2
  <2>4. J # {}
    BY <2>1
  <2> QED
    BY <2>3, <2>4 DEF Before
<1> QED
  BY <1>2, <1>3

LEMMA HashBeforeIsPrev ==
    ASSUME NEW lines \in Seq(Entry), NEW k \in 1..(Len(lines) + 1)
    PROVE  HashBefore(lines, k) = Prev(lines, k)
BY BeforeIsThePrevious DEF HashBefore, Prev

LEMMA GlueAppends ==
    ASSUME NEW lines \in Seq(Entry), NEW e
    PROVE  Glue(lines, e) = Append(lines, e)
<1>1. lines # <<>> => lines[Len(lines)] \in Entry
  OBVIOUS
<1>2. lines # <<>> => lines[Len(lines)].kind # "torn"
  BY <1>1 DEF Entry
<1> QED
  BY <1>2 DEF Glue

LEMMA IdsOfEntries ==
    ASSUME NEW lines \in Seq(Entry)
    PROVE  IdsIn(lines) = {lines[k].id : k \in 1..Len(lines)}
BY EntryFormed DEF IdsIn

LEMMA IdsAppended ==
    ASSUME NEW lines \in Seq(Entry), NEW e \in Entry
    PROVE  IdsIn(Append(lines, e)) = IdsIn(lines) \cup {e.id}
<1> DEFINE more == Append(lines, e)
<1>1. more \in Seq(Entry) /\ Len(more) = Len(lines) + 1 /\ more[Len(lines) + 1] = e
      /\ \A k \in 1..Len(lines) : more[k] = lines[k]
  OBVIOUS
<1>2. 1..Len(more) = 1..Len(lines) \cup {Len(lines) + 1}
  BY <1>1
<1>3. IdsIn(more) = {more[k].id : k \in 1..Len(more)}
  BY <1>1, IdsOfEntries
<1>4. IdsIn(lines) = {lines[k].id : k \in 1..Len(lines)}
  BY IdsOfEntries
<1> HIDE DEF more
<1>5. {more[k].id : k \in 1..Len(more)} = {lines[k].id : k \in 1..Len(lines)} \cup {e.id}
  BY <1>1, <1>2
<1> QED
  BY <1>3, <1>4, <1>5 DEF more

LEMMA LinkedAppended ==
    ASSUME NEW lines \in Seq(Entry), NEW e \in Entry, Linked(lines),
           e.prev = Prev(lines, Len(lines) + 1)
    PROVE  Linked(Append(lines, e))
BY DEF Linked, Prev

LEMMA LogTyped == TypeInv => Log \in Seq(Entry)
BY DEF TypeInv, Log

-----------------------------------------------------------------------------
LEMMA InitInv == Init => LInv
<1> SUFFICES ASSUME Init PROVE LInv
  OBVIOUS
<1>1. TypeInv
  BY MutationLogAssumption DEF Init, TypeInv, Idle, Appending, NoCache, Inodes, NoFile, Genesis
<1>2. Log = <<>> /\ IdsIn(Log) = {}
  BY DEF Init, Log, IdsIn
<1>3. LogOK
  BY <1>2 DEF Init, LogOK, Linked, RegistrationComesFirst
<1>4. CacheOK /\ CallOK /\ CallsApart
  BY DEF Init, CacheOK, CallOK, EventOK, CallsApart, NoCache, Idle
<1> QED
  BY <1>1, <1>3, <1>4 DEF LInv

-----------------------------------------------------------------------------
(* Steps that write no line.                                               *)

\* The events of a call after the step: those it had, or new ones.
Keeps(p) ==
    call'[p].stage # "out" =>
        \/ /\ call[p].stage # "out"
           /\ call'[p].id \in {call[p].id, call[p].next}
           /\ call'[p].next \in {call[p].next, Genesis}
           /\ call'[p].id # Genesis
        \/ /\ call'[p].id > used
           /\ call'[p].next > used \/ call'[p].next = Genesis

LEMMA CallsStayApart ==
    ASSUME LInv, NEW p \in Procs, Keeps(p), TypeInv',
           call' = [call EXCEPT ![p] = call'[p]]
    PROVE  CallsApart'
<1>1. /\ \A q \in Procs : q # p => call'[q] = call[q]
      /\ \A q \in Procs : call[q] \in Appending /\ EventOK(q)
      /\ used \in Nat
  BY DEF LInv, TypeInv, CallOK
<1>2. ASSUME NEW q \in Procs, q # p, call'[p].stage # "out", call[q].stage # "out"
      PROVE  /\ call'[p].id # call[q].id /\ call'[p].id # call[q].next
             /\ call[q].id # call'[p].next
             /\ call'[p].next # Genesis => call'[p].next # call[q].next
  <2>1. call[q].id \in 1..used /\ call[q].next \in 0..used
    BY <1>1, <1>2 DEF EventOK
  <2>2. CASE call'[p].id > used
    BY <1>1, <1>2, <2>1, <2>2 DEF Keeps, Genesis, LInv, TypeInv, Appending, Ids, CallOK, EventOK
  <2>3. CASE ~(call'[p].id > used)
    <3>1. /\ call[p].stage # "out"
          /\ call'[p].id \in {call[p].id, call[p].next} /\ call'[p].id # Genesis
          /\ call'[p].next \in {call[p].next, Genesis}
      BY <1>2, <2>3 DEF Keeps
    <3>2. /\ call[p].id # call[q].id /\ call[p].id # call[q].next
          /\ call[p].next # Genesis => call[p].next # call[q].next
          /\ call[q].id # call[p].next
      BY <1>2, <3>1 DEF LInv, CallsApart
    <3> QED
      BY <2>1, <3>1, <3>2 DEF Genesis
  <2> QED
    BY <2>2, <2>3
<1> QED
  BY <1>1, <1>2 DEF LInv, CallsApart

LEMMA QuietStep ==
    ASSUME LInv, TypeInv', NEW p \in Procs, Log' = Log,
           call' = [call EXCEPT ![p] = call'[p]], Keeps(p), EventOK(p)',
           \A q \in Procs : cache'[q] \in {cache[q], NoCache},
           used' >= used, path # NoFile => path' = path,
           acked' \subseteq IdsIn(Log)
    PROVE  LInv'
<1>1. IdsIn(Log)' = IdsIn(Log) /\ used \in Nat /\ used' \in Nat
  BY DEF LInv, TypeInv, IdsIn, Formed
<1>2. LogOK'
  BY <1>1 DEF LInv, LogOK, Linked, Prev, RegistrationComesFirst
<1>3. CacheOK'
  BY DEF LInv, CacheOK, NoCache
<1>4. \A q \in Procs : q # p => call'[q] = call[q]
  BY DEF LInv, TypeInv
<1>5. \A q \in Procs : q # p => EventOK(q)'
  BY <1>1, <1>4 DEF LInv, CallOK, EventOK
<1>6. CallOK'
  BY <1>5 DEF CallOK
<1> QED
  BY <1>2, <1>3, <1>6, CallsStayApart DEF LInv

LEMMA AppendEventInv ==
    \A p \in Procs, pair \in Pairs : LInv /\ AppendEvent(p, pair) => LInv'
<1> SUFFICES ASSUME NEW p \in Procs, NEW pair \in Pairs, LInv, AppendEvent(p, pair)
             PROVE  LInv'
  OBVIOUS
<1>1. /\ TypeInv /\ LogOK /\ used \in Nat /\ MaxEvents \in Nat
      /\ IdsIn(Log) \subseteq 1..used
  BY MutationLogAssumption DEF LInv, LogOK, TypeInv
<1>2. Log' = Log /\ IdsIn(Log)' = IdsIn(Log)
  BY DEF AppendEvent, files, Log, IdsIn, Formed
<1> DEFINE registers == Pinning /\ Log = <<>>
           new == IF registers
                  THEN [Idle EXCEPT !.stage = "open", !.pair = pair, !.kind = "registration",
                                    !.id = used + 1, !.next = used + 2]
                  ELSE [Idle EXCEPT !.stage = "open", !.pair = pair, !.id = used + 1]
<1>3. /\ call' = [call EXCEPT ![p] = new] /\ call'[p] = new
      /\ used' = IF registers THEN used + 2 ELSE used + 1
      /\ used' <= MaxEvents
  BY <1>1 DEF AppendEvent, TypeInv
<1>4. /\ new \in Appending /\ new.stage = "open" /\ new.id = used + 1
      /\ new.next = IF registers THEN used + 2 ELSE Genesis
      /\ new.kind = "event" => ~registers
  <2>1. CASE registers
    <3>1. used + 1 \in Ids /\ used + 2 \in Ids
      BY <1>1, <1>3, <2>1 DEF Ids
    <3>2. new = [Idle EXCEPT !.stage = "open", !.pair = pair, !.kind = "registration",
                             !.id = used + 1, !.next = used + 2]
      BY <2>1
    <3> QED
      BY <3>1, <3>2, <2>1 DEF Idle, Appending, NoFile
  <2>2. CASE ~registers
    <3>1. used + 1 \in Ids
      BY <1>1, <1>3, <2>2 DEF Ids
    <3>2. new = [Idle EXCEPT !.stage = "open", !.pair = pair, !.id = used + 1]
      BY <2>2
    <3> QED
      BY <3>1, <3>2, <2>2 DEF Idle, Appending, NoFile, Genesis
  <2> QED
    BY <2>1, <2>2
<1> HIDE DEF new
<1>5. TypeInv'
  BY <1>1, <1>3, <1>4 DEF TypeInv, AppendEvent, files
<1>6. Keeps(p)
  BY <1>1, <1>3, <1>4 DEF Keeps
<1>7. EventOK(p)'
  BY <1>1, <1>2, <1>3, <1>4 DEF EventOK, Genesis, Anchoring
<1>8. /\ \A q \in Procs : cache'[q] = cache[q]
      /\ path' = path /\ acked' = acked
  BY DEF AppendEvent, files
<1>9. call' = [call EXCEPT ![p] = call'[p]] /\ used' >= used
  <2>1. call' = [call EXCEPT ![p] = call'[p]]
    BY <1>3, Zenon
  <2>2. used' >= used
    BY <1>1, <1>3, SMT
  <2> QED
    BY <2>1, <2>2
<1>10. acked' \subseteq IdsIn(Log)
  BY <1>1, <1>8 DEF LogOK
<1> QED
  BY <1>2, <1>5, <1>6, <1>7, <1>8, <1>9, <1>10, QuietStep

LEMMA OpenInv == \A p \in Procs : LInv /\ OpenToAppend(p) => LInv'
<1> SUFFICES ASSUME NEW p \in Procs, LInv, OpenToAppend(p) PROVE LInv'
  OBVIOUS
<1>1. TypeInv /\ LogOK /\ EventOK(p) /\ call[p] \in Appending /\ MaxInodes \in Nat
  BY MutationLogAssumption DEF LInv, TypeInv, CallOK
<1>2. path' = 1 /\ inodes' = 1 /\ 1 \in Inodes /\ (path # NoFile => path' = path)
  BY <1>1 DEF OpenToAppend, Open, TypeInv, Inodes, NoFile
<1>3. Log' = Log
  BY <1>1, <1>2 DEF OpenToAppend, Log, TypeInv, NoFile
<1>4. IdsIn(Log)' = IdsIn(Log)
  BY <1>3 DEF IdsIn, Formed
<1> DEFINE new == [call[p] EXCEPT !.stage = "lock", !.file = 1, !.size = Len(content[1])]
<1>5. call' = [call EXCEPT ![p] = new] /\ call'[p] = new
  BY <1>1, <1>2 DEF OpenToAppend, Open, TypeInv
<1>6. Len(content[1]) \in Nat
  BY <1>1, <1>2 DEF TypeInv
<1>7. /\ new \in Appending /\ new.stage = "lock" /\ new.file = 1 /\ new.id = call[p].id
      /\ new.next = call[p].next /\ new.kind = call[p].kind
  BY <1>1, <1>6 DEF Appending
<1> HIDE DEF new
<1>8. TypeInv'
  <2>1. /\ UNCHANGED <<dir, content, holder, sealed, cache, used>>
        /\ \A i \in Inodes : i # path' => content[i] = <<>>
    BY <1>1, <1>2 DEF OpenToAppend, TypeInv, NoFile, Inodes
  <2>2. call' \in [Procs -> Appending]
    BY <1>1, <1>5, <1>7 DEF TypeInv
  <2> QED
    BY <1>1, <1>2, <2>1, <2>2 DEF TypeInv
<1>9. call[p].stage = "open"
  BY DEF OpenToAppend
<1>10. EventOK(p)'
  BY <1>1, <1>2, <1>3, <1>4, <1>5, <1>7, <1>9 DEF EventOK, OpenToAppend, NoFile, Anchoring
<1>11. Keeps(p)
  BY <1>1, <1>5, <1>7, <1>9 DEF Keeps, EventOK, Genesis
<1>12. /\ \A q \in Procs : cache'[q] = cache[q]
       /\ used' = used /\ used \in Nat /\ acked' = acked
  BY <1>1 DEF OpenToAppend, TypeInv
<1>13. call' = [call EXCEPT ![p] = call'[p]]
  BY <1>5, Zenon
<1>15. used' >= used
  BY <1>12
<1>14. acked' \subseteq IdsIn(Log)
  BY <1>1, <1>12 DEF LogOK
<1> QED
  BY <1>2, <1>3, <1>8, <1>10, <1>11, <1>12, <1>13, <1>14, <1>15, QuietStep

\* A call that ends without writing.
LEMMA EndInv ==
    ASSUME LInv, NEW p \in Procs, Finish(p),
           UNCHANGED <<dir, path, content, inodes, holder, sealed, used>>,
           \A q \in Procs : cache'[q] \in {cache[q], NoCache}, DOMAIN cache' = Procs,
           cache' = [q \in Procs |-> cache'[q]],
           acked' \subseteq IdsIn(Log)
    PROVE  LInv'
<1>1. TypeInv /\ LogOK /\ used \in Nat
  BY DEF LInv, TypeInv
<1>2. Log' = Log
  BY DEF Log
<1>3. call' = [call EXCEPT ![p] = Idle] /\ call'[p] = Idle /\ Idle.stage = "out"
  BY <1>1 DEF Finish, TypeInv, Idle
<1>4. Idle \in Appending
  BY DEF Idle, Appending, NoFile, Genesis
<1>5. \A q \in Procs : cache'[q] \in [head : Ids \cup {Genesis}, size : Nat]
  BY <1>1 DEF TypeInv, NoCache, Genesis
<1>6. TypeInv'
  BY <1>1, <1>3, <1>4, <1>5 DEF TypeInv
<1>7. Keeps(p) /\ EventOK(p)'
  BY <1>3 DEF Keeps, EventOK
<1>8. call' = [call EXCEPT ![p] = call'[p]]
  BY <1>3, Zenon
<1>9. used' >= used /\ path' = path
  BY <1>1
<1> QED
  BY <1>2, <1>6, <1>7, <1>8, <1>9, QuietStep

LEMMA CacheShape == TypeInv => cache = [q \in Procs |-> cache[q]] /\ DOMAIN cache = Procs
BY DEF TypeInv

LEMMA GiveUpInv == \A p \in Procs : LInv /\ GiveUp(p) => LInv'
<1> SUFFICES ASSUME NEW p \in Procs, LInv, GiveUp(p) PROVE LInv'
  OBVIOUS
<1>1. acked' = acked /\ cache' = cache /\ Finish(p)
      /\ UNCHANGED <<dir, path, content, inodes, holder, sealed, used>>
  BY DEF GiveUp, files
<1> QED
  BY <1>1, EndInv, CacheShape DEF LInv, LogOK

LEMMA CrashInv == \A p \in Procs : LInv /\ Crash(p) => LInv'
<1> SUFFICES ASSUME NEW p \in Procs, LInv, Crash(p) PROVE LInv'
  OBVIOUS
<1>1. TypeInv /\ LogOK
  BY DEF LInv
<1>2. holder' = holder
  BY <1>1, MutationLogAssumption DEF Crash, Dies, TypeInv
<1>3. cache' = [cache EXCEPT ![p] = NoCache]
  BY DEF Crash, Dies
<1>4. /\ DOMAIN cache' = Procs /\ cache' = [q \in Procs |-> cache'[q]]
      /\ \A q \in Procs : cache'[q] \in {cache[q], NoCache}
  BY <1>1, <1>3 DEF TypeInv
<1>5. acked' = acked /\ Finish(p)
      /\ UNCHANGED <<dir, path, content, inodes, sealed, used>>
  BY DEF Crash, Dies
<1> QED
  BY <1>1, <1>2, <1>4, <1>5, EndInv DEF LogOK

\* The temporary file is opened, or the head written to it.
LEMMA AnchoringInv ==
    \A p \in Procs : LInv /\ (OpenAnchor(p) \/ WriteAnchor(p)) => LInv'
<1> SUFFICES ASSUME NEW p \in Procs, LInv, OpenAnchor(p) \/ WriteAnchor(p) PROVE LInv'
  OBVIOUS
<1>0. call[p].stage \in Anchoring /\ call[p].stage # "out"
  BY DEF OpenAnchor, WriteAnchor, Anchoring
<1>1. /\ TypeInv /\ LogOK /\ EventOK(p) /\ call[p] \in Appending /\ used \in Nat
      /\ call[p].stage \in Anchoring /\ call[p].id \in IdsIn(Log)
  BY <1>0 DEF LInv, TypeInv, CallOK, EventOK
<1>2. UNCHANGED <<dir, path, content, inodes, holder, sealed, used, cache, acked>>
  BY DEF OpenAnchor, WriteAnchor
<1>3. PICK s \in Anchoring : call' = [call EXCEPT ![p].stage = s]
  BY DEF OpenAnchor, WriteAnchor, Anchoring
<1> DEFINE new == [call[p] EXCEPT !.stage = s]
<1>4. call' = [call EXCEPT ![p] = new] /\ call'[p] = new
  BY <1>1, <1>3 DEF TypeInv
<1>5. /\ new \in Appending /\ new.stage = s /\ new.id = call[p].id
      /\ new.next = call[p].next /\ new.kind = call[p].kind
  BY <1>1, <1>3 DEF Appending
<1> HIDE DEF new
<1>6. TypeInv'
  <2>1. call' \in [Procs -> Appending]
    BY <1>1, <1>4, <1>5 DEF TypeInv
  <2> QED
    BY <1>1, <1>2, <2>1 DEF TypeInv
<1>7. Log' = Log /\ IdsIn(Log)' = IdsIn(Log)
  BY <1>2 DEF Log, IdsIn, Formed
<1>8. call[p].stage \notin {"out", "open", "lock"} /\ s \notin {"out", "open", "lock"}
  BY <1>1, <1>3 DEF Anchoring
<1>9. EventOK(p)'
  BY <1>1, <1>2, <1>4, <1>5, <1>7, <1>8 DEF EventOK
<1>10. Keeps(p)
  BY <1>1, <1>4, <1>5, <1>8 DEF Keeps, EventOK, Genesis
<1>11. call' = [call EXCEPT ![p] = call'[p]]
  BY <1>4, Zenon
<1>12. used' >= used /\ path' = path /\ \A q \in Procs : cache'[q] = cache[q]
  BY <1>1, <1>2
<1>13. acked' \subseteq IdsIn(Log)
  BY <1>1, <1>2 DEF LogOK
<1> QED
  BY <1>6, <1>7, <1>9, <1>10, <1>11, <1>12, <1>13, QuietStep

\* The anchor is moved into place, or has failed, and the call goes on.
LEMMA ReturnInv ==
    ASSUME NEW p \in Procs, LInv, call[p].stage \in Anchoring, Return(p) PROVE LInv'
<1>1. /\ TypeInv /\ LogOK /\ EventOK(p) /\ call[p] \in Appending /\ used \in Nat
      /\ call[p].id \in IdsIn(Log) /\ call[p].stage # "out"
  BY DEF LInv, TypeInv, CallOK, EventOK, Anchoring
<1>2. acked' \subseteq IdsIn(Log)
  BY <1>1 DEF Return, LogOK
<1>3. UNCHANGED <<dir, path, content, inodes, holder, sealed, used, cache>>
  BY DEF Return
<1>4. CASE call[p].next = Genesis
  <2>1. Finish(p)
    BY <1>4 DEF Return
  <2> QED
    BY <1>1, <1>2, <1>3, <2>1, CacheShape, EndInv
<1>5. CASE call[p].next # Genesis
  <2> DEFINE new == [Idle EXCEPT !.stage = "open", !.pair = call[p].pair, !.id = call[p].next]
  <2>1. call' = [call EXCEPT ![p] = new] /\ call'[p] = new
    BY <1>1, <1>5 DEF Return, TypeInv
  <2>2. /\ new \in Appending /\ new.stage = "open" /\ new.id = call[p].next
        /\ new.next = Genesis
    BY <1>1 DEF Idle, Appending, NoFile, Genesis
  <2> HIDE DEF new
  <2>3. TypeInv'
    BY <1>1, <1>3, <2>1, <2>2 DEF TypeInv
  <2>4. Log' = Log /\ IdsIn(Log)' = IdsIn(Log)
    BY <1>3 DEF Log, IdsIn, Formed
  <2>5. Log # <<>>
    BY <1>1 DEF IdsIn
  <2>6. Genesis \notin IdsIn(Log)
    BY <1>1 DEF LogOK, Genesis
  <2>7. EventOK(p)'
    BY <1>1, <1>3, <1>5, <2>1, <2>2, <2>4, <2>5, <2>6 DEF EventOK, Genesis, Anchoring
  <2>8. Keeps(p)
    BY <1>1, <1>5, <2>1, <2>2 DEF Keeps
  <2>9. call' = [call EXCEPT ![p] = call'[p]]
    BY <2>1, Zenon
  <2>10. used' >= used /\ path' = path /\ \A q \in Procs : cache'[q] = cache[q]
    BY <1>1, <1>3
  <2> QED
    BY <1>2, <2>3, <2>4, <2>7, <2>8, <2>9, <2>10, QuietStep
<1> QED
  BY <1>4, <1>5

-----------------------------------------------------------------------------
(* The step that writes a line.                                            *)

\* The tail a writer links to is the last line, cached or not.
LEMMA PrevIsTheTail ==
    \A p \in Procs : LInv /\ call[p].stage = "lock" => PrevHash(p) = Prev(Log, Len(Log) + 1)
<1> SUFFICES ASSUME NEW p \in Procs, LInv, call[p].stage = "lock"
             PROVE  PrevHash(p) = Prev(Log, Len(Log) + 1)
  OBVIOUS
<1>1. Log \in Seq(Entry) /\ EventOK(p)
  BY LogTyped DEF LInv, CallOK
<1>2. content[call[p].file] = Log
  BY <1>1 DEF EventOK, Log
<1>3. CASE cache[p].head # Genesis /\ cache[p].size = Len(Log)
  <2>1. Len(Log) \in 1..Len(Log) /\ Log[Len(Log)].id = cache[p].head
    BY <1>3 DEF LInv, CacheOK
  <2> QED
    BY <1>1, <1>2, <1>3, <2>1 DEF PrevHash, Prev
<1>4. CASE ~(cache[p].head # Genesis /\ cache[p].size = Len(Log))
  BY <1>1, <1>2, <1>4, HashBeforeIsPrev DEF PrevHash, TailHash
<1> QED
  BY <1>3, <1>4

\* What the step leaves behind.
LEMMA WriteAppends ==
    \A p \in Procs : LInv /\ WriteEvent(p) =>
        /\ Log \in Seq(Entry) /\ Written(p) \in Entry
        /\ Written(p).prev = Prev(Log, Len(Log) + 1)
        /\ path # NoFile /\ path \in Inodes
        /\ content' = [content EXCEPT ![path] = Append(Log, Written(p))]
        /\ Log' = Append(Log, Written(p))
        /\ IdsIn(Log)' = IdsIn(Log) \cup {call[p].id}
<1> SUFFICES ASSUME NEW p \in Procs, LInv, WriteEvent(p)
             PROVE  /\ Log \in Seq(Entry) /\ Written(p) \in Entry
                    /\ Written(p).prev = Prev(Log, Len(Log) + 1)
                    /\ path # NoFile /\ path \in Inodes
                    /\ content' = [content EXCEPT ![path] = Append(Log, Written(p))]
                    /\ Log' = Append(Log, Written(p))
                    /\ IdsIn(Log)' = IdsIn(Log) \cup {call[p].id}
  OBVIOUS
<1>1. /\ TypeInv /\ EventOK(p) /\ call[p] \in Appending /\ call[p].stage = "lock"
      /\ Log \in Seq(Entry)
  BY LogTyped DEF LInv, TypeInv, CallOK, WriteEvent
<1>2. /\ call[p].file = path /\ path # NoFile /\ path \in Inodes /\ content[path] = Log
      /\ call[p].id \in 1..used /\ used \in 0..MaxEvents
  BY <1>1 DEF EventOK, TypeInv, Log
<1>3. call[p].id \in Ids
  BY <1>2, MutationLogAssumption DEF Ids
<1>4. PrevHash(p) = Prev(Log, Len(Log) + 1)
  BY <1>1, PrevIsTheTail
<1>5. Prev(Log, Len(Log) + 1) \in Ids \cup {Genesis}
  <2>1. CASE Log = <<>>
    BY <2>1 DEF Prev
  <2>2. CASE Log # <<>>
    <3>1. Log[Len(Log)] \in Entry /\ Len(Log) + 1 # 1 /\ (Len(Log) + 1) - 1 = Len(Log)
      BY <1>1, <2>2
    <3> QED
      BY <3>1 DEF Prev, Entry
  <2> QED
    BY <2>1, <2>2
<1>6. Written(p) \in Entry /\ Written(p).prev = Prev(Log, Len(Log) + 1)
      /\ Written(p).id = call[p].id
  BY <1>1, <1>3, <1>4, <1>5 DEF Written, Entry, Appending
<1>7. content' = [content EXCEPT ![path] = Append(Log, Written(p))]
  <2>1. content' = [content EXCEPT ![path] = Glue(content[path], Written(p))]
    BY <1>2 DEF WriteEvent, WriteLine
  <2>2. Glue(Log, Written(p)) = Append(Log, Written(p))
    BY <1>1, GlueAppends
  <2> QED
    BY <1>2, <2>1, <2>2
<1>8. Log' = Append(Log, Written(p))
  <2>1. path' = path
    BY DEF WriteEvent
  <2>2. content'[path] = Append(Log, Written(p))
    BY <1>1, <1>2, <1>7 DEF TypeInv
  <2> QED
    BY <1>2, <2>1, <2>2 DEF Log
<1>9. IdsIn(Log)' = IdsIn(Log')
  BY DEF IdsIn, Formed
<1>10. IdsIn(Append(Log, Written(p))) = IdsIn(Log) \cup {call[p].id}
  BY <1>1, <1>6, IdsAppended
<1> QED
  BY <1>1, <1>2, <1>6, <1>7, <1>8, <1>9, <1>10

LEMMA WriteEventInv == \A p \in Procs : LInv /\ WriteEvent(p) => LInv'
<1> SUFFICES ASSUME NEW p \in Procs, LInv, WriteEvent(p) PROVE LInv'
  OBVIOUS
<1> DEFINE e == Written(p)
           id == call[p].id
<1>1. /\ TypeInv /\ LogOK /\ CacheOK /\ CallOK /\ CallsApart
      /\ EventOK(p) /\ call[p] \in Appending /\ call[p].stage = "lock" /\ used \in Nat
  BY DEF LInv, TypeInv, CallOK, WriteEvent
<1>2. /\ Log \in Seq(Entry) /\ e \in Entry /\ e.prev = Prev(Log, Len(Log) + 1)
      /\ path # NoFile /\ path \in Inodes
      /\ content' = [content EXCEPT ![path] = Append(Log, e)]
      /\ Log' = Append(Log, e)
      /\ IdsIn(Log)' = IdsIn(Log) \cup {id}
  BY WriteAppends
<1>3. /\ UNCHANGED <<dir, path, inodes, holder, sealed, used, acked>>
      /\ call' = [call EXCEPT ![p].stage = "anchor"]
  BY DEF WriteEvent
<1>4. e.id = id /\ e.kind = call[p].kind /\ id \in 1..used /\ id \notin IdsIn(Log)
  BY <1>1 DEF Written, EventOK
<1> HIDE DEF e
<1>5. /\ Log' \in Seq(Entry) /\ Len(Log') = Len(Log) + 1 /\ Log'[Len(Log) + 1] = e
      /\ \A k \in 1..Len(Log) : Log'[k] = Log[k]
  BY <1>2
<1> DEFINE new == [call[p] EXCEPT !.stage = "anchor"]
<1>6. call' = [call EXCEPT ![p] = new] /\ call'[p] = new
  BY <1>1, <1>3 DEF TypeInv
<1>7. /\ new \in Appending /\ new.stage = "anchor" /\ new.id = id
      /\ new.next = call[p].next /\ new.kind = call[p].kind
  BY <1>1 DEF Appending, Anchoring
<1> HIDE DEF new
<1>8. \A q \in Procs : cache'[q] = cache[q] \/ cache'[q] = [head |-> id, size |-> Len(Log')]
  <2>1. Log' = content'[call[p].file]
    BY <1>1, <1>2, <1>3 DEF Log, EventOK
  <2> QED
    BY <1>1, <2>1 DEF WriteEvent, TypeInv
<1>9. TypeInv'
  <2>1. content' \in [Inodes -> Seq(Entry)]
    BY <1>1, <1>2 DEF TypeInv
  <2>2. \A i \in Inodes : i # path' => content'[i] = <<>>
    BY <1>1, <1>2, <1>3 DEF TypeInv
  <2>3. call' \in [Procs -> Appending]
    BY <1>1, <1>6, <1>7 DEF TypeInv
  <2>4. cache' \in [Procs -> [head : Ids \cup {Genesis}, size : Nat]]
    <3>1. id \in Ids /\ Len(Log') \in Nat
      BY <1>1, <1>2, <1>4, <1>5 DEF Entry
    <3>4. [head |-> id, size |-> Len(Log')] \in [head : Ids \cup {Genesis}, size : Nat]
      BY <3>1
    <3>5. \A q \in Procs : cache[q] \in [head : Ids \cup {Genesis}, size : Nat]
      BY <1>1 DEF TypeInv
    <3>2. \A q \in Procs : cache'[q] \in [head : Ids \cup {Genesis}, size : Nat]
      BY <1>8, <3>4, <3>5, Zenon
    <3>3. cache' = [q \in Procs |-> cache'[q]]
      BY <1>1 DEF WriteEvent, TypeInv
    <3> QED
      BY <3>2, <3>3
  <2> QED
    BY <1>1, <1>3, <2>1, <2>2, <2>3, <2>4 DEF TypeInv
<1>10. LogOK'
  <2>1. Linked(Log)'
    <3>1. Linked(Append(Log, e))
      BY <1>1, <1>2, LinkedAppended DEF LogOK
    <3> QED
      BY <1>2, <3>1 DEF Linked, Prev
  <2>2. RegistrationComesFirst'
    <3>1. CASE Log = <<>>
      BY <1>1, <1>4, <1>5, <3>1 DEF RegistrationComesFirst, EventOK, Appending
    <3>2. CASE Log # <<>>
      <4>1. 1 \in 1..Len(Log)
        BY <1>2, <3>2
      <4>2. Log'[1] = Log[1]
        BY <1>5, <4>1
      <4> QED
        BY <1>1, <3>2, <4>2 DEF RegistrationComesFirst, LogOK
    <3> QED
      BY <3>1, <3>2
  <2> QED
    BY <1>1, <1>2, <1>3, <1>4, <2>1, <2>2 DEF LogOK
<1>11. CacheOK'
  <2> SUFFICES ASSUME NEW q \in Procs, cache'[q].head # Genesis
               PROVE  cache'[q].size \in 1..Len(Log') /\ Log'[cache'[q].size].id = cache'[q].head
    BY DEF CacheOK
  <2>1. CASE cache'[q] = cache[q]
    <3>1. cache[q].size \in 1..Len(Log) /\ Log[cache[q].size].id = cache[q].head
      BY <1>1, <2>1 DEF CacheOK
    <3> QED
      BY <1>2, <1>5, <2>1, <3>1
  <2>2. CASE cache'[q] = [head |-> id, size |-> Len(Log')]
    BY <1>2, <1>4, <1>5, <2>2
  <2> QED
    BY <1>8, <2>1, <2>2
<1>12. EventOK(p)'
  BY <1>1, <1>2, <1>3, <1>4, <1>5, <1>6, <1>7 DEF EventOK
<1>13. ASSUME NEW q \in Procs, q # p PROVE EventOK(q)'
  <2>1. call'[q] = call[q] /\ EventOK(q)
    BY <1>1, <1>3, <1>13 DEF TypeInv, CallOK
  <2>2. call[q].stage # "out" => call[q].id # id /\ call[q].next # id
    BY <1>1, <1>13 DEF CallsApart
  <2>3. Log' # <<>> /\ path' = path /\ used' = used
    BY <1>2, <1>3, <1>5
  <2>4. /\ call[q].stage # "out" /\ call[q].id \notin IdsIn(Log) => call[q].id \notin IdsIn(Log)'
        /\ call[q].stage # "out" /\ call[q].next \notin IdsIn(Log) => call[q].next \notin IdsIn(Log)'
        /\ call[q].id \in IdsIn(Log) => call[q].id \in IdsIn(Log)'
    BY <1>2, <2>2
  <2> HIDE DEF id
  <2> QED
    BY <2>1, <2>3, <2>4 DEF EventOK
<1>14. CallOK'
  BY <1>12, <1>13 DEF CallOK
<1>15. Keeps(p)
  BY <1>1, <1>4, <1>6, <1>7 DEF Keeps, Genesis
<1>16. call' = [call EXCEPT ![p] = call'[p]]
  BY <1>6, Zenon
<1>17. CallsApart'
  BY <1>9, <1>15, <1>16, CallsStayApart
<1> QED
  BY <1>9, <1>10, <1>11, <1>14, <1>17 DEF LInv

-----------------------------------------------------------------------------
(* The next-state relation, when only appends are called.                  *)

Appends(p) ==
    \/ \E pair \in Pairs : AppendEvent(p, pair)
    \/ OpenToAppend(p)
    \/ AppendRefused(p)
    \/ WriteEvent(p)
    \/ OpenAnchor(p) \/ WriteAnchor(p) \/ MoveAnchor(p)
    \/ Crash(p)

LEMMA OnlyAppends ==
    ASSUME AppendsOnly, LInv, [Next]_vars
    PROVE  UNCHANGED vars \/ \E p \in Procs : Appends(p)
<1>1. ASSUME NEW p \in Procs, LogStep(p) PROVE Appends(p)
  <2>1. call[p] \in Appending /\ "purge" \notin OpsOf[p] /\ ~DiskMayFill /\ ~TornWrites /\ dir
    BY DEF AppendsOnly, LInv, TypeInv
  <2>2. ~PurgeStep(p)
    BY <2>1 DEF PurgeStep, Purge, Calls, ReadSnapshot, OpenToRewrite, WriteShard,
                ShardHitsFullDisk, ReplaceLog, PurgeFails, OpenForTail, ReadTail, Appending, Anchoring
  <2>3. ~DieMidWrite(p)
    BY <2>1 DEF DieMidWrite
  <2>4. CASE AppendStep(p)
    BY <2>1, <2>4 DEF AppendStep, WriteHitsFullDisk, AnchorFails, Appends
  <2> QED
    BY <1>1, <2>2, <2>3, <2>4 DEF LogStep, Appends
<1>2. Next => UNCHANGED vars \/ \E p \in Procs : LogStep(p)
  BY DEF Next, Rest
<1> QED
  BY <1>1, <1>2

LEMMA NextInv == AppendsOnly /\ LInv /\ [Next]_vars => LInv'
<1> SUFFICES ASSUME AppendsOnly, LInv, [Next]_vars PROVE LInv'
  OBVIOUS
<1>1. CASE UNCHANGED vars
  <2>1. Log' = Log /\ UNCHANGED <<files, call, cache, used, acked>>
    BY <1>1 DEF vars, files, Log
  <2> QED
    BY <2>1 DEF LInv, TypeInv, LogOK, Linked, Prev, IdsIn, Formed, RegistrationComesFirst,
                CacheOK, CallOK, EventOK, CallsApart, files
<1>2. ASSUME NEW p \in Procs, Appends(p) PROVE LInv'
  BY <1>2, AppendEventInv, OpenInv, GiveUpInv, WriteEventInv, AnchoringInv, ReturnInv, CrashInv
     DEF Appends, AppendRefused, MoveAnchor, Anchoring
<1> QED
  BY <1>1, <1>2, OnlyAppends

\* The inductive invariant of a log that is only appended to.
THEOREM AppendInvariant == ASSUME AppendsOnly PROVE Spec => []LInv
BY InitInv, NextInv, PTL DEF Spec

-----------------------------------------------------------------------------
(* The anchor files.                                                       *)

LEMMA AnchorInit == Init => AnchorOK
<1> SUFFICES ASSUME Init PROVE AnchorOK
  OBVIOUS
<1>1. anchor.file = NoAnchor /\ anchor.temp = NoAnchor /\ crashes = 0
  BY DEF Init
<1> QED
  BY <1>1 DEF AnchorOK, FileOK, NoAnchor, Cut, Genesis

LEMMA OpenKeepsTheLog == \A p \in Procs : LInv /\ OpenToAppend(p) => Log' = Log
<1> SUFFICES ASSUME NEW p \in Procs, LInv, OpenToAppend(p) PROVE Log' = Log
  OBVIOUS
<1>1. path \in {NoFile, 1} /\ inodes = path /\ MaxInodes \in Nat
      /\ \A i \in Inodes : i # path => content[i] = <<>>
  BY MutationLogAssumption DEF LInv, TypeInv
<1> QED
  BY <1>1 DEF OpenToAppend, Open, Log, NoFile, Inodes

\* What the log had before the step it has after it.
LEMMA IdsStay ==
    ASSUME NEW p \in Procs, LInv, Appends(p) PROVE IdsIn(Log) \subseteq IdsIn(Log)'
<1>1. CASE Log' = Log
  BY <1>1 DEF IdsIn, Formed
<1>2. CASE WriteEvent(p)
  BY <1>2, WriteAppends
<1>3. CASE OpenToAppend(p)
  BY <1>1, <1>3, OpenKeepsTheLog
<1>4. ~WriteEvent(p) /\ ~OpenToAppend(p) => Log' = Log
  BY DEF Appends, AppendEvent, AppendRefused, GiveUp, OpenAnchor, WriteAnchor, MoveAnchor,
         Return, Crash, Dies, files, Log
<1> QED
  BY <1>1, <1>2, <1>3, <1>4

LEMMA OthersStay ==
    ASSUME NEW p \in Procs, LInv, Appends(p)
    PROVE  \A q \in Procs : q # p => call'[q] = call[q]
<1>1. call \in [Procs -> Appending]
  BY DEF LInv, TypeInv
<1> QED
  BY <1>1 DEF Appends, AppendEvent, OpenToAppend, Open, AppendRefused, GiveUp, WriteEvent,
              OpenAnchor, WriteAnchor, MoveAnchor, Return, Crash, Dies, Finish

\* A file that a process has not open stays right whatever that process does.
LEMMA FileStays ==
    ASSUME NEW p \in Procs, LInv, Appends(p), NEW f, FileOK(f, IdsIn(Log), Writing, crashes),
           p \notin f.open, crashes' = crashes
    PROVE  FileOK(f, IdsIn(Log)', Writing', crashes')
BY IdsStay, OthersStay DEF FileOK, Writing

LEMMA NotOpen ==
    ASSUME NEW p \in Procs, AnchorOK, call[p].stage # "anchorwrite"
    PROVE  p \notin anchor.file.open /\ p \notin anchor.temp.open
BY DEF AnchorOK, FileOK, Writing

LEMMA OpenAnchorOK ==
    ASSUME NEW p \in Procs, LInv, AnchorOK, OpenAnchor(p) PROVE AnchorOK'
<1>1. /\ Appends(p) /\ crashes' = crashes /\ call[p].stage = "anchor"
      /\ anchor'.file = anchor.file
      /\ anchor'.temp = [holds |-> Cut, open |-> anchor.temp.open \cup {p}]
  BY DEF OpenAnchor, Appends
<1>2. FileOK(anchor.file, IdsIn(Log)', Writing', crashes')
  BY <1>1, NotOpen, FileStays DEF AnchorOK
<1>3. call'[p].stage = "anchorwrite"
  BY DEF OpenAnchor, LInv, TypeInv, Appending
<1>4. p \in Writing' /\ anchor.temp.open \subseteq Writing'
  BY <1>1, <1>3, NotOpen, OthersStay DEF Writing, AnchorOK, FileOK
<1>5. FileOK(anchor'.temp, IdsIn(Log)', Writing', crashes')
  BY <1>1, <1>4 DEF FileOK
<1> QED
  BY <1>1, <1>2, <1>5 DEF AnchorOK

LEMMA WriteAnchorOK ==
    ASSUME NEW p \in Procs, LInv, AnchorOK, WriteAnchor(p) PROVE AnchorOK'
<1>1. /\ Appends(p) /\ crashes' = crashes
      /\ anchor'.file = WriteHead(p, anchor.file) /\ anchor'.temp = WriteHead(p, anchor.temp)
  BY DEF WriteAnchor, Appends
<1>2. call[p].id \in IdsIn(Log) /\ call[p].id \in 1..used /\ used \in Nat
  BY DEF WriteAnchor, LInv, TypeInv, CallOK, EventOK, Anchoring
<1>3. call[p].id \in IdsIn(Log)' /\ call[p].id # Cut
  BY <1>1, <1>2, IdsStay DEF Cut
<1>4. ASSUME NEW f, FileOK(f, IdsIn(Log), Writing, crashes)
      PROVE  FileOK(WriteHead(p, f), IdsIn(Log)', Writing', crashes')
  <2>1. CASE p \notin f.open
    BY <1>1, <1>4, <2>1, FileStays DEF WriteHead
  <2>2. CASE p \in f.open
    <3>1. WriteHead(p, f) = [holds |-> call[p].id, open |-> f.open \ {p}]
      BY <2>2 DEF WriteHead
    <3>2. f.open \ {p} \subseteq Writing'
      BY <1>1, <1>4, OthersStay DEF FileOK, Writing
    <3> QED
      BY <1>3, <3>1, <3>2 DEF FileOK
  <2> QED
    BY <2>1, <2>2
<1> QED
  BY <1>1, <1>4 DEF AnchorOK

LEMMA CrashAnchorOK ==
    ASSUME NEW p \in Procs, LInv, AnchorOK, Crash(p) PROVE AnchorOK'
<1>1. /\ Appends(p) /\ crashes' = crashes + 1
      /\ anchor'.file = Closed(p, anchor.file) /\ anchor'.temp = Closed(p, anchor.temp)
  BY DEF Crash, Dies, Appends
<1>2. crashes' \in Nat /\ crashes' > 0
  BY <1>1 DEF AnchorOK
<1>3. ASSUME NEW f, FileOK(f, IdsIn(Log), Writing, crashes)
      PROVE  FileOK(Closed(p, f), IdsIn(Log)', Writing', crashes')
  <2>1. f.open \ {p} \subseteq Writing'
    BY <1>1, <1>3, OthersStay DEF FileOK, Writing
  <2>2. f.holds \in IdsIn(Log)' \cup {Genesis, Cut}
    BY <1>1, <1>3, IdsStay DEF FileOK
  <2> QED
    BY <1>2, <2>1, <2>2 DEF FileOK, Closed
<1> QED
  BY <1>1, <1>2, <1>3 DEF AnchorOK

LEMMA MoveAnchorOK ==
    ASSUME NEW p \in Procs, LInv, AnchorOK, MoveAnchor(p) PROVE AnchorOK'
<1>1. /\ Appends(p) /\ crashes' = crashes /\ call[p].stage # "anchorwrite"
      /\ \/ anchor'.file = anchor.file /\ anchor'.temp = anchor.temp
         \/ anchor'.file = anchor.temp /\ anchor'.temp = NoAnchor
  BY DEF MoveAnchor, Return, Appends
<1>2. /\ FileOK(anchor.file, IdsIn(Log)', Writing', crashes')
      /\ FileOK(anchor.temp, IdsIn(Log)', Writing', crashes')
  BY <1>1, NotOpen, FileStays DEF AnchorOK
<1>3. FileOK(NoAnchor, IdsIn(Log)', Writing', crashes')
  BY DEF FileOK, NoAnchor, Cut, Genesis
<1> QED
  BY <1>1, <1>2, <1>3 DEF AnchorOK

\* The other steps leave both files alone.
LEMMA OtherAnchorOK ==
    ASSUME NEW p \in Procs, LInv, AnchorOK, Appends(p), anchor' = anchor,
           crashes' = crashes, call[p].stage # "anchorwrite"
    PROVE  AnchorOK'
<1>1. /\ FileOK(anchor.file, IdsIn(Log)', Writing', crashes')
      /\ FileOK(anchor.temp, IdsIn(Log)', Writing', crashes')
  BY NotOpen, FileStays DEF AnchorOK
<1> QED
  BY <1>1 DEF AnchorOK

LEMMA AnchorNext == AppendsOnly /\ LInv /\ AnchorOK /\ [Next]_vars => AnchorOK'
<1> SUFFICES ASSUME AppendsOnly, LInv, AnchorOK, [Next]_vars PROVE AnchorOK'
  OBVIOUS
<1>1. CASE UNCHANGED vars
  <2>1. UNCHANGED <<anchor, crashes, call, path, content>>
    BY <1>1 DEF vars, files
  <2> QED
    BY <2>1 DEF AnchorOK, FileOK, Writing, IdsIn, Formed, Log
<1>2. ASSUME NEW p \in Procs, Appends(p) PROVE AnchorOK'
  <2>1. CASE OpenAnchor(p) \/ WriteAnchor(p) \/ MoveAnchor(p) \/ Crash(p)
    BY <2>1, OpenAnchorOK, WriteAnchorOK, MoveAnchorOK, CrashAnchorOK
  <2>2. CASE ~(OpenAnchor(p) \/ WriteAnchor(p) \/ MoveAnchor(p) \/ Crash(p))
    <3>1. anchor' = anchor /\ crashes' = crashes /\ call[p].stage # "anchorwrite"
      <4>1. ASSUME NEW pair \in Pairs, AppendEvent(p, pair)
            PROVE  anchor' = anchor /\ crashes' = crashes /\ call[p].stage # "anchorwrite"
        BY <4>1 DEF AppendEvent, Calls, Idle, files
      <4>2. CASE OpenToAppend(p) \/ AppendRefused(p) \/ WriteEvent(p)
        BY <4>2 DEF OpenToAppend, AppendRefused, GiveUp, WriteEvent, files
      <4> QED
        BY <1>2, <2>2, <4>1, <4>2 DEF Appends
    <3> QED
      BY <1>2, <3>1, OtherAnchorOK
  <2> QED
    BY <2>1, <2>2
<1> QED
  BY <1>1, <1>2, OnlyAppends

\* However writers share the files, what they hold is a line of the log, or was cut
\* off by someone who is about to write to it or has died.
THEOREM AnchorInvariant == ASSUME AppendsOnly PROVE Spec => []AnchorOK
<1>1. Init => AnchorOK
  BY AnchorInit
<1>2. LInv /\ AnchorOK /\ [Next]_vars => AnchorOK'
  BY AnchorNext
<1> QED
  BY <1>1, <1>2, AppendInvariant, PTL DEF Spec

-----------------------------------------------------------------------------
\* Between calls verify_chain accepts the log, but for an anchor that someone
\* truncated and did not live to write.
THEOREM HonestLogIsVerified == ASSUME AppendsOnly PROVE Spec => []HonestLogVerifies
<1>1. LInv /\ AnchorOK => HonestLogVerifies
  <2> SUFFICES ASSUME LInv, AnchorOK, \A p \in Procs : call[p] = Idle
               PROVE  /\ LinksVerify(Log)
                      /\ \/ AnchorVerifies(Log, anchor.file.holds)
                         \/ anchor.file.holds = Cut /\ (crashes > 0 \/ DiskMayFill)
    BY DEF HonestLogVerifies
  <2>1. Log \in Seq(Entry)
    BY LogTyped DEF LInv
  <2>2. ASSUME NEW k \in 1..Len(Log)
        PROVE  Formed(Log[k]) /\ Log[k].prev = HashBefore(Log, k)
    <3>1. Log[k] \in Entry /\ k \in 1..(Len(Log) + 1)
      BY <2>1
    <3>2. Log[k].prev = Prev(Log, k)
      BY DEF LInv, LogOK, Linked
    <3> QED
      BY <2>1, <3>1, <3>2, EntryFormed, HashBeforeIsPrev
  <2>3. LinksVerify(Log)
    BY <2>2 DEF LinksVerify, IntactLinked
  <2>4. Writing = {}
    BY DEF Writing, Idle
  <2>5. \/ anchor.file.holds \in IdsIn(Log) \cup {Genesis}
        \/ anchor.file.holds = Cut /\ crashes > 0
    BY <2>4 DEF AnchorOK, FileOK
  <2> QED
    BY <2>3, <2>5 DEF AnchorVerifies
<1> QED
  BY <1>1, AppendInvariant, AnchorInvariant, PTL

\* With key pinning a registration is first, whoever wins the race.
THEOREM RegistrationIsFirst == ASSUME AppendsOnly PROVE Spec => []RegistrationComesFirst
<1>1. LInv => RegistrationComesFirst
  BY DEF LInv, LogOK
<1> QED
  BY <1>1, AppendInvariant, PTL

-----------------------------------------------------------------------------
(* The log is the one AuditLog promises.                                   *)

LEMMA AuditIds == \A lines : Audit!IdsIn(lines) = IdsIn(lines)
BY DEF Audit!IdsIn, IdsIn, Audit!Formed, Formed

LEMMA AuditTail == ASSUME NEW lines \in Seq(Entry)
                   PROVE  Audit!TailHash(lines) = Prev(lines, Len(lines) + 1)
<1>1. Audit!TailHash(lines) = TailHash(lines)
  BY DEF Audit!TailHash, Audit!HashBefore, Audit!Before, Audit!Formed, Audit!Genesis,
         TailHash, HashBefore, Before, Formed, Genesis
<1> QED
  BY <1>1, HashBeforeIsPrev DEF TailHash

LEMMA WriteIsWrite == \A p \in Procs : LInv /\ WriteEvent(p) => Audit!Write
<1> SUFFICES ASSUME NEW p \in Procs, LInv, WriteEvent(p) PROVE Audit!Write
  OBVIOUS
<1> DEFINE e == Written(p)
<1>1. /\ Log \in Seq(Entry) /\ e \in Entry /\ e.prev = Prev(Log, Len(Log) + 1)
      /\ Log' = Append(Log, e)
  BY WriteAppends
<1>2. e.id \notin IdsIn(Log) \cup acked
  BY DEF Written, WriteEvent, LInv, LogOK, CallOK, EventOK
<1>3. e.kind \in {"event", "registration"}
  BY <1>1 DEF Entry
<1> HIDE DEF e
<1>4. Len(Log') = Len(Log) + 1 /\ Log'[Len(Log')] = e
  BY <1>1
<1>5. acked' = acked
  BY DEF WriteEvent
<1>6. e.prev = Audit!TailHash(Log) /\ e.id \notin Audit!IdsIn(Log) \cup acked
  BY <1>1, <1>2, AuditTail, AuditIds
<1> QED
  BY <1>1, <1>3, <1>4, <1>5, <1>6 DEF Audit!Write, Audit!Continues

LEMMA ReturnIsAcknowledge ==
    ASSUME NEW p \in Procs, LInv, call[p].stage \in Anchoring, Return(p)
    PROVE  Audit!Acknowledge
<1>1. call[p].id \in IdsIn(Log) /\ call[p].kind # "purge"
  BY DEF LInv, TypeInv, Appending, Anchoring, CallOK, EventOK
<1>2. acked' = acked \cup {call[p].id} /\ Log' = Log
  BY <1>1 DEF Return, Log
<1> QED
  BY <1>1, <1>2, AuditIds DEF Audit!Acknowledge

\* Appending is atomic to everyone who looks at the log, and an append that
\* returned is in it for good.
THEOREM LogImplementsAuditLog == ASSUME AppendsOnly PROVE Spec => ImplementsAuditLog
<1>1. Init => Audit!AuditInit
  BY DEF Init, Audit!AuditInit, Log
<1>2. LInv /\ [Next]_vars =>
        [Audit!Write \/ Audit!Acknowledge \/ Audit!Erase]_<<Log, acked>>
  <2> SUFFICES ASSUME LInv, [Next]_vars
               PROVE  [Audit!Write \/ Audit!Acknowledge \/ Audit!Erase]_<<Log, acked>>
    OBVIOUS
  <2>1. CASE UNCHANGED vars
    BY <2>1 DEF vars, files, Log
  <2>2. ASSUME NEW p \in Procs, Appends(p)
        PROVE  [Audit!Write \/ Audit!Acknowledge \/ Audit!Erase]_<<Log, acked>>
    <3>1. ASSUME NEW pair \in Pairs, AppendEvent(p, pair) PROVE UNCHANGED <<Log, acked>>
      BY <3>1 DEF AppendEvent, files, Log
    <3>2. CASE OpenToAppend(p)
      BY <3>2, OpenKeepsTheLog DEF OpenToAppend
    <3>3. CASE AppendRefused(p)
      BY <3>3 DEF AppendRefused, GiveUp, files, Log
    <3>4. CASE WriteEvent(p)
      BY <3>4, WriteIsWrite
    <3>5. CASE MoveAnchor(p)
      BY <3>5, ReturnIsAcknowledge DEF MoveAnchor, Anchoring
    <3>7. CASE OpenAnchor(p) \/ WriteAnchor(p)
      BY <3>7 DEF OpenAnchor, WriteAnchor, Log
    <3>6. CASE Crash(p)
      BY <3>6 DEF Crash, Dies, Log
    <3> QED
      BY <2>2, <3>1, <3>2, <3>3, <3>4, <3>5, <3>6, <3>7 DEF Appends
  <2> QED
    BY <2>1, <2>2, OnlyAppends
<1> QED
  BY <1>1, <1>2, AppendInvariant, PTL DEF Spec, ImplementsAuditLog, Audit!AuditSpec
=============================================================================
