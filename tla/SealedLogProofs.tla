-------------------------- MODULE SealedLogProofs --------------------------
(***************************************************************************)
(* What is intact in a folder's log, and in the blob it is sealed into, is *)
(* linked: for any processes calling any of the operations in any order,   *)
(* any number of events, files and deaths, full disks and torn lines, but  *)
(* no tail cache.                                                          *)
(*                                                                         *)
(* The argument: a line that a writer puts into a file nobody names any    *)
(* more is never seen again, as names only move on to newer files, which   *)
(* are empty until they get one; a line put into the named file has been   *)
(* given that file's tail; a purge relinks all it keeps; everything else   *)
(* copies lines as they are, cuts them off at the end, or damages one.     *)
(*                                                                         *)
(* Then, for one writer beside one sealer, what sealing must not change:   *)
(* no accepted event is lost, none erased comes back, and it does not show.*)
(***************************************************************************)
EXTENDS SealedLog, FiniteSetTheorems, TLAPS

-----------------------------------------------------------------------------
(* Positions.                                                              *)

\* Different positions have different ranks.
LEMMA RanksDiffer ==
    ASSUME NEW n \in Nat, NEW kept \in SUBSET (1..n), NEW k \in kept, NEW m \in kept, k < m
    PROVE  Cardinality({i \in kept : i <= k}) # Cardinality({i \in kept : i <= m})
<1> DEFINE Upto(a) == {i \in kept : i <= a}
<1>1. k \in Nat /\ m \in Nat /\ \A i \in kept : i \in Nat
  OBVIOUS
<1>2. \A i \in kept : i <= k => i <= m
  BY <1>1
<1>3. Upto(k) \in SUBSET Upto(m)
  BY <1>2
<1>4. m \in Upto(m) /\ m \notin Upto(k)
  BY <1>1
<1>5. IsFiniteSet(Upto(m))
  <2>1. IsFiniteSet(1..n)
    BY FS_Interval
  <2>2. Upto(m) \in SUBSET (1..n)
    OBVIOUS
  <2> QED
    BY <2>1, <2>2, FS_Subset
<1> HIDE DEF Upto
<1>6. Cardinality(Upto(k)) # Cardinality(Upto(m))
  BY <1>3, <1>4, <1>5, FS_Subset
<1> QED
  BY <1>6 DEF Upto

\* In a finite set of positions there is one of every rank.
LEMMA RankedPosition ==
    ASSUME NEW n \in Nat, NEW kept \in SUBSET (1..n), NEW j \in 1..Cardinality(kept)
    PROVE  \E k \in kept : Cardinality({i \in kept : i <= k}) = j
<1> DEFINE Upto(k) == {i \in kept : i <= k}
           rank == [k \in kept |-> Cardinality(Upto(k))]
           ranks == 1..Cardinality(kept)
<1>1. IsFiniteSet(kept) /\ Cardinality(kept) \in Nat
  <2>1. IsFiniteSet(1..n)
    BY FS_Interval
  <2> QED
    BY <2>1, FS_Subset, FS_CardinalityType
<1>2. ASSUME NEW k \in kept
      PROVE  IsFiniteSet(Upto(k)) /\ Cardinality(Upto(k)) \in ranks
  <2>1. Upto(k) \in SUBSET kept /\ k \in Upto(k)
    OBVIOUS
  <2>2. IsFiniteSet(Upto(k)) /\ Cardinality(Upto(k)) <= Cardinality(kept)
    BY <1>1, <2>1, FS_Subset
  <2>3. Cardinality(Upto(k)) \in Nat
    BY <2>2, FS_CardinalityType
  <2>4. Cardinality(Upto(k)) # 0
    BY <2>1, <2>2, FS_EmptySet
  <2> QED
    BY <1>1, <2>2, <2>3, <2>4
<1>3. \A k, m \in kept : k < m => Cardinality(Upto(k)) # Cardinality(Upto(m))
  BY RanksDiffer
<1>4. rank \in Injection(kept, ranks)
  <2>1. rank \in [kept -> ranks]
    BY <1>2
  <2>2. ASSUME NEW k \in kept, NEW m \in kept, rank[k] = rank[m] PROVE k = m
    <3>1. Cardinality(Upto(k)) = Cardinality(Upto(m))
      BY <2>2
    <3>2. ~(k < m) /\ ~(m < k)
      BY <1>3, <3>1
    <3> QED
      BY <3>2
  <2> HIDE DEF rank, ranks
  <2> QED
    BY <2>1, <2>2 DEF Injection, IsInjective
<1>5. IsFiniteSet(ranks) /\ Cardinality(ranks) = Cardinality(kept)
  BY <1>1, FS_Interval
<1>6. rank \in Surjection(kept, ranks)
  <2> HIDE DEF rank, ranks
  <2> QED
    BY <1>4, <1>5, FS_Injection
<1>7. PICK k \in kept : rank[k] = j
  BY <1>6 DEF Surjection
<1> QED
  BY <1>7

\* A nonempty finite set of positions has a last one.
LEMMA LastPosition ==
    ASSUME NEW n \in Nat, NEW J \in SUBSET (1..n), J # {}
    PROVE  \E k \in J : \A i \in J : i <= k
<1>1. IsFiniteSet(J) /\ Cardinality(J) \in Nat /\ Cardinality(J) # 0
  <2>1. IsFiniteSet(1..n)
    BY FS_Interval
  <2>2. IsFiniteSet(J)
    BY <2>1, FS_Subset
  <2> QED
    BY <2>2, FS_CardinalityType, FS_EmptySet
<1>2. Cardinality(J) \in 1..Cardinality(J)
  BY <1>1
<1>3. PICK k \in J : Cardinality({i \in J : i <= k}) = Cardinality(J)
  BY <1>2, RankedPosition
<1>4. {i \in J : i <= k} = J
  <2>1. {i \in J : i <= k} \in SUBSET J
    OBVIOUS
  <2> QED
    BY <1>1, <1>3, <2>1, FS_Subset
<1> QED
  BY <1>4

-----------------------------------------------------------------------------
(* Lines.                                                                  *)

\* An event has an id of its own, damage no pair.
Stored == {line \in Line : /\ Formed(line) => line.id \in Ids
                           /\ ~Formed(line) => line.pair = NoPair}

Hashes == Ids \cup {Genesis}

LEMMA BeforeIsThere ==
    ASSUME NEW S, NEW lines \in Seq(S), NEW k \in 1..(Len(lines) + 1), Before(lines, k) # 0
    PROVE  Before(lines, k) \in 1..(k - 1) /\ Formed(lines[Before(lines, k)])
<1> DEFINE J == {j \in 1..(k - 1) : Formed(lines[j])}
<1>1. J # {} /\ Before(lines, k) = CHOOSE j \in J : \A i \in J : i <= j
  BY DEF Before
<1>2. J \in SUBSET (1..(k - 1)) /\ k - 1 \in Nat
  OBVIOUS
<1>3. \E j \in J : \A i \in J : i <= j
  <2> HIDE DEF J
  <2> QED
    BY <1>1, <1>2, LastPosition
<1>4. Before(lines, k) \in J
  <2> HIDE DEF J
  <2> QED
    BY <1>1, <1>3
<1> QED
  BY <1>4

LEMMA HashTyped ==
    ASSUME NEW lines \in Seq(Stored), NEW k \in 1..(Len(lines) + 1)
    PROVE  HashBefore(lines, k) \in Hashes
<1>1. CASE Before(lines, k) = 0
  BY <1>1 DEF HashBefore, Hashes
<1>2. CASE Before(lines, k) # 0
  <2>1. Before(lines, k) \in 1..Len(lines)
    BY <1>2, BeforeIsThere
  <2>2. lines[Before(lines, k)] \in Stored
    BY <2>1
  <2> QED
    BY <1>2, <2>2 DEF HashBefore, Hashes, Stored, Line
<1> QED
  BY <1>1, <1>2

\* What comes before a position decides what its event is linked to.
LEMMA SameBefore ==
    ASSUME NEW lines \in Seq(Stored), NEW more \in Seq(Stored),
           NEW k \in 1..(Len(lines) + 1), k <= Len(more) + 1,
           \A j \in 1..(k - 1) : more[j].kind = lines[j].kind /\ more[j].id = lines[j].id
    PROVE  /\ Before(more, k) = Before(lines, k)
           /\ HashBefore(more, k) = HashBefore(lines, k)
<1> DEFINE J == {j \in 1..(k - 1) : Formed(lines[j])}
           M == {j \in 1..(k - 1) : Formed(more[j])}
<1>1. M = J
  BY DEF Formed
<1>2. Before(more, k) = Before(lines, k)
  <2>1. Before(lines, k) = IF J = {} THEN 0 ELSE CHOOSE j \in J : \A i \in J : i <= j
    BY DEF Before
  <2>2. Before(more, k) = IF M = {} THEN 0 ELSE CHOOSE j \in M : \A i \in M : i <= j
    BY DEF Before
  <2> HIDE DEF J, M
  <2> QED
    BY <1>1, <2>1, <2>2
<1>3. Before(lines, k) # 0 => Before(lines, k) \in 1..(k - 1)
  BY BeforeIsThere
<1> QED
  BY <1>2, <1>3 DEF HashBefore

\* An event is linked to what comes before it.
LinkedAt(lines, k) ==
    \/ lines[k].prev = HashBefore(lines, k)
    \/ Before(lines, k) # 0 /\ lines[Before(lines, k)].kind = "purge"

LEMMA LinkedIsLinkedAt ==
    ASSUME NEW lines
    PROVE  IntactLinked(lines) <=> \A k \in 1..Len(lines) : Formed(lines[k]) => LinkedAt(lines, k)
BY DEF IntactLinked, LinkedAt

LEMMA SameLink ==
    ASSUME NEW lines \in Seq(Stored), NEW more \in Seq(Stored),
           NEW k \in 1..Len(lines), k <= Len(more), LinkedAt(lines, k),
           more[k] = lines[k], \A j \in 1..(k - 1) : more[j] = lines[j]
    PROVE  LinkedAt(more, k)
<1>1. /\ Before(more, k) = Before(lines, k)
      /\ HashBefore(more, k) = HashBefore(lines, k)
  BY SameBefore
<1>2. Before(lines, k) # 0 => Before(lines, k) \in 1..(k - 1)
  BY BeforeIsThere
<1> QED
  BY <1>1, <1>2 DEF LinkedAt

LEMMA EmptyLinked == <<>> \in Seq(Stored) /\ IntactLinked(<<>>)
BY DEF IntactLinked

LEMMA DamageTyped == \A kind \in {"torn", "garbage"} :
                         Damage(kind) \in Stored /\ ~Formed(Damage(kind))
BY DEF Damage, Stored, Line, Formed, Genesis

LEMMA GlueTyped ==
    ASSUME NEW lines \in Seq(Stored), NEW line \in Stored
    PROVE  Glue(lines, line) \in Seq(Stored)
<1> DEFINE damaged == Damage(IF line.kind = "torn" THEN "torn" ELSE "garbage")
<1>1. damaged \in Stored
  BY DamageTyped
<1> HIDE DEF damaged
<1>2. lines # <<>> => [lines EXCEPT ![Len(lines)] = damaged] \in Seq(Stored)
  BY <1>1
<1> QED
  BY <1>2 DEF Glue, damaged

\* A line linked to the tail, or a damaged one, may be added.
LEMMA GlueLinked ==
    ASSUME NEW lines \in Seq(Stored), NEW line \in Stored, IntactLinked(lines),
           Formed(line) => line.prev = TailHash(lines)
    PROVE  IntactLinked(Glue(lines, line))
<1> DEFINE more == Glue(lines, line)
<1>1. more \in Seq(Stored)
  BY GlueTyped
<1>2. CASE lines # <<>> /\ lines[Len(lines)].kind = "torn"
  <2> DEFINE damaged == Damage(IF line.kind = "torn" THEN "torn" ELSE "garbage")
  <2>1. ~Formed(damaged)
    BY DamageTyped
  <2>2. more = [lines EXCEPT ![Len(lines)] = damaged]
    BY <1>2 DEF Glue
  <2> HIDE DEF damaged, more
  <2>3. /\ Len(more) = Len(lines) /\ more[Len(lines)] = damaged
        /\ \A j \in 1..Len(lines) : j # Len(lines) => more[j] = lines[j]
    BY <1>2, <2>2
  <2>4. ASSUME NEW k \in 1..Len(more), Formed(more[k]) PROVE LinkedAt(more, k)
    <3>1. k # Len(lines) /\ k \in 1..Len(lines)
      BY <2>1, <2>3, <2>4
    <3>2. more[k] = lines[k] /\ \A j \in 1..(k - 1) : more[j] = lines[j]
      BY <2>3, <3>1
    <3>3. LinkedAt(lines, k)
      BY <2>4, <3>1, <3>2, LinkedIsLinkedAt
    <3> QED
      BY <1>1, <2>3, <3>1, <3>2, <3>3, SameLink
  <2> QED
    BY <2>4, LinkedIsLinkedAt DEF more
<1>3. CASE ~(lines # <<>> /\ lines[Len(lines)].kind = "torn")
  <2>1. more = Append(lines, line)
    BY <1>3 DEF Glue
  <2> HIDE DEF more
  <2>2. /\ Len(more) = Len(lines) + 1 /\ more[Len(lines) + 1] = line
        /\ \A j \in 1..Len(lines) : more[j] = lines[j]
    BY <2>1
  <2>3. ASSUME NEW k \in 1..Len(lines), Formed(more[k]) PROVE LinkedAt(more, k)
    <3>1. more[k] = lines[k] /\ \A j \in 1..(k - 1) : more[j] = lines[j]
      BY <2>2
    <3>2. LinkedAt(lines, k)
      BY <2>3, <3>1, LinkedIsLinkedAt
    <3> QED
      BY <1>1, <2>2, <3>1, <3>2, SameLink
  <2>4. Formed(line) => LinkedAt(more, Len(lines) + 1)
    <3>1. HashBefore(more, Len(lines) + 1) = HashBefore(lines, Len(lines) + 1)
      BY <1>1, <2>2, SameBefore
    <3> QED
      BY <2>2, <3>1 DEF LinkedAt, TailHash
  <2> QED
    BY <2>2, <2>3, <2>4, LinkedIsLinkedAt DEF more
<1> QED
  BY <1>2, <1>3

\* Lines may be cut off at the end.
LEMMA CutBackLinked ==
    ASSUME NEW lines \in Seq(Stored), NEW size \in Nat
    PROVE  /\ CutBack(lines, size) \in Seq(Stored)
           /\ IntactLinked(lines) => IntactLinked(CutBack(lines, size))
<1>1. CASE size <= Len(lines)
  <2> DEFINE less == SubSeq(lines, 1, size)
  <2>1. /\ less \in Seq(Stored) /\ Len(less) = size
        /\ \A j \in 1..size : less[j] = lines[j]
    BY <1>1
  <2>2. less = CutBack(lines, size)
    BY <1>1 DEF CutBack
  <2> HIDE DEF less
  <2>3. ASSUME IntactLinked(lines), NEW k \in 1..Len(less), Formed(less[k])
        PROVE  LinkedAt(less, k)
    <3>1. k \in 1..Len(lines) /\ less[k] = lines[k] /\ \A j \in 1..(k - 1) : less[j] = lines[j]
      BY <1>1, <2>1
    <3>2. LinkedAt(lines, k)
      BY <2>3, <3>1, LinkedIsLinkedAt
    <3> QED
      BY <2>1, <3>1, <3>2, SameLink
  <2>4. IntactLinked(lines) => IntactLinked(less)
    BY <2>3, LinkedIsLinkedAt
  <2> QED
    BY <2>1, <2>2, <2>4
<1>2. CASE ~(size <= Len(lines))
  <2>1. CutBack(lines, size) = Glue(lines, Damage("torn"))
    BY <1>2 DEF CutBack
  <2>2. Damage("torn") \in Stored /\ ~Formed(Damage("torn"))
    BY DamageTyped
  <2> QED
    BY <2>1, <2>2, GlueTyped, GlueLinked
<1> QED
  BY <1>1, <1>2

LEMMA SurvivorsTyped ==
    ASSUME NEW lines \in Seq(Stored), NEW pair
    PROVE  Survivors(lines, pair) \in Seq(Stored)
<1> DEFINE kept == {k \in 1..Len(lines) : lines[k].pair # pair}
<1>1. kept \in SUBSET (1..Len(lines)) /\ Len(lines) \in Nat
  OBVIOUS
<1>2. Cardinality(kept) \in Nat
  <2>1. IsFiniteSet(1..Len(lines))
    BY FS_Interval
  <2> QED
    BY <1>1, <2>1, FS_Subset, FS_CardinalityType
<1>3. Survivors(lines, pair) = LinesAt(lines, kept)
  BY DEF Survivors
<1> HIDE DEF kept
<1>4. ASSUME NEW j \in 1..Cardinality(kept)
      PROVE  lines[CHOOSE k \in kept : Cardinality({i \in kept : i <= k}) = j] \in Stored
  <2> DEFINE Ranked(k) == Cardinality({i \in kept : i <= k}) = j
  <2>1. \E k \in kept : Ranked(k)
    BY <1>1, RankedPosition
  <2> HIDE DEF Ranked
  <2>2. (CHOOSE k \in kept : Ranked(k)) \in kept
    BY <2>1
  <2>3. \A m \in kept : lines[m] \in Stored
    BY <1>1
  <2>4. lines[CHOOSE k \in kept : Ranked(k)] \in Stored
    BY <2>2, <2>3, Zenon
  <2> QED
    BY <2>4 DEF Ranked
<1> DEFINE At(j) == lines[CHOOSE k \in kept : Cardinality({i \in kept : i <= k}) = j]
<1>5. LinesAt(lines, kept) = [j \in 1..Cardinality(kept) |-> At(j)]
  BY DEF LinesAt
<1>6. \A j \in 1..Cardinality(kept) : At(j) \in Stored
  BY <1>4
<1> HIDE DEF At
<1> QED
  BY <1>2, <1>3, <1>5, <1>6

LEMMA RelinkLinks ==
    ASSUME NEW lines \in Seq(Stored)
    PROVE  Relink(lines) \in Seq(Stored) /\ IntactLinked(Relink(lines))
<1> DEFINE new == Relink(lines)
           Linking(k) == IF Formed(lines[k]) /\ lines[k].prev # HashBefore(lines, k)
                         THEN [lines[k] EXCEPT !.prev = HashBefore(lines, k)] ELSE lines[k]
<1>1. ASSUME NEW k \in 1..Len(lines)
      PROVE  /\ Linking(k) \in Stored
             /\ Linking(k).kind = lines[k].kind /\ Linking(k).id = lines[k].id
             /\ Formed(Linking(k)) => Linking(k).prev = HashBefore(lines, k)
  <2>1. lines[k] \in Stored /\ HashBefore(lines, k) \in Hashes
    BY HashTyped
  <2> QED
    BY <2>1 DEF Stored, Line, Formed, Hashes
<1>2. new = [k \in 1..Len(lines) |-> Linking(k)]
  BY DEF Relink
<1> HIDE DEF new, Linking
<1>3. /\ new \in Seq(Stored) /\ Len(new) = Len(lines)
      /\ \A k \in 1..Len(lines) : new[k] = Linking(k)
  BY <1>1, <1>2
<1>4. ASSUME NEW k \in 1..Len(new), Formed(new[k]) PROVE LinkedAt(new, k)
  <2>1. k \in 1..Len(lines) /\ k <= Len(new) + 1 /\ k \in 1..(Len(lines) + 1)
    BY <1>3
  <2>2. \A j \in 1..(k - 1) : new[j].kind = lines[j].kind /\ new[j].id = lines[j].id
    BY <1>1, <1>3, <2>1
  <2>3. HashBefore(new, k) = HashBefore(lines, k)
    BY <1>3, <2>1, <2>2, SameBefore
  <2> QED
    BY <1>1, <1>3, <1>4, <2>1, <2>3 DEF LinkedAt
<1> QED
  BY <1>3, <1>4, LinkedIsLinkedAt DEF new

LEMMA RewrittenLinked ==
    ASSUME NEW p \in Procs, call[p].lines \in Seq(Stored), call[p].id \in Ids
    PROVE  Rewritten(p) \in Seq(Stored) /\ IntactLinked(Rewritten(p))
<1> DEFINE kept == Relink(Survivors(call[p].lines, call[p].pair))
           tombstone == [id |-> call[p].id, pair |-> NoPair, kind |-> "purge",
                         prev |-> TailHash(kept)]
<1>1. kept \in Seq(Stored) /\ IntactLinked(kept)
  BY SurvivorsTyped, RelinkLinks
<1>2. Rewritten(p) = Glue(kept, tombstone)
  BY DEF Rewritten
<1> HIDE DEF kept
<1>3. TailHash(kept) \in Hashes
  BY <1>1, HashTyped DEF TailHash
<1>4. tombstone \in Stored /\ tombstone.prev = TailHash(kept)
  BY <1>3 DEF Stored, Line, Formed, Hashes
<1> HIDE DEF tombstone
<1> QED
  BY <1>1, <1>2, <1>4, GlueTyped, GlueLinked

-----------------------------------------------------------------------------
(* Types, and the files that have not been created yet.                    *)

Calling == [stage : Stages, pair : Pairs \cup {NoPair},
            kind : {"event", "registration", "purge"}, id : Hashes, next : Hashes,
            file : Inodes \cup {NoFile}, size : Nat, lines : Seq(Stored), heads : Heads]

Anchoring == {"anchor", "anchorwrite", "anchormove"}

Anchors == [file : AnchorFile, temp : AnchorFile]

\* A call beside n files has one of those, or none yet, and is about something.
Fits(c, n) ==
    /\ c \in Calling
    /\ c.file <= n
    /\ c.stage \in {"lock", "snapshot", "tailread"} => c.file # NoFile
    /\ c.stage \in {"open", "lock", "snapshot", "reopen", "rewrite"} \cup Anchoring =>
          c.id \in Ids
    /\ c.stage \in {"snapshot", "reopen", "rewrite", "replace"} => c.pair \in Pairs

CallsFit == call \in [Procs -> Calling] /\ \A p \in Procs : Fits(call[p], inodes)

ShardOf == [there : BOOLEAN, lines : Seq(Stored)]
SealedOf == [there : BOOLEAN, lines : Seq(Stored), heads : Heads]

FilesFit ==
    /\ dir \in BOOLEAN
    /\ inodes \in 0..MaxInodes /\ path \in 0..inodes
    /\ content \in [Inodes -> Seq(Stored)]
    /\ \A i \in Inodes : i > inodes => content[i] = <<>>
    /\ shard \in [there : BOOLEAN, lines : Seq(Stored)]
    /\ anchor \in Anchors
    /\ sealed \in SealedOf

CountsFit ==
    /\ holder \in [Inodes -> Procs \cup {Nobody}]
    /\ cache \in [Procs -> [head : Hashes, size : Nat]]
    /\ LongLived = {} => cache = [p \in Procs |-> NoCache]
    /\ used \in 0..MaxEvents /\ crashes \in 0..MaxCrashes
    /\ acked \subseteq Ids /\ erased \subseteq Ids

TInv == CallsFit /\ FilesFit /\ CountsFit

LEMMA StoredAreLines == Stored \subseteq Line /\ Seq(Stored) \subseteq Seq(Line)
<1>1. Stored \subseteq Line
  BY DEF Stored
<1> QED
  BY <1>1

LEMMA NumbersTyped ==
    /\ MaxEvents \in Nat /\ MaxInodes \in Nat /\ MaxCrashes \in Nat
    /\ Inodes = 1..MaxInodes /\ NoFile = 0 /\ Genesis = 0
BY MutationLogAssumption DEF Inodes, NoFile, Genesis

\* The anchor files are opened, written, moved, packed and closed with heads.
LEMMA HeadsTyped ==
    /\ NoHeads \in Heads /\ NoAnchor \in AnchorFile
    /\ anchor \in Anchors => HeadsNow \in Heads
BY DEF NoHeads, Heads, NoAnchor, AnchorFile, Anchors, HeadsNow

LEMMA AnchorFilesTyped ==
    ASSUME NEW p \in Procs, NEW f \in AnchorFile
    PROVE  /\ Closed(p, f) \in AnchorFile
           /\ call[p].id \in Ids => WriteHead(p, f) \in AnchorFile
           /\ \A h \in Ids \cup {Genesis, Cut} : Restored(f, h) \in AnchorFile
<1>1. f.holds \in Ids \cup {Genesis, Cut} /\ f.open \in SUBSET Procs
  BY DEF AnchorFile
<1>2. f.open \ {p} \in SUBSET Procs
  BY <1>1
<1> QED
  BY <1>1, <1>2 DEF Closed, WriteHead, Restored, AnchorFile

LEMMA AnchorsClosed ==
    ASSUME NEW p \in Procs, anchor \in Anchors,
           anchor' = [file |-> Closed(p, anchor.file), temp |-> Closed(p, anchor.temp)]
    PROVE  anchor' \in Anchors
BY AnchorFilesTyped DEF Anchors

LEMMA IdleFits == \A n \in Nat : Fits(Idle, n) /\ Idle.stage = "out"
BY HeadsTyped DEF Fits, Idle, Calling, Stages, Hashes, NoFile, Anchoring

LEMMA UnsealedTyped == Unsealed \in SealedOf /\ Unsealed.lines = <<>>
BY HeadsTyped, EmptyLinked DEF Unsealed, SealedOf

LEMMA CallStep ==
    ASSUME TInv, NEW p \in Procs, NEW c, call' = [call EXCEPT ![p] = c],
           inodes' \in Nat, inodes' >= inodes, Fits(c, inodes')
    PROVE  CallsFit' /\ call'[p] = c /\ \A q \in Procs : q # p => call'[q] = call[q]
<1>1. call \in [Procs -> Calling] /\ inodes \in Nat /\ c \in Calling
  BY NumbersTyped DEF TInv, CallsFit, FilesFit, Fits
<1>2. /\ call' \in [Procs -> Calling] /\ call'[p] = c
      /\ \A q \in Procs : q # p => call'[q] = call[q]
  BY <1>1
<1>3. \A q \in Procs : call[q].file \in Nat /\ call[q].file <= inodes
  BY <1>1, NumbersTyped DEF TInv, CallsFit, Fits, Calling
<1>4. \A q \in Procs : Fits(call[q], inodes')
  BY <1>1, <1>3 DEF TInv, CallsFit, Fits
<1>5. \A q \in Procs : Fits(call'[q], inodes')
  BY <1>2, <1>4
<1> QED
  BY <1>2, <1>5 DEF CallsFit

\* A call goes on, or ends, without touching files.
LEMMA FilesStay ==
    ASSUME TInv, NEW p \in Procs, NEW c, call' = [call EXCEPT ![p] = c], Fits(c, inodes),
           UNCHANGED <<files, cache, used, acked, erased, crashes>>
    PROVE  TInv'
<1>1. inodes' = inodes /\ inodes \in Nat
  BY NumbersTyped DEF TInv, FilesFit, files
<1>3. inodes' \in Nat /\ inodes' >= inodes /\ Fits(c, inodes')
  BY <1>1
<1>2. CallsFit'
  BY <1>3, CallStep
<1> QED
  BY <1>2 DEF TInv, FilesFit, CountsFit, files

LEMMA EndFits ==
    ASSUME TInv, NEW p \in Procs, Finish(p),
           UNCHANGED <<files, cache, used, acked, erased, crashes>>
    PROVE  TInv'
<1>1. Fits(Idle, inodes)
  BY IdleFits, NumbersTyped DEF TInv, FilesFit
<1>2. call' = [call EXCEPT ![p] = Idle]
  BY DEF Finish
<1> QED
  BY <1>1, <1>2, FilesStay

LEMMA GiveUpFits == \A p \in Procs : TInv /\ GiveUp(p) => TInv'
BY EndFits DEF GiveUp

LEMMA InitFits == Init => TInv
<1> SUFFICES ASSUME Init PROVE TInv
  OBVIOUS
<1>1. CallsFit
  BY IdleFits, NumbersTyped DEF Init, CallsFit, Fits
<1>2. FilesFit
  <2>1. anchor \in Anchors /\ sealed \in SealedOf
    BY HeadsTyped, UnsealedTyped DEF Init, Anchors
  <2>2. shard \in [there : BOOLEAN, lines : Seq(Stored)]
    BY DEF Init, NoShard
  <2> QED
    BY <2>1, <2>2, NumbersTyped DEF Init, FilesFit
<1>3. CountsFit
  BY NumbersTyped DEF Init, CountsFit, NoCache, Hashes
<1> QED
  BY <1>1, <1>2, <1>3 DEF TInv

-----------------------------------------------------------------------------
(* The steps of an append.                                                 *)

LEMMA AppendEventFits ==
    \A p \in Procs, pair \in Pairs : TInv /\ AppendEvent(p, pair) => TInv'
<1> SUFFICES ASSUME NEW p \in Procs, NEW pair \in Pairs, TInv, AppendEvent(p, pair)
             PROVE  TInv'
  OBVIOUS
<1>1. used \in Nat /\ inodes \in Nat /\ inodes' = inodes
  BY NumbersTyped DEF TInv, FilesFit, CountsFit, AppendEvent, files
<1>2. used' \in 0..MaxEvents /\ \E c : call' = [call EXCEPT ![p] = c] /\ Fits(c, inodes)
  <2>1. CASE Pinning /\ Log = <<>>
    <3> DEFINE c == [Idle EXCEPT !.stage = "open", !.pair = pair, !.kind = "registration",
                                 !.id = used + 1, !.next = used + 2]
    <3>1. used + 1 \in Ids /\ used + 2 \in Ids /\ used' \in 0..MaxEvents
      BY <1>1, <2>1, NumbersTyped DEF AppendEvent, Ids
    <3>2. Fits(c, inodes)
      <4>1. Idle \in Calling /\ Idle.file <= inodes
        BY <1>1, IdleFits DEF Fits
      <4>2. c \in Calling /\ c.file = Idle.file /\ c.id = used + 1 /\ c.stage = "open"
        BY <3>1, <4>1 DEF Calling, Stages, Hashes
      <4> HIDE DEF c
      <4> QED
        BY <3>1, <4>1, <4>2 DEF Fits
    <3>3. call' = [call EXCEPT ![p] = c]
      BY <2>1 DEF AppendEvent
    <3> HIDE DEF c
    <3> QED
      BY <3>1, <3>2, <3>3
  <2>2. CASE ~(Pinning /\ Log = <<>>)
    <3> DEFINE c == [Idle EXCEPT !.stage = "open", !.pair = pair, !.id = used + 1]
    <3>1. used + 1 \in Ids /\ used' \in 0..MaxEvents
      BY <1>1, <2>2, NumbersTyped DEF AppendEvent, Ids
    <3>2. Fits(c, inodes)
      <4>1. Idle \in Calling /\ Idle.file <= inodes
        BY <1>1, IdleFits DEF Fits
      <4>2. c \in Calling /\ c.file = Idle.file /\ c.id = used + 1 /\ c.stage = "open"
        BY <3>1, <4>1 DEF Calling, Stages, Hashes
      <4> HIDE DEF c
      <4> QED
        BY <3>1, <4>1, <4>2 DEF Fits
    <3>3. call' = [call EXCEPT ![p] = c]
      BY <2>2 DEF AppendEvent
    <3> HIDE DEF c
    <3> QED
      BY <3>1, <3>2, <3>3
  <2> QED
    BY <2>1, <2>2
<1>3. CallsFit'
  <2>1. PICK c : call' = [call EXCEPT ![p] = c] /\ Fits(c, inodes)
    BY <1>2
  <2>2. inodes' \in Nat /\ inodes' >= inodes /\ Fits(c, inodes')
    BY <1>1, <2>1
  <2> QED
    BY <2>1, <2>2, CallStep
<1>4. FilesFit' /\ CountsFit'
  BY <1>2 DEF TInv, FilesFit, CountsFit, AppendEvent, files
<1> QED
  BY <1>3, <1>4 DEF TInv

\* Opening events.jsonl: the log does not change, not even when it is created.
LEMMA OpenFits ==
    ASSUME TInv, NEW p \in Procs, NEW stage \in {"lock", "rewrite", "seallock"},
           Open(p, stage), UNCHANGED <<dir, content, shard, anchor, holder, sealed, cache,
                                       used, acked, erased, crashes>>,
           stage \in {"lock", "rewrite"} => call[p].id \in Ids,
           stage = "rewrite" => call[p].pair \in Pairs
    PROVE  /\ TInv' /\ Log' = Log
           /\ call'[p].stage = stage /\ call'[p].lines = call[p].lines
           /\ \A q \in Procs : q # p => call'[q] = call[q]
<1>1. /\ inodes \in Nat /\ path \in 0..inodes /\ inodes <= MaxInodes
      /\ content \in [Inodes -> Seq(Stored)]
      /\ \A i \in Inodes : i > inodes => content[i] = <<>>
      /\ call[p] \in Calling /\ call \in [Procs -> Calling]
  BY NumbersTyped DEF TInv, FilesFit, CallsFit
<1>2. /\ inodes' \in Nat /\ inodes' >= inodes /\ inodes' <= MaxInodes
      /\ path' \in 1..inodes' /\ path' \in Inodes
  BY <1>1, NumbersTyped DEF Open
<1>3. content[path'] \in Seq(Stored)
  BY <1>1, <1>2
<1> DEFINE c == [call[p] EXCEPT !.stage = stage, !.file = path', !.size = Len(content[path'])]
<1>4. call' = [call EXCEPT ![p] = c]
  BY <1>1 DEF Open
<1>5. c \in Calling /\ c.stage = stage /\ c.lines = call[p].lines /\ c.file = path'
      /\ c.id = call[p].id /\ c.pair = call[p].pair
  <2>1. Len(content[path']) \in Nat /\ stage \in Stages
    BY <1>3 DEF Stages
  <2> QED
    BY <1>1, <1>2, <2>1 DEF Calling
<1> HIDE DEF c
<1>6. Fits(c, inodes')
  BY <1>1, <1>2, <1>5, NumbersTyped DEF Fits, Anchoring
<1>7. CallsFit' /\ call'[p] = c /\ \A q \in Procs : q # p => call'[q] = call[q]
  BY <1>2, <1>4, <1>6, CallStep
<1>8. FilesFit'
  BY <1>1, <1>2, NumbersTyped DEF TInv, FilesFit
<1>9. Log' = Log
  <2>1. CASE path = NoFile
    <3>1. path' = inodes + 1 /\ content'[path'] = <<>>
      BY <1>1, <1>2, <2>1 DEF Open
    <3> QED
      BY <1>2, <2>1, <3>1, NumbersTyped DEF Log
  <2>2. CASE path # NoFile
    BY <2>2 DEF Open, Log
  <2> QED
    BY <2>1, <2>2
<1>10. CountsFit'
  BY DEF TInv, CountsFit
<1> QED
  BY <1>5, <1>7, <1>8, <1>9, <1>10 DEF TInv

LEMMA OpenToAppendFits ==
    \A p \in Procs : TInv /\ OpenToAppend(p) => TInv' /\ Log' = Log
<1> SUFFICES ASSUME NEW p \in Procs, TInv, OpenToAppend(p) PROVE TInv' /\ Log' = Log
  OBVIOUS
<1>1. call[p].id \in Ids
  BY DEF OpenToAppend, TInv, CallsFit, Fits
<1>2. Open(p, "lock") /\ UNCHANGED <<dir, content, shard, anchor, holder, sealed, cache,
                                     used, acked, erased, crashes>>
  BY DEF OpenToAppend
<1> QED
  BY <1>1, <1>2, OpenFits

\* A new stage of the same call.
LEMMA StageFits ==
    ASSUME NEW c, NEW n \in Nat, Fits(c, n),
           NEW stage \in Stages \ {"open", "lock", "snapshot", "tailread"},
           stage \in {"reopen", "rewrite"} \cup Anchoring => c.id \in Ids,
           stage \in {"reopen", "rewrite", "replace"} => c.pair \in Pairs
    PROVE  Fits([c EXCEPT !.stage = stage], n)
BY DEF Fits, Calling, Stages, Anchoring

LEMMA WrittenTyped ==
    ASSUME TInv, NEW p \in Procs, call[p].stage = "lock"
    PROVE  /\ Written(p) \in Stored /\ Formed(Written(p))
           /\ LongLived = {} => Written(p).prev = TailHash(Log)
<1>1. call[p] \in Calling /\ call[p].id \in Ids /\ cache[p] \in [head : Hashes, size : Nat]
  BY DEF TInv, CallsFit, Fits, CountsFit
<1>2. Log \in Seq(Stored)
  BY NumbersTyped DEF TInv, FilesFit, Log
<1>3. TailHash(Log) \in Hashes
  BY <1>2, HashTyped DEF TailHash
<1>4. PrevHash(p) \in Hashes
  BY <1>1, <1>3 DEF PrevHash
<1>5. LongLived = {} => PrevHash(p) = TailHash(Log)
  BY DEF PrevHash, TInv, CountsFit, NoCache
<1> QED
  BY <1>1, <1>4, <1>5 DEF Written, Stored, Line, Formed, Hashes, Calling

\* One inode is written; those not created yet stay empty.
LEMMA InodeWritten ==
    ASSUME FilesFit, NEW i \in Inodes \cup {NoFile}, NEW new, i \in Inodes => new \in Seq(Stored),
           inodes' \in Nat, inodes' >= inodes, i <= inodes',
           content' = [content EXCEPT ![i] = new]
    PROVE  /\ content' \in [Inodes -> Seq(Stored)]
           /\ \A j \in Inodes : j > inodes' => content'[j] = <<>>
           /\ \A j \in Inodes : content'[j] = IF j = i THEN new ELSE content[j]
<1>1. inodes \in Nat /\ content \in [Inodes -> Seq(Stored)] /\ Inodes \subseteq Nat
      /\ \A j \in Inodes : j > inodes => content[j] = <<>>
  BY NumbersTyped DEF FilesFit
<1>2. \A j \in Inodes : content'[j] = IF j = i THEN new ELSE content[j]
  BY <1>1
<1>3. \A j \in Inodes : content'[j] \in Seq(Stored)
  BY <1>1, <1>2
<1>4. content' = [j \in Inodes |-> content'[j]]
  BY <1>1
<1>5. content' \in [Inodes -> Seq(Stored)]
  BY <1>3, <1>4
<1>6. \A j \in Inodes : j > inodes' => j > inodes /\ j # i
  BY <1>1
<1> QED
  BY <1>1, <1>2, <1>5, <1>6

LEMMA LogFits == TInv => Log \in Seq(Stored) /\ (path \in Inodes \/ Log = <<>>)
BY NumbersTyped, EmptyLinked DEF TInv, FilesFit, Log

\* What the named file holds after a write to some inode.
LEMMA LogWritten ==
    ASSUME TInv, NEW i \in Inodes \cup {NoFile}, NEW new, path' = path,
           content' = [content EXCEPT ![i] = new]
    PROVE  Log' = IF i = path /\ path # NoFile THEN new ELSE Log
<1>1. content \in [Inodes -> Seq(Stored)] /\ path \in Inodes \cup {NoFile}
  BY NumbersTyped DEF TInv, FilesFit
<1> QED
  BY <1>1 DEF Log

\* The file a call has opened.
LEMMA FileOpened ==
    ASSUME TInv, NEW p \in Procs
    PROVE  /\ call[p] \in Calling /\ call[p].file \in Inodes \cup {NoFile}
           /\ call[p].file <= inodes /\ inodes \in Nat
           /\ call[p].file \in Inodes => content[call[p].file] \in Seq(Stored)
           /\ path = call[p].file /\ path # NoFile => Log = content[call[p].file]
BY NumbersTyped DEF TInv, CallsFit, Fits, Calling, FilesFit, Log

LEMMA WriteEventFits == \A p \in Procs : TInv /\ WriteEvent(p) => TInv'
<1> SUFFICES ASSUME NEW p \in Procs, TInv, WriteEvent(p) PROVE TInv'
  OBVIOUS
<1> DEFINE file == call[p].file
           lines == Glue(content[file], Written(p))
           c == [call[p] EXCEPT !.stage = "anchor"]
<1>1. /\ call[p].stage = "lock" /\ call' = [call EXCEPT ![p] = c]
      /\ content' = [content EXCEPT ![file] = lines]
      /\ UNCHANGED <<dir, path, inodes, shard, anchor, holder, sealed, used, acked, erased,
                     crashes>>
      /\ cache' = IF p \in LongLived
                  THEN [cache EXCEPT ![p] = [head |-> call[p].id, size |-> Len(content'[file])]]
                  ELSE cache
  BY DEF WriteEvent, WriteLine, TInv, CallsFit
<1>2. /\ file \in Inodes \cup {NoFile} /\ file <= inodes /\ inodes \in Nat
      /\ file \in Inodes => lines \in Seq(Stored)
  BY <1>1, FileOpened, WrittenTyped, GlueTyped
<1>3. Fits(c, inodes) /\ call[p].id \in Ids
  BY <1>1, <1>2, StageFits DEF TInv, CallsFit, Fits, Stages
<1> HIDE DEF lines, c, file
<1>4. FilesFit'
  <2>1. FilesFit /\ inodes' \in Nat /\ inodes' >= inodes /\ file <= inodes'
    BY <1>1, <1>2 DEF TInv
  <2>2. /\ content' \in [Inodes -> Seq(Stored)]
        /\ \A j \in Inodes : j > inodes' => content'[j] = <<>>
    BY <1>1, <1>2, <2>1, InodeWritten
  <2> QED
    BY <1>1, <2>1, <2>2 DEF FilesFit
<1>5. CallsFit'
  <2>1. inodes' \in Nat /\ inodes' >= inodes /\ Fits(c, inodes')
    BY <1>1, <1>2, <1>3
  <2> QED
    BY <1>1, <2>1, CallStep
<1>6. CountsFit'
  <2>1. p \in LongLived => Len(content'[file]) \in Nat
    <3>1. file # NoFile
      BY <1>1 DEF TInv, CallsFit, Fits, file
    <3> QED
      BY <3>1, <1>4, <1>2 DEF FilesFit
  <2> QED
    BY <1>1, <1>3, <2>1 DEF TInv, CountsFit, Hashes
<1> QED
  BY <1>4, <1>5, <1>6 DEF TInv

\* A call ends after writing, or a death in the middle of it.
LEMMA EndWritesFits ==
    ASSUME TInv, NEW p \in Procs, Finish(p), NEW i \in Inodes \cup {NoFile}, i <= inodes,
           NEW new, i \in Inodes => new \in Seq(Stored),
           content' = [content EXCEPT ![i] = new],
           anchor' \in Anchors, UNCHANGED <<dir, path, inodes, shard, sealed>>, CountsFit'
    PROVE  TInv'
<1>1. inodes' \in Nat /\ inodes' >= inodes /\ i <= inodes' /\ FilesFit
  BY NumbersTyped DEF TInv, FilesFit
<1>2. /\ content' \in [Inodes -> Seq(Stored)]
      /\ \A j \in Inodes : j > inodes' => content'[j] = <<>>
  BY <1>1, InodeWritten
<1>3. FilesFit'
  BY <1>1, <1>2 DEF FilesFit
<1>4. Fits(Idle, inodes') /\ call' = [call EXCEPT ![p] = Idle]
  BY <1>1, IdleFits DEF Finish
<1>5. CallsFit'
  BY <1>1, <1>4, CallStep
<1> QED
  BY <1>3, <1>5 DEF TInv

LEMMA WriteHitsFullDiskFits == \A p \in Procs : TInv /\ WriteHitsFullDisk(p) => TInv'
<1> SUFFICES ASSUME NEW p \in Procs, TInv, WriteHitsFullDisk(p) PROVE TInv'
  OBVIOUS
<1> DEFINE file == call[p].file
           lines == CutBack(content[file], call[p].size)
<1>1. /\ file \in Inodes \cup {NoFile} /\ file <= inodes /\ call[p].size \in Nat
      /\ file \in Inodes => content[file] \in Seq(Stored)
  BY FileOpened DEF Calling
<1>2. file \in Inodes => lines \in Seq(Stored)
  BY <1>1, CutBackLinked
<1>3. CountsFit'
  BY DEF TInv, CountsFit, WriteHitsFullDisk
<1>4. /\ content' = [content EXCEPT ![file] = lines] /\ Finish(p) /\ anchor' \in Anchors
      /\ UNCHANGED <<dir, path, inodes, shard, sealed>>
  BY DEF WriteHitsFullDisk, TInv, FilesFit
<1> HIDE DEF file, lines
<1> QED
  BY <1>1, <1>2, <1>3, <1>4, EndWritesFits

LEMMA DiesFits == \A p \in Procs : TInv /\ Dies(p) => CountsFit'
<1> SUFFICES ASSUME NEW p \in Procs, TInv, Dies(p) PROVE CountsFit'
  OBVIOUS
<1>1. crashes' \in 0..MaxCrashes
  BY NumbersTyped DEF TInv, CountsFit, Dies
<1>2. holder' \in [Inodes -> Procs \cup {Nobody}]
  BY DEF TInv, CountsFit, Dies
<1>3. /\ cache' = [cache EXCEPT ![p] = NoCache]
      /\ NoCache \in [head : Hashes, size : Nat]
  BY DEF Dies, NoCache, Hashes
<1>4. /\ cache' \in [Procs -> [head : Hashes, size : Nat]]
      /\ LongLived = {} => cache' = [q \in Procs |-> NoCache]
  BY <1>3 DEF TInv, CountsFit
<1> QED
  BY <1>1, <1>2, <1>4 DEF TInv, CountsFit, Dies

LEMMA CrashFits == \A p \in Procs : TInv /\ Crash(p) => TInv'
<1> SUFFICES ASSUME NEW p \in Procs, TInv, Crash(p) PROVE TInv'
  OBVIOUS
<1>5. CountsFit'
  BY DiesFits DEF Crash
<1>1. inodes' = inodes /\ inodes \in Nat
  BY NumbersTyped DEF Crash, Dies, TInv, FilesFit
<1>2. Fits(Idle, inodes') /\ call' = [call EXCEPT ![p] = Idle]
      /\ inodes' \in Nat /\ inodes' >= inodes
  BY <1>1, IdleFits DEF Crash, Dies, Finish
<1>3. CallsFit'
  BY <1>2, CallStep
<1>4. FilesFit'
  BY AnchorsClosed DEF TInv, FilesFit, Crash, Dies
<1> QED
  BY <1>3, <1>4, <1>5 DEF TInv

LEMMA DieMidWriteFits == \A p \in Procs : TInv /\ DieMidWrite(p) => TInv'
<1> SUFFICES ASSUME NEW p \in Procs, TInv, DieMidWrite(p) PROVE TInv'
  OBVIOUS
<1> DEFINE file == call[p].file
           lines == Glue(content[file], Damage("torn"))
<1>1. /\ file \in Inodes \cup {NoFile} /\ file <= inodes
      /\ file \in Inodes => content[file] \in Seq(Stored)
  BY FileOpened
<1>2. file \in Inodes => lines \in Seq(Stored)
  BY <1>1, GlueTyped, DamageTyped
<1>3. CountsFit'
  BY DiesFits DEF DieMidWrite
<1>4. /\ content' = [content EXCEPT ![file] = lines] /\ Finish(p) /\ anchor' \in Anchors
      /\ UNCHANGED <<dir, path, inodes, shard, sealed>>
  BY AnchorsClosed DEF DieMidWrite, Dies, TInv, FilesFit
<1> HIDE DEF file, lines
<1> QED
  BY <1>1, <1>2, <1>3, <1>4, EndWritesFits

LEMMA ReturnFits ==
    ASSUME NEW p \in Procs, TInv, call[p].stage \in Anchoring, Return(p), anchor' \in Anchors
    PROVE  TInv'
<1>1. call[p] \in Calling /\ call[p].id \in Ids /\ inodes \in Nat /\ inodes' = inodes
  BY NumbersTyped DEF Return, TInv, CallsFit, Fits, FilesFit
<1>2. \E c : call' = [call EXCEPT ![p] = c] /\ Fits(c, inodes)
  <2>1. CASE call[p].next = Genesis
    BY <1>1, <2>1, IdleFits DEF Return, Finish
  <2>2. CASE call[p].next # Genesis
    <3> DEFINE c == [Idle EXCEPT !.stage = "open", !.pair = call[p].pair,
                                 !.id = call[p].next]
    <3>1. call[p].next \in Ids /\ call[p].pair \in Pairs \cup {NoPair}
      BY <1>1, <2>2 DEF Calling, Hashes
    <3>2. Idle \in Calling /\ Idle.file <= inodes
      BY <1>1, IdleFits DEF Fits
    <3>3. c \in Calling /\ c.file = Idle.file /\ c.id = call[p].next /\ c.stage = "open"
      BY <3>1, <3>2 DEF Calling, Stages, Hashes
    <3>4. call' = [call EXCEPT ![p] = c]
      BY <2>2 DEF Return
    <3> HIDE DEF c
    <3>5. Fits(c, inodes)
      BY <3>1, <3>2, <3>3 DEF Fits
    <3> QED
      BY <3>4, <3>5
  <2> QED
    BY <2>1, <2>2
<1>3. CallsFit'
  <2>1. PICK c : call' = [call EXCEPT ![p] = c] /\ Fits(c, inodes)
    BY <1>2
  <2>2. inodes' \in Nat /\ inodes' >= inodes /\ Fits(c, inodes')
    BY <1>1, <2>1
  <2> QED
    BY <2>1, <2>2, CallStep
<1>4. FilesFit'
  BY <1>1 DEF TInv, FilesFit, Return
<1>5. CountsFit'
  BY <1>1 DEF TInv, CountsFit, Return
<1> QED
  BY <1>3, <1>4, <1>5 DEF TInv

\* Opening the temporary anchor, and writing it.
LEMMA AnchoringFits ==
    \A p \in Procs : TInv /\ (OpenAnchor(p) \/ WriteAnchor(p)) => TInv'
<1> SUFFICES ASSUME NEW p \in Procs, TInv, OpenAnchor(p) \/ WriteAnchor(p) PROVE TInv'
  OBVIOUS
<1>1. /\ Fits(call[p], inodes) /\ call[p].id \in Ids /\ anchor \in Anchors
      /\ inodes \in Nat /\ inodes' = inodes
  BY NumbersTyped DEF OpenAnchor, WriteAnchor, TInv, CallsFit, Fits, FilesFit, Anchoring
<1>2. PICK stage \in {"anchorwrite", "anchormove"} :
          call' = [call EXCEPT ![p] = [call[p] EXCEPT !.stage = stage]]
  BY DEF OpenAnchor, WriteAnchor, TInv, CallsFit
<1>3. Fits([call[p] EXCEPT !.stage = stage], inodes)
  BY <1>1, StageFits DEF Stages, Anchoring
<1>4. anchor' \in Anchors
  <2>1. anchor.file \in AnchorFile /\ anchor.temp \in AnchorFile
    BY <1>1 DEF Anchors
  <2>2. CASE OpenAnchor(p)
    <3>1. [holds |-> Cut, open |-> anchor.temp.open \cup {p}] \in AnchorFile
      BY <2>1 DEF AnchorFile
    <3> QED
      BY <2>1, <2>2, <3>1 DEF OpenAnchor, Anchors
  <2>3. CASE WriteAnchor(p)
    BY <1>1, <2>1, <2>3, AnchorFilesTyped DEF WriteAnchor, Anchors
  <2> QED
    BY <2>2, <2>3
<1>5. CallsFit'
  <2> DEFINE c == [call[p] EXCEPT !.stage = stage]
  <2>1. inodes' \in Nat /\ inodes' >= inodes /\ Fits(c, inodes')
        /\ call' = [call EXCEPT ![p] = c]
    BY <1>1, <1>2, <1>3
  <2> HIDE DEF c
  <2> QED
    BY <2>1, CallStep
<1>6. FilesFit' /\ CountsFit'
  BY <1>4 DEF TInv, FilesFit, CountsFit, OpenAnchor, WriteAnchor
<1> QED
  BY <1>5, <1>6 DEF TInv

LEMMA MoveAnchorFits == \A p \in Procs : TInv /\ MoveAnchor(p) => TInv'
<1> SUFFICES ASSUME NEW p \in Procs, TInv, MoveAnchor(p) PROVE TInv'
  OBVIOUS
<1>1. anchor' \in Anchors
  BY HeadsTyped DEF MoveAnchor, TInv, FilesFit, Anchors
<1> QED
  BY <1>1, ReturnFits DEF MoveAnchor, Anchoring

LEMMA AnchorFailsFits == \A p \in Procs : TInv /\ AnchorFails(p) => TInv'
<1> SUFFICES ASSUME NEW p \in Procs, TInv, AnchorFails(p) PROVE TInv'
  OBVIOUS
<1>1. anchor' \in Anchors
  BY AnchorsClosed DEF AnchorFails, TInv, FilesFit
<1> QED
  BY <1>1, ReturnFits DEF AnchorFails, Anchoring

-----------------------------------------------------------------------------
(* The steps of a purge.                                                   *)

LEMMA PurgeFits == \A p \in Procs, pair \in Pairs : TInv /\ Purge(p, pair) => TInv'
<1> SUFFICES ASSUME NEW p \in Procs, NEW pair \in Pairs, TInv, Purge(p, pair) PROVE TInv'
  OBVIOUS
<1>1. /\ used \in Nat /\ inodes \in Nat /\ inodes' = inodes /\ used' \in 0..MaxEvents
      /\ used' \in Ids /\ path \in Inodes /\ path <= inodes
  BY NumbersTyped DEF TInv, FilesFit, CountsFit, Purge, files, Ids
<1> DEFINE c == [Idle EXCEPT !.stage = "snapshot", !.pair = pair, !.kind = "purge",
                             !.id = used', !.file = path]
<1>2. call' = [call EXCEPT ![p] = c]
  BY DEF Purge
<1>3. c \in Calling /\ c.file = path /\ c.id = used' /\ c.pair = pair /\ c.stage = "snapshot"
  <2>1. Idle \in Calling
    BY <1>1, IdleFits DEF Fits
  <2> QED
    BY <1>1, <2>1 DEF Calling, Stages, Hashes
<1> HIDE DEF c
<1>4. inodes' \in Nat /\ inodes' >= inodes /\ Fits(c, inodes')
  BY <1>1, <1>3, NumbersTyped DEF Fits
<1>5. CallsFit'
  BY <1>2, <1>4, CallStep
<1>6. FilesFit' /\ CountsFit'
  BY <1>1 DEF TInv, FilesFit, CountsFit, Purge, files
<1> QED
  BY <1>5, <1>6 DEF TInv

LEMMA ReadSnapshotFits == \A p \in Procs : TInv /\ ReadSnapshot(p) => TInv'
<1> SUFFICES ASSUME NEW p \in Procs, TInv, ReadSnapshot(p) PROVE TInv'
  OBVIOUS
<1> DEFINE lines == content[call[p].file]
           c == [call[p] EXCEPT !.stage = "reopen", !.lines = lines, !.file = NoFile]
<1>1. UNCHANGED <<files, cache, used, acked, erased, crashes>>
  BY DEF ReadSnapshot
<1>2. CASE Finish(p)
  BY <1>1, <1>2, EndFits
<1>3. CASE ~Finish(p)
  <2>1. call' = [call EXCEPT ![p] = c] /\ \E k \in 1..Len(lines) : lines[k].pair = call[p].pair
    BY <1>3 DEF ReadSnapshot, TInv, CallsFit
  <2>2. Fits(call[p], inodes) /\ call[p].stage = "snapshot" /\ inodes \in Nat
    BY NumbersTyped DEF ReadSnapshot, TInv, CallsFit, FilesFit
  <2>3. call[p].file # NoFile
    BY DEF ReadSnapshot, TInv, CallsFit, Fits
  <2>4. lines \in Seq(Stored)
    BY <2>3, FileOpened
  <2>5. Fits(c, inodes)
    <3> HIDE DEF lines
    <3>1. /\ c \in Calling /\ c.file = NoFile /\ c.stage = "reopen"
          /\ c.id = call[p].id /\ c.pair = call[p].pair
      BY <2>2, <2>4 DEF Fits, Calling, Stages
    <3>2. call[p].id \in Ids /\ call[p].pair \in Pairs
      BY <2>2 DEF Fits
    <3> HIDE DEF c
    <3> QED
      BY <2>2, <3>1, <3>2, NumbersTyped DEF Fits
  <2> QED
    BY <1>1, <2>1, <2>5, FilesStay
<1> QED
  BY <1>2, <1>3

LEMMA OpenToRewriteFits ==
    \A p \in Procs : TInv /\ OpenToRewrite(p) => TInv' /\ Log' = Log
<1> SUFFICES ASSUME NEW p \in Procs, TInv, OpenToRewrite(p) PROVE TInv' /\ Log' = Log
  OBVIOUS
<1>1. call[p].id \in Ids /\ call[p].pair \in Pairs
  BY DEF OpenToRewrite, TInv, CallsFit, Fits
<1>2. Open(p, "rewrite") /\ UNCHANGED <<dir, content, shard, anchor, holder, sealed, cache,
                                        used, acked, erased, crashes>>
  BY DEF OpenToRewrite
<1> QED
  BY <1>1, <1>2, OpenFits

LEMMA WriteShardFits == \A p \in Procs : TInv /\ WriteShard(p) => TInv'
<1> SUFFICES ASSUME NEW p \in Procs, TInv, WriteShard(p) PROVE TInv'
  OBVIOUS
<1> DEFINE c == [call[p] EXCEPT !.stage = "replace"]
<1>1. /\ Fits(call[p], inodes) /\ call[p] \in Calling /\ call[p].stage = "rewrite"
      /\ inodes \in Nat /\ inodes' = inodes
  BY NumbersTyped DEF WriteShard, TInv, CallsFit, FilesFit, Fits
<1>2. call[p].id \in Ids /\ call[p].lines \in Seq(Stored) /\ call[p].pair \in Pairs
  BY <1>1 DEF Fits, Calling
<1>3. call' = [call EXCEPT ![p] = c]
  BY DEF WriteShard
<1>4. Fits(c, inodes)
  BY <1>1, <1>2, StageFits DEF Stages
<1> HIDE DEF c
<1>5. inodes' \in Nat /\ inodes' >= inodes /\ Fits(c, inodes')
  BY <1>1, <1>4
<1>6. CallsFit'
  BY <1>3, <1>5, CallStep
<1>7. shard' \in ShardOf
  BY <1>2, RewrittenLinked DEF WriteShard, ShardOf
<1>8. FilesFit' /\ CountsFit'
  BY <1>7 DEF TInv, FilesFit, CountsFit, WriteShard, ShardOf
<1> QED
  BY <1>6, <1>8 DEF TInv

LEMMA NoShardTyped == NoShard \in ShardOf /\ IntactLinked(NoShard.lines)
BY EmptyLinked DEF NoShard, ShardOf

LEMMA ShardHitsFullDiskFits == \A p \in Procs : TInv /\ ShardHitsFullDisk(p) => TInv'
<1> SUFFICES ASSUME NEW p \in Procs, TInv, ShardHitsFullDisk(p) PROVE TInv'
  OBVIOUS
<1>1. inodes \in Nat /\ inodes' = inodes
  BY NumbersTyped DEF ShardHitsFullDisk, TInv, FilesFit
<1>2. Fits(Idle, inodes') /\ call' = [call EXCEPT ![p] = Idle]
      /\ inodes' \in Nat /\ inodes' >= inodes
  BY <1>1, IdleFits DEF ShardHitsFullDisk, Finish
<1>3. CallsFit'
  BY <1>2, CallStep
<1>4. FilesFit' /\ CountsFit'
  BY NoShardTyped DEF TInv, FilesFit, CountsFit, ShardHitsFullDisk, ShardOf
<1> QED
  BY <1>3, <1>4 DEF TInv

LEMMA MatchingTyped ==
    ASSUME NEW p \in Procs, call[p].lines \in Seq(Stored), call[p].pair \in Pairs
    PROVE  {line.id : line \in Matching(p)} \subseteq Ids
<1> SUFFICES ASSUME NEW line \in Matching(p) PROVE line.id \in Ids
  OBVIOUS
<1>1. line.pair = call[p].pair /\ \E k \in 1..Len(call[p].lines) : line = call[p].lines[k]
  BY DEF Matching
<1>2. line \in Stored
  BY <1>1
<1>3. line.pair # NoPair
  BY <1>1, MutationLogAssumption
<1> QED
  BY <1>2, <1>3 DEF Stored

LEMMA ReplaceLogFits == \A p \in Procs : TInv /\ ReplaceLog(p) => TInv'
<1> SUFFICES ASSUME NEW p \in Procs, TInv, ReplaceLog(p) PROVE TInv'
  OBVIOUS
<1>1. /\ Fits(call[p], inodes) /\ call[p].pair \in Pairs /\ call[p].lines \in Seq(Stored)
      /\ inodes \in Nat /\ path \in 0..inodes /\ shard.lines \in Seq(Stored)
      /\ content \in [Inodes -> Seq(Stored)]
      /\ \A i \in Inodes : i > inodes => content[i] = <<>>
      /\ inodes <= MaxInodes
  BY NumbersTyped DEF ReplaceLog, TInv, CallsFit, FilesFit, Fits, Calling
<1>2. CountsFit'
  <2>1. holder' \in [Inodes -> Procs \cup {Nobody}]
    BY DEF ReplaceLog, TInv, CountsFit
  <2>2. erased' \subseteq Ids
    <3>1. erased' = erased \/ erased' = erased \cup {line.id : line \in Matching(p)}
      BY DEF ReplaceLog
    <3>2. erased \subseteq Ids
      BY DEF TInv, CountsFit
    <3> QED
      BY <1>1, <3>1, <3>2, MatchingTyped
  <2> QED
    BY <2>1, <2>2 DEF ReplaceLog, TInv, CountsFit
<1>3. CASE shard.there
  <2> DEFINE c == [Idle EXCEPT !.stage = "tail", !.kind = "purge"]
  <2>1. /\ call' = [call EXCEPT ![p] = c] /\ inodes' = inodes + 1 /\ path' = inodes'
        /\ inodes < MaxInodes
        /\ content' = [content EXCEPT ![path'] = shard.lines]
        /\ shard' = NoShard /\ UNCHANGED <<dir, anchor, sealed>>
    BY <1>3 DEF ReplaceLog
  <2>2. inodes' \in Nat /\ inodes' >= inodes /\ path' \in Inodes /\ path' \in 0..inodes'
        /\ inodes' \in 0..MaxInodes
    BY <1>1, <2>1, NumbersTyped
  <2>3. Idle \in Calling /\ Idle.file = NoFile
    BY <1>1, IdleFits DEF Fits, Idle
  <2>4. c \in Calling /\ c.file = NoFile /\ c.stage = "tail"
    BY <2>3 DEF Calling, Stages
  <2> HIDE DEF c
  <2>5. Fits(c, inodes')
    BY <2>2, <2>4, NumbersTyped DEF Fits, Anchoring
  <2>6. CallsFit'
    BY <2>1, <2>2, <2>5, CallStep
  <2>7. /\ content' \in [Inodes -> Seq(Stored)]
        /\ \A j \in Inodes : j > inodes' => content'[j] = <<>>
    <3>1. FilesFit /\ path' \in Inodes \cup {NoFile} /\ path' <= inodes'
      BY <2>2 DEF TInv
    <3> QED
      BY <1>1, <2>1, <2>2, <3>1, InodeWritten
  <2>8. FilesFit'
    BY <2>1, <2>2, <2>7, NoShardTyped DEF TInv, FilesFit, ShardOf
  <2> QED
    BY <1>2, <2>6, <2>8 DEF TInv
<1>4. CASE ~shard.there
  <2>1. /\ call' = [call EXCEPT ![p] = Idle]
        /\ shard' = NoShard /\ UNCHANGED <<dir, anchor, sealed, inodes, path, content>>
    BY <1>4 DEF ReplaceLog, Finish
  <2>2. inodes' \in Nat /\ inodes' >= inodes /\ Fits(Idle, inodes')
    BY <1>1, <2>1, IdleFits
  <2>3. CallsFit'
    BY <2>1, <2>2, CallStep
  <2>4. FilesFit'
    BY <2>1, NoShardTyped DEF TInv, FilesFit, ShardOf
  <2> QED
    BY <1>2, <2>3, <2>4 DEF TInv
<1> QED
  BY <1>3, <1>4

LEMMA OpenForTailFits == \A p \in Procs : TInv /\ OpenForTail(p) => TInv'
<1> SUFFICES ASSUME NEW p \in Procs, TInv, OpenForTail(p) PROVE TInv'
  OBVIOUS
<1>1. UNCHANGED <<files, cache, used, acked, erased, crashes>>
  BY DEF OpenForTail
<1>2. CASE path = NoFile
  BY <1>1, <1>2, EndFits DEF OpenForTail
<1>3. CASE path # NoFile
  <2> DEFINE c == [call[p] EXCEPT !.stage = "tailread", !.file = path]
  <2>1. call' = [call EXCEPT ![p] = c]
    BY <1>3 DEF OpenForTail, TInv, CallsFit
  <2>2. call[p] \in Calling /\ path \in Inodes /\ path <= inodes
    BY <1>3, NumbersTyped DEF TInv, CallsFit, FilesFit
  <2>3. c \in Calling /\ c.file = path /\ c.stage = "tailread"
    BY <2>2 DEF Calling, Stages
  <2> HIDE DEF c
  <2>4. Fits(c, inodes)
    BY <1>3, <2>2, <2>3 DEF Fits, Anchoring
  <2> QED
    BY <1>1, <2>1, <2>4, FilesStay
<1> QED
  BY <1>2, <1>3

LEMMA ReadTailFits == \A p \in Procs : TInv /\ ReadTail(p) => TInv'
<1> SUFFICES ASSUME NEW p \in Procs, TInv, ReadTail(p) PROVE TInv'
  OBVIOUS
<1> DEFINE head == TailHash(content[call[p].file])
           c == [call[p] EXCEPT !.stage = "anchor", !.id = head]
<1>1. UNCHANGED <<files, cache, used, acked, erased, crashes>>
  BY DEF ReadTail
<1>2. CASE Finish(p)
  BY <1>1, <1>2, EndFits
<1>3. CASE ~Finish(p)
  <2>1. call' = [call EXCEPT ![p] = c] /\ head # Genesis
    BY <1>3 DEF ReadTail, TInv, CallsFit
  <2>2. Fits(call[p], inodes) /\ call[p].stage = "tailread" /\ call[p] \in Calling
    BY DEF ReadTail, TInv, CallsFit
  <2>3. call[p].file \in Inodes
    BY <2>2, NumbersTyped DEF Fits, Calling
  <2>4. head \in Hashes
    <3>1. content[call[p].file] \in Seq(Stored)
      BY <2>3, FileOpened
    <3> QED
      BY <3>1, HashTyped DEF TailHash
  <2> HIDE DEF head
  <2>5. c \in Calling /\ c.file = call[p].file /\ c.stage = "anchor" /\ c.id = head
    BY <2>2, <2>4 DEF Calling, Stages
  <2>6. head \in Ids
    BY <2>1, <2>4 DEF Hashes
  <2> HIDE DEF c
  <2>7. Fits(c, inodes)
    BY <2>2, <2>5, <2>6 DEF Fits
  <2> QED
    BY <1>1, <2>1, <2>7, FilesStay
<1> QED
  BY <1>2, <1>3

-----------------------------------------------------------------------------
(* The steps of sealing and unsealing.                                     *)

\* A stage that asks for nothing.
LEMMA NextStageFits ==
    ASSUME TInv, NEW p \in Procs,
           NEW stage \in {"makedir", "sealopen", "sealblob", "sealremove",
                          "restoredir", "restorefiles", "unlinkblob"}
    PROVE  Fits([call[p] EXCEPT !.stage = stage], inodes)
<1>1. Fits(call[p], inodes) /\ inodes \in Nat
  BY NumbersTyped DEF TInv, CallsFit, FilesFit
<1> QED
  BY <1>1, StageFits DEF Stages, Anchoring

LEMMA ConstructFits == \A p \in Procs : TInv /\ Construct(p) => TInv'
<1> SUFFICES ASSUME NEW p \in Procs, TInv, Construct(p) PROVE TInv'
  OBVIOUS
<1>1. Fits([call[p] EXCEPT !.stage = "makedir"], inodes)
  BY NextStageFits
<1>2. call' = [call EXCEPT ![p] = [call[p] EXCEPT !.stage = "makedir"]]
  BY DEF Construct, TInv, CallsFit
<1> QED
  BY <1>1, <1>2, FilesStay DEF Construct

LEMMA SealFolderFits == \A p \in Procs : TInv /\ SealFolder(p) => TInv'
<1> SUFFICES ASSUME NEW p \in Procs, TInv, SealFolder(p) PROVE TInv'
  OBVIOUS
<1>1. Fits([call[p] EXCEPT !.stage = "sealopen"], inodes)
  BY NextStageFits
<1>2. call' = [call EXCEPT ![p] = [call[p] EXCEPT !.stage = "sealopen"]]
  BY DEF SealFolder, TInv, CallsFit
<1> QED
  BY <1>1, <1>2, FilesStay DEF SealFolder

LEMMA OpenToSealFits == \A p \in Procs : TInv /\ OpenToSeal(p) => TInv' /\ Log' = Log
<1> SUFFICES ASSUME NEW p \in Procs, TInv, OpenToSeal(p) PROVE TInv' /\ Log' = Log
  OBVIOUS
<1>1. Open(p, "seallock") /\ UNCHANGED <<dir, content, shard, anchor, holder, sealed, cache,
                                         used, acked, erased, crashes>>
  BY DEF OpenToSeal
<1> QED
  BY <1>1, OpenFits

\* A call goes on, while only the directory, its files or the blob change.
LEMMA OtherwiseStays ==
    ASSUME TInv, NEW p \in Procs, NEW c, call' = [call EXCEPT ![p] = c],
           Fits(c, inodes), FilesFit', holder' \in [Inodes -> Procs \cup {Nobody}],
           UNCHANGED <<inodes, cache, used, acked, erased, crashes>>
    PROVE  TInv'
<1>1. inodes' \in Nat /\ inodes' >= inodes /\ Fits(c, inodes')
  BY NumbersTyped DEF TInv, FilesFit
<1>2. CallsFit'
  BY <1>1, CallStep
<1>3. CountsFit'
  BY DEF TInv, CountsFit
<1> QED
  BY <1>2, <1>3 DEF TInv

LEMMA MakeDirFits == \A p \in Procs : TInv /\ MakeDir(p) => TInv'
<1> SUFFICES ASSUME NEW p \in Procs, TInv, MakeDir(p) PROVE TInv'
  OBVIOUS
<1>1. FilesFit' /\ holder' \in [Inodes -> Procs \cup {Nobody}]
  BY DEF MakeDir, TInv, FilesFit, CountsFit, otherVars
<1>2. Fits(Idle, inodes) /\ call' = [call EXCEPT ![p] = Idle]
  BY IdleFits, NumbersTyped DEF MakeDir, Finish, TInv, FilesFit
<1>3. UNCHANGED <<inodes, cache, used, acked, erased, crashes>>
  BY DEF MakeDir, otherVars
<1> QED
  BY <1>1, <1>2, <1>3, OtherwiseStays

LEMMA TakeSnapshotFits == \A p \in Procs : TInv /\ TakeSnapshot(p) => TInv'
<1> SUFFICES ASSUME NEW p \in Procs, TInv, TakeSnapshot(p) PROVE TInv'
  OBVIOUS
<1> DEFINE c == [call[p] EXCEPT !.stage = "sealblob", !.lines = Log,
                                !.heads = HeadsNow]
<1>1. call' = [call EXCEPT ![p] = c]
  BY DEF TakeSnapshot, TInv, CallsFit
<1>2. /\ Fits(call[p], inodes) /\ call[p] \in Calling /\ Log \in Seq(Stored)
      /\ HeadsNow \in Heads
  BY LogFits, HeadsTyped DEF TInv, CallsFit, FilesFit
<1>3. c \in Calling /\ c.file = call[p].file /\ c.stage = "sealblob"
  BY <1>2 DEF Calling, Stages
<1> HIDE DEF c
<1>4. Fits(c, inodes)
  BY <1>2, <1>3 DEF Fits, Anchoring
<1>5. FilesFit' /\ holder' \in [Inodes -> Procs \cup {Nobody}]
  BY DEF TakeSnapshot, TInv, FilesFit, CountsFit, otherVars
<1>6. UNCHANGED <<inodes, cache, used, acked, erased, crashes>>
  BY DEF TakeSnapshot, otherVars
<1> QED
  BY <1>1, <1>4, <1>5, <1>6, OtherwiseStays

LEMMA WriteBlobFits == \A p \in Procs : TInv /\ WriteBlob(p) => TInv'
<1> SUFFICES ASSUME NEW p \in Procs, TInv, WriteBlob(p) PROVE TInv'
  OBVIOUS
<1>1. Fits([call[p] EXCEPT !.stage = "sealremove"], inodes)
  BY NextStageFits
<1>2. call' = [call EXCEPT ![p] = [call[p] EXCEPT !.stage = "sealremove"]]
  BY DEF WriteBlob, TInv, CallsFit
<1>3. call[p].lines \in Seq(Stored) /\ call[p].heads \in Heads
  BY DEF TInv, CallsFit, Calling
<1>4. FilesFit' /\ holder' \in [Inodes -> Procs \cup {Nobody}]
  BY <1>3 DEF WriteBlob, TInv, FilesFit, CountsFit, SealedOf, otherVars
<1>5. UNCHANGED <<inodes, cache, used, acked, erased, crashes>>
  BY DEF WriteBlob, otherVars
<1> QED
  BY <1>1, <1>2, <1>4, <1>5, OtherwiseStays

LEMMA RemoveStoreFits == \A p \in Procs : TInv /\ RemoveStore(p) => TInv'
<1> SUFFICES ASSUME NEW p \in Procs, TInv, RemoveStore(p) PROVE TInv'
  OBVIOUS
<1>1. FilesFit'
  <2>1. /\ dir' = FALSE /\ path' = 0 /\ anchor' \in Anchors /\ shard' = NoShard
        /\ UNCHANGED <<content, inodes, sealed>>
    BY NumbersTyped, HeadsTyped DEF RemoveStore, Anchors, otherVars
  <2>2. inodes \in Nat /\ 0 \in 0..inodes
    BY NumbersTyped DEF TInv, FilesFit
  <2> QED
    BY <2>1, <2>2, NoShardTyped DEF TInv, FilesFit, ShardOf
<1>2. Fits(Idle, inodes) /\ call' = [call EXCEPT ![p] = Idle]
  BY IdleFits, NumbersTyped DEF RemoveStore, Finish, TInv, FilesFit
<1>3. UNCHANGED <<inodes, cache, used, acked, erased, crashes>>
      /\ holder' \in [Inodes -> Procs \cup {Nobody}]
  BY DEF RemoveStore, TInv, CountsFit, otherVars
<1> QED
  BY <1>1, <1>2, <1>3, OtherwiseStays

LEMMA UnsealFolderFits == \A p \in Procs : TInv /\ UnsealFolder(p) => TInv'
<1> SUFFICES ASSUME NEW p \in Procs, TInv, UnsealFolder(p) PROVE TInv'
  OBVIOUS
<1> DEFINE c == [call[p] EXCEPT !.stage = "restoredir", !.lines = sealed.lines,
                                !.heads = sealed.heads]
<1>1. call' = [call EXCEPT ![p] = c]
  BY DEF UnsealFolder, TInv, CallsFit
<1>2. Fits(call[p], inodes) /\ call[p] \in Calling /\ sealed.lines \in Seq(Stored)
      /\ sealed.heads \in Heads
  BY DEF TInv, CallsFit, FilesFit, SealedOf
<1>3. c \in Calling /\ c.file = call[p].file /\ c.stage = "restoredir"
  BY <1>2 DEF Calling, Stages
<1> HIDE DEF c
<1>4. Fits(c, inodes)
  BY <1>2, <1>3 DEF Fits, Anchoring
<1> QED
  BY <1>1, <1>4, FilesStay DEF UnsealFolder

LEMMA RestoreDirFits == \A p \in Procs : TInv /\ RestoreDir(p) => TInv'
<1> SUFFICES ASSUME NEW p \in Procs, TInv, RestoreDir(p) PROVE TInv'
  OBVIOUS
<1>1. Fits([call[p] EXCEPT !.stage = "restorefiles"], inodes)
  BY NextStageFits
<1>2. call' = [call EXCEPT ![p] = [call[p] EXCEPT !.stage = "restorefiles"]]
  BY DEF RestoreDir, TInv, CallsFit
<1>3. FilesFit' /\ holder' \in [Inodes -> Procs \cup {Nobody}]
  BY DEF RestoreDir, TInv, FilesFit, CountsFit, otherVars
<1>4. UNCHANGED <<inodes, cache, used, acked, erased, crashes>>
  BY DEF RestoreDir, otherVars
<1> QED
  BY <1>1, <1>2, <1>3, <1>4, OtherwiseStays

LEMMA RestoreFilesFits == \A p \in Procs : TInv /\ RestoreFiles(p) => TInv'
<1> SUFFICES ASSUME NEW p \in Procs, TInv, RestoreFiles(p) PROVE TInv'
  OBVIOUS
<1> DEFINE c == [call[p] EXCEPT !.stage = "unlinkblob"]
<1>1. /\ inodes \in Nat /\ path \in 0..inodes /\ inodes <= MaxInodes
      /\ call[p].lines \in Seq(Stored) /\ call[p].heads \in Heads /\ Fits(call[p], inodes)
      /\ call[p].file \in Nat
  BY NumbersTyped DEF TInv, FilesFit, CallsFit, Calling
<1>2. /\ inodes' \in Nat /\ inodes' >= inodes /\ inodes' <= MaxInodes
      /\ path' \in 1..inodes' /\ path' \in Inodes
  BY <1>1, NumbersTyped DEF RestoreFiles
<1>3. Fits(c, inodes) /\ call' = [call EXCEPT ![p] = c]
  BY NextStageFits DEF RestoreFiles, TInv, CallsFit
<1>4. c.file = call[p].file
  BY DEF TInv, CallsFit, Calling
<1> HIDE DEF c
<1>5. Fits(c, inodes')
  BY <1>1, <1>2, <1>3, <1>4 DEF Fits
<1>6. CallsFit'
  BY <1>2, <1>3, <1>5, CallStep
<1>7. /\ content' \in [Inodes -> Seq(Stored)]
      /\ \A j \in Inodes : j > inodes' => content'[j] = <<>>
  <2>1. FilesFit /\ path' \in Inodes \cup {NoFile} /\ path' <= inodes'
        /\ content' = [content EXCEPT ![path'] = call[p].lines]
    BY <1>2 DEF TInv, RestoreFiles
  <2> QED
    BY <1>1, <1>2, <2>1, InodeWritten
<1>10. anchor' \in Anchors
  <2>1. /\ anchor.file \in AnchorFile /\ anchor.temp \in AnchorFile
        /\ call[p].heads.file \in Ids \cup {Genesis, Cut}
        /\ call[p].heads.temp \in Ids \cup {Genesis, Cut}
    BY <1>1 DEF TInv, FilesFit, Anchors, Heads
  <2> QED
    BY <2>1, AnchorFilesTyped DEF RestoreFiles, Anchors
<1>8. FilesFit'
  BY <1>1, <1>2, <1>7, <1>10 DEF TInv, FilesFit, RestoreFiles
<1>9. CountsFit'
  BY DEF TInv, CountsFit, RestoreFiles
<1> QED
  BY <1>6, <1>8, <1>9 DEF TInv

LEMMA RemoveBlobFits == \A p \in Procs : TInv /\ RemoveBlob(p) => TInv'
<1> SUFFICES ASSUME NEW p \in Procs, TInv, RemoveBlob(p) PROVE TInv'
  OBVIOUS
<1>1. FilesFit' /\ holder' \in [Inodes -> Procs \cup {Nobody}]
  <2>1. Unsealed \in SealedOf
    BY UnsealedTyped
  <2> QED
    BY <2>1 DEF RemoveBlob, TInv, FilesFit, CountsFit, otherVars
<1>2. Fits(Idle, inodes) /\ call' = [call EXCEPT ![p] = Idle]
  BY IdleFits, NumbersTyped DEF RemoveBlob, Finish, TInv, FilesFit
<1>3. UNCHANGED <<inodes, cache, used, acked, erased, crashes>>
  BY DEF RemoveBlob, otherVars
<1> QED
  BY <1>1, <1>2, <1>3, OtherwiseStays

-----------------------------------------------------------------------------
(* The steps together.                                                     *)

LEMMA StepFits == \A p \in Procs : TInv /\ (LogStep(p) \/ SealStep(p)) => TInv'
<1> SUFFICES ASSUME NEW p \in Procs, TInv, LogStep(p) \/ SealStep(p) PROVE TInv'
  OBVIOUS
<1>1. CASE AppendStep(p)
  <2>1. AppendRefused(p) => GiveUp(p)
    BY DEF AppendRefused
  <2> QED
    BY <1>1, <2>1, AppendEventFits, OpenToAppendFits, GiveUpFits, WriteEventFits,
       WriteHitsFullDiskFits, AnchoringFits, MoveAnchorFits, AnchorFailsFits DEF AppendStep
<1>2. CASE PurgeStep(p)
  <2>1. PurgeFails(p) => GiveUp(p)
    BY DEF PurgeFails
  <2> QED
    BY <1>2, <2>1, PurgeFits, ReadSnapshotFits, OpenToRewriteFits, WriteShardFits,
       ShardHitsFullDiskFits, ReplaceLogFits, GiveUpFits, OpenForTailFits, ReadTailFits
       DEF PurgeStep
<1>3. CASE SealStep(p)
  <2>1. SealFails(p) => GiveUp(p)
    BY DEF SealFails
  <2> QED
    BY <1>3, <2>1, ConstructFits, MakeDirFits, SealFolderFits, OpenToSealFits, GiveUpFits,
       TakeSnapshotFits, WriteBlobFits, RemoveStoreFits, UnsealFolderFits, RestoreDirFits,
       RestoreFilesFits, RemoveBlobFits DEF SealStep
<1> QED
  BY <1>1, <1>2, <1>3, CrashFits, DieMidWriteFits DEF LogStep

LEMMA StutterFits == TInv /\ UNCHANGED vars => TInv'
BY DEF TInv, CallsFit, FilesFit, CountsFit, vars, files

LEMMA SomeStep == [SealedNext]_vars =>
    UNCHANGED vars \/ \E p \in Procs : LogStep(p) \/ SealStep(p)
BY DEF SealedNext, Rest

LEMMA NextFits == TInv /\ [SealedNext]_vars => TInv'
BY StepFits, StutterFits, SomeStep

\* Every variable stays in its type; a tombstone or an event is never without
\* an id, and files that were not created are empty.
THEOREM TypeInvariance == SealedSpec => []TInv
BY InitFits, NextFits, PTL DEF SealedSpec

LEMMA TInvTypes == TInv => TypeOK
<1> SUFFICES ASSUME TInv PROVE TypeOK
  OBVIOUS
<1>1. call \in [Procs -> Call]
  <2>1. \A q \in Procs : call[q] \in Call
    <3> SUFFICES ASSUME NEW q \in Procs PROVE call[q] \in Call
      OBVIOUS
    <3>1. call[q] \in Calling /\ call[q].lines \in Seq(Line)
      BY StoredAreLines DEF TInv, CallsFit, Calling
    <3> QED
      BY <3>1 DEF Calling, Call, Hashes
  <2> QED
    BY <2>1 DEF TInv, CallsFit
<1>2. path \in Inodes \cup {NoFile}
  BY NumbersTyped DEF TInv, FilesFit
<1>3. content \in [Inodes -> Seq(Line)]
  BY StoredAreLines DEF TInv, FilesFit
<1>4. /\ shard \in [there : BOOLEAN, lines : Seq(Line)]
      /\ sealed \in [there : BOOLEAN, lines : Seq(Line), heads : Heads]
  BY StoredAreLines DEF TInv, FilesFit, SealedOf
<1> QED
  BY <1>1, <1>2, <1>3, <1>4 DEF TInv, FilesFit, CountsFit, TypeOK, Hashes, Anchors

\* Every variable stays in its type.
THEOREM TypeCorrect == SealedSpec => []TypeOK
BY TypeInvariance, TInvTypes, PTL

-----------------------------------------------------------------------------
(* What is intact is linked, wherever lines are on their way to the log or *)
(* the blob.  A purge's snapshot need not be: its survivors get relinked.  *)

Copying == {"sealblob", "restoredir", "restorefiles"}

ChainsLinked ==
    /\ IntactLinked(Log) /\ IntactLinked(sealed.lines) /\ IntactLinked(shard.lines)
    /\ \A p \in Procs : call[p].stage \in Copying => IntactLinked(call[p].lines)

LEMMA ChainsStay ==
    ASSUME TInv, ChainsLinked, NEW p \in Procs, NEW c, call' = [call EXCEPT ![p] = c],
           c.stage \in Copying => IntactLinked(c.lines),
           NEW log, Log' = log, IntactLinked(log),
           NEW blob, sealed'.lines = blob, IntactLinked(blob),
           NEW new, shard'.lines = new, IntactLinked(new)
    PROVE  ChainsLinked'
<1>1. call'[p] = c /\ \A q \in Procs : q # p => call'[q] = call[q]
  BY DEF TInv, CallsFit
<1>2. \A q \in Procs : call'[q].stage \in Copying => IntactLinked(call'[q].lines)
  BY <1>1 DEF ChainsLinked
<1>3. IntactLinked(Log') /\ IntactLinked(sealed'.lines) /\ IntactLinked(shard'.lines)
  OBVIOUS
<1> QED
  BY <1>2, <1>3 DEF ChainsLinked, IntactLinked, Formed, HashBefore, Before, Copying

\* A call goes on, or ends, and at most the shard is removed.
LEMMA ChainsQuiet ==
    ASSUME TInv, ChainsLinked, NEW p \in Procs, NEW c, call' = [call EXCEPT ![p] = c],
           c.stage \notin Copying, Log' = Log, sealed' = sealed,
           shard' = shard \/ shard' = NoShard
    PROVE  ChainsLinked'
<1>1. IntactLinked(Log) /\ IntactLinked(sealed.lines) /\ IntactLinked(shard'.lines)
  BY NoShardTyped DEF ChainsLinked
<1> QED
  BY <1>1, ChainsStay

LEMMA IdleIsOut == Idle.stage = "out" /\ "out" \notin Copying
BY DEF Idle, Copying

LEMMA ChainsEnd ==
    ASSUME TInv, ChainsLinked, NEW p \in Procs, Finish(p), Log' = Log, sealed' = sealed,
           shard' = shard \/ shard' = NoShard
    PROVE  ChainsLinked'
<1>1. call' = [call EXCEPT ![p] = Idle] /\ Idle.stage \notin Copying
  BY IdleIsOut DEF Finish
<1> QED
  BY <1>1, ChainsQuiet

LEMMA AppendChains ==
    \A p \in Procs : LongLived = {} /\ TInv /\ ChainsLinked /\ AppendStep(p) => ChainsLinked'
<1> SUFFICES ASSUME NEW p \in Procs, LongLived = {}, TInv, ChainsLinked, AppendStep(p)
             PROVE  ChainsLinked'
  OBVIOUS
<1>1. ASSUME NEW pair \in Pairs, AppendEvent(p, pair) PROVE ChainsLinked'
  <2>1. \E c : call' = [call EXCEPT ![p] = c] /\ c.stage = "open"
    <3>1. CASE Pinning /\ Log = <<>>
      <4> DEFINE c == [Idle EXCEPT !.stage = "open", !.pair = pair, !.kind = "registration",
                                   !.id = used + 1, !.next = used + 2]
      <4>1. call' = [call EXCEPT ![p] = c] /\ c.stage = "open"
        BY <1>1, <3>1 DEF AppendEvent, Idle
      <4> QED
        BY <4>1
    <3>2. CASE ~(Pinning /\ Log = <<>>)
      <4> DEFINE c == [Idle EXCEPT !.stage = "open", !.pair = pair, !.id = used + 1]
      <4>1. call' = [call EXCEPT ![p] = c] /\ c.stage = "open"
        BY <1>1, <3>2 DEF AppendEvent, Idle
      <4> QED
        BY <4>1
    <3> QED
      BY <3>1, <3>2
  <2>2. PICK c : call' = [call EXCEPT ![p] = c] /\ c.stage = "open"
    BY <2>1
  <2>3. Log' = Log /\ sealed' = sealed /\ shard' = shard
    BY <1>1 DEF AppendEvent, files, Log
  <2>4. c.stage \notin Copying
    BY <2>2 DEF Copying
  <2> QED
    BY <2>2, <2>3, <2>4, ChainsQuiet
<1>2. CASE OpenToAppend(p)
  <2> DEFINE c == [call[p] EXCEPT !.stage = "lock", !.file = path',
                                  !.size = Len(content[path'])]
  <2>1. call' = [call EXCEPT ![p] = c] /\ c.stage = "lock"
    BY <1>2 DEF OpenToAppend, Open, TInv, CallsFit, Calling
  <2>2. Log' = Log /\ sealed' = sealed /\ shard' = shard
    BY <1>2, OpenToAppendFits DEF OpenToAppend
  <2> HIDE DEF c
  <2>3. c.stage \notin Copying
    BY <2>1 DEF Copying
  <2> QED
    BY <2>1, <2>2, <2>3, ChainsQuiet
<1>3. CASE AppendRefused(p)
  BY <1>3, ChainsEnd DEF AppendRefused, GiveUp, files, Log
<1>4. CASE WriteEvent(p)
  <2> DEFINE c == [call[p] EXCEPT !.stage = "anchor"]
             file == call[p].file
             lines == Glue(content[file], Written(p))
             log == IF file = path /\ path # NoFile THEN lines ELSE Log
  <2>1. /\ call' = [call EXCEPT ![p] = c] /\ c.stage = "anchor"
        /\ content' = [content EXCEPT ![file] = lines]
        /\ path' = path /\ sealed' = sealed /\ shard' = shard /\ call[p].stage = "lock"
    BY <1>4 DEF WriteEvent, WriteLine, TInv, CallsFit, Calling
  <2>2. Log' = log
    <3>1. file \in Inodes \cup {NoFile}
      BY FileOpened
    <3> HIDE DEF file, lines
    <3> QED
      BY <2>1, <3>1, LogWritten
  <2>3. IntactLinked(log)
    <3>1. CASE file = path /\ path # NoFile
      <4>1. content[file] = Log /\ Log \in Seq(Stored) /\ IntactLinked(Log)
        BY <3>1, FileOpened, LogFits DEF ChainsLinked
      <4>2. Written(p) \in Stored /\ Written(p).prev = TailHash(Log)
        BY <2>1, WrittenTyped
      <4>3. IntactLinked(lines)
        BY <4>1, <4>2, GlueLinked
      <4> QED
        BY <3>1, <4>3
    <3>2. CASE ~(file = path /\ path # NoFile)
      BY <3>2 DEF ChainsLinked
    <3> QED
      BY <3>1, <3>2
  <2> HIDE DEF c, log
  <2>4. c.stage \notin Copying
    BY <2>1 DEF Copying
  <2> QED
    BY <2>1, <2>2, <2>3, <2>4, ChainsStay DEF ChainsLinked
<1>5. CASE WriteHitsFullDisk(p)
  <2> DEFINE file == call[p].file
             lines == CutBack(content[file], call[p].size)
             log == IF file = path /\ path # NoFile THEN lines ELSE Log
  <2>1. /\ call' = [call EXCEPT ![p] = Idle]
        /\ content' = [content EXCEPT ![file] = lines]
        /\ path' = path /\ sealed' = sealed /\ shard' = shard
    BY <1>5 DEF WriteHitsFullDisk, Finish
  <2>2. Log' = log
    <3>1. file \in Inodes \cup {NoFile}
      BY FileOpened
    <3> HIDE DEF file, lines
    <3> QED
      BY <2>1, <3>1, LogWritten
  <2>3. IntactLinked(log)
    <3>1. CASE file = path /\ path # NoFile
      <4>1. content[file] = Log /\ Log \in Seq(Stored) /\ IntactLinked(Log)
            /\ call[p].size \in Nat
        BY <3>1, FileOpened, LogFits DEF ChainsLinked, Calling
      <4>2. IntactLinked(lines)
        BY <4>1, CutBackLinked
      <4> QED
        BY <3>1, <4>2
    <3>2. CASE ~(file = path /\ path # NoFile)
      BY <3>2 DEF ChainsLinked
    <3> QED
      BY <3>1, <3>2
  <2> HIDE DEF log
  <2> QED
    BY <2>1, <2>2, <2>3, IdleIsOut, ChainsStay DEF ChainsLinked
<1>6. CASE OpenAnchor(p) \/ WriteAnchor(p)
  <2>1. Log' = Log /\ sealed' = sealed /\ shard' = shard
    BY <1>6 DEF OpenAnchor, WriteAnchor, Log
  <2>2. PICK stage \in {"anchorwrite", "anchormove"} :
            call' = [call EXCEPT ![p] = [call[p] EXCEPT !.stage = stage]]
    BY <1>6 DEF OpenAnchor, WriteAnchor, TInv, CallsFit
  <2> DEFINE c == [call[p] EXCEPT !.stage = stage]
  <2>3. call' = [call EXCEPT ![p] = c] /\ c.stage \notin Copying
    BY <2>2 DEF TInv, CallsFit, Calling, Copying
  <2> HIDE DEF c
  <2> QED
    BY <2>1, <2>3, ChainsQuiet
<1>7. CASE MoveAnchor(p) \/ AnchorFails(p)
  <2>0. Return(p)
    BY <1>7 DEF MoveAnchor, AnchorFails
  <2>1. Log' = Log /\ sealed' = sealed /\ shard' = shard
    BY <2>0 DEF Return, Log
  <2>2. CASE call[p].next = Genesis
    BY <2>0, <2>1, <2>2, ChainsEnd DEF Return
  <2>3. CASE call[p].next # Genesis
    <3> DEFINE c == [Idle EXCEPT !.stage = "open", !.pair = call[p].pair,
                                 !.id = call[p].next]
    <3>1. call' = [call EXCEPT ![p] = c] /\ c.stage \notin Copying
      BY <2>0, <2>3 DEF Return, Idle, Copying
    <3> HIDE DEF c
    <3> QED
      BY <2>1, <3>1, ChainsQuiet
  <2> QED
    BY <2>2, <2>3
<1> QED
  BY <1>1, <1>2, <1>3, <1>4, <1>5, <1>6, <1>7 DEF AppendStep

LEMMA PurgeChains ==
    \A p \in Procs : TInv /\ ChainsLinked /\ PurgeStep(p) => ChainsLinked'
<1> SUFFICES ASSUME NEW p \in Procs, TInv, ChainsLinked, PurgeStep(p) PROVE ChainsLinked'
  OBVIOUS
<1>1. ASSUME NEW pair \in Pairs, Purge(p, pair) PROVE ChainsLinked'
  <2> DEFINE c == [Idle EXCEPT !.stage = "snapshot", !.pair = pair, !.kind = "purge",
                               !.id = used', !.file = path]
  <2>1. call' = [call EXCEPT ![p] = c] /\ c.stage \notin Copying
    BY <1>1 DEF Purge, Idle, Copying
  <2>2. Log' = Log /\ sealed' = sealed /\ shard' = shard
    BY <1>1 DEF Purge, files, Log
  <2> HIDE DEF c
  <2> QED
    BY <2>1, <2>2, ChainsQuiet
<1>2. CASE ReadSnapshot(p)
  <2>1. Log' = Log /\ sealed' = sealed /\ shard' = shard
    BY <1>2 DEF ReadSnapshot, files, Log
  <2>2. CASE Finish(p)
    BY <2>1, <2>2, ChainsEnd
  <2>3. CASE ~Finish(p)
    <3> DEFINE lines == content[call[p].file]
               c == [call[p] EXCEPT !.stage = "reopen", !.lines = lines, !.file = NoFile]
    <3>1. call' = [call EXCEPT ![p] = c]
      BY <1>2, <2>3 DEF ReadSnapshot, TInv, CallsFit
    <3>2. c.stage \notin Copying
      BY DEF TInv, CallsFit, Calling, Copying
    <3> HIDE DEF c
    <3> QED
      BY <2>1, <3>1, <3>2, ChainsQuiet
  <2> QED
    BY <2>2, <2>3
<1>3. CASE OpenToRewrite(p)
  <2> DEFINE c == [call[p] EXCEPT !.stage = "rewrite", !.file = path',
                                  !.size = Len(content[path'])]
  <2>1. call' = [call EXCEPT ![p] = c] /\ c.stage \notin Copying
    BY <1>3 DEF OpenToRewrite, Open, TInv, CallsFit, Calling, Copying
  <2>2. Log' = Log /\ sealed' = sealed /\ shard' = shard
    BY <1>3, OpenToRewriteFits DEF OpenToRewrite
  <2> HIDE DEF c
  <2> QED
    BY <2>1, <2>2, ChainsQuiet
<1>4. CASE WriteShard(p)
  <2> DEFINE c == [call[p] EXCEPT !.stage = "replace"]
  <2>1. call' = [call EXCEPT ![p] = c] /\ c.stage \notin Copying
    BY <1>4 DEF WriteShard, TInv, CallsFit, Calling, Copying
  <2>2. Log' = Log /\ sealed' = sealed /\ shard'.lines = Rewritten(p)
    BY <1>4 DEF WriteShard, Log
  <2>3. call[p].lines \in Seq(Stored) /\ call[p].id \in Ids
    BY <1>4 DEF WriteShard, TInv, CallsFit, Fits, Calling
  <2>4. IntactLinked(Rewritten(p))
    BY <2>3, RewrittenLinked
  <2> HIDE DEF c
  <2> QED
    BY <2>1, <2>2, <2>4, ChainsStay DEF ChainsLinked
<1>5. CASE ShardHitsFullDisk(p)
  BY <1>5, ChainsEnd DEF ShardHitsFullDisk, Log
<1>6. CASE ReplaceLog(p)
  <2>1. CASE ~shard.there
    BY <1>6, <2>1, ChainsEnd DEF ReplaceLog, Log
  <2>2. CASE shard.there
    <3> DEFINE c == [Idle EXCEPT !.stage = "tail", !.kind = "purge"]
    <3>1. /\ call' = [call EXCEPT ![p] = c] /\ sealed' = sealed /\ shard' = NoShard
          /\ inodes' = inodes + 1 /\ path' = inodes' /\ inodes < MaxInodes
          /\ content' = [content EXCEPT ![path'] = shard.lines]
      BY <1>6, <2>2 DEF ReplaceLog
    <3>2. c.stage \notin Copying
      BY DEF Idle, Copying
    <3>3. inodes \in Nat /\ path' \in Inodes /\ path' # NoFile
      BY <3>1, NumbersTyped DEF TInv, FilesFit
    <3>4. Log' = shard.lines
      BY <3>1, <3>3 DEF Log, TInv, FilesFit
    <3> HIDE DEF c
    <3> QED
      BY <3>1, <3>2, <3>4, NoShardTyped, ChainsStay DEF ChainsLinked
  <2> QED
    BY <2>1, <2>2
<1>7. CASE PurgeFails(p)
  BY <1>7, ChainsEnd DEF PurgeFails, GiveUp, files, Log
<1>8. CASE OpenForTail(p)
  <2>1. Log' = Log /\ sealed' = sealed /\ shard' = shard
    BY <1>8 DEF OpenForTail, files, Log
  <2>2. CASE path = NoFile
    BY <1>8, <2>1, <2>2, ChainsEnd DEF OpenForTail
  <2>3. CASE path # NoFile
    <3> DEFINE c == [call[p] EXCEPT !.stage = "tailread", !.file = path]
    <3>1. call' = [call EXCEPT ![p] = c] /\ c.stage \notin Copying
      BY <1>8, <2>3 DEF OpenForTail, TInv, CallsFit, Calling, Copying
    <3> HIDE DEF c
    <3> QED
      BY <2>1, <3>1, ChainsQuiet
  <2> QED
    BY <2>2, <2>3
<1>9. CASE ReadTail(p)
  <2>1. Log' = Log /\ sealed' = sealed /\ shard' = shard
    BY <1>9 DEF ReadTail, files, Log
  <2>2. CASE Finish(p)
    BY <2>1, <2>2, ChainsEnd
  <2>3. CASE ~Finish(p)
    <3> DEFINE c == [call[p] EXCEPT !.stage = "anchor",
                                    !.id = TailHash(content[call[p].file])]
    <3>1. call' = [call EXCEPT ![p] = c] /\ c.stage \notin Copying
      BY <1>9, <2>3 DEF ReadTail, TInv, CallsFit, Calling, Copying
    <3> HIDE DEF c
    <3> QED
      BY <2>1, <3>1, ChainsQuiet
  <2> QED
    BY <2>2, <2>3
<1> QED
  BY <1>1, <1>2, <1>3, <1>4, <1>5, <1>6, <1>7, <1>8, <1>9 DEF PurgeStep

LEMMA DeathChains ==
    \A p \in Procs : TInv /\ ChainsLinked /\ (Crash(p) \/ DieMidWrite(p)) => ChainsLinked'
<1> SUFFICES ASSUME NEW p \in Procs, TInv, ChainsLinked, Crash(p) \/ DieMidWrite(p)
             PROVE  ChainsLinked'
  OBVIOUS
<1>1. CASE Crash(p)
  BY <1>1, ChainsEnd DEF Crash, Dies, Log
<1>2. CASE DieMidWrite(p)
  <2> DEFINE file == call[p].file
             lines == Glue(content[file], Damage("torn"))
             log == IF file = path /\ path # NoFile THEN lines ELSE Log
  <2>1. /\ call' = [call EXCEPT ![p] = Idle]
        /\ content' = [content EXCEPT ![file] = lines]
        /\ path' = path /\ sealed' = sealed /\ shard' = shard
    BY <1>2 DEF DieMidWrite, Dies, Finish
  <2>2. Log' = log
    <3>1. file \in Inodes \cup {NoFile}
      BY FileOpened
    <3> HIDE DEF file, lines
    <3> QED
      BY <2>1, <3>1, LogWritten
  <2>3. IntactLinked(log)
    <3>1. CASE file = path /\ path # NoFile
      <4>1. content[file] = Log /\ Log \in Seq(Stored) /\ IntactLinked(Log)
        BY <3>1, FileOpened, LogFits DEF ChainsLinked
      <4>2. Damage("torn") \in Stored /\ ~Formed(Damage("torn"))
        BY DamageTyped
      <4>3. IntactLinked(lines)
        BY <4>1, <4>2, GlueLinked
      <4> QED
        BY <3>1, <4>3
    <3>2. CASE ~(file = path /\ path # NoFile)
      BY <3>2 DEF ChainsLinked
    <3> QED
      BY <3>1, <3>2
  <2> HIDE DEF log
  <2> QED
    BY <2>1, <2>2, <2>3, IdleIsOut, ChainsStay DEF ChainsLinked
<1> QED
  BY <1>1, <1>2

LEMMA SealChains ==
    \A p \in Procs : TInv /\ ChainsLinked /\ SealStep(p) => ChainsLinked'
<1> SUFFICES ASSUME NEW p \in Procs, TInv, ChainsLinked, SealStep(p) PROVE ChainsLinked'
  OBVIOUS
<1> DEFINE At(stage) == [call[p] EXCEPT !.stage = stage]
<1>0. \A stage : At(stage).stage = stage /\ At(stage).lines = call[p].lines
  BY DEF TInv, CallsFit, Calling
<1>1. CASE Construct(p) \/ SealFolder(p)
  <2>1. Log' = Log /\ sealed' = sealed /\ shard' = shard
    BY <1>1 DEF Construct, SealFolder, files, Log
  <2>2. \E stage \in {"makedir", "sealopen"} : call' = [call EXCEPT ![p] = At(stage)]
    BY <1>1 DEF Construct, SealFolder, TInv, CallsFit
  <2>3. PICK stage \in {"makedir", "sealopen"} : call' = [call EXCEPT ![p] = At(stage)]
    BY <2>2
  <2>4. At(stage).stage \notin Copying
    BY <1>0, <2>3 DEF Copying
  <2> HIDE DEF At
  <2> QED
    BY <2>1, <2>3, <2>4, ChainsQuiet
<1>2. CASE MakeDir(p)
  BY <1>2, ChainsEnd DEF MakeDir, otherVars, Log
<1>3. CASE OpenToSeal(p)
  <2> DEFINE c == [call[p] EXCEPT !.stage = "seallock", !.file = path',
                                  !.size = Len(content[path'])]
  <2>1. call' = [call EXCEPT ![p] = c] /\ c.stage \notin Copying
    BY <1>3 DEF OpenToSeal, Open, TInv, CallsFit, Calling, Copying
  <2>2. Log' = Log /\ sealed' = sealed /\ shard' = shard
    BY <1>3, OpenToSealFits DEF OpenToSeal
  <2> HIDE DEF c
  <2> QED
    BY <2>1, <2>2, ChainsQuiet
<1>4. CASE SealFails(p)
  BY <1>4, ChainsEnd DEF SealFails, GiveUp, files, Log
<1>5. CASE TakeSnapshot(p)
  <2> DEFINE c == [call[p] EXCEPT !.stage = "sealblob", !.lines = Log, !.heads = HeadsNow]
  <2>1. call' = [call EXCEPT ![p] = c] /\ c.lines = Log
    BY <1>5 DEF TakeSnapshot, TInv, CallsFit, Calling
  <2>2. Log' = Log /\ sealed' = sealed /\ shard' = shard
    BY <1>5 DEF TakeSnapshot, otherVars, Log
  <2> HIDE DEF c
  <2> QED
    BY <2>1, <2>2, ChainsStay DEF ChainsLinked
<1>6. CASE WriteBlob(p)
  <2>1. /\ call' = [call EXCEPT ![p] = At("sealremove")]
        /\ sealed'.lines = call[p].lines /\ Log' = Log /\ shard' = shard
    BY <1>6 DEF WriteBlob, otherVars, Log, TInv, CallsFit
  <2>2. IntactLinked(call[p].lines)
    BY <1>6 DEF WriteBlob, ChainsLinked, Copying
  <2>3. At("sealremove").stage \notin Copying
    BY <1>0 DEF Copying
  <2> HIDE DEF At
  <2> QED
    BY <2>1, <2>2, <2>3, ChainsStay DEF ChainsLinked
<1>7. CASE RemoveStore(p)
  <2>1. /\ call' = [call EXCEPT ![p] = Idle] /\ Log' = <<>>
        /\ sealed' = sealed /\ shard' = NoShard
    BY <1>7 DEF RemoveStore, Finish, otherVars, Log
  <2> QED
    BY <2>1, IdleIsOut, EmptyLinked, NoShardTyped, ChainsStay DEF ChainsLinked
<1>8. CASE UnsealFolder(p)
  <2> DEFINE c == [call[p] EXCEPT !.stage = "restoredir", !.lines = sealed.lines,
                                  !.heads = sealed.heads]
  <2>1. call' = [call EXCEPT ![p] = c] /\ c.lines = sealed.lines
    BY <1>8 DEF UnsealFolder, TInv, CallsFit, Calling
  <2>2. Log' = Log /\ sealed' = sealed /\ shard' = shard
    BY <1>8 DEF UnsealFolder, files, Log
  <2> HIDE DEF c
  <2> QED
    BY <2>1, <2>2, ChainsStay DEF ChainsLinked
<1>9. CASE RestoreDir(p)
  <2>1. /\ call' = [call EXCEPT ![p] = At("restorefiles")]
        /\ Log' = Log /\ sealed' = sealed /\ shard' = shard
    BY <1>9 DEF RestoreDir, otherVars, Log, TInv, CallsFit
  <2>2. IntactLinked(At("restorefiles").lines)
    BY <1>0, <1>9 DEF RestoreDir, ChainsLinked, Copying
  <2> HIDE DEF At
  <2> QED
    BY <2>1, <2>2, ChainsStay DEF ChainsLinked
<1>10. CASE RestoreFiles(p)
  <2>1. /\ call' = [call EXCEPT ![p] = At("unlinkblob")]
        /\ content' = [content EXCEPT ![path'] = call[p].lines]
        /\ path' = (IF path = NoFile THEN inodes + 1 ELSE path)
        /\ path = NoFile => inodes < MaxInodes
        /\ sealed' = sealed /\ shard' = shard
    BY <1>10 DEF RestoreFiles, TInv, CallsFit
  <2>2. path' \in Inodes /\ path' # NoFile
    BY <2>1, NumbersTyped DEF TInv, FilesFit
  <2>3. Log' = call[p].lines
    BY <2>1, <2>2 DEF Log, TInv, FilesFit
  <2>4. IntactLinked(call[p].lines)
    BY <1>10 DEF RestoreFiles, ChainsLinked, Copying
  <2>5. At("unlinkblob").stage \notin Copying
    BY <1>0 DEF Copying
  <2> HIDE DEF At
  <2> QED
    BY <2>1, <2>3, <2>4, <2>5, ChainsStay DEF ChainsLinked
<1>11. CASE RemoveBlob(p)
  <2>1. /\ call' = [call EXCEPT ![p] = Idle] /\ Log' = Log
        /\ sealed'.lines = <<>> /\ shard' = shard
    BY <1>11 DEF RemoveBlob, Finish, otherVars, Log, Unsealed
  <2> QED
    BY <2>1, IdleIsOut, EmptyLinked, ChainsStay DEF ChainsLinked
<1> QED
  BY <1>1, <1>2, <1>3, <1>4, <1>5, <1>6, <1>7, <1>8, <1>9, <1>10, <1>11 DEF SealStep

LEMMA InitChains == Init => ChainsLinked
<1> SUFFICES ASSUME Init PROVE ChainsLinked
  OBVIOUS
<1>1. Log = <<>> /\ sealed.lines = <<>> /\ shard.lines = <<>>
  BY DEF Init, Log, Unsealed, NoShard
<1>2. \A p \in Procs : call[p].stage \notin Copying
  BY IdleIsOut DEF Init
<1> QED
  BY <1>1, <1>2, EmptyLinked DEF ChainsLinked

LEMMA NextChains ==
    LongLived = {} /\ TInv /\ ChainsLinked /\ [SealedNext]_vars => ChainsLinked'
<1> SUFFICES ASSUME LongLived = {}, TInv, ChainsLinked, [SealedNext]_vars PROVE ChainsLinked'
  OBVIOUS
<1>1. CASE UNCHANGED vars
  <2>1. Log' = Log /\ sealed' = sealed /\ shard' = shard /\ call' = call
    BY <1>1 DEF vars, files, Log
  <2>2. \A p \in Procs : call'[p].stage \in Copying => IntactLinked(call'[p].lines)
    BY <2>1 DEF ChainsLinked
  <2>3. IntactLinked(Log') /\ IntactLinked(sealed'.lines) /\ IntactLinked(shard'.lines)
    BY <2>1 DEF ChainsLinked
  <2> QED
    BY <2>2, <2>3 DEF ChainsLinked, IntactLinked, Formed, HashBefore, Before, Copying
<1>2. ASSUME NEW p \in Procs, LogStep(p) \/ SealStep(p) PROVE ChainsLinked'
  BY <1>2, AppendChains, PurgeChains, DeathChains, SealChains DEF LogStep
<1> QED
  BY <1>1, <1>2, SomeStep

THEOREM ChainsInvariance == ASSUME LongLived = {} PROVE SealedSpec => []ChainsLinked
<1>1. TInv /\ ChainsLinked /\ [SealedNext]_vars => ChainsLinked'
  BY NextChains
<1> QED
  BY <1>1, InitChains, TypeInvariance, PTL DEF SealedSpec

\* Every intact event in the log is linked to the intact one before it, or
\* follows a tombstone, whatever stale files are written and whatever is torn.
THEOREM IntactAreLinked == ASSUME LongLived = {} PROVE SealedSpec => []IntactEventsAreLinked
<1>1. ChainsLinked => IntactEventsAreLinked
  BY DEF ChainsLinked, IntactEventsAreLinked
<1> QED
  BY <1>1, ChainsInvariance, PTL

\* So is every intact event in the blob.
THEOREM StoredAreLinked == ASSUME LongLived = {} PROVE SealedSpec => []StoredChainIsLinked
<1>1. ChainsLinked => StoredChainIsLinked
  BY DEF ChainsLinked, StoredChainIsLinked
<1> QED
  BY <1>1, ChainsInvariance, PTL

-----------------------------------------------------------------------------
(***************************************************************************)
(* One process appends, purges, unseals and constructs, another seals; no  *)
(* line is torn, nothing runs beside a purge, and no tail cache is kept.   *)
(* Then the log stays one through seals, restores and deaths.  With a      *)
(* second appender or sealer, or a call beside a purge, it does not.       *)
(*                                                                         *)
(* The argument: the sealer holds the lock of the named file from its      *)
(* snapshot until that file is gone, and whoever writes checks for a blob  *)
(* under that lock; a restore leaves the blob until its files are back;    *)
(* and every event is where Memory looks for it, erased, or in a call.     *)
(***************************************************************************)
CONSTANTS
    Writer,     \* the process that appends, purges and unseals
    Sealer      \* the process that seals

WriterBesideSealer ==
    /\ Writer # Sealer /\ Procs = {Writer, Sealer}
    /\ "seal" \notin OpsOf[Writer] /\ OpsOf[Sealer] \subseteq {"seal"}
    /\ LongLived = {} /\ PurgesUndisturbed /\ ~TornWrites

\* What the two are doing.
W == call[Writer]
S == call[Sealer]

\* No line is damaged; an event on two lines would be of one pair.
Undamaged(lines) == \A k \in 1..Len(lines) : Formed(lines[k])

OnePairEach(lines) ==
    \A i, j \in 1..Len(lines) : lines[i].id = lines[j].id => lines[i].pair = lines[j].pair

SealStages == {"sealopen", "seallock", "sealblob", "sealremove"}
Restoring  == {"restoredir", "restorefiles", "unlinkblob"}
Purging    == {"snapshot", "reopen", "rewrite", "replace"}

\* A folder without a directory has a blob; beside a blob the directory has
\* no other events than those in it.
StoreOK ==
    /\ ~dir => sealed.there /\ path = NoFile
    /\ sealed.there => Log = <<>> \/ Log = sealed.lines

\* The sealer has the log locked from its snapshot to the removal.
SealerOK ==
    /\ S.stage \in SealStages \cup {"out"} /\ S.kind # "purge"
    /\ S.stage = "out" => S = Idle
    /\ S.stage # "out" => dir /\ (sealed.there <=> S.stage = "sealremove")
    /\ S.stage \in {"seallock", "sealblob"} => S.file = path /\ path # NoFile
    /\ S.stage = "sealblob" => holder[path] = Sealer /\ S.lines = Log

\* The writer appends to the log it has opened, or finds it sealed; it
\* restores while nobody seals.
WriterOK ==
    /\ W.stage \notin SealStages
    /\ W.stage = "lock" /\ ~sealed.there =>
          W.file = path /\ path # NoFile /\ W.size = Len(Log)
    /\ W.stage \in Restoring => sealed.there /\ S.stage = "out" /\ W.lines = sealed.lines
    /\ W.stage \in {"restorefiles", "unlinkblob"} => dir
    /\ W.stage = "unlinkblob" => Log = sealed.lines

\* A purge is alone, and rewrites what is in the log.
PurgeOK ==
    /\ W.stage \in Purging \cup {"tail", "tailread"} => W.kind = "purge"
    /\ W.stage \in {"open", "lock"} => W.kind # "purge"
    /\ W.kind = "purge" => S.stage = "out" /\ ~sealed.there /\ path # NoFile /\ W.next = Genesis
    /\ W.stage = "snapshot" => W.file = path
    /\ W.stage \in {"reopen", "rewrite", "replace"} =>
          W.lines = Log /\ \E k \in 1..Len(Log) : Log[k].pair = W.pair
    /\ W.stage = "replace" => shard.there /\ shard.lines = Rewritten(Writer)

\* The events of the log: in it, acknowledged, erased or still to be written.
Fresh(id, mem, ack, gone, n) == id \in 1..n /\ id \notin IdsIn(mem) \cup ack \cup gone

EventsFit(mem, ack, gone, n, c) ==
    /\ Undamaged(mem) /\ OnePairEach(mem)
    /\ IdsIn(mem) \cup ack \cup gone \subseteq 1..n
    /\ ack \subseteq IdsIn(mem) \cup gone
    /\ gone \cap IdsIn(mem) = {}
    /\ c.stage \in {"open", "lock"} \cup Purging => Fresh(c.id, mem, ack, gone, n)
    /\ c.stage \in {"open", "lock"} \cup Anchoring /\ c.next # Genesis =>
          Fresh(c.next, mem, ack, gone, n) /\ c.next # c.id
    /\ c.stage \in Anchoring /\ c.kind # "purge" => c.id \in IdsIn(mem)

EventsOK == EventsFit(Memory, acked, erased, used, W)

SInv == StoreOK /\ SealerOK /\ WriterOK /\ PurgeOK /\ EventsOK

-----------------------------------------------------------------------------
(* What appending and purging make of undamaged lines.                     *)

LEMMA UndamagedIds ==
    ASSUME NEW lines, Undamaged(lines)
    PROVE  IdsIn(lines) = {lines[k].id : k \in 1..Len(lines)}
BY DEF Undamaged, IdsIn

LEMMA GlueAppends ==
    ASSUME NEW lines \in Seq(Stored), NEW line \in Stored, Undamaged(lines), Formed(line)
    PROVE  /\ Glue(lines, line) = Append(lines, line)
           /\ Undamaged(Append(lines, line))
           /\ IdsIn(Append(lines, line)) = IdsIn(lines) \cup {line.id}
           /\ OnePairEach(lines) /\ line.id \notin IdsIn(lines) => OnePairEach(Append(lines, line))
<1> DEFINE more == Append(lines, line)
<1>1. lines # <<>> => Len(lines) \in 1..Len(lines)
  OBVIOUS
<1>2. ~(lines # <<>> /\ lines[Len(lines)].kind = "torn")
  BY <1>1 DEF Undamaged, Formed
<1>3. Glue(lines, line) = more
  BY <1>2 DEF Glue
<1>4. /\ Len(lines) \in Nat /\ Len(more) = Len(lines) + 1 /\ more[Len(more)] = line
      /\ \A k \in 1..Len(lines) : more[k] = lines[k]
  OBVIOUS
<1> HIDE DEF more
<1>5. Undamaged(more)
  <2> SUFFICES ASSUME NEW k \in 1..Len(more) PROVE Formed(more[k])
    BY DEF Undamaged
  <2>1. k = Len(more) \/ k \in 1..Len(lines)
    BY <1>4
  <2> QED
    BY <1>4, <2>1 DEF Undamaged
<1>6. IdsIn(more) = IdsIn(lines) \cup {line.id}
  <2>1. /\ IdsIn(more) = {more[k].id : k \in 1..Len(more)}
        /\ IdsIn(lines) = {lines[k].id : k \in 1..Len(lines)}
    BY <1>5, UndamagedIds
  <2>2. 1..Len(more) = (1..Len(lines)) \cup {Len(more)}
    BY <1>4
  <2> QED
    BY <1>4, <2>1, <2>2
<1>7. ASSUME OnePairEach(lines), line.id \notin IdsIn(lines) PROVE OnePairEach(more)
  <2> SUFFICES ASSUME NEW i \in 1..Len(more), NEW j \in 1..Len(more), more[i].id = more[j].id
               PROVE  more[i].pair = more[j].pair
    BY DEF OnePairEach
  <2>1. \A k \in 1..Len(lines) : lines[k].id # line.id
    BY <1>7, UndamagedIds
  <2>2. (i = Len(more) \/ i \in 1..Len(lines)) /\ (j = Len(more) \/ j \in 1..Len(lines))
    BY <1>4
  <2> QED
    BY <1>4, <1>7, <2>1, <2>2 DEF OnePairEach
<1> QED
  BY <1>3, <1>5, <1>6, <1>7 DEF more

\* LinesAt has exactly the lines at the kept positions.
LEMMA LinesAtAre ==
    ASSUME NEW lines \in Seq(Stored), NEW kept \in SUBSET (1..Len(lines))
    PROVE  /\ LinesAt(lines, kept) \in Seq(Stored)
           /\ \A j \in 1..Len(LinesAt(lines, kept)) :
                 \E k \in kept : LinesAt(lines, kept)[j] = lines[k]
           /\ \A k \in kept :
                 \E j \in 1..Len(LinesAt(lines, kept)) : LinesAt(lines, kept)[j] = lines[k]
<1> DEFINE Upto(k) == {i \in kept : i <= k}
           Ranked(j, k) == Cardinality(Upto(k)) = j
           Pos(j) == CHOOSE k \in kept : Ranked(j, k)
           n == Cardinality(kept)
           less == LinesAt(lines, kept)
<1>1. IsFiniteSet(kept) /\ n \in Nat
  <2>1. IsFiniteSet(1..Len(lines))
    BY FS_Interval
  <2> QED
    BY <2>1, FS_Subset, FS_CardinalityType
<1>2. ASSUME NEW j \in 1..n PROVE Pos(j) \in kept /\ Ranked(j, Pos(j))
  <2>1. \E k \in kept : Ranked(j, k)
    <3>1. Len(lines) \in Nat
      OBVIOUS
    <3> QED
      BY <3>1, RankedPosition
  <2> HIDE DEF Ranked
  <2> QED
    BY <2>1, Zenon
<1>3. less = [j \in 1..n |-> lines[Pos(j)]]
  BY DEF LinesAt
<1> HIDE DEF Pos, n, less
<1>4. \A k \in kept : lines[k] \in Stored
  OBVIOUS
<1>5. /\ less \in Seq(Stored) /\ Len(less) = n
      /\ \A j \in 1..n : less[j] = lines[Pos(j)]
  <2>1. \A j \in 1..n : lines[Pos(j)] \in Stored
    BY <1>2, <1>4
  <2> QED
    BY <1>1, <1>3, <2>1
<1>6. ASSUME NEW k \in kept PROVE \E j \in 1..n : Pos(j) = k
  <2> DEFINE j == Cardinality(Upto(k))
  <2>1. j \in 1..n
    <3>1. Upto(k) \in SUBSET kept /\ k \in Upto(k)
      OBVIOUS
    <3>2. IsFiniteSet(Upto(k)) /\ j <= n
      BY <1>1, <3>1, FS_Subset DEF n
    <3>3. j \in Nat /\ j # 0
      BY <3>1, <3>2, FS_CardinalityType, FS_EmptySet
    <3> QED
      BY <1>1, <3>2, <3>3
  <2>2. Pos(j) \in kept /\ Cardinality(Upto(Pos(j))) = j
    BY <1>2, <2>1
  <2>3. \A a, b \in kept : a < b => Cardinality(Upto(a)) # Cardinality(Upto(b))
    <3>1. Len(lines) \in Nat
      OBVIOUS
    <3> QED
      BY <3>1, RanksDiffer
  <2>4. k \in Nat /\ Pos(j) \in Nat
    <3>1. \A i \in kept : i \in Nat
      OBVIOUS
    <3>2. Pos(j) \in kept
      BY <2>2
    <3> HIDE DEF j
    <3> QED
      BY <3>1, <3>2
  <2>5. ~(k < Pos(j)) /\ ~(Pos(j) < k)
    BY <2>2, <2>3
  <2>6. Pos(j) = k
    BY <2>4, <2>5
  <2> HIDE DEF j
  <2> QED
    BY <2>1, <2>6
<1> QED
  BY <1>2, <1>5, <1>6 DEF less

\* What is left of a pair after a purge, and what is left of the others.
LEMMA SurvivorsAre ==
    ASSUME NEW lines \in Seq(Stored), NEW pair, Undamaged(lines)
    PROVE  /\ Survivors(lines, pair) \in Seq(Stored)
           /\ Undamaged(Survivors(lines, pair))
           /\ IdsIn(Survivors(lines, pair)) =
                 {lines[k].id : k \in {i \in 1..Len(lines) : lines[i].pair # pair}}
           /\ OnePairEach(lines) => OnePairEach(Survivors(lines, pair))
<1> DEFINE kept == {k \in 1..Len(lines) : lines[k].pair # pair}
           less == Survivors(lines, pair)
<1>1. kept \in SUBSET (1..Len(lines))
  OBVIOUS
<1>2. less = LinesAt(lines, kept)
  BY DEF Survivors
<1> HIDE DEF less
<1>3. /\ less \in Seq(Stored)
      /\ \A j \in 1..Len(less) : \E k \in kept : less[j] = lines[k]
      /\ \A k \in kept : \E j \in 1..Len(less) : less[j] = lines[k]
  <2> HIDE DEF kept
  <2> QED
    BY <1>1, <1>2, LinesAtAre
<1>4. Undamaged(less)
  BY <1>3 DEF Undamaged
<1>5. IdsIn(less) = {lines[k].id : k \in kept}
  <2>1. IdsIn(less) = {less[j].id : j \in 1..Len(less)}
    BY <1>4, UndamagedIds
  <2> HIDE DEF kept
  <2> QED
    BY <1>3, <2>1
<1>6. OnePairEach(lines) => OnePairEach(less)
  <2> SUFFICES ASSUME OnePairEach(lines), NEW i \in 1..Len(less), NEW j \in 1..Len(less),
                      less[i].id = less[j].id
               PROVE  less[i].pair = less[j].pair
    BY DEF OnePairEach
  <2>1. PICK k \in kept : less[i] = lines[k]
    BY <1>3
  <2>2. PICK m \in kept : less[j] = lines[m]
    BY <1>3
  <2> QED
    BY <1>1, <2>1, <2>2 DEF OnePairEach
<1> QED
  BY <1>3, <1>4, <1>5, <1>6 DEF less

LEMMA RelinkKeeps ==
    ASSUME NEW lines \in Seq(Stored), Undamaged(lines)
    PROVE  /\ Relink(lines) \in Seq(Stored)
           /\ Undamaged(Relink(lines)) /\ IdsIn(Relink(lines)) = IdsIn(lines)
           /\ OnePairEach(lines) => OnePairEach(Relink(lines))
<1> DEFINE new == Relink(lines)
           Linking(k) == IF Formed(lines[k]) /\ lines[k].prev # HashBefore(lines, k)
                         THEN [lines[k] EXCEPT !.prev = HashBefore(lines, k)] ELSE lines[k]
<1>1. ASSUME NEW k \in 1..Len(lines)
      PROVE  /\ Linking(k).kind = lines[k].kind /\ Linking(k).id = lines[k].id
             /\ Linking(k).pair = lines[k].pair
  <2>1. lines[k] \in Stored
    OBVIOUS
  <2> QED
    BY <2>1 DEF Stored, Line
<1>2. new = [k \in 1..Len(lines) |-> Linking(k)] /\ new \in Seq(Stored)
  BY RelinkLinks DEF Relink
<1> HIDE DEF new, Linking
<1>3. Len(new) = Len(lines) /\ \A k \in 1..Len(lines) :
         /\ new[k].kind = lines[k].kind /\ new[k].id = lines[k].id
         /\ new[k].pair = lines[k].pair
  BY <1>1, <1>2
<1>4. Undamaged(new)
  BY <1>3 DEF Undamaged, Formed
<1>5. IdsIn(new) = IdsIn(lines)
  <2>1. /\ IdsIn(new) = {new[k].id : k \in 1..Len(new)}
        /\ IdsIn(lines) = {lines[k].id : k \in 1..Len(lines)}
    BY <1>4, UndamagedIds
  <2> QED
    BY <1>3, <2>1
<1>6. OnePairEach(lines) => OnePairEach(new)
  BY <1>3 DEF OnePairEach
<1> QED
  BY <1>2, <1>4, <1>5, <1>6 DEF new

LEMMA CutBackAtTheEnd ==
    ASSUME NEW lines \in Seq(Stored)
    PROVE  CutBack(lines, Len(lines)) = lines
<1> DEFINE less == SubSeq(lines, 1, Len(lines))
<1>1. CutBack(lines, Len(lines)) = less
  BY DEF CutBack
<1>2. /\ less \in Seq(Stored) /\ Len(less) = Len(lines)
      /\ \A k \in 1..Len(lines) : less[k] = lines[k]
  OBVIOUS
<1> HIDE DEF less
<1> QED
  BY <1>1, <1>2

\* The ids of the events a purge of the pair leaves, and of those it takes.
Others(lines, pair) == {lines[k].id : k \in {i \in 1..Len(lines) : lines[i].pair # pair}}
Taken(lines, pair)  == {lines[k].id : k \in {i \in 1..Len(lines) : lines[i].pair = pair}}

Tombstone(p) ==
    [id |-> call[p].id, pair |-> NoPair, kind |-> "purge",
     prev |-> TailHash(Relink(Survivors(call[p].lines, call[p].pair)))]

LEMMA TakenOrLeft ==
    ASSUME NEW lines, NEW pair, Undamaged(lines)
    PROVE  /\ IdsIn(lines) = Others(lines, pair) \cup Taken(lines, pair)
           /\ OnePairEach(lines) => Others(lines, pair) \cap Taken(lines, pair) = {}
<1>1. IdsIn(lines) = {lines[k].id : k \in 1..Len(lines)}
  BY UndamagedIds
<1>2. IdsIn(lines) = Others(lines, pair) \cup Taken(lines, pair)
  BY <1>1 DEF Others, Taken
<1>3. ASSUME OnePairEach(lines), NEW id \in Others(lines, pair), id \in Taken(lines, pair)
      PROVE  FALSE
  BY <1>3 DEF Others, Taken, OnePairEach
<1> QED
  BY <1>2, <1>3

LEMMA RewrittenIs ==
    ASSUME NEW p \in Procs, call[p].lines \in Seq(Stored), call[p].id \in Ids,
           Undamaged(call[p].lines), OnePairEach(call[p].lines),
           call[p].id \notin IdsIn(call[p].lines)
    PROVE  /\ Rewritten(p) = Append(Relink(Survivors(call[p].lines, call[p].pair)), Tombstone(p))
           /\ Relink(Survivors(call[p].lines, call[p].pair)) \in Seq(Stored)
           /\ Tombstone(p) \in Stored
           /\ Undamaged(Rewritten(p)) /\ OnePairEach(Rewritten(p))
           /\ IdsIn(Rewritten(p)) = Others(call[p].lines, call[p].pair) \cup {call[p].id}
<1> DEFINE lines == call[p].lines
           less == Survivors(lines, call[p].pair)
           kept == Relink(less)
<1>1. /\ less \in Seq(Stored) /\ Undamaged(less) /\ OnePairEach(less)
      /\ IdsIn(less) = Others(lines, call[p].pair)
  BY SurvivorsAre DEF Others
<1>2. /\ kept \in Seq(Stored) /\ Undamaged(kept) /\ OnePairEach(kept)
      /\ IdsIn(kept) = Others(lines, call[p].pair)
  <2> HIDE DEF less
  <2> QED
    BY <1>1, RelinkKeeps
<1>3. TailHash(kept) \in Hashes
  BY <1>2, HashTyped DEF TailHash
<1>4. /\ Tombstone(p) \in Stored /\ Formed(Tombstone(p)) /\ Tombstone(p).id = call[p].id
  BY <1>3 DEF Stored, Line, Formed, Hashes, Tombstone
<1>5. Rewritten(p) = Glue(kept, Tombstone(p))
  BY DEF Rewritten, Tombstone
<1>6. Tombstone(p).id \notin IdsIn(kept)
  BY <1>2, <1>4, TakenOrLeft
<1> HIDE DEF kept
<1>7. /\ Rewritten(p) = Append(kept, Tombstone(p))
      /\ Undamaged(Append(kept, Tombstone(p)))
      /\ IdsIn(Append(kept, Tombstone(p))) = IdsIn(kept) \cup {call[p].id}
      /\ OnePairEach(Append(kept, Tombstone(p)))
  BY <1>2, <1>4, <1>5, <1>6, GlueAppends
<1> QED
  BY <1>2, <1>4, <1>7 DEF kept

LEMMA MatchingIds ==
    ASSUME NEW p \in Procs
    PROVE  {line.id : line \in Matching(p)} = Taken(call[p].lines, call[p].pair)
BY DEF Matching, Taken

-----------------------------------------------------------------------------
(* What is left to show of a step.                                         *)

LEMMA TwoProcs ==
    ASSUME WriterBesideSealer
    PROVE  /\ Writer \in Procs /\ Sealer \in Procs /\ Writer # Sealer
           /\ \A p \in Procs : p = Writer \/ p = Sealer
BY DEF WriterBesideSealer

LEMMA WriterCalls ==
    ASSUME WriterBesideSealer, TInv, NEW c, call' = [call EXCEPT ![Writer] = c]
    PROVE  W' = c /\ S' = S
BY TwoProcs DEF TInv, CallsFit, W, S

LEMMA SealerCalls ==
    ASSUME WriterBesideSealer, TInv, NEW c, call' = [call EXCEPT ![Sealer] = c]
    PROVE  S' = c /\ W' = W
BY TwoProcs DEF TInv, CallsFit, W, S

LEMMA EventsFollow ==
    ASSUME NEW mem, Memory' = mem, NEW ack, acked' = ack, NEW gone, erased' = gone,
           NEW n, used' = n, NEW c, W' = c, EventsFit(mem, ack, gone, n, c)
    PROVE  EventsOK'
<1>1. IdsIn(Memory)' = IdsIn(mem)
  BY DEF IdsIn, Formed
<1>2. Undamaged(Memory)' /\ OnePairEach(Memory)'
  BY DEF EventsFit, Undamaged, OnePairEach, Formed
<1> QED
  BY <1>1, <1>2 DEF EventsOK, EventsFit, Fresh, Purging, Anchoring

\* A call that has no event to write or to acknowledge.
LEMMA EventsQuiet ==
    ASSUME NEW mem, NEW ack, NEW gone, NEW n, NEW c, EventsFit(mem, ack, gone, n, c),
           NEW d, \/ d.stage \notin {"open", "lock"} \cup Anchoring \cup Purging
                  \/ /\ d.id = c.id /\ d.next = c.next /\ d.kind = c.kind
                     /\ \/ d.stage = "lock" /\ c.stage = "open"
                        \/ d.stage \in Anchoring /\ c.stage \in Anchoring
                        \/ d.stage \in Purging /\ c.stage \in Purging
                  \/ d.stage = "anchor" /\ d.kind = "purge" /\ d.next = Genesis
    PROVE  EventsFit(mem, ack, gone, n, d)
BY DEF EventsFit, Fresh, Purging, Anchoring

\* A step of the writer leaves the sealer's picture of the store alone.
LEMMA WriterMoves ==
    ASSUME WriterBesideSealer, TInv, SInv, NEW c, call' = [call EXCEPT ![Writer] = c],
           dir => dir', ~dir' => path' = path, path # NoFile => path' = path, path' \in Nat,
           Log' = Log, sealed' = sealed,
           \A i \in Inodes : holder[i] = Sealer => holder'[i] = Sealer,
           NEW ack, acked' = ack, NEW n, used' = n, erased' = erased,
           EventsFit(Memory, ack, erased, n, c), WriterOK', PurgeOK'
    PROVE  SInv' /\ Memory' = Memory
<1>1. W' = c /\ S' = S
  BY WriterCalls
<1>2. Memory' = Memory
  BY DEF Memory
<1>3. EventsOK'
  BY <1>1, <1>2, EventsFollow
<1>4. StoreOK'
  BY DEF SInv, StoreOK
<1>5. SealerOK'
  <2>1. path # NoFile => path \in Inodes
    BY NumbersTyped DEF TInv, FilesFit
  <2> QED
    BY <1>1, <2>1 DEF SInv, SealerOK, SealStages
<1> QED
  BY <1>2, <1>3, <1>4, <1>5 DEF SInv

\* The writer's call goes on without touching anything.
LEMMA WriterGoesOn ==
    ASSUME WriterBesideSealer, TInv, SInv, NEW c, call' = [call EXCEPT ![Writer] = c],
           UNCHANGED <<dir, path, sealed, acked, used, erased>>, Log' = Log,
           \A i \in Inodes : holder[i] = Sealer => holder'[i] = Sealer,
           EventsFit(Memory, acked, erased, used, c), WriterOK', PurgeOK'
    PROVE  SInv' /\ UNCHANGED <<Memory, acked>>
<1>1. path' \in Nat
  BY NumbersTyped DEF TInv, FilesFit
<1> QED
  BY <1>1, WriterMoves

\* The writer's call ends; an idle writer asks for nothing.
LEMMA IdleWriter ==
    ASSUME W' = Idle
    PROVE  WriterOK' /\ PurgeOK'
BY DEF WriterOK, PurgeOK, Idle, SealStages, Restoring, Purging

LEMMA IdleEvents ==
    ASSUME EventsOK PROVE EventsFit(Memory, acked, erased, used, Idle)
BY EventsQuiet DEF EventsOK, Idle, Purging, Anchoring

LEMMA WriterEnds ==
    ASSUME WriterBesideSealer, TInv, SInv, Finish(Writer),
           UNCHANGED <<dir, path, sealed, acked, used, erased>>, Log' = Log,
           \A i \in Inodes : holder[i] = Sealer => holder'[i] = Sealer
    PROVE  SInv' /\ UNCHANGED <<Memory, acked>>
<1>1. call' = [call EXCEPT ![Writer] = Idle]
  BY DEF Finish
<1>2. W' = Idle
  BY <1>1, WriterCalls
<1>3. EventsFit(Memory, acked, erased, used, Idle)
  BY IdleEvents DEF SInv
<1> QED
  BY <1>1, <1>2, <1>3, IdleWriter, WriterGoesOn

\* A step of the sealer while nobody purges or restores.
LEMMA SealerMoves ==
    ASSUME WriterBesideSealer, TInv, SInv, W.kind # "purge", W.stage \notin Restoring,
           NEW c, call' = [call EXCEPT ![Sealer] = c],
           UNCHANGED <<acked, erased, used>>, Memory' = Memory,
           ~sealed'.there => ~sealed.there /\ Log' = Log /\ (path # NoFile => path' = path),
           StoreOK', SealerOK'
    PROVE  SInv' /\ UNCHANGED <<Memory, acked>>
<1>1. S' = c /\ W' = W
  BY SealerCalls
<1>2. EventsOK'
  BY <1>1, EventsFollow DEF SInv, EventsOK
<1>3. WriterOK'
  BY <1>1 DEF SInv, WriterOK, SealStages, Restoring
<1>4. PurgeOK'
  BY <1>1 DEF SInv, PurgeOK, Purging
<1> QED
  BY <1>2, <1>3, <1>4 DEF SInv

-----------------------------------------------------------------------------
(* The steps of the sealer.                                                *)

LEMMA SealerDoes ==
    ASSUME WriterBesideSealer, TInv, SInv, LogStep(Sealer) \/ SealStep(Sealer)
    PROVE  \/ SealFolder(Sealer) \/ OpenToSeal(Sealer) \/ SealFails(Sealer)
           \/ TakeSnapshot(Sealer) \/ WriteBlob(Sealer) \/ RemoveStore(Sealer)
           \/ Crash(Sealer)
<1>1. S.stage \in SealStages \cup {"out"} /\ OpsOf[Sealer] \subseteq {"seal"}
  BY DEF SInv, SealerOK, WriterBesideSealer
<1>2. ~AppendStep(Sealer)
  BY <1>1 DEF AppendStep, AppendEvent, Calls, OpenToAppend, AppendRefused, WriteEvent,
              WriteHitsFullDisk, OpenAnchor, WriteAnchor, MoveAnchor, AnchorFails, S, SealStages
<1>3. ~PurgeStep(Sealer)
  BY <1>1 DEF PurgeStep, Purge, Calls, ReadSnapshot, OpenToRewrite, WriteShard, ShardHitsFullDisk,
              ReplaceLog, PurgeFails, OpenForTail, ReadTail, S, SealStages
<1>4. ~DieMidWrite(Sealer)
  BY DEF WriterBesideSealer, DieMidWrite
<1>5. SealStep(Sealer) => \/ SealFolder(Sealer) \/ OpenToSeal(Sealer) \/ SealFails(Sealer)
                          \/ TakeSnapshot(Sealer) \/ WriteBlob(Sealer) \/ RemoveStore(Sealer)
  BY <1>1 DEF SealStep, Construct, MakeDir, Calls, UnsealFolder, RestoreDir, RestoreFiles,
              RemoveBlob, S, SealStages
<1> QED
  BY <1>2, <1>3, <1>4, <1>5 DEF LogStep

\* While the sealer is at work the writer neither purges nor restores.
LEMMA SealerAtWork ==
    ASSUME SInv, S.stage # "out"
    PROVE  W.kind # "purge" /\ W.stage \notin Restoring
BY DEF SInv, WriterOK, PurgeOK

\* A call of the sealer that leaves the store alone.
LEMMA SealerGoesOn ==
    ASSUME WriterBesideSealer, TInv, SInv, W.kind # "purge", W.stage \notin Restoring,
           NEW c, call' = [call EXCEPT ![Sealer] = c],
           UNCHANGED <<dir, path, content, sealed, acked, erased, used>>, SealerOK'
    PROVE  SInv' /\ UNCHANGED <<Memory, acked>>
<1>1. Log' = Log /\ Memory' = Memory
  BY DEF Memory, Log
<1>2. StoreOK'
  BY <1>1 DEF SInv, StoreOK
<1> QED
  BY <1>1, <1>2, SealerMoves

LEMMA IdleSealer == S' = Idle => SealerOK'
BY DEF SealerOK, Idle, SealStages

LEMMA SealFolderKeeps ==
    ASSUME WriterBesideSealer, TInv, SInv, SealFolder(Sealer)
    PROVE  SInv' /\ UNCHANGED <<Memory, acked>>
<1> DEFINE c == [call[Sealer] EXCEPT !.stage = "sealopen"]
<1>1. /\ call[Sealer] = Idle /\ ~sealed.there /\ dir /\ W.kind # "purge"
      /\ call' = [call EXCEPT ![Sealer] = c]
      /\ UNCHANGED <<files, cache, used, acked, erased, crashes>>
  BY TwoProcs DEF SealFolder, Calls, Undisturbed, WriterBesideSealer, W, TInv, CallsFit
<1>2. W.stage \notin Restoring
  BY <1>1 DEF SInv, WriterOK
<1>3. c.stage = "sealopen" /\ c.kind # "purge"
  BY <1>1 DEF Idle
<1> HIDE DEF c
<1>4. S' = c
  BY <1>1, SealerCalls
<1>5. SealerOK'
  BY <1>1, <1>3, <1>4 DEF SealerOK, SealStages, files
<1> QED
  BY <1>1, <1>2, <1>5, SealerGoesOn DEF files

LEMMA OpenToSealKeeps ==
    ASSUME WriterBesideSealer, TInv, SInv, OpenToSeal(Sealer)
    PROVE  SInv' /\ UNCHANGED <<Memory, acked>>
<1> DEFINE c == [call[Sealer] EXCEPT !.stage = "seallock", !.file = path',
                                     !.size = Len(content[path'])]
<1>1. /\ call[Sealer].stage = "sealopen" /\ dir
      /\ call' = [call EXCEPT ![Sealer] = c]
      /\ path' = (IF path = NoFile THEN inodes + 1 ELSE path)
      /\ UNCHANGED <<dir, content, holder, sealed, used, acked, erased>>
  BY TwoProcs DEF OpenToSeal, Open, TInv, CallsFit
<1>2. Log' = Log /\ Memory' = Memory
  BY <1>1, TwoProcs, OpenToSealFits DEF Memory
<1>3. call[Sealer] \in Calling /\ inodes \in Nat
  BY TwoProcs, NumbersTyped DEF TInv, CallsFit, FilesFit
<1>4. path' # NoFile /\ (path # NoFile => path' = path)
  BY <1>1, <1>3, NumbersTyped
<1>5. c.stage = "seallock" /\ c.kind = call[Sealer].kind /\ c.file = path'
  BY <1>3 DEF Calling
<1> HIDE DEF c
<1>6. S' = c
  BY <1>1, SealerCalls
<1>7. SealerOK'
  BY <1>1, <1>4, <1>5, <1>6 DEF SInv, SealerOK, SealStages, S
<1>8. StoreOK'
  BY <1>1, <1>2 DEF SInv, StoreOK
<1>9. W.kind # "purge" /\ W.stage \notin Restoring
  BY <1>1, SealerAtWork DEF S
<1> QED
  BY <1>1, <1>2, <1>4, <1>7, <1>8, <1>9, SealerMoves

LEMMA SealFailsKeeps ==
    ASSUME WriterBesideSealer, TInv, SInv, SealFails(Sealer)
    PROVE  SInv' /\ UNCHANGED <<Memory, acked>>
<1>1. /\ S.stage # "out" /\ call' = [call EXCEPT ![Sealer] = Idle]
      /\ UNCHANGED <<dir, path, content, sealed, acked, erased, used>>
  BY DEF SealFails, GiveUp, Finish, files, S
<1>2. S' = Idle
  BY <1>1, SealerCalls
<1> QED
  BY <1>1, <1>2, IdleSealer, SealerAtWork, SealerGoesOn

LEMMA SealerDies ==
    ASSUME WriterBesideSealer, TInv, SInv, Crash(Sealer)
    PROVE  SInv' /\ UNCHANGED <<Memory, acked>>
<1>1. /\ S # Idle /\ call' = [call EXCEPT ![Sealer] = Idle]
      /\ UNCHANGED <<dir, path, content, sealed, acked, erased, used>>
  BY DEF Crash, Dies, Finish, S
<1>2. S.stage # "out"
  BY <1>1 DEF SInv, SealerOK
<1>3. S' = Idle
  BY <1>1, SealerCalls
<1> QED
  BY <1>1, <1>2, <1>3, IdleSealer, SealerAtWork, SealerGoesOn

LEMMA TakeSnapshotKeeps ==
    ASSUME WriterBesideSealer, TInv, SInv, TakeSnapshot(Sealer)
    PROVE  SInv' /\ UNCHANGED <<Memory, acked>>
<1> DEFINE c == [call[Sealer] EXCEPT !.stage = "sealblob", !.lines = Log,
                                     !.heads = HeadsNow]
<1>1. /\ call[Sealer].stage = "seallock"
      /\ call' = [call EXCEPT ![Sealer] = c]
      /\ holder' = [holder EXCEPT ![call[Sealer].file] = Sealer]
      /\ UNCHANGED <<dir, path, content, sealed, acked, erased, used>>
  BY TwoProcs DEF TakeSnapshot, otherVars, TInv, CallsFit
<1>2. call[Sealer].file = path /\ path # NoFile /\ dir /\ ~sealed.there
  BY <1>1 DEF SInv, SealerOK, S
<1>3. call[Sealer] \in Calling /\ path \in Inodes /\ holder \in [Inodes -> Procs \cup {Nobody}]
  BY <1>2, TwoProcs, NumbersTyped DEF TInv, CallsFit, FilesFit, CountsFit
<1>4. holder'[path] = Sealer
  BY <1>1, <1>2, <1>3
<1>5. /\ c.stage = "sealblob" /\ c.kind = call[Sealer].kind /\ c.file = call[Sealer].file
      /\ c.lines = Log
  BY <1>3 DEF Calling
<1> HIDE DEF c
<1>6. S' = c /\ Log' = Log
  BY <1>1, SealerCalls DEF Log
<1>7. SealerOK'
  BY <1>1, <1>2, <1>4, <1>5, <1>6 DEF SInv, SealerOK, SealStages, S
<1>8. W.kind # "purge" /\ W.stage \notin Restoring
  BY <1>1, SealerAtWork DEF S
<1> QED
  BY <1>1, <1>7, <1>8, SealerGoesOn

\* The blob has what the log has; the log shows in it from now on.
LEMMA WriteBlobKeeps ==
    ASSUME WriterBesideSealer, TInv, SInv, WriteBlob(Sealer)
    PROVE  SInv' /\ UNCHANGED <<Memory, acked>>
<1> DEFINE c == [call[Sealer] EXCEPT !.stage = "sealremove"]
<1>1. /\ call[Sealer].stage = "sealblob"
      /\ call' = [call EXCEPT ![Sealer] = c]
      /\ sealed' = [there |-> TRUE, lines |-> call[Sealer].lines, heads |-> call[Sealer].heads]
      /\ UNCHANGED <<dir, path, content, holder, acked, erased, used>>
  BY TwoProcs DEF WriteBlob, otherVars, TInv, CallsFit
<1>2. call[Sealer].lines = Log /\ dir /\ ~sealed.there
  BY <1>1 DEF SInv, SealerOK, S
<1>3. sealed'.there /\ sealed'.lines = Log /\ Log' = Log
  BY <1>1, <1>2 DEF Log
<1>4. Memory' = Memory
  BY <1>2, <1>3 DEF Memory
<1>5. c.stage = "sealremove" /\ c.kind = call[Sealer].kind
  BY TwoProcs DEF TInv, CallsFit, Calling
<1> HIDE DEF c
<1>6. S' = c
  BY <1>1, SealerCalls
<1>7. SealerOK'
  BY <1>1, <1>2, <1>3, <1>5, <1>6 DEF SInv, SealerOK, SealStages, S
<1>8. StoreOK'
  BY <1>1, <1>2, <1>3 DEF StoreOK
<1>9. W.kind # "purge" /\ W.stage \notin Restoring
  BY <1>1, SealerAtWork DEF S
<1> QED
  BY <1>1, <1>3, <1>4, <1>7, <1>8, <1>9, SealerMoves

LEMMA RemoveStoreKeeps ==
    ASSUME WriterBesideSealer, TInv, SInv, RemoveStore(Sealer)
    PROVE  SInv' /\ UNCHANGED <<Memory, acked>>
<1>1. /\ call[Sealer].stage = "sealremove"
      /\ call' = [call EXCEPT ![Sealer] = Idle]
      /\ ~dir' /\ path' = NoFile
      /\ UNCHANGED <<content, sealed, acked, erased, used>>
  BY DEF RemoveStore, otherVars, Finish
<1>2. sealed.there
  BY <1>1 DEF SInv, SealerOK, S
<1>3. Memory' = Memory /\ Log' = <<>> /\ sealed'.there
  BY <1>1, <1>2 DEF Memory, Log
<1>4. S' = Idle
  BY <1>1, SealerCalls
<1>5. StoreOK'
  BY <1>1, <1>3 DEF StoreOK
<1>6. W.kind # "purge" /\ W.stage \notin Restoring
  BY <1>1, SealerAtWork DEF S
<1> QED
  BY <1>1, <1>3, <1>4, <1>5, <1>6, IdleSealer, SealerMoves

LEMMA SealerKeeps ==
    ASSUME WriterBesideSealer, TInv, SInv, LogStep(Sealer) \/ SealStep(Sealer)
    PROVE  SInv' /\ UNCHANGED <<Memory, acked>>
BY SealerDoes, SealFolderKeeps, OpenToSealKeeps, SealFailsKeeps, TakeSnapshotKeeps,
   WriteBlobKeeps, RemoveStoreKeeps, SealerDies

-----------------------------------------------------------------------------
(* The steps of the writer that do not show in the log.                    *)

WriterActs ==
    \/ \E pair \in Pairs : AppendEvent(Writer, pair) \/ Purge(Writer, pair)
    \/ OpenToAppend(Writer) \/ AppendRefused(Writer) \/ WriteEvent(Writer)
    \/ WriteHitsFullDisk(Writer) \/ OpenAnchor(Writer) \/ WriteAnchor(Writer)
    \/ MoveAnchor(Writer) \/ AnchorFails(Writer)
    \/ ReadSnapshot(Writer) \/ OpenToRewrite(Writer) \/ WriteShard(Writer)
    \/ ShardHitsFullDisk(Writer) \/ ReplaceLog(Writer) \/ PurgeFails(Writer)
    \/ OpenForTail(Writer) \/ ReadTail(Writer) \/ Crash(Writer)
    \/ Construct(Writer) \/ MakeDir(Writer) \/ UnsealFolder(Writer)
    \/ RestoreDir(Writer) \/ RestoreFiles(Writer) \/ RemoveBlob(Writer)

LEMMA WriterDoes ==
    ASSUME WriterBesideSealer, SInv, LogStep(Writer) \/ SealStep(Writer)
    PROVE  WriterActs
<1>1. W.stage \notin SealStages /\ "seal" \notin OpsOf[Writer]
  BY DEF SInv, WriterOK, WriterBesideSealer
<1>2. ~DieMidWrite(Writer)
  BY DEF WriterBesideSealer, DieMidWrite
<1>3. SealStep(Writer) => WriterActs
  BY <1>1 DEF SealStep, SealFolder, OpenToSeal, SealFails, TakeSnapshot, WriteBlob, RemoveStore,
              Calls, W, SealStages, WriterActs
<1>4. AppendStep(Writer) \/ PurgeStep(Writer) \/ Crash(Writer) => WriterActs
  BY DEF AppendStep, PurgeStep, WriterActs
<1> QED
  BY <1>2, <1>3, <1>4 DEF LogStep

LEMMA AppendRefusedKeeps ==
    ASSUME WriterBesideSealer, TInv, SInv, AppendRefused(Writer) \/ PurgeFails(Writer)
    PROVE  SInv' /\ UNCHANGED <<Memory, acked>>
BY WriterEnds DEF AppendRefused, PurgeFails, GiveUp, files, Log

LEMMA AppendEventKeeps ==
    ASSUME WriterBesideSealer, TInv, SInv, NEW pair \in Pairs, AppendEvent(Writer, pair)
    PROVE  SInv' /\ UNCHANGED <<Memory, acked>>
<1>1. /\ call[Writer] = Idle /\ UNCHANGED <<files, cache, acked, erased, crashes>>
      /\ used \in Nat
  BY NumbersTyped DEF AppendEvent, Calls, TInv, CountsFit
<1>2. PICK c, n :
        /\ call' = [call EXCEPT ![Writer] = c] /\ used' = n
        /\ c.stage = "open" /\ c.kind # "purge" /\ c.id = used + 1
        /\ \/ c.next = Genesis /\ n = used + 1
           \/ c.next = used + 2 /\ n = used + 2
  <2> DEFINE c1 == [Idle EXCEPT !.stage = "open", !.pair = pair, !.kind = "registration",
                                !.id = used + 1, !.next = used + 2]
             c2 == [Idle EXCEPT !.stage = "open", !.pair = pair, !.id = used + 1]
  <2>1. /\ c1.stage = "open" /\ c1.kind # "purge" /\ c1.id = used + 1 /\ c1.next = used + 2
        /\ c2.stage = "open" /\ c2.kind # "purge" /\ c2.id = used + 1 /\ c2.next = Genesis
    BY DEF Idle
  <2>2. \/ call' = [call EXCEPT ![Writer] = c1] /\ used' = used + 2
        \/ call' = [call EXCEPT ![Writer] = c2] /\ used' = used + 1
    BY DEF AppendEvent
  <2> HIDE DEF c1, c2
  <2> QED
    BY <2>1, <2>2
<1>3. EventsFit(Memory, acked, erased, n, c)
  <2>1. EventsFit(Memory, acked, erased, used, W)
    BY DEF SInv, EventsOK
  <2>2. Fresh(c.id, Memory, acked, erased, n)
    BY <1>1, <1>2, <2>1 DEF EventsFit, Fresh
  <2>3. c.next # Genesis => Fresh(c.next, Memory, acked, erased, n) /\ c.next # c.id
    BY <1>1, <1>2, <2>1 DEF EventsFit, Fresh
  <2>4. 1..used \subseteq 1..n
    BY <1>1, <1>2
  <2> QED
    BY <1>2, <2>1, <2>2, <2>3, <2>4 DEF EventsFit, Purging, Anchoring
<1>4. W' = c
  BY <1>2, WriterCalls
<1>5. WriterOK' /\ PurgeOK'
  BY <1>2, <1>4 DEF WriterOK, PurgeOK, SealStages, Restoring, Purging
<1>6. Log' = Log /\ path' \in Nat /\ UNCHANGED <<dir, path, sealed, holder>>
  BY <1>1, NumbersTyped DEF files, Log, TInv, FilesFit
<1> QED
  BY <1>1, <1>2, <1>3, <1>5, <1>6, WriterMoves

LEMMA OpenToAppendKeeps ==
    ASSUME WriterBesideSealer, TInv, SInv, OpenToAppend(Writer)
    PROVE  SInv' /\ UNCHANGED <<Memory, acked>>
<1> DEFINE c == [call[Writer] EXCEPT !.stage = "lock", !.file = path',
                                     !.size = Len(content[path'])]
<1>1. /\ call[Writer].stage = "open" /\ dir
      /\ call' = [call EXCEPT ![Writer] = c]
      /\ path' = (IF path = NoFile THEN inodes + 1 ELSE path)
      /\ UNCHANGED <<dir, content, holder, sealed, used, acked, erased>>
  BY TwoProcs DEF OpenToAppend, Open, TInv, CallsFit
<1>2. Log' = Log
  BY TwoProcs, OpenToAppendFits
<1>3. call[Writer] \in Calling /\ inodes \in Nat /\ path \in Nat
  BY TwoProcs, NumbersTyped DEF TInv, CallsFit, FilesFit
<1>4. path' # NoFile /\ path' \in Nat /\ (path # NoFile => path' = path)
  BY <1>1, <1>3, NumbersTyped
<1>5. /\ c.stage = "lock" /\ c.kind = call[Writer].kind /\ c.file = path'
      /\ c.id = call[Writer].id /\ c.next = call[Writer].next /\ c.size = Len(content[path'])
  BY <1>3 DEF Calling
<1> HIDE DEF c
<1>6. W' = c
  BY <1>1, WriterCalls
<1>7. EventsFit(Memory, acked, erased, used, c)
  BY <1>1, <1>5, EventsQuiet DEF SInv, EventsOK, W
<1>8. Log' = content[path']
  BY <1>1, <1>4 DEF Log
<1>9. WriterOK' /\ PurgeOK'
  BY <1>1, <1>4, <1>5, <1>6, <1>8
     DEF SInv, WriterOK, PurgeOK, SealStages, Restoring, Purging, W
<1> QED
  BY <1>1, <1>2, <1>4, <1>7, <1>9, WriterMoves

\* Nothing is cut off: the file is as long as when it was opened.
LEMMA WriteHitsFullDiskKeeps ==
    ASSUME WriterBesideSealer, TInv, SInv, WriteHitsFullDisk(Writer)
    PROVE  SInv' /\ UNCHANGED <<Memory, acked>>
<1> DEFINE file == call[Writer].file
           lines == CutBack(content[file], call[Writer].size)
<1>1. /\ call[Writer].stage = "lock" /\ ~sealed.there /\ Finish(Writer)
      /\ content' = [content EXCEPT ![file] = lines]
      /\ UNCHANGED <<dir, path, holder, sealed, used, acked, erased>>
  BY DEF WriteHitsFullDisk
<1>2. file = path /\ path # NoFile /\ call[Writer].size = Len(Log)
  BY <1>1 DEF SInv, WriterOK, W
<1>3. Log \in Seq(Stored) /\ content[file] = Log /\ file \in Inodes \cup {NoFile}
  BY <1>2, LogFits, TwoProcs, FileOpened
<1>4. lines = Log
  BY <1>2, <1>3, CutBackAtTheEnd
<1> HIDE DEF lines, file
<1>5. Log' = Log
  BY <1>1, <1>2, <1>3, <1>4, LogWritten
<1> QED
  BY <1>1, <1>5, WriterEnds

LEMMA PurgeKeeps ==
    ASSUME WriterBesideSealer, TInv, SInv, NEW pair \in Pairs, Purge(Writer, pair)
    PROVE  SInv' /\ UNCHANGED <<Memory, acked>>
<1> DEFINE c == [Idle EXCEPT !.stage = "snapshot", !.pair = pair, !.kind = "purge",
                             !.id = used', !.file = path]
<1>1. /\ ~sealed.there /\ path # NoFile /\ used' = used + 1
      /\ call' = [call EXCEPT ![Writer] = c]
      /\ UNCHANGED <<files, cache, acked, erased, crashes>>
  BY DEF Purge, Calls
<1>2. call[Sealer] = Idle
  BY TwoProcs DEF Purge, Calls, Undisturbed, WriterBesideSealer
<1>3. /\ c.stage = "snapshot" /\ c.kind = "purge" /\ c.id = used' /\ c.file = path
      /\ c.next = Genesis
  BY DEF Idle
<1> HIDE DEF c
<1>4. W' = c /\ S' = S
  BY <1>1, WriterCalls
<1>5. used \in Nat /\ used + 1 \in Nat
  BY NumbersTyped DEF TInv, CountsFit
<1>6. EventsFit(Memory, acked, erased, used + 1, c)
  <2>1. EventsFit(Memory, acked, erased, used, W)
    BY DEF SInv, EventsOK
  <2>2. Fresh(c.id, Memory, acked, erased, used + 1)
    BY <1>1, <1>3, <1>5, <2>1 DEF EventsFit, Fresh
  <2>3. 1..used \subseteq 1..(used + 1)
    BY <1>5
  <2> QED
    BY <1>3, <2>1, <2>2, <2>3 DEF EventsFit
<1>7. Log' = Log /\ path' \in Nat /\ UNCHANGED <<dir, path, sealed, holder>>
  BY <1>1, NumbersTyped DEF files, Log, TInv, FilesFit
<1>8. WriterOK'
  BY <1>3, <1>4 DEF WriterOK, SealStages, Restoring
<1>9. PurgeOK'
  <2>1. S'.stage = "out"
    BY <1>2, <1>4 DEF Idle, S
  <2> QED
    BY <1>1, <1>3, <1>4, <1>7, <2>1 DEF PurgeOK, Purging
<1> QED
  BY <1>1, <1>5, <1>6, <1>7, <1>8, <1>9, WriterMoves

LEMMA ReadSnapshotKeeps ==
    ASSUME WriterBesideSealer, TInv, SInv, ReadSnapshot(Writer)
    PROVE  SInv' /\ UNCHANGED <<Memory, acked>>
<1> DEFINE lines == content[call[Writer].file]
           c == [call[Writer] EXCEPT !.stage = "reopen", !.lines = lines, !.file = NoFile]
<1>1. /\ call[Writer].stage = "snapshot"
      /\ UNCHANGED <<files, cache, used, acked, erased, crashes>>
      /\ IF \E k \in 1..Len(lines) : lines[k].pair = call[Writer].pair
         THEN call' = [call EXCEPT ![Writer] = c] ELSE Finish(Writer)
  BY TwoProcs DEF ReadSnapshot, TInv, CallsFit
<1>2. Log' = Log /\ UNCHANGED <<dir, path, sealed, holder>>
  BY <1>1 DEF files, Log
<1>3. CASE Finish(Writer)
  BY <1>1, <1>2, <1>3, WriterEnds
<1>4. CASE ~Finish(Writer)
  <2>1. call[Writer].kind = "purge" /\ call[Writer].file = path /\ path # NoFile
    BY <1>1 DEF SInv, PurgeOK, Purging, W
  <2>2. lines = Log
    BY <2>1 DEF Log
  <2>3. /\ call' = [call EXCEPT ![Writer] = c]
        /\ \E k \in 1..Len(Log) : Log[k].pair = call[Writer].pair
    BY <1>1, <1>4, <2>2
  <2>4. /\ c.stage = "reopen" /\ c.kind = call[Writer].kind /\ c.lines = lines
        /\ c.id = call[Writer].id /\ c.next = call[Writer].next /\ c.pair = call[Writer].pair
    BY TwoProcs DEF TInv, CallsFit, Calling
  <2> HIDE DEF c, lines
  <2>5. W' = c /\ S' = S
    BY <2>3, WriterCalls
  <2>6. EventsFit(Memory, acked, erased, used, c)
    BY <1>1, <2>4, EventsQuiet DEF SInv, EventsOK, Purging, W
  <2>7. WriterOK'
    BY <2>4, <2>5 DEF WriterOK, SealStages, Restoring
  <2>8. PurgeOK'
    BY <1>2, <2>1, <2>2, <2>3, <2>4, <2>5 DEF SInv, PurgeOK, Purging, W
  <2> QED
    BY <1>1, <1>2, <2>3, <2>6, <2>7, <2>8, WriterGoesOn
<1> QED
  BY <1>3, <1>4

LEMMA OpenToRewriteKeeps ==
    ASSUME WriterBesideSealer, TInv, SInv, OpenToRewrite(Writer)
    PROVE  SInv' /\ UNCHANGED <<Memory, acked>>
<1> DEFINE c == [call[Writer] EXCEPT !.stage = "rewrite", !.file = path',
                                     !.size = Len(content[path'])]
<1>1. /\ call[Writer].stage = "reopen"
      /\ call' = [call EXCEPT ![Writer] = c]
      /\ path' = (IF path = NoFile THEN inodes + 1 ELSE path)
      /\ UNCHANGED <<dir, content, holder, sealed, used, acked, erased>>
  BY TwoProcs DEF OpenToRewrite, Open, TInv, CallsFit
<1>2. path # NoFile /\ path' = path /\ Log' = Log
  BY <1>1 DEF SInv, PurgeOK, Purging, W, Log
<1>3. /\ c.stage = "rewrite" /\ c.kind = call[Writer].kind /\ c.lines = call[Writer].lines
      /\ c.id = call[Writer].id /\ c.next = call[Writer].next /\ c.pair = call[Writer].pair
  BY TwoProcs DEF TInv, CallsFit, Calling
<1> HIDE DEF c
<1>4. W' = c /\ S' = S
  BY <1>1, WriterCalls
<1>5. EventsFit(Memory, acked, erased, used, c)
  BY <1>1, <1>3, EventsQuiet DEF SInv, EventsOK, Purging, W
<1>6. WriterOK'
  BY <1>3, <1>4 DEF WriterOK, SealStages, Restoring
<1>7. PurgeOK'
  BY <1>1, <1>2, <1>3, <1>4 DEF SInv, PurgeOK, Purging, W
<1> QED
  BY <1>1, <1>2, <1>5, <1>6, <1>7, WriterGoesOn

LEMMA WriteShardKeeps ==
    ASSUME WriterBesideSealer, TInv, SInv, WriteShard(Writer)
    PROVE  SInv' /\ UNCHANGED <<Memory, acked>>
<1> DEFINE c == [call[Writer] EXCEPT !.stage = "replace"]
<1>1. /\ call[Writer].stage = "rewrite" /\ holder[call[Writer].file] = Nobody
      /\ holder' = [holder EXCEPT ![call[Writer].file] = Writer]
      /\ shard' = [there |-> TRUE, lines |-> Rewritten(Writer)]
      /\ call' = [call EXCEPT ![Writer] = c]
      /\ UNCHANGED <<dir, path, content, sealed, used, acked, erased>>
  BY TwoProcs DEF WriteShard, LockFree, TInv, CallsFit
<1>2. /\ c.stage = "replace" /\ c.kind = call[Writer].kind /\ c.lines = call[Writer].lines
      /\ c.id = call[Writer].id /\ c.next = call[Writer].next /\ c.pair = call[Writer].pair
  BY TwoProcs DEF TInv, CallsFit, Calling
<1> HIDE DEF c
<1>3. W' = c /\ S' = S /\ Log' = Log
  BY <1>1, WriterCalls DEF Log
<1>4. EventsFit(Memory, acked, erased, used, c)
  BY <1>1, <1>2, EventsQuiet DEF SInv, EventsOK, Purging, W
<1>5. WriterOK'
  BY <1>2, <1>3 DEF WriterOK, SealStages, Restoring
<1>6. Rewritten(Writer)' = Rewritten(Writer)
  BY <1>2, <1>3 DEF Rewritten, W
<1>7. shard'.there /\ shard'.lines = Rewritten(Writer)'
  BY <1>1, <1>6
<1>8. PurgeOK'
  BY <1>1, <1>2, <1>3, <1>7 DEF SInv, PurgeOK, Purging, W
<1>9. \A i \in Inodes : holder[i] = Sealer => holder'[i] = Sealer
  <2>1. holder \in [Inodes -> Procs \cup {Nobody}] /\ Sealer # Nobody
    BY TwoProcs, MutationLogAssumption DEF TInv, CountsFit
  <2> QED
    BY <1>1, <2>1
<1> QED
  BY <1>1, <1>3, <1>4, <1>5, <1>8, <1>9, WriterGoesOn

LEMMA ShardHitsFullDiskKeeps ==
    ASSUME WriterBesideSealer, TInv, SInv, ShardHitsFullDisk(Writer)
    PROVE  SInv' /\ UNCHANGED <<Memory, acked>>
BY WriterEnds DEF ShardHitsFullDisk, Log

LEMMA OpenForTailKeeps ==
    ASSUME WriterBesideSealer, TInv, SInv, OpenForTail(Writer)
    PROVE  SInv' /\ UNCHANGED <<Memory, acked>>
<1> DEFINE c == [call[Writer] EXCEPT !.stage = "tailread", !.file = path]
<1>1. /\ call[Writer].stage = "tail"
      /\ UNCHANGED <<files, cache, used, acked, erased, crashes>>
      /\ IF path = NoFile THEN Finish(Writer) ELSE call' = [call EXCEPT ![Writer] = c]
  BY TwoProcs DEF OpenForTail, TInv, CallsFit
<1>2. Log' = Log /\ UNCHANGED <<dir, path, sealed, holder>>
  BY <1>1 DEF files, Log
<1>3. CASE path = NoFile
  BY <1>1, <1>2, <1>3, WriterEnds
<1>4. CASE path # NoFile
  <2>1. call' = [call EXCEPT ![Writer] = c]
    BY <1>1, <1>4
  <2>2. c.stage = "tailread" /\ c.kind = call[Writer].kind /\ c.next = call[Writer].next
    BY TwoProcs DEF TInv, CallsFit, Calling
  <2> HIDE DEF c
  <2>3. W' = c /\ S' = S
    BY <2>1, WriterCalls
  <2>4. EventsFit(Memory, acked, erased, used, c)
    BY <2>2, EventsQuiet DEF SInv, EventsOK, Purging, Anchoring
  <2>5. WriterOK'
    BY <2>2, <2>3 DEF WriterOK, SealStages, Restoring
  <2>6. PurgeOK'
    BY <1>1, <1>2, <2>2, <2>3 DEF SInv, PurgeOK, Purging, W
  <2> QED
    BY <1>1, <1>2, <2>1, <2>4, <2>5, <2>6, WriterGoesOn
<1> QED
  BY <1>3, <1>4

LEMMA ReadTailKeeps ==
    ASSUME WriterBesideSealer, TInv, SInv, ReadTail(Writer)
    PROVE  SInv' /\ UNCHANGED <<Memory, acked>>
<1> DEFINE head == TailHash(content[call[Writer].file])
           c == [call[Writer] EXCEPT !.stage = "anchor", !.id = head]
<1>1. /\ call[Writer].stage = "tailread"
      /\ UNCHANGED <<files, cache, used, acked, erased, crashes>>
      /\ IF head = Genesis THEN Finish(Writer) ELSE call' = [call EXCEPT ![Writer] = c]
  BY TwoProcs DEF ReadTail, TInv, CallsFit
<1>2. Log' = Log /\ UNCHANGED <<dir, path, sealed, holder>>
  BY <1>1 DEF files, Log
<1>3. CASE head = Genesis
  BY <1>1, <1>2, <1>3, WriterEnds
<1>4. CASE head # Genesis
  <2>1. call' = [call EXCEPT ![Writer] = c]
    BY <1>1, <1>4
  <2>2. c.stage = "anchor" /\ c.kind = call[Writer].kind /\ c.next = call[Writer].next
    BY TwoProcs DEF TInv, CallsFit, Calling
  <2> HIDE DEF c
  <2>3. W' = c /\ S' = S
    BY <2>1, WriterCalls
  <2>4. c.kind = "purge" /\ c.next = Genesis
    BY <1>1, <2>2 DEF SInv, PurgeOK, W
  <2>5. EventsFit(Memory, acked, erased, used, c)
    BY <2>2, <2>4, EventsQuiet DEF SInv, EventsOK, Purging, Anchoring
  <2>6. WriterOK'
    BY <2>2, <2>3 DEF WriterOK, SealStages, Restoring
  <2>7. PurgeOK'
    BY <1>1, <1>2, <2>2, <2>3 DEF SInv, PurgeOK, Purging, W
  <2> QED
    BY <1>1, <1>2, <2>1, <2>5, <2>6, <2>7, WriterGoesOn
<1> QED
  BY <1>3, <1>4

LEMMA WriterDies ==
    ASSUME WriterBesideSealer, TInv, SInv, Crash(Writer)
    PROVE  SInv' /\ UNCHANGED <<Memory, acked>>
<1>1. /\ Finish(Writer) /\ UNCHANGED <<dir, path, content, sealed, acked, used, erased>>
      /\ holder' = [i \in Inodes |-> IF holder[i] = Writer THEN Nobody ELSE holder[i]]
  BY DEF Crash, Dies
<1>2. Log' = Log /\ \A i \in Inodes : holder[i] = Sealer => holder'[i] = Sealer
  BY <1>1, TwoProcs DEF Log
<1> QED
  BY <1>1, <1>2, WriterEnds

LEMMA ConstructKeeps ==
    ASSUME WriterBesideSealer, TInv, SInv, Construct(Writer)
    PROVE  SInv' /\ UNCHANGED <<Memory, acked>>
<1> DEFINE c == [call[Writer] EXCEPT !.stage = "makedir"]
<1>1. /\ call[Writer] = Idle /\ call' = [call EXCEPT ![Writer] = c]
      /\ UNCHANGED <<files, cache, used, acked, erased, crashes>>
  BY TwoProcs DEF Construct, Calls, TInv, CallsFit
<1>2. c.stage = "makedir" /\ c.kind # "purge"
  BY <1>1 DEF Idle
<1> HIDE DEF c
<1>3. W' = c /\ Log' = Log /\ UNCHANGED <<dir, path, sealed, holder>>
  BY <1>1, WriterCalls DEF files, Log
<1>4. EventsFit(Memory, acked, erased, used, c)
  BY <1>2, EventsQuiet DEF SInv, EventsOK, Purging, Anchoring
<1>5. WriterOK' /\ PurgeOK'
  BY <1>2, <1>3 DEF WriterOK, PurgeOK, SealStages, Restoring, Purging
<1> QED
  BY <1>1, <1>3, <1>4, <1>5, WriterGoesOn

LEMMA MakeDirKeeps ==
    ASSUME WriterBesideSealer, TInv, SInv, MakeDir(Writer)
    PROVE  SInv' /\ UNCHANGED <<Memory, acked>>
<1>1. /\ dir' = TRUE /\ call' = [call EXCEPT ![Writer] = Idle]
      /\ UNCHANGED <<path, content, holder, sealed, used, acked, erased>>
  BY DEF MakeDir, Finish, otherVars
<1>2. W' = Idle /\ Log' = Log
  BY <1>1, WriterCalls DEF Log
<1>3. EventsFit(Memory, acked, erased, used, Idle)
  BY IdleEvents DEF SInv
<1>4. path' \in Nat
  BY <1>1, NumbersTyped DEF TInv, FilesFit
<1> QED
  BY <1>1, <1>2, <1>3, <1>4, IdleWriter, WriterMoves

\* Without a directory nobody is sealing.
LEMMA UnsealFolderKeeps ==
    ASSUME WriterBesideSealer, TInv, SInv, UnsealFolder(Writer)
    PROVE  SInv' /\ UNCHANGED <<Memory, acked>>
<1> DEFINE c == [call[Writer] EXCEPT !.stage = "restoredir", !.lines = sealed.lines,
                                     !.heads = sealed.heads]
<1>1. /\ call[Writer] = Idle /\ sealed.there /\ ~dir
      /\ call' = [call EXCEPT ![Writer] = c]
      /\ UNCHANGED <<files, cache, used, acked, erased, crashes>>
  BY TwoProcs DEF UnsealFolder, TInv, CallsFit
<1>2. c.stage = "restoredir" /\ c.kind # "purge" /\ c.lines = sealed.lines
  BY <1>1 DEF Idle
<1> HIDE DEF c
<1>3. W' = c /\ S' = S /\ Log' = Log /\ UNCHANGED <<dir, path, sealed, holder>>
  BY <1>1, WriterCalls DEF files, Log
<1>4. S.stage = "out"
  BY <1>1 DEF SInv, SealerOK
<1>5. EventsFit(Memory, acked, erased, used, c)
  BY <1>2, EventsQuiet DEF SInv, EventsOK, Purging, Anchoring
<1>6. WriterOK' /\ PurgeOK'
  BY <1>1, <1>2, <1>3, <1>4 DEF WriterOK, PurgeOK, SealStages, Restoring, Purging
<1> QED
  BY <1>1, <1>3, <1>5, <1>6, WriterGoesOn

LEMMA RestoreDirKeeps ==
    ASSUME WriterBesideSealer, TInv, SInv, RestoreDir(Writer)
    PROVE  SInv' /\ UNCHANGED <<Memory, acked>>
<1> DEFINE c == [call[Writer] EXCEPT !.stage = "restorefiles"]
<1>1. /\ call[Writer].stage = "restoredir" /\ dir' = TRUE
      /\ call' = [call EXCEPT ![Writer] = c]
      /\ UNCHANGED <<path, content, holder, sealed, used, acked, erased>>
  BY TwoProcs DEF RestoreDir, otherVars, TInv, CallsFit
<1>2. c.stage = "restorefiles" /\ c.lines = call[Writer].lines /\ c.kind = call[Writer].kind
  BY TwoProcs DEF TInv, CallsFit, Calling
<1> HIDE DEF c
<1>3. W' = c /\ S' = S /\ Log' = Log
  BY <1>1, WriterCalls DEF Log
<1>4. /\ sealed.there /\ S.stage = "out" /\ call[Writer].lines = sealed.lines
      /\ call[Writer].kind # "purge"
  BY <1>1 DEF SInv, WriterOK, PurgeOK, Restoring, W
<1>5. EventsFit(Memory, acked, erased, used, c)
  BY <1>2, EventsQuiet DEF SInv, EventsOK, Purging, Anchoring
<1>6. WriterOK' /\ PurgeOK'
  BY <1>1, <1>2, <1>3, <1>4 DEF WriterOK, PurgeOK, SealStages, Restoring, Purging
<1>7. path' \in Nat
  BY <1>1, NumbersTyped DEF TInv, FilesFit
<1> QED
  BY <1>1, <1>3, <1>5, <1>6, <1>7, WriterMoves

\* The log is what the blob has; it still shows in the blob.
LEMMA RestoreFilesKeeps ==
    ASSUME WriterBesideSealer, TInv, SInv, RestoreFiles(Writer)
    PROVE  SInv' /\ UNCHANGED <<Memory, acked>>
<1> DEFINE c == [call[Writer] EXCEPT !.stage = "unlinkblob"]
<1>1. /\ call[Writer].stage = "restorefiles"
      /\ path = NoFile => inodes < MaxInodes
      /\ path' = (IF path = NoFile THEN inodes + 1 ELSE path)
      /\ content' = [content EXCEPT ![path'] = call[Writer].lines]
      /\ call' = [call EXCEPT ![Writer] = c]
      /\ UNCHANGED <<dir, holder, sealed, used, acked, erased>>
  BY TwoProcs DEF RestoreFiles, TInv, CallsFit
<1>2. c.stage = "unlinkblob" /\ c.lines = call[Writer].lines /\ c.kind = call[Writer].kind
  BY TwoProcs DEF TInv, CallsFit, Calling
<1> HIDE DEF c
<1>3. W' = c /\ S' = S
  BY <1>1, WriterCalls
<1>4. /\ sealed.there /\ S.stage = "out" /\ call[Writer].lines = sealed.lines
      /\ call[Writer].kind # "purge"
  BY <1>1 DEF SInv, WriterOK, PurgeOK, Restoring, W
<1>5. path' \in Inodes /\ path' # NoFile
  BY <1>1, NumbersTyped DEF TInv, FilesFit
<1>6. Log' = sealed.lines
  BY <1>1, <1>4, <1>5 DEF Log, TInv, FilesFit
<1>7. Memory' = Memory
  BY <1>1, <1>4 DEF Memory
<1>8. EventsFit(Memory, acked, erased, used, c)
  BY <1>2, EventsQuiet DEF SInv, EventsOK, Purging, Anchoring
<1>9. EventsOK'
  BY <1>1, <1>3, <1>7, <1>8, EventsFollow
<1>10. dir
  BY <1>1 DEF SInv, WriterOK, W
<1>11. WriterOK' /\ PurgeOK'
  BY <1>1, <1>2, <1>3, <1>4, <1>6, <1>10 DEF WriterOK, PurgeOK, SealStages, Restoring, Purging
<1>12. StoreOK'
  BY <1>1, <1>4, <1>6, <1>10 DEF StoreOK
<1>13. SealerOK'
  BY <1>1, <1>3, <1>4 DEF SInv, SealerOK, SealStages
<1> QED
  BY <1>1, <1>7, <1>9, <1>11, <1>12, <1>13 DEF SInv

LEMMA RemoveBlobKeeps ==
    ASSUME WriterBesideSealer, TInv, SInv, RemoveBlob(Writer)
    PROVE  SInv' /\ UNCHANGED <<Memory, acked>>
<1>1. /\ call[Writer].stage = "unlinkblob" /\ sealed' = Unsealed
      /\ call' = [call EXCEPT ![Writer] = Idle]
      /\ UNCHANGED <<dir, path, content, holder, used, acked, erased>>
  BY DEF RemoveBlob, Finish, otherVars
<1>2. sealed.there /\ S.stage = "out" /\ Log = sealed.lines
  BY <1>1 DEF SInv, WriterOK, Restoring, W
<1>3. W' = Idle /\ S' = S /\ Log' = Log /\ ~sealed'.there
  BY <1>1, WriterCalls DEF Log, Unsealed
<1>4. Memory' = Memory
  BY <1>2, <1>3 DEF Memory
<1>5. EventsOK'
  BY <1>1, <1>3, <1>4, IdleEvents, EventsFollow DEF SInv
<1>6. StoreOK'
  <2>1. dir
    BY <1>1 DEF SInv, WriterOK, W
  <2> QED
    BY <1>1, <1>3, <2>1 DEF StoreOK
<1>7. SealerOK'
  BY <1>2, <1>3 DEF SInv, SealerOK, SealStages
<1> QED
  BY <1>1, <1>3, <1>4, <1>5, <1>6, <1>7, IdleWriter DEF SInv

-----------------------------------------------------------------------------
(* The steps of the writer that show in the log.                           *)

LEMMA WriterWrites ==
    ASSUME WriterBesideSealer, TInv, SInv, NEW c, call' = [call EXCEPT ![Writer] = c],
           ~sealed.there, UNCHANGED <<dir, sealed>>, path' # NoFile, S.stage # "sealblob",
           S.stage = "seallock" => path' = path,
           NEW mem, Log' = mem, NEW ack, acked' = ack, NEW gone, erased' = gone,
           NEW n, used' = n, EventsFit(mem, ack, gone, n, c), WriterOK', PurgeOK'
    PROVE  SInv' /\ Memory' = mem
<1>1. W' = c /\ S' = S
  BY WriterCalls
<1>2. Memory' = mem
  BY DEF Memory
<1>3. EventsOK'
  BY <1>1, <1>2, EventsFollow
<1>4. StoreOK'
  BY DEF SInv, StoreOK
<1>5. SealerOK'
  BY <1>1 DEF SInv, SealerOK, SealStages
<1> QED
  BY <1>2, <1>3, <1>4, <1>5 DEF SInv

LEMMA AuditReads ==
    \A lines : MemoryLog!IdsIn(lines) = IdsIn(lines) /\ MemoryLog!TailHash(lines) = TailHash(lines)
BY DEF MemoryLog!IdsIn, MemoryLog!Formed, MemoryLog!TailHash, MemoryLog!HashBefore,
       MemoryLog!Before, MemoryLog!Genesis, IdsIn, Formed, TailHash, HashBefore, Before, Genesis

LEMMA AuditPurges ==
    \A lines, pair : MemoryLog!Relink(MemoryLog!Survivors(lines, pair)) =
                        Relink(Survivors(lines, pair))
<1>1. \A lines : MemoryLog!Relink(lines) = Relink(lines)
  BY DEF MemoryLog!Relink, MemoryLog!HashBefore, MemoryLog!Before, MemoryLog!Formed,
         MemoryLog!Genesis, Relink, HashBefore, Before, Formed, Genesis
<1>2. \A lines, pair : MemoryLog!Survivors(lines, pair) = Survivors(lines, pair)
  <2>1. \A lines, kept : MemoryLog!LinesAt(lines, kept) = LinesAt(lines, kept)
    BY DEF MemoryLog!LinesAt, LinesAt, MemoryLog!Cardinality, Cardinality
  <2> QED
    BY <2>1 DEF MemoryLog!Survivors, Survivors
<1> QED
  BY <1>1, <1>2

\* The log goes on with one more event, linked to the tail of what it keeps.
LEMMA AuditContinues ==
    ASSUME NEW kept \in Seq(Stored), NEW line, line \in Stored,
           Memory' = Append(kept, line), line.id \notin IdsIn(Memory) \cup acked,
           line.prev = TailHash(kept), NEW kinds, line.kind \in kinds
    PROVE  MemoryLog!Continues(kept, kinds)
<1>1. Len(Memory') = Len(kept) + 1 /\ Memory'[Len(Memory')] = line
  OBVIOUS
<1> QED
  BY <1>1, AuditReads DEF MemoryLog!Continues

\* Nobody has the log locked, so it is still the file the writer opened.
LEMMA WriteEventWrites ==
    ASSUME WriterBesideSealer, TInv, SInv, WriteEvent(Writer)
    PROVE  SInv' /\ MemoryLog!Write
<1> DEFINE c == [call[Writer] EXCEPT !.stage = "anchor"]
           file == call[Writer].file
           line == Written(Writer)
           mem == Append(Log, line)
<1>1. /\ call[Writer].stage = "lock" /\ holder[file] = Nobody /\ ~sealed.there
      /\ content' = [content EXCEPT ![file] = Glue(content[file], line)]
      /\ call' = [call EXCEPT ![Writer] = c]
      /\ UNCHANGED <<dir, path, sealed, used, acked, erased>>
  BY TwoProcs DEF WriteEvent, WriteLine, LockFree, TInv, CallsFit
<1>2. file = path /\ path # NoFile
  BY <1>1 DEF SInv, WriterOK, W
<1>3. Log \in Seq(Stored) /\ content[file] = Log /\ file \in Inodes \cup {NoFile}
  BY <1>2, LogFits, TwoProcs, FileOpened
<1>4. line \in Stored /\ Formed(line) /\ line.prev = TailHash(Log)
  BY <1>1, TwoProcs, WrittenTyped DEF WriterBesideSealer
<1>5. /\ line.id = call[Writer].id /\ line.kind = call[Writer].kind
      /\ c.stage = "anchor" /\ c.id = call[Writer].id /\ c.next = call[Writer].next
      /\ c.kind = call[Writer].kind
  BY TwoProcs DEF Written, TInv, CallsFit, Calling
<1> HIDE DEF c, line, file
<1>6. Memory = Log /\ EventsFit(Log, acked, erased, used, W)
  BY <1>1 DEF SInv, EventsOK, Memory
<1>7. Fresh(line.id, Log, acked, erased, used)
  BY <1>1, <1>5, <1>6 DEF EventsFit, W
<1>8. /\ Glue(Log, line) = mem /\ Undamaged(mem) /\ OnePairEach(mem)
      /\ IdsIn(mem) = IdsIn(Log) \cup {line.id}
  BY <1>3, <1>4, <1>6, <1>7, GlueAppends DEF EventsFit, Fresh
<1> HIDE DEF mem
<1>9. Log' = mem
  BY <1>1, <1>2, <1>3, <1>8, LogWritten
<1>10. EventsFit(mem, acked, erased, used, c)
  <2>1. c.next # Genesis => Fresh(c.next, mem, acked, erased, used) /\ c.next # c.id
    BY <1>1, <1>5, <1>6, <1>8 DEF EventsFit, Fresh, W
  <2> QED
    BY <1>5, <1>6, <1>7, <1>8, <2>1 DEF EventsFit, Fresh, Purging, Anchoring
<1>11. W.kind # "purge" /\ S.stage # "sealblob"
  <2>1. Sealer # Nobody
    BY TwoProcs, MutationLogAssumption
  <2> QED
    BY <1>1, <1>2, <2>1 DEF SInv, SealerOK, PurgeOK, W, SealStages
<1>12. W' = c
  BY <1>1, WriterCalls
<1>13. WriterOK' /\ PurgeOK'
  BY <1>5, <1>11, <1>12 DEF WriterOK, PurgeOK, SealStages, Restoring, Purging, W
<1>14. SInv' /\ Memory' = mem
  BY <1>1, <1>2, <1>9, <1>10, <1>11, <1>13, WriterWrites
<1>15. line.kind \in {"event", "registration"}
  BY <1>4, <1>5, <1>11 DEF Formed, W
<1>16. MemoryLog!Continues(Memory, {"event", "registration"})
  BY <1>3, <1>4, <1>6, <1>7, <1>14, <1>15, AuditContinues DEF Fresh, mem
<1> QED
  BY <1>1, <1>14, <1>16 DEF MemoryLog!Write

\* Anchoring does not show in the log.
LEMMA AnchoringKeeps ==
    ASSUME WriterBesideSealer, TInv, SInv, OpenAnchor(Writer) \/ WriteAnchor(Writer)
    PROVE  SInv' /\ UNCHANGED <<Memory, acked>>
<1>1. /\ call[Writer].stage \in Anchoring
      /\ UNCHANGED <<dir, path, content, holder, sealed, acked, used, erased>>
  BY DEF OpenAnchor, WriteAnchor, Anchoring
<1>2. PICK stage \in {"anchorwrite", "anchormove"} :
          call' = [call EXCEPT ![Writer] = [call[Writer] EXCEPT !.stage = stage]]
  BY TwoProcs DEF OpenAnchor, WriteAnchor, TInv, CallsFit
<1> DEFINE c == [call[Writer] EXCEPT !.stage = stage]
<1>3. call' = [call EXCEPT ![Writer] = c]
  BY <1>2
<1>4. /\ c.stage \in Anchoring /\ c.id = call[Writer].id /\ c.kind = call[Writer].kind
      /\ c.next = call[Writer].next
  BY TwoProcs DEF TInv, CallsFit, Calling, Anchoring
<1> HIDE DEF c
<1>5. W' = c /\ S' = S /\ Log' = Log
  BY <1>1, <1>3, WriterCalls DEF Log
<1>6. EventsFit(Memory, acked, erased, used, c)
  BY <1>1, <1>4, EventsQuiet DEF SInv, EventsOK, W
<1>7. WriterOK'
  BY <1>4, <1>5 DEF WriterOK, SealStages, Restoring, Anchoring
<1>8. PurgeOK'
  BY <1>1, <1>4, <1>5 DEF SInv, PurgeOK, Purging, Anchoring, W
<1> QED
  BY <1>1, <1>3, <1>5, <1>6, <1>7, <1>8, WriterGoesOn

LEMMA ReturnAcknowledges ==
    ASSUME WriterBesideSealer, TInv, SInv, call[Writer].stage \in Anchoring, Return(Writer)
    PROVE  SInv' /\ (MemoryLog!Acknowledge \/ UNCHANGED <<Memory, acked>>)
<1> DEFINE goes == [Idle EXCEPT !.stage = "open", !.pair = call[Writer].pair,
                                !.id = call[Writer].next]
           ack == IF call[Writer].kind = "purge" THEN acked ELSE acked \cup {call[Writer].id}
<1>1. /\ call[Writer].stage \in Anchoring /\ acked' = ack
      /\ UNCHANGED <<dir, path, content, holder, sealed, used, erased>>
      /\ IF call[Writer].next = Genesis THEN call' = [call EXCEPT ![Writer] = Idle]
         ELSE call' = [call EXCEPT ![Writer] = goes]
  BY DEF Return, Finish
<1>2. Log' = Log /\ path' \in Nat
  BY <1>1, NumbersTyped DEF Log, TInv, FilesFit
<1>3. EventsFit(Memory, acked, erased, used, call[Writer])
  BY DEF SInv, EventsOK, W
<1>4. /\ goes.stage = "open" /\ goes.kind = "event" /\ goes.id = call[Writer].next
      /\ goes.next = Genesis
  BY DEF Idle
<1>5. Idle.stage = "out"
  BY DEF Idle
<1>6. call[Writer].kind = "purge" => call[Writer].next = Genesis
  BY DEF SInv, PurgeOK, W
<1> HIDE DEF goes
<1>7. call[Writer].kind # "purge" => call[Writer].id \in IdsIn(Memory)
  BY <1>1, <1>3 DEF EventsFit
<1>8. EventsFit(Memory, ack, erased, used, Idle)
  BY <1>3, <1>5, <1>7 DEF EventsFit, Purging, Anchoring
<1>9. call[Writer].next # Genesis => EventsFit(Memory, ack, erased, used, goes)
  BY <1>1, <1>3, <1>4, <1>7 DEF EventsFit, Purging, Fresh, Anchoring
<1>10. SInv' /\ Memory' = Memory
  <2> HIDE DEF ack
  <2>1. CASE call[Writer].next = Genesis
    <3>1. call' = [call EXCEPT ![Writer] = Idle]
      BY <1>1, <2>1
    <3>2. W' = Idle
      BY <3>1, WriterCalls
    <3> QED
      BY <1>1, <1>2, <1>8, <3>1, <3>2, IdleWriter, WriterMoves
  <2>2. CASE call[Writer].next # Genesis
    <3>1. call' = [call EXCEPT ![Writer] = goes]
      BY <1>1, <2>2
    <3>2. W' = goes /\ S' = S
      BY <3>1, WriterCalls
    <3>3. WriterOK' /\ PurgeOK'
      BY <1>4, <3>2 DEF WriterOK, PurgeOK, SealStages, Restoring, Purging
    <3> QED
      BY <1>1, <1>2, <1>9, <2>2, <3>1, <3>3, WriterMoves
  <2> QED
    BY <2>1, <2>2
<1>11. call[Writer].kind # "purge" => MemoryLog!Acknowledge
  BY <1>1, <1>7, <1>10, AuditReads DEF MemoryLog!Acknowledge
<1> QED
  BY <1>1, <1>10, <1>11

\* What the purge has read is still in the log, and its shard replaces that.
LEMMA ReplaceLogErases ==
    ASSUME WriterBesideSealer, TInv, SInv, ReplaceLog(Writer)
    PROVE  SInv' /\ MemoryLog!Erase
<1> DEFINE c == [Idle EXCEPT !.stage = "tail", !.kind = "purge"]
           pair == call[Writer].pair
           kept == Relink(Survivors(Log, pair))
           mem == Append(kept, Tombstone(Writer))
           gone == erased \cup Taken(Log, pair)
<1>1. call[Writer].stage = "replace"
  BY DEF ReplaceLog
<1>2. /\ call[Writer].kind = "purge" /\ S.stage = "out" /\ ~sealed.there /\ path # NoFile
      /\ call[Writer].lines = Log /\ \E k \in 1..Len(Log) : Log[k].pair = pair
      /\ shard.there /\ shard.lines = Rewritten(Writer)
  BY <1>1 DEF SInv, PurgeOK, WriterOK, Purging, W
<1>3. /\ inodes < MaxInodes /\ path' = inodes + 1
      /\ content' = [content EXCEPT ![path'] = shard.lines]
      /\ erased' = erased \cup {line.id : line \in Matching(Writer)}
      /\ call' = [call EXCEPT ![Writer] = c]
      /\ UNCHANGED <<dir, sealed, used, acked>>
  BY <1>2 DEF ReplaceLog
<1>4. Log \in Seq(Stored) /\ pair \in Pairs /\ call[Writer].id \in Hashes
  BY <1>1, TwoProcs, LogFits DEF TInv, CallsFit, Fits, Calling
<1>5. Memory = Log /\ EventsFit(Log, acked, erased, used, W)
  BY <1>2 DEF SInv, EventsOK, Memory
<1>6. Fresh(call[Writer].id, Log, acked, erased, used)
  BY <1>1, <1>5 DEF EventsFit, Purging, W
<1>7. call[Writer].id \in Ids
  BY <1>4, <1>6, NumbersTyped DEF Fresh, Hashes
<1>8. /\ Rewritten(Writer) = mem /\ kept \in Seq(Stored) /\ Tombstone(Writer) \in Stored
      /\ Undamaged(mem) /\ OnePairEach(mem)
      /\ IdsIn(mem) = Others(Log, pair) \cup {call[Writer].id}
  BY <1>2, <1>4, <1>5, <1>6, <1>7, TwoProcs, RewrittenIs DEF EventsFit, Fresh
<1>9. /\ Tombstone(Writer).id = call[Writer].id /\ Tombstone(Writer).kind = "purge"
      /\ Tombstone(Writer).prev = TailHash(kept)
  BY <1>2 DEF Tombstone
<1>10. /\ IdsIn(Log) = Others(Log, pair) \cup Taken(Log, pair)
       /\ Others(Log, pair) \cap Taken(Log, pair) = {}
  BY <1>5, TakenOrLeft DEF EventsFit
<1>11. erased' = gone
  BY <1>2, <1>3, TwoProcs, MatchingIds
<1>12. c.stage = "tail" /\ c.kind = "purge" /\ c.next = Genesis
  BY DEF Idle
<1>13. path' \in Inodes /\ path' # NoFile
  BY <1>3, NumbersTyped DEF TInv, FilesFit
<1> HIDE DEF c, mem, kept, gone
<1>14. Log' = mem
  BY <1>2, <1>3, <1>8, <1>13 DEF Log, TInv, FilesFit
<1>15. EventsFit(mem, acked, gone, used, c)
  BY <1>5, <1>6, <1>8, <1>10, <1>12 DEF EventsFit, Fresh, Purging, Anchoring, gone
<1>16. W' = c /\ S' = S
  BY <1>3, WriterCalls
<1>17. WriterOK' /\ PurgeOK'
  BY <1>2, <1>3, <1>12, <1>13, <1>16 DEF WriterOK, PurgeOK, SealStages, Restoring, Purging
<1>18. SInv' /\ Memory' = mem
  BY <1>2, <1>3, <1>11, <1>13, <1>14, <1>15, <1>17, WriterWrites
<1>19. MemoryLog!Continues(kept, {"purge"})
  BY <1>5, <1>6, <1>8, <1>9, <1>18, AuditContinues DEF Fresh, mem
<1>20. kept = MemoryLog!Relink(MemoryLog!Survivors(Memory, pair))
  BY <1>5, AuditPurges DEF kept
<1> QED
  BY <1>2, <1>3, <1>4, <1>5, <1>18, <1>19, <1>20 DEF MemoryLog!Erase

-----------------------------------------------------------------------------
(* The log behaves as one, in its directory or in its blob.                *)

LEMMA InitSealed ==
    ASSUME WriterBesideSealer, Init
    PROVE  SInv /\ MemoryLog!AuditInit
<1>1. /\ dir /\ path = NoFile /\ ~sealed.there /\ Log = <<>> /\ W = Idle /\ S = Idle
      /\ acked = {} /\ erased = {}
  BY TwoProcs DEF Init, Unsealed, Log, W, S
<1>2. Memory = <<>>
  BY <1>1 DEF Memory
<1>3. EventsOK
  <2>1. IdsIn(<<>>) = {}
    BY DEF IdsIn
  <2>2. Undamaged(<<>>) /\ OnePairEach(<<>>)
    BY DEF Undamaged, OnePairEach
  <2> QED
    BY <1>1, <1>2, <2>1, <2>2 DEF EventsOK, EventsFit, Idle, Purging, Anchoring
<1>4. StoreOK /\ SealerOK /\ WriterOK /\ PurgeOK
  BY <1>1 DEF StoreOK, SealerOK, WriterOK, PurgeOK, Idle, SealStages, Restoring, Purging
<1> QED
  BY <1>1, <1>2, <1>3, <1>4 DEF SInv, MemoryLog!AuditInit

LEMMA WriterKeeps ==
    ASSUME WriterBesideSealer, TInv, SInv, LogStep(Writer) \/ SealStep(Writer)
    PROVE  /\ SInv'
           /\ \/ MemoryLog!Write \/ MemoryLog!Acknowledge \/ MemoryLog!Erase
              \/ UNCHANGED <<Memory, acked>>
<1>1. CASE WriteEvent(Writer)
  BY <1>1, WriteEventWrites
<1>2. CASE MoveAnchor(Writer) \/ AnchorFails(Writer)
  BY <1>2, ReturnAcknowledges DEF MoveAnchor, AnchorFails, Anchoring
<1>3. CASE ReplaceLog(Writer)
  BY <1>3, ReplaceLogErases
<1>4. CASE \/ \E pair \in Pairs : AppendEvent(Writer, pair) \/ Purge(Writer, pair)
           \/ OpenToAppend(Writer) \/ AppendRefused(Writer) \/ WriteHitsFullDisk(Writer)
           \/ ReadSnapshot(Writer) \/ OpenToRewrite(Writer) \/ WriteShard(Writer)
           \/ ShardHitsFullDisk(Writer) \/ PurgeFails(Writer)
           \/ OpenForTail(Writer) \/ ReadTail(Writer) \/ Crash(Writer)
           \/ OpenAnchor(Writer) \/ WriteAnchor(Writer)
  BY <1>4, AnchoringKeeps, AppendEventKeeps, PurgeKeeps, OpenToAppendKeeps, AppendRefusedKeeps,
     WriteHitsFullDiskKeeps, ReadSnapshotKeeps, OpenToRewriteKeeps, WriteShardKeeps,
     ShardHitsFullDiskKeeps, OpenForTailKeeps, ReadTailKeeps, WriterDies
<1>5. CASE \/ Construct(Writer) \/ MakeDir(Writer) \/ UnsealFolder(Writer)
           \/ RestoreDir(Writer) \/ RestoreFiles(Writer) \/ RemoveBlob(Writer)
  BY <1>5, ConstructKeeps, MakeDirKeeps, UnsealFolderKeeps, RestoreDirKeeps, RestoreFilesKeeps,
     RemoveBlobKeeps
<1> QED
  BY <1>1, <1>2, <1>3, <1>4, <1>5, WriterDoes DEF WriterActs

LEMMA StutterKeeps ==
    ASSUME SInv, UNCHANGED vars
    PROVE  SInv' /\ UNCHANGED <<Memory, acked>>
<1>1. UNCHANGED <<dir, path, content, holder, sealed, shard, acked, erased, used, call>>
  BY DEF vars, files
<1>2. Log' = Log /\ Memory' = Memory /\ W' = W /\ S' = S
  BY <1>1 DEF Log, Memory, W, S
<1>3. StoreOK' /\ SealerOK' /\ WriterOK'
  BY <1>1, <1>2 DEF SInv, StoreOK, SealerOK, WriterOK, SealStages, Restoring
<1>4. EventsOK'
  BY <1>1, <1>2, EventsFollow DEF SInv, EventsOK
<1>5. PurgeOK'
  <2>1. Rewritten(Writer)' = Rewritten(Writer)
    BY <1>1 DEF Rewritten
  <2> QED
    BY <1>1, <1>2, <2>1 DEF SInv, PurgeOK, Purging
<1> QED
  BY <1>1, <1>2, <1>3, <1>4, <1>5 DEF SInv

LEMMA SealedStep ==
    ASSUME WriterBesideSealer, TInv, SInv, [SealedNext]_vars
    PROVE  /\ SInv'
           /\ [MemoryLog!Write \/ MemoryLog!Acknowledge \/ MemoryLog!Erase]_<<Memory, acked>>
<1>1. CASE UNCHANGED vars
  BY <1>1, StutterKeeps
<1>2. CASE LogStep(Writer) \/ SealStep(Writer)
  BY <1>2, WriterKeeps
<1>3. CASE LogStep(Sealer) \/ SealStep(Sealer)
  BY <1>3, SealerKeeps
<1> QED
  BY <1>1, <1>2, <1>3, SomeStep, TwoProcs

\* The invariant of a writer beside a sealer.
THEOREM SealInvariance == ASSUME WriterBesideSealer PROVE SealedSpec => []SInv
<1>1. Init => SInv
  BY InitSealed
<1>2. TInv /\ SInv /\ [SealedNext]_vars => SInv'
  BY SealedStep
<1> QED
  BY <1>1, <1>2, TypeInvariance, PTL DEF SealedSpec

\* An event whose append returned is in the log, in the blob, or erased by a
\* purge, wherever sealing meets the append and whoever dies when.
THEOREM EveryEventIsKept == ASSUME WriterBesideSealer PROVE SealedSpec => []SealKeepsEveryEvent
<1>1. SInv => SealKeepsEveryEvent
  BY DEF SInv, EventsOK, EventsFit, Memory, SealKeepsEveryEvent
<1> QED
  BY <1>1, SealInvariance, PTL

\* What a purge has erased is not in the log again: no blob brings it back.
THEOREM ErasedAreGone == ASSUME WriterBesideSealer PROVE SealedSpec => []ErasedStaysErased
<1>1. ASSUME SInv PROVE ErasedStaysErased
  <2>1. Log = Memory \/ Log = <<>>
    BY <1>1 DEF SInv, StoreOK, Memory
  <2>2. IdsIn(<<>>) = {}
    BY DEF IdsIn
  <2> QED
    BY <1>1, <2>1, <2>2 DEF SInv, EventsOK, EventsFit, ErasedStaysErased
<1> QED
  BY <1>1, SealInvariance, PTL

\* Sealing and unsealing do not show: with the deaths in the middle of them,
\* what the directory or else the blob holds is a log that appends, erases and
\* acknowledges atomically.
THEOREM SealIsInvisible == ASSUME WriterBesideSealer PROVE SealedSpec => SealingIsInvisible
<1>1. Init => MemoryLog!AuditInit
  BY InitSealed
<1>2. TInv /\ SInv /\ [SealedNext]_vars =>
        [MemoryLog!Write \/ MemoryLog!Acknowledge \/ MemoryLog!Erase]_<<Memory, acked>>
  BY SealedStep
<1> QED
  BY <1>1, <1>2, TypeInvariance, SealInvariance, PTL
     DEF SealedSpec, SealingIsInvisible, MemoryLog!AuditSpec
=============================================================================
