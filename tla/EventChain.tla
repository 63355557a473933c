----------------------------- MODULE EventChain -----------------------------
(***************************************************************************)
(* The lines of events.jsonl and the pure functions over them: the hash    *)
(* chain, the relinking a purge does, and what verify_chain accepts.       *)
(*                                                                         *)
(* A line is an event or damage.  An event's canonical hash covers neither *)
(* prev_hash nor signature, and audit_id and ts make it unique, so the id  *)
(* of an event stands for its hash: relinking an event keeps its hash.     *)
(* The signature binds content and prev_hash.  Every event here is signed  *)
(* and nobody tampers, so signatures verify and are left out.              *)
(***************************************************************************)
EXTENDS Integers, Sequences, FiniteSets

CONSTANTS
    Pairs,       \* pair_ids the events are about
    NoPair,      \* the pair_id of registrations and tombstones
    MaxEvents    \* bound: how many events are ever created

Genesis == 0
Ids     == 1..MaxEvents

Line == [id : Ids \cup {Genesis}, pair : Pairs \cup {NoPair},
         kind : {"event", "registration", "purge", "torn", "garbage"},
         prev : Ids \cup {Genesis}]

\* A write cut short: a torn line has no newline yet, garbage has.
Damage(kind) == [id |-> Genesis, pair |-> NoPair, kind |-> kind, prev |-> Genesis]

Formed(line) == line.kind \in {"event", "registration", "purge"}

IdsIn(lines) == {lines[k].id : k \in {j \in 1..Len(lines) : Formed(lines[j])}}

\* What goes after a torn line ends up on that line, which parses as nothing.
Glue(lines, line) ==
    IF lines # <<>> /\ lines[Len(lines)].kind = "torn"
    THEN [lines EXCEPT ![Len(lines)] =
            Damage(IF line.kind = "torn" THEN "torn" ELSE "garbage")]
    ELSE Append(lines, line)

\* ftruncate to the size of so many lines; beyond its end it fills the file up.
CutBack(lines, size) ==
    IF size <= Len(lines) THEN SubSeq(lines, 1, size) ELSE Glue(lines, Damage("torn"))

\* The well-formed line before position k, 0 if there is none.
Before(lines, k) ==
    LET J == {j \in 1..(k - 1) : Formed(lines[j])}
    IN  IF J = {} THEN 0 ELSE CHOOSE j \in J : \A i \in J : i <= j

\* _last_event_canonical_hash, GENESIS for an empty log.
HashBefore(lines, k) ==
    LET j == Before(lines, k) IN IF j = 0 THEN Genesis ELSE lines[j].id
TailHash(lines) == HashBefore(lines, Len(lines) + 1)

\* The lines at the given positions, in order.
LinesAt(lines, kept) ==
    [j \in 1..Cardinality(kept) |->
        lines[CHOOSE k \in kept : Cardinality({i \in kept : i <= k}) = j]]

\* Mutant: a purge keeps the first event of the chain, whatever its pair.
Survivors_KeepsGenesis(lines, pair) ==
    LinesAt(lines, {k \in 1..Len(lines) : lines[k].pair # pair \/ lines[k].prev = Genesis})

\* The lines a purge of the pair keeps.
Survivors(lines, pair) ==
    LinesAt(lines, {k \in 1..Len(lines) : lines[k].pair # pair})

\* Mutant: a survivor is not relinked to its new predecessor.
Relink_None(lines) == lines

\* Every survivor linked to its new predecessor.
Relink(lines) ==
    [k \in 1..Len(lines) |->
        IF Formed(lines[k]) /\ lines[k].prev # HashBefore(lines, k)
        THEN [lines[k] EXCEPT !.prev = HashBefore(lines, k)]
        ELSE lines[k]]

\* Every intact event is linked to the intact one before it, or that is a
\* purge tombstone.
IntactLinked(lines) ==
    \A k \in 1..Len(lines) :
        Formed(lines[k]) =>
            \/ lines[k].prev = HashBefore(lines, k)
            \/ Before(lines, k) # 0 /\ lines[Before(lines, k)].kind = "purge"

\* verify_chain, first layer: no damage, and every prev_hash is the hash of the
\* predecessor, or the predecessor is a purge tombstone.
LinksVerify(lines) == (\A k \in 1..Len(lines) : Formed(lines[k])) /\ IntactLinked(lines)

\* Last layer: the anchored head, if there is an anchor, is in the chain.
AnchorVerifies(lines, anchor) == anchor = Genesis \/ anchor \in IdsIn(lines)

VerifyChain(lines, anchor) == LinksVerify(lines) /\ AnchorVerifies(lines, anchor)
=============================================================================
