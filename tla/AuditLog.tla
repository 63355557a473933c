------------------------------ MODULE AuditLog ------------------------------
(***************************************************************************)
(* What a mutation log promises its callers: one sequence of events, each  *)
(* linked to the one before it.  Appending and erasing are atomic, an      *)
(* append returns only once its event is in the sequence, and erasing a    *)
(* pair leaves the other events, in order and linked, and a tombstone.     *)
(***************************************************************************)
EXTENDS EventChain

VARIABLES
    log,     \* the events
    acked    \* the events whose append has returned

AuditInit == log = <<>> /\ acked = {}

\* The log continues with one more event of this kind, linked to its tail.
Continues(base, kinds) ==
    /\ Len(log') = Len(base) + 1
    /\ LET new == log'[Len(log')] IN
          /\ log' = Append(base, new)
          /\ new.kind \in kinds
          /\ new.id \notin IdsIn(log) \cup acked
          /\ new.prev = TailHash(base)

Write == Continues(log, {"event", "registration"}) /\ UNCHANGED acked

Acknowledge == \E id \in IdsIn(log) : acked' = acked \cup {id} /\ UNCHANGED log

Erase ==
    /\ \E pair \in Pairs :
          /\ \E k \in 1..Len(log) : log[k].pair = pair
          /\ Continues(Relink(Survivors(log, pair)), {"purge"})
    /\ UNCHANGED acked

AuditSpec == AuditInit /\ [][Write \/ Acknowledge \/ Erase]_<<log, acked>>
=============================================================================
