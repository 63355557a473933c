------------------------------ MODULE Erasure ------------------------------
(***************************************************************************)
(* Erasing a subject from a folder (erasure.execute), beside processes     *)
(* that write records to it (inbox_watcher.ingest_file, which asks the     *)
(* erase guard first, and InboxWatcher.run_once, which does not), beside   *)
(* other executes for the same subject, and beside whoever seals and       *)
(* unseals the folder meanwhile (PendingErase).                            *)
(*                                                                         *)
(* A subject is mentioned by at most two records: the first, in data, and  *)
(* a second one written later.  Each has its own copy in the knowledge     *)
(* mirror, and the text of a record with a copy is in the copy alone.      *)
(* A purge is a step of its own: what disturbs one, as another purge does  *)
(* that overlaps it, is the business of SealedLog.  The purges of one      *)
(* execute are one step in which any may fail, and the folder has no       *)
(* descendants.                                                            *)
(***************************************************************************)
EXTENDS PendingErase

CONSTANTS
    Ingesters,     \* processes writing records to the folder
    IngestOps,     \* how they write: "file" asks the guard first, "watch" does not
    MaxExecutes    \* bound: how many executes are started

ASSUME ErasureAssumption ==
    /\ MaxExecutes \in Nat
    /\ IngestOps \subseteq {"file", "watch"}

VARIABLES
    exec,          \* the execute each process of Armers runs
    ingest,        \* the subject of the record an ingester is about to write
    second,        \* the subjects a second record in the log mentions
    secondMirror,  \* the subjects of second records the mirror holds
    slipped,       \* subjects a second record was ever written for: one each
    copied,        \* ingesters that have written the copy and not yet the event
    halted,        \* ingesters whose event never came: they write nothing more
    recorded,      \* subjects with an erasure_pending_applied event
    unrecorded,    \* subjects an execute erased and returned without a composite
    empties,       \* composites on the log, by subject, that record no effect
    lapsed,        \* subjects whose execute ended between a purge and its mirror
    executes       \* executes so far

records == <<second, secondMirror, slipped, copied, halted>>
ghosts  == <<recorded, unrecorded, empties, lapsed>>
evars   == <<vars, exec, ingest, records, ghosts, executes>>

Records == {"first", "second"}
Stages  == {"out", "log", "surfaces", "discover", "guard", "arm", "purge", "mirror",
            "files"}
\* All; not the copies, in silence; not the log, sealed; nor the seal, any more.
Sights  == {"clear", "unread", "blind", "unveiled"}
Execute == [stage : Stages, subject : SUBSET Subjects,
            owed : SUBSET (Records \cup {"stray"}),
                                       \* what mentioned the subject at the start, while
                                       \* the report names no error or sealed folder
            bodies : SUBSET Records,   \* the records whose text the mirror gave
            hits : SUBSET Records,     \* what the sweep found
            sight : Sights,            \* what it could read
            added : BOOLEAN,           \* this execute put the subject on the guard
            marked : BOOLEAN,          \* root_marker_armed
            purged : SUBSET Records,   \* pairs purged, n > 0
            left : BOOLEAN]            \* the mirror was out of reach, sealed

Idle == [stage |-> "out", subject |-> {}, owed |-> {}, bodies |-> {}, hits |-> {},
         sight |-> "clear", added |-> FALSE, marked |-> FALSE, purged |-> {}, left |-> FALSE]

EInit ==
    /\ Init
    /\ exec = [p \in Armers |-> Idle]
    /\ ingest = [i \in Ingesters |-> {}]
    /\ second = {} /\ secondMirror = {} /\ slipped = {}
    /\ copied = {} /\ halted = {}
    /\ recorded = {} /\ unrecorded = {} /\ lapsed = {}
    /\ empties = [s \in Subjects |-> 0]
    /\ executes = 0

\* The records in the log that mention a subject of S.
Mentions(S) == {r \in Records : S \cap (IF r = "first" THEN data ELSE second) # {}}

\* Those of them that have their text in the mirror.
Copies(S) == {r \in Mentions(S) : S \cap (IF r = "first" THEN mirror ELSE secondMirror) # {}}

\* The mirror holds a copy that mentions s and whose event was never written.
Stray(s) == \E i \in halted : s \in ingest[i]

\* The sets data and second, or mirror and secondMirror, without records R of S.
Without(set, r, R, S) == IF r \in R THEN set \ S ELSE set

\* Someone dies, or a read of the mirror fails.
CountFault ==
    /\ crashes < MaxCrashes
    /\ crashes' = crashes + 1
    /\ UNCHANGED <<memory, forgotten, ledger, armed, queued, armer, operator, reported, unseen>>

-----------------------------------------------------------------------------
(***************************************************************************)
(* Ingestion                                                               *)
(***************************************************************************)

\* ingest_file asks the guard; a forgotten subject is refused.
CheckGuard(i, s) ==
    /\ "file" \in IngestOps
    /\ ingest[i] = {}
    /\ s \notin forgotten
    /\ ingest' = [ingest EXCEPT ![i] = {s}]
    /\ UNCHANGED <<vars, exec, records, ghosts, executes>>

\* run_once has extracted a file.
PickUp(i, s) ==
    /\ "watch" \in IngestOps
    /\ ingest[i] = {}
    /\ ingest' = [ingest EXCEPT ![i] = {s}]
    /\ UNCHANGED <<vars, exec, records, ghosts, executes>>

\* remember, first: unless the folder is sealed, the text is written to the mirror.
\* (Between that look at the seal and the write nothing happens here.)
RememberBody(i) ==
    /\ ingest[i] # {}
    /\ i \notin copied \cup halted
    /\ IF blob = Plain
       THEN copied' = copied \cup {i} /\ UNCHANGED ingest
       ELSE ingest' = [ingest EXCEPT ![i] = {}] /\ UNCHANGED copied
    /\ UNCHANGED <<vars, exec, second, secondMirror, slipped, halted, ghosts, executes>>

\* Then the event is written to the log, and the record exists.
RememberEvent(i) ==
    \E s \in ingest[i] :
      /\ i \in copied
      /\ ingest' = [ingest EXCEPT ![i] = {}]
      /\ copied' = copied \ {i}
      /\ \/ Ingest(s) /\ UNCHANGED <<second, secondMirror, slipped>>
         \/ /\ blob = Plain
            /\ s \in forgotten \cup data
            /\ s \notin slipped
            /\ second' = second \cup {s}
            /\ secondMirror' = secondMirror \cup {s}
            /\ slipped' = slipped \cup {s}
            /\ UNCHANGED vars
      /\ UNCHANGED <<exec, halted, ghosts, executes>>

\* Or never: the folder was sealed meanwhile and refuses it, or the process dies.
\* The copy stays, and the file counts as ingested.
RememberFails(i) ==
    /\ i \in copied
    /\ \/ blob # Plain /\ UNCHANGED vars
       \/ CountFault
    /\ copied' = copied \ {i}
    /\ halted' = halted \cup {i}
    /\ UNCHANGED <<exec, ingest, second, secondMirror, slipped, ghosts, executes>>

-----------------------------------------------------------------------------
(***************************************************************************)
(* execute                                                                 *)
(***************************************************************************)
\* What a read of the mirror gives: a copy whose event is still to come is the
\* text of whichever record that will be.
Bodies(S) == IF \E i \in copied : ingest[i] \cap S # {} THEN Records ELSE Copies(S)

\* The execute begins, and its sweep first reads the texts the mirror has, which
\* fails, gives nothing in a sealed folder, or gives them.
Begin(p, s, bodies, sight) ==
    /\ exec[p].stage = "out"
    /\ executes < MaxExecutes
    /\ executes' = executes + 1
    /\ exec' = [exec EXCEPT ![p] = [Idle EXCEPT
          !.stage = "log", !.subject = {s}, !.bodies = bodies, !.sight = sight,
          !.owed = Mentions({s}) \cup (IF Stray(s) THEN {"stray"} ELSE {})]]
    /\ UNCHANGED <<ingest, records, ghosts>>

Start(p, s) ==
    /\ IF blob = Plain THEN Begin(p, s, Bodies({s}), "clear") ELSE Begin(p, s, {}, "blind")
    /\ UNCHANGED vars

\* A read that raises counts as having given nothing.
StartUnread(p, s) ==
    /\ CountFault
    /\ Begin(p, s, {}, "unread")

\* Then it replays the log, taking the text of an event from there or from what
\* it has read; the log of a sealed folder yields nothing.
SweepLog(p) ==
    LET e == exec[p] IN
    /\ e.stage = "log"
    /\ exec' = [exec EXCEPT ![p] =
          IF blob # Plain
          THEN [e EXCEPT !.stage = "surfaces", !.bodies = {}, !.sight = "blind"]
          ELSE [e EXCEPT !.stage = "surfaces", !.bodies = {},
                         !.hits = Mentions(e.subject) \ (Copies(e.subject) \ e.bodies)]]
    /\ UNCHANGED <<vars, ingest, records, ghosts, executes>>

\* Mutant: a sealed folder is not named.
SweepSurfaces_Unnamed(p) ==
    /\ exec[p].stage = "surfaces"
    /\ exec' = [exec EXCEPT ![p] =
          [@ EXCEPT !.stage = "discover",
                    !.sight = IF @ = "blind" /\ blob = Plain THEN "unveiled" ELSE @]]
    /\ UNCHANGED <<vars, ingest, records, ghosts, executes>>

\* It then asks whether the folder is sealed, and names it if so.
SweepSurfaces(p) ==
    LET e == exec[p] IN
    /\ e.stage = "surfaces"
    /\ exec' = [exec EXCEPT ![p] =
          IF blob # Plain
          THEN [e EXCEPT !.stage = "discover", !.owed = {}]
          ELSE [e EXCEPT !.stage = "discover",
                         !.sight = IF e.sight = "blind" THEN "unveiled" ELSE e.sight]]
    /\ UNCHANGED <<vars, ingest, records, ghosts, executes>>

\* The caller may have asked for a sealed folder to be queued.
DiscoverSealed(p) ==
    /\ exec[p].stage = "discover"
    /\ exec' = [exec EXCEPT ![p] = [@ EXCEPT !.stage = "guard"]]
    /\ UNCHANGED vars \/ \E s \in exec[p].subject : Discover(p, s)
    /\ UNCHANGED <<ingest, records, ghosts, executes>>

\* The subject is put on the folder's guard, under its lock; if that cannot be
\* done nothing is erased.
RegisterGuard(p) ==
    /\ exec[p].stage = "guard"
    /\ forgotten' = forgotten \cup exec[p].subject
    /\ exec' = [exec EXCEPT ![p] =
          [@ EXCEPT !.stage = IF armer[p] = Out THEN "purge" ELSE "arm",
                    !.added = forgotten' # forgotten]]
    /\ UNCHANGED <<memory, ledger, armed, queued, armer, operator, reported, unseen, crashes>>
    /\ UNCHANGED <<ingest, records, ghosts, executes>>

GuardFails(p) ==
    /\ exec[p].stage = "guard"
    /\ armer' = [armer EXCEPT ![p] = Out]
    /\ exec' = [exec EXCEPT ![p] = Idle]
    /\ UNCHANGED <<memory, forgotten, ledger, armed, queued, operator, reported, unseen, crashes>>
    /\ UNCHANGED <<ingest, records, ghosts, executes>>

\* arm_marker: the blob is read, unless the folder is not sealed any more.
Fingerprint(p) ==
    /\ exec[p].stage = "arm"
    /\ ReadBlob(p)
    /\ exec' = IF blob = Plain
               THEN [exec EXCEPT ![p] = [@ EXCEPT !.stage = "purge", !.owed = {}]]
               ELSE exec
    /\ UNCHANGED <<ingest, records, ghosts, executes>>

Arm(p) ==
    /\ exec[p].stage = "arm"
    /\ ArmMarker(p)
    /\ exec' = [exec EXCEPT ![p] = [@ EXCEPT !.stage = "purge", !.marked = TRUE]]
    /\ UNCHANGED <<ingest, records, ghosts, executes>>

\* Mutant: the root counts as armed before it is.
ArmFails_Marked(p) ==
    /\ exec[p].stage = "arm"
    /\ armer' = [armer EXCEPT ![p] = Out]
    /\ exec' = [exec EXCEPT ![p] = [@ EXCEPT !.stage = "purge", !.owed = {}, !.marked = TRUE]]
    /\ UNCHANGED <<memory, forgotten, ledger, armed, queued, operator, reported, unseen, crashes>>
    /\ UNCHANGED <<ingest, records, ghosts, executes>>

\* Arming raises; the folder is named and the execute goes on.
ArmFails(p) ==
    /\ exec[p].stage = "arm"
    /\ armer' = [armer EXCEPT ![p] = Out]
    /\ exec' = [exec EXCEPT ![p] = [@ EXCEPT !.stage = "purge", !.owed = {}]]
    /\ UNCHANGED <<memory, forgotten, ledger, armed, queued, operator, reported, unseen, crashes>>
    /\ UNCHANGED <<ingest, records, ghosts, executes>>

\* What the sweep found is purged, each pair from the log as it is now; a pair
\* that fails, as all must in a sealed folder, is an error in the report.
PurgeHits(p) ==
    LET e == exec[p] IN
    /\ e.stage = "purge"
    /\ \E failed \in IF blob = Plain THEN SUBSET e.hits ELSE {e.hits} :
         LET purged == (e.hits \ failed) \cap Mentions(e.subject) IN
         /\ data' = Without(data, "first", purged, e.subject)
         /\ second' = Without(second, "second", purged, e.subject)
         /\ exec' = [exec EXCEPT ![p] = [e EXCEPT
               !.stage = IF purged = {} THEN "files" ELSE "mirror",
               !.purged = purged, !.hits = {}, !.owed = IF failed = {} THEN e.owed ELSE {}]]
    /\ UNCHANGED <<blob, seals, mirror, forgotten, ledger, armed, queued, armer, operator,
                   reported, unseen, crashes>>
    /\ UNCHANGED <<ingest, secondMirror, slipped, copied, halted, ghosts, executes>>

\* Mutant: an exception of the mirror is swallowed.
EraseMirror_Swallows(p) ==
    LET e == exec[p] IN
    /\ e.stage = "mirror"
    /\ \E kept \in IF blob = Plain THEN SUBSET e.purged ELSE {e.purged} :
         /\ mirror' = Without(mirror, "first", e.purged \ kept, e.subject)
         /\ secondMirror' = Without(secondMirror, "second", e.purged \ kept, e.subject)
         /\ exec' = [exec EXCEPT ![p] = [@ EXCEPT !.stage = "files", !.left = blob # Plain]]
    /\ UNCHANGED <<blob, seals, data, forgotten, ledger, armed, queued, armer, operator,
                   reported, unseen, crashes>>
    /\ UNCHANGED <<ingest, second, slipped, copied, halted, ghosts, executes>>

\* _erase_versum_mirror, for the pairs just purged: an exception goes to the
\* report and the audit-drop log, a sealed folder to the report alone.
EraseMirror(p) ==
    LET e == exec[p] IN
    /\ e.stage = "mirror"
    /\ \E kept \in IF blob = Plain THEN SUBSET e.purged ELSE {e.purged} :
         /\ mirror' = Without(mirror, "first", e.purged \ kept, e.subject)
         /\ secondMirror' = Without(secondMirror, "second", e.purged \ kept, e.subject)
         /\ reported' = IF blob = Plain /\ kept # {} THEN reported \cup e.subject
                                                     ELSE reported
         /\ exec' = [exec EXCEPT ![p] = [e EXCEPT
               !.stage = "files", !.left = blob # Plain,
               !.owed = IF kept = {} THEN e.owed ELSE {}]]
    /\ UNCHANGED <<blob, seals, data, forgotten, ledger, armed, queued, armer, operator,
                   unseen, crashes>>
    /\ UNCHANGED <<ingest, second, slipped, copied, halted, ghosts, executes>>

HadEffect(e, touched) == e.purged # {} \/ touched

\* Mutant: a redelivery is not told from a first delivery.
Replayed_Never(e, touched) == FALSE

\* The subject was on the guard before, and this execute changed nothing.
Replayed(e, touched) == ~e.added /\ ~HadEffect(e, touched)

\* Drafts and cards have been rewritten or deleted, or not; a marker will bring
\* the composite, or there is nothing new to say.
ReturnUnrecorded(p) ==
    LET e == exec[p] IN
    /\ e.stage = "files"
    /\ \E touched \in BOOLEAN :
         /\ e.marked \/ Replayed(e, touched)
         /\ unrecorded' = IF HadEffect(e, touched) THEN unrecorded \cup e.subject
                                                   ELSE unrecorded
    /\ exec' = [exec EXCEPT ![p] = Idle]
    /\ reported' = IF e.left THEN reported \cup e.subject ELSE reported
    /\ UNCHANGED <<memory, forgotten, ledger, armed, queued, armer, operator, unseen, crashes>>
    /\ UNCHANGED <<ingest, records, recorded, empties, lapsed, executes>>

\* The same, and the composite is appended to the folder's own log.
ReturnRecorded(p) ==
    LET e == exec[p] IN
    /\ e.stage = "files"
    /\ blob = Plain
    /\ ~e.marked
    /\ \E touched \in BOOLEAN :
         /\ ~Replayed(e, touched)
         /\ empties' = [s \in Subjects |-> IF s \in e.subject /\ ~HadEffect(e, touched)
                                           THEN empties[s] + 1 ELSE empties[s]]
    /\ exec' = [exec EXCEPT ![p] = Idle]
    /\ reported' = IF e.left THEN reported \cup e.subject ELSE reported
    /\ UNCHANGED <<memory, forgotten, ledger, armed, queued, armer, operator, unseen, crashes>>
    /\ UNCHANGED <<ingest, records, recorded, unrecorded, lapsed, executes>>

\* The append raises, as it must in a sealed folder, and the report is lost.
RecordFails(p) ==
    LET e == exec[p] IN
    /\ e.stage = "files"
    /\ ~e.marked
    /\ \E touched \in BOOLEAN : ~Replayed(e, touched)
    /\ exec' = [exec EXCEPT ![p] = Idle]
    /\ lapsed' = IF e.left THEN lapsed \cup e.subject ELSE lapsed
    /\ UNCHANGED <<vars, ingest, records, recorded, unrecorded, empties, executes>>

\* The executing process dies.
Die(p) ==
    LET e == exec[p] IN
    /\ crashes < MaxCrashes
    /\ e.stage # "out"
    /\ crashes' = crashes + 1
    /\ exec' = [exec EXCEPT ![p] = Idle]
    /\ armer' = [armer EXCEPT ![p] = Out]
    /\ lapsed' = IF e.stage = "mirror" \/ e.left THEN lapsed \cup e.subject ELSE lapsed
    /\ UNCHANGED <<memory, forgotten, ledger, armed, queued, operator, reported, unseen>>
    /\ UNCHANGED <<ingest, records, recorded, unrecorded, empties, executes>>

-----------------------------------------------------------------------------
(***************************************************************************)
(* Sealing and unsealing, as in PendingErase; a marker takes the second    *)
(* records of its subject as well, and leaves an event.                    *)
(***************************************************************************)
ApplyPending(m, sees) ==
    /\ ApplyMarker(m, sees)
    /\ second' = second \ ({m.subject} \ Unread(secondMirror, sees))
    /\ secondMirror' = IF m.subject \in operator'.errors THEN secondMirror
                       ELSE secondMirror \ (second \ second')
    /\ recorded' = recorded \cup {m.subject}
    /\ UNCHANGED <<exec, ingest, slipped, copied, halted, unrecorded, empties, lapsed, executes>>

\* The mirror comes after the purge of every pair.
ApplyPendingFails(m) ==
    /\ ApplyFails(m)
    /\ second' \in IF blob = Plain THEN {second, second \ {m.subject}} ELSE {second}
    /\ secondMirror' \in {secondMirror, secondMirror \ (second \ second')}
    /\ <<mirror', secondMirror'>> # <<mirror, secondMirror>>
         => m.subject \notin data' \cup second'
    /\ UNCHANGED <<exec, ingest, slipped, copied, halted, ghosts, executes>>

ENext ==
    \/ \E i \in Ingesters :
          \/ \E s \in Subjects : CheckGuard(i, s) \/ PickUp(i, s)
          \/ RememberBody(i) \/ RememberEvent(i) \/ RememberFails(i)
    \/ \E p \in Armers :
          \/ \E s \in Subjects : Start(p, s) \/ StartUnread(p, s)
          \/ SweepLog(p) \/ SweepSurfaces(p) \/ DiscoverSealed(p)
          \/ RegisterGuard(p) \/ GuardFails(p)
          \/ Fingerprint(p) \/ Arm(p) \/ ArmFails(p)
          \/ PurgeHits(p) \/ EraseMirror(p)
          \/ ReturnUnrecorded(p) \/ ReturnRecorded(p) \/ RecordFails(p) \/ Die(p)
    \/ \E m \in operator.batch :
          (\E sees \in BOOLEAN : ApplyPending(m, sees)) \/ ApplyPendingFails(m)
    \/ /\ Seal \/ VerifyMarkers \/ Restore \/ DropApplied \/ Crash
       /\ UNCHANGED <<exec, ingest, records, ghosts, executes>>

ESpec == EInit /\ [][ENext]_evars

-----------------------------------------------------------------------------
ErasureTypeOK ==
    /\ TypeOK
    /\ exec \in [Armers -> Execute]
    /\ ingest \in [Ingesters -> SUBSET Subjects]
    /\ second \subseteq Subjects /\ secondMirror \subseteq Subjects
    /\ slipped \subseteq Subjects
    /\ copied \subseteq Ingesters /\ halted \subseteq Ingesters
    /\ recorded \subseteq Subjects /\ unrecorded \subseteq Subjects
    /\ lapsed \subseteq Subjects
    /\ empties \in [Subjects -> Nat]
    /\ executes \in 0..MaxExecutes

(***************************************************************************)
(* An execute whose report names no error and no sealed folder has erased  *)
(* from the log every record that mentioned the subject when it started,   *)
(* whoever seals, unseals, ingests or erases meanwhile.  The exceptions    *)
(* are named: a folder that was sealed when the sweep read it and was      *)
(* unsealed before the sweep looked for the seal; and, where the read of   *)
(* the mirror failed, which the report does not say, the records whose     *)
(* text is there.  The purges of two processes do not overlap here; where  *)
(* they do, the later one can bring back what the earlier one erased.      *)
(***************************************************************************)
CleanReportIsTrue ==
    [][\A p \in Armers :
          /\ ReturnUnrecorded(p) \/ ReturnRecorded(p)
          /\ exec[p].sight # "unveiled"
          => Mentions(exec[p].subject) \cap exec[p].owed
                \subseteq IF exec[p].sight = "unread" THEN Copies(exec[p].subject) ELSE {}]_evars

(***************************************************************************)
(* erasure.py:435 says the sweep names what it could not look into "so the *)
(* preview never reports an uninspected file -- or an unreachable          *)
(* knowledge copy -- as clean": when an execute reports neither an error   *)
(* nor a sealed folder, and saw none unsealed, no record it was to erase   *)
(* is left. It does not hold (README, section 5): a read of the mirror     *)
(* that fails is swallowed.                                                *)
(***************************************************************************)
UninspectedIsNotClean ==
    [][\A p \in Armers :
          /\ ReturnUnrecorded(p) \/ ReturnRecorded(p)
          /\ exec[p].sight # "unveiled"
          => Mentions(exec[p].subject) \cap exec[p].owed = {}]_evars

(***************************************************************************)
(* The same line of a knowledge copy: the report of an execute that could  *)
(* read everything is not clean while the mirror holds a copy it held when *)
(* the execute began, even one whose event was never written. It does not  *)
(* hold (README, section 5): the sweep walks events.                       *)
(***************************************************************************)
NoCopyIsReportedClean ==
    [][\A p \in Armers :
          /\ ReturnUnrecorded(p) \/ ReturnRecorded(p)
          /\ exec[p].sight = "clear"
          => "stray" \notin exec[p].owed]_evars

(***************************************************************************)
(* An erasure that changed the folder and returned is on the folder's log: *)
(* its composite, or the event of its marker, which is otherwise still in  *)
(* the ledger.                                                             *)
(***************************************************************************)
EveryErasureIsOnRecord ==
    \A s \in unrecorded : s \in recorded \/ \E m \in ledger : m.subject = s

(***************************************************************************)
(* Delivered again, or to two processes at once, an erasure that finds     *)
(* nothing is recorded once: the composite is not forked.                  *)
(***************************************************************************)
EmptyErasureIsRecordedOnce == \A s \in Subjects : empties[s] <= 1

(***************************************************************************)
(* A copy in the knowledge mirror that outlives its record is known: it    *)
(* was reported, its marker is in the ledger, the execute that purged the  *)
(* record is still to erase it or to return its report, or that execute    *)
(* was cut short, by death or by the folder being sealed under it.  A copy *)
(* whose event was never written has no record to outlive: that no erasure *)
(* finds it is what NoCopyIsReportedClean is about.                        *)
(***************************************************************************)
MirrorsLeftAreKnown ==
    \A s \in (mirror \ data) \cup (secondMirror \ second) :
        \/ s \in reported \cup lapsed
        \/ \E m \in ledger : m.subject = s
        \/ \E p \in Armers : s \in exec[p].subject /\ (exec[p].stage = "mirror" \/ exec[p].left)

(***************************************************************************)
(* security_dashboard.py:32 says of the guard that it "blocks              *)
(* re-ingestion": no record mentioning a forgotten subject is written.     *)
(***************************************************************************)
ReingestionIsBlocked ==
    [][forgotten \cap ((data' \ data) \cup (second' \ second)) = {}]_evars
=============================================================================
