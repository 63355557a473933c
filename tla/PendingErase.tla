---------------------------- MODULE PendingErase ----------------------------
(***************************************************************************)
(* Erasing a subject from a folder whose memory is sealed                  *)
(* (pending_erase.py, and its callers erasure.execute and                  *)
(* seal.unseal_folder): a marker is armed beside the blob and bound to its *)
(* fingerprint; unsealing verifies the markers, restores the plaintext,    *)
(* applies them and drops the ones that were applied.                      *)
(*                                                                         *)
(* Every seal is salted afresh, so a blob is known by its number.  Nobody  *)
(* forges here: of a marker's bindings the fingerprint is the one honest   *)
(* use can break.  Which records mention a subject is the matcher's        *)
(* business; the memory is the set of subjects its log mentions, and the   *)
(* set its mirrors (versum records, drafts, cards) mention.  Erasure runs  *)
(* the executes, gives each subject a second record and composes the two.  *)
(***************************************************************************)
EXTENDS Integers, FiniteSets

CONSTANTS
    Subjects,      \* people whose erasure may be requested
    Armers,        \* processes executing an erasure against the folder
    MaxSeals,      \* bound: how often the folder is sealed
    MaxMarkers,    \* bound: how many markers are ever armed
    MaxCrashes     \* bound: how often a process dies or fails to read the mirror

ASSUME PendingEraseAssumption == {MaxSeals, MaxMarkers, MaxCrashes} \subseteq Nat

Plain  == 0                    \* no blob
Blobs  == 1..MaxSeals
Marker == [id : 1..MaxMarkers, subject : Subjects, blob : Blobs]

VARIABLES
    blob,       \* the fingerprint of the .sealed blob, Plain without one
    seals,      \* blobs made so far
    data,       \* the subjects the log mentions, sealed or not
    mirror,     \* the subjects its mirrors mention, sealed with it
    forgotten,  \* the folder's forgotten-subjects ledger
    ledger,     \* the markers in <hash>.pending-erase.jsonl
    armed,      \* markers made so far
    queued,     \* subjects an execute reported as queued
    armer,      \* where each executing process is: its subject and fingerprint
    operator,   \* where the unsealing process is: its markers, those applied, the errors
    reported,   \* subjects of mirror errors an unseal has returned
    unseen,     \* subjects of markers applied while the mirror could not be read
    crashes     \* such deaths and failures so far

memory == <<blob, seals, data, mirror>>
vars   == <<memory, forgotten, ledger, armed, queued, armer, operator, reported, unseen,
            crashes>>

Out   == [stage |-> "out", subject |-> {}, blob |-> Plain]
Away  == [stage |-> "away", batch |-> {}, applied |-> {}, errors |-> {}]

Init ==
    /\ blob = Plain
    /\ seals = 0
    /\ data \in SUBSET Subjects
    /\ mirror \in SUBSET data
    /\ forgotten = {}
    /\ ledger = {}
    /\ armed = 0
    /\ queued = {}
    /\ armer = [p \in Armers |-> Out]
    /\ operator = Away
    /\ reported = {}
    /\ unseen = {}
    /\ crashes = 0

-----------------------------------------------------------------------------
(***************************************************************************)
(* The memory                                                              *)
(***************************************************************************)

\* The first record of a subject is written to the plain memory; the ingest
\* guard refuses one that mentions a forgotten subject.
Ingest(s) ==
    /\ blob = Plain
    /\ s \notin forgotten \cup data
    /\ data' = data \cup {s}
    /\ mirror' = mirror \cup {s}
    /\ UNCHANGED <<blob, seals, forgotten, ledger, armed, queued, armer, operator, reported,
                   unseen, crashes>>

\* seal_folder, by anyone, also while an unseal is still applying markers.
Seal ==
    /\ blob = Plain
    /\ seals < MaxSeals
    /\ seals' = seals + 1
    /\ blob' = seals'
    /\ UNCHANGED <<data, mirror, forgotten, ledger, armed, queued, armer, operator, reported,
                   unseen, crashes>>

-----------------------------------------------------------------------------
(***************************************************************************)
(* execute: discover_sealed_in_scope, then arm_marker                      *)
(***************************************************************************)
Discover(p, s) ==
    /\ armer[p] = Out
    /\ blob # Plain
    /\ armer' = [armer EXCEPT ![p] = [stage |-> "arm", subject |-> {s}, blob |-> Plain]]
    /\ UNCHANGED <<memory, forgotten, ledger, armed, queued, operator, reported, unseen, crashes>>

\* A folder that is not sealed is refused; the subject is registered in the
\* folder's own ledger; the blob is fingerprinted.
ReadBlob(p) ==
    /\ armer[p].stage = "arm"
    /\ IF blob = Plain
       THEN armer' = [armer EXCEPT ![p] = Out] /\ UNCHANGED forgotten
       ELSE /\ forgotten' = forgotten \cup armer[p].subject
            /\ armer' = [armer EXCEPT ![p] = [@ EXCEPT !.stage = "write", !.blob = blob]]
    /\ UNCHANGED <<memory, ledger, armed, queued, operator, reported, unseen, crashes>>

\* Mutant: every call arms a marker of its own.
SamePending_Never(s, b) == FALSE

\* A marker for the same subject and the same blob.
SamePending(s, b) == \E m \in ledger : m.subject = s /\ m.blob = b

\* Under the ledger's lock: an equal marker is returned, else one is appended.
ArmMarker(p) ==
    /\ armer[p].stage = "write"
    /\ \E s \in armer[p].subject :
          /\ IF SamePending(s, armer[p].blob)
             THEN UNCHANGED <<ledger, armed>>
             ELSE /\ armed < MaxMarkers
                  /\ armed' = armed + 1
                  /\ ledger' = ledger \cup
                        {[id |-> armed', subject |-> s, blob |-> armer[p].blob]}
          /\ queued' = queued \cup {s}
    /\ armer' = [armer EXCEPT ![p] = Out]
    /\ UNCHANGED <<memory, forgotten, operator, reported, unseen, crashes>>

-----------------------------------------------------------------------------
(***************************************************************************)
(* unseal_folder: verify_markers_for_unseal, restore, apply_markers        *)
(***************************************************************************)

\* Every marker in the ledger, read without its lock, fits the blob; if one
\* does not, the unseal raises before anything is decrypted.
VerifyMarkers ==
    /\ operator = Away
    /\ blob # Plain
    /\ \A m \in ledger : m.blob = blob
    /\ operator' = [stage |-> "restore", batch |-> ledger, applied |-> {}, errors |-> {}]
    /\ UNCHANGED <<memory, forgotten, ledger, armed, queued, armer, reported, unseen, crashes>>

\* The plaintext is on disk again and the blob is gone.
Restore ==
    /\ operator.stage = "restore"
    /\ blob' = Plain
    /\ operator' = IF operator.batch = {} THEN Away ELSE [operator EXCEPT !.stage = "apply"]
    /\ UNCHANGED <<seals, data, mirror, forgotten, ledger, armed, queued, armer, reported, unseen, crashes>>

\* The subjects whose text the matcher does not get to see.
Unread(copies, sees) == IF sees THEN {} ELSE copies

\* Purge what mentions the subject, clean the mirrors of what was purged just
\* now, and log the composite.  A mirror that fails is only reported.  The texts
\* that only the mirror has are read first; if that raises (~sees) the matcher
\* goes on without them, and nobody is told.
ApplyMarker(m, sees) ==
    /\ operator.stage = "apply"
    /\ m \in operator.batch
    /\ blob = Plain
    /\ data' = data \ ({m.subject} \ Unread(mirror, sees))
    /\ IF sees
       THEN UNCHANGED <<unseen, crashes>>
       ELSE /\ crashes < MaxCrashes
            /\ crashes' = crashes + 1
            /\ unseen' = unseen \cup {m.subject}
    /\ \E errors \in {{}, {m.subject}} :
          /\ mirror' = mirror \ ((data \ data') \ errors)
          /\ operator' = [operator EXCEPT !.batch = @ \ {m}, !.applied = @ \cup {m},
                                          !.errors = @ \cup errors]
    /\ UNCHANGED <<blob, seals, forgotten, ledger, armed, queued, armer, reported>>

\* Something raised: before the purge, as it must in a store sealed again, or
\* after it.
ApplyFails(m) ==
    /\ operator.stage = "apply"
    /\ m \in operator.batch
    /\ data' \in IF blob = Plain THEN {data, data \ {m.subject}} ELSE {data}
    /\ mirror' \in {mirror, mirror \ (data \ data')}
    /\ operator' = [operator EXCEPT !.batch = @ \ {m}]
    /\ UNCHANGED <<blob, seals, forgotten, ledger, armed, queued, armer, reported, unseen, crashes>>

\* Mutant: the ledger is rewritten empty.
DropApplied_All ==
    /\ operator.stage = "apply"
    /\ operator.batch = {}
    /\ ledger' = {}
    /\ reported' = reported \cup operator.errors
    /\ operator' = Away
    /\ UNCHANGED <<memory, forgotten, armed, queued, armer, unseen, crashes>>

\* Under the ledger's lock, and from its present content; then the unseal
\* returns its report.
DropApplied ==
    /\ operator.stage = "apply"
    /\ operator.batch = {}
    /\ ledger' = ledger \ operator.applied
    /\ reported' = reported \cup operator.errors
    /\ operator' = Away
    /\ UNCHANGED <<memory, forgotten, armed, queued, armer, unseen, crashes>>

Crash ==
    /\ crashes < MaxCrashes
    /\ operator # Away
    /\ crashes' = crashes + 1
    /\ operator' = Away
    /\ UNCHANGED <<memory, forgotten, ledger, armed, queued, armer, reported, unseen>>

-----------------------------------------------------------------------------
Next ==
    \/ \E s \in Subjects : Ingest(s)
    \/ Seal
    \/ \E p \in Armers :
          \/ \E s \in Subjects : Discover(p, s)
          \/ ReadBlob(p)
          \/ ArmMarker(p)
    \/ VerifyMarkers
    \/ Restore
    \/ \E m \in operator.batch : (\E sees \in BOOLEAN : ApplyMarker(m, sees)) \/ ApplyFails(m)
    \/ DropApplied
    \/ Crash

Spec == Init /\ [][Next]_vars

-----------------------------------------------------------------------------
TypeOK ==
    /\ blob \in Blobs \cup {Plain}
    /\ seals \in 0..MaxSeals
    /\ data \subseteq Subjects /\ mirror \subseteq Subjects
    /\ forgotten \subseteq Subjects
    /\ ledger \subseteq Marker
    /\ armed \in 0..MaxMarkers
    /\ queued \subseteq Subjects
    /\ armer \in [Armers -> [stage : {"out", "arm", "write"}, subject : SUBSET Subjects,
                             blob : Blobs \cup {Plain}]]
    /\ operator \in [stage : {"away", "restore", "apply"}, batch : SUBSET Marker,
                     applied : SUBSET Marker, errors : SUBSET Subjects]
    /\ reported \subseteq Subjects /\ unseen \subseteq Subjects
    /\ crashes \in 0..MaxCrashes

(***************************************************************************)
(* The log of an erasure reported as queued has been purged, or its marker *)
(* is still in the ledger: however arming, unsealing, sealing, failures    *)
(* and deaths interleave, no pending erasure is dropped.  The exception is *)
(* named: a marker applied while the mirror could not be read leaves the   *)
(* records whose text is there, and counts as applied.                     *)
(***************************************************************************)
NoErasureIsDropped ==
    \A s \in queued :
        s \in data => s \in unseen \/ \E m \in ledger : m.subject = s

(***************************************************************************)
(* Repeated and concurrent executes arm one marker per subject and blob.   *)
(***************************************************************************)
OneMarkerPerErasure ==
    \A m, n \in ledger : m.subject = n.subject /\ m.blob = n.blob => m = n

(***************************************************************************)
(* What an erasure reported as queued leaves behind in the log's mirrors   *)
(* has its marker in the ledger still, or an unseal has reported it: a     *)
(* mirror that fails, or a purge repeated after a failure and now finding  *)
(* nothing to mirror, leaves no silent copy; a marker applied while the    *)
(* mirror could not be read may.                                           *)
(***************************************************************************)
NoMirrorIsLeftSilently ==
    \A s \in queued : s \in mirror =>
        s \in reported \cup unseen \/ \E m \in ledger : m.subject = s
=============================================================================
