--------------------------- MODULE ErasureProofs ---------------------------
(***************************************************************************)
(* What an erasure promises, for every set of subjects, executing and      *)
(* ingesting processes and every bound.  A record is purged only of a      *)
(* subject the guard knows by then, and only an ingest the guard does not  *)
(* see can bring one back, as a second record; so what an execute found    *)
(* when it began and purged stays purged, and what it can still owe only   *)
(* shrinks.                                                                *)
(***************************************************************************)
EXTENDS Erasure, TLAPS

-----------------------------------------------------------------------------
(***************************************************************************)
(* The pending erasures alone (Spec of PendingErase).  They lose nothing:  *)
(* restoring a blob makes every marker bound to it stale for good, so a    *)
(* marker is tried by one unseal only, and what that unseal does not finish *)
(* keeps its marker.                                                       *)
(***************************************************************************)

\* The markers the running unseal holds.
Handled == operator.batch \cup operator.applied

\* A marker bound to a blob that was, and so will never again be, on disk.
Stale(m) == m.blob # blob /\ m.blob <= seals

\* A mirror whose log is purged already is accounted for.
Settled(s) ==
    \/ s \in reported \cup operator.errors
    \/ \E m \in ledger \ Handled : m.subject = s /\ Stale(m)

BlobOK == blob \in {Plain, seals}

\* Subjects are registered as forgotten before their marker is written, and
\* a marker names a blob that was made.
ArmingOK ==
    /\ queued \subseteq forgotten
    /\ \A p \in Armers : armer[p].stage = "write" =>
          armer[p].subject \subseteq forgotten /\ armer[p].blob \in 1..seals
    /\ \A m \in ledger : m.subject \in forgotten /\ m.blob <= seals

\* The running unseal holds markers of the ledger, each tried once; while it
\* applies them none of them fits a blob.
UnsealOK ==
    /\ Handled \subseteq ledger
    /\ operator.batch \cap operator.applied = {}
    /\ operator.stage # "apply" => operator.applied = {} /\ operator.errors = {}
    /\ operator.stage = "apply" => \A m \in Handled : Stale(m)
    /\ operator.stage = "restore" =>
          blob # Plain /\ \A m \in operator.batch : m.blob = blob
    /\ operator.stage = "away" => operator = Away

AppliedOK ==
    /\ \A m \in operator.applied : m.subject \in data => m.subject \in unseen
    /\ \A s \in operator.errors : \E m \in operator.applied : m.subject = s

MirrorsOK == \A s \in mirror \ data : Settled(s)

\* What a step does to mirrors: what is settled stays so, and what it leaves
\* behind it settles.
MirrorsStep ==
    /\ \A s \in Subjects : Settled(s) => Settled(s)'
    /\ \A s \in mirror' \ data' : s \in mirror \ data \/ Settled(s)'

\* All of the invariant that does not depend on who else erases from the log.
LInv ==
    /\ TypeOK
    /\ NoErasureIsDropped
    /\ BlobOK
    /\ ArmingOK
    /\ UnsealOK
    /\ AppliedOK

IInv == LInv /\ MirrorsOK

-----------------------------------------------------------------------------
THEOREM InitInv == Init => IInv /\ OneMarkerPerErasure
<1> SUFFICES ASSUME Init PROVE IInv /\ OneMarkerPerErasure
  OBVIOUS
<1>1. TypeOK
  BY PendingEraseAssumption DEF Init, TypeOK, Out, Away, Plain, Blobs, Marker
<1>2. ArmingOK /\ BlobOK /\ OneMarkerPerErasure /\ NoErasureIsDropped
  BY DEF Init, ArmingOK, BlobOK, OneMarkerPerErasure, NoErasureIsDropped, Out
<1>3. UnsealOK /\ AppliedOK /\ MirrorsOK
  BY DEF Init, UnsealOK, AppliedOK, MirrorsOK, Handled, Away
<1> QED
  BY <1>1, <1>2, <1>3 DEF IInv, LInv

-----------------------------------------------------------------------------
LEMMA IngestInv ==
    ASSUME LInv, NEW s \in Subjects, Ingest(s) PROVE LInv' /\ MirrorsStep
<1>1. TypeOK'
  BY DEF LInv, TypeOK, Ingest, memory
<1>2. NoErasureIsDropped'
  BY DEF LInv, ArmingOK, NoErasureIsDropped, Ingest
<1>3. BlobOK' /\ ArmingOK'
  BY DEF LInv, BlobOK, ArmingOK, Ingest
<1>4. UnsealOK'
  BY DEF LInv, UnsealOK, Handled, Stale, Ingest
<1>5. AppliedOK'
  BY DEF LInv, UnsealOK, ArmingOK, AppliedOK, Handled, Ingest
<1>6. MirrorsStep
  BY DEF LInv, MirrorsStep, Settled, Handled, Stale, Ingest
<1> QED
  BY <1>1, <1>2, <1>3, <1>4, <1>5, <1>6 DEF LInv

LEMMA SealInv ==
    ASSUME LInv, Seal PROVE LInv' /\ MirrorsStep
<1>1. TypeOK'
  BY PendingEraseAssumption DEF LInv, TypeOK, Seal, Blobs, Plain, Marker
<1>2. \A m \in Marker : m.blob \in Nat
  BY DEF Marker, Blobs
<1>3. seals \in Nat /\ blob = Plain /\ seals' = seals + 1 /\ blob' = seals' /\ ledger \subseteq Marker
  BY DEF LInv, TypeOK, Seal
<1>4. \A m \in ledger : m.blob <= seals
  BY DEF LInv, ArmingOK
<1>5. \A m \in ledger : Stale(m)'
  BY <1>2, <1>3, <1>4 DEF Stale
<1>6. NoErasureIsDropped' /\ AppliedOK' /\ BlobOK'
  BY DEF LInv, NoErasureIsDropped, AppliedOK, BlobOK, Seal
<1>7. ArmingOK'
  BY <1>2, <1>3 DEF LInv, ArmingOK, Seal
<1>8. UnsealOK'
  BY <1>5 DEF LInv, UnsealOK, Handled, Seal
<1>9. MirrorsStep
  BY <1>5 DEF LInv, MirrorsStep, Settled, Handled, Seal
<1> QED
  BY <1>1, <1>6, <1>7, <1>8, <1>9 DEF LInv

-----------------------------------------------------------------------------
LEMMA DiscoverInv ==
    ASSUME LInv, NEW p \in Armers, NEW s \in Subjects, Discover(p, s) PROVE LInv' /\ MirrorsStep
<1> DEFINE c == [stage |-> "arm", subject |-> {s}, blob |-> Plain]
<1>1. armer' = [armer EXCEPT ![p] = c]
  BY DEF Discover
<1>2. c.stage = "arm" /\ c \in [stage : {"out", "arm", "write"}, subject : SUBSET Subjects,
                                blob : Blobs \cup {Plain}]
  OBVIOUS
<1> HIDE DEF c
<1>3. TypeOK'
  BY <1>1, <1>2 DEF LInv, TypeOK, Discover, memory
<1>4. ArmingOK'
  BY <1>1, <1>2 DEF LInv, TypeOK, ArmingOK, Discover, memory
<1>5. NoErasureIsDropped' /\ BlobOK' /\ UnsealOK' /\ AppliedOK' /\ MirrorsStep
  BY DEF LInv, NoErasureIsDropped, BlobOK, UnsealOK, AppliedOK, MirrorsStep, Settled,
         Handled, Stale, Discover, memory
<1> QED
  BY <1>3, <1>4, <1>5 DEF LInv

LEMMA ReadBlobInv ==
    ASSUME LInv, NEW p \in Armers, ReadBlob(p) PROVE LInv' /\ MirrorsStep
<1>1. /\ forgotten \subseteq forgotten' /\ forgotten' \subseteq Subjects
      /\ UNCHANGED <<memory, ledger, armed, queued, operator, reported, unseen, crashes>>
  BY DEF LInv, TypeOK, ReadBlob
<1>2. PICK c \in [stage : {"out", "arm", "write"}, subject : SUBSET Subjects,
                  blob : Blobs \cup {Plain}] :
          /\ armer' = [armer EXCEPT ![p] = c]
          /\ c.stage = "write" => c.subject \subseteq forgotten' /\ c.blob \in 1..seals
  <2>1. CASE blob = Plain
    <3>1. armer' = [armer EXCEPT ![p] = Out]
      BY <2>1 DEF ReadBlob
    <3>2. Out.stage = "out" /\ Out \in [stage : {"out", "arm", "write"},
                                        subject : SUBSET Subjects, blob : Blobs \cup {Plain}]
      BY DEF Out
    <3> QED
      BY <3>1, <3>2
  <2>2. CASE blob # Plain
    <3> DEFINE c == [armer[p] EXCEPT !.stage = "write", !.blob = blob]
    <3>1. armer' = [armer EXCEPT ![p] = c] /\ forgotten' = forgotten \cup armer[p].subject
      BY <2>2 DEF ReadBlob
    <3>2. armer[p] \in [stage : {"out", "arm", "write"}, subject : SUBSET Subjects,
                        blob : Blobs \cup {Plain}] /\ blob \in Blobs
      BY <2>2 DEF LInv, TypeOK
    <3>3. c.subject = armer[p].subject /\ c.blob = blob
          /\ c \in [stage : {"out", "arm", "write"}, subject : SUBSET Subjects,
                    blob : Blobs \cup {Plain}]
      BY <3>2
    <3>4. blob \in 1..seals
      BY <2>2 DEF LInv, TypeOK, BlobOK, Blobs, Plain
    <3> QED
      BY <3>1, <3>3, <3>4
  <2> QED
    BY <2>1, <2>2
<1>3. TypeOK'
  BY <1>1, <1>2 DEF LInv, TypeOK, memory
<1>4. ArmingOK'
  BY <1>1, <1>2 DEF LInv, TypeOK, ArmingOK, memory
<1>5. NoErasureIsDropped' /\ BlobOK' /\ UnsealOK' /\ AppliedOK' /\ MirrorsStep
  BY <1>1 DEF LInv, NoErasureIsDropped, BlobOK, UnsealOK, AppliedOK, MirrorsStep, Settled,
              Handled, Stale, memory
<1> QED
  BY <1>3, <1>4, <1>5 DEF LInv

\* What arming a marker does: the ledger gains at most one, for the subject
\* then reported as queued.
LEMMA ArmMarkerStep ==
    ASSUME LInv, NEW p \in Armers, ArmMarker(p)
    PROVE  \E m \in Marker :
              /\ m.subject \in forgotten /\ m.blob <= seals
              /\ ledger' \in {ledger, ledger \cup {m}}
              /\ queued' = queued \cup {m.subject}
              /\ \E n \in ledger' : n.subject = m.subject
              /\ ledger' # ledger => ~SamePending(m.subject, m.blob)
              /\ armed' \in 0..MaxMarkers
<1>1. PICK s \in armer[p].subject :
          /\ IF SamePending(s, armer[p].blob)
             THEN UNCHANGED <<ledger, armed>>
             ELSE /\ armed < MaxMarkers
                  /\ armed' = armed + 1
                  /\ ledger' = ledger \cup
                        {[id |-> armed', subject |-> s, blob |-> armer[p].blob]}
          /\ queued' = queued \cup {s}
  BY DEF ArmMarker
<1>2. s \in forgotten /\ s \in Subjects /\ armer[p].blob \in Blobs /\ armer[p].blob <= seals
  <2>1. armer[p].subject \subseteq forgotten /\ armer[p].blob \in 1..seals
    BY DEF LInv, ArmingOK, ArmMarker
  <2>2. seals \in 0..MaxSeals /\ forgotten \subseteq Subjects
    BY DEF LInv, TypeOK
  <2> QED
    BY <2>1, <2>2, PendingEraseAssumption DEF Blobs
<1>3. CASE SamePending(s, armer[p].blob)
  <2>1. PICK m \in ledger : m.subject = s /\ m.blob = armer[p].blob
    BY <1>3 DEF SamePending
  <2>2. m \in Marker /\ armed \in 0..MaxMarkers
    BY DEF LInv, TypeOK
  <2> QED
    BY <1>1, <1>2, <1>3, <2>1, <2>2
<1>4. CASE ~SamePending(s, armer[p].blob)
  <2> DEFINE m == [id |-> armed', subject |-> s, blob |-> armer[p].blob]
  <2>1. armed' \in 1..MaxMarkers /\ ledger' = ledger \cup {m}
    BY <1>1, <1>4, PendingEraseAssumption DEF LInv, TypeOK
  <2>2. m \in Marker /\ m.subject = s /\ m.blob = armer[p].blob
    BY <1>2, <2>1 DEF Marker
  <2> HIDE DEF m
  <2> QED
    BY <1>1, <1>2, <1>4, <2>1, <2>2
<1> QED
  BY <1>3, <1>4

LEMMA ArmMarkerInv ==
    ASSUME LInv, NEW p \in Armers, ArmMarker(p) PROVE LInv' /\ MirrorsStep
<1>1. PICK m \in Marker :
          /\ m.subject \in forgotten /\ m.blob <= seals
          /\ ledger' \in {ledger, ledger \cup {m}}
          /\ queued' = queued \cup {m.subject}
          /\ \E n \in ledger' : n.subject = m.subject
          /\ armed' \in 0..MaxMarkers
  BY ArmMarkerStep
<1>2. /\ armer' = [armer EXCEPT ![p] = Out]
      /\ UNCHANGED <<memory, forgotten, operator, reported, unseen, crashes>>
  BY DEF ArmMarker
<1>3. Out.stage = "out" /\ Out \in [stage : {"out", "arm", "write"},
                                    subject : SUBSET Subjects, blob : Blobs \cup {Plain}]
  BY DEF Out
<1>4. m.subject \in Subjects
  BY DEF Marker
<1>5. TypeOK'
  BY <1>1, <1>2, <1>3, <1>4 DEF LInv, TypeOK, memory
<1>6. NoErasureIsDropped'
  BY <1>1, <1>2 DEF LInv, NoErasureIsDropped, memory
<1>7. ArmingOK'
  BY <1>1, <1>2, <1>3 DEF LInv, TypeOK, ArmingOK, memory
<1>8. BlobOK' /\ UnsealOK' /\ AppliedOK' /\ MirrorsStep
  BY <1>1, <1>2 DEF LInv, BlobOK, UnsealOK, AppliedOK, MirrorsStep, Settled, Handled, Stale,
                    memory
<1> QED
  BY <1>5, <1>6, <1>7, <1>8 DEF LInv

-----------------------------------------------------------------------------
(***************************************************************************)
(* The unsealing process                                                   *)
(***************************************************************************)
OperatorType == [stage : {"away", "restore", "apply"}, batch : SUBSET Marker,
                 applied : SUBSET Marker, errors : SUBSET Subjects]

LEMMA VerifyMarkersInv ==
    ASSUME LInv, VerifyMarkers PROVE LInv' /\ MirrorsStep
<1>1. /\ operator'.stage = "restore" /\ operator'.batch = ledger
      /\ operator'.applied = {} /\ operator'.errors = {}
      /\ operator' \in OperatorType
  BY DEF LInv, TypeOK, VerifyMarkers, OperatorType
<1>2. /\ operator = Away /\ blob # Plain /\ \A m \in ledger : m.blob = blob
      /\ UNCHANGED <<memory, forgotten, ledger, armed, queued, armer, reported, unseen, crashes>>
  BY DEF VerifyMarkers
<1>3. TypeOK'
  BY <1>1, <1>2 DEF LInv, TypeOK, memory, OperatorType
<1>4. NoErasureIsDropped' /\ BlobOK' /\ ArmingOK' /\ AppliedOK'
  BY <1>1, <1>2 DEF LInv, NoErasureIsDropped, BlobOK, ArmingOK, AppliedOK, memory
<1>5. UnsealOK'
  BY <1>1, <1>2 DEF UnsealOK, Handled, memory
<1>6. MirrorsStep
  BY <1>1, <1>2 DEF LInv, MirrorsStep, Settled, Stale, Away, memory
<1> QED
  BY <1>3, <1>4, <1>5, <1>6 DEF LInv

\* From here on no marker of the batch fits a blob again.
LEMMA RestoreInv ==
    ASSUME LInv, Restore PROVE LInv' /\ MirrorsStep
<1>1. /\ blob' = Plain /\ operator.stage = "restore"
      /\ UNCHANGED <<seals, data, mirror, forgotten, ledger, armed, queued, armer, reported,
                     unseen, crashes>>
  BY DEF Restore
<1>2. operator.applied = {} /\ operator.errors = {}
  BY <1>1 DEF LInv, UnsealOK
<1>3. /\ operator' \in OperatorType
      /\ operator'.batch = operator.batch /\ operator'.applied = {} /\ operator'.errors = {}
      /\ operator'.stage = "apply" \/ operator' = Away
      /\ operator'.stage # "restore"
  <2>1. CASE operator.batch = {}
    BY <1>2, <2>1 DEF Restore, Away, OperatorType
  <2>2. CASE operator.batch # {}
    <3>1. operator' = [operator EXCEPT !.stage = "apply"] /\ operator \in OperatorType
      BY <2>2 DEF LInv, TypeOK, Restore, OperatorType
    <3> QED
      BY <1>2, <3>1 DEF OperatorType
  <2> QED
    BY <2>1, <2>2
<1>4. Plain \notin Blobs
  BY DEF Plain, Blobs
<1>5. \A m \in ledger : Stale(m)'
  BY <1>1, <1>4 DEF LInv, TypeOK, ArmingOK, Stale, Marker
<1>6. TypeOK'
  BY <1>1, <1>3 DEF LInv, TypeOK, OperatorType
<1>7. NoErasureIsDropped' /\ BlobOK' /\ ArmingOK' /\ AppliedOK'
  BY <1>1, <1>3 DEF LInv, NoErasureIsDropped, BlobOK, ArmingOK, AppliedOK
<1>8. UnsealOK'
  BY <1>1, <1>3, <1>5 DEF LInv, UnsealOK, Handled, Away
<1>9. MirrorsStep
  BY <1>1, <1>2, <1>3, <1>5 DEF LInv, MirrorsStep, Settled, Handled
<1> QED
  BY <1>6, <1>7, <1>8, <1>9 DEF LInv

\* A batch marker stays in the ledger, stale, until the unseal is done with it.
LEMMA BatchIsStale ==
    ASSUME LInv, operator.stage = "apply", NEW m \in operator.batch
    PROVE  m \in ledger /\ m \in Marker /\ m.subject \in forgotten /\ Stale(m)
           /\ m \notin operator.applied
BY DEF LInv, TypeOK, ArmingOK, UnsealOK, Handled

LEMMA ApplyMarkerInv ==
    ASSUME LInv, NEW m \in operator.batch, NEW sees \in BOOLEAN, ApplyMarker(m, sees)
    PROVE  LInv' /\ MirrorsStep
<1>1. /\ operator.stage = "apply" /\ blob = Plain
      /\ data' \in {data, data \ {m.subject}}
      /\ m.subject \in data' => m.subject \in unseen'
      /\ unseen' \in {unseen, unseen \cup {m.subject}}
      /\ crashes' \in 0..MaxCrashes
      /\ UNCHANGED <<blob, seals, forgotten, ledger, armed, queued, armer, reported>>
  BY PendingEraseAssumption DEF ApplyMarker, Unread, LInv, TypeOK
<1>2. m \in ledger /\ m \in Marker /\ m.subject \in Subjects /\ m \notin operator.applied
  BY <1>1, BatchIsStale DEF Marker
<1>3. PICK errors \in {{}, {m.subject}} :
          /\ mirror' = mirror \ ((data \ data') \ errors)
          /\ operator' = [operator EXCEPT !.batch = @ \ {m}, !.applied = @ \cup {m},
                                          !.errors = @ \cup errors]
  BY DEF ApplyMarker
<1>4. /\ operator'.stage = "apply"
      /\ operator'.batch = operator.batch \ {m}
      /\ operator'.applied = operator.applied \cup {m}
      /\ operator'.errors = operator.errors \cup errors
      /\ operator' \in OperatorType
  BY <1>1, <1>2, <1>3 DEF LInv, TypeOK, OperatorType
<1>5. TypeOK'
  BY <1>1, <1>2, <1>3, <1>4 DEF LInv, TypeOK, OperatorType
<1>6. NoErasureIsDropped' /\ BlobOK' /\ ArmingOK'
  BY <1>1 DEF LInv, NoErasureIsDropped, BlobOK, ArmingOK
<1>7. UnsealOK'
  BY <1>1, <1>2, <1>4 DEF LInv, UnsealOK, Handled, Stale
<1>8. AppliedOK'
  <2>1. ASSUME NEW n \in operator'.applied, n.subject \in data' PROVE n.subject \in unseen'
    BY <1>1, <1>4, <2>1 DEF LInv, AppliedOK
  <2>2. ASSUME NEW s \in operator'.errors PROVE \E n \in operator'.applied : n.subject = s
    BY <1>3, <1>4, <2>2 DEF LInv, AppliedOK
  <2> QED
    BY <2>1, <2>2 DEF AppliedOK
<1>9. MirrorsStep
  <2>1. ASSUME NEW s \in mirror', s \notin data', s \in data
        PROVE  s \in operator'.errors
    BY <1>1, <1>3, <1>4, <2>1
  <2>2. ASSUME NEW s, Settled(s)
        PROVE  Settled(s)'
    BY <1>1, <1>2, <1>4, <2>2 DEF Settled, Handled, Stale
  <2>3. mirror' \subseteq mirror
    BY <1>3
  <2> QED
    BY <2>1, <2>2, <2>3 DEF MirrorsStep, Settled
<1> QED
  BY <1>5, <1>6, <1>7, <1>8, <1>9 DEF LInv

LEMMA ApplyFailsInv ==
    ASSUME LInv, NEW m \in operator.batch, ApplyFails(m) PROVE LInv' /\ MirrorsStep
<1>1. /\ operator.stage = "apply"
      /\ data' \in {data, data \ {m.subject}}
      /\ mirror' \subseteq mirror
      /\ UNCHANGED <<blob, seals, forgotten, ledger, armed, queued, armer, reported, unseen, crashes>>
  BY DEF ApplyFails
<1>2. m \in ledger /\ m \in Marker /\ Stale(m) /\ m \notin operator.applied
  BY <1>1, BatchIsStale
<1>3. /\ operator'.stage = "apply"
      /\ operator'.batch = operator.batch \ {m}
      /\ operator'.applied = operator.applied
      /\ operator'.errors = operator.errors
      /\ operator' \in OperatorType
  BY DEF LInv, TypeOK, OperatorType, ApplyFails
<1>4. TypeOK'
  BY <1>1, <1>3 DEF LInv, TypeOK, OperatorType
<1>5. NoErasureIsDropped' /\ BlobOK' /\ ArmingOK'
  BY <1>1 DEF LInv, NoErasureIsDropped, BlobOK, ArmingOK
<1>6. UnsealOK'
  BY <1>1, <1>3 DEF LInv, UnsealOK, Handled, Stale
<1>7. AppliedOK'
  BY <1>1, <1>3 DEF LInv, AppliedOK
<1>8. MirrorsStep
  <2>1. Settled(m.subject)'
    BY <1>1, <1>2, <1>3 DEF Settled, Handled, Stale
  <2>2. ASSUME NEW s, Settled(s)
        PROVE  Settled(s)'
    BY <1>1, <1>3, <2>2 DEF Settled, Handled, Stale
  <2> QED
    BY <1>1, <2>1, <2>2 DEF MirrorsStep
<1> QED
  BY <1>4, <1>5, <1>6, <1>7, <1>8 DEF LInv

LEMMA DropAppliedInv ==
    ASSUME LInv, DropApplied PROVE LInv' /\ MirrorsStep
<1>1. /\ operator.stage = "apply" /\ operator.batch = {}
      /\ ledger' = ledger \ operator.applied
      /\ reported' = reported \cup operator.errors
      /\ operator' = Away
      /\ UNCHANGED <<memory, forgotten, armed, queued, armer, unseen, crashes>>
  BY DEF DropApplied
<1>2. /\ Away.stage = "away" /\ Away.batch = {} /\ Away.applied = {} /\ Away.errors = {}
      /\ Away \in OperatorType
  BY DEF Away, OperatorType
<1>3. TypeOK'
  BY <1>1, <1>2 DEF LInv, TypeOK, OperatorType, memory
<1>4. NoErasureIsDropped'
  BY <1>1 DEF LInv, NoErasureIsDropped, AppliedOK, memory
<1>5. BlobOK' /\ ArmingOK' /\ AppliedOK'
  BY <1>1, <1>2 DEF LInv, BlobOK, ArmingOK, AppliedOK, memory
<1>6. UnsealOK'
  BY <1>1, <1>2 DEF UnsealOK, Handled
<1>7. MirrorsStep
  BY <1>1, <1>2 DEF LInv, MirrorsStep, Settled, Handled, Stale, memory
<1> QED
  BY <1>3, <1>4, <1>5, <1>6, <1>7 DEF LInv

\* The errors of an unseal that dies are those of markers it leaves behind.
LEMMA CrashInv ==
    ASSUME LInv, Crash PROVE LInv' /\ MirrorsStep
<1>1. /\ operator' = Away /\ crashes' \in 0..MaxCrashes
      /\ UNCHANGED <<memory, forgotten, ledger, armed, queued, armer, reported, unseen>>
  BY PendingEraseAssumption DEF LInv, TypeOK, Crash
<1>2. /\ Away.stage = "away" /\ Away.batch = {} /\ Away.applied = {} /\ Away.errors = {}
      /\ Away \in OperatorType
  BY DEF Away, OperatorType
<1>3. TypeOK'
  BY <1>1, <1>2 DEF LInv, TypeOK, OperatorType, memory
<1>4. NoErasureIsDropped' /\ BlobOK' /\ ArmingOK' /\ AppliedOK'
  BY <1>1, <1>2 DEF LInv, NoErasureIsDropped, BlobOK, ArmingOK, AppliedOK, memory
<1>5. UnsealOK'
  BY <1>1, <1>2 DEF UnsealOK, Handled
<1>6. \A s \in operator.errors : \E m \in ledger : m.subject = s /\ Stale(m)
  BY DEF LInv, UnsealOK, AppliedOK, Handled
<1>7. MirrorsStep
  BY <1>1, <1>2, <1>6 DEF LInv, MirrorsStep, Settled, Handled, Stale, memory
<1> QED
  BY <1>3, <1>4, <1>5, <1>7 DEF LInv

-----------------------------------------------------------------------------
\* The inductive step of every action.
LEMMA NextInv ==
    ASSUME LInv, Next PROVE LInv' /\ MirrorsStep
BY IngestInv, SealInv, DiscoverInv, ReadBlobInv, ArmMarkerInv, VerifyMarkersInv,
   RestoreInv, ApplyMarkerInv, ApplyFailsInv, DropAppliedInv, CrashInv DEF Next

LEMMA StutterInv ==
    ASSUME LInv, UNCHANGED vars PROVE LInv' /\ MirrorsStep
BY DEF vars, memory, LInv, TypeOK, NoErasureIsDropped, BlobOK, ArmingOK, UnsealOK,
       AppliedOK, MirrorsStep, Settled, Handled, Stale

\* Only arming adds to the ledger.
LEMMA MarkersInv ==
    ASSUME LInv, OneMarkerPerErasure, Next PROVE OneMarkerPerErasure'
<1>1. ASSUME NEW p \in Armers, ArmMarker(p)
      PROVE  OneMarkerPerErasure'
  BY <1>1, ArmMarkerStep DEF OneMarkerPerErasure, SamePending
<1>2. CASE ~\E p \in Armers : ArmMarker(p)
  <2>1. ledger' \subseteq ledger
    BY <1>2 DEF Next, Ingest, Seal, Discover, ReadBlob, VerifyMarkers, Restore,
                ApplyMarker, ApplyFails, DropApplied, Crash
  <2> QED
    BY <2>1 DEF OneMarkerPerErasure
<1> QED
  BY <1>1, <1>2

THEOREM Inductive == IInv /\ [Next]_vars => IInv'
<1> SUFFICES ASSUME IInv, [Next]_vars PROVE IInv'
  OBVIOUS
<1>1. LInv' /\ MirrorsStep
  BY NextInv, StutterInv DEF IInv
<1>2. MirrorsOK'
  BY <1>1 DEF IInv, LInv, TypeOK, MirrorsOK, MirrorsStep
<1> QED
  BY <1>1, <1>2 DEF IInv

THEOREM Invariance == Spec => []IInv
<1>1. Init => IInv
  BY InitInv
<1> QED
  BY <1>1, Inductive, PTL DEF Spec

-----------------------------------------------------------------------------
\* Type correctness of pending erasure (pending_erase.py).
THEOREM TypeCorrect == Spec => []TypeOK
<1>1. IInv => TypeOK
  BY DEF IInv, LInv
<1> QED
  BY <1>1, Invariance, PTL

(***************************************************************************)
(* No pending erasure is dropped: whatever arming, unsealing, sealing,     *)
(* failing markers and deaths do to each other, a subject reported as      *)
(* queued is out of the log or has a marker in the ledger, or its marker   *)
(* was applied without a look at the mirror (apply_markers).               *)
(***************************************************************************)
THEOREM PendingErasureIsKept == Spec => []NoErasureIsDropped
<1>1. IInv => NoErasureIsDropped
  BY DEF IInv, LInv
<1> QED
  BY <1>1, Invariance, PTL

(***************************************************************************)
(* Nor is a mirror of a queued erasure left behind in silence: a marker    *)
(* remains, or an unseal has returned the error, or the mirror could not   *)
(* be read when the marker was applied (apply_markers).                    *)
(***************************************************************************)
THEOREM MirrorsAreAccountedFor == Spec => []NoMirrorIsLeftSilently
<1>1. IInv => NoMirrorIsLeftSilently
  BY DEF IInv, LInv, NoMirrorIsLeftSilently, NoErasureIsDropped, UnsealOK, AppliedOK, MirrorsOK,
         Settled, Handled
<1> QED
  BY <1>1, Invariance, PTL

(***************************************************************************)
(* arm_marker is idempotent: concurrent and repeated executes leave one    *)
(* marker per subject and blob.                                            *)
(***************************************************************************)
THEOREM ArmingIsIdempotent == Spec => []OneMarkerPerErasure
<1>1. ASSUME IInv, OneMarkerPerErasure, [Next]_vars
      PROVE  OneMarkerPerErasure'
  BY <1>1, MarkersInv DEF IInv, OneMarkerPerErasure, vars
<1> QED
  BY <1>1, InitInv, Invariance, PTL DEF Spec

-----------------------------------------------------------------------------
(***************************************************************************)
(* Whole executes and ingests (ESpec of Erasure)                           *)
(***************************************************************************)

\* The erasure of a subject has its event on the log, or will have.
OnRecord(s) == s \in recorded \/ \E m \in ledger : m.subject = s

Guarded == {"arm", "purge", "mirror", "files"}
Swept   == {"surfaces", "discover", "guard", "arm", "purge"}

\* What the sweep may have missed of the records it was to find.
Missed(e) == IF e.sight = "unread" THEN Copies(e.subject) ELSE {}

\* What holds of an execute.
Fits(e) ==
    /\ \A s, t \in e.subject : s = t
    /\ e.stage \in Guarded => e.subject \subseteq forgotten
    /\ e.added => e.stage \in Guarded
    /\ e.left => e.stage = "files"
    /\ e.marked => \A s \in e.subject : OnRecord(s)
    /\ "first" \in e.owed => e.subject \subseteq data \cup forgotten
    /\ "second" \in e.owed => e.subject \subseteq slipped
    /\ e.stage = "log" /\ e.sight = "clear" => Copies(e.subject) \cap e.owed \subseteq e.bodies
    /\ e.stage \in Swept /\ e.sight \in {"clear", "unread"}
          => Mentions(e.subject) \cap e.owed \subseteq e.hits \cup Missed(e)
    /\ e.stage \in Guarded \cup {"discover", "guard"} /\ e.sight = "blind" => e.owed = {}
    /\ e.stage \in {"mirror", "files"} /\ e.sight \in {"clear", "unread"}
          => Mentions(e.subject) \cap e.owed \subseteq Missed(e)
    /\ e.stage = "mirror" => Mentions(e.subject) \cap e.purged = {}
    /\ e.stage = "mirror" /\ "second" \in e.purged => e.subject \subseteq slipped

ExecOK(p) == Fits(exec[p])

\* At most one execute, ever, put the subject on the guard.
AddedOK ==
    /\ \A p, q \in Armers : \A s \in exec[p].subject \cap exec[q].subject :
          exec[p].added /\ exec[q].added => p = q
    /\ \A s \in Subjects : empties[s] # 0 =>
          /\ empties[s] = 1
          /\ s \in forgotten
          /\ \A p \in Armers : s \in exec[p].subject => ~exec[p].added

\* A process arms a marker for the subject its execute erases.
ArmsOwn ==
    \A p \in Armers : armer[p] # Out =>
        exec[p].stage \in {"guard", "arm"} /\ exec[p].subject = armer[p].subject

RecordedOK ==
    /\ \A m \in operator.applied : m.subject \in recorded
    /\ \A s \in unrecorded : OnRecord(s)

SecondOK == second \subseteq slipped /\ secondMirror \subseteq slipped

\* The mirror of record r of s is the business of an execute still running.
InHand(r, s) ==
    \E p \in Armers : /\ s \in exec[p].subject
                      /\ r \in exec[p].purged
                      /\ exec[p].stage = "mirror" \/ exec[p].left

Known(r, s) == Settled(s) \/ s \in lapsed \/ InHand(r, s)

MirrorsKnown ==
    /\ \A s \in mirror \ data : Known("first", s)
    /\ \A s \in secondMirror \ second : Known("second", s)

EInv ==
    /\ ErasureTypeOK
    /\ LInv
    /\ OneMarkerPerErasure
    /\ \A p \in Armers : ExecOK(p)
    /\ ArmsOwn
    /\ AddedOK
    /\ RecordedOK
    /\ SecondOK
    /\ MirrorsKnown

-----------------------------------------------------------------------------
(***************************************************************************)
(* Steps seen from an execute                                              *)
(***************************************************************************)

\* What no step undoes.
EnvStep ==
    /\ forgotten \subseteq forgotten'
    /\ slipped \subseteq slipped'
    /\ \A s \in data' : s \in data \/ s \notin forgotten
    /\ \A s \in second' : s \in second \/ s \notin slipped
    /\ data \ data' \subseteq forgotten'
    /\ \A s \in Subjects : OnRecord(s) => OnRecord(s)'
    /\ \A s \in data \cap data' : s \in mirror <=> s \in mirror'
    /\ \A s \in second \cap second' : s \in secondMirror <=> s \in secondMirror'

\* The records that mention someone in S, one by one, before and after a step.
LEMMA MentionsOf ==
    ASSUME NEW S
    PROVE  /\ \A r \in Mentions(S) : r = "first" \/ r = "second"
           /\ "first" \in Mentions(S) <=> \E s \in S : s \in data
           /\ "second" \in Mentions(S) <=> \E s \in S : s \in second
BY DEF Mentions, Records

LEMMA MentionsThen ==
    ASSUME NEW S
    PROVE  /\ \A r \in Mentions(S)' : r = "first" \/ r = "second"
           /\ "first" \in Mentions(S)' <=> \E s \in S : s \in data'
           /\ "second" \in Mentions(S)' <=> \E s \in S : s \in second'
BY DEF Mentions, Records

\* What an execute was to erase can only have become less.
LEMMA MentionsShrink ==
    ASSUME EnvStep, NEW p \in Armers, ExecOK(p), NEW S, S = exec[p].subject
    PROVE  Mentions(S)' \cap exec[p].owed \subseteq Mentions(S)
<1>1. "first" \in Mentions(S)' \cap exec[p].owed => "first" \in Mentions(S)
  BY MentionsOf, MentionsThen DEF EnvStep, ExecOK, Fits
<1>2. "second" \in Mentions(S)' \cap exec[p].owed => "second" \in Mentions(S)
  BY MentionsOf, MentionsThen DEF EnvStep, ExecOK, Fits
<1> QED
  BY <1>1, <1>2, MentionsThen

\* Nor can one lose its text, or get it from elsewhere.
LEMMA CopiesKept ==
    ASSUME EnvStep, NEW p \in Armers, ExecOK(p), NEW S, S = exec[p].subject
    PROVE  \A r \in Mentions(S)' \cap exec[p].owed : r \in Copies(S)' <=> r \in Copies(S)
<1>1. \A s, t \in S : s = t
  BY DEF ExecOK, Fits
<1>2. ASSUME "first" \in Mentions(S)' \cap exec[p].owed
      PROVE  "first" \in Copies(S)' <=> "first" \in Copies(S)
  <2>1. PICK s \in S : s \in data'
    BY <1>2, MentionsThen
  <2>2. s \in data
    <3>1. "first" \in Mentions(S)
      BY <1>2, MentionsShrink
    <3> QED
      BY <1>1, <2>1, <3>1, MentionsOf
  <2>3. s \in mirror <=> s \in mirror'
    BY <2>1, <2>2 DEF EnvStep
  <2>4. "first" \in Copies(S) <=> s \in mirror
    BY <1>1, <2>1, <2>2 DEF Copies, Mentions, Records
  <2>5. "first" \in Copies(S)' <=> s \in mirror'
    BY <1>1, <2>1 DEF Copies, Mentions, Records
  <2> QED
    BY <2>3, <2>4, <2>5
<1>3. ASSUME "second" \in Mentions(S)' \cap exec[p].owed
      PROVE  "second" \in Copies(S)' <=> "second" \in Copies(S)
  <2>1. PICK s \in S : s \in second'
    BY <1>3, MentionsThen
  <2>2. s \in second
    <3>1. "second" \in Mentions(S)
      BY <1>3, MentionsShrink
    <3> QED
      BY <1>1, <2>1, <3>1, MentionsOf
  <2>3. s \in secondMirror <=> s \in secondMirror'
    BY <2>1, <2>2 DEF EnvStep
  <2>4. "second" \in Copies(S) <=> s \in secondMirror
    BY <1>1, <2>1, <2>2 DEF Copies, Mentions, Records
  <2>5. "second" \in Copies(S)' <=> s \in secondMirror'
    BY <1>1, <2>1 DEF Copies, Mentions, Records
  <2> QED
    BY <2>3, <2>4, <2>5
<1> QED
  BY <1>2, <1>3, MentionsThen

LEMMA ExecEnv ==
    ASSUME EnvStep, NEW p \in Armers, exec[p] \in Execute, exec'[p] = exec[p], ExecOK(p)
    PROVE  ExecOK(p)'
<1> DEFINE e == exec[p]
<1>1. PICK S \in SUBSET Subjects : S = e.subject
  BY DEF Execute
<1>2. /\ Mentions(S)' \cap e.owed \subseteq Mentions(S)
      /\ \A r \in Mentions(S)' \cap e.owed : r \in Copies(S)' <=> r \in Copies(S)
  BY <1>1, MentionsShrink, CopiesKept
<1>3. /\ Mentions(e.subject) = Mentions(S) /\ Mentions(e.subject)' = Mentions(S)'
      /\ Copies(e.subject) = Copies(S) /\ Copies(e.subject)' = Copies(S)'
  BY <1>1 DEF Mentions, Copies
<1>4. e' = e
  OBVIOUS
<1>5. /\ \A s, t \in e.subject : s = t
      /\ e.stage \in Guarded => e.subject \subseteq forgotten'
      /\ e.added => e.stage \in Guarded
      /\ e.left => e.stage = "files"
      /\ "first" \in e.owed => e.subject \subseteq data' \cup forgotten'
      /\ "second" \in e.owed => e.subject \subseteq slipped'
      /\ e.stage \in Guarded \cup {"discover", "guard"} /\ e.sight = "blind" => e.owed = {}
      /\ e.stage = "mirror" /\ "second" \in e.purged => e.subject \subseteq slipped'
  BY DEF ExecOK, Fits, EnvStep
<1>6. e.marked => \A s \in e.subject : OnRecord(s)'
  BY <1>1 DEF ExecOK, Fits, EnvStep
<1>7. e.stage = "log" /\ e.sight = "clear" => Copies(e.subject)' \cap e.owed \subseteq e.bodies
  <2>1. Copies(S)' \subseteq Mentions(S)'
    BY DEF Copies
  <2> QED
    BY <1>2, <1>3, <2>1 DEF ExecOK, Fits
<1>8. Missed(e)' = IF e.sight = "unread" THEN Copies(S)' ELSE {}
  BY <1>3, <1>4 DEF Missed
<1>9. Missed(e) = IF e.sight = "unread" THEN Copies(S) ELSE {}
  BY <1>3 DEF Missed
<1>10. e.stage \in Swept /\ e.sight \in {"clear", "unread"}
            => Mentions(e.subject)' \cap e.owed \subseteq e.hits \cup Missed(e)'
  BY <1>2, <1>3, <1>8, <1>9 DEF ExecOK, Fits
<1>11. e.stage \in {"mirror", "files"} /\ e.sight \in {"clear", "unread"}
            => Mentions(e.subject)' \cap e.owed \subseteq Missed(e)'
  BY <1>2, <1>3, <1>8, <1>9 DEF ExecOK, Fits
<1>12. e.stage = "mirror" => Mentions(e.subject)' \cap e.purged = {}
  <2> SUFFICES ASSUME e.stage = "mirror" PROVE Mentions(S)' \cap e.purged = {}
    BY <1>3
  <2>1. Mentions(S) \cap e.purged = {} /\ S \subseteq forgotten
    BY <1>1, <1>3 DEF ExecOK, Fits, Guarded
  <2>2. "second" \in e.purged => S \subseteq slipped
    BY <1>1 DEF ExecOK, Fits
  <2>3. "first" \in Mentions(S)' => "first" \in Mentions(S)
    BY <2>1, MentionsOf, MentionsThen DEF EnvStep
  <2>4. "second" \in Mentions(S)' \cap e.purged => "second" \in Mentions(S)
    BY <2>2, MentionsOf, MentionsThen DEF EnvStep
  <2> QED
    BY <2>1, <2>3, <2>4, MentionsThen
<1> HIDE DEF e
<1> QED
  BY <1>4, <1>5, <1>6, <1>7, <1>10, <1>11, <1>12 DEF ExecOK, Fits, Missed, e

LEMMA AddedEnv ==
    ASSUME AddedOK, forgotten \subseteq forgotten', empties' = empties,
           \A q \in Armers : exec'[q].added =>
                exec[q].added /\ exec'[q].subject = exec[q].subject
    PROVE  AddedOK'
BY DEF AddedOK

LEMMA MirrorsEnv ==
    ASSUME MirrorsKnown, TypeOK, ErasureTypeOK,
           \A s \in Subjects : Settled(s) => Settled(s)',
           lapsed \subseteq lapsed',
           \A r \in Records, s \in Subjects : InHand(r, s) => Known(r, s)',
           \A s \in mirror' \ data' : s \in mirror \ data \/ Known("first", s)',
           \A s \in secondMirror' \ second' :
                s \in secondMirror \ second \/ Known("second", s)'
    PROVE  MirrorsKnown'
BY DEF MirrorsKnown, Known, Records, TypeOK, ErasureTypeOK

\* A step of an execute that has nothing in hand leaves in hand what others have.
LEMMA InHandOfOthers ==
    ASSUME NEW p \in Armers, NEW c, exec \in [Armers -> Execute],
           exec' = [exec EXCEPT ![p] = c], ExecOK(p),
           exec[p].stage \notin {"mirror", "files"},
           NEW r \in Records, NEW s \in Subjects, InHand(r, s)
    PROVE  Known(r, s)'
BY DEF InHand, Known, ExecOK, Fits

\* Steps of an execute leave the markers and whoever applies them alone.
LEMMA ExecuteKeeps ==
    ASSUME LInv, NEW p \in Armers,
           UNCHANGED <<blob, seals, ledger, armed, queued, operator>>,
           data' \subseteq data, mirror' \subseteq mirror,
           forgotten \subseteq forgotten', forgotten' \subseteq Subjects,
           reported \subseteq reported', reported' \subseteq Subjects,
           crashes' \in 0..MaxCrashes, unseen' = unseen,
           armer' \in {armer, [armer EXCEPT ![p] = Out]}
    PROVE  LInv' /\ \A s \in Subjects : Settled(s) => Settled(s)'
<1>1. Out \in [stage : {"out", "arm", "write"}, subject : SUBSET Subjects,
              blob : Blobs \cup {Plain}] /\ Out.stage = "out"
  BY DEF Out
<1>2. TypeOK'
  BY <1>1 DEF LInv, TypeOK
<1>3. ArmingOK'
  BY <1>1 DEF LInv, TypeOK, ArmingOK
<1>4. NoErasureIsDropped' /\ BlobOK' /\ UnsealOK' /\ AppliedOK'
  BY DEF LInv, NoErasureIsDropped, BlobOK, UnsealOK, AppliedOK, Handled, Stale
<1>5. \A s \in Subjects : Settled(s) => Settled(s)'
  BY DEF Settled, Handled, Stale
<1> QED
  BY <1>2, <1>3, <1>4, <1>5 DEF LInv

\* An execute's step, apart from what it does to its own record, short of the
\* steps that erase mirrors or end it.
LEMMA OneExecute ==
    ASSUME EInv, NEW p \in Armers, NEW c \in Execute, exec' = [exec EXCEPT ![p] = c],
           exec[p].stage \notin {"mirror", "files"},
           UNCHANGED <<ingest, secondMirror, slipped, copied, halted, ghosts, operator>>,
           second' \subseteq second,
           executes' \in 0..MaxExecutes,
           LInv', OneMarkerPerErasure', EnvStep, ExecOK(p)', AddedOK',
           \A q \in Armers \ {p} : armer'[q] = armer[q],
           armer'[p] # Out => c.stage \in {"guard", "arm"} /\ c.subject = armer'[p].subject,
           \A s \in Subjects : Settled(s) => Settled(s)',
           \A s \in mirror' \ data' : s \in mirror \ data \/ Known("first", s)',
           \A s \in secondMirror' \ second' :
                s \in secondMirror \ second \/ Known("second", s)'
    PROVE  EInv'
<1> USE DEF EInv
<1>1. ErasureTypeOK'
  BY DEF ErasureTypeOK, LInv, ghosts
<1>2. \A q \in Armers : ExecOK(q)'
  <2>1. ASSUME NEW q \in Armers, q # p PROVE ExecOK(q)'
    <3>1. exec'[q] = exec[q] /\ exec[q] \in Execute
      BY <2>1 DEF ErasureTypeOK
    <3> QED
      BY <3>1, ExecEnv
  <2> QED
    BY <2>1
<1>3. ArmsOwn'
  BY DEF ArmsOwn, ErasureTypeOK
<1>4. RecordedOK'
  BY DEF RecordedOK, EnvStep, ghosts, ErasureTypeOK
<1>5. SecondOK'
  BY DEF SecondOK
<1>6. MirrorsKnown'
  <2>1. \A r \in Records, s \in Subjects : InHand(r, s) => Known(r, s)'
    BY InHandOfOthers DEF ErasureTypeOK
  <2> QED
    BY <2>1, MirrorsEnv DEF LInv, ghosts
<1> QED
  BY <1>1, <1>2, <1>3, <1>4, <1>5, <1>6

-----------------------------------------------------------------------------
(***************************************************************************)
(* The steps of an execute                                                 *)
(***************************************************************************)
LEMMA IdleOK == Idle \in Execute /\ Idle.stage = "out" /\ Idle.subject = {}
                /\ Idle.owed = {} /\ ~Idle.added /\ ~Idle.marked /\ ~Idle.left
                /\ Idle.purged = {} /\ Idle.hits = {} /\ Idle.bodies = {} /\ Idle.sight = "clear"
BY DEF Idle, Execute, Stages, Sights

\* A fault that is only counted leaves the markers and the mirrors as they are.
LEMMA FaultInv ==
    ASSUME LInv, CountFault PROVE LInv' /\ MirrorsStep
<1>1. TypeOK'
  BY PendingEraseAssumption DEF LInv, TypeOK, CountFault, memory
<1> QED
  BY <1>1 DEF CountFault, memory, LInv, NoErasureIsDropped, BlobOK, ArmingOK, UnsealOK,
              AppliedOK, MirrorsStep, Settled, Handled, Stale

LEMMA BeginInv ==
    ASSUME EInv, NEW p \in Armers, NEW s \in Subjects, NEW bodies \in SUBSET Records,
           NEW sight \in {"clear", "unread", "blind"}, Begin(p, s, bodies, sight),
           sight = "clear" => Copies({s}) \subseteq bodies,
           UNCHANGED vars \/ CountFault
    PROVE  EInv'
<1> DEFINE owed == Mentions({s}) \cup (IF Stray(s) THEN {"stray"} ELSE {})
           c == [Idle EXCEPT !.stage = "log", !.subject = {s}, !.bodies = bodies,
                             !.sight = sight, !.owed = owed]
<1>1. /\ exec' = [exec EXCEPT ![p] = c] /\ exec[p].stage = "out"
      /\ executes' \in 0..MaxExecutes
      /\ UNCHANGED <<ingest, records, ghosts>>
  BY ErasureAssumption DEF Begin, EInv, ErasureTypeOK
<1>2. owed \in SUBSET (Records \cup {"stray"}) /\ owed \cap Records = Mentions({s})
  BY DEF Mentions, Records
<1> HIDE DEF owed
<1>3. /\ c \in Execute /\ c.stage = "log" /\ c.subject = {s} /\ c.owed = owed
      /\ c.bodies = bodies /\ c.sight = sight
      /\ ~c.added /\ ~c.marked /\ ~c.left
  BY <1>2, IdleOK DEF Execute, Stages, Sights
<1> HIDE DEF c
<1>4. exec'[p] = c
  BY <1>1 DEF EInv, ErasureTypeOK
<1>5. /\ UNCHANGED <<memory, forgotten, ledger, armed, queued, armer, operator, reported>>
      /\ LInv' /\ MirrorsStep
  BY StutterInv, FaultInv DEF EInv, vars, CountFault
<1>6. EnvStep
  BY <1>1, <1>5 DEF EnvStep, OnRecord, memory, records, ghosts
<1>7. ExecOK(p)'
  <2>1. Copies(exec[p].subject)' = Copies({s})
    BY <1>1, <1>3, <1>4, <1>5 DEF Copies, Mentions, memory, records
  <2>2. "first" \in c.owed => s \in data
    BY <1>2, <1>3, MentionsOf DEF Records
  <2>3. "second" \in c.owed => s \in slipped
    BY <1>2, <1>3, MentionsOf DEF Records, EInv, SecondOK
  <2> QED
    BY <1>1, <1>3, <1>4, <1>5, <2>1, <2>2, <2>3 DEF ExecOK, Fits, Guarded, Swept, memory, records
<1>8. OneMarkerPerErasure' /\ \A t \in Subjects : Settled(t) => Settled(t)'
  BY <1>5 DEF EInv, MirrorsStep, OneMarkerPerErasure
<1>9. AddedOK'
  BY <1>1, <1>3, <1>4, <1>5, AddedEnv DEF EInv, ErasureTypeOK, ghosts
<1>10. armer' = armer /\ armer[p] = Out
  BY <1>1, <1>5 DEF EInv, ArmsOwn
<1> QED
  BY <1>1, <1>3, <1>5, <1>6, <1>7, <1>8, <1>9, <1>10, OneExecute DEF EInv, memory, records

LEMMA StartInv ==
    ASSUME EInv, NEW p \in Armers, NEW s \in Subjects, Start(p, s) \/ StartUnread(p, s)
    PROVE  EInv'
<1>1. Bodies({s}) \in SUBSET Records /\ Copies({s}) \subseteq Bodies({s})
  BY DEF Bodies, Copies, Mentions
<1>2. CASE StartUnread(p, s)
  BY <1>2, BeginInv DEF StartUnread
<1>3. CASE Start(p, s) /\ blob = Plain
  BY <1>1, <1>3, BeginInv DEF Start
<1>4. CASE Start(p, s) /\ blob # Plain
  BY <1>4, BeginInv DEF Start
<1> QED
  BY <1>2, <1>3, <1>4

\* A step of an execute that leaves the folder and the guard as they are.
LEMMA QuietStep ==
    ASSUME EInv, NEW p \in Armers, NEW c \in Execute, exec' = [exec EXCEPT ![p] = c],
           exec[p].stage \notin {"mirror", "files"},
           UNCHANGED <<memory, forgotten, ledger, armed, queued, operator, reported, unseen, crashes>>,
           UNCHANGED <<ingest, records, ghosts, executes>>,
           LInv',
           \A q \in Armers \ {p} : armer'[q] = armer[q],
           armer'[p] # Out => c.stage \in {"guard", "arm"} /\ c.subject = armer'[p].subject,
           c.added => exec[p].added /\ c.subject = exec[p].subject,
           Fits(c), ~c.left, c.stage \notin {"mirror", "files"}
    PROVE  EInv'
<1>1. exec'[p] = c
  BY DEF EInv, ErasureTypeOK
<1>2. EnvStep
  BY DEF EnvStep, OnRecord, memory, records, ghosts
<1>3. /\ Mentions(exec[p].subject)' = Mentions(c.subject)
      /\ Copies(exec[p].subject)' = Copies(c.subject)
  BY <1>1 DEF Mentions, Copies, memory, records
<1>4. ExecOK(p)'
  <2>1. \A s \in Subjects : OnRecord(s) => OnRecord(s)'
    BY <1>2 DEF EnvStep
  <2>2. c.marked => \A s \in c.subject : OnRecord(s)'
    BY <2>1 DEF Fits, Execute
  <2> QED
    BY <1>1, <1>3, <2>2 DEF ExecOK, Fits, Missed, memory, records
<1>5. \A t \in Subjects : Settled(t) => Settled(t)'
  BY DEF Settled, Handled, Stale, memory
<1>6. AddedOK'
  BY <1>1, AddedEnv DEF EInv, ErasureTypeOK, ghosts
<1>7. OneMarkerPerErasure'
  BY DEF EInv, OneMarkerPerErasure
<1> QED
  BY <1>2, <1>4, <1>5, <1>6, <1>7, OneExecute DEF EInv, ErasureTypeOK, memory, records

LEMMA SweepLogInv ==
    ASSUME EInv, NEW p \in Armers, SweepLog(p) PROVE EInv'
<1> DEFINE e == exec[p]
           hits == Mentions(e.subject) \ (Copies(e.subject) \ e.bodies)
           c == IF blob # Plain
                THEN [e EXCEPT !.stage = "surfaces", !.bodies = {}, !.sight = "blind"]
                ELSE [e EXCEPT !.stage = "surfaces", !.bodies = {}, !.hits = hits]
<1>1. /\ exec' = [exec EXCEPT ![p] = c] /\ e.stage = "log"
      /\ UNCHANGED <<vars, ingest, records, ghosts, executes>>
  BY DEF SweepLog
<1>2. e \in Execute /\ hits \in SUBSET Records /\ "surfaces" \in Stages /\ "blind" \in Sights
  BY DEF EInv, ErasureTypeOK, Mentions, Stages, Sights
<1>6. Fits(e)
  BY DEF EInv, ExecOK
<1>7. e.sight \in {"clear", "unread"} => Mentions(e.subject) \cap e.owed \subseteq hits \cup Missed(e)
  BY <1>1, <1>6 DEF Fits, Missed
<1> HIDE DEF hits
<1>3. /\ c \in Execute /\ c.stage = "surfaces" /\ c.subject = e.subject /\ c.owed = e.owed
      /\ c.added = e.added /\ c.marked = e.marked /\ c.left = e.left
      /\ c.sight = "blind" \/ (c.sight = e.sight /\ c.hits = hits)
  BY <1>2 DEF Execute
<1> HIDE DEF c
<1>4. LInv'
  BY <1>1, StutterInv DEF EInv
<1>5. armer[p] = Out
  BY <1>1 DEF EInv, ArmsOwn
<1>8. Missed(c) = IF c.sight = "unread" THEN Copies(e.subject) ELSE {}
  BY <1>3 DEF Missed
<1>9. Fits(c) /\ ~c.left
  <2>1. c.sight \in {"clear", "unread"} => Mentions(c.subject) \cap c.owed \subseteq c.hits \cup Missed(c)
    BY <1>3, <1>7, <1>8 DEF Missed
  <2> QED
    BY <1>1, <1>3, <1>6, <2>1 DEF Fits, Guarded, Swept
<1> QED
  BY <1>1, <1>3, <1>4, <1>5, <1>9, QuietStep DEF Guarded, vars, Fits

LEMMA SweepSurfacesInv ==
    ASSUME EInv, NEW p \in Armers, SweepSurfaces(p) PROVE EInv'
<1> DEFINE e == exec[p]
           c == IF blob # Plain
                THEN [e EXCEPT !.stage = "discover", !.owed = {}]
                ELSE [e EXCEPT !.stage = "discover",
                               !.sight = IF e.sight = "blind" THEN "unveiled" ELSE e.sight]
<1>1. /\ exec' = [exec EXCEPT ![p] = c] /\ e.stage = "surfaces"
      /\ UNCHANGED <<vars, ingest, records, ghosts, executes>>
  BY DEF SweepSurfaces
<1>2. e \in Execute /\ "discover" \in Stages /\ "unveiled" \in Sights
  BY DEF EInv, ErasureTypeOK, Stages, Sights
<1>3. /\ c \in Execute /\ c.stage = "discover" /\ c.subject = e.subject /\ c.hits = e.hits
      /\ c.added = e.added /\ c.marked = e.marked /\ c.left = e.left
      /\ c.owed = {} \/ (c.owed = e.owed /\ c.sight # "blind")
      /\ c.owed = {} \/ c.sight = "unveiled" \/ c.sight = e.sight
  <2>1. CASE blob # Plain
    <3>1. c = [e EXCEPT !.stage = "discover", !.owed = {}]
      BY <2>1
    <3> HIDE DEF c
    <3>2. /\ c \in Execute /\ c.stage = "discover" /\ c.subject = e.subject
          /\ c.hits = e.hits /\ c.added = e.added /\ c.marked = e.marked
          /\ c.left = e.left /\ c.owed = {}
      BY <1>2, <3>1 DEF Execute
    <3> QED
      BY <3>2
  <2>2. CASE blob = Plain /\ e.sight = "blind"
    <3>1. c = [e EXCEPT !.stage = "discover", !.sight = "unveiled"]
      BY <2>2
    <3> QED
      BY <1>2, <3>1 DEF Execute
  <2>3. CASE blob = Plain /\ e.sight # "blind"
    <3>1. c = [e EXCEPT !.stage = "discover", !.sight = e.sight]
      BY <2>3
    <3> QED
      BY <1>2, <2>3, <3>1 DEF Execute
  <2> QED
    BY <2>1, <2>2, <2>3
<1> HIDE DEF c
<1>4. LInv'
  BY <1>1, StutterInv DEF EInv
<1>5. armer[p] = Out
  BY <1>1 DEF EInv, ArmsOwn
<1>6. Fits(e)
  BY DEF EInv, ExecOK
<1>9. Fits(c) /\ ~c.left
  BY <1>1, <1>3, <1>6 DEF Fits, Missed, Guarded, Swept
<1> QED
  BY <1>1, <1>3, <1>4, <1>5, <1>9, QuietStep DEF Guarded, vars, Fits

LEMMA DiscoverSealedInv ==
    ASSUME EInv, NEW p \in Armers, DiscoverSealed(p) PROVE EInv'
<1> DEFINE e == exec[p]
           c == [e EXCEPT !.stage = "guard"]
<1>1. /\ exec' = [exec EXCEPT ![p] = c] /\ e.stage = "discover"
      /\ UNCHANGED <<ingest, records, ghosts, executes>>
      /\ UNCHANGED vars \/ \E s \in e.subject : Discover(p, s)
  BY DEF DiscoverSealed
<1>2. e \in Execute /\ "guard" \in Stages
  BY DEF EInv, ErasureTypeOK, Stages
<1>3. /\ c \in Execute /\ c.stage = "guard" /\ c.subject = e.subject /\ c.hits = e.hits
      /\ c.added = e.added /\ c.marked = e.marked /\ c.left = e.left
      /\ c.owed = e.owed /\ c.sight = e.sight
  BY <1>2 DEF Execute
<1> HIDE DEF c
<1>4. LInv'
  BY <1>1, <1>2, StutterInv, DiscoverInv DEF EInv, Execute
<1>5. armer[p] = Out
  BY <1>1 DEF EInv, ArmsOwn
<1>6. Fits(e)
  BY DEF EInv, ExecOK
<1>9. Fits(c) /\ ~c.left
  BY <1>1, <1>3, <1>6 DEF Fits, Missed, Guarded, Swept
<1>7. /\ UNCHANGED <<memory, forgotten, ledger, armed, queued, operator, reported, unseen, crashes>>
      /\ \A q \in Armers \ {p} : armer'[q] = armer[q]
      /\ armer'[p] # Out => c.subject = armer'[p].subject
  <2>1. CASE UNCHANGED vars
    BY <1>5, <2>1 DEF vars
  <2>2. ASSUME NEW s \in e.subject, Discover(p, s)
        PROVE  <1>7!:
    <3>1. e.subject = {s}
      BY <1>6 DEF Fits
    <3> QED
      BY <1>3, <2>2, <3>1 DEF Discover, EInv, LInv, TypeOK
  <2> QED
    BY <1>1, <2>1, <2>2
<1> QED
  BY <1>1, <1>3, <1>4, <1>7, <1>9, QuietStep

LEMMA GuardFailsInv ==
    ASSUME EInv, NEW p \in Armers, GuardFails(p) PROVE EInv'
<1>1. /\ exec' = [exec EXCEPT ![p] = Idle] /\ exec[p].stage = "guard"
      /\ armer' = [armer EXCEPT ![p] = Out]
      /\ UNCHANGED <<memory, forgotten, ledger, armed, queued, operator, reported, unseen, crashes>>
      /\ UNCHANGED <<ingest, records, ghosts, executes>>
  BY DEF GuardFails
<1>2. LInv'
  BY <1>1, ExecuteKeeps DEF EInv, LInv, TypeOK, memory
<1>3. Fits(Idle)
  BY IdleOK DEF Fits, Missed, Guarded, Swept
<1>4. armer'[p] = Out /\ \A q \in Armers \ {p} : armer'[q] = armer[q]
  BY <1>1 DEF EInv, LInv, TypeOK
<1> QED
  BY <1>1, <1>2, <1>3, <1>4, IdleOK, QuietStep

LEMMA ArmFailsInv ==
    ASSUME EInv, NEW p \in Armers, ArmFails(p) PROVE EInv'
<1> DEFINE e == exec[p]
           c == [e EXCEPT !.stage = "purge", !.owed = {}]
<1>1. /\ exec' = [exec EXCEPT ![p] = c] /\ e.stage = "arm"
      /\ armer' = [armer EXCEPT ![p] = Out]
      /\ UNCHANGED <<memory, forgotten, ledger, armed, queued, operator, reported, unseen, crashes>>
      /\ UNCHANGED <<ingest, records, ghosts, executes>>
  BY DEF ArmFails
<1>2. e \in Execute /\ "purge" \in Stages
  BY DEF EInv, ErasureTypeOK, Stages
<1>3. /\ c \in Execute /\ c.stage = "purge" /\ c.subject = e.subject /\ c.owed = {}
      /\ c.added = e.added /\ c.marked = e.marked /\ c.left = e.left
  BY <1>2 DEF Execute
<1> HIDE DEF c
<1>4. LInv'
  BY <1>1, ExecuteKeeps DEF EInv, LInv, TypeOK, memory
<1>5. Fits(e)
  BY DEF EInv, ExecOK
<1>6. Fits(c) /\ ~c.left
  BY <1>1, <1>3, <1>5 DEF Fits, Guarded, Swept
<1>7. armer'[p] = Out /\ \A q \in Armers \ {p} : armer'[q] = armer[q]
  BY <1>1 DEF EInv, LInv, TypeOK
<1> QED
  BY <1>1, <1>3, <1>4, <1>6, <1>7, QuietStep

LEMMA FingerprintInv ==
    ASSUME EInv, NEW p \in Armers, Fingerprint(p) PROVE EInv'
<1> DEFINE e == exec[p]
<1>1. /\ e.stage = "arm" /\ ReadBlob(p)
      /\ UNCHANGED <<ingest, records, ghosts, executes>>
  BY DEF Fingerprint
<1>2. LInv'
  BY <1>1, ReadBlobInv DEF EInv
<1>3. e \in Execute /\ Fits(e) /\ "purge" \in Stages
  BY DEF EInv, ErasureTypeOK, ExecOK, Stages
<1>4. armer[p] # Out
  BY <1>1 DEF ReadBlob, Out
<1>5. armer[p].subject = e.subject /\ e.subject \subseteq forgotten
  BY <1>1, <1>3, <1>4 DEF EInv, ArmsOwn, Fits, Guarded
<1>6. /\ UNCHANGED <<memory, forgotten, ledger, armed, queued, operator, reported, unseen, crashes>>
      /\ \A q \in Armers \ {p} : armer'[q] = armer[q]
  BY <1>1, <1>5 DEF ReadBlob, EInv, LInv, TypeOK
<1>7. CASE blob = Plain
  <2> DEFINE c == [e EXCEPT !.stage = "purge", !.owed = {}]
  <2>1. exec' = [exec EXCEPT ![p] = c] /\ armer'[p] = Out
    BY <1>1, <1>7 DEF Fingerprint, ReadBlob, EInv, LInv, TypeOK
  <2>2. /\ c \in Execute /\ c.stage = "purge" /\ c.subject = e.subject /\ c.owed = {}
        /\ c.added = e.added /\ c.marked = e.marked /\ c.left = e.left
    BY <1>3 DEF Execute
  <2> HIDE DEF c
  <2>3. Fits(c) /\ ~c.left
    BY <1>1, <1>3, <2>2 DEF Fits, Guarded, Swept
  <2> QED
    BY <1>1, <1>2, <1>6, <2>1, <2>2, <2>3, QuietStep
<1>8. CASE blob # Plain
  <2>1. exec' = [exec EXCEPT ![p] = e]
    BY <1>1, <1>8 DEF Fingerprint, EInv, ErasureTypeOK
  <2>2. armer'[p].subject = armer[p].subject
    BY <1>1, <1>8 DEF ReadBlob, EInv, LInv, TypeOK
  <2>3. Fits(e) /\ ~e.left
    BY <1>1, <1>3 DEF Fits
  <2> QED
    BY <1>1, <1>2, <1>3, <1>5, <1>6, <2>1, <2>2, <2>3, QuietStep
<1> QED
  BY <1>7, <1>8

LEMMA ArmInv ==
    ASSUME EInv, NEW p \in Armers, Arm(p) PROVE EInv'
<1> DEFINE e == exec[p]
           c == [e EXCEPT !.stage = "purge", !.marked = TRUE]
<1>1. /\ exec' = [exec EXCEPT ![p] = c] /\ e.stage = "arm" /\ ArmMarker(p)
      /\ UNCHANGED <<ingest, records, ghosts, executes>>
  BY DEF Arm
<1>2. e \in Execute /\ "purge" \in Stages /\ Fits(e)
  BY DEF EInv, ErasureTypeOK, Stages, ExecOK
<1>3. /\ c \in Execute /\ c.stage = "purge" /\ c.subject = e.subject /\ c.hits = e.hits
      /\ c.added = e.added /\ c.left = e.left /\ c.owed = e.owed /\ c.sight = e.sight
  BY <1>2 DEF Execute
<1> HIDE DEF c
<1>4. LInv' /\ MirrorsStep
  BY <1>1, ArmMarkerInv DEF EInv
<1>5. PICK m \in Marker : /\ ledger' \in {ledger, ledger \cup {m}}
                         /\ queued' = queued \cup {m.subject}
                         /\ \E n \in ledger' : n.subject = m.subject
  BY <1>1, ArmMarkerStep DEF EInv
<1>6. /\ armer' = [armer EXCEPT ![p] = Out]
      /\ UNCHANGED <<memory, forgotten, operator, reported, unseen, crashes>>
      /\ \E s \in armer[p].subject : queued' = queued \cup {s}
                                     /\ \E n \in ledger' : n.subject = s
  <2>1. PICK s \in armer[p].subject :
          /\ IF SamePending(s, armer[p].blob)
             THEN UNCHANGED <<ledger, armed>>
             ELSE /\ armed < MaxMarkers
                  /\ armed' = armed + 1
                  /\ ledger' = ledger \cup
                        {[id |-> armed', subject |-> s, blob |-> armer[p].blob]}
          /\ queued' = queued \cup {s}
    BY <1>1 DEF ArmMarker
  <2>2. \E n \in ledger' : n.subject = s
    <3>1. CASE SamePending(s, armer[p].blob)
      BY <2>1, <3>1 DEF SamePending
    <3>2. CASE ~SamePending(s, armer[p].blob)
      <4>1. [id |-> armed', subject |-> s, blob |-> armer[p].blob].subject = s
        OBVIOUS
      <4> QED
        BY <2>1, <3>2, <4>1
    <3> QED
      BY <3>1, <3>2
  <2> QED
    BY <1>1, <2>1, <2>2 DEF ArmMarker
<1>7. armer'[p] = Out /\ \A q \in Armers \ {p} : armer'[q] = armer[q]
  BY <1>6 DEF EInv, LInv, TypeOK
<1>8. \A s \in e.subject : OnRecord(s)'
  <2>1. armer[p].subject = e.subject
    BY <1>1 DEF EInv, ArmsOwn, ArmMarker, Out
  <2> QED
    BY <1>2, <1>6, <2>1 DEF Fits, OnRecord
<1>9. EnvStep
  BY <1>1, <1>5, <1>6 DEF EnvStep, OnRecord, memory, records, ghosts
<1>10. /\ exec'[p] = c /\ Mentions(exec[p].subject)' = Mentions(c.subject)
       /\ Copies(exec[p].subject)' = Copies(c.subject)
  BY <1>1, <1>3, <1>6 DEF EInv, ErasureTypeOK, Mentions, Copies, memory, records
<1>11. ExecOK(p)'
  BY <1>1, <1>2, <1>3, <1>6, <1>8, <1>10 DEF ExecOK, Fits, Missed, Guarded, Swept,
                                             memory, records
<1>12. AddedOK'
  BY <1>1, <1>3, <1>6, <1>10, AddedEnv DEF EInv, ErasureTypeOK, ghosts
<1>13. OneMarkerPerErasure'
  BY <1>1, MarkersInv DEF EInv, Next
<1> QED
  BY <1>1, <1>3, <1>4, <1>6, <1>7, <1>9, <1>11, <1>12, <1>13, OneExecute
     DEF EInv, ErasureTypeOK, MirrorsStep, memory, records

LEMMA RegisterGuardInv ==
    ASSUME EInv, NEW p \in Armers, RegisterGuard(p) PROVE EInv'
<1> DEFINE e == exec[p]
           c == [e EXCEPT !.stage = IF armer[p] = Out THEN "purge" ELSE "arm",
                          !.added = forgotten' # forgotten]
<1>1. /\ exec' = [exec EXCEPT ![p] = c] /\ e.stage = "guard"
      /\ forgotten' = forgotten \cup e.subject
      /\ UNCHANGED <<memory, ledger, armed, queued, armer, operator, reported, unseen, crashes>>
      /\ UNCHANGED <<ingest, records, ghosts, executes>>
  BY DEF RegisterGuard
<1>2. e \in Execute /\ {"purge", "arm"} \subseteq Stages /\ Fits(e)
  BY DEF EInv, ErasureTypeOK, Stages, ExecOK
<1>3. /\ c \in Execute /\ c.stage \in {"purge", "arm"} /\ c.subject = e.subject
      /\ c.hits = e.hits /\ c.left = e.left /\ c.owed = e.owed /\ c.sight = e.sight
      /\ c.marked = e.marked /\ c.added = (forgotten' # forgotten)
      /\ armer[p] # Out => c.stage = "arm"
  BY <1>2 DEF Execute
<1> HIDE DEF c
<1>4. LInv' /\ \A s \in Subjects : Settled(s) => Settled(s)'
  BY <1>1, <1>2, ExecuteKeeps DEF EInv, LInv, TypeOK, memory, Execute
<1>5. EnvStep
  BY <1>1 DEF EnvStep, OnRecord, memory, records, ghosts
<1>6. /\ exec'[p] = c /\ Mentions(exec[p].subject)' = Mentions(c.subject)
      /\ Copies(exec[p].subject)' = Copies(c.subject)
  BY <1>1, <1>3 DEF EInv, ErasureTypeOK, Mentions, Copies, memory, records
<1>7. ExecOK(p)'
  <2>1. c.marked => \A s \in c.subject : OnRecord(s)'
    BY <1>1, <1>2, <1>3, <1>5 DEF Fits, EnvStep, Execute
  <2> QED
    BY <1>1, <1>2, <1>3, <1>6, <2>1 DEF ExecOK, Fits, Missed, Guarded, Swept, memory, records
<1>8. AddedOK'
  <2>1. CASE forgotten' = forgotten
    BY <1>1, <1>3, <1>6, <2>1, AddedEnv DEF EInv, ErasureTypeOK, ghosts
  <2>2. CASE forgotten' # forgotten
    <3>1. PICK s \in Subjects : e.subject = {s} /\ s \notin forgotten
      BY <1>1, <1>2, <2>2 DEF Fits, Execute
    <3>2. \A q \in Armers : exec[q].added => s \notin exec[q].subject
      BY <3>1 DEF EInv, ExecOK, Fits
    <3>3. empties[s] = 0 /\ empties' = empties
      BY <1>1, <3>1 DEF EInv, AddedOK, ghosts
    <3>4. \A q \in Armers : q # p => exec'[q] = exec[q]
      BY <1>1 DEF EInv, ErasureTypeOK
    <3> QED
      BY <1>1, <1>3, <1>6, <3>1, <3>2, <3>3, <3>4 DEF EInv, AddedOK
  <2> QED
    BY <2>1, <2>2
<1>9. OneMarkerPerErasure'
  BY <1>1 DEF EInv, OneMarkerPerErasure
<1>10. armer'[p] # Out => c.stage \in {"guard", "arm"} /\ c.subject = armer'[p].subject
  BY <1>1, <1>3 DEF EInv, ArmsOwn
<1> QED
  BY <1>1, <1>3, <1>4, <1>5, <1>7, <1>8, <1>9, <1>10, OneExecute
     DEF EInv, ErasureTypeOK, memory, records

LEMMA PurgeHitsInv ==
    ASSUME EInv, NEW p \in Armers, PurgeHits(p) PROVE EInv'
<1> DEFINE e == exec[p]
<1>1. e \in Execute /\ {"mirror", "files"} \subseteq Stages /\ Fits(e) /\ e.stage = "purge"
  BY DEF EInv, ErasureTypeOK, Stages, ExecOK, PurgeHits
<1>2. PICK failed \in SUBSET e.hits :
        LET purged == (e.hits \ failed) \cap Mentions(e.subject) IN
        /\ data' = Without(data, "first", purged, e.subject)
        /\ second' = Without(second, "second", purged, e.subject)
        /\ exec' = [exec EXCEPT ![p] = [e EXCEPT
              !.stage = IF purged = {} THEN "files" ELSE "mirror",
              !.purged = purged, !.hits = {}, !.owed = IF failed = {} THEN e.owed ELSE {}]]
  BY DEF PurgeHits
<1>3. /\ UNCHANGED <<blob, seals, mirror, forgotten, ledger, armed, queued, armer, operator,
                     reported, unseen, crashes>>
      /\ UNCHANGED <<ingest, secondMirror, slipped, copied, halted, ghosts, executes>>
  BY DEF PurgeHits
<1> DEFINE purged == (e.hits \ failed) \cap Mentions(e.subject)
           owed == IF failed = {} THEN e.owed ELSE {}
           stage == IF purged = {} THEN "files" ELSE "mirror"
           c == [e EXCEPT !.stage = stage, !.purged = purged, !.hits = {}, !.owed = owed]
<1>4. exec' = [exec EXCEPT ![p] = c]
  BY <1>2 DEF purged
<1>5. /\ purged \in SUBSET Records /\ owed \in SUBSET (Records \cup {"stray"})
      /\ stage \in {"files", "mirror"} /\ (purged # {} => stage = "mirror")
  BY <1>1 DEF Mentions, Execute
<1> HIDE DEF purged, owed, stage
<1>6. /\ c \in Execute /\ c.stage = stage /\ c.subject = e.subject /\ c.purged = purged
      /\ c.added = e.added /\ c.marked = e.marked /\ c.left = e.left
      /\ c.owed = owed /\ c.sight = e.sight
  BY <1>1, <1>5 DEF Execute
<1> HIDE DEF c
<1>7. exec'[p] = c
  BY <1>4 DEF EInv, ErasureTypeOK
<1>8. /\ data' = Without(data, "first", purged, e.subject)
      /\ second' = Without(second, "second", purged, e.subject)
      /\ e.subject \subseteq forgotten /\ e.subject \subseteq Subjects
  BY <1>1, <1>2 DEF purged, Fits, Guarded, Execute
<1>9. /\ data' \subseteq data /\ second' \subseteq second
      /\ \A s \in data \ data' : s \in e.subject /\ "first" \in purged
      /\ \A s \in second \ second' : s \in e.subject /\ "second" \in purged
      /\ "first" \in purged => data' \cap e.subject = {}
      /\ "second" \in purged => second' \cap e.subject = {}
  BY <1>8 DEF Without
<1>10. LInv' /\ \A s \in Subjects : Settled(s) => Settled(s)'
  BY <1>3, <1>9, ExecuteKeeps DEF EInv, LInv, TypeOK
<1>11. EnvStep
  BY <1>3, <1>8, <1>9 DEF EnvStep, OnRecord, ghosts
<1>12. c.sight \in {"clear", "unread"}
         => Mentions(exec[p].subject)' \cap c.owed \subseteq Missed(exec[p])'
  <2> SUFFICES ASSUME c.sight \in {"clear", "unread"}
               PROVE  Mentions(exec[p].subject)' \cap c.owed \subseteq Missed(exec[p])'
    OBVIOUS
  <2>1. PICK S \in SUBSET Subjects : S = e.subject
    BY <1>8
  <2>2. /\ Mentions(exec[p].subject)' = Mentions(S)'
        /\ Missed(exec[p])' = IF c.sight = "unread" THEN Copies(S)' ELSE {}
    BY <1>6, <1>7, <2>1 DEF Mentions, Missed, Copies
  <2>3. /\ Mentions(S)' \cap e.owed \subseteq Mentions(S)
        /\ \A r \in Mentions(S)' \cap e.owed : r \in Copies(S)' <=> r \in Copies(S)
    BY <1>11, <2>1, MentionsShrink, CopiesKept DEF EInv
  <2>4. Mentions(S) \cap e.owed \subseteq e.hits \cup (IF c.sight = "unread" THEN Copies(S) ELSE {})
    BY <1>1, <1>6, <2>1 DEF Fits, Swept, Missed
  <2>5. CASE failed # {}
    BY <1>6, <2>5 DEF owed
  <2>6. CASE failed = {}
    <3>1. Mentions(S) \cap e.hits \subseteq purged
      BY <2>1, <2>6 DEF purged
    <3>2. \A r \in Mentions(S)' : r \notin purged
      BY <1>9, <2>1, MentionsThen
    <3>3. c.owed = e.owed
      BY <1>6, <2>6 DEF owed
    <3> QED
      BY <2>2, <2>3, <2>4, <3>1, <3>2, <3>3
  <2> QED
    BY <2>5, <2>6
<1>13. ExecOK(p)'
  <2>1. c.marked => \A s \in c.subject : OnRecord(s)'
    BY <1>1, <1>6, <1>8, <1>11 DEF Fits, EnvStep
  <2>2. c.owed \subseteq e.owed
    BY <1>6 DEF owed
  <2>3. "first" \in c.owed => c.subject \subseteq data' \cup forgotten'
    BY <1>3, <1>6, <1>8
  <2>4. "second" \in c.owed => c.subject \subseteq slipped'
    BY <1>1, <1>3, <1>6, <2>2 DEF Fits
  <2>5. c.sight = "blind" => c.owed = {}
    BY <1>1, <1>6, <2>2 DEF Fits, Guarded
  <2>6. ~c.left /\ \A s, t \in c.subject : s = t
    BY <1>1, <1>6 DEF Fits
  <2>7. PICK S \in SUBSET Subjects : S = e.subject
    BY <1>8
  <2>8. Mentions(exec[p].subject)' \cap c.purged = {}
    <3>1. Mentions(exec[p].subject)' = Mentions(S)'
      BY <1>6, <1>7, <2>7 DEF Mentions
    <3>2. \A r \in Mentions(S)' : r \notin purged
      BY <1>9, <2>7, MentionsThen
    <3> QED
      BY <1>6, <3>1, <3>2
  <2>9. "second" \in c.purged => c.subject \subseteq slipped'
    <3>1. "second" \in purged => "second" \in Mentions(S)
      BY <2>7 DEF purged
    <3>2. \A s, t \in S : s = t
      BY <2>6, <1>6, <2>7
    <3> QED
      BY <1>3, <1>6, <2>7, <3>1, <3>2, MentionsOf DEF EInv, SecondOK
  <2> QED
    BY <1>3, <1>5, <1>6, <1>7, <1>8, <1>12, <2>1, <2>3, <2>4, <2>5, <2>6, <2>8, <2>9
       DEF ExecOK, Fits, Guarded, Swept
<1>14. AddedOK'
  BY <1>3, <1>6, <1>4, <1>7, AddedEnv DEF EInv, ErasureTypeOK, ghosts
<1>15. OneMarkerPerErasure'
  BY <1>3 DEF EInv, OneMarkerPerErasure
<1>16. armer'[p] = Out
  BY <1>1, <1>3 DEF EInv, ArmsOwn
<1>17. \A s \in mirror' \ data' : s \in mirror \ data \/ Known("first", s)'
  BY <1>3, <1>5, <1>6, <1>7, <1>9 DEF Known, InHand
<1>18. \A s \in secondMirror' \ second' :
          s \in secondMirror \ second \/ Known("second", s)'
  BY <1>3, <1>5, <1>6, <1>7, <1>9 DEF Known, InHand
<1> QED
  BY <1>1, <1>3, <1>4, <1>6, <1>9, <1>10, <1>11, <1>13, <1>14, <1>15, <1>16, <1>17, <1>18,
     OneExecute DEF EInv, ErasureTypeOK

\* However an execute ends, a mirror it leaves is known.
LEMMA EndOfExecute ==
    ASSUME EInv, NEW p \in Armers, exec' = [exec EXCEPT ![p] = Idle],
           UNCHANGED <<memory, forgotten, ledger, armed, queued, operator>>,
           UNCHANGED <<ingest, records, recorded, executes>>,
           reported \subseteq reported', reported' \subseteq Subjects,
           lapsed \subseteq lapsed', lapsed' \subseteq Subjects,
           crashes' \in 0..MaxCrashes, unseen' = unseen,
           armer' \in {armer, [armer EXCEPT ![p] = Out]}, armer'[p] = Out,
           unrecorded' \subseteq Subjects,
           \A s \in unrecorded' : s \in unrecorded \/ OnRecord(s),
           empties' \in [Subjects -> Nat], AddedOK',
           exec[p].stage = "mirror" \/ exec[p].left
              => exec[p].subject \subseteq lapsed' \cup reported'
    PROVE  EInv'
<1>1. exec'[p] = Idle /\ exec' \in [Armers -> Execute]
      /\ \A q \in Armers \ {p} : exec'[q] = exec[q]
  BY IdleOK DEF EInv, ErasureTypeOK
<1>2. LInv' /\ \A s \in Subjects : Settled(s) => Settled(s)'
  BY ExecuteKeeps DEF EInv, LInv, TypeOK, memory
<1>3. ErasureTypeOK'
  BY <1>1, <1>2 DEF EInv, ErasureTypeOK, LInv, records
<1>4. EnvStep
  BY DEF EnvStep, OnRecord, memory, records
<1>5. ASSUME NEW q \in Armers PROVE ExecOK(q)'
  <2>1. CASE q = p
    BY <1>1, <2>1, IdleOK DEF ExecOK, Fits, Missed, Guarded, Swept
  <2>2. CASE q # p
    BY <1>1, <1>4, <2>2, ExecEnv DEF EInv, ErasureTypeOK
  <2> QED
    BY <2>1, <2>2
<1>6. ArmsOwn'
  <2>1. \A q \in Armers \ {p} : armer'[q] = armer[q]
    BY DEF EInv, LInv, TypeOK
  <2> QED
    BY <1>1, <2>1 DEF EInv, ArmsOwn
<1>7. RecordedOK'
  BY <1>4 DEF EInv, RecordedOK, EnvStep, ErasureTypeOK
<1>8. SecondOK' /\ OneMarkerPerErasure'
  BY DEF EInv, SecondOK, OneMarkerPerErasure, records
<1>9. MirrorsKnown'
  <2>1. ASSUME NEW r \in Records, NEW s \in Subjects, InHand(r, s)
        PROVE  Known(r, s)'
    <3>1. PICK q \in Armers : /\ s \in exec[q].subject
                              /\ r \in exec[q].purged
                              /\ exec[q].stage = "mirror" \/ exec[q].left
      BY <2>1 DEF InHand
    <3>2. CASE q = p
      BY <3>1, <3>2 DEF Known, Settled
    <3>3. CASE q # p
      BY <1>1, <3>1, <3>3 DEF Known, InHand
    <3> QED
      BY <3>2, <3>3
  <2> QED
    BY <1>2, <2>1, MirrorsEnv DEF EInv, LInv, memory, records
<1> QED
  BY <1>2, <1>3, <1>5, <1>6, <1>7, <1>8, <1>9 DEF EInv

LEMMA ReturnUnrecordedInv ==
    ASSUME EInv, NEW p \in Armers, ReturnUnrecorded(p) PROVE EInv'
<1> DEFINE e == exec[p]
<1>1. e \in Execute /\ Fits(e) /\ e.stage = "files" /\ armer[p] = Out
  BY DEF EInv, ErasureTypeOK, ExecOK, ReturnUnrecorded, ArmsOwn
<1>2. /\ exec' = [exec EXCEPT ![p] = Idle]
      /\ reported' = IF e.left THEN reported \cup e.subject ELSE reported
      /\ UNCHANGED <<memory, forgotten, ledger, armed, queued, armer, operator, unseen, crashes>>
      /\ UNCHANGED <<ingest, records, recorded, empties, lapsed, executes>>
  BY DEF ReturnUnrecorded
<1>3. \A s \in unrecorded' : s \in unrecorded \/ (OnRecord(s) /\ s \in Subjects)
  <2>1. PICK touched \in BOOLEAN :
          /\ e.marked \/ Replayed(e, touched)
          /\ unrecorded' = IF HadEffect(e, touched) THEN unrecorded \cup e.subject
                                                    ELSE unrecorded
    BY DEF ReturnUnrecorded
  <2>2. HadEffect(e, touched) => e.marked
    BY <2>1 DEF Replayed
  <2>3. e.marked => \A s \in e.subject : OnRecord(s)
    BY <1>1 DEF Fits
  <2> QED
    BY <1>1, <2>1, <2>2, <2>3 DEF Execute
<1>4. AddedOK'
  BY <1>2, IdleOK, AddedEnv DEF EInv, ErasureTypeOK
<1> QED
  BY <1>1, <1>2, <1>3, <1>4, EndOfExecute DEF EInv, ErasureTypeOK, LInv, TypeOK, Execute

LEMMA ReturnRecordedInv ==
    ASSUME EInv, NEW p \in Armers, ReturnRecorded(p) PROVE EInv'
<1> DEFINE e == exec[p]
<1>1. e \in Execute /\ Fits(e) /\ e.stage = "files" /\ armer[p] = Out
  BY DEF EInv, ErasureTypeOK, ExecOK, ReturnRecorded, ArmsOwn
<1>2. /\ exec' = [exec EXCEPT ![p] = Idle]
      /\ reported' = IF e.left THEN reported \cup e.subject ELSE reported
      /\ UNCHANGED <<memory, forgotten, ledger, armed, queued, armer, operator, unseen, crashes>>
      /\ UNCHANGED <<ingest, records, recorded, unrecorded, lapsed, executes>>
  BY DEF ReturnRecorded
<1>3. PICK touched \in BOOLEAN :
        /\ ~Replayed(e, touched)
        /\ empties' = [s \in Subjects |-> IF s \in e.subject /\ ~HadEffect(e, touched)
                                          THEN empties[s] + 1 ELSE empties[s]]
  BY DEF ReturnRecorded
<1>4. empties' \in [Subjects -> Nat]
  BY <1>3 DEF EInv, ErasureTypeOK
<1>5. AddedOK'
  <2>1. CASE HadEffect(e, touched)
    <3>1. empties' = empties
      BY <1>3, <2>1 DEF EInv, ErasureTypeOK
    <3> QED
      BY <1>2, <3>1, IdleOK, AddedEnv DEF EInv, ErasureTypeOK
  <2>2. CASE ~HadEffect(e, touched)
    <3>1. e.added
      BY <1>3, <2>2 DEF Replayed
    <3>2. e.subject \subseteq forgotten
      BY <1>1 DEF Fits, Guarded
    <3>3. \A s \in Subjects : empties'[s] = IF s \in e.subject THEN empties[s] + 1
                                                                ELSE empties[s]
      BY <1>3, <2>2
    <3>4. \A s \in e.subject \cap Subjects : empties[s] = 0
      BY <3>1 DEF EInv, AddedOK
    <3>5. \A q \in Armers : exec'[q] = IF q = p THEN Idle ELSE exec[q]
      BY <1>2 DEF EInv, ErasureTypeOK
    <3>6. \A q \in Armers, s \in Subjects :
             s \in e.subject /\ s \in exec'[q].subject => ~exec'[q].added
      BY <3>1, <3>5, IdleOK DEF EInv, AddedOK
    <3>7. \A q, r \in Armers : \A s \in exec'[q].subject \cap exec'[r].subject :
             exec'[q].added /\ exec'[r].added => q = r
      BY <3>5, IdleOK DEF EInv, AddedOK
    <3>8. ASSUME NEW s \in Subjects, empties'[s] # 0
          PROVE  /\ empties'[s] = 1
                 /\ s \in forgotten'
                 /\ \A q \in Armers : s \in exec'[q].subject => ~exec'[q].added
      <4>1. CASE s \in e.subject
        BY <1>2, <3>2, <3>3, <3>4, <3>6, <4>1
      <4>2. CASE s \notin e.subject
        BY <1>2, <3>3, <3>5, <3>8, <4>2, IdleOK DEF EInv, AddedOK
      <4> QED
        BY <4>1, <4>2
    <3> QED
      BY <3>7, <3>8 DEF AddedOK
  <2> QED
    BY <2>1, <2>2
<1> QED
  BY <1>1, <1>2, <1>4, <1>5, EndOfExecute DEF EInv, ErasureTypeOK, LInv, TypeOK, Execute

LEMMA RecordFailsInv ==
    ASSUME EInv, NEW p \in Armers, RecordFails(p) PROVE EInv'
<1> DEFINE e == exec[p]
<1>1. e \in Execute /\ e.stage = "files" /\ armer[p] = Out
  BY DEF EInv, ErasureTypeOK, RecordFails, ArmsOwn
<1>2. /\ exec' = [exec EXCEPT ![p] = Idle]
      /\ lapsed' = IF e.left THEN lapsed \cup e.subject ELSE lapsed
      /\ UNCHANGED <<vars, ingest, records, recorded, unrecorded, empties, executes>>
  BY DEF RecordFails
<1>3. AddedOK'
  BY <1>2, IdleOK, AddedEnv DEF EInv, ErasureTypeOK, vars
<1> QED
  BY <1>1, <1>2, <1>3, EndOfExecute DEF EInv, ErasureTypeOK, LInv, TypeOK, Execute, vars

LEMMA DieInv ==
    ASSUME EInv, NEW p \in Armers, Die(p) PROVE EInv'
<1> DEFINE e == exec[p]
<1>1. e \in Execute /\ crashes' \in 0..MaxCrashes
  BY PendingEraseAssumption DEF EInv, ErasureTypeOK, LInv, TypeOK, Die
<1>2. /\ exec' = [exec EXCEPT ![p] = Idle]
      /\ armer' = [armer EXCEPT ![p] = Out] /\ armer'[p] = Out
      /\ lapsed' = IF e.stage = "mirror" \/ e.left THEN lapsed \cup e.subject ELSE lapsed
      /\ UNCHANGED <<memory, forgotten, ledger, armed, queued, operator, reported, unseen>>
      /\ UNCHANGED <<ingest, records, recorded, unrecorded, empties, executes>>
  BY DEF Die, EInv, LInv, TypeOK
<1>3. AddedOK'
  BY <1>2, IdleOK, AddedEnv DEF EInv, ErasureTypeOK
<1> QED
  BY <1>1, <1>2, <1>3, EndOfExecute DEF EInv, ErasureTypeOK, LInv, TypeOK, Execute

\* The mirrors of what was purged go; one kept was reported, or was sealed and
\* the execute will say so.
LEMMA EraseMirrorInv ==
    ASSUME EInv, NEW p \in Armers, EraseMirror(p) PROVE EInv'
<1> DEFINE e == exec[p]
<1>1. e \in Execute /\ "files" \in Stages /\ Fits(e) /\ e.stage = "mirror" /\ ~e.left
  BY DEF EInv, ErasureTypeOK, Stages, ExecOK, EraseMirror, Fits
<1>2. PICK kept \in SUBSET e.purged :
        /\ mirror' = Without(mirror, "first", e.purged \ kept, e.subject)
        /\ secondMirror' = Without(secondMirror, "second", e.purged \ kept, e.subject)
        /\ reported' = IF blob = Plain /\ kept # {} THEN reported \cup e.subject
                                                    ELSE reported
        /\ exec' = [exec EXCEPT ![p] = [e EXCEPT
              !.stage = "files", !.left = blob # Plain,
              !.owed = IF kept = {} THEN e.owed ELSE {}]]
  BY DEF EraseMirror
<1>3. /\ UNCHANGED <<blob, seals, data, forgotten, ledger, armed, queued, armer, operator,
                     unseen, crashes>>
      /\ UNCHANGED <<ingest, second, slipped, copied, halted, ghosts, executes>>
  BY DEF EraseMirror
<1> DEFINE owed == IF kept = {} THEN e.owed ELSE {}
           left == blob # Plain
           c == [e EXCEPT !.stage = "files", !.left = left, !.owed = owed]
<1>4. exec' = [exec EXCEPT ![p] = c]
  BY <1>2
<1>5. owed \in SUBSET (Records \cup {"stray"}) /\ owed \subseteq e.owed /\ left \in BOOLEAN
      /\ (left <=> blob # Plain)
  BY <1>1 DEF Execute
<1> HIDE DEF owed, left
<1>6. /\ c \in Execute /\ c.stage = "files" /\ c.subject = e.subject /\ c.purged = e.purged
      /\ c.added = e.added /\ c.marked = e.marked /\ c.left = left
      /\ c.owed = owed /\ c.sight = e.sight
  BY <1>1, <1>5 DEF Execute
<1> HIDE DEF c
<1>7. /\ exec'[p] = c
      /\ \A q \in Armers : q # p => exec'[q] = exec[q]
      /\ exec' \in [Armers -> Execute]
  BY <1>4, <1>6 DEF EInv, ErasureTypeOK
<1>8. /\ e.subject \subseteq forgotten /\ e.subject \subseteq Subjects
      /\ reported \subseteq reported' /\ reported' \subseteq Subjects
      /\ mirror' \subseteq mirror /\ secondMirror' \subseteq secondMirror
  BY <1>1, <1>2 DEF Fits, Guarded, Execute, Without, EInv, LInv, TypeOK
<1>9. LInv' /\ \A s \in Subjects : Settled(s) => Settled(s)'
  BY <1>3, <1>8, ExecuteKeeps DEF EInv, LInv, TypeOK
<1>10. ErasureTypeOK'
  BY <1>3, <1>7, <1>8, <1>9 DEF EInv, ErasureTypeOK, LInv, ghosts
<1>19. Mentions(e.subject) \cap e.purged = {}
  BY <1>1 DEF Fits
<1>20. /\ \A s \in data : s \in mirror <=> s \in mirror'
       /\ \A s \in second : s \in secondMirror <=> s \in secondMirror'
  <2>1. PICK S \in SUBSET Subjects : S = e.subject
    BY <1>8
  <2>2. "first" \in e.purged => \A s \in S : s \notin data
    BY <1>19, <2>1, MentionsOf
  <2>3. "second" \in e.purged => \A s \in S : s \notin second
    BY <1>19, <2>1, MentionsOf
  <2> QED
    BY <1>2, <2>1, <2>2, <2>3 DEF Without
<1>11. EnvStep
  BY <1>3, <1>20 DEF EnvStep, OnRecord, ghosts
<1>12. ExecOK(p)'
  <2>1. c.marked => \A s \in c.subject : OnRecord(s)'
    BY <1>1, <1>6, <1>8, <1>11 DEF Fits, EnvStep
  <2>2. PICK S \in SUBSET Subjects : S = e.subject
    BY <1>8
  <2>6. /\ Mentions(exec[p].subject)' = Mentions(S)'
        /\ Missed(exec[p])' = IF c.sight = "unread" THEN Copies(S)' ELSE {}
    BY <1>6, <1>7, <2>2 DEF Mentions, Copies, Missed
  <2>7. /\ Mentions(S)' \cap e.owed \subseteq Mentions(S)
        /\ \A r \in Mentions(S)' \cap e.owed : r \in Copies(S)' <=> r \in Copies(S)
    BY <1>11, <2>2, MentionsShrink, CopiesKept DEF EInv
  <2>8. c.sight \in {"clear", "unread"}
           => Mentions(S) \cap e.owed \subseteq IF c.sight = "unread" THEN Copies(S) ELSE {}
    BY <1>1, <1>6, <2>2 DEF Fits, Missed
  <2>3. c.sight \in {"clear", "unread"}
           => Mentions(exec[p].subject)' \cap c.owed \subseteq Missed(exec[p])'
    BY <1>5, <1>6, <2>6, <2>7, <2>8
  <2>4. c.sight = "blind" => c.owed = {}
    BY <1>1, <1>5, <1>6 DEF Fits, Guarded
  <2>5. "second" \in c.owed => c.subject \subseteq slipped'
    BY <1>1, <1>3, <1>5, <1>6 DEF Fits
  <2> QED
    BY <1>1, <1>3, <1>6, <1>7, <1>8, <2>1, <2>3, <2>4, <2>5
       DEF ExecOK, Fits, Guarded, Swept
<1>13. \A q \in Armers : ExecOK(q)'
  <2>1. ASSUME NEW q \in Armers, q # p PROVE ExecOK(q)'
    BY <1>7, <1>11, <2>1, ExecEnv DEF EInv, ErasureTypeOK
  <2> QED
    BY <1>12, <2>1
<1>14. ArmsOwn'
  BY <1>1, <1>3, <1>7 DEF EInv, ArmsOwn
<1>15. AddedOK'
  BY <1>3, <1>6, <1>7, AddedEnv DEF EInv, ErasureTypeOK, ghosts
<1>16. RecordedOK' /\ SecondOK' /\ OneMarkerPerErasure'
  BY <1>3, <1>8 DEF EInv, RecordedOK, OnRecord, SecondOK, OneMarkerPerErasure, ghosts
<1>17. ASSUME NEW r \in Records, NEW s \in Subjects, Known(r, s),
              s \in e.subject /\ r \in e.purged => r \in kept
       PROVE  Known(r, s)'
  <2>1. CASE Settled(s) \/ s \in lapsed
    BY <1>3, <1>9, <2>1 DEF Known, ghosts
  <2>2. CASE InHand(r, s)
    <3>1. PICK q \in Armers : /\ s \in exec[q].subject
                              /\ r \in exec[q].purged
                              /\ exec[q].stage = "mirror" \/ exec[q].left
      BY <2>2 DEF InHand
    <3>2. CASE q # p
      BY <1>7, <3>1, <3>2 DEF Known, InHand
    <3>3. CASE q = p /\ blob = Plain
      BY <1>2, <1>17, <3>1, <3>3 DEF Known, Settled
    <3>4. CASE q = p /\ blob # Plain
      BY <1>5, <1>6, <1>7, <3>1, <3>4 DEF Known, InHand
    <3> QED
      BY <3>2, <3>3, <3>4
  <2> QED
    BY <1>17, <2>1, <2>2 DEF Known
<1>18. MirrorsKnown'
  <2>1. ASSUME NEW s \in mirror', s \notin data' PROVE Known("first", s)'
    <3>1. s \in e.subject /\ "first" \in e.purged => "first" \in kept
      BY <1>2, <2>1 DEF Without
    <3>2. s \in Subjects /\ s \in mirror \ data
      BY <1>3, <1>8, <2>1 DEF EInv, LInv, TypeOK
    <3> QED
      BY <1>17, <3>1, <3>2 DEF EInv, MirrorsKnown, Records
  <2>2. ASSUME NEW s \in secondMirror', s \notin second' PROVE Known("second", s)'
    <3>1. s \in e.subject /\ "second" \in e.purged => "second" \in kept
      BY <1>2, <2>2 DEF Without
    <3>2. s \in Subjects /\ s \in secondMirror \ second
      BY <1>3, <1>8, <2>2 DEF EInv, ErasureTypeOK
    <3> QED
      BY <1>17, <3>1, <3>2 DEF EInv, MirrorsKnown, Records
  <2> QED
    BY <2>1, <2>2 DEF MirrorsKnown
<1> QED
  BY <1>9, <1>10, <1>13, <1>14, <1>15, <1>16, <1>18 DEF EInv

-----------------------------------------------------------------------------
(***************************************************************************)
(* The steps of everyone else                                              *)
(***************************************************************************)
LEMMA FolderStep ==
    ASSUME EInv, UNCHANGED <<exec, armer, unrecorded, empties, lapsed>>,
           ErasureTypeOK', LInv', MirrorsStep, OneMarkerPerErasure', EnvStep, SecondOK',
           \A m \in operator'.applied : m \in operator.applied \/ m.subject \in recorded',
           recorded \subseteq recorded',
           \A s \in secondMirror' \ second' :
                s \in secondMirror \ second \/ Known("second", s)'
    PROVE  EInv'
<1>1. \A p \in Armers : ExecOK(p)'
  BY ExecEnv DEF EInv, ErasureTypeOK
<1>2. ArmsOwn' /\ AddedOK'
  BY AddedEnv DEF EInv, ArmsOwn, EnvStep
<1>3. RecordedOK'
  BY DEF EInv, RecordedOK, EnvStep, ErasureTypeOK
<1>4. MirrorsKnown'
  <2>1. \A r, s : InHand(r, s) => Known(r, s)'
    BY DEF InHand, Known
  <2>2. \A s \in mirror' \ data' : s \in mirror \ data \/ Known("first", s)'
    BY DEF MirrorsStep, Known
  <2> QED
    BY <2>1, <2>2, MirrorsEnv DEF EInv, LInv, MirrorsStep
<1> QED
  BY <1>1, <1>2, <1>3, <1>4 DEF EInv

\* A step that leaves the records, the markers and the executes as they are.
LEMMA OutsideInv ==
    ASSUME EInv, UNCHANGED vars \/ CountFault,
           UNCHANGED <<exec, second, secondMirror, slipped, ghosts, executes>>,
           ingest' \in [Ingesters -> SUBSET Subjects],
           copied' \subseteq Ingesters, halted' \subseteq Ingesters
    PROVE  EInv'
<1>1. /\ LInv' /\ MirrorsStep
      /\ UNCHANGED <<memory, forgotten, ledger, armed, queued, armer, operator, reported>>
  BY StutterInv, FaultInv DEF EInv, vars, CountFault
<1>2. ErasureTypeOK' /\ OneMarkerPerErasure' /\ SecondOK'
  BY <1>1 DEF EInv, ErasureTypeOK, LInv, OneMarkerPerErasure, SecondOK, ghosts
<1>3. EnvStep
  BY <1>1 DEF EnvStep, OnRecord, memory, ghosts
<1> QED
  BY <1>1, <1>2, <1>3, FolderStep DEF memory, ghosts

LEMMA RememberBodyInv ==
    ASSUME EInv, NEW i \in Ingesters, RememberBody(i) PROVE EInv'
<1>1. ingest' \in [Ingesters -> SUBSET Subjects] /\ copied' \subseteq Ingesters
  BY DEF RememberBody, EInv, ErasureTypeOK
<1> QED
  BY <1>1, OutsideInv DEF RememberBody, EInv, ErasureTypeOK

LEMMA RememberFailsInv ==
    ASSUME EInv, NEW i \in Ingesters, RememberFails(i) PROVE EInv'
<1>1. copied' \subseteq Ingesters /\ halted' \subseteq Ingesters
  BY DEF RememberFails, EInv, ErasureTypeOK
<1> QED
  BY <1>1, OutsideInv DEF RememberFails, EInv, ErasureTypeOK

LEMMA RememberEventInv ==
    ASSUME EInv, NEW i \in Ingesters, RememberEvent(i) PROVE EInv'
<1>1. PICK s \in ingest[i] :
        /\ ingest' = [ingest EXCEPT ![i] = {}]
        /\ copied' = copied \ {i}
        /\ \/ Ingest(s) /\ UNCHANGED <<second, secondMirror, slipped>>
           \/ /\ s \in forgotten \cup data
              /\ s \notin slipped
              /\ second' = second \cup {s}
              /\ secondMirror' = secondMirror \cup {s}
              /\ slipped' = slipped \cup {s}
              /\ UNCHANGED vars
        /\ UNCHANGED <<exec, halted, ghosts, executes>>
  BY DEF RememberEvent
<1>2. /\ s \in Subjects /\ ingest' \in [Ingesters -> SUBSET Subjects]
      /\ copied' \subseteq Ingesters
  BY <1>1 DEF EInv, ErasureTypeOK
<1>4. CASE Ingest(s) /\ UNCHANGED <<second, secondMirror, slipped>>
  <2>1. LInv' /\ MirrorsStep
    BY <1>2, <1>4, IngestInv DEF EInv
  <2>2. ErasureTypeOK' /\ SecondOK'
    BY <1>1, <1>2, <1>4, <2>1 DEF EInv, ErasureTypeOK, LInv, SecondOK, ghosts
  <2>3. EnvStep /\ OneMarkerPerErasure'
    BY <1>1, <1>4 DEF EInv, EnvStep, OnRecord, OneMarkerPerErasure, Ingest, ghosts
  <2> QED
    BY <1>1, <1>4, <2>1, <2>2, <2>3, FolderStep DEF Ingest, ghosts
<1>5. CASE /\ s \notin slipped
           /\ second' = second \cup {s}
           /\ secondMirror' = secondMirror \cup {s}
           /\ slipped' = slipped \cup {s}
           /\ UNCHANGED vars
  <2>1. LInv' /\ MirrorsStep
    BY <1>5, StutterInv DEF EInv
  <2>2. ErasureTypeOK' /\ SecondOK'
    BY <1>1, <1>2, <1>5, <2>1 DEF EInv, ErasureTypeOK, LInv, SecondOK, ghosts
  <2>3. EnvStep /\ OneMarkerPerErasure'
    BY <1>1, <1>5 DEF EInv, EnvStep, OnRecord, OneMarkerPerErasure, SecondOK, vars, memory,
                      ghosts
  <2> QED
    BY <1>1, <1>5, <2>1, <2>2, <2>3, FolderStep DEF vars, ghosts
<1> QED
  BY <1>1, <1>4, <1>5

LEMMA ApplyPendingInv ==
    ASSUME EInv, NEW m \in operator.batch, NEW sees \in BOOLEAN, ApplyPending(m, sees)
    PROVE  EInv'
<1>1. /\ ApplyMarker(m, sees)
      /\ second' \in {second, second \ {m.subject}}
      /\ secondMirror' = IF m.subject \in operator'.errors THEN secondMirror
                         ELSE secondMirror \ (second \ second')
      /\ recorded' = recorded \cup {m.subject}
      /\ UNCHANGED <<exec, ingest, slipped, copied, halted, unrecorded, empties, lapsed, executes>>
  BY DEF ApplyPending, Unread
<1>2. LInv' /\ MirrorsStep
  BY <1>1, ApplyMarkerInv DEF EInv
<1>3. /\ operator.stage = "apply"
      /\ data' \in {data, data \ {m.subject}}
      /\ UNCHANGED <<blob, seals, forgotten, ledger, armed, queued, armer, reported>>
  BY <1>1 DEF ApplyMarker, Unread
<1>4. m.subject \in forgotten /\ m.subject \in Subjects
  BY <1>3, BatchIsStale DEF EInv, Marker
<1>5. PICK errors \in {{}, {m.subject}} :
        /\ mirror' = mirror \ ((data \ data') \ errors)
        /\ operator' = [operator EXCEPT !.batch = @ \ {m}, !.applied = @ \cup {m},
                                        !.errors = @ \cup errors]
  BY <1>1 DEF ApplyMarker
<1>9. operator'.applied = operator.applied \cup {m}
  <2>1. operator \in OperatorType
    BY DEF EInv, LInv, TypeOK, OperatorType
  <2> QED
    BY <1>5, <2>1 DEF OperatorType
<1>6. ErasureTypeOK' /\ SecondOK'
  BY <1>1, <1>2, <1>4 DEF EInv, ErasureTypeOK, LInv, SecondOK
<1>7. EnvStep /\ OneMarkerPerErasure'
  <2>1. \A s \in data \cap data' : s \in mirror <=> s \in mirror'
    BY <1>5
  <2>2. \A s \in second \cap second' : s \in secondMirror <=> s \in secondMirror'
    BY <1>1
  <2> QED
    BY <1>1, <1>3, <1>4, <2>1, <2>2 DEF EInv, EnvStep, OnRecord, OneMarkerPerErasure
<1>8. ASSUME NEW s \in secondMirror' \ second', s \in second
      PROVE  Known("second", s)'
  BY <1>1, <1>8 DEF Known, Settled
<1> QED
  BY <1>1, <1>2, <1>3, <1>6, <1>7, <1>8, <1>9, FolderStep

LEMMA ApplyPendingFailsInv ==
    ASSUME EInv, NEW m \in operator.batch, ApplyPendingFails(m) PROVE EInv'
<1>1. /\ ApplyFails(m)
      /\ second' \in {second, second \ {m.subject}}
      /\ secondMirror' \in {secondMirror, secondMirror \ (second \ second')}
      /\ UNCHANGED <<exec, ingest, slipped, copied, halted, ghosts, executes>>
  BY DEF ApplyPendingFails
<1>2. LInv' /\ MirrorsStep
  BY <1>1, ApplyFailsInv DEF EInv
<1>3. /\ operator.stage = "apply"
      /\ data' \in {data, data \ {m.subject}}
      /\ UNCHANGED <<blob, seals, forgotten, ledger, armed, queued, armer, reported, unseen, crashes>>
  BY <1>1 DEF ApplyFails
<1>4. m \in ledger /\ Stale(m) /\ m \notin operator.applied /\ m.subject \in forgotten
  BY <1>3, BatchIsStale DEF EInv
<1>5. operator'.applied = operator.applied /\ operator'.batch = operator.batch \ {m}
  <2>1. operator' = [operator EXCEPT !.batch = @ \ {m}]
    BY <1>1 DEF ApplyFails
  <2>2. operator \in OperatorType
    BY DEF EInv, LInv, TypeOK, OperatorType
  <2> QED
    BY <2>1, <2>2 DEF OperatorType
<1>6. ErasureTypeOK' /\ SecondOK'
  BY <1>1, <1>2 DEF EInv, ErasureTypeOK, LInv, SecondOK, ghosts
<1>10. \A s \in data \cap data' : s \in mirror <=> s \in mirror'
  BY <1>1 DEF ApplyFails
<1>7. EnvStep /\ OneMarkerPerErasure'
  BY <1>1, <1>3, <1>4, <1>10 DEF EInv, EnvStep, OnRecord, OneMarkerPerErasure, ghosts
<1>8. Settled(m.subject)'
  BY <1>3, <1>4, <1>5 DEF Settled, Handled, Stale
<1>9. \A s \in secondMirror' \ second' : s \in secondMirror \ second \/ Known("second", s)'
  BY <1>1, <1>8 DEF Known
<1> QED
  BY <1>1, <1>2, <1>3, <1>5, <1>6, <1>7, <1>9, FolderStep DEF ghosts

\* An applied marker is dropped after its event was written.
LEMMA SealerInv ==
    ASSUME EInv, Seal \/ VerifyMarkers \/ Restore \/ DropApplied \/ Crash,
           UNCHANGED <<exec, ingest, records, ghosts, executes>>
    PROVE  EInv'
<1>1. LInv' /\ MirrorsStep /\ OneMarkerPerErasure'
  BY NextInv, MarkersInv DEF Next, EInv
<1>2. /\ UNCHANGED <<data, mirror, forgotten, armer>>
      /\ ledger \ operator.applied \subseteq ledger'
  BY DEF Seal, VerifyMarkers, Restore, DropApplied, Crash, memory
<1>3. operator'.applied \subseteq operator.applied
  <2>1. operator \in OperatorType
    BY DEF EInv, LInv, TypeOK, OperatorType
  <2>2. Away.applied = {}
    BY DEF Away
  <2>3. CASE Restore
    BY <2>1, <2>2, <2>3 DEF Restore, OperatorType
  <2>4. CASE VerifyMarkers
    BY <2>4 DEF VerifyMarkers
  <2> QED
    BY <2>2, <2>3, <2>4 DEF Seal, DropApplied, Crash
<1>4. ErasureTypeOK' /\ SecondOK'
  BY <1>1 DEF EInv, ErasureTypeOK, LInv, SecondOK, records, ghosts
<1>5. \A s \in Subjects : OnRecord(s) => OnRecord(s)'
  BY <1>2 DEF EInv, RecordedOK, OnRecord, ghosts
<1>6. EnvStep
  BY <1>2, <1>5 DEF EnvStep, records
<1> QED
  BY <1>1, <1>2, <1>3, <1>4, <1>6, FolderStep DEF records, ghosts

-----------------------------------------------------------------------------
(***************************************************************************)
(* The invariant                                                           *)
(***************************************************************************)
LEMMA EInitInv == EInit => EInv
<1> SUFFICES ASSUME EInit PROVE EInv
  OBVIOUS
<1>1. LInv /\ OneMarkerPerErasure
  BY InitInv DEF EInit, IInv
<1>2. ErasureTypeOK
  BY <1>1, IdleOK, ErasureAssumption DEF EInit, ErasureTypeOK, LInv
<1>3. \A p \in Armers : ExecOK(p)
  BY IdleOK DEF EInit, ExecOK, Fits, Guarded, Swept
<1>4. ArmsOwn /\ AddedOK
  BY IdleOK DEF EInit, Init, ArmsOwn, AddedOK
<1>5. RecordedOK /\ SecondOK /\ MirrorsKnown
  BY DEF EInit, Init, RecordedOK, SecondOK, MirrorsKnown, Away
<1> QED
  BY <1>1, <1>2, <1>3, <1>4, <1>5 DEF EInv

LEMMA EStutterInv ==
    ASSUME EInv, UNCHANGED evars PROVE EInv'
<1>1. UNCHANGED <<vars, exec, ingest, second, secondMirror, slipped, copied, halted, ghosts,
                  executes>>
  BY DEF evars, records
<1> QED
  BY <1>1, OutsideInv DEF EInv, ErasureTypeOK

LEMMA ENextInv ==
    ASSUME EInv, ENext PROVE EInv'
<1>1. ASSUME NEW i \in Ingesters, NEW s \in Subjects, CheckGuard(i, s) \/ PickUp(i, s)
      PROVE  EInv'
  <2>1. UNCHANGED <<vars, exec, second, secondMirror, slipped, copied, halted, ghosts, executes>>
    BY <1>1 DEF CheckGuard, PickUp, records
  <2>2. ingest' \in [Ingesters -> SUBSET Subjects]
    BY <1>1 DEF CheckGuard, PickUp, EInv, ErasureTypeOK
  <2> QED
    BY <2>1, <2>2, OutsideInv DEF EInv, ErasureTypeOK
<1>2. ASSUME NEW p \in Armers,
             \/ \E s \in Subjects : Start(p, s) \/ StartUnread(p, s)
             \/ SweepLog(p) \/ SweepSurfaces(p) \/ DiscoverSealed(p)
             \/ RegisterGuard(p) \/ GuardFails(p)
             \/ Fingerprint(p) \/ Arm(p) \/ ArmFails(p)
             \/ PurgeHits(p) \/ EraseMirror(p)
             \/ ReturnUnrecorded(p) \/ ReturnRecorded(p) \/ RecordFails(p) \/ Die(p)
      PROVE  EInv'
  BY <1>2, StartInv, SweepLogInv, SweepSurfacesInv, DiscoverSealedInv, RegisterGuardInv,
     GuardFailsInv, FingerprintInv, ArmInv, ArmFailsInv, PurgeHitsInv, EraseMirrorInv,
     ReturnUnrecordedInv, ReturnRecordedInv, RecordFailsInv, DieInv
<1> QED
  BY <1>1, <1>2, RememberBodyInv, RememberEventInv, RememberFailsInv, ApplyPendingInv,
     ApplyPendingFailsInv, SealerInv DEF ENext

THEOREM ErasureInvariance == ESpec => []EInv
<1>1. EInv /\ [ENext]_evars => EInv'
  BY ENextInv, EStutterInv
<1> QED
  BY <1>1, EInitInv, PTL DEF ESpec

-----------------------------------------------------------------------------
\* Type correctness of erasure beside ingestion and sealing (erasure.execute).
THEOREM ErasureTypeCorrect == ESpec => []ErasureTypeOK
<1>1. EInv => ErasureTypeOK
  BY DEF EInv
<1> QED
  BY <1>1, ErasureInvariance, PTL

(***************************************************************************)
(* With executes and ingests beside it as well, no erasure reported as     *)
(* queued is dropped (arm_marker, apply_markers), but for markers applied  *)
(* without a look at the mirror.                                           *)
(***************************************************************************)
THEOREM QueuedErasureIsKept == ESpec => []NoErasureIsDropped
<1>1. EInv => NoErasureIsDropped
  BY DEF EInv, LInv
<1> QED
  BY <1>1, ErasureInvariance, PTL

\* Nor is a marker armed twice (arm_marker).
THEOREM ArmedOnce == ESpec => []OneMarkerPerErasure
<1>1. EInv => OneMarkerPerErasure
  BY DEF EInv
<1> QED
  BY <1>1, ErasureInvariance, PTL

(***************************************************************************)
(* An erasure that changed the folder and returned has its event on the    *)
(* log, or the marker that will write it in the ledger: execute leaves the *)
(* composite to the marker only once the marker is armed.                  *)
(***************************************************************************)
THEOREM ErasureIsOnRecord == ESpec => []EveryErasureIsOnRecord
<1>1. EInv => EveryErasureIsOnRecord
  BY DEF EInv, RecordedOK, OnRecord, EveryErasureIsOnRecord
<1> QED
  BY <1>1, ErasureInvariance, PTL

(***************************************************************************)
(* However often an erasure is delivered, and by however many processes at *)
(* once, at most one composite says that nothing was found: only the       *)
(* execute that put the subject on the guard may write it.                 *)
(***************************************************************************)
THEOREM EmptyErasureIsNotForked == ESpec => []EmptyErasureIsRecordedOnce
<1>1. EInv => EmptyErasureIsRecordedOnce
  BY DEF EInv, AddedOK, EmptyErasureIsRecordedOnce
<1> QED
  BY <1>1, ErasureInvariance, PTL

(***************************************************************************)
(* Every copy in the knowledge mirror that outlives its record is reported *)
(* or has a marker, or is in the hands of an execute, or of one that was   *)
(* cut short (execute, _erase_versum_mirror, apply_markers).               *)
(***************************************************************************)
THEOREM MirrorsAreKnown == ESpec => []MirrorsLeftAreKnown
<1>1. ASSUME EInv, NEW s, NEW r, Known(r, s)
      PROVE  \/ s \in reported \cup lapsed
             \/ \E m \in ledger : m.subject = s
             \/ \E p \in Armers :
                   s \in exec[p].subject /\ (exec[p].stage = "mirror" \/ exec[p].left)
  <2>1. s \in operator.errors => \E m \in ledger : m.subject = s
    BY <1>1 DEF EInv, LInv, AppliedOK, UnsealOK, Handled
  <2> QED
    BY <1>1, <2>1 DEF Known, Settled, InHand
<1>2. EInv => MirrorsLeftAreKnown
  BY <1>1 DEF EInv, MirrorsKnown, MirrorsLeftAreKnown
<1> QED
  BY <1>2, ErasureInvariance, PTL

(***************************************************************************)
(* The report of an execute can be believed as far as its sweep could see: *)
(* if it names no error and no sealed folder, no record the subject had    *)
(* when it began is left, but for a folder unsealed between the looks the  *)
(* sweep takes at it, and for records whose text only the mirror has when  *)
(* the read of the mirror failed (erasure.sweep, execute).  What its sweep *)
(* found holds on to the end because a record neither gets nor loses its   *)
(* copy while it is in the log.                                            *)
(***************************************************************************)
THEOREM ReportIsTrue == ESpec => CleanReportIsTrue
<1>1. ASSUME EInv, NEW p \in Armers, ReturnUnrecorded(p) \/ ReturnRecorded(p),
             exec[p].sight # "unveiled"
      PROVE  Mentions(exec[p].subject) \cap exec[p].owed
                \subseteq IF exec[p].sight = "unread" THEN Copies(exec[p].subject) ELSE {}
  <2>1. exec[p].stage = "files"
    BY <1>1 DEF ReturnUnrecorded, ReturnRecorded
  <2>2. exec[p].sight \in {"clear", "unread", "blind"}
    BY <1>1 DEF EInv, ErasureTypeOK, Execute, Sights
  <2> QED
    BY <1>1, <2>1, <2>2 DEF EInv, ExecOK, Fits, Missed, Guarded
<1>2. EInv =>
        [\A p \in Armers :
            /\ ReturnUnrecorded(p) \/ ReturnRecorded(p)
            /\ exec[p].sight # "unveiled"
            => Mentions(exec[p].subject) \cap exec[p].owed
                  \subseteq IF exec[p].sight = "unread" THEN Copies(exec[p].subject) ELSE {}]_evars
  BY <1>1
<1> QED
  BY <1>2, ErasureInvariance, PTL DEF CleanReportIsTrue
=============================================================================
