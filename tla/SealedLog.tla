----------------------------- MODULE SealedLog -----------------------------
(***************************************************************************)
(* Sealing a folder's memory at rest and restoring it (seal.py), beside    *)
(* the processes that append to and purge its log.                         *)
(*                                                                         *)
(* seal_folder holds the flock of the events.jsonl it opened from its      *)
(* snapshot to the removal of the directory; unseal_folder takes no lock.  *)
(* The key derivation separates the snapshot from the blob.  The blob      *)
(* holds the whole directory; the model keeps the lines and the two anchor *)
(* files.                                                                  *)
(***************************************************************************)
EXTENDS MutationLog

\* What the two anchor files hold.
HeadsNow == [file |-> anchor.file.holds, temp |-> anchor.temp.holds]

otherVars == <<content, inodes, cache, used, acked, erased, crashes>>

-----------------------------------------------------------------------------
\* MutationLog(folder): no directory is made beside a sealed blob; the check
\* comes first, the mkdir some steps later.
Construct(p) ==
    /\ Calls(p, "construct")
    /\ call' = [call EXCEPT ![p].stage = "makedir"]
    /\ UNCHANGED <<files, cache, used, acked, erased, crashes>>

MakeDir(p) ==
    /\ call[p].stage = "makedir"
    /\ dir' = TRUE
    /\ Finish(p)
    /\ UNCHANGED <<otherVars, path, shard, anchor, holder, sealed>>

-----------------------------------------------------------------------------
(***************************************************************************)
(* seal_folder                                                             *)
(***************************************************************************)

\* Refused when a blob exists or there is no memory to seal.
SealFolder(p) ==
    /\ Calls(p, "seal")
    /\ dir
    /\ call' = [call EXCEPT ![p].stage = "sealopen"]
    /\ UNCHANGED <<files, cache, used, acked, erased, crashes>>

OpenToSeal(p) ==
    /\ call[p].stage = "sealopen"
    /\ Open(p, "seallock")
    /\ UNCHANGED <<dir, content, shard, anchor, holder, sealed, cache, used, acked, erased,
                   crashes>>

\* The directory went away after the check: the open raises.
SealFails(p) ==
    /\ call[p].stage = "sealopen"
    /\ ~dir
    /\ GiveUp(p)

\* Mutant: the log is read without its lock.
TakeSnapshot_Unlocked(p) ==
    /\ call[p].stage = "seallock"
    /\ call' = [call EXCEPT ![p].stage = "sealblob", ![p].lines = Log,
                            ![p].heads = HeadsNow]
    /\ UNCHANGED <<files, cache, used, acked, erased, crashes>>

\* Under the lock, pack whatever the directory holds by now; a directory that
\* is gone packs as nothing.
TakeSnapshot(p) ==
    /\ call[p].stage = "seallock"
    /\ LockFree(p)
    /\ holder' = [holder EXCEPT ![call[p].file] = p]
    /\ call' = [call EXCEPT ![p].stage = "sealblob", ![p].lines = Log,
                            ![p].heads = HeadsNow]
    /\ UNCHANGED <<otherVars, dir, path, shard, anchor, sealed>>

\* Encrypt, and move the blob over whatever is there.
WriteBlob(p) ==
    /\ call[p].stage = "sealblob"
    /\ sealed' = [there |-> TRUE, lines |-> call[p].lines, heads |-> call[p].heads]
    /\ call' = [call EXCEPT ![p].stage = "sealremove"]
    /\ UNCHANGED <<otherVars, dir, path, shard, anchor, holder>>

\* rmtree, and release the lock.
RemoveStore(p) ==
    /\ call[p].stage = "sealremove"
    /\ dir' = FALSE
    /\ path' = NoFile
    /\ anchor' = [file |-> NoAnchor, temp |-> NoAnchor]
    /\ shard' = NoShard
    /\ holder' = [i \in Inodes |-> IF holder[i] = p THEN Nobody ELSE holder[i]]
    /\ Finish(p)
    /\ UNCHANGED <<otherVars, sealed>>

-----------------------------------------------------------------------------
(***************************************************************************)
(* unseal_folder                                                           *)
(***************************************************************************)

\* Refused without a blob, or over existing plaintext; then the blob is read
\* and decrypted.
UnsealFolder(p) ==
    /\ "unseal" \in OpsOf[p]
    /\ call[p] = Idle
    /\ sealed.there
    /\ ~dir
    /\ call' = [call EXCEPT ![p].stage = "restoredir", ![p].lines = sealed.lines,
                            ![p].heads = sealed.heads]
    /\ UNCHANGED <<files, cache, used, acked, erased, crashes>>

\* Mutant: the blob is removed before its files are back.
RestoreDir_UnlinksBlob(p) ==
    /\ call[p].stage = "restoredir"
    /\ dir' = TRUE
    /\ sealed' = Unsealed
    /\ call' = [call EXCEPT ![p].stage = "restorefiles"]
    /\ UNCHANGED <<otherVars, path, shard, anchor, holder>>

\* mkdir(exist_ok).
RestoreDir(p) ==
    /\ call[p].stage = "restoredir"
    /\ dir' = TRUE
    /\ call' = [call EXCEPT ![p].stage = "restorefiles"]
    /\ UNCHANGED <<otherVars, path, shard, anchor, holder, sealed>>

Restored(f, head) == IF head = Genesis THEN f ELSE [holds |-> head, open |-> f.open]

\* write_bytes truncates a file of that name that exists by now.
RestoreFiles(p) ==
    /\ call[p].stage = "restorefiles"
    /\ path = NoFile => inodes < MaxInodes
    /\ path' = IF path = NoFile THEN inodes + 1 ELSE path
    /\ inodes' = IF path = NoFile THEN inodes + 1 ELSE inodes
    /\ content' = [content EXCEPT ![path'] = call[p].lines]
    /\ anchor' = [file |-> Restored(anchor.file, call[p].heads.file),
                  temp |-> Restored(anchor.temp, call[p].heads.temp)]
    /\ call' = [call EXCEPT ![p].stage = "unlinkblob"]
    /\ UNCHANGED <<dir, shard, holder, sealed, cache, used, acked, erased, crashes>>

RemoveBlob(p) ==
    /\ call[p].stage = "unlinkblob"
    /\ sealed' = Unsealed
    /\ Finish(p)
    /\ UNCHANGED <<otherVars, dir, path, shard, anchor, holder>>

-----------------------------------------------------------------------------
SealStep(p) ==
    \/ Construct(p) \/ MakeDir(p)
    \/ SealFolder(p) \/ OpenToSeal(p) \/ SealFails(p)
    \/ TakeSnapshot(p) \/ WriteBlob(p) \/ RemoveStore(p)
    \/ UnsealFolder(p) \/ RestoreDir(p) \/ RestoreFiles(p) \/ RemoveBlob(p)

SealedNext == (\E p \in Procs : LogStep(p) \/ SealStep(p)) \/ Rest

SealedSpec == Init /\ [][SealedNext]_vars

-----------------------------------------------------------------------------
\* The log, in the directory or in the blob.
Memory == IF sealed.there THEN sealed.lines ELSE Log

(***************************************************************************)
(* An event whose append returned is in the log or in the blob until a     *)
(* purge of its pair takes it out: neither sealing, however it meets an    *)
(* append and wherever it is killed, nor a disk that fills in the middle   *)
(* of a line loses accepted evidence.                                      *)
(***************************************************************************)
SealKeepsEveryEvent == acked \subseteq IdsIn(Log) \cup IdsIn(sealed.lines) \cup erased

(***************************************************************************)
(* Sealing and unsealing do not show in the log: through any sequence of   *)
(* calls and deaths, what the directory or else the blob holds behaves as  *)
(* the log promises.                                                       *)
(***************************************************************************)
MemoryLog == INSTANCE AuditLog WITH log <- Memory, acked <- acked

SealingIsInvisible == MemoryLog!AuditSpec

(***************************************************************************)
(* What is stored at rest is linked too: every intact event in the blob is *)
(* linked to the intact one before it, even while several processes seal   *)
(* and unseal without excluding each other, over writers that hold stale   *)
(* files, purges, full disks and torn lines.                               *)
(***************************************************************************)
StoredChainIsLinked == IntactLinked(sealed.lines)
=============================================================================
