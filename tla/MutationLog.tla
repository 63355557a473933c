---------------------------- MODULE MutationLog ----------------------------
(***************************************************************************)
(* One folder's mutation log (mutation_log.py): processes append events to *)
(* events.jsonl and erase a pair's events from it, each under an exclusive *)
(* flock on the file they opened, and refresh the head anchor afterwards.  *)
(*                                                                         *)
(* The flock belongs to the inode, and a purge replaces the inode behind   *)
(* the name: a process that opened the file earlier holds, or waits for, a *)
(* lock on a file nobody else will open again.  So files are inodes here   *)
(* and the name events.jsonl is a variable.                                *)
(*                                                                         *)
(* What a call does under the lock without leaving it is one step: the     *)
(* other processes see the file by name, and a write to an inode the name  *)
(* has left is seen by nobody, whenever it happens.                        *)
(***************************************************************************)
EXTENDS EventChain

CONSTANTS
    Procs,          \* processes with this folder's log open
    Nobody,
    OpsOf,          \* the operations each process calls
    LongLived,      \* processes that keep one MutationLog between calls
    Pinning,        \* WORKSPACE_KEY_PINNING=1
    DiskMayFill,    \* a write may raise ENOSPC
    TornWrites,     \* a process may die half way through a line
    PurgesUndisturbed, \* environment: nothing else runs during a purge
    MaxInodes,      \* bound: how many files are ever created
    MaxCrashes      \* bound: how many process deaths

\* The log's own operations, and those SealedLog adds.
Ops == {"append", "purge", "construct", "seal", "unseal"}

ASSUME MutationLogAssumption ==
    /\ Nobody \notin Procs
    /\ NoPair \notin Pairs
    /\ OpsOf \in [Procs -> SUBSET Ops]
    /\ LongLived \subseteq Procs
    /\ {Pinning, DiskMayFill, TornWrites, PurgesUndisturbed} \subseteq BOOLEAN
    /\ {MaxEvents, MaxInodes, MaxCrashes} \subseteq Nat

Inodes == 1..MaxInodes
NoFile == 0

Stages == {"out", "open", "lock", "anchor", "anchorwrite", "anchormove", "snapshot", "reopen", "rewrite", "replace",
           "tail", "tailread",
           "makedir", "sealopen", "seallock", "sealblob", "sealremove",
           "restoredir", "restorefiles", "unlinkblob"}

\* What events.anchor and events.anchor.tmp hold: the head_hash, Genesis without
\* the file, or nothing readable (verify_chain: anchor_unreadable).
Cut == -1
Heads == [file : Ids \cup {Genesis, Cut}, temp : Ids \cup {Genesis, Cut}]
NoHeads == [file |-> Genesis, temp |-> Genesis]

\* Each of the two files with the processes that have it open.
AnchorFile == [holds : Ids \cup {Genesis, Cut}, open : SUBSET Procs]
NoAnchor == [holds |-> Genesis, open |-> {}]

Call == [stage : Stages, pair : Pairs \cup {NoPair},
         kind : {"event", "registration", "purge"}, id : Ids \cup {Genesis},
         next : Ids \cup {Genesis}, file : Inodes \cup {NoFile}, size : Nat,
         lines : Seq(Line), heads : Heads]

\* id is the event the call writes (for the anchor: the head), next the event
\* still to append once the registration is; heads is what a seal packs.
Idle == [stage |-> "out", pair |-> NoPair, kind |-> "event", id |-> Genesis,
         next |-> Genesis, file |-> NoFile, size |-> 0, lines |-> <<>>, heads |-> NoHeads]

NoCache == [head |-> Genesis, size |-> 0]
NoShard == [there |-> FALSE, lines |-> <<>>]

VARIABLES
    dir,       \* the folder's log directory exists
    path,      \* the inode events.jsonl names, NoFile if there is none
    content,   \* the lines of every inode
    inodes,    \* inodes created so far
    shard,     \* events.jsonl.tmp, shared by all purges of the folder
    anchor,    \* events.anchor and events.anchor.tmp, shared by all processes
    holder,    \* the process holding the exclusive flock of each inode
    sealed,    \* the .sealed blob beside the directory
    call,      \* the call each process is executing
    cache,     \* _tail_cache of each process's log object
    used,      \* events created so far
    acked,     \* events whose append returned
    erased,    \* events of pairs a purge has erased from the file
    crashes    \* process deaths so far

files == <<dir, path, content, inodes, shard, anchor, holder, sealed>>
vars  == <<files, call, cache, used, acked, erased, crashes>>

\* What a reader of events.jsonl finds.
Log == IF path = NoFile THEN <<>> ELSE content[path]

\* No blob, or one with the archived lines and anchor (written by seal.py).
Unsealed == [there |-> FALSE, lines |-> <<>>, heads |-> NoHeads]

Init ==
    /\ dir = TRUE
    /\ path = NoFile
    /\ content = [i \in Inodes |-> <<>>]
    /\ inodes = 0
    /\ shard = NoShard
    /\ anchor = [file |-> NoAnchor, temp |-> NoAnchor]
    /\ holder = [i \in Inodes |-> Nobody]
    /\ sealed = Unsealed
    /\ call = [p \in Procs |-> Idle]
    /\ cache = [p \in Procs |-> NoCache]
    /\ used = 0
    /\ acked = {}
    /\ erased = {}
    /\ crashes = 0

-----------------------------------------------------------------------------
(***************************************************************************)
(* Opening and locking                                                     *)
(***************************************************************************)
Undisturbed(op) ==
    PurgesUndisturbed => \A q \in Procs : IF op = "purge" THEN call[q] = Idle
                                                         ELSE call[q].kind # "purge"

Calls(p, op) ==
    /\ op \in OpsOf[p]
    /\ call[p] = Idle
    /\ ~sealed.there
    /\ Undisturbed(op)

\* open(events.jsonl, "a+"): creates the file if the directory has none.
Open(p, stage) ==
    /\ dir
    /\ path = NoFile => inodes < MaxInodes
    /\ path' = IF path = NoFile THEN inodes + 1 ELSE path
    /\ inodes' = IF path = NoFile THEN inodes + 1 ELSE inodes
    /\ call' = [call EXCEPT ![p].stage = stage, ![p].file = path',
                            ![p].size = Len(content[path'])]

\* The flock of the opened file can be taken.
LockFree(p) == holder[call[p].file] = Nobody

Finish(p) == call' = [call EXCEPT ![p] = Idle]

\* The call raises or returns without having done anything (more).
GiveUp(p) ==
    /\ Finish(p)
    /\ UNCHANGED <<files, cache, used, acked, erased, crashes>>

-----------------------------------------------------------------------------
(***************************************************************************)
(* append                                                                  *)
(***************************************************************************)

\* Mutant: an events.jsonl that exists counts as a chain with events.
AppendEvent_ExistsIsEnough(p, pair) ==
    /\ Calls(p, "append")
    /\ IF Pinning /\ path = NoFile
       THEN /\ used + 2 <= MaxEvents
            /\ used' = used + 2
            /\ call' = [call EXCEPT ![p] = [Idle EXCEPT
                  !.stage = "open", !.pair = pair, !.kind = "registration",
                  !.id = used + 1, !.next = used + 2]]
       ELSE /\ used < MaxEvents
            /\ used' = used + 1
            /\ call' = [call EXCEPT ![p] = [Idle EXCEPT
                  !.stage = "open", !.pair = pair, !.id = used + 1]]
    /\ UNCHANGED <<files, cache, acked, erased, crashes>>

\* Entry checks, and _ensure_registered: with key pinning on, a log without
\* events gets its registration event first, by an append of its own.
AppendEvent(p, pair) ==
    /\ Calls(p, "append")
    /\ IF Pinning /\ Log = <<>>
       THEN /\ used + 2 <= MaxEvents
            /\ used' = used + 2
            /\ call' = [call EXCEPT ![p] = [Idle EXCEPT
                  !.stage = "open", !.pair = pair, !.kind = "registration",
                  !.id = used + 1, !.next = used + 2]]
       ELSE /\ used < MaxEvents
            /\ used' = used + 1
            /\ call' = [call EXCEPT ![p] = [Idle EXCEPT
                  !.stage = "open", !.pair = pair, !.id = used + 1]]
    /\ UNCHANGED <<files, cache, acked, erased, crashes>>

OpenToAppend(p) ==
    /\ call[p].stage = "open"
    /\ Open(p, "lock")
    /\ UNCHANGED <<dir, content, shard, anchor, holder, sealed, cache, used, acked, erased,
                   crashes>>

\* The directory is gone, or the store was sealed while the lock was awaited.
AppendRefused(p) ==
    /\ \/ call[p].stage = "open" /\ ~dir
       \/ call[p].stage = "lock" /\ LockFree(p) /\ sealed.there
    /\ GiveUp(p)

\* Mutant: the tail is the one the file had when it was opened.
PrevHash_AtOpen(p) ==
    TailHash(CutBack(content[call[p].file], call[p].size))

\* _tail_hash_cached: the cached head while the size of the opened file is the
\* one cached with it, otherwise a scan of the file of that name.
PrevHash(p) ==
    IF cache[p].head # Genesis /\ cache[p].size = Len(content[call[p].file])
    THEN cache[p].head ELSE TailHash(Log)

\* Mutant: the line is written where the file ended when it was opened.
WriteLine_AtOpen(p, lines, line) == Append(SubSeq(lines, 1, call[p].size), line)

\* O_APPEND: the line goes to the end of the opened file.
WriteLine(p, lines, line) == Glue(lines, line)

\* The line as it is written, prev_hash taken under the lock.
Written(p) ==
    [id |-> call[p].id, kind |-> call[p].kind, prev |-> PrevHash(p),
     pair |-> IF call[p].kind = "registration" THEN NoPair ELSE call[p].pair]

WriteEvent(p) ==
    /\ call[p].stage = "lock"
    /\ LockFree(p)
    /\ ~sealed.there
    /\ content' = [content EXCEPT ![call[p].file] = WriteLine(p, @, Written(p))]
    /\ cache' = IF p \in LongLived
                THEN [cache EXCEPT ![p] = [head |-> call[p].id,
                                           size |-> Len(content'[call[p].file])]]
                ELSE cache
    /\ call' = [call EXCEPT ![p].stage = "anchor"]
    /\ UNCHANGED <<dir, path, inodes, shard, anchor, holder, sealed, used, acked, erased,
                   crashes>>

\* ENOSPC: the file is truncated to fh.tell(), which is where it ended when it
\* was opened, before the lock was awaited; DiskFullError.
WriteHitsFullDisk(p) ==
    /\ DiskMayFill
    /\ call[p].stage = "lock"
    /\ LockFree(p)
    /\ ~sealed.there
    /\ content' = [content EXCEPT ![call[p].file] = CutBack(@, call[p].size)]
    /\ Finish(p)
    /\ UNCHANGED <<dir, path, inodes, shard, anchor, holder, sealed, cache, used, acked,
                   erased, crashes>>

(***************************************************************************)
(* _write_anchor, outside the lock, through a temporary file of one name   *)
(* for all processes.  Opening it truncates it, under whoever has it open; *)
(* who has it open when it is moved goes on to write to events.anchor.     *)
(***************************************************************************)

\* append returns the audit_id, or goes on from the registration to the event
\* itself.
Return(p) ==
    /\ acked' = IF call[p].kind = "purge" THEN acked ELSE acked \cup {call[p].id}
    /\ IF call[p].next = Genesis THEN Finish(p)
       ELSE call' = [call EXCEPT ![p] = [Idle EXCEPT
                       !.stage = "open", !.pair = call[p].pair, !.id = call[p].next]]
    /\ UNCHANGED <<dir, path, content, inodes, shard, holder, sealed, cache, used, erased,
                   crashes>>

Closed(p, f) == [holds |-> f.holds, open |-> f.open \ {p}]

OpenAnchor(p) ==
    /\ call[p].stage = "anchor"
    /\ dir
    /\ anchor' = [file |-> anchor.file,
                  temp |-> [holds |-> Cut, open |-> anchor.temp.open \cup {p}]]
    /\ call' = [call EXCEPT ![p].stage = "anchorwrite"]
    /\ UNCHANGED <<dir, path, content, inodes, shard, holder, sealed, cache, used, acked,
                   erased, crashes>>

\* Every anchor has the same length: a write replaces what another left.
WriteHead(p, f) ==
    IF p \in f.open THEN [holds |-> call[p].id, open |-> f.open \ {p}] ELSE f

WriteAnchor(p) ==
    /\ call[p].stage = "anchorwrite"
    /\ anchor' = [file |-> WriteHead(p, anchor.file), temp |-> WriteHead(p, anchor.temp)]
    /\ call' = [call EXCEPT ![p].stage = "anchormove"]
    /\ UNCHANGED <<dir, path, content, inodes, shard, holder, sealed, cache, used, acked,
                   erased, crashes>>

\* os.replace; when the temporary file has been moved already it raises.
MoveAnchor(p) ==
    /\ call[p].stage = "anchormove"
    /\ anchor' = IF anchor.temp.holds = Genesis THEN anchor
                 ELSE [file |-> anchor.temp, temp |-> NoAnchor]
    /\ Return(p)

\* The directory is gone or the disk is full: the failure is swallowed.
AnchorFails(p) ==
    /\ \/ call[p].stage = "anchor" /\ (~dir \/ DiskMayFill)
       \/ call[p].stage = "anchorwrite" /\ DiskMayFill
    /\ anchor' = [file |-> Closed(p, anchor.file), temp |-> Closed(p, anchor.temp)]
    /\ Return(p)

-----------------------------------------------------------------------------
(***************************************************************************)
(* purge                                                                   *)
(***************************************************************************)

\* Without an events.jsonl there is nothing to purge.
Purge(p, pair) ==
    /\ Calls(p, "purge")
    /\ path # NoFile
    /\ used < MaxEvents
    /\ used' = used + 1
    /\ call' = [call EXCEPT ![p] = [Idle EXCEPT !.stage = "snapshot", !.pair = pair,
                                       !.kind = "purge", !.id = used', !.file = path]]
    /\ UNCHANGED <<files, cache, acked, erased, crashes>>

Matching(p) == {line \in {call[p].lines[k] : k \in 1..Len(call[p].lines)} :
                   line.pair = call[p].pair}

\* Read all lines under the lock, and release it; no event of the pair: return 0.
ReadSnapshot(p) ==
    /\ call[p].stage = "snapshot"
    /\ LockFree(p)
    /\ LET lines == content[call[p].file] IN
       IF \E k \in 1..Len(lines) : lines[k].pair = call[p].pair
       THEN call' = [call EXCEPT ![p].stage = "reopen", ![p].lines = lines,
                                 ![p].file = NoFile]
       ELSE Finish(p)
    /\ UNCHANGED <<files, cache, used, acked, erased, crashes>>

OpenToRewrite(p) ==
    /\ call[p].stage = "reopen"
    /\ Open(p, "rewrite")
    /\ UNCHANGED <<dir, content, shard, anchor, holder, sealed, cache, used, acked, erased,
                   crashes>>

\* The lines a purge writes: the survivors of its snapshot, relinked, and the
\* tombstone that names the pair through an opaque reference only.
Rewritten(p) ==
    LET kept == Relink(Survivors(call[p].lines, call[p].pair))
    IN  Glue(kept, [id |-> call[p].id, pair |-> NoPair, kind |-> "purge",
                    prev |-> TailHash(kept)])

\* Under the lock again: write the shard ...
WriteShard(p) ==
    /\ call[p].stage = "rewrite"
    /\ LockFree(p)
    /\ dir
    /\ holder' = [holder EXCEPT ![call[p].file] = p]
    /\ shard' = [there |-> TRUE, lines |-> Rewritten(p)]
    /\ call' = [call EXCEPT ![p].stage = "replace"]
    /\ UNCHANGED <<dir, path, content, inodes, anchor, sealed, cache, used, acked, erased,
                   crashes>>

\* ... or run out of disk space: the shard is removed, DiskFullError.
ShardHitsFullDisk(p) ==
    /\ DiskMayFill
    /\ call[p].stage = "rewrite"
    /\ LockFree(p)
    /\ shard' = NoShard
    /\ Finish(p)
    /\ UNCHANGED <<dir, path, content, inodes, anchor, holder, sealed, cache, used, acked,
                   erased, crashes>>

\* ... and move it over events.jsonl, still under the lock of the file that was
\* open.  If another purge has moved the shard already, os.replace raises.
ReplaceLog(p) ==
    /\ call[p].stage = "replace"
    /\ holder' = [holder EXCEPT ![call[p].file] = Nobody]
    /\ shard' = NoShard
    /\ IF shard.there
       THEN /\ inodes < MaxInodes
            /\ inodes' = inodes + 1
            /\ path' = inodes'
            /\ content' = [content EXCEPT ![path'] = shard.lines]
            /\ erased' = erased \cup {line.id : line \in Matching(p)}
            /\ call' = [call EXCEPT ![p] = [Idle EXCEPT !.stage = "tail", !.kind = "purge"]]
       ELSE Finish(p) /\ UNCHANGED <<inodes, path, content, erased>>
    /\ UNCHANGED <<dir, anchor, sealed, cache, used, acked, crashes>>

\* The directory went away under a purge: its open or its shard fails.
PurgeFails(p) ==
    /\ call[p].stage \in {"reopen", "rewrite"}
    /\ ~dir
    /\ GiveUp(p)

\* _write_anchor() without a head opens the file of that name, waits for its
\* lock, and anchors its last event; an empty log is not anchored.
OpenForTail(p) ==
    /\ call[p].stage = "tail"
    /\ IF path = NoFile THEN Finish(p)
       ELSE call' = [call EXCEPT ![p].stage = "tailread", ![p].file = path]
    /\ UNCHANGED <<files, cache, used, acked, erased, crashes>>

ReadTail(p) ==
    /\ call[p].stage = "tailread"
    /\ LockFree(p)
    /\ LET head == TailHash(content[call[p].file]) IN
       IF head = Genesis THEN Finish(p)
       ELSE call' = [call EXCEPT ![p].stage = "anchor", ![p].id = head]
    /\ UNCHANGED <<files, cache, used, acked, erased, crashes>>

-----------------------------------------------------------------------------
(***************************************************************************)
(* Process death: the kernel drops the flock and closes what was open, and *)
(* a torn line may be left.                                                *)
(***************************************************************************)
Dies(p) ==
    /\ crashes < MaxCrashes
    /\ crashes' = crashes + 1
    /\ call[p] # Idle
    /\ holder' = [i \in Inodes |-> IF holder[i] = p THEN Nobody ELSE holder[i]]
    /\ anchor' = [file |-> Closed(p, anchor.file), temp |-> Closed(p, anchor.temp)]
    /\ Finish(p)
    /\ cache' = [cache EXCEPT ![p] = NoCache]
    /\ UNCHANGED <<dir, path, inodes, shard, sealed, used, acked, erased>>

Crash(p) == Dies(p) /\ UNCHANGED content

DieMidWrite(p) ==
    /\ TornWrites
    /\ call[p].stage = "lock"
    /\ LockFree(p)
    /\ ~sealed.there
    /\ Dies(p)
    /\ content' = [content EXCEPT ![call[p].file] = Glue(@, Damage("torn"))]

-----------------------------------------------------------------------------
AppendStep(p) ==
    \/ \E pair \in Pairs : AppendEvent(p, pair)
    \/ OpenToAppend(p)
    \/ AppendRefused(p)
    \/ WriteEvent(p)
    \/ WriteHitsFullDisk(p)
    \/ OpenAnchor(p)
    \/ WriteAnchor(p)
    \/ MoveAnchor(p)
    \/ AnchorFails(p)

PurgeStep(p) ==
    \/ \E pair \in Pairs : Purge(p, pair)
    \/ ReadSnapshot(p)
    \/ OpenToRewrite(p)
    \/ WriteShard(p)
    \/ ShardHitsFullDisk(p)
    \/ ReplaceLog(p)
    \/ PurgeFails(p)
    \/ OpenForTail(p)
    \/ ReadTail(p)

LogStep(p) == AppendStep(p) \/ PurgeStep(p) \/ Crash(p) \/ DieMidWrite(p)

\* Every call has returned, or the bound on files stops one.
Rest ==
    /\ inodes = MaxInodes \/ \A p \in Procs : call[p] = Idle
    /\ UNCHANGED vars

Next == (\E p \in Procs : LogStep(p)) \/ Rest

Spec == Init /\ [][Next]_vars

-----------------------------------------------------------------------------
TypeOK ==
    /\ dir \in BOOLEAN
    /\ path \in Inodes \cup {NoFile}
    /\ content \in [Inodes -> Seq(Line)]
    /\ inodes \in 0..MaxInodes
    /\ shard \in [there : BOOLEAN, lines : Seq(Line)]
    /\ anchor \in [file : AnchorFile, temp : AnchorFile]
    /\ holder \in [Inodes -> Procs \cup {Nobody}]
    /\ sealed \in [there : BOOLEAN, lines : Seq(Line), heads : Heads]
    /\ call \in [Procs -> Call]
    /\ cache \in [Procs -> [head : Ids \cup {Genesis}, size : Nat]]
    /\ used \in 0..MaxEvents
    /\ acked \subseteq Ids
    /\ erased \subseteq Ids
    /\ crashes \in 0..MaxCrashes

(***************************************************************************)
(* Every intact event is linked to the intact one before it, or follows a  *)
(* tombstone, at every moment: while purges replace the file under writers *)
(* that hold stale handles, writes run out of disk, and processes die half *)
(* way through a line.  Damage costs the events on the damaged lines only. *)
(***************************************************************************)
IntactEventsAreLinked == IntactLinked(Log)

(***************************************************************************)
(* Between calls verify_chain accepts an honest log: the links, and the    *)
(* anchor, which writers refresh out of order, in each other's file or,    *)
(* being killed, not at all.  It finds an anchor it cannot read only where *)
(* a process has died, or run out of disk, before it wrote what it opened. *)
(***************************************************************************)
HonestLogVerifies ==
    (\A p \in Procs : call[p] = Idle) =>
        /\ LinksVerify(Log)
        /\ \/ AnchorVerifies(Log, anchor.file.holds)
           \/ anchor.file.holds = Cut /\ (crashes > 0 \/ DiskMayFill)

(***************************************************************************)
(* What _write_anchor (891) says of itself, that a failure there "never    *)
(* breaks the append (the event is already durably written) -- verify      *)
(* tolerates a missing anchor": between calls verify_chain accepts an      *)
(* honest log, whoever died in the middle of anchoring. It does not hold   *)
(* (README, section 5): a cut-off anchor is not a missing one.             *)
(***************************************************************************)
AnchoringIsBestEffort ==
    (\A p \in Procs : call[p] = Idle) => VerifyChain(Log, anchor.file.holds)

(***************************************************************************)
(* An event a purge has removed does not come back, not even through a     *)
(* blob, as long as purges are left undisturbed.                           *)
(***************************************************************************)
ErasedStaysErased == erased \cap IdsIn(Log) = {}

(***************************************************************************)
(* With key pinning the first event of a chain is a registration, whoever  *)
(* wins the race to write first.                                           *)
(***************************************************************************)
RegistrationComesFirst ==
    Pinning /\ Log # <<>> => Log[1].kind = "registration"

(***************************************************************************)
(* The log does what it promises its callers.                              *)
(***************************************************************************)
Audit == INSTANCE AuditLog WITH log <- Log, acked <- acked

ImplementsAuditLog == Audit!AuditSpec
=============================================================================
