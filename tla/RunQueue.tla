------------------------------ MODULE RunQueue ------------------------------
(***************************************************************************)
(* The persistent workflow-run queue (queue.py) and the worker loop that   *)
(* drains it (worker.py).                                                  *)
(*                                                                         *)
(* Three things are on disk: queue.jsonl, an append-only journal of run    *)
(* entries; queue.state.json, the materialised latest entry of every run;  *)
(* and one lease file per leased run.  Every mutating call holds the flock *)
(* on .queue.lock, loads the state, and then writes the journal, the state *)
(* file and the lease file one after the other: each write is a step of    *)
(* its own here, because a process can die between two of them and because *)
(* the ownership check of the strict API reads the lease without the lock. *)
(*                                                                         *)
(* A run id is the instant of its enqueue, so "oldest" is "least".  What   *)
(* replaying the journal yields (the last entry of every run) stands for   *)
(* the journal; a lease is live or expired, the clock is the action Expire.*)
(***************************************************************************)
EXTENDS Integers, Sequences

CONSTANTS
    Workers,      \* processes running worker.py's loop
    Clients,      \* processes calling the queue's public functions
    ClientOps,    \* the public functions the clients use
    MaxRuns,      \* bound: how many run ids may be drawn
    Jobs,         \* (folder_path, workflow_name) pairs
    JobOf,        \* the job each run is an execution of
    Scope,        \* the jobs folder_allowed admits, per process
    Nobody,       \* no process
    MaxCrashes,   \* bound: how many process deaths
    StateLoss     \* whether queue.state.json may be lost or unreadable

Procs == Workers \cup Clients
Runs  == 1..MaxRuns
NoRun == 0

ASSUME RunQueueAssumption ==
    /\ Workers \cap Clients = {}
    /\ Nobody \notin Procs
    /\ ClientOps \subseteq {"enqueue", "take", "renew", "mark", "markStrict",
                            "cancel", "resume"}
    /\ MaxRuns \in Nat
    /\ JobOf \in [Runs -> Jobs]
    /\ Scope \in [Procs -> SUBSET Jobs]
    /\ MaxCrashes \in Nat
    /\ StateLoss \in BOOLEAN

Outcomes == {"done", "failed"}
Terminal == Outcomes \cup {"cancelled"}
Active   == {"pending", "leased"}
Entry    == [st : {"none"} \cup Active \cup Terminal, to : Procs \cup {Nobody}]
NoEntry  == [st |-> "none", to |-> Nobody]
Empty    == [r \in Runs |-> NoEntry]

Lease    == [holder : Procs \cup {Nobody}, live : BOOLEAN]
NoLease  == [holder |-> Nobody, live |-> FALSE]

Ops      == {"idle", "enqueue", "take", "cancel", "resume"} \cup Outcomes
Stages   == {"out", "owned", "revoke", "revoked", "append", "save", "lease", "effect"}
Call     == [op : Ops, run : Runs \cup {NoRun}, stage : Stages, strict : BOOLEAN]
Idle     == [op |-> "idle", run |-> NoRun, stage |-> "out", strict |-> FALSE]

VARIABLES
    journal,   \* queue.jsonl: the last entry appended for each run
    present,   \* queue.state.json exists and parses
    saved,     \* its content, meaningful while present
    lease,     \* leases/<run_id>.json, NoLease when there is no file
    lock,      \* the holder of the flock on .queue.lock
    mem,       \* the dictionary the lock holder loaded and edits
    todo,      \* entries the lock holder's revoke pass has still to visit
    call,      \* the call each process is executing
    work,      \* the run each worker is executing
    effects,   \* effect-observed events on the folder's chain, per run
    crashes    \* deaths so far

vars == <<journal, present, saved, lease, lock, mem, todo, call, work, effects, crashes>>

(***************************************************************************)
(* _load_state: the state file, or a replay of the journal without it.     *)
(***************************************************************************)
View == IF present THEN saved ELSE journal

\* Mutants: the expiry ignored; a missing lease file taken for an active lease.
Stale_Always(r) == TRUE
Stale_OnlyExpired(r) == lease[r] # NoLease /\ ~lease[r].live

\* _is_actively_leased, negated for a leased entry: no lease file, or expired.
Stale(r) == ~lease[r].live

Init ==
    /\ journal = Empty
    /\ present = FALSE
    /\ saved   = Empty
    /\ lease   = [r \in Runs |-> NoLease]
    /\ lock    = Nobody
    /\ mem     = Empty
    /\ todo    = {}
    /\ call    = [p \in Procs |-> Idle]
    /\ work    = [w \in Workers |-> NoRun]
    /\ effects = [r \in Runs |-> <<>>]
    /\ crashes = 0

-----------------------------------------------------------------------------
(***************************************************************************)
(* Entering and leaving a call                                             *)
(***************************************************************************)

\* Take the queue lock and load the state (a lock timeout is a call never made).
Acquire(p, op, r, stage, strict) ==
    /\ lock = Nobody
    /\ lock' = p
    /\ mem' = View
    /\ call' = [call EXCEPT ![p] =
                  [op |-> op, run |-> r, stage |-> stage, strict |-> strict]]

\* Leave the lock; the loaded dictionary goes with the call.
Release == lock' = Nobody /\ mem' = Empty

Disk == <<journal, present, saved, lease>>

\* The call returns; a worker whose finishing call returns is done with its run.
Return(p) ==
    /\ call' = [call EXCEPT ![p] = Idle]
    /\ work' = IF p \in Workers /\ call[p].op # "take"
               THEN [work EXCEPT ![p] = NoRun] ELSE work

At(c, run, stage) == [op |-> c.op, run |-> run, stage |-> stage, strict |-> c.strict]
Advance(p, stage) == call' = [call EXCEPT ![p] = At(call[p], call[p].run, stage)]

May(p, op) == p \in Clients /\ op \in ClientOps /\ call[p] = Idle

\* Mutant: the duplicate check looks at queued runs and forgets running ones.
EnqueueRun_PendingOnly(p, r) ==
    /\ May(p, "enqueue")
    /\ \A q \in Runs : journal[q].st # "none" => q < r
    /\ \A q \in Runs : JobOf[q] = JobOf[r] => View[q].st # "pending"
    /\ Acquire(p, "enqueue", r, "append", FALSE)
    /\ UNCHANGED <<Disk, todo, work, effects, crashes>>

\* enqueue_run: a fresh id, refused while the job has a non-terminal run.
EnqueueRun(p, r) ==
    /\ May(p, "enqueue")
    /\ \A q \in Runs : journal[q].st # "none" => q < r
    /\ \A q \in Runs : JobOf[q] = JobOf[r] => View[q].st \notin Active
    /\ Acquire(p, "enqueue", r, "append", FALSE)
    /\ UNCHANGED <<Disk, todo, work, effects, crashes>>

\* take_next_run, up to the start of its revoke pass over the leased entries.
TakeNextRun(p) ==
    /\ \/ May(p, "take")
       \/ p \in Workers /\ call[p] = Idle /\ work[p] = NoRun
    /\ Acquire(p, "take", NoRun, "revoke", FALSE)
    /\ todo' = {r \in Runs : View[r].st = "leased" /\ JobOf[r] \in Scope[p]}
    /\ UNCHANGED <<Disk, work, effects, crashes>>

\* The revoke pass visits one leased entry: a stale one goes back to pending.
RevokeOne(p, r) ==
    /\ lock = p
    /\ call[p].stage \in {"revoke", "revoked"}
    /\ r \in todo
    /\ todo' = todo \ {r}
    /\ IF Stale(r)
       THEN /\ mem'     = [mem EXCEPT ![r] = [st |-> "pending", to |-> Nobody]]
            /\ journal' = [journal EXCEPT ![r] = [st |-> "pending", to |-> Nobody]]
            /\ lease'   = [lease EXCEPT ![r] = NoLease]
            /\ Advance(p, "revoked")
       ELSE UNCHANGED <<mem, journal, lease, call>>
    /\ UNCHANGED <<present, saved, lock, work, effects, crashes>>

\* The pass is over: save if it revoked, then pick the oldest pending run.
Pending(p)     == {r \in Runs : mem[r].st = "pending" /\ JobOf[r] \in Scope[p]}
IsOldest(p, r) == r \in Pending(p) /\ \A q \in Pending(p) : r <= q

PickOldest(p) ==
    /\ lock = p
    /\ call[p].stage \in {"revoke", "revoked"}
    /\ todo = {}
    /\ IF call[p].stage = "revoked"
       THEN saved' = mem /\ present' = TRUE
       ELSE UNCHANGED <<saved, present>>
    /\ \/ Pending(p) = {} /\ Release /\ Return(p)
       \/ /\ \E r \in Runs : /\ IsOldest(p, r)
                            /\ call' = [call EXCEPT ![p] = At(call[p], r, "append")]
          /\ UNCHANGED <<lock, mem, work>>
    /\ UNCHANGED <<journal, lease, todo, effects, crashes>>

\* renew_lease: whoever asks, whatever the age of the lease.
RenewLease(p, r) ==
    /\ May(p, "renew")
    /\ lock = Nobody
    /\ View[r].st = "leased"
    /\ lease[r] # NoLease
    /\ lease' = [lease EXCEPT ![r] = [holder |-> lease[r].holder, live |-> TRUE]]
    /\ UNCHANGED <<journal, present, saved, lock, mem, todo, call, work, effects, crashes>>

\* mark_run_done / mark_run_failed: _assert_lease_owned reads the lease with
\* no lock held; otherwise LeaseStolen, and nothing happens.
AssertLeaseOwned(p, r, outcome) ==
    /\ May(p, "markStrict")
    /\ lease[r] = [holder |-> p, live |-> TRUE]
    /\ call' = [call EXCEPT ![p] =
                  [op |-> outcome, run |-> r, stage |-> "owned", strict |-> TRUE]]
    /\ UNCHANGED <<Disk, lock, mem, todo, work, effects, crashes>>

\* Any process may reach _finalise: a strict call past its check, mark_done /
\* mark_failed without a worker_id, and the worker loop when its run ends.
MayFinalise(p, r, outcome) ==
    \/ call[p] = [op |-> outcome, run |-> r, stage |-> "owned", strict |-> TRUE]
    \/ May(p, "mark")
    \/ p \in Workers /\ call[p] = Idle /\ work[p] = r

\* Mutant: a run that is already terminal is finalised again.
Finalise_Again(p, r, outcome) ==
    /\ MayFinalise(p, r, outcome)
    /\ View[r].st # "none"
    /\ Acquire(p, outcome, r, "append", call[p].strict)
    /\ UNCHANGED <<Disk, todo, work, effects, crashes>>

\* _finalise: a terminal or unknown run returns False, any other is accepted.
Finalise(p, r, outcome) ==
    /\ MayFinalise(p, r, outcome)
    /\ View[r].st \in Active
    /\ Acquire(p, outcome, r, "append", call[p].strict)
    /\ UNCHANGED <<Disk, todo, work, effects, crashes>>

FinaliseRefused(p, r, outcome) ==
    /\ MayFinalise(p, r, outcome)
    /\ lock = Nobody
    /\ View[r].st \notin Active
    /\ Return(p)
    /\ UNCHANGED <<Disk, lock, mem, todo, effects, crashes>>

\* cancel_run: any non-terminal run.
CancelRun(p, r) ==
    /\ May(p, "cancel")
    /\ View[r].st \in Active
    /\ Acquire(p, "cancel", r, "append", FALSE)
    /\ UNCHANGED <<Disk, todo, work, effects, crashes>>

\* resume_run: any leased run, whether or not its lease is stale.
ResumeRun(p, r) ==
    /\ May(p, "resume")
    /\ View[r].st = "leased"
    /\ Acquire(p, "resume", r, "append", FALSE)
    /\ UNCHANGED <<Disk, todo, work, effects, crashes>>

-----------------------------------------------------------------------------
(***************************************************************************)
(* The writes every mutating call makes under the lock, in this order      *)
(***************************************************************************)

\* The status a call writes: the outcome of a finishing call is its name.
Written(op) ==
    IF op \in {"enqueue", "resume"} THEN "pending"
    ELSE IF op = "take" THEN "leased"
    ELSE IF op = "cancel" THEN "cancelled" ELSE op

\* The entry a call writes.  Finishing and cancelling leave leased_to alone.
NewEntry(p) ==
    [st |-> Written(call[p].op),
     to |-> IF call[p].op = "take" THEN p
            ELSE IF call[p].op \in {"enqueue", "resume"} THEN Nobody
            ELSE mem[call[p].run].to]

\* Mutant: terminal entries reach the state file only.
AppendQueueEvent_NotTerminal(p) ==
    /\ lock = p
    /\ call[p].stage = "append"
    /\ IF call[p].op \in Outcomes THEN UNCHANGED journal
       ELSE journal' = [journal EXCEPT ![call[p].run] = NewEntry(p)]
    /\ mem' = [mem EXCEPT ![call[p].run] = NewEntry(p)]
    /\ Advance(p, "save")
    /\ UNCHANGED <<present, saved, lease, lock, todo, work, effects, crashes>>

AppendQueueEvent(p) ==
    /\ lock = p
    /\ call[p].stage = "append"
    /\ journal' = [journal EXCEPT ![call[p].run] = NewEntry(p)]
    /\ mem'     = [mem EXCEPT ![call[p].run] = NewEntry(p)]
    /\ Advance(p, "save")
    /\ UNCHANGED <<present, saved, lease, lock, todo, work, effects, crashes>>

SaveState(p) ==
    /\ lock = p
    /\ call[p].stage = "save"
    /\ saved' = mem
    /\ present' = TRUE
    /\ IF call[p].op = "enqueue"
       THEN Release /\ Return(p)
       ELSE Advance(p, "lease") /\ UNCHANGED <<lock, mem, work>>
    /\ UNCHANGED <<journal, lease, todo, effects, crashes>>

\* Mutant: resuming leaves the lease file behind.
WriteOrDropLease_ResumeKeeps(p) ==
    /\ lock = p
    /\ call[p].stage = "lease"
    /\ Release
    /\ lease' = [lease EXCEPT ![call[p].run] =
                    CASE call[p].op = "take"   -> [holder |-> p, live |-> TRUE]
                      [] call[p].op = "resume" -> @
                      [] OTHER                 -> NoLease]
    /\ IF call[p].op \in Outcomes
       THEN Advance(p, "effect") /\ UNCHANGED work
       ELSE /\ call' = [call EXCEPT ![p] = Idle]
            /\ work' = IF p \in Workers
                       THEN [work EXCEPT ![p] = call[p].run] ELSE work
    /\ UNCHANGED <<journal, present, saved, todo, effects, crashes>>

\* take writes the lease file, the others drop it; the lock is released.
WriteOrDropLease(p) ==
    /\ lock = p
    /\ call[p].stage = "lease"
    /\ Release
    /\ IF call[p].op = "take"
       THEN lease' = [lease EXCEPT ![call[p].run] = [holder |-> p, live |-> TRUE]]
       ELSE lease' = [lease EXCEPT ![call[p].run] = NoLease]
    /\ IF call[p].op \in Outcomes
       THEN Advance(p, "effect") /\ UNCHANGED work
       ELSE /\ call' = [call EXCEPT ![p] = Idle]
            /\ work' = IF p \in Workers
                       THEN [work EXCEPT ![p] = call[p].run] ELSE work
    /\ UNCHANGED <<journal, present, saved, todo, effects, crashes>>

\* _journal_effect: outside the lock, best effort.
JournalEffect(p) ==
    /\ call[p].stage = "effect"
    /\ \/ effects' = [effects EXCEPT ![call[p].run] = Append(@, call[p].op)]
       \/ UNCHANGED effects
    /\ Return(p)
    /\ UNCHANGED <<Disk, lock, mem, todo, crashes>>

-----------------------------------------------------------------------------
(***************************************************************************)
(* Time, process death, and the loss of the state file                     *)
(***************************************************************************)

Expire(r) ==
    /\ lease[r].live
    /\ lease' = [lease EXCEPT ![r] = [holder |-> lease[r].holder, live |-> FALSE]]
    /\ UNCHANGED <<journal, present, saved, lock, mem, todo, call, work, effects, crashes>>

\* The kernel drops a dead process's flock; a restarted process knows nothing.
Crash(p) ==
    /\ crashes < MaxCrashes
    /\ crashes' = crashes + 1
    /\ call[p] # Idle \/ (p \in Workers /\ work[p] # NoRun)
    /\ IF lock = p THEN Release /\ todo' = {} ELSE UNCHANGED <<lock, mem, todo>>
    /\ call' = [call EXCEPT ![p] = Idle]
    /\ work' = IF p \in Workers THEN [work EXCEPT ![p] = NoRun] ELSE work
    /\ UNCHANGED <<Disk, effects>>

\* Between two calls the state file may turn out missing or unreadable.
LoseStateFile ==
    /\ StateLoss
    /\ present
    /\ lock = Nobody
    /\ present' = FALSE
    /\ saved' = Empty
    /\ UNCHANGED <<journal, lease, lock, mem, todo, call, work, effects, crashes>>

-----------------------------------------------------------------------------
OnRun(p, r) ==
    \/ EnqueueRun(p, r)
    \/ RevokeOne(p, r)
    \/ RenewLease(p, r)
    \/ CancelRun(p, r)
    \/ ResumeRun(p, r)
    \/ \E outcome \in Outcomes :
          \/ AssertLeaseOwned(p, r, outcome)
          \/ Finalise(p, r, outcome)
          \/ FinaliseRefused(p, r, outcome)

Step(p) ==
    \/ TakeNextRun(p)
    \/ PickOldest(p)
    \/ AppendQueueEvent(p)
    \/ SaveState(p)
    \/ WriteOrDropLease(p)
    \/ JournalEffect(p)
    \/ Crash(p)
    \/ \E r \in Runs : OnRun(p, r)

Next ==
    \/ \E p \in Procs : Step(p)
    \/ \E r \in Runs : Expire(r)
    \/ LoseStateFile

Spec == Init /\ [][Next]_vars

(***************************************************************************)
(* Fairness.  A process inside the lock runs to the end of its section or  *)
(* dies; a worker that polls for the lock every 20 ms gets it sooner or    *)
(* later, since the sections are a few file writes; a worker's workflow    *)
(* comes to an end; and time passes.  Clients call when they please.       *)
(***************************************************************************)
InsideLock(p) ==
    \/ \E r \in Runs : RevokeOne(p, r)
    \/ PickOldest(p)
    \/ AppendQueueEvent(p)
    \/ SaveState(p)
    \/ WriteOrDropLease(p)

WorkerEnds(w) ==
    \E r \in Runs, outcome \in Outcomes :
        Finalise(w, r, outcome) \/ FinaliseRefused(w, r, outcome)

Fairness ==
    /\ \A p \in Procs : WF_vars(InsideLock(p)) /\ WF_vars(JournalEffect(p))
    /\ \A w \in Workers : SF_vars(TakeNextRun(w)) /\ SF_vars(WorkerEnds(w))
    /\ \A r \in Runs : WF_vars(Expire(r))

FairSpec == Spec /\ Fairness

-----------------------------------------------------------------------------
TypeOK ==
    /\ journal \in [Runs -> Entry]
    /\ present \in BOOLEAN
    /\ saved \in [Runs -> Entry]
    /\ lease \in [Runs -> Lease]
    /\ lock \in Procs \cup {Nobody}
    /\ mem \in [Runs -> Entry]
    /\ todo \subseteq Runs
    /\ call \in [Procs -> Call]
    /\ work \in [Workers -> Runs \cup {NoRun}]
    /\ effects \in [Runs -> Seq(Outcomes)]
    /\ crashes \in 0..MaxCrashes

(***************************************************************************)
(* Rule D of the queue's design: a (folder, workflow) pair never has two   *)
(* non-terminal runs, however calls interleave and processes die.          *)
(***************************************************************************)
OneActiveRunPerJob ==
    \A q, r \in Runs :
        View[q].st \in Active /\ View[r].st \in Active /\ JobOf[q] = JobOf[r] => q = r

(***************************************************************************)
(* The effect ledger can be reconciled with the queue: a run has at most   *)
(* one effect-observed event on its folder's chain, and it names the       *)
(* outcome the queue holds, even when several workers executed the run.    *)
(***************************************************************************)
EffectsAgreeWithQueue ==
    \A r \in Runs :
        /\ Len(effects[r]) <= 1
        /\ effects[r] # <<>> => View[r].st = effects[r][1]

(***************************************************************************)
(* A finished or cancelled run never changes again and no accepted run     *)
(* disappears: not through a zombie worker, a crash between two writes, or *)
(* the loss of the state file.                                             *)
(***************************************************************************)
RunsAreNeverRevived ==
    [][\A r \in Runs :
         /\ View[r].st \in Terminal => View'[r] = View[r]
         /\ View[r].st # "none" => View'[r].st # "none"]_vars

(***************************************************************************)
(* Outside the critical sections a live lease belongs to the process the   *)
(* queue says the run is leased to (one process death at most).            *)
(***************************************************************************)
LiveLeaseNamesTheLessee ==
    \A r \in Runs :
        lock = Nobody /\ View[r].st = "leased" /\ lease[r].live
            => lease[r].holder = View[r].to

(***************************************************************************)
(* A live lease is not taken from the worker the run is leased to: it ends *)
(* by expiring or because somebody finished, cancelled or resumed that     *)
(* very run.                                                               *)
(***************************************************************************)
LiveLeaseIsRespected ==
    [][\A r \in Runs :
         lease[r].live /\ View[r].st = "leased" /\ View[r].to = lease[r].holder
         /\ lease'[r] # lease[r] =>
             \/ lease'[r] = [lease[r] EXCEPT !.live = FALSE]
             \/ \E p \in Procs : lock = p /\ call[p].run = r
                                 /\ call[p].op \in Outcomes \cup {"cancel", "resume"}]_vars

(***************************************************************************)
(* Every run the queue holds reaches a terminal state: a dead worker's     *)
(* lease expires and another worker replays the run.                       *)
(***************************************************************************)
EveryRunEnds ==
    \A r \in Runs : View[r].st # "none" ~> View[r].st \in Terminal
=============================================================================
