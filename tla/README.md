# RVND: a verification project

RVND keeps a governed, tamper-evident memory per folder: what people and
agents do is appended to a hash-chained log, workflows run from a queue,
folders can be sealed at rest, and subjects can be erased. The claims RVND
makes to its users ("nothing accepted is lost", "a purge leaves a chain that
verifies", "one run per workflow", "a pending erasure is never dropped") are
claims about several processes that share a few files, and about processes
that are killed between two writes. That is what these modules model.

All paths below are relative to `server/src/rvnd/` of the repository.

## 1. The system

| Component | State | Operations | What is hard |
|---|---|---|---|
| **Run queue** `queue.py` | `queue.jsonl` (append only), `queue.state.json` (a cache of it), one lease file per run | enqueue, take, renew, finish (checked and unchecked), cancel, resume | four writes per call, each of which can be the last; leases that expire under their holder; a state file that may be missing |
| **Worker** `worker.py` | the run in its hands | take, run, finish | zombies: a worker whose lease was stolen still finishes |
| **Mutation log** `mutation_log.py` | `events.jsonl`, `events.anchor`, a shard file, a tail cache per process | append, purge, verify, key registration | `flock` belongs to an inode and a purge replaces the inode; the anchor is written outside the lock; full disks, torn lines |
| **Seal** `seal.py` | the `.sealed` blob beside the log directory | seal, unseal | checks made before the lock; `unseal` takes none; death between two steps |
| **Pending erasure** `pending_erase.py` | the ledger of markers beside the blob | arm, verify, apply, drop | a marker belongs to one blob, arming and unsealing are not exclusive |
| **Decision queue** `decisions/queue.py`, `decision_record` in `mcp_impl.py` | `pending.jsonl` per folder: state, lease, seats, records, links of each decision; choices on the log | open, claim, release, seat, link, record, resolve, close | a file every request reads when it starts and rewrites as a whole, without a lock; expiry; several writes per record |
| **Erasure** `erasure.py`, `forgotten_subjects.py`, `inbox_watcher.py` | the forgotten-subjects ledger, erasure records on the log, the surfaces a sweep found | sweep, discover, guard, arm, purge, mirror, record; ingest with and without the guard | ingestion between sweep and guard; sealing at any point; a death or a full disk half way; a retry of a request that died |
| **Parties, control forms, approvals** `parties.py`, `controlforms.py`, `approvals.py` | events of one log, replayed | register, set status; compose forms; request, decide, delegate, resolve, effect | read, decide, append: others append in between; time passes between two looks |
| **Workflows and packs** `workflows.py`, `juris_packs.py` | the chain of a run: steps, sign-offs, requests | gate, replay, open a request, judge the form, dispatch with retries, end | two executions of one run share its requests; a runner dies after any append; packs change under a run |
| **Admission and operation** `session_admission.py`, `session_capability.py`, `operations.py`, `governance_lane.py`, `use_case.py`, `guardian.py` | lanes, use cases and parties on the log; a revocation file; the journal of runs | open a session, ask every question of admission, decide each issue, journal; revoke, replace a lane, pause | every question is a replay of its own, and writers act on what they read before |
| Breaker `breaker.py` | a lease and a latch in the memory of one process | renew, trip, clear | a latch of one object; nothing concurrent |
| Contracts `contracts/` | a register file, reviews and sign-offs on the log | register, supersede, review, sign | a sign-off tallied from a replay before it |
| Policy, action gate, governance views `policy*.py`, `action_gate.py`, `governance*.py` | none between calls | decide | precedence rules (pure) |
| Everything else | see `PROJECT.json` | text analysis, retrieval, adapters, command line, user interface | nothing concurrent |

The components meet in files. The worker drives the queue, and the queue
writes a run's outcome on the log of the run's folder (`_journal_effect`).
Approvals, workflows, decisions and operation write to the log and replay it;
a workflow step that a pack puts under a form asks for it through `approvals.py`.
`seal_folder` packs the log's directory while appenders hold or await its
lock; `unseal_folder` hands the markers of `pending_erase.py` to `purge`; an
erasure finds the folder open, sealed or changing from one to the other.

### What makes each component correct

* Queue: a (folder, workflow) pair has one active run; a finished run is final,
  an accepted run is never forgotten; a run has at most one effect on the
  ledger and it agrees with the queue; a live lease is respected; every run ends.
* Log: appends are sequential, linked, durable once acknowledged; a purge
  removes one pair's events and nothing else and leaves a chain that verifies.
* Seal: whether a folder is sealed does not show in its log.
* Pending erasure: an erasure reported as queued is applied, still pending, or
  reported as failed.
* Erasure: a clean report is true; every erasure is on record once; what a
  failed step leaves behind is known to somebody.
* Decision queue: where requests follow each other a decision is decided once; a
  panel chooses what its rule allows, splits when it cannot concord any more and
  never hangs; a link works once.
* Approvals: who approved was entitled to, is not the requester, and enough of
  them did; a denial and a deadline are final; forms only get stricter when
  packs are stacked.
* Workflows: where the packs demand hands a step is dispatched on a request made
  for it that has as many approvals, given in time, as that form needs (or that
  lets silence proceed), and elsewhere, where the gate asks for one, on a sign-off of
  that very step; an execution ends as its steps did, and ends.
* Operation: what stood against a call before it came in refuses it; what runs
  unattended has a grade for it and is reserved to nobody, as far as the tags could
  be read; the journal tells what happened.

## 2. Modules

```
EventChain        the lines of a log and the pure functions over them
  AuditLog        what a log promises its callers (abstract)
  MutationLog     mutation_log.py, implements AuditLog
    MutationLogProofs
    SealedLog     seal.py beside it, implements AuditLog too
      SealedLogProofs
PendingErase      pending_erase.py and its callers in seal.py, erasure.py
  Erasure         the whole of execute, and ingestion, around it
  ErasureProofs
DecisionQueue     decisions/queue.py and decision_record
  DecisionQueueProofs
RunQueue          queue.py and worker.py
  RunQueueProofs
ControlForms      controlforms.py: forms of human control as sets of guarantees
Parties           parties.py
  Approvals       approvals.py over Parties and ControlForms
    Workflows     workflows.py and juris_packs.py over Approvals
    ApprovalsProofs, WorkflowsProofs
  Operations      admission and operate over Parties
    OperationsProofs
MC*               instances for TLC
```

**RunQueue.** `journal`, `saved`, `present` and `lease` are the three files; `lock`
is the queue's `flock`, `mem` and `todo` are what the lock holder has loaded
and which runs it still has to revoke, `call` is where each process is in which
operation. Each write of the code is a step of its own: `AppendQueueEvent`,
`SaveState`, `WriteOrDropLease`, `JournalEffect`; a process may die before any
of them (`Crash`). `View` is what `_load_state` returns: the state file if it
is present, the replayed journal otherwise. `mark_done` of the worker and
`mark_run_done` of the MCP tools differ in `AssertLeaseOwned`, which reads the
lease before the lock is taken, as `_assert_lease_owned` does. `Expire` lets
time pass for one lease; the 20 ms polling for the lock is waiting.
A lease revocation and its journal line are one step (`RevokeOne`), since
nobody reads the leases outside the lock but `AssertLeaseOwned`, which treats a
revoked lease like a missing one.

**EventChain.** An event's canonical hash covers neither `prev_hash` nor
`signature`, and its `audit_id` and `ts` make it unique; so an id stands for an
event's hash and relinking keeps it. A torn line has no newline: `Glue` puts
the next line onto it, and the result parses as nothing. `CutBack` is `ftruncate`, which
fills a file up when it has become shorter than the size asked for; what it fills in parses as
nothing either. `Survivors` is what a purge keeps, at the positions `LinesAt`. `LinksVerify` and
`AnchorVerifies` are the layers of `verify_chain`; signatures are left out, as
every event is signed and nobody tampers.

**MutationLog.** `path` is the inode `events.jsonl` names and `content` the
lines of every inode, `holder` its `flock`. `append` is: entry checks and
registration (`AppendEvent`), open (`OpenToAppend`), locked write with the tail
read under the lock (`WriteEvent`, `WriteHitsFullDisk`), anchor, return.
`purge` is: snapshot under a first lock (`ReadSnapshot`), rewrite of the
snapshot under a second (`WriteShard`, `ReplaceLog`), and the anchor of whatever
is last by then (`OpenForTail`, `ReadTail`). The anchor is written outside any lock and
through one temporary file that all processes share: `OpenAnchor` truncates it,
`WriteAnchor` writes the file it has open, wherever that has been moved meanwhile, `MoveAnchor` puts
whatever the temporary file holds into place, if it is there, and `AnchorFails` is a directory
that is gone or a full disk. `anchor` therefore has the two files, each with the head it holds, or `Cut` while it is
truncated, and with who has it open. What a call does
under the lock without leaving it is one step. `LongLived` processes keep a
`MutationLog` and its tail cache between calls. Sizes are line counts, which
makes an accidental equality of sizes likelier than bytes do.

**AuditLog** is the promise: `Write` and `Erase` are atomic, `Acknowledge` comes
after the event is in the log.

**SealedLog** adds `seal.py`: seal is check, open, lock and snapshot, blob,
remove; unseal is check and read, mkdir, files, unlink; and the constructor's
check and mkdir. The blob packs the anchor's two files as they are (`HeadsNow`), and a
restore puts new ones in their place (`Restored`). `Memory` is the log in the directory
or else in the blob, and refines the same `AuditLog`.

**PendingErase.** A blob is a number, since every seal is salted afresh, and a
marker is bound to one. The matcher is abstracted to the set of subjects the
log (`data`) and its mirrors (`mirror`: versum records, drafts, cards) mention.
`Discover`, `ReadBlob`, `ArmMarker` are the steps of `execute` and `arm_marker`,
`VerifyMarkers`, `Restore`, `ApplyMarker`, `ApplyFails`, `DropApplied` those of
`unseal_folder` and `apply_markers`. The matcher reads the mirror's texts first and swallows a read
that fails: `ApplyMarker` then leaves the records whose text is there (`Unread`), the marker
counts as applied, and the history `unseen` keeps the subject. One process unseals at a time.

**Erasure** extends PendingErase with the calls around the marker. `exec` is where
each process is in `execute`: read the texts in the mirror (`Start`, or `StartUnread` when
that read fails and is swallowed), look at the log and at the seal (`SweepLog`,
`SweepSurfaces`: two looks, two steps), discover, register the subject with the guard, arm,
purge, blank the mirrors, scrub the files, record. Whether the request was already executed, whether a
purge is refused because the folder was sealed meanwhile, and what is reported
follow the code's order; a death leaves the rest undone and a later execute of
the same request finds what the first one recorded. Ingestion is
`ingest_file`, which asks the guard (`CheckGuard`), and the inbox watcher, which
does not (`PickUp`); both then write the copy to the mirror (`RememberBody`) and the event
after it (`RememberEvent`), which a seal may refuse or a death prevent (`RememberFails`):
`copied` and `halted` are the ingesters in between and those whose event never came. A purged subject may have one second record in the same
log, so that an erasure can be partial. The histories `recorded`, `unrecorded`,
`empties` and `lapsed` remember what was done and told; `owed` is what a clean
report promises, `sight` what the sweep could read. A marker applied by an unseal takes
second records with it too. The purges of an execute are one step, so that those of two do not overlap.

**DecisionQueue** follows one decision from open to decided. `file` is its entry in
`pending.jsonl`, `copy` what each call has in memory since it began (`Load`), and
every write puts the whole copy back. `Refreshed` is `get` (expiry, escalation).
`Claim` and `InvalidateLinks`, and in `decision_record` the steps `Record` or
`RecordSeat`, `PanelMeets` / `PanelSplits` / `PanelWaits`, `Choose`, `SpendLink`,
`Close`, are the writes of one request in their order; it may die between any two.
`choices` are the `residual-decision` events on the log; an append that fails is
noted in the answer and the decision closed without one (`ChooseUnrecorded`). With one member in
`Callers` requests follow each other; with two they overlap, as they do on the
threads of the bridge.

**ControlForms** gives each of the forms of `controlforms.py` the set of guarantees
it contains; `Leq` is containment, `Compose` the weakest form that contains
both, `ComposeAll` the fold over a stack, `HandsOf` how many people a form needs.

**Parties** replays the registry: `party` is each party's latest kind, status and
competences. Registering again keeps a status that stops the party.

**Approvals** keeps the events of the chain that concern requests: `request`,
`decisions`, `delegations`, `elapsed`. A call takes time: it reads the chain
(`call[c]` holds what it saw), checks, and appends, and others append in
between. `Resolve` is `resolve_approval`, a pure function of the chain, the
registry and the clock; `effect_approval` is judge, look for the effect,
record. The histories `held` and `told` remember which competence a registration ever
gave to whom, and which requests an effecter was told may proceed on silence.

**Workflows** adds the runner. `exec` is one execution per runner, `view` the chain as
it replayed it for the step at hand. `GateStep`, `ReplayChain`, `OpenRequest`, `JudgeForm`, `Dispatch`
and `EndRun` follow `run_workflow`; `RunnerDies` may come between any two. The
form a step needs is `ComposeAll` over the packs declared for the folder and its
ancestors, read when the step is reached. The request for a step has a name made
from run and step, so that every execution of the run uses the same one.
The gate's verdict and what a step threads from another are parameters of the plan.

**Operations** has one step for each question of admission, since each is a replay
or a file read of its own: `CheckAgent`, `CheckToken`, `CheckLane`, `ReadUseCase`,
`CheckPermitted`, `CheckStatus`, and for the budget `ReadCap` and `CheckSpend`, between which the
cap may change and the spend rise (`SpendCents`) or fall (`DeleteCapture`). An admitted
run reads the connectors, whose tags join the use case's own (`ReadConnectors`), or warns that it could
not and goes on with the latter (`ConnectorsUnreadable`); then each issue is a step and an event, the
reservation of a run without issues is one (`ReserveAct`), and the outcome another. `journal` is the
runs as `runs_for` projects them. `write` is a writer between its reads and its append: `revoke_agent`
(which reads twice: `RevokeAgent`, `CarryForward`, `AppendRevision`), `register_lane`,
`guardian_act`. The histories `met` and `seen` are the demands that held, and the budget, spend, use
case and connectors there were, at the moments of the call.

## 3. What the runs check

| Run | Instance | Shows |
|---|---|---|
| `queue_core` | 1 worker, 1 client with every operation but only one job in its scope, 3 runs of 2 jobs, 1 death | one active run per job, effects reconcile, leases name the lessee and are respected |
| `queue_survives` | 2 workers, 1 client, 2 runs, 1 death, the state file lost any number of times | no run is revived, from the journal alone; every run ends |
| `log_append` | 3 appenders (2 with a cache), key pinning, 5 events, 1 death | the log implements `AuditLog`, verifies at rest but for an anchor that a dead process had truncated, begins with a registration |
| `seal` | one process appends, purges with nothing beside it, unseals and constructs, the other seals; full disk, 4 events, 4 files, 2 deaths | no event is lost, erased ones stay erased, sealing is invisible |
| `seal_purge` | both processes seal and append, one of them purges, unseals and constructs too; full disk, torn lines, 3 events, 3 files, 1 death | intact events stay linked, in the directory and in the blob, even without mutual exclusion |
| `erasure` | 1 subject, 2 executes by 2 processes, 1 ingester of either kind, 2 seals (the second while executes do not overlap), 2 markers, 1 death or unread mirror | no queued erasure is dropped, one marker per erasure, every erasure is on record and an empty one once, what mirrors keep is known, a clean report is true (the first and the last but for what an unread mirror hides) |
| `erasure_v_watcher` | the same with the inbox watcher only | *violation*: a forgotten subject is ingested again |
| `decisions` | 3 reviewers and the raiser, 2 options, no panel or one of 3 panels, requests one after the other, 1 link, 2 ticks, 1 death | decided once, by the panel's rule; splits only when hopeless; never stuck; a link works once |
| `decisions_v_lease` | two requests at once, 2 reviewers and the raiser, no panel, no death | *violation*: a choice is recorded under the live claim of another party |
| `approvals` | a caller that requests, decides and delegates beside one that effects; 3 parties, 2 kinds of request, 3 events, 1 change of the registry, 2 ticks | approvals rest on entitled hands, an elapse is on record before it is acted on, denials absorb, deadlines are final |
| `workflows` | 2 runners and 1 decider, a plan of 3 steps (forbidden, under packs, in need of a sign-off and threading another), packs that change once, 2 executions, 2 ticks | steps are dispatched on an approval or their own sign-off, a run ends as its steps did, executions end |
| `operate` | 1 operator, 2 writers, 1 agent, 1 session, 1 run of 2 issues or none, 5 use cases, a budget of 1, none or unreadable, 2 changes, 2 ticks, deaths | what stood before the call binds, the journal tells the run, unattended steps are earned, stops are lifted by people, lanes never go back |

**Bounds.** Two processes are enough for every race above since each is between
one reader or writer of stale state and one that changes it; the third appender
is there because a cached tail is only wrong after somebody else's append, and
the anchor order needs two. Three runs give two of one job and one out of the
client's scope. In the seal run a purge needs a survivor beside the erased event;
a file per purge and one for the log, hence the bound on
inodes. One death suffices where a second would only repeat the first; the seal
run has two so that a restore after a killed seal can be killed as well.
A lease lasts one tick and the clock has two, so that a lease can run out and be
taken again; three reviewers fill a panel of three and leave one outside a panel
of two; a longer clock and a second link (1.6 million states) add nothing.
Erasure has one subject because subjects meet only in the ledger, where the
proofs hold for any number; a second execute is what a retry or a rival is, a
second seal what makes a marker stale, and one second record makes a partial
purge. All at once are 12.6 million states, so the constraint `Bound` leaves the second seal to
executes that do not overlap (3.7 million); the theorems have no such bound. A mirror that cannot be
read counts against the same bound as a death. In the approvals run one request suffices: requests
share only the registry, whose one change is what a decision made before it
needs to be stale; the longer histories are left to the proofs. The plan has a step of
each kind the runner tells apart, and two executions are a rerun as well as a
rival. In the operate run two changes are one that takes an authority away and one that
gives it back, a cap that falls under a spend that falls too, or two writers that overtake each
other; writers are alike and so are a lane's terms, hence the symmetry (4.6 million states).
The two seal runs are explored under the view `AnchorAside`, which leaves out what the anchor's files
hold and who has them open: no guard but the anchor's own moves, no other variable and no
property checked there depends on it.
When the bound on files or runs stops a call the model stutters (`Rest`) in the queue and log
modules, so that deadlock stays checked. It is off in `erasure`, `approvals`,
`workflows` and `operate`: there the system really rests, idle with everything asked,
decided and run, or with a marker every unseal refuses.

**Fairness.** `RunQueue!FairSpec`: a process inside the lock runs to the end of
its section or dies (weak). A worker polls for the lock every 20 ms and sections
are a few file writes, so it is served infinitely often and gets it (strong).
Leases expire because time passes (weak). Clients promise nothing, and how often
they resume a run is bounded only by the run ending. The workflow a worker
executes is assumed to return. `WorkflowSpec`: a runner is a loop in one thread that
waits for nobody, so a live one takes its next step (weak, per runner); it may
still die at any point, and the people who decide promise nothing.

## 4. What is proved

`RunQueueProofs` proves, for any processes, jobs, runs and bounds:

* `TypeCorrect`: `TypeOK`.
* `FinishedRunsAreFinal`: `RunsAreNeverRevived`, even with the state file lost.
* `EffectLedgerReconciles`: `EffectsAgreeWithQueue`.
* `OneRunAtATime`: `OneActiveRunPerJob`, assuming the state file is never lost.
  (With a lost state file it is false; see section 5.)

The argument: `StepKind` sorts every step into a few kinds (load, append,
save, finish, and so on) by what it does to the view, the loaded copy and the
journal. The order `Below` on entries says that a terminal entry is above
everything and never changes. The invariant `IInv` says that the view is below
the lock holder's copy, and the copy below the journal where an append has been
made (`AppendOK`, `TodoOK`), that nobody holds a pending write outside the lock
(`LockOK`, `CallOK`), that effects follow the journal (`EffectsOK`) and that the
copy has one active run per job (`JobsOK`). None of the properties is inductive
without it: a crash between two writes would otherwise be free to leave the
journal and the state file in any relation. Assumptions: `RunQueueAssumption`
only, and `~StateLoss` for the last theorem.

* `LeaseNamesTheLessee`: `LiveLeaseNamesTheLessee`, for at most one death (`MaxCrashes <= 1`), even
  with the state file lost. Two deaths can leave a lease of one worker on a run that
  the journal gives to another.
* `LeaseRespected`: `LiveLeaseIsRespected`, for any number of deaths.

These two rest on `LeasesOK`: the lock holder has the view in memory until it appends, and a run it
takes is journalled before its lease is written (`CopiesOK`); where one process dies at most, a
lease names the lessee of every entry that says leased, in the view, the journal and memory
(`LeaseOK`); and until a process dies the journal says what the view, or the holder, says (`SyncOK`).

`ErasureProofs` proves of the pending erasures alone, for any subjects, executing processes, seals, markers
and deaths:

* `TypeCorrect`: `TypeOK`.
* `PendingErasureIsKept`: `NoErasureIsDropped`.
* `MirrorsAreAccountedFor`: `NoMirrorIsLeftSilently`.
* `ArmingIsIdempotent`: `OneMarkerPerErasure`.

The argument: subjects are forgotten before a marker is written (`ArmingOK`), so
ingestion cannot bring a purged one back; the running unseal holds markers of the
ledger, and once the blob is restored they are `Stale` for good (`UnsealOK`), so
each is tried by one unseal only. What was purged while its mirror failed is then
either hidden from a marker that could not read it (`unseen`), among the errors, which belong to applied markers that stay in the ledger
until the report is returned (`AppliedOK`), or has a stale marker that no unseal
will touch (`MirrorsOK`). The same staleness is why a failed marker is never
retried (section 5). Assumption: `PendingEraseAssumption`. These are theorems about
`Spec`, with the calls around a marker reduced to what they do to it.

`ErasureProofs` proves the same promises for whole executes and ingests (`ESpec`), and
those that only exist there:

* `ErasureTypeCorrect`: `ErasureTypeOK`; `ErasureInvariance`: `EInv`.
* `QueuedErasureIsKept`, `ArmedOnce`: `NoErasureIsDropped` and `OneMarkerPerErasure`.
* `ErasureIsOnRecord`, `EmptyErasureIsNotForked`: `EveryErasureIsOnRecord` and
  `EmptyErasureIsRecordedOnce`.
* `MirrorsAreKnown`: `MirrorsLeftAreKnown`, although a copy is written before its record and the
  record may never come. `NoMirrorIsLeftSilently`, a theorem of
  PendingErase alone, does not survive the composition: an execute that is refused or
  dies after its purge leaves mirrors no unseal knows of, and `MirrorsLeftAreKnown` says to
  whom they are known instead.
* `ReportIsTrue`: `CleanReportIsTrue`, with the exceptions the property names: a folder unsealed
  between the sweep's two looks, and the records whose text an unread mirror hides. A purge is one step
  in this module: where the purges of two executes overlap, the later one can bring a record
  back under a clean report (section 5).

The argument: `EnvStep` says what no step of anybody undoes for an execute in flight (a
marker in the ledger of an unsealed blob stays, a forgotten subject stays forgotten, a
recorded erasure stays recorded). An ingester that has written its copy and not
the event hands every execute the text of the record to come. `EInv` adds to the types and to `LInv` of PendingErase that every
execute fits what it has done so far (`Fits`), arms only what it found itself (`ArmsOwn`),
and that what was added, recorded and left in second records and mirrors is accounted for
(`AddedOK`, `RecordedOK`, `SecondOK`, `MirrorsKnown`). One lemma per action, and
`EStutterInv` for what leaves the erasure alone. Assumptions: `PendingEraseAssumption`,
`ErasureAssumption`.

`ApprovalsProofs` proves the algebra of the forms: `ComposeIsLeastUpperBound`,
`ComposeIsCommutativeAssociative`, `StackIsFold` (the order of packs does not matter),
`PacksOnlyTighten`, `StricterNeedsNoFewerHands`.

`ApprovalsProofs` proves, for any callers, parties, requests and clock, `ApprovalsAreRooted`,
`ElapsedIsOnRecord`, `DenialAbsorbs` and `DeadlineIsFinal` from
`IInv`: types, a chain whose decisions were made by parties entitled when their caller
looked (`ChainOK`), calls that hold a past chain (`CallOK`), and the histories (`HeldOK`,
`RecordOK`). `WorkflowsProofs` proves `DispatchedOnApproval`, `SignOffIsPerStep` and
`EndsAsItsSteps` from `WInv`, which relates each execution's steps to the view it replayed and
the view to the chain. Assumptions: `ApprovalConstants`, `WorkflowConstants`.

`OperationsProofs` proves, for any operators, writers, agents, use cases, issues and number of
changes, all five properties of the `operate` run and `OperationTypeOK`
(`StandingStopsBind`, `JournalIsTrue`, `UnattendedRunsAreEarned`, `OnlyPeopleLiftStops`,
`LanesOnlyAdvance`, `OperationTypeCorrect`), from `OInv`: types (`TypeInv`); that the questions a call has
had answered held at some moment of it, with a cap read while it was in force and a spend below it when that was
looked at (`MetOK`); that its record was in force and does not prohibit the act (`RecordOK`); that its lens
has the use case's tags and, without a warning, those of connectors there were during the call (`LensOK`); that its
run is in the journal as far as it got and its unattended steps are earned (`RunOK`); and that no two calls write
to one run (`RunsApart`). `CallStep` says what has to be shown of a call's step and that
everything else is then left alone. Assumption: `OperationConstants`. What is promised of the budget is what two
reads can promise: a spend that reached every cap there was during the call refuses it. An unattended
step is promised to be free of reservations for a tag of the connectors only if the run does not carry the
warning that they could not be read.

`MutationLogProofs` proves, for any processes, pairs, deaths and number of events, all three
properties of the `log_append` run: `HonestLogIsVerified`, `RegistrationIsFirst` and the
refinement, `LogImplementsAuditLog`; the first excepts an anchor cut off by a process that died. They assume `MutationLogAssumption` and `AppendsOnly`:
processes only append, the disk does not fill and a death tears no line; without any of the three the
refinement is false (section 5). The argument, `AppendInvariant`: every line is linked to the one
before it and everything acknowledged or anchored is in the log (`LogOK`); a cached tail is
the line at the cached size (`CacheOK`), so that a writer links to the last line whichever way it
found it (`PrevIsTheTail`); each call has an event of its own, in the file or still to be
written (`CallOK`, `CallsApart`). `AnchorInvariant` is about the two files of the anchor: each holds the head of
a line or of an empty log, or is cut off by somebody who has it open and is still to write, or died (`AnchorOK`).
`WriteIsWrite` and `ReturnIsAcknowledge` map the two steps that show, and the others stutter.

`SealedLogProofs` proves what is left of that when everything is allowed: any processes, each
appending, purging, sealing, unsealing and constructing as it likes, disks that fill, deaths
that tear lines. `TypeCorrect` is `TypeOK`; `IntactAreLinked` and `StoredAreLinked` are
`IntactEventsAreLinked` and `StoredChainIsLinked`, both properties of the `seal_purge` run. The
argument, `ChainsInvariance`: names only move to newer files, which are empty until they
are written, so that lines in a file no name points at are never seen again; a line that gets into
the file in use carries that file's tail; a purge relinks all it keeps; and everything else copies a
chain, cuts it off at the end or damages a line. So a chain can lose events (section 5 says how), but
what is left is linked. Assumptions: `MutationLogAssumption` and `LongLived = {}`, no tail
cache. That one is needed: a process that trusts its cached tail after a torn line links to
an event which the tear has made unreadable, and TLC finds that state with `LongLived = {p1, p2}`.

It proves all three properties of the `seal` run as well, for any pairs and number of events, files
and deaths, with and without key pinning and on a disk that may fill: `EveryEventIsKept`
(`SealKeepsEveryEvent`), `ErasedAreGone` (`ErasedStaysErased`), and the refinement `SealIsInvisible`
(`SealingIsInvisible`), where `WriteEventWrites`, `ReturnAcknowledges` and `ReplaceLogErases` map
the three steps that show in `AuditLog`. The argument, `SealInvariance`: beside a blob the directory
is empty or the same (`StoreOK`); the sealer has the named file locked from its snapshot until it is
gone (`SealerOK`); a writer under the lock of its file without a blob beside it has that very
file, as it was when opened, and a restore keeps the blob until its files are back (`WriterOK`); a purge
rewrites what is still in the log (`PurgeOK`); and each event is in `Memory`, erased, or yet to be
written by the one call that has it (`EventsOK`). `RewrittenIs` says what a purge leaves. The
assumption, `WriterBesideSealer`, is that of the run: one process appends, purges, unseals and constructs,
another seals, no line is torn, nothing runs beside a purge, and there is no tail cache. Each part of it is needed:
section 5 names what is lost, or comes back, with a second appender, a second sealer, a torn line, a
seal beside a purge, or a cached tail.

`DecisionQueueProofs` proves all five properties of the `decisions` run and its types, for any
parties, options, links, panels, clock and number of deaths: `OneChoice`, `PanelRule`,
`PanelNeverStuck`, `SplitsHopeless`, `LinkOnce`, `TypeCorrect`. The argument, `IInv`: with one caller
the entry a call has in memory is the one in the file, from load to return (`CopyOK`); at each stage
the call has what the code asked for to get there (`StageOK`, `HoldOK`); a choice on the chain belongs to
a call that died or to the one on its way to close the entry (`CountOK`); a panel that has all its
seats or its quorum is being resolved (`FullOK`); a link that still works has written only
for calls that died, and the one on its way (`LinkOK`). Assumptions: `DecisionQueueAssumption` and
`OneCaller`, that requests follow each other; where they overlap the properties are false, and the claim of somebody else
is not honoured either (run `decisions_v_lease`).

Only model-checked: liveness (`EveryRunEnds`, `ExecutionsEnd`), which is out of the prover's
reach, like induction over data.

## 5. Where the code and its documentation part

Two are runs above, `erasure_v_watcher` and `decisions_v_lease`, with the text they
contradict in `PROJECT.json`. The others were met while modelling and can be had from the same
modules by stating the formula given; no run is kept for them.

* `controlforms.py:19` "BLOCK is the absorbing top (nothing executes)", and 38 "never executes": the runner
  looks at the form only where it shares a guarantee with the forms that need hands
  (`workflows.py:592`), and a stack with BLOCK in it composes to `{blocked}`, which shares none. The step is
  dispatched, with no approval at all (`BlockedStepsDoNotRun` with a pack that blocks).
* `mutation_log.py:891` "a failure here never breaks the append", "verify tolerates a missing anchor": the
  anchor's temporary file is shared and written outside the lock (901-905). One process truncates it, another moves it
  into place, the first dies: `verify_chain` reports `anchor_unreadable` for an intact log, until the next
  append completes (`AnchoringIsBestEffort` with two appenders and one death). A disk that fills
  between truncation and write does the same without a death.
* `erasure.py:435` "so the preview never reports an uninspected file — or an unreachable knowledge copy — as
  clean": the text of a knowledge record is in the mirror alone, and a read of it that raises is
  swallowed (474) and named nowhere. The execute returns without an error and the record is still there
  (`UninspectedIsNotClean`). `apply_markers` matches the same way (`pending_erase.py:543`), and its marker counts as applied
  and leaves the ledger, though 590 has it removed "ONLY after its own apply fully succeeds".
* The same line: `remember` writes the copy before the event (`memory.py:368`). A seal or a death in between leaves a
  copy without an event, which readers fold in (412) and the inbox counts as ingested, and
  which no sweep ever finds, as sweeps walk events (`NoCopyIsReportedClean`).
* `operations.py:249` "a tag-guard simply can't be confirmed, so it stays unfired (no authority is ever GRANTED by a
  missing tag": the guard that stays unfired is the one that reserves. With an unreadable connector store an
  issue reserved for a tag only the connectors carry runs unattended, after a warning
  (`MissingTagsGrantNothing`).
* A `residual-decision` that cannot be appended (`surface.py:241`) leaves a decision closed without a choice on the
  log; the answer to the caller says so and nothing else does.

* `mark_done` takes a `pending` run to `done` (`queue.py:649`; the table at 61 says
  only a leased one), and `resume_run` revokes live leases (`queue.py:764`; 755 says
  stale ones).
* A death in `enqueue_run` between journal and state file, then the loss of the
  state file, gives a job two active runs (`OneActiveRunPerJob` with `StateLoss`).
* Two purges at once: the later writes its older snapshot and erased events are
  back (`ErasedStaysErased` with two purgers); so two executes can both report clean and leave a record
  that one of them purged.
* The ENOSPC rollback truncates to the size at open, before the lock was awaited:
  it can cut off events of others (`ImplementsAuditLog` with `DiskMayFill`).
* An event appended between the snapshot of a purge (lock released at
  `mutation_log.py:1493`) and its rewrite (1638) is lost (the same, appender and purger).
* The append after a torn line is glued to it and lost (the same, `TornWrites`).
* An appender's anchor can land after a purge of its event; then an honest log
  does not verify (`HonestLogVerifies` with appender and purger).
* Two first appends can both register; the second registration is in mid-chain.
* A tail cache whose size happens to fit survives a purge (`LongLived`, purge).
* An unsigned event after a signed one makes `verify_chain` fail, though the
  comment at `mutation_log.py:1105` accepts signing failures.
* An append that waits through a seal and an unseal, or one to a file that a
  purge replaced while a seal was waiting, is acknowledged and lost
  (`SealKeepsEveryEvent` with a second appender, or with `PurgesUndisturbed` off).
* `queue.py:17` "only the worker currently holding the lease may finalise the
  run": the checked calls read the lease before the queue lock is taken
  (`queue.py:557`) and `_finalise` does not look again, so a client whose lease was
  re-claimed in between still finalises the run (in a section entered with
  `strict`, `lease[r].holder = p`).
* `pending_erase.py:592` "a mid-apply failure leaves it for the next unseal to
  retry": sealing again makes a blob with another fingerprint, and
  `verify_markers_for_unseal` (493) refuses the whole unseal for a marker bound to
  the old one (`blob # Plain => \A m \in ledger : m.blob = blob`).
* A party whose seat lease ran out stays in `seat_claims` and is let in beyond the
  seats (`decisions/queue.py:319`, though `test_decision_panels.py` says a third is
  refused when all seats are taken).
* A death between the record of the last seat and the resolution leaves a full
  panel that nobody resolves (`PanelIsNeverStuck` without its `crashes = 0`).
* A log constructed while a seal completes leaves an empty directory beside the
  blob, and `unseal_folder` refuses.
* A marker may be armed for a blob that has been unsealed meanwhile.
* A second concurrent `seal_folder` finds the directory already packed and overwrites the blob
  with an empty one (`seal.py:147`, 174; `test_seal.py:99` seals one after the other);
  a purge between two sealers brings erased events back (`ErasedStaysErased`).
* A purge killed between `os.replace` and `_write_anchor` leaves an honest log that fails
  verification (`HonestLogVerifies` with purges and a death).
* `erasure.py:1147` takes it that the first execute recorded the composite: when the first
  died before, the retry is a no-op and there is no composite ever. A leftover marker with a stale
  fingerprint makes every later unseal raise. A death, or a purge refused as sealed, between
  purge and mirrors leaves the mirrors.
* The sweep reads the log and asks whether the folder is sealed in two steps: an unseal in
  between gives a clean report with nothing erased. What is ingested between the sweep (803)
  and the guard (866) is neither swept nor refused. (`CleanReportIsTrue` excepts the first by
  name and speaks of what was there when the execute started.)
* `guardian.py:104` reads the agents and then suspends them: one that was killed in
  between comes back as suspended. `revoke_agent` (`use_case.py:213`) reads, modifies and
  appends without a lock: it can restore a permission, or lift a prohibition, made meanwhile.
  Two concurrent approvals of one lane version are both acknowledged; the first one counts.
* A capability revoked, or an agent killed, after its call was admitted does not stop the
  run (`WhatStoodBeforeTheCallBinds` says what does bind).
* A request opened under a weaker form is reused after the packs tighten; the
  requester it excludes is the first execution's, not the present actor. A step
  whose request timed out is denied for good, and one that was granted releases every
  later execution of the run. Which competence a request is routed to is the first of the
  footprint. A held run stays in `active_workflows`, and the worker marks it failed.
* `veto_window` is kept with a request, but `resolve_approval` never looks at it.
* `effect_approval` records its effect "ONCE (idempotent)" for callers one after the other; two at
  once both append.

## 6. Not modelled

In the modelled parts: signatures and keys beyond registration, the pin file, a
host's divergent copy, events from before `prev_hash`, a failing
`ftruncate`, a seal that raises because a temporary file moved while it was packed, torn lines of `queue.jsonl`, systems without `fcntl`, the knowledge
sinks beside the log directory and two concurrent unseals in `PendingErase`. Of
erasure: the cascade over descendant folders, the text matcher, drafts and cards beyond
whether they changed, the status manifest, the scrub of previews the lock
keeps, the quarantine scan. Of the decision queue: `open`
with its idempotency key and cap, reconfirmation codes, the roster behind a
competence, notifications, several decisions in one file (a stale copy also undoes
changes to the others), and a reader that meets a half-written file. Of approvals:
`delegate_signing` and the contract sign-offs that use it, resolvers that find
parties in other folders, the bridge from a reservation to a request. Of workflows: definitions and
their inheritance, selection, orchestration, disclosure envelopes. Of operation: runs that are not
journalled, `evaluate_lane` on single actions, the timeouts of steps. The remaining components and
the reasons are listed in `PROJECT.json`; text analysis, retrieval, adapters, the command
line and the user interface are most of the code and have no state another process can disturb,
which is why the modules cover a small share of its lines.

## 7. Plan

1. Run queue and worker, pending erasure and erasure, control forms, approvals, workflows:
   done, with proofs. A `RunLifecycle` specification of one run as its caller sees it, and
   the queue proved to implement it, would be next.
2. Log and seal: done, the log proved for appends, the chain for everything, the seal for one
   writer beside one sealer.
3. `DecisionQueue`: done for one decision, with proofs. Next: `open` and reconfirmation codes.
4. Operation: done.
5. Contract sign-offs (`contracts/reviews.py`) with `delegate_signing`, over Parties: a sign-off that
   another overtakes, an approval reported from a stale tally, an idempotency key used twice at once.
6. The precedence rules of the policy gate and the action gate against a reference
   definition, with the breaker's cap.
