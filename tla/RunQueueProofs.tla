--------------------------- MODULE RunQueueProofs ---------------------------
(***************************************************************************)
(* Safety of the run queue, for every number of workers, clients, runs and *)
(* process deaths.  IInv is the inductive invariant: besides the           *)
(* properties themselves it says what the dictionary in a critical section *)
(* has to do with the two files, step by step.                             *)
(***************************************************************************)
EXTENDS RunQueue, TLAPS

InLock == {"revoke", "revoked", "append", "save", "lease"}

\* Exactly the lock holder is inside a critical section.
LockOK == \A p \in Procs : call[p].stage \in InLock <=> lock = p

\* What a call is doing determines which of its fields are in use.
CallOK ==
    \A p \in Procs :
        /\ call[p].stage \in {"append", "save", "lease", "effect", "owned"} =>
              call[p].run \in Runs /\ call[p].op # "idle"
        /\ call[p].stage \in {"effect", "owned"} => call[p].op \in Outcomes
        /\ call[p].stage \in {"revoke", "revoked"} => call[p].op = "take"

\* b knows every run a knows and agrees on the ones that are over.
Below(a, b) ==
    \A r \in Runs :
        /\ a[r].st # "none" => b[r].st # "none"
        /\ a[r].st \in Terminal => b[r] = a[r]

\* The journal is never behind the state file; the dictionary is in between.
FilesOK ==
    /\ Below(View, journal)
    /\ lock # Nobody => /\ Below(View, mem)
                        /\ Below(mem, journal)
                        /\ ~present => mem = journal

\* The revoke pass only has leased entries before it.
TodoOK ==
    \A r \in todo :
        /\ mem[r].st = "leased"
        /\ lock # Nobody
        /\ \A p \in Procs : lock = p => call[p].stage \in {"revoke", "revoked"}

\* The entry about to be appended replaces one the call may replace.
AppendOK ==
    \A p \in Procs : call[p].stage = "append" =>
        IF call[p].op = "enqueue"
        THEN /\ mem[call[p].run].st = "none"
             /\ \A q \in Runs : JobOf[q] = JobOf[call[p].run] => mem[q].st \notin Active
        ELSE mem[call[p].run].st \in Active

OneActive(f) ==
    \A q, r \in Runs :
        f[q].st \in Active /\ f[r].st \in Active /\ JobOf[q] = JobOf[r] => q = r

JobsOK == ~StateLoss => OneActive(View) /\ OneActive(mem)

\* A finishing call carries the only right to write its run's effect.
Finishing(p) == call[p].op \in Outcomes /\ call[p].stage \in {"save", "lease", "effect"}

EffectsOK ==
    /\ EffectsAgreeWithQueue
    /\ \A p \in Procs : Finishing(p) =>
          /\ effects[call[p].run] = <<>>
          /\ call[p].stage = "save" => mem[call[p].run].st = call[p].op
          /\ call[p].stage # "save" => View[call[p].run].st = call[p].op
          /\ \A q \in Procs : Finishing(q) /\ call[q].run = call[p].run => q = p

IInv == TypeOK /\ LockOK /\ CallOK /\ FilesOK /\ TodoOK /\ AppendOK /\ JobsOK /\ EffectsOK

-----------------------------------------------------------------------------
(***************************************************************************)
(* Type correctness of the queue: every file and every call keeps its      *)
(* shape under every step of every process.                                *)
(***************************************************************************)
LEMMA NewEntryType ==
    ASSUME TypeOK, NEW p \in Procs, call[p].run \in Runs,
           call[p].op \in Ops \ {"idle"}
    PROVE  NewEntry(p) \in Entry
<1>1. Written(call[p].op) \in {"none"} \cup Active \cup Terminal
  BY DEF Written, Ops, Outcomes, Terminal, Active
<1>2. mem[call[p].run].to \in Procs \cup {Nobody}
  BY DEF TypeOK, Entry
<1> QED
  BY <1>1, <1>2 DEF NewEntry, Entry

LEMMA ViewType == TypeOK => View \in [Runs -> Entry]
BY DEF TypeOK, View

LEMMA DefaultTypes ==
    /\ Idle \in Call
    /\ Empty \in [Runs -> Entry]
    /\ NoLease \in Lease
BY DEF Idle, Call, Ops, Stages, Empty, NoEntry, Entry, NoLease, Lease

LEMMA CallTypes ==
    ASSUME TypeOK, NEW p \in Procs
    PROVE  /\ call[p].run \in Runs \cup {NoRun}
           /\ [call EXCEPT ![p] = Idle] \in [Procs -> Call]
           /\ \A r \in Runs \cup {NoRun}, s \in Stages :
                 [call EXCEPT ![p] = At(call[p], r, s)] \in [Procs -> Call]
           /\ \A s \in Stages :
                 [call EXCEPT ![p] = At(call[p], call[p].run, s)] \in [Procs -> Call]
<1>1. call \in [Procs -> Call] /\ call[p] \in Call
  BY DEF TypeOK
<1>2. \A r \in Runs \cup {NoRun}, s \in Stages : At(call[p], r, s) \in Call
  BY <1>1 DEF At, Call
<1> QED
  BY <1>1, <1>2, DefaultTypes DEF Call

LEMMA TypeInit == Init => TypeOK
<1> SUFFICES ASSUME Init PROVE TypeOK
  OBVIOUS
<1>1. crashes \in 0..MaxCrashes
  BY RunQueueAssumption DEF Init
<1>2. effects \in [Runs -> Seq(Outcomes)]
  BY DEF Init
<1> QED
  BY <1>1, <1>2, DefaultTypes DEF Init, TypeOK

\* Every step of every call, worker and clock tick keeps the types.
THEOREM TypeStep == TypeOK /\ CallOK /\ [Next]_vars => TypeOK'
<1> SUFFICES ASSUME TypeOK, CallOK, [Next]_vars PROVE TypeOK'
  OBVIOUS
<1> USE DefaultTypes
<1>1. ASSUME NEW p \in Procs, TakeNextRun(p) PROVE TypeOK'
  BY <1>1, ViewType DEF TypeOK, TakeNextRun, Acquire, Disk, Call, Ops, Stages
<1>2. ASSUME NEW p \in Procs, PickOldest(p) PROVE TypeOK'
  <2>1. call' \in [Procs -> Call]
    BY <1>2 DEF TypeOK, PickOldest, Return, At, Stages, Call
  <2> QED
    BY <1>2, <2>1 DEF TypeOK, PickOldest, Release, Return
<1>3. ASSUME NEW p \in Procs, AppendQueueEvent(p) PROVE TypeOK'
  <2>1. NewEntry(p) \in Entry
    BY <1>3, NewEntryType DEF TypeOK, CallOK, AppendQueueEvent, Call
  <2>2. call' \in [Procs -> Call]
    BY <1>3 DEF TypeOK, AppendQueueEvent, Advance, At, Stages, Call
  <2> QED
    BY <1>3, <2>1, <2>2 DEF TypeOK, AppendQueueEvent
<1>4. ASSUME NEW p \in Procs, SaveState(p) PROVE TypeOK'
  <2>1. \/ call' = [call EXCEPT ![p] = Idle]
        \/ call' = [call EXCEPT ![p] = At(call[p], call[p].run, "lease")]
    BY <1>4 DEF SaveState, Return, Advance
  <2>2. call' \in [Procs -> Call]
    <3>1. "lease" \in Stages
      BY DEF Stages
    <3> QED
      BY <2>1, <3>1, CallTypes
  <2>3. work' \in [Workers -> Runs \cup {NoRun}]
    BY <1>4 DEF TypeOK, SaveState, Return
  <2>4. lock' \in Procs \cup {Nobody} /\ mem' \in [Runs -> Entry]
    BY <1>4 DEF TypeOK, SaveState, Release
  <2> QED
    BY <1>4, <2>2, <2>3, <2>4 DEF TypeOK, SaveState
<1>5. ASSUME NEW p \in Procs, WriteOrDropLease(p) PROVE TypeOK'
  <2>0. \/ call' = [call EXCEPT ![p] = Idle]
        \/ call' = [call EXCEPT ![p] = At(call[p], call[p].run, "effect")]
    BY <1>5 DEF WriteOrDropLease, Advance
  <2>1. call' \in [Procs -> Call]
    BY <2>0, CallTypes DEF Stages
  <2>2. lease' \in [Runs -> Lease]
    <3>1. [holder |-> p, live |-> TRUE] \in Lease
      BY DEF Lease
    <3> QED
      BY <1>5, <3>1 DEF TypeOK, WriteOrDropLease
  <2>3. work' \in [Workers -> Runs \cup {NoRun}]
    BY <1>5 DEF TypeOK, WriteOrDropLease, CallOK
  <2> QED
    BY <1>5, <2>1, <2>2, <2>3 DEF TypeOK, WriteOrDropLease, Release
<1>6. ASSUME NEW p \in Procs, JournalEffect(p) PROVE TypeOK'
  <2>1. call[p].op \in Outcomes /\ call[p].run \in Runs
    BY <1>6 DEF CallOK, JournalEffect
  <2>2. effects' \in [Runs -> Seq(Outcomes)]
    <3>1. Append(effects[call[p].run], call[p].op) \in Seq(Outcomes)
      BY <2>1 DEF TypeOK
    <3> QED
      BY <1>6, <3>1 DEF TypeOK, JournalEffect
  <2>3. call' \in [Procs -> Call]
    BY <1>6, CallTypes DEF JournalEffect, Return
  <2> QED
    BY <1>6, <2>2, <2>3 DEF TypeOK, JournalEffect, Return, Disk
<1>7. ASSUME NEW p \in Procs, Crash(p) PROVE TypeOK'
  <2>1. call' \in [Procs -> Call]
    BY <1>7, CallTypes DEF Crash
  <2>2. crashes' \in 0..MaxCrashes
    BY <1>7, RunQueueAssumption DEF TypeOK, Crash
  <2> QED
    BY <1>7, <2>1, <2>2 DEF TypeOK, Crash, Release, Disk
<1>8. ASSUME NEW p \in Procs, NEW r \in Runs, EnqueueRun(p, r) PROVE TypeOK'
  BY <1>8, ViewType DEF TypeOK, EnqueueRun, Acquire, Disk, Call, Ops, Stages
<1>9. ASSUME NEW p \in Procs, NEW r \in Runs, RevokeOne(p, r) PROVE TypeOK'
  <2>1. call' \in [Procs -> Call]
    <3>1. call' = call \/ call' = [call EXCEPT ![p] = At(call[p], call[p].run, "revoked")]
      BY <1>9 DEF RevokeOne, Advance
    <3>2. "revoked" \in Stages
      BY DEF Stages
    <3> QED
      BY <3>1, <3>2, CallTypes DEF TypeOK
  <2>2. [st |-> "pending", to |-> Nobody] \in Entry
    BY DEF Entry, Active
  <2> QED
    BY <1>9, <2>1, <2>2 DEF TypeOK, RevokeOne
<1>10. ASSUME NEW p \in Procs, NEW r \in Runs, RenewLease(p, r) PROVE TypeOK'
  BY <1>10 DEF TypeOK, RenewLease, Lease
<1>11. ASSUME NEW p \in Procs, NEW r \in Runs, CancelRun(p, r) PROVE TypeOK'
  BY <1>11, ViewType DEF TypeOK, CancelRun, Acquire, Disk, Call, Ops, Stages
<1>12. ASSUME NEW p \in Procs, NEW r \in Runs, ResumeRun(p, r) PROVE TypeOK'
  BY <1>12, ViewType DEF TypeOK, ResumeRun, Acquire, Disk, Call, Ops, Stages
<1>13. ASSUME NEW p \in Procs, NEW r \in Runs, NEW o \in Outcomes, AssertLeaseOwned(p, r, o)
       PROVE TypeOK'
  BY <1>13 DEF TypeOK, AssertLeaseOwned, Disk, Call, Ops, Stages
<1>14. ASSUME NEW p \in Procs, NEW r \in Runs, NEW o \in Outcomes, Finalise(p, r, o)
       PROVE TypeOK'
  BY <1>14, ViewType DEF TypeOK, Finalise, Acquire, Disk, Call, Ops, Stages
<1>15. ASSUME NEW p \in Procs, NEW r \in Runs, NEW o \in Outcomes, FinaliseRefused(p, r, o)
       PROVE TypeOK'
  BY <1>15 DEF TypeOK, FinaliseRefused, Return, Disk
<1>16. ASSUME NEW r \in Runs, Expire(r) PROVE TypeOK'
  BY <1>16 DEF TypeOK, Expire, Lease
<1>17. CASE LoseStateFile
  BY <1>17 DEF TypeOK, LoseStateFile
<1>18. CASE UNCHANGED vars
  BY <1>18 DEF TypeOK, vars
<1> QED
  BY <1>1, <1>2, <1>3, <1>4, <1>5, <1>6, <1>7, <1>8, <1>9, <1>10, <1>11, <1>12, <1>13,
     <1>14, <1>15, <1>16, <1>17, <1>18 DEF Next, Step, OnRun

-----------------------------------------------------------------------------
(***************************************************************************)
(* Who is in the critical section, and which fields of a call are in use.  *)
(***************************************************************************)
LEMMA CallAt ==
    ASSUME TypeOK, NEW p \in Procs, NEW c, call' = [call EXCEPT ![p] = c]
    PROVE  call'[p] = c /\ \A q \in Procs : q # p => call'[q] = call[q]
BY DEF TypeOK

\* A step of p that enters, moves along, or leaves the critical section, and
\* one that stays outside it.
Enters(p, c) == lock = Nobody /\ lock' = p /\ c.stage \in InLock
Moves(p, c)  == lock = p /\ lock' = p /\ c.stage \in InLock
Leaves(p, c) == lock = p /\ lock' = Nobody /\ c.stage \notin InLock
Stays(p, c)  == lock # p /\ lock' = lock /\ c.stage \notin InLock

LEMMA LockKept ==
    ASSUME TypeOK, LockOK, NEW p \in Procs, NEW c, call' = [call EXCEPT ![p] = c],
           Enters(p, c) \/ Moves(p, c) \/ Leaves(p, c) \/ Stays(p, c)
    PROVE  LockOK'
<1>1. call'[p] = c /\ \A q \in Procs : q # p => call'[q] = call[q]
  BY CallAt
<1>2. p # Nobody
  BY RunQueueAssumption
<1>3. ASSUME NEW q \in Procs PROVE call'[q].stage \in InLock <=> lock' = q
  <2>1. q # Nobody
    BY RunQueueAssumption
  <2>2. CASE q = p
    BY <1>1, <1>2, <2>2, <2>1 DEF LockOK, Enters, Moves, Leaves, Stays
  <2>3. CASE q # p
    BY <1>1, <1>2, <2>3, <2>1 DEF LockOK, Enters, Moves, Leaves, Stays
  <2> QED
    BY <2>2, <2>3
<1> QED
  BY <1>3 DEF LockOK, InLock

\* What CallOK says of one call.
Sound(c) ==
    /\ c.stage \in {"append", "save", "lease", "effect", "owned"} =>
          c.run \in Runs /\ c.op # "idle"
    /\ c.stage \in {"effect", "owned"} => c.op \in Outcomes
    /\ c.stage \in {"revoke", "revoked"} => c.op = "take"

LEMMA CallKept ==
    ASSUME TypeOK, CallOK, NEW p \in Procs, NEW c, call' = [call EXCEPT ![p] = c], Sound(c)
    PROVE  CallOK'
<1>1. call'[p] = c /\ \A q \in Procs : q # p => call'[q] = call[q]
  BY CallAt
<1> QED
  BY <1>1 DEF CallOK, Sound

LEMMA IdleSound == Sound(Idle) /\ Idle.stage \notin InLock
BY DEF Sound, Idle, InLock

LEMMA EnterStep ==
    ASSUME TypeOK, LockOK, CallOK, NEW p \in Procs, NEW r \in Runs,
           NEW op \in Ops \ {"idle"}, NEW strict, Acquire(p, op, r, "append", strict)
    PROVE  LockOK' /\ CallOK'
<1> DEFINE c == [op |-> op, run |-> r, stage |-> "append", strict |-> strict]
<1>1. call' = [call EXCEPT ![p] = c] /\ Enters(p, c)
  BY DEF Acquire, Enters, InLock
<1>2. Sound(c)
  BY DEF Sound
<1> HIDE DEF c
<1> QED
  BY <1>1, <1>2, LockKept, CallKept

\* _queue_lock excludes: exactly the holder is inside, under every step.
THEOREM SectionStep == TypeOK /\ LockOK /\ CallOK /\ [Next]_vars => LockOK' /\ CallOK'
<1> SUFFICES ASSUME TypeOK, LockOK, CallOK, [Next]_vars PROVE LockOK' /\ CallOK'
  OBVIOUS
<1>1. ASSUME NEW p \in Procs, TakeNextRun(p) PROVE LockOK' /\ CallOK'
  <2> DEFINE c == [op |-> "take", run |-> NoRun, stage |-> "revoke", strict |-> FALSE]
  <2>1. call' = [call EXCEPT ![p] = c] /\ Enters(p, c)
    BY <1>1 DEF TakeNextRun, Acquire, Enters, InLock
  <2>2. Sound(c)
    BY DEF Sound
  <2> HIDE DEF c
  <2> QED
    BY <2>1, <2>2, LockKept, CallKept
<1>2. ASSUME NEW p \in Procs, PickOldest(p) PROVE LockOK' /\ CallOK'
  <2>1. CASE Release /\ Return(p)
    <3>1. call' = [call EXCEPT ![p] = Idle] /\ Leaves(p, Idle)
      BY <1>2, <2>1, IdleSound DEF PickOldest, Release, Return, Leaves
    <3> QED
      BY <3>1, LockKept, CallKept, IdleSound
  <2>2. ASSUME NEW r \in Runs, call' = [call EXCEPT ![p] = At(call[p], r, "append")],
               UNCHANGED lock
        PROVE  LockOK' /\ CallOK'
    <3>1. Moves(p, At(call[p], r, "append"))
      BY <1>2, <2>2 DEF PickOldest, Moves, At, InLock
    <3>2. Sound(At(call[p], r, "append"))
      BY <1>2 DEF PickOldest, CallOK, Sound, At
    <3> QED
      BY <2>2, <3>1, <3>2, LockKept, CallKept
  <2> QED
    BY <1>2, <2>1, <2>2 DEF PickOldest
<1>3. ASSUME NEW p \in Procs, AppendQueueEvent(p) PROVE LockOK' /\ CallOK'
  <2> DEFINE c == At(call[p], call[p].run, "save")
  <2>1. call' = [call EXCEPT ![p] = c] /\ Moves(p, c)
    BY <1>3 DEF AppendQueueEvent, Advance, Moves, At, InLock
  <2>2. Sound(c)
    BY <1>3 DEF AppendQueueEvent, CallOK, Sound, At
  <2> HIDE DEF c
  <2> QED
    BY <2>1, <2>2, LockKept, CallKept
<1>4. ASSUME NEW p \in Procs, SaveState(p) PROVE LockOK' /\ CallOK'
  <2> DEFINE c == At(call[p], call[p].run, "lease")
  <2>1. \/ call' = [call EXCEPT ![p] = Idle] /\ Leaves(p, Idle)
        \/ call' = [call EXCEPT ![p] = c] /\ Moves(p, c)
    BY <1>4, IdleSound DEF SaveState, Advance, Return, Release, Moves, Leaves, At, InLock
  <2>2. Sound(c)
    BY <1>4 DEF SaveState, CallOK, Sound, At
  <2> HIDE DEF c
  <2> QED
    BY <2>1, <2>2, LockKept, CallKept, IdleSound
<1>5. ASSUME NEW p \in Procs, WriteOrDropLease(p) PROVE LockOK' /\ CallOK'
  <2> DEFINE c == At(call[p], call[p].run, "effect")
  <2>1. \/ call' = [call EXCEPT ![p] = Idle] /\ Leaves(p, Idle)
        \/ call[p].op \in Outcomes /\ call' = [call EXCEPT ![p] = c] /\ Leaves(p, c)
    BY <1>5, IdleSound DEF WriteOrDropLease, Advance, Release, Leaves, At, InLock
  <2>2. call[p].op \in Outcomes => Sound(c)
    BY <1>5 DEF WriteOrDropLease, CallOK, Sound, At
  <2> HIDE DEF c
  <2> QED
    BY <2>1, <2>2, LockKept, CallKept, IdleSound
<1>6. ASSUME NEW p \in Procs, JournalEffect(p) PROVE LockOK' /\ CallOK'
  <2>1. call' = [call EXCEPT ![p] = Idle] /\ Stays(p, Idle)
    BY <1>6, IdleSound DEF JournalEffect, Return, Stays, LockOK, InLock
  <2> QED
    BY <2>1, LockKept, CallKept, IdleSound
<1>7. ASSUME NEW p \in Procs, Crash(p) PROVE LockOK' /\ CallOK'
  <2>1. call' = [call EXCEPT ![p] = Idle] /\ (Leaves(p, Idle) \/ Stays(p, Idle))
    BY <1>7, IdleSound DEF Crash, Release, Leaves, Stays
  <2> QED
    BY <2>1, LockKept, CallKept, IdleSound
<1>8. ASSUME NEW p \in Procs, NEW r \in Runs, EnqueueRun(p, r) PROVE LockOK' /\ CallOK'
  BY <1>8, EnterStep DEF EnqueueRun, Ops
<1>9. ASSUME NEW p \in Procs, NEW r \in Runs, RevokeOne(p, r) PROVE LockOK' /\ CallOK'
  <2>1. CASE UNCHANGED <<lock, call>>
    BY <2>1 DEF LockOK, CallOK, InLock
  <2>2. CASE Advance(p, "revoked")
    <3>1. Moves(p, At(call[p], call[p].run, "revoked"))
      BY <1>9 DEF RevokeOne, Moves, At, InLock
    <3>2. Sound(At(call[p], call[p].run, "revoked"))
      BY <1>9 DEF RevokeOne, CallOK, Sound, At
    <3> QED
      BY <2>2, <3>1, <3>2, LockKept, CallKept DEF Advance
  <2> QED
    BY <1>9, <2>1, <2>2 DEF RevokeOne
<1>10. ASSUME NEW p \in Procs, NEW r \in Runs, RenewLease(p, r) PROVE LockOK' /\ CallOK'
  BY <1>10 DEF RenewLease, LockOK, CallOK, InLock
<1>11. ASSUME NEW p \in Procs, NEW r \in Runs, CancelRun(p, r) PROVE LockOK' /\ CallOK'
  BY <1>11, EnterStep DEF CancelRun, Ops
<1>12. ASSUME NEW p \in Procs, NEW r \in Runs, ResumeRun(p, r) PROVE LockOK' /\ CallOK'
  BY <1>12, EnterStep DEF ResumeRun, Ops
<1>13. ASSUME NEW p \in Procs, NEW r \in Runs, NEW o \in Outcomes, AssertLeaseOwned(p, r, o)
       PROVE LockOK' /\ CallOK'
  <2> DEFINE c == [op |-> o, run |-> r, stage |-> "owned", strict |-> TRUE]
  <2>1. call' = [call EXCEPT ![p] = c] /\ Stays(p, c)
    <3>1. call[p].stage \notin InLock
      BY <1>13, IdleSound DEF AssertLeaseOwned, May
    <3> QED
      BY <1>13, <3>1 DEF AssertLeaseOwned, LockOK, Stays, InLock
  <2>2. Sound(c)
    BY DEF Sound, Outcomes
  <2> HIDE DEF c
  <2> QED
    BY <2>1, <2>2, LockKept, CallKept
<1>14. ASSUME NEW p \in Procs, NEW r \in Runs, NEW o \in Outcomes, Finalise(p, r, o)
       PROVE LockOK' /\ CallOK'
  BY <1>14, EnterStep DEF Finalise, Ops, Outcomes
<1>15. ASSUME NEW p \in Procs, NEW r \in Runs, NEW o \in Outcomes, FinaliseRefused(p, r, o)
       PROVE LockOK' /\ CallOK'
  <2>1. call' = [call EXCEPT ![p] = Idle] /\ Stays(p, Idle)
    BY <1>15, IdleSound, RunQueueAssumption DEF FinaliseRefused, Return, Stays
  <2> QED
    BY <2>1, LockKept, CallKept, IdleSound
<1>16. ASSUME NEW r \in Runs, Expire(r) PROVE LockOK' /\ CallOK'
  BY <1>16 DEF Expire, LockOK, CallOK, InLock
<1>17. CASE LoseStateFile
  BY <1>17 DEF LoseStateFile, LockOK, CallOK, InLock
<1>18. CASE UNCHANGED vars
  BY <1>18 DEF vars, LockOK, CallOK, InLock
<1> QED
  BY <1>1, <1>2, <1>3, <1>4, <1>5, <1>6, <1>7, <1>8, <1>9, <1>10, <1>11, <1>12, <1>13,
     <1>14, <1>15, <1>16, <1>17, <1>18 DEF Next, Step, OnRun

(***************************************************************************)
(* The journal, the state file, the leases and the calls in progress keep  *)
(* their shapes in every behaviour of the queue.                           *)
(***************************************************************************)
THEOREM TypeCorrect == Spec => []TypeOK
<1>1. Init => TypeOK /\ LockOK /\ CallOK
  <2>1. Init => LockOK /\ CallOK
    BY RunQueueAssumption DEF Init, Idle, LockOK, CallOK, InLock
  <2> QED
    BY <2>1, TypeInit
<1>2. TypeOK /\ LockOK /\ CallOK /\ [Next]_vars => (TypeOK /\ LockOK /\ CallOK)'
  BY TypeStep, SectionStep
<1> QED
  BY <1>1, <1>2, PTL DEF Spec

-----------------------------------------------------------------------------
(***************************************************************************)
(* What a step can do to the journal, the state file and the dictionary:   *)
(* nothing, load it, write one entry to it and to the journal, save it, or *)
(* lose the state file.                                                    *)
(***************************************************************************)
Files == <<journal, present, saved>>

Quiet ==
    /\ UNCHANGED Files
    /\ \/ lock' = Nobody /\ mem' = Empty
       \/ lock' = lock /\ mem' = mem
Loads == UNCHANGED Files /\ lock = Nobody /\ mem' = View

\* The entry replaced is active, or the run is new and its job has none.
Replaceable(r) ==
    \/ mem[r].st \in Active
    \/ /\ mem[r].st = "none"
       /\ \A q \in Runs : JobOf[q] = JobOf[r] => mem[q].st \notin Active

Edits(r, e) ==
    /\ lock # Nobody /\ lock' = lock
    /\ Replaceable(r)
    /\ e.st # "none"
    /\ journal' = [journal EXCEPT ![r] = e]
    /\ mem' = [mem EXCEPT ![r] = e]
    /\ UNCHANGED <<present, saved>>

Saves ==
    /\ lock # Nobody
    /\ saved' = mem /\ present' = TRUE /\ journal' = journal
    /\ (lock' = Nobody /\ mem' = Empty) \/ (lock' = lock /\ mem' = mem)

Loses == StateLoss /\ lock = Nobody /\ lock' = Nobody /\ present' = FALSE /\ journal' = journal

Kind == Quiet \/ Loads \/ (\E r \in Runs : \E e \in Entry : Edits(r, e)) \/ Saves \/ Loses

Locked == TypeOK /\ LockOK /\ CallOK

LEMMA StepKind ==
    ASSUME Locked, TodoOK, AppendOK, [Next]_vars
    PROVE  Kind
<1>0. TypeOK /\ LockOK /\ CallOK /\ \A p \in Procs : p # Nobody
  BY RunQueueAssumption DEF Locked
<1>1. ASSUME NEW p \in Procs, TakeNextRun(p) PROVE Kind
  BY <1>1 DEF Kind, Loads, Files, TakeNextRun, Acquire, Disk
<1>2. ASSUME NEW p \in Procs, PickOldest(p) PROVE Kind
  <2>1. lock # Nobody /\ journal' = journal
    BY <1>2, <1>0 DEF PickOldest
  <2>2. (lock' = Nobody /\ mem' = Empty) \/ (lock' = lock /\ mem' = mem)
    BY <1>2 DEF PickOldest, Release
  <2>3. (saved' = mem /\ present' = TRUE) \/ UNCHANGED <<saved, present>>
    BY <1>2 DEF PickOldest
  <2> QED
    BY <2>1, <2>2, <2>3 DEF Kind, Quiet, Saves, Files
<1>3. ASSUME NEW p \in Procs, AppendQueueEvent(p) PROVE Kind
  <2>1. call[p].run \in Runs /\ NewEntry(p) \in Entry
    BY <1>3, <1>0, NewEntryType DEF TypeOK, CallOK, AppendQueueEvent, Call
  <2>2. NewEntry(p).st # "none"
    BY <1>3, <1>0 DEF NewEntry, Written, AppendQueueEvent, CallOK, TypeOK, Call, Ops, Outcomes
  <2>3. Replaceable(call[p].run)
    BY <1>3 DEF AppendQueueEvent, AppendOK, Replaceable
  <2>4. Edits(call[p].run, NewEntry(p))
    BY <1>3, <1>0, <2>2, <2>3 DEF AppendQueueEvent, Edits
  <2> QED
    BY <2>1, <2>4 DEF Kind
<1>4. ASSUME NEW p \in Procs, SaveState(p) PROVE Kind
  BY <1>4, <1>0 DEF Kind, Saves, SaveState, Release
<1>5. ASSUME NEW p \in Procs, WriteOrDropLease(p) PROVE Kind
  BY <1>5 DEF Kind, Quiet, Files, WriteOrDropLease, Release
<1>6. ASSUME NEW p \in Procs, JournalEffect(p) PROVE Kind
  BY <1>6 DEF Kind, Quiet, Files, JournalEffect, Disk
<1>7. ASSUME NEW p \in Procs, Crash(p) PROVE Kind
  BY <1>7 DEF Kind, Quiet, Files, Crash, Release, Disk
<1>8. ASSUME NEW p \in Procs, NEW r \in Runs, EnqueueRun(p, r) PROVE Kind
  BY <1>8 DEF Kind, Loads, Files, EnqueueRun, Acquire, Disk
<1>9. ASSUME NEW p \in Procs, NEW r \in Runs, RevokeOne(p, r) PROVE Kind
  <2>1. CASE Stale(r)
    <3> DEFINE e == [st |-> "pending", to |-> Nobody]
    <3>1. Replaceable(r)
      BY <1>9 DEF RevokeOne, TodoOK, Replaceable, Active
    <3>2. Edits(r, e)
      BY <1>9, <1>0, <2>1, <3>1 DEF RevokeOne, Edits
    <3>3. e \in Entry
      BY DEF Entry, Active
    <3> QED
      BY <3>2, <3>3 DEF Kind
  <2>2. CASE ~Stale(r)
    BY <1>9, <2>2 DEF RevokeOne, Kind, Quiet, Files
  <2> QED
    BY <2>1, <2>2
<1>10. ASSUME NEW p \in Procs, NEW r \in Runs, RenewLease(p, r) PROVE Kind
  BY <1>10 DEF Kind, Quiet, Files, RenewLease
<1>11. ASSUME NEW p \in Procs, NEW r \in Runs, CancelRun(p, r) PROVE Kind
  BY <1>11 DEF Kind, Loads, Files, CancelRun, Acquire, Disk
<1>12. ASSUME NEW p \in Procs, NEW r \in Runs, ResumeRun(p, r) PROVE Kind
  BY <1>12 DEF Kind, Loads, Files, ResumeRun, Acquire, Disk
<1>13. ASSUME NEW p \in Procs, NEW r \in Runs, NEW o \in Outcomes, AssertLeaseOwned(p, r, o)
       PROVE Kind
  BY <1>13 DEF Kind, Quiet, Files, AssertLeaseOwned, Disk
<1>14. ASSUME NEW p \in Procs, NEW r \in Runs, NEW o \in Outcomes, Finalise(p, r, o)
       PROVE Kind
  BY <1>14 DEF Kind, Loads, Files, Finalise, Acquire, Disk
<1>15. ASSUME NEW p \in Procs, NEW r \in Runs, NEW o \in Outcomes, FinaliseRefused(p, r, o)
       PROVE Kind
  BY <1>15 DEF Kind, Quiet, Files, FinaliseRefused, Disk
<1>16. ASSUME NEW r \in Runs, Expire(r) PROVE Kind
  BY <1>16 DEF Kind, Quiet, Files, Expire
<1>17. CASE LoseStateFile
  BY <1>17 DEF Kind, Loses, LoseStateFile
<1>18. CASE UNCHANGED vars
  BY <1>18 DEF Kind, Quiet, Files, vars
<1> QED
  BY <1>1, <1>2, <1>3, <1>4, <1>5, <1>6, <1>7, <1>8, <1>9, <1>10, <1>11, <1>12, <1>13,
     <1>14, <1>15, <1>16, <1>17, <1>18 DEF Next, Step, OnRun

(***************************************************************************)
(* Every step leaves the state file no further than the dictionary and the *)
(* dictionary no further than the journal, and what View shows only grows. *)
(***************************************************************************)
LEMMA FilesStep ==
    ASSUME TypeOK, TypeOK', FilesOK, Kind
    PROVE  FilesOK' /\ Below(View, View')
<1>1. CASE Quiet
  BY <1>1 DEF Quiet, Files, FilesOK, Below, View
<1>2. CASE Loads
  BY <1>2 DEF Loads, Files, FilesOK, Below, View
<1>3. ASSUME NEW r \in Runs, NEW e \in Entry, Edits(r, e)
      PROVE  FilesOK' /\ Below(View, View')
  <2>1. mem[r].st \notin Terminal
    BY <1>3 DEF Edits, Replaceable, Active, Terminal, Outcomes
  <2>2. mem'[r] = e /\ journal'[r] = e /\ e.st # "none"
    BY <1>3 DEF Edits, TypeOK
  <2>3. \A q \in Runs : q # r => mem'[q] = mem[q] /\ journal'[q] = journal[q]
    BY <1>3 DEF Edits, TypeOK
  <2>4. Below(View, mem) /\ Below(mem, journal) /\ (~present => mem = journal)
    BY <1>3 DEF FilesOK, Edits
  <2>5. Below(mem, mem')
    BY <2>1, <2>2, <2>3 DEF Below
  <2>6. Below(View, mem')
    BY <2>4, <2>5 DEF Below
  <2>7. Below(mem', journal')
    BY <2>2, <2>3, <2>4 DEF Below
  <2>8. CASE present
    <3>1. View' = View /\ present'
      BY <1>3, <2>8 DEF Edits, View
    <3> QED
      BY <3>1, <2>6, <2>7 DEF FilesOK, Below
  <2>9. CASE ~present
    <3>1. View = journal /\ View' = journal' /\ mem' = journal'
      BY <1>3, <2>4, <2>9 DEF Edits, View, TypeOK
    <3> QED
      BY <3>1, <2>6, <2>7 DEF FilesOK, Below
  <2> QED
    BY <2>8, <2>9
<1>4. CASE Saves
  <2>1. View' = mem /\ present'
    BY <1>4 DEF Saves, View
  <2>2. Below(View, mem) /\ Below(mem, journal)
    BY <1>4 DEF FilesOK, Saves
  <2> QED
    BY <1>4, <2>1, <2>2 DEF Saves, FilesOK, Below
<1>5. CASE Loses
  BY <1>5 DEF Loses, FilesOK, Below, View
<1> QED
  BY <1>1, <1>2, <1>3, <1>4, <1>5 DEF Kind

-----------------------------------------------------------------------------
(***************************************************************************)
(* The dictionary inside a critical section is the one its call loaded:    *)
(* steps of the other processes do not touch it.                           *)
(***************************************************************************)
Ready(c) ==
    IF c.op = "enqueue"
    THEN /\ mem[c.run].st = "none"
         /\ \A q \in Runs : JobOf[q] = JobOf[c.run] => mem[q].st \notin Active
    ELSE mem[c.run].st \in Active

Revoking(c) == c.stage \in {"revoke", "revoked"}

Outside(p, c) ==
    lock # p /\ lock' = lock /\ mem' = mem /\ todo' = todo /\ c.stage \notin InLock
Inside(p, c) ==
    /\ lock' = p
    /\ c.stage = "append" => Ready(c)'
    /\ \A r \in todo' : mem'[r].st = "leased" /\ Revoking(c)
Exits(p) == lock' = Nobody /\ todo' = {}

LEMMA SectionKept ==
    ASSUME Locked, Locked', TodoOK, AppendOK, NEW p \in Procs, NEW c,
           call' = [call EXCEPT ![p] = c], Outside(p, c) \/ Inside(p, c) \/ Exits(p)
    PROVE  TodoOK' /\ AppendOK'
<1>1. call'[p] = c /\ \A q \in Procs : q # p => call'[q] = call[q]
  BY CallAt DEF Locked
<1>2. p # Nobody
  BY RunQueueAssumption
<1>3. \A q \in Procs : call'[q].stage = "append" => lock' = q
  BY DEF Locked, LockOK, InLock
<1>4. \A q \in Procs : q # Nobody
  BY RunQueueAssumption
<1>5. CASE Outside(p, c)
  <2>1. c.stage # "append"
    BY <1>5 DEF Outside, InLock
  <2>2. TodoOK'
    BY <1>1, <1>5 DEF TodoOK, Outside
  <2>3. AppendOK'
    BY <1>1, <1>5, <2>1 DEF AppendOK, Outside
  <2> QED
    BY <2>2, <2>3
<1>6. CASE Inside(p, c)
  <2>1. TodoOK'
    BY <1>1, <1>2, <1>6 DEF TodoOK, Inside, Revoking
  <2>2. AppendOK'
    BY <1>1, <1>3, <1>6 DEF AppendOK, Inside, Ready
  <2> QED
    BY <2>1, <2>2
<1>7. CASE Exits(p)
  BY <1>3, <1>4, <1>7 DEF TodoOK, AppendOK, Exits
<1> QED
  BY <1>5, <1>6, <1>7

\* A section past its revoke pass has nothing left to visit.
LEMMA NothingToVisit ==
    ASSUME TodoOK, NEW p \in Procs, lock = p, ~Revoking(call[p])
    PROVE  todo = {}
BY DEF TodoOK, Revoking

LEMMA TodoFree == ASSUME TodoOK, lock = Nobody PROVE todo = {}
BY DEF TodoOK

\* A call that loads the dictionary and goes straight to its append.
LEMMA LoadReady ==
    ASSUME Locked, Locked', TodoOK, AppendOK, NEW p \in Procs, NEW op, NEW r, NEW strict,
           Acquire(p, op, r, "append", strict), todo' = todo,
           View[r].st \in Active \/
             (/\ op = "enqueue" /\ View[r].st = "none"
              /\ \A q \in Runs : JobOf[q] = JobOf[r] => View[q].st \notin Active),
           op = "enqueue" => View[r].st = "none"
    PROVE  TodoOK' /\ AppendOK'
<1> DEFINE c == [op |-> op, run |-> r, stage |-> "append", strict |-> strict]
<1>1. call' = [call EXCEPT ![p] = c] /\ lock' = p /\ mem' = View /\ todo' = {}
  BY TodoFree DEF Acquire
<1>2. Ready(c)'
  BY <1>1 DEF Ready, Active
<1>3. Inside(p, c)
  BY <1>1, <1>2 DEF Inside
<1> HIDE DEF c
<1> QED
  BY <1>1, <1>3, SectionKept

LEMMA TodoAppendStep ==
    ASSUME Locked, Locked', FilesOK, TodoOK, AppendOK, [Next]_vars
    PROVE  TodoOK' /\ AppendOK'
<1>0. TypeOK /\ LockOK /\ CallOK /\ \A p \in Procs : p # Nobody
  BY RunQueueAssumption DEF Locked
<1>1. ASSUME NEW p \in Procs, TakeNextRun(p) PROVE TodoOK' /\ AppendOK'
  <2> DEFINE c == [op |-> "take", run |-> NoRun, stage |-> "revoke", strict |-> FALSE]
  <2>1. call' = [call EXCEPT ![p] = c] /\ Inside(p, c)
    BY <1>1 DEF TakeNextRun, Acquire, Inside, Revoking
  <2> HIDE DEF c
  <2> QED
    BY <2>1, SectionKept
<1>2. ASSUME NEW p \in Procs, PickOldest(p) PROVE TodoOK' /\ AppendOK'
  <2>1. CASE Release /\ Return(p)
    <3>1. Exits(p) /\ call' = [call EXCEPT ![p] = Idle]
      BY <1>2, <2>1 DEF PickOldest, Release, Return, Exits
    <3> QED
      BY <3>1, SectionKept
  <2>2. ASSUME NEW r \in Runs, IsOldest(p, r), call' = [call EXCEPT ![p] = At(call[p], r, "append")],
               UNCHANGED <<lock, mem>>
        PROVE  TodoOK' /\ AppendOK'
    <3>1. mem'[r].st = "pending" /\ call[p].op = "take"
      BY <1>2, <1>0, <2>2 DEF PickOldest, CallOK, IsOldest, Pending
    <3>2. Ready(At(call[p], r, "append"))'
      BY <2>2, <3>1, <1>2, <1>0 DEF Ready, At, Active
    <3>3. Inside(p, At(call[p], r, "append"))
      BY <1>2, <2>2, <3>2 DEF PickOldest, Inside
    <3> QED
      BY <2>2, <3>3, SectionKept
  <2> QED
    BY <1>2, <2>1, <2>2 DEF PickOldest
<1>3. ASSUME NEW p \in Procs, AppendQueueEvent(p) PROVE TodoOK' /\ AppendOK'
  <2> DEFINE c == At(call[p], call[p].run, "save")
  <2>1. call' = [call EXCEPT ![p] = c] /\ lock' = p /\ todo' = todo
    BY <1>3 DEF AppendQueueEvent, Advance
  <2>2. todo = {}
    BY <1>3, NothingToVisit DEF AppendQueueEvent, Revoking
  <2>3. Inside(p, c)
    BY <2>1, <2>2 DEF Inside, At
  <2> HIDE DEF c
  <2> QED
    BY <2>1, <2>3, SectionKept
<1>4. ASSUME NEW p \in Procs, SaveState(p) PROVE TodoOK' /\ AppendOK'
  <2> DEFINE c == At(call[p], call[p].run, "lease")
  <2>1. todo = {} /\ todo' = todo
    BY <1>4, NothingToVisit DEF SaveState, Revoking
  <2>2. \/ call' = [call EXCEPT ![p] = Idle] /\ Exits(p)
        \/ call' = [call EXCEPT ![p] = c] /\ Inside(p, c)
    BY <1>4, <2>1 DEF SaveState, Advance, Return, Release, Exits, Inside, At
  <2> HIDE DEF c
  <2> QED
    BY <2>2, SectionKept
<1>5. ASSUME NEW p \in Procs, WriteOrDropLease(p) PROVE TodoOK' /\ AppendOK'
  <2>1. todo = {}
    BY <1>5, NothingToVisit DEF WriteOrDropLease, Revoking
  <2>2. Exits(p)
    BY <1>5, <2>1 DEF WriteOrDropLease, Release, Exits
  <2>3. \E c : call' = [call EXCEPT ![p] = c]
    BY <1>5 DEF WriteOrDropLease, Advance
  <2> QED
    BY <2>2, <2>3, SectionKept
<1>6. ASSUME NEW p \in Procs, JournalEffect(p) PROVE TodoOK' /\ AppendOK'
  <2>1. call' = [call EXCEPT ![p] = Idle] /\ Outside(p, Idle)
    BY <1>6, <1>0, IdleSound DEF JournalEffect, Return, Outside, LockOK, InLock
  <2> QED
    BY <2>1, SectionKept
<1>7. ASSUME NEW p \in Procs, Crash(p) PROVE TodoOK' /\ AppendOK'
  <2>1. call' = [call EXCEPT ![p] = Idle] /\ (Exits(p) \/ Outside(p, Idle))
    BY <1>7, IdleSound DEF Crash, Release, Exits, Outside
  <2> QED
    BY <2>1, SectionKept
<1>8. ASSUME NEW p \in Procs, NEW r \in Runs, EnqueueRun(p, r) PROVE TodoOK' /\ AppendOK'
  <2>1. journal[r].st = "none"
    BY <1>8 DEF EnqueueRun, Runs
  <2>2. View[r].st = "none"
    BY <2>1 DEF FilesOK, Below
  <2> QED
    BY <1>8, <2>2, LoadReady DEF EnqueueRun
<1>9. ASSUME NEW p \in Procs, NEW r \in Runs, RevokeOne(p, r) PROVE TodoOK' /\ AppendOK'
  <2>1. CASE Stale(r)
    <3> DEFINE c == At(call[p], call[p].run, "revoked")
    <3>1. call' = [call EXCEPT ![p] = c] /\ lock' = p
      BY <1>9, <2>1 DEF RevokeOne, Advance
    <3>2. \A q \in todo' : q \in Runs /\ q # r /\ mem[q].st = "leased"
      BY <1>9, <1>0 DEF RevokeOne, TodoOK, TypeOK
    <3>3. \A q \in todo' : mem'[q].st = "leased"
      BY <1>9, <2>1, <3>2, <1>0 DEF RevokeOne, TypeOK
    <3>4. Inside(p, c)
      BY <3>1, <3>3 DEF Inside, At, Revoking
    <3> HIDE DEF c
    <3> QED
      BY <3>1, <3>4, SectionKept
  <2>2. CASE ~Stale(r)
    <3>1. lock' = lock /\ mem' = mem /\ call' = call /\ todo' \subseteq todo
      BY <1>9, <2>2 DEF RevokeOne
    <3> QED
      BY <3>1 DEF TodoOK, AppendOK
  <2> QED
    BY <2>1, <2>2
<1>10. ASSUME NEW p \in Procs, NEW r \in Runs, RenewLease(p, r) PROVE TodoOK' /\ AppendOK'
  BY <1>10 DEF RenewLease, TodoOK, AppendOK
<1>11. ASSUME NEW p \in Procs, NEW r \in Runs, CancelRun(p, r) PROVE TodoOK' /\ AppendOK'
  BY <1>11, LoadReady DEF CancelRun
<1>12. ASSUME NEW p \in Procs, NEW r \in Runs, ResumeRun(p, r) PROVE TodoOK' /\ AppendOK'
  BY <1>12, LoadReady DEF ResumeRun, Active
<1>13. ASSUME NEW p \in Procs, NEW r \in Runs, NEW o \in Outcomes, AssertLeaseOwned(p, r, o)
       PROVE TodoOK' /\ AppendOK'
  <2> DEFINE c == [op |-> o, run |-> r, stage |-> "owned", strict |-> TRUE]
  <2>1. call[p].stage \notin InLock
    BY <1>13, IdleSound DEF AssertLeaseOwned, May
  <2>2. call' = [call EXCEPT ![p] = c] /\ Outside(p, c)
    BY <1>13, <1>0, <2>1 DEF AssertLeaseOwned, LockOK, Outside, InLock
  <2> HIDE DEF c
  <2> QED
    BY <2>2, SectionKept
<1>14. ASSUME NEW p \in Procs, NEW r \in Runs, NEW o \in Outcomes, Finalise(p, r, o)
       PROVE TodoOK' /\ AppendOK'
  BY <1>14, LoadReady DEF Finalise, Outcomes
<1>15. ASSUME NEW p \in Procs, NEW r \in Runs, NEW o \in Outcomes, FinaliseRefused(p, r, o)
       PROVE TodoOK' /\ AppendOK'
  <2>1. call' = [call EXCEPT ![p] = Idle] /\ Outside(p, Idle)
    BY <1>15, <1>0, IdleSound DEF FinaliseRefused, Return, Outside
  <2> QED
    BY <2>1, SectionKept
<1>16. ASSUME NEW r \in Runs, Expire(r) PROVE TodoOK' /\ AppendOK'
  BY <1>16 DEF Expire, TodoOK, AppendOK
<1>17. CASE LoseStateFile
  BY <1>17 DEF LoseStateFile, TodoOK, AppendOK
<1>18. CASE UNCHANGED vars
  BY <1>18 DEF vars, TodoOK, AppendOK
<1> QED
  BY <1>1, <1>2, <1>3, <1>4, <1>5, <1>6, <1>7, <1>8, <1>9, <1>10, <1>11, <1>12, <1>13,
     <1>14, <1>15, <1>16, <1>17, <1>18 DEF Next, Step, OnRun

-----------------------------------------------------------------------------
(***************************************************************************)
(* One active run per job, as long as the state file is not lost.          *)
(***************************************************************************)
LEMMA EditKeepsOneActive ==
    ASSUME TypeOK, OneActive(mem), NEW r \in Runs, NEW e \in Entry, Edits(r, e)
    PROVE  OneActive(mem')
<1>1. \A q \in Runs : q # r => mem'[q] = mem[q]
  BY DEF Edits, TypeOK
<1>2. ASSUME NEW q \in Runs, q # r, mem[q].st \in Active, JobOf[q] = JobOf[r]
      PROVE  FALSE
  BY <1>2 DEF OneActive, Edits, Replaceable
<1> QED
  BY <1>1, <1>2 DEF OneActive

LEMMA JobsStep ==
    ASSUME TypeOK, FilesOK, JobsOK, Kind
    PROVE  JobsOK'
<1> SUFFICES ASSUME ~StateLoss PROVE OneActive(View') /\ OneActive(mem')
  BY DEF JobsOK, OneActive, View
<1>0. OneActive(View) /\ OneActive(mem)
  BY DEF JobsOK
<1>e. OneActive(Empty)
  BY DEF OneActive, Empty, NoEntry, Active
<1>1. CASE Quiet
  <2>1. View' = View
    BY <1>1 DEF Quiet, Files, View
  <2>2. mem' = Empty \/ mem' = mem
    BY <1>1 DEF Quiet
  <2> QED
    BY <2>1, <2>2, <1>0, <1>e
<1>2. CASE Loads
  <2>1. View' = View /\ mem' = View
    BY <1>2 DEF Loads, Files, View
  <2> QED
    BY <2>1, <1>0
<1>3. ASSUME NEW r \in Runs, NEW e \in Entry, Edits(r, e)
      PROVE  OneActive(View') /\ OneActive(mem')
  <2>1. OneActive(mem')
    BY <1>0, <1>3, EditKeepsOneActive
  <2>2. View' = View \/ View' = mem'
    BY <1>3 DEF Edits, View, FilesOK
  <2> QED
    BY <1>0, <2>1, <2>2
<1>4. CASE Saves
  <2>1. View' = mem /\ (mem' = Empty \/ mem' = mem)
    BY <1>4 DEF Saves, View
  <2> QED
    BY <2>1, <1>0, <1>e
<1>5. CASE Loses
  BY <1>5 DEF Loses
<1> QED
  BY <1>1, <1>2, <1>3, <1>4, <1>5 DEF Kind

-----------------------------------------------------------------------------
(***************************************************************************)
(* The effect ledger.  A finishing call is the only one of its run that    *)
(* got past the terminal check, so only it can write the run's effect.     *)
(***************************************************************************)
Finisher(c) == c.op \in Outcomes /\ c.stage \in {"save", "lease", "effect"}

\* p's call becomes c and, if c finishes a run, it may write the run's effect.
MayFinish(p, c) ==
    Finisher(c) =>
        /\ effects[c.run] = <<>>
        /\ c.stage = "save" => mem'[c.run].st = c.op
        /\ c.stage # "save" => View'[c.run].st = c.op
        /\ \A q \in Procs : q # p /\ Finishing(q) => call[q].run # c.run

LEMMA EffectsKept ==
    ASSUME Locked, Locked', EffectsOK, Below(View, View'), NEW p \in Procs, NEW c,
           call' = [call EXCEPT ![p] = c], mem' = mem \/ lock \in {p, Nobody},
           effects' = effects, MayFinish(p, c)
    PROVE  EffectsOK'
<1>0. call'[p] = c /\ \A q \in Procs : q # p => call'[q] = call[q]
  BY CallAt DEF Locked
<1>1. EffectsAgreeWithQueue'
  <2> SUFFICES ASSUME NEW r \in Runs
               PROVE  Len(effects[r]) <= 1 /\ (effects[r] # <<>> => View'[r].st = effects[r][1])
    BY DEF EffectsAgreeWithQueue, View
  <2>1. Len(effects[r]) <= 1 /\ (effects[r] # <<>> => View[r].st = effects[r][1])
    BY DEF EffectsOK, EffectsAgreeWithQueue
  <2>2. effects[r] # <<>> => effects[r][1] \in Outcomes
    BY <2>1 DEF Locked, TypeOK
  <2> QED
    BY <2>1, <2>2 DEF Below, Terminal
<1>2. ASSUME NEW q \in Procs, q # p, Finishing(q)
      PROVE  /\ effects[call[q].run] = <<>>
             /\ call[q].stage = "save" => mem'[call[q].run].st = call[q].op
             /\ call[q].stage # "save" => View'[call[q].run].st = call[q].op
  <2>1. call[q].run \in Runs
    BY <1>2 DEF Finishing, Locked, CallOK
  <2>2. call[q].stage = "save" => mem' = mem
    <3>1. call[q].stage = "save" => lock = q
      BY DEF Locked, LockOK, InLock
    <3>2. q # Nobody
      BY RunQueueAssumption
    <3> QED
      BY <3>1, <3>2, <1>2
  <2> QED
    BY <1>2, <2>1, <2>2 DEF EffectsOK, Finishing, Below, Terminal
<1>3. \A q \in Procs : q # p => (Finishing(q)' <=> Finishing(q))
  BY <1>0 DEF Finishing
<1>4. Finishing(p)' <=> Finisher(c)
  BY <1>0 DEF Finishing, Finisher
<1>5. ASSUME NEW q \in Procs, Finishing(q)'
      PROVE  /\ effects'[call'[q].run] = <<>>
             /\ call'[q].stage = "save" => mem'[call'[q].run].st = call'[q].op
             /\ call'[q].stage # "save" => View'[call'[q].run].st = call'[q].op
             /\ \A o \in Procs : Finishing(o)' /\ call'[o].run = call'[q].run => o = q
  <2>1. CASE q = p
    BY <1>0, <1>3, <1>4, <1>5, <2>1 DEF MayFinish
  <2>2. CASE q # p
    <3>1. Finishing(q) /\ call'[q] = call[q]
      BY <1>0, <1>3, <1>5, <2>2
    <3>2. \A o \in Procs : o # p /\ Finishing(o) /\ call[o].run = call[q].run => o = q
      BY <3>1 DEF EffectsOK
    <3>3. Finishing(p)' => call'[p].run # call[q].run
      BY <1>0, <1>4, <3>1, <2>2 DEF MayFinish
    <3>4. ASSUME NEW o \in Procs, Finishing(o)', call'[o].run = call'[q].run
          PROVE  o = q
      BY <3>1, <3>2, <3>3, <3>4, <1>0, <1>3
    <3> QED
      BY <1>2, <2>2, <3>1, <3>4
  <2> QED
    BY <2>1, <2>2
<1> QED
  BY <1>1, <1>5 DEF EffectsOK, Finishing, View

\* A run whose entry may still be replaced has no effect and no other finisher.
LEMMA NotOver ==
    ASSUME Locked, FilesOK, EffectsOK, NEW p \in Procs, lock = p, NEW r \in Runs,
           mem[r].st \notin Terminal
    PROVE  /\ effects[r] = <<>>
           /\ \A q \in Procs : q # p /\ Finishing(q) => call[q].run # r
<1>1. View[r].st \notin Terminal
  <2>1. Below(View, mem)
    BY RunQueueAssumption DEF FilesOK
  <2> QED
    BY <2>1 DEF Below
<1>2. effects[r] = <<>>
  <2>1. effects[r] # <<>> => Len(effects[r]) <= 1 /\ View[r].st = effects[r][1]
    BY DEF EffectsOK, EffectsAgreeWithQueue
  <2>2. effects[r] # <<>> => effects[r][1] \in Outcomes
    BY <2>1 DEF Locked, TypeOK
  <2> QED
    BY <1>1, <2>1, <2>2 DEF Terminal
<1>3. ASSUME NEW q \in Procs, q # p, Finishing(q) PROVE call[q].run # r
  <2>1. call[q].stage # "save" /\ call[q].op \in Outcomes
    BY <1>3 DEF Finishing, Locked, LockOK, InLock
  <2>2. View[call[q].run].st = call[q].op
    BY <1>3, <2>1 DEF EffectsOK
  <2> QED
    BY <1>1, <2>1, <2>2 DEF Terminal
<1> QED
  BY <1>2, <1>3

LEMMA IdleNotFinisher == ASSUME NEW p \in Procs PROVE MayFinish(p, Idle)
BY DEF MayFinish, Finisher, Idle

LEMMA EffectsStep ==
    ASSUME Locked, Locked', FilesOK, AppendOK, EffectsOK, Below(View, View'), [Next]_vars
    PROVE  EffectsOK'
<1>0. TypeOK /\ LockOK /\ CallOK /\ \A p \in Procs : p # Nobody
  BY RunQueueAssumption DEF Locked
<1>a. ASSUME NEW p \in Procs, NEW op, NEW r, NEW stage, NEW strict,
             Acquire(p, op, r, stage, strict), effects' = effects, stage \in {"append", "revoke"}
      PROVE  EffectsOK'
  <2> DEFINE c == [op |-> op, run |-> r, stage |-> stage, strict |-> strict]
  <2>1. call' = [call EXCEPT ![p] = c] /\ lock \in {p, Nobody}
    BY <1>a DEF Acquire
  <2>2. MayFinish(p, c)
    BY <1>a DEF MayFinish, Finisher
  <2> HIDE DEF c
  <2> QED
    BY <1>a, <2>1, <2>2, EffectsKept
<1>1. ASSUME NEW p \in Procs, TakeNextRun(p) PROVE EffectsOK'
  BY <1>1, <1>a DEF TakeNextRun
<1>2. ASSUME NEW p \in Procs, PickOldest(p) PROVE EffectsOK'
  <2>1. PICK c : call' = [call EXCEPT ![p] = c] /\ (c = Idle \/ \E r \in Runs : c = At(call[p], r, "append"))
    BY <1>2 DEF PickOldest, Return
  <2>2. MayFinish(p, c)
    BY <2>1, IdleNotFinisher DEF MayFinish, Finisher, At
  <2> QED
    BY <1>2, <2>1, <2>2, EffectsKept DEF PickOldest
<1>3. ASSUME NEW p \in Procs, AppendQueueEvent(p) PROVE EffectsOK'
  <2> DEFINE c == At(call[p], call[p].run, "save")
  <2>1. call' = [call EXCEPT ![p] = c] /\ lock = p /\ effects' = effects
    BY <1>3 DEF AppendQueueEvent, Advance
  <2>2. call[p].run \in Runs
    BY <1>3, <1>0 DEF AppendQueueEvent, CallOK
  <2>3. mem[call[p].run].st \notin Terminal
    BY <1>3 DEF AppendQueueEvent, AppendOK, Active, Terminal, Outcomes
  <2>4. mem'[call[p].run] = NewEntry(p)
    BY <1>3, <1>0, <2>2 DEF AppendQueueEvent, TypeOK
  <2>5. call[p].op \in Outcomes => NewEntry(p).st = call[p].op
    BY DEF NewEntry, Written, Outcomes
  <2>6. MayFinish(p, c)
    BY <2>1, <2>2, <2>3, <2>4, <2>5, NotOver DEF MayFinish, Finisher, At
  <2> HIDE DEF c
  <2> QED
    BY <2>1, <2>6, EffectsKept
<1>4. ASSUME NEW p \in Procs, SaveState(p) PROVE EffectsOK'
  <2> DEFINE c == At(call[p], call[p].run, "lease")
  <2>1. /\ call' = [call EXCEPT ![p] = Idle] \/ call' = [call EXCEPT ![p] = c]
        /\ lock = p /\ effects' = effects /\ View' = mem
    BY <1>4 DEF SaveState, Advance, Return, View
  <2>2. call[p].op \in Outcomes => Finishing(p)
    BY <1>4 DEF SaveState, Finishing
  <2>3. MayFinish(p, c)
    BY <1>4, <2>1, <2>2 DEF SaveState, MayFinish, Finisher, At, EffectsOK
  <2> HIDE DEF c
  <2> QED
    BY <2>1, <2>3, EffectsKept, IdleNotFinisher
<1>5. ASSUME NEW p \in Procs, WriteOrDropLease(p) PROVE EffectsOK'
  <2> DEFINE c == At(call[p], call[p].run, "effect")
  <2>1. /\ call' = [call EXCEPT ![p] = Idle] \/ call' = [call EXCEPT ![p] = c]
        /\ lock = p /\ effects' = effects /\ View' = View
    BY <1>5 DEF WriteOrDropLease, Advance, View
  <2>2. call[p].op \in Outcomes => Finishing(p)
    BY <1>5 DEF WriteOrDropLease, Finishing
  <2>3. MayFinish(p, c)
    BY <1>5, <2>1, <2>2 DEF WriteOrDropLease, MayFinish, Finisher, At, EffectsOK
  <2> HIDE DEF c
  <2> QED
    BY <2>1, <2>3, EffectsKept, IdleNotFinisher
<1>6. ASSUME NEW p \in Procs, JournalEffect(p) PROVE EffectsOK'
  <2>1. call' = [call EXCEPT ![p] = Idle] /\ mem' = mem /\ View' = View
    BY <1>6 DEF JournalEffect, Return, Disk, View
  <2>2. CASE effects' = effects
    BY <2>1, <2>2, EffectsKept, IdleNotFinisher
  <2>3. CASE effects' = [effects EXCEPT ![call[p].run] = Append(@, call[p].op)]
    <3>1. call[p].run \in Runs /\ Finishing(p) /\ call[p].stage = "effect"
      BY <1>6, <1>0 DEF JournalEffect, CallOK, Finishing
    <3>2. effects[call[p].run] = <<>> /\ View[call[p].run].st = call[p].op
      BY <3>1 DEF EffectsOK
    <3>3. effects'[call[p].run] = <<call[p].op>>
      BY <2>3, <3>1, <3>2, <1>0 DEF TypeOK
    <3>4. \A r \in Runs : r # call[p].run => effects'[r] = effects[r]
      BY <2>3, <1>0 DEF TypeOK
    <3>5. EffectsAgreeWithQueue'
      <4>1. EffectsAgreeWithQueue
        BY DEF EffectsOK
      <4> SUFFICES ASSUME NEW r \in Runs
                   PROVE  /\ Len(effects'[r]) <= 1
                          /\ effects'[r] # <<>> => View'[r].st = effects'[r][1]
        BY DEF EffectsAgreeWithQueue, View
      <4>2. CASE r = call[p].run
        <5> DEFINE o == call[p].op
        <5>1. effects'[r] = <<o>> /\ View'[r].st = o
          BY <2>1, <3>2, <3>3, <4>2
        <5>2. Len(<<o>>) = 1 /\ <<o>>[1] = o
          OBVIOUS
        <5> HIDE DEF o
        <5> QED
          BY <5>1, <5>2
      <4>3. CASE r # call[p].run
        BY <2>1, <3>4, <4>1, <4>3 DEF EffectsAgreeWithQueue
      <4> QED
        BY <4>2, <4>3
    <3>6. call'[p] = Idle /\ \A q \in Procs : q # p => call'[q] = call[q]
      BY <2>1, <1>0, CallAt
    <3>7. \A q \in Procs : Finishing(q)' => q # p /\ Finishing(q) /\ call'[q] = call[q]
      BY <3>6 DEF Finishing, Idle
    <3>8. \A q \in Procs : q # p /\ Finishing(q) => call[q].run # call[p].run /\ call[q].run \in Runs
      BY <3>1, <1>0 DEF EffectsOK, Finishing, CallOK
    <3>9. ASSUME NEW q \in Procs, Finishing(q)'
          PROVE  /\ effects'[call'[q].run] = <<>>
                 /\ call'[q].stage = "save" => mem'[call'[q].run].st = call'[q].op
                 /\ call'[q].stage # "save" => View'[call'[q].run].st = call'[q].op
                 /\ \A o \in Procs : Finishing(o)' /\ call'[o].run = call'[q].run => o = q
      <4>1. q # p /\ Finishing(q) /\ call'[q] = call[q]
        BY <3>7, <3>9
      <4>2. effects'[call[q].run] = effects[call[q].run]
        BY <3>4, <3>8, <4>1
      <4>3. /\ effects[call[q].run] = <<>>
            /\ call[q].stage = "save" => mem[call[q].run].st = call[q].op
            /\ call[q].stage # "save" => View[call[q].run].st = call[q].op
            /\ \A o \in Procs : Finishing(o) /\ call[o].run = call[q].run => o = q
        BY <4>1 DEF EffectsOK
      <4> QED
        BY <2>1, <3>7, <4>1, <4>2, <4>3
    <3> QED
      BY <3>5, <3>9 DEF EffectsOK, Finishing, View
  <2> QED
    BY <1>6, <2>2, <2>3 DEF JournalEffect
<1>7. ASSUME NEW p \in Procs, Crash(p) PROVE EffectsOK'
  BY <1>7, EffectsKept, IdleNotFinisher DEF Crash
<1>8. ASSUME NEW p \in Procs, NEW r \in Runs, EnqueueRun(p, r) PROVE EffectsOK'
  BY <1>8, <1>a DEF EnqueueRun
<1>9. ASSUME NEW p \in Procs, NEW r \in Runs, RevokeOne(p, r) PROVE EffectsOK'
  <2>1. CASE Stale(r)
    <3> DEFINE c == At(call[p], call[p].run, "revoked")
    <3>1. call' = [call EXCEPT ![p] = c] /\ lock = p /\ effects' = effects
      BY <1>9, <2>1 DEF RevokeOne, Advance
    <3>2. MayFinish(p, c)
      BY DEF MayFinish, Finisher, At
    <3> HIDE DEF c
    <3> QED
      BY <3>1, <3>2, EffectsKept
  <2>2. CASE ~Stale(r)
    <3>1. UNCHANGED <<call, mem, journal, present, saved, effects>>
      BY <1>9, <2>2 DEF RevokeOne
    <3> QED
      BY <3>1 DEF EffectsOK, EffectsAgreeWithQueue, Finishing, View
  <2> QED
    BY <2>1, <2>2
<1>10. ASSUME NEW p \in Procs, NEW r \in Runs, RenewLease(p, r) PROVE EffectsOK'
  BY <1>10 DEF RenewLease, EffectsOK, EffectsAgreeWithQueue, Finishing, View
<1>11. ASSUME NEW p \in Procs, NEW r \in Runs, CancelRun(p, r) PROVE EffectsOK'
  BY <1>11, <1>a DEF CancelRun
<1>12. ASSUME NEW p \in Procs, NEW r \in Runs, ResumeRun(p, r) PROVE EffectsOK'
  BY <1>12, <1>a DEF ResumeRun
<1>13. ASSUME NEW p \in Procs, NEW r \in Runs, NEW o \in Outcomes, AssertLeaseOwned(p, r, o)
       PROVE EffectsOK'
  <2> DEFINE c == [op |-> o, run |-> r, stage |-> "owned", strict |-> TRUE]
  <2>1. call' = [call EXCEPT ![p] = c] /\ mem' = mem /\ effects' = effects
    BY <1>13 DEF AssertLeaseOwned
  <2>2. MayFinish(p, c)
    BY DEF MayFinish, Finisher
  <2> HIDE DEF c
  <2> QED
    BY <2>1, <2>2, EffectsKept
<1>14. ASSUME NEW p \in Procs, NEW r \in Runs, NEW o \in Outcomes, Finalise(p, r, o)
       PROVE EffectsOK'
  BY <1>14, <1>a DEF Finalise
<1>15. ASSUME NEW p \in Procs, NEW r \in Runs, NEW o \in Outcomes, FinaliseRefused(p, r, o)
       PROVE EffectsOK'
  BY <1>15, EffectsKept, IdleNotFinisher DEF FinaliseRefused, Return
<1>16. ASSUME NEW r \in Runs, Expire(r) PROVE EffectsOK'
  BY <1>16 DEF Expire, EffectsOK, EffectsAgreeWithQueue, Finishing, View
<1>17. CASE LoseStateFile
  <2>1. UNCHANGED <<call, mem, effects, lock>> /\ lock = Nobody
    BY <1>17 DEF LoseStateFile
  <2>2. \A q \in Procs : call[q].stage \notin InLock
    BY <1>0, <2>1 DEF LockOK, InLock
  <2>3. EffectsAgreeWithQueue'
    <3> SUFFICES ASSUME NEW r \in Runs
                 PROVE  Len(effects[r]) <= 1 /\ (effects[r] # <<>> => View'[r].st = effects[r][1])
      BY <2>1 DEF EffectsAgreeWithQueue, View
    <3>1. Len(effects[r]) <= 1 /\ (effects[r] # <<>> => View[r].st = effects[r][1])
      BY DEF EffectsOK, EffectsAgreeWithQueue
    <3>2. effects[r] # <<>> => effects[r][1] \in Outcomes
      BY <3>1, <1>0 DEF TypeOK
    <3> QED
      BY <3>1, <3>2 DEF Below, Terminal
  <2>4. \A q \in Procs : Finishing(q) => call[q].run \in Runs /\ call[q].op \in Terminal
    BY <1>0 DEF Finishing, CallOK, Terminal
  <2>5. \A q \in Procs : Finishing(q) => View'[call[q].run].st = call[q].op
    BY <2>2, <2>4 DEF EffectsOK, Finishing, InLock, Below
  <2> QED
    BY <2>1, <2>2, <2>3, <2>5 DEF EffectsOK, Finishing, InLock, View
<1>18. CASE UNCHANGED vars
  BY <1>18 DEF vars, EffectsOK, EffectsAgreeWithQueue, Finishing, View
<1> QED
  BY <1>1, <1>2, <1>3, <1>4, <1>5, <1>6, <1>7, <1>8, <1>9, <1>10, <1>11, <1>12, <1>13,
     <1>14, <1>15, <1>16, <1>17, <1>18 DEF Next, Step, OnRun

-----------------------------------------------------------------------------
(***************************************************************************)
(* Every step of the queue keeps the invariant, and what _load_state would *)
(* return afterwards extends what it would have returned before.           *)
(***************************************************************************)
THEOREM Inductive == IInv /\ [Next]_vars => IInv' /\ Below(View, View')
<1> SUFFICES ASSUME IInv, [Next]_vars PROVE IInv' /\ Below(View, View')
  OBVIOUS
<1>1. Locked /\ Locked'
  BY TypeStep, SectionStep DEF IInv, Locked
<1>2. Kind
  BY <1>1, StepKind DEF IInv
<1>3. FilesOK' /\ Below(View, View')
  BY <1>1, <1>2, FilesStep DEF IInv, Locked
<1>4. TodoOK' /\ AppendOK'
  BY <1>1, TodoAppendStep DEF IInv
<1>5. JobsOK'
  BY <1>2, JobsStep DEF IInv
<1>6. EffectsOK'
  BY <1>1, <1>3, EffectsStep DEF IInv
<1> QED
  BY <1>1, <1>3, <1>4, <1>5, <1>6 DEF IInv, Locked

LEMMA InitInv == Init => IInv
<1> SUFFICES ASSUME Init PROVE IInv
  OBVIOUS
<1>1. TypeOK
  BY TypeInit
<1>2. LockOK /\ CallOK /\ TodoOK /\ AppendOK
  BY RunQueueAssumption DEF Init, Idle, LockOK, CallOK, InLock, TodoOK, AppendOK
<1>3. FilesOK
  BY DEF Init, FilesOK, Below, View
<1>4. JobsOK
  BY DEF Init, JobsOK, OneActive, View, Empty, NoEntry, Active
<1>5. EffectsOK
  BY DEF Init, EffectsOK, EffectsAgreeWithQueue, Finishing, Idle
<1> QED
  BY <1>1, <1>2, <1>3, <1>4, <1>5 DEF IInv

\* The invariant holds in every reachable state of the queue.
THEOREM Invariance == Spec => []IInv
BY InitInv, Inductive, PTL DEF Spec

(***************************************************************************)
(* A finished or cancelled run is final and an accepted run is never       *)
(* forgotten, whatever the number of deaths and of state files lost.       *)
(***************************************************************************)
THEOREM FinishedRunsAreFinal == Spec => RunsAreNeverRevived
<1>1. ASSUME IInv, [Next]_vars
      PROVE  [\A r \in Runs : /\ View[r].st \in Terminal => View'[r] = View[r]
                              /\ View[r].st # "none" => View'[r].st # "none"]_vars
  BY <1>1, Inductive DEF Below
<1> QED
  BY <1>1, Invariance, PTL DEF Spec, RunsAreNeverRevived

(***************************************************************************)
(* The chain's effect-observed events can be reconciled with the queue.    *)
(***************************************************************************)
THEOREM EffectLedgerReconciles == Spec => []EffectsAgreeWithQueue
<1>1. IInv => EffectsAgreeWithQueue
  BY DEF IInv, EffectsOK
<1> QED
  BY <1>1, Invariance, PTL

(***************************************************************************)
(* As long as the state file is not lost, a (folder, workflow) pair never  *)
(* has two runs that are queued or running.                                *)
(***************************************************************************)
THEOREM OneRunAtATime ==
    ASSUME ~StateLoss
    PROVE  Spec => []OneActiveRunPerJob
<1>1. IInv => OneActiveRunPerJob
  BY DEF IInv, JobsOK, OneActive, OneActiveRunPerJob
<1> QED
  BY <1>1, Invariance, PTL

-----------------------------------------------------------------------------
(***************************************************************************)
(* Leases.  The holder of the lock has the dictionary of the state file in *)
(* hand when it starts, picks a run and drops or writes a lease; only the  *)
(* revoke pass and the append run ahead of the file.                       *)
(***************************************************************************)
CopiesOK ==
    lock # Nobody =>
        LET c == call[lock]
        IN  /\ c.stage \in {"revoke", "append", "lease"} => mem = View
            /\ c.stage = "append" /\ c.op = "take" => mem[c.run].st = "pending"
            /\ c.stage = "lease" => c.op # "enqueue"
            /\ c.stage \in {"save", "lease"} /\ c.op = "take" =>
                  /\ mem[c.run] = [st |-> "leased", to |-> lock]
                  /\ journal[c.run] = mem[c.run]

\* The lock holder has appended its entry of r and not yet reached the lease.
Writing(r)  == lock # Nobody /\ call[lock].run = r /\ call[lock].stage \in {"save", "lease"}
Taking(r)   == Writing(r) /\ call[lock].op = "take"
Dropping(r) == Writing(r) /\ call[lock].op \notin {"take", "enqueue"}

Current == IF lock = Nobody THEN View ELSE mem

Named(e, r) == lease[r] # NoLease /\ e.st = "leased" => e.to = lease[r].holder

\* Where one process dies at most: a lease file names the lessee of every entry
\* that says leased, on disk and in memory; until it dies only leased runs have one.
LeaseOK ==
  MaxCrashes <= 1 =>
    /\ \A r \in Runs : ~Taking(r) => Named(View[r], r) /\ Named(journal[r], r) /\ Named(Current[r], r)
    /\ crashes = 0 => \A r \in Runs :
          /\ Taking(r) => lease[r] = NoLease
          /\ lease[r] # NoLease => Current[r].st = "leased" \/ Dropping(r)

\* Until a process dies the journal is what the state file or the holder has.
SyncOK == crashes = 0 => journal = Current

LeasesOK == CopiesOK /\ LeaseOK /\ SyncOK

\* A step that leaves the files and the lock holder alone; a lease may expire or
\* be renewed.
LEMMA LeasesKept ==
    ASSUME LeasesOK, UNCHANGED <<journal, present, saved, lock, mem>>,
           lock # Nobody => call'[lock] = call[lock],
           crashes' = 0 => crashes = 0,
           \A r \in Runs : \/ lease'[r] = lease[r]
                           \/ lease[r] # NoLease /\ lease'[r].holder = lease[r].holder
    PROVE  LeasesOK'
<1>1. View' = View /\ Current' = Current
  BY DEF View, Current
<1>2. \A r : (Taking(r)' <=> Taking(r)) /\ (Dropping(r)' <=> Dropping(r))
  BY DEF Taking, Dropping, Writing
<1>3. CopiesOK'
  BY <1>1 DEF LeasesOK, CopiesOK
<1>4. LeaseOK'
  BY <1>1, <1>2 DEF LeasesOK, LeaseOK, Named
<1>5. SyncOK'
  BY <1>1 DEF LeasesOK, SyncOK
<1> QED
  BY <1>3, <1>4, <1>5 DEF LeasesOK

\* A call that takes the lock.
LEMMA LeasesEnter ==
    ASSUME LeasesOK, TypeOK, NEW p \in Procs, NEW op, NEW run, NEW stage, NEW strict,
           Acquire(p, op, run, stage, strict), UNCHANGED <<Disk, crashes>>,
           stage \in {"revoke", "append"}, stage = "append" => op # "take"
    PROVE  LeasesOK'
<1>0. p # Nobody
  BY RunQueueAssumption
<1>1. View' = View /\ Current' = View /\ Current = View /\ mem' = View
  BY <1>0 DEF View, Current, Acquire, Disk
<1>2. call'[p].stage = stage /\ call'[p].op = op /\ lock' = p /\ lock = Nobody
  BY DEF Acquire, TypeOK
<1>3. \A r : ~Taking(r) /\ ~Taking(r)' /\ ~Dropping(r) /\ ~Dropping(r)'
  BY <1>2 DEF Taking, Dropping, Writing
<1>4. CopiesOK'
  BY <1>1, <1>2 DEF CopiesOK
<1>5. LeaseOK'
  BY <1>1, <1>3 DEF LeasesOK, LeaseOK, Named, Disk
<1>6. SyncOK'
  BY <1>1 DEF LeasesOK, SyncOK, Disk
<1> QED
  BY <1>4, <1>5, <1>6 DEF LeasesOK

LEMMA LeasesRevoke ==
    ASSUME LeasesOK, Locked, NEW p \in Procs, NEW r \in Runs, RevokeOne(p, r)
    PROVE  LeasesOK'
<1>0. p # Nobody /\ TypeOK
  BY RunQueueAssumption DEF Locked
<1>1. CASE Stale(r)
  <2> DEFINE e == [st |-> "pending", to |-> Nobody]
  <2>1. /\ mem' = [mem EXCEPT ![r] = e] /\ journal' = [journal EXCEPT ![r] = e]
        /\ lease' = [lease EXCEPT ![r] = NoLease] /\ Advance(p, "revoked")
        /\ UNCHANGED <<present, saved, lock, crashes>> /\ lock = p /\ e.st = "pending"
    BY <1>1 DEF RevokeOne
  <2>2. call'[lock'].stage = "revoked" /\ call[lock].stage \in {"revoke", "revoked"}
    BY <1>0, <2>1 DEF Advance, At, TypeOK, RevokeOne
  <2> HIDE DEF e
  <2>3. \A q : ~Taking(q) /\ ~Taking(q)' /\ ~Dropping(q) /\ ~Dropping(q)'
    BY <2>2 DEF Taking, Dropping, Writing
  <2>4. Current = mem /\ Current' = mem'
    BY <1>0, <2>1 DEF Current
  <2>5. \A q \in Runs : /\ q # r => mem'[q] = mem[q] /\ journal'[q] = journal[q] /\ lease'[q] = lease[q]
                                    /\ View'[q] = View[q]
                        /\ lease'[r] = NoLease
    BY <1>0, <2>1 DEF View, TypeOK
  <2>6. CopiesOK'
    BY <2>2 DEF CopiesOK
  <2>7. LeaseOK'
    <3> SUFFICES ASSUME MaxCrashes <= 1, NEW q \in Runs
                 PROVE  /\ Named(View[q], q)' /\ Named(journal[q], q)' /\ Named(Current[q], q)'
                        /\ crashes' = 0 /\ lease'[q] # NoLease => Current'[q].st = "leased"
      BY <2>3 DEF LeaseOK
    <3>1. CASE q = r
      BY <2>5, <3>1 DEF Named
    <3>2. CASE q # r
      BY <2>1, <2>3, <2>4, <2>5, <3>2 DEF Named, LeasesOK, LeaseOK
    <3> QED
      BY <3>1, <3>2
  <2>8. SyncOK'
    BY <2>1, <2>4 DEF LeasesOK, SyncOK
  <2> QED
    BY <2>6, <2>7, <2>8 DEF LeasesOK
<1>2. CASE ~Stale(r)
  BY <1>2, LeasesKept DEF RevokeOne
<1> QED
  BY <1>1, <1>2

LEMMA LeasesPick ==
    ASSUME LeasesOK, Locked, NEW p \in Procs, PickOldest(p)
    PROVE  LeasesOK'
<1>0. p # Nobody /\ TypeOK
  BY RunQueueAssumption DEF Locked
<1>1. lock = p /\ UNCHANGED <<journal, lease, crashes>> /\ call[p].stage \in {"revoke", "revoked"}
  BY DEF PickOldest
<1>2. View' = mem /\ Current = mem
  BY <1>0, <1>1 DEF PickOldest, View, Current, LeasesOK, CopiesOK
<1>3. \A q : ~Taking(q) /\ ~Dropping(q)
  BY <1>1 DEF Taking, Dropping, Writing
<1>4. Current' = mem /\ CopiesOK' /\ \A q : ~Taking(q)' /\ ~Dropping(q)'
  <2>1. CASE Release
    BY <1>2, <2>1 DEF Release, Current, CopiesOK, Taking, Dropping, Writing
  <2>2. ASSUME NEW r \in Runs, IsOldest(p, r), call' = [call EXCEPT ![p] = At(call[p], r, "append")],
               UNCHANGED <<lock, mem>>
        PROVE  Current' = mem /\ CopiesOK' /\ \A q : ~Taking(q)' /\ ~Dropping(q)'
    <3>1. call'[lock'].stage = "append" /\ call'[lock'].run = r
      BY <1>0, <1>1, <2>2 DEF At, TypeOK
    <3>2. mem'[r].st = "pending"
      BY <2>2 DEF IsOldest, Pending
    <3> QED
      BY <1>0, <1>1, <1>2, <2>2, <3>1, <3>2 DEF Current, CopiesOK, Taking, Dropping, Writing
  <2> QED
    BY <2>1, <2>2 DEF PickOldest
<1>5. LeaseOK'
  BY <1>1, <1>2, <1>3, <1>4 DEF LeasesOK, LeaseOK, Named
<1>6. SyncOK'
  BY <1>1, <1>2, <1>4 DEF LeasesOK, SyncOK
<1> QED
  BY <1>4, <1>5, <1>6 DEF LeasesOK

LEMMA LeasesAppend ==
    ASSUME LeasesOK, Locked, AppendOK, NEW p \in Procs, AppendQueueEvent(p)
    PROVE  LeasesOK'
<1> DEFINE op == call[p].op
           e  == NewEntry(p)
<1> PICK r \in Runs : r = call[p].run
  BY DEF Locked, CallOK, AppendQueueEvent
<1>0. p # Nobody /\ TypeOK /\ lock = p /\ call[p].stage = "append" /\ r \in Runs /\ op # "idle"
  BY RunQueueAssumption DEF Locked, CallOK, AppendQueueEvent
<1>1. /\ mem' = [mem EXCEPT ![r] = e] /\ journal' = [journal EXCEPT ![r] = e]
      /\ UNCHANGED <<present, saved, lease, lock, crashes>>
  BY DEF AppendQueueEvent
<1>2. call'[p].stage = "save" /\ call'[p].run = r /\ call'[p].op = op
  BY <1>0 DEF AppendQueueEvent, Advance, At, TypeOK
<1>3. op = "take" => e = [st |-> "leased", to |-> p] /\ mem[r].st = "pending"
  BY <1>0 DEF NewEntry, Written, LeasesOK, CopiesOK
<1>4. op # "take" => e.st # "leased"
  <2>1. op \in {"enqueue", "cancel", "resume"} \cup Outcomes \/ op = "take"
    BY <1>0 DEF TypeOK, Call, Ops
  <2> QED
    BY <2>1 DEF NewEntry, Written, Outcomes
<1>5. op = "enqueue" => mem[r].st = "none"
  BY <1>0 DEF AppendOK
<1> HIDE DEF e, op
<1>6. /\ \A q : ~Taking(q) /\ ~Dropping(q)
      /\ \A q : Taking(q)' <=> q = r /\ op = "take"
      /\ \A q : Dropping(q)' <=> q = r /\ op \notin {"take", "enqueue"}
  BY <1>0, <1>1, <1>2 DEF Taking, Dropping, Writing
<1>7. Current = mem /\ Current' = mem'
  BY <1>0, <1>1 DEF Current
<1>8. /\ mem'[r] = e /\ journal'[r] = e
      /\ View'[r] \in {View[r], e}
      /\ \A q \in Runs : q # r => mem'[q] = mem[q] /\ journal'[q] = journal[q] /\ View'[q] = View[q]
  BY <1>0, <1>1 DEF View, TypeOK
<1>9. CopiesOK'
  BY <1>0, <1>1, <1>2, <1>3, <1>8 DEF CopiesOK
<1>10. MaxCrashes <= 1 /\ crashes = 0 => lease[r] = NoLease \/ mem[r].st = "leased"
  BY <1>0, <1>6, <1>7 DEF LeasesOK, LeaseOK
<1>11. LeaseOK'
  <2> SUFFICES ASSUME MaxCrashes <= 1, NEW q \in Runs
               PROVE  /\ ~Taking(q)' => Named(View[q], q)' /\ Named(journal[q], q)' /\ Named(Current[q], q)'
                      /\ crashes' = 0 => /\ Taking(q)' => lease'[q] = NoLease
                                         /\ lease'[q] # NoLease => Current'[q].st = "leased" \/ Dropping(q)'
    BY DEF LeaseOK
  <2>1. CASE q # r
    BY <1>1, <1>6, <1>7, <1>8, <2>1 DEF LeasesOK, LeaseOK, Named
  <2>2. CASE q = r /\ op = "take"
    BY <1>1, <1>3, <1>6, <1>10, <2>2
  <2>3. CASE q = r /\ op # "take"
    <3>1. Named(View[r], r)' /\ Named(journal[r], r)' /\ Named(Current[r], r)'
      BY <1>0, <1>1, <1>4, <1>6, <1>7, <1>8, <2>3 DEF LeasesOK, LeaseOK, Named
    <3>2. crashes' = 0 /\ lease'[r] # NoLease => Dropping(r)'
      BY <1>1, <1>5, <1>6, <1>10, <2>3
    <3> QED
      BY <1>6, <2>3, <3>1, <3>2
  <2> QED
    BY <2>1, <2>2, <2>3
<1>12. SyncOK'
  BY <1>1, <1>7 DEF LeasesOK, SyncOK
<1> QED
  BY <1>9, <1>11, <1>12 DEF LeasesOK

LEMMA LeasesSave ==
    ASSUME LeasesOK, Locked, NEW p \in Procs, SaveState(p)
    PROVE  LeasesOK'
<1>0. p # Nobody /\ TypeOK /\ lock = p /\ call[p].stage = "save"
  BY RunQueueAssumption DEF Locked, SaveState
<1>1. View' = mem /\ Current = mem /\ UNCHANGED <<journal, lease, crashes>>
  BY <1>0 DEF SaveState, View, Current
<1>2. CASE call[p].op = "enqueue"
  <2>1. lock' = Nobody
    BY <1>2 DEF SaveState, Release
  <2>2. \A q : ~Taking(q) /\ ~Dropping(q) /\ ~Taking(q)' /\ ~Dropping(q)'
    BY <1>0, <1>2, <2>1 DEF Taking, Dropping, Writing
  <2>3. Current' = mem /\ CopiesOK'
    BY <1>1, <2>1 DEF Current, CopiesOK
  <2>4. LeaseOK' /\ SyncOK'
    BY <1>1, <2>2, <2>3 DEF LeasesOK, LeaseOK, Named, SyncOK
  <2> QED
    BY <2>3, <2>4 DEF LeasesOK
<1>3. CASE call[p].op # "enqueue"
  <2>1. lock' = lock /\ mem' = mem /\ call'[p].stage = "lease" /\ call'[p].op = call[p].op
        /\ call'[p].run = call[p].run
    BY <1>0, <1>3 DEF SaveState, Advance, At, TypeOK
  <2>2. \A q : (Taking(q)' <=> Taking(q)) /\ (Dropping(q)' <=> Dropping(q))
    BY <1>0, <2>1 DEF Taking, Dropping, Writing
  <2>3. Current' = mem
    BY <1>0, <2>1 DEF Current
  <2>4. CopiesOK'
    BY <1>0, <1>1, <1>3, <2>1 DEF LeasesOK, CopiesOK
  <2>5. LeaseOK' /\ SyncOK'
    BY <1>1, <2>2, <2>3 DEF LeasesOK, LeaseOK, Named, SyncOK
  <2> QED
    BY <2>4, <2>5 DEF LeasesOK
<1> QED
  BY <1>2, <1>3

LEMMA LeasesWrite ==
    ASSUME LeasesOK, Locked, NEW p \in Procs, WriteOrDropLease(p)
    PROVE  LeasesOK'
<1> PICK r \in Runs : r = call[p].run
  BY DEF Locked, CallOK, WriteOrDropLease
<1>0. p # Nobody /\ TypeOK /\ lock = p /\ call[p].stage = "lease" /\ r \in Runs
  BY RunQueueAssumption DEF Locked, CallOK, WriteOrDropLease
<1>1. View' = View /\ Current' = View /\ View = mem /\ Current = mem /\ lock' = Nobody
      /\ UNCHANGED <<journal, crashes>>
  BY <1>0 DEF WriteOrDropLease, Release, View, Current, LeasesOK, CopiesOK
<1>2. \A q \in Runs : q # r => lease'[q] = lease[q]
  BY <1>0 DEF WriteOrDropLease, TypeOK
<1>3. CASE call[p].op = "take"
  <2>1. lease'[r].holder = p
    BY <1>0, <1>3 DEF WriteOrDropLease, TypeOK
  <2>2. mem[r] = [st |-> "leased", to |-> p] /\ journal[r] = mem[r]
    BY <1>0, <1>3 DEF LeasesOK, CopiesOK
  <2>3. Named(View[r], r)' /\ Named(journal[r], r)' /\ Named(Current[r], r)' /\ Current'[r].st = "leased"
    BY <1>0, <1>1, <2>1, <2>2 DEF Named
  <2>4. \A q \in Runs : ~Taking(q)' /\ ~Dropping(q)' /\ (q # r => ~Taking(q) /\ ~Dropping(q))
    BY <1>0, <1>1 DEF Taking, Dropping, Writing
  <2>5. LeaseOK'
    BY <1>1, <1>2, <2>3, <2>4 DEF LeasesOK, LeaseOK, Named
  <2>6. CopiesOK' /\ SyncOK'
    BY <1>1 DEF LeasesOK, CopiesOK, SyncOK
  <2> QED
    BY <2>5, <2>6 DEF LeasesOK
<1>4. CASE call[p].op # "take"
  <2>1. lease'[r] = NoLease
    BY <1>0, <1>4 DEF WriteOrDropLease, TypeOK
  <2>2. \A q \in Runs : ~Taking(q)' /\ ~Dropping(q)' /\ (q # r => ~Taking(q) /\ ~Dropping(q))
    BY <1>0, <1>1 DEF Taking, Dropping, Writing
  <2>3. LeaseOK'
    BY <1>1, <1>2, <2>1, <2>2 DEF LeasesOK, LeaseOK, Named
  <2>4. CopiesOK' /\ SyncOK'
    BY <1>1 DEF LeasesOK, CopiesOK, SyncOK
  <2> QED
    BY <2>3, <2>4 DEF LeasesOK
<1> QED
  BY <1>3, <1>4

LEMMA LeasesCrash ==
    ASSUME LeasesOK, Locked, NEW p \in Procs, Crash(p)
    PROVE  LeasesOK'
<1>0. /\ p # Nobody /\ TypeOK /\ crashes' # 0 /\ UNCHANGED Disk
      /\ MaxCrashes <= 1 => crashes = 0
  BY RunQueueAssumption DEF Locked, TypeOK, Crash
<1>1. View' = View /\ \A q \in Runs : lease'[q] = lease[q] /\ journal'[q] = journal[q]
  BY <1>0 DEF View, Disk
<1>2. MaxCrashes <= 1 => \A q \in Runs : Named(View[q], q) /\ Named(journal[q], q)
  BY <1>0 DEF LeasesOK, LeaseOK, Named
<1>3. CASE lock = p
  <2>1. lock' = Nobody
    BY <1>3 DEF Crash, Release
  <2>2. Current' = View /\ CopiesOK' /\ SyncOK'
    BY <1>0, <1>1, <2>1 DEF Current, CopiesOK, SyncOK
  <2>3. LeaseOK'
    BY <1>0, <1>1, <1>2, <2>2 DEF LeaseOK, Named
  <2> QED
    BY <2>2, <2>3 DEF LeasesOK
<1>4. CASE lock # p
  <2>1. UNCHANGED <<lock, mem>> /\ (lock # Nobody => call'[lock] = call[lock])
    BY <1>0, <1>4 DEF Crash, TypeOK
  <2> QED
    BY <1>0, <1>1, <2>1, LeasesKept DEF Disk
<1> QED
  BY <1>3, <1>4

LEMMA LeasesLose ==
    ASSUME LeasesOK, Locked, LoseStateFile
    PROVE  LeasesOK'
<1>1. View' = journal /\ Current' = journal /\ lock = Nobody /\ lock' = Nobody
      /\ Current = View /\ UNCHANGED <<journal, lease, crashes>>
  BY DEF LoseStateFile, View, Current
<1>2. \A q : ~Taking(q) /\ ~Dropping(q) /\ ~Taking(q)' /\ ~Dropping(q)'
  BY <1>1 DEF Taking, Dropping, Writing
<1>3. CopiesOK' /\ SyncOK'
  BY <1>1 DEF CopiesOK, SyncOK
<1>4. LeaseOK'
  BY <1>1, <1>2 DEF LeasesOK, LeaseOK, Named, SyncOK
<1> QED
  BY <1>3, <1>4 DEF LeasesOK

LEMMA LeasesStep ==
    ASSUME LeasesOK, Locked, AppendOK, [Next]_vars
    PROVE  LeasesOK'
<1>0. TypeOK /\ LockOK /\ \A p \in Procs : p # Nobody
  BY RunQueueAssumption DEF Locked
<1>1. ASSUME NEW p \in Procs, TakeNextRun(p) PROVE LeasesOK'
  BY <1>0, <1>1, LeasesEnter DEF TakeNextRun
<1>2. ASSUME NEW p \in Procs, PickOldest(p) \/ AppendQueueEvent(p) \/ SaveState(p)
                              \/ WriteOrDropLease(p) \/ Crash(p)
      PROVE LeasesOK'
  BY <1>2, LeasesPick, LeasesAppend, LeasesSave, LeasesWrite, LeasesCrash
<1>3. ASSUME NEW p \in Procs, JournalEffect(p) PROVE LeasesOK'
  <2>1. lock # p
    BY <1>0, <1>3 DEF LockOK, InLock, JournalEffect
  <2>2. lock # Nobody => call'[lock] = call[lock]
    BY <1>0, <1>3, <2>1 DEF JournalEffect, Return, TypeOK
  <2> QED
    BY <1>3, <2>2, LeasesKept DEF JournalEffect, Disk
<1>4. ASSUME NEW p \in Procs, NEW r \in Runs, EnqueueRun(p, r) \/ CancelRun(p, r) \/ ResumeRun(p, r)
      PROVE LeasesOK'
  BY <1>0, <1>4, LeasesEnter DEF EnqueueRun, CancelRun, ResumeRun
<1>5. ASSUME NEW p \in Procs, NEW r \in Runs, RevokeOne(p, r) PROVE LeasesOK'
  BY <1>5, LeasesRevoke
<1>6. ASSUME NEW p \in Procs, NEW r \in Runs, RenewLease(p, r) PROVE LeasesOK'
  <2>1. \A q \in Runs : \/ lease'[q] = lease[q]
                        \/ lease[q] # NoLease /\ lease'[q].holder = lease[q].holder
    BY <1>0, <1>6 DEF RenewLease, TypeOK
  <2> QED
    BY <1>6, <2>1, LeasesKept DEF RenewLease
<1>7. ASSUME NEW p \in Procs, NEW r \in Runs, NEW o \in Outcomes, AssertLeaseOwned(p, r, o)
      PROVE LeasesOK'
  <2>1. lock # p
    BY <1>0, <1>7 DEF LockOK, InLock, AssertLeaseOwned, May, Idle
  <2>2. lock # Nobody => call'[lock] = call[lock]
    BY <1>0, <1>7, <2>1 DEF AssertLeaseOwned, TypeOK
  <2> QED
    BY <1>7, <2>2, LeasesKept DEF AssertLeaseOwned, Disk
<1>8. ASSUME NEW p \in Procs, NEW r \in Runs, NEW o \in Outcomes, Finalise(p, r, o)
      PROVE LeasesOK'
  <2>1. o # "take"
    BY DEF Outcomes
  <2> QED
    BY <1>0, <1>8, <2>1, LeasesEnter DEF Finalise
<1>9. ASSUME NEW p \in Procs, NEW r \in Runs, NEW o \in Outcomes, FinaliseRefused(p, r, o)
      PROVE LeasesOK'
  BY <1>9, LeasesKept DEF FinaliseRefused, Disk
<1>10. ASSUME NEW r \in Runs, Expire(r) PROVE LeasesOK'
  <2>1. \A q \in Runs : \/ lease'[q] = lease[q]
                        \/ lease[q] # NoLease /\ lease'[q].holder = lease[q].holder
    BY <1>0, <1>10 DEF Expire, TypeOK, NoLease
  <2> QED
    BY <1>10, <2>1, LeasesKept DEF Expire
<1>11. CASE LoseStateFile
  BY <1>11, LeasesLose
<1>12. CASE UNCHANGED vars
  BY <1>12, LeasesKept DEF vars
<1> QED
  BY <1>1, <1>2, <1>3, <1>4, <1>5, <1>6, <1>7, <1>8, <1>9, <1>10, <1>11, <1>12 DEF Next, Step, OnRun

LEMMA LeasesInit == Init => LeasesOK
<1> SUFFICES ASSUME Init PROVE LeasesOK
  OBVIOUS
<1>1. View = Empty /\ Current = Empty
  BY DEF Init, View, Current
<1>2. CopiesOK /\ SyncOK
  BY <1>1 DEF Init, CopiesOK, SyncOK
<1>3. LeaseOK
  BY <1>1 DEF Init, LeaseOK, Named, Taking, Writing
<1> QED
  BY <1>2, <1>3 DEF LeasesOK

\* The invariant of the leases holds in every reachable state.
THEOREM LeasesInvariance == Spec => []LeasesOK
<1>1. IInv /\ LeasesOK /\ [Next]_vars => LeasesOK'
  BY LeasesStep DEF IInv, Locked
<1> QED
  BY <1>1, LeasesInit, Invariance, PTL DEF Spec

(***************************************************************************)
(* As long as no more than one process dies, a live lease belongs to the   *)
(* process the queue says the run is leased to, even where the state file  *)
(* is lost.  (After two deaths, in resume_run and take_next_run, it need   *)
(* not: the resumed run keeps its old lease file.)                         *)
(***************************************************************************)
THEOREM LeaseNamesTheLessee ==
    ASSUME MaxCrashes <= 1
    PROVE  Spec => []LiveLeaseNamesTheLessee
<1>2. IInv /\ LeasesOK => LiveLeaseNamesTheLessee
  <2> SUFFICES ASSUME LeasesOK, NEW r \in Runs, lock = Nobody, View[r].st = "leased", lease[r].live
               PROVE  lease[r].holder = View[r].to
    BY DEF LiveLeaseNamesTheLessee
  <2>1. ~Taking(r)
    BY DEF Taking, Writing
  <2>2. lease[r] # NoLease
    BY DEF NoLease
  <2> QED
    BY <2>1, <2>2 DEF LeasesOK, LeaseOK, Named
<1> QED
  BY <1>2, Invariance, LeasesInvariance, PTL

LEMMA LiveLease ==
    ASSUME NEW x \in Lease, x.live
    PROVE  x = [holder |-> x.holder, live |-> TRUE]
<1>1. x = [holder |-> x.holder, live |-> x.live]
  BY DEF Lease
<1>2. x.live \in BOOLEAN
  BY DEF Lease
<1>3. x.live = TRUE
  BY <1>2
<1> QED
  BY <1>1, <1>3, Zenon

LEMMA ExpiredLease ==
    ASSUME NEW x \in Lease
    PROVE  [x EXCEPT !.live = FALSE] = [holder |-> x.holder, live |-> FALSE]
<1> DEFINE y == [x EXCEPT !.live = FALSE]
<1>1. y \in Lease /\ y.holder = x.holder /\ y.live = FALSE
  BY DEF Lease
<1> HIDE DEF y
<1>2. y = [holder |-> y.holder, live |-> y.live]
  BY <1>1 DEF Lease
<1>3. y = [holder |-> x.holder, live |-> FALSE]
  BY <1>1, <1>2, Zenon
<1> QED
  BY <1>3 DEF y

\* A live lease, held by the process its run is leased to, changes hands in no
\* step: it expires, or its run is finished, cancelled or resumed.
LEMMA LeaseChange ==
    ASSUME LeasesOK, Locked, [Next]_vars, NEW r \in Runs, lease[r].live,
           View[r].st = "leased", View[r].to = lease[r].holder, lease'[r] # lease[r]
    PROVE  \/ lease'[r] = [lease[r] EXCEPT !.live = FALSE]
           \/ \E p \in Procs : /\ lock = p /\ call[p].run = r
                               /\ call[p].op \in Outcomes \cup {"cancel", "resume"}
<1>0. TypeOK /\ lease[r] \in Lease
  BY DEF Locked, TypeOK
<1>1. ASSUME NEW p \in Procs, WriteOrDropLease(p)
      PROVE  /\ lock = p /\ call[p].run = r
             /\ call[p].op \in Outcomes \cup {"cancel", "resume"}
  <2>1. lock = p /\ call[p].stage = "lease" /\ call[p].run = r /\ p # Nobody
    BY <1>0, <1>1, RunQueueAssumption DEF WriteOrDropLease, TypeOK
  <2>2. CASE call[p].op = "take"
    <3>1. View[r] = [st |-> "leased", to |-> p]
      BY <2>1, <2>2 DEF LeasesOK, CopiesOK
    <3>2. lease'[r] = [holder |-> p, live |-> TRUE]
      BY <1>0, <1>1, <2>1, <2>2 DEF WriteOrDropLease, TypeOK
    <3>3. lease[r] = [holder |-> p, live |-> TRUE]
      <4>1. lease[r] = [holder |-> lease[r].holder, live |-> TRUE]
        BY <1>0, LiveLease
      <4>2. lease[r].holder = p
        BY <3>1
      <4> QED
        BY <4>1, <4>2, Zenon
    <3> QED
      BY <3>2, <3>3
  <2>3. CASE call[p].op # "take"
    <3>1. call[p].op \in Ops /\ call[p].op # "idle" /\ call[p].op # "enqueue"
      BY <1>0, <2>1 DEF TypeOK, Call, Locked, CallOK, LeasesOK, CopiesOK
    <3> QED
      BY <2>1, <2>3, <3>1 DEF Ops
  <2> QED
    BY <2>2, <2>3
<1>2. ASSUME NEW p \in Procs, NEW q \in Runs, RevokeOne(p, q) PROVE FALSE
  BY <1>0, <1>2 DEF RevokeOne, Stale, TypeOK
<1>3. ASSUME NEW p \in Procs, NEW q \in Runs, RenewLease(p, q) PROVE FALSE
  <2>1. q = r /\ lease'[r] = [holder |-> lease[r].holder, live |-> TRUE]
    BY <1>0, <1>3 DEF RenewLease, TypeOK
  <2> QED
    BY <1>0, <2>1, LiveLease
<1>4. ASSUME NEW q \in Runs, Expire(q) PROVE lease'[r] = [lease[r] EXCEPT !.live = FALSE]
  <2>1. q = r /\ lease'[r] = [holder |-> lease[r].holder, live |-> FALSE]
    BY <1>0, <1>4 DEF Expire, TypeOK
  <2> QED
    BY <1>0, <2>1, ExpiredLease
<1>5. CASE lease' = lease
  BY <1>5
<1>6. \/ lease' = lease
      \/ \E p \in Procs : WriteOrDropLease(p) \/ \E q \in Runs : RevokeOne(p, q) \/ RenewLease(p, q)
      \/ \E q \in Runs : Expire(q)
  BY DEF Next, Step, OnRun, vars, Disk, TakeNextRun, PickOldest, AppendQueueEvent, SaveState,
         JournalEffect, Crash, EnqueueRun, CancelRun, ResumeRun, AssertLeaseOwned, Finalise,
         FinaliseRefused, LoseStateFile
<1> QED
  BY <1>1, <1>2, <1>3, <1>4, <1>5, <1>6

(***************************************************************************)
(* A live lease is not taken from the worker the run is leased to, however *)
(* many processes die and whether or not the state file is lost.           *)
(***************************************************************************)
THEOREM LeaseRespected == Spec => LiveLeaseIsRespected
<1>1. ASSUME IInv, LeasesOK, [Next]_vars
      PROVE  [\A r \in Runs :
                lease[r].live /\ View[r].st = "leased" /\ View[r].to = lease[r].holder
                /\ lease'[r] # lease[r] =>
                    \/ lease'[r] = [lease[r] EXCEPT !.live = FALSE]
                    \/ \E p \in Procs : lock = p /\ call[p].run = r
                                        /\ call[p].op \in Outcomes \cup {"cancel", "resume"}]_vars
  BY <1>1, LeaseChange DEF IInv, Locked
<1> QED
  BY <1>1, Invariance, LeasesInvariance, PTL DEF Spec, LiveLeaseIsRespected
=============================================================================
