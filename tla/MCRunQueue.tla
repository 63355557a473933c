----------------------------- MODULE MCRunQueue -----------------------------
(* Instances of the run queue for model checking. *)
EXTENDS RunQueue

CONSTANTS w1, w2, c1, c2, jobA, jobB

\* jobA enqueued twice: the second run needs the first to be over.
JobsAA   == <<jobA, jobA>>
JobsAAB  == <<jobA, jobA, jobB>>

\* Worker processes drain every folder; a client sees the folders it belongs to.
AllJobs  == [p \in Procs |-> Jobs]
OnlyA    == [p \in Procs |-> IF p \in Workers THEN Jobs ELSE {jobA}]
=============================================================================
