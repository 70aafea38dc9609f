----------------------------- MODULE WorkerQueue -----------------------------
(***************************************************************************)
(* One queue of the durable worker substrate: the rows of                  *)
(* durable_worker_jobs, the DurableQueueWorker processes that claim, renew,*)
(* execute and finish them (workers/runtime.py), the requests that cancel  *)
(* or erase them, and the maintenance pass that expires and purges them.   *)
(*                                                                         *)
(* The unit of atomicity is one SQL statement at READ COMMITTED: the       *)
(* functions that issue two statements are two actions.  Time is the       *)
(* environment: a lease lapses, a delay runs out and a deadline passes at  *)
(* any moment, whatever the processes do.                                  *)
(***************************************************************************)
EXTENDS WorkerRows, FiniteSets

CONSTANTS
    Jobs,           \* row ids of one queue
    MaxAttempts,    \* the column max_attempts of each row
    Batch,          \* DurableQueueWorker.batch_size
    Lifecycle,      \* rows account cancellation skips and revive may requeue
    Dependent,      \* rows worker_job_reconciliation_required selects
    Expiring,       \* rows with expires_at
    MaxRevivals,    \* bound on revive_worker_job_after_lease_expiry
    Requests,       \* bound: the requests users and administrators make
    Faults          \* bound: what goes wrong in the environment

ASSUME JobsAssumption ==
    /\ MaxAttempts \in [Jobs -> Nat \ {0}]
    /\ Batch \in Nat \ {0}
    /\ MaxRevivals \in Nat
    /\ Lifecycle \subseteq Jobs
    /\ Dependent \subseteq Jobs \ Lifecycle
    /\ Expiring \subseteq Jobs
    /\ Requests \subseteq {"request", "account", "erase"}
    /\ Faults \subseteq {"crash", "database", "renewal"}

VARIABLES
    rows,       \* the table
    overdue,    \* rows whose expires_at has passed
    proc,       \* main loop of each worker process
    picked,     \* ids selected by the claim a process is making
    pc,         \* the _process call of each worker for each job
    att,        \* WorkerJobSnapshot.attempt_count of that call
    saw,        \* whether its snapshot carries the payload
    lost,       \* its lease_lost event
    cx,         \* the cancellation or erasure request between its statements
    mnt,        \* the maintenance pass between its SELECT and its write
    revivals,   \* revivals of each row
    starts,     \* history: handler starts since insertion or revival
    acked,      \* history: rows an accepted cancellation reached
    erased,     \* history: rows an account erasure redacted
    closed      \* jobs whose domain record (stream, run, artifact) is closed

tableVars   == <<rows, overdue>>
processVars == <<proc, picked, pc, att, saw, lost>>
historyVars == <<revivals, starts, acked, erased>>
vars == <<tableVars, processVars, cx, mnt, historyVars, closed>>

\* Where a _process call is: not running, before raise_if_cancelled, in the
\* handler, about to publish success, about to acknowledge a cancellation that
\* won, about to finish with JobCancelled, FatalJobError or a retryable error,
\* or ended by an exception that will take the process down.
ExecPC == {"no", "check", "running", "done", "ack", "cancelled",
           "fatal", "retry", "broken"}
Executing == ExecPC \ {"no", "broken"}

ProcState == {"idle", "sweep", "select", "read", "batch", "down"}

NoRequest == [op |-> "none", targets |-> {}, hits |-> {}]
NoPass    == [op |-> "none", ids |-> {}]

TypeOK ==
    /\ rows \in [Jobs -> Row]
    /\ overdue \subseteq Expiring
    /\ proc \in [Workers -> ProcState]
    /\ picked \in [Workers -> SUBSET Jobs]
    /\ pc \in [Workers -> [Jobs -> ExecPC]]
    /\ att \in [Workers -> [Jobs -> Nat]]
    /\ saw \in [Workers -> [Jobs -> BOOLEAN]]
    /\ lost \in [Workers -> [Jobs -> BOOLEAN]]
    /\ cx \in [op : {"none", "request", "account", "erase"},
               targets : SUBSET Jobs, hits : SUBSET Jobs]
    /\ mnt \in [op : {"none", "expire", "purge"}, ids : SUBSET Jobs]
    /\ revivals \in [Jobs -> Nat]
    /\ starts \in [Jobs -> Nat]
    /\ acked \subseteq Jobs
    /\ erased \subseteq Jobs
    /\ closed \subseteq Jobs

Init ==
    /\ rows = [j \in Jobs |-> NoRow]
    /\ overdue = {}
    /\ proc = [w \in Workers |-> "idle"]
    /\ picked = [w \in Workers |-> {}]
    /\ pc = [w \in Workers |-> [j \in Jobs |-> "no"]]
    /\ att = [w \in Workers |-> [j \in Jobs |-> 0]]
    /\ saw = [w \in Workers |-> [j \in Jobs |-> FALSE]]
    /\ lost = [w \in Workers |-> [j \in Jobs |-> FALSE]]
    /\ cx = NoRequest
    /\ mnt = NoPass
    /\ revivals = [j \in Jobs |-> 0]
    /\ starts = [j \in Jobs |-> 0]
    /\ acked = {}
    /\ erased = {}
    /\ closed = {}

-----------------------------------------------------------------------------
(* Enqueueing, time.                                                       *)

\* enqueue_worker_job on a fresh key; module WorkerEnqueue has the key races.
EnqueueWorkerJob(j) ==
    /\ rows[j].status = "absent"
    /\ \E due \in BOOLEAN : rows' = [rows EXCEPT ![j] = NewRow(due)]
    /\ UNCHANGED <<overdue, processVars, cx, mnt, historyVars, closed>>

LeaseLapses(j) ==
    /\ rows[j].lease = "live"
    /\ rows' = [rows EXCEPT ![j].lease = "lapsed"]
    /\ UNCHANGED <<overdue, processVars, cx, mnt, historyVars, closed>>

BecomesDue(j) ==
    /\ Queued(rows[j]) /\ ~rows[j].due
    /\ rows' = [rows EXCEPT ![j].due = TRUE]
    /\ UNCHANGED <<overdue, processVars, cx, mnt, historyVars, closed>>

DeadlinePasses(j) ==
    /\ j \in Expiring \ overdue
    /\ rows[j].status # "absent"
    /\ overdue' = overdue \cup {j}
    /\ UNCHANGED <<rows, processVars, cx, mnt, historyVars, closed>>

-----------------------------------------------------------------------------
(* The main loop: _reconcile_if_due, then the three statements and the     *)
(* re-read of claim_worker_jobs.                                           *)

Unreconciled ==
    {j \in Dependent : rows[j].status \in {"failed", "cancelled"}
                       /\ ~rows[j].reconciled}

\* lock_unreconciled_terminal_jobs and the domain writes of its callers, one
\* transaction under the row locks.
Reconcile(w) ==
    /\ proc[w] = "idle"
    /\ Unreconciled # {}
    /\ rows' = [j \in Jobs |-> IF j \in Unreconciled
                               THEN [rows[j] EXCEPT !.reconciled = TRUE]
                               ELSE rows[j]]
    /\ closed' = closed \cup Unreconciled
    /\ UNCHANGED <<overdue, processVars, cx, mnt, historyVars>>

\* First UPDATE: once its lease is gone, cancellation wins over retry.
SweepCancelled(w) ==
    /\ proc[w] = "idle"
    /\ rows' = [j \in Jobs |-> IF Lapsed(rows[j]) /\ rows[j].cancel
                               THEN Finished(rows[j], "cancelled", FALSE, "cancelled")
                               ELSE rows[j]]
    /\ proc' = [proc EXCEPT ![w] = "sweep"]
    /\ UNCHANGED <<overdue, picked, pc, att, saw, lost, cx, mnt, historyVars, closed>>

\* Faulty variant: off by one, a row with its last attempt spent stays behind.
SweepOverspent(w) ==
    /\ proc[w] = "sweep"
    /\ rows' = [j \in Jobs |-> IF Lapsed(rows[j]) /\ rows[j].attempts > MaxAttempts[j]
                               THEN Finished(rows[j], "failed", FALSE, "lease_expired")
                               ELSE rows[j]]
    /\ proc' = [proc EXCEPT ![w] = "select"]
    /\ UNCHANGED <<overdue, picked, pc, att, saw, lost, cx, mnt, historyVars, closed>>

\* Second UPDATE: a process died after spending the final attempt.
SweepExhausted(w) ==
    /\ proc[w] = "sweep"
    /\ rows' = [j \in Jobs |-> IF Lapsed(rows[j]) /\ rows[j].attempts >= MaxAttempts[j]
                               THEN Finished(rows[j], "failed", FALSE, "lease_expired")
                               ELSE rows[j]]
    /\ proc' = [proc EXCEPT ![w] = "select"]
    /\ UNCHANGED <<overdue, picked, pc, att, saw, lost, cx, mnt, historyVars, closed>>

Eligible == {j \in Jobs : Claimable(rows[j], MaxAttempts[j]) /\ j \notin overdue}

\* SELECT ... FOR UPDATE SKIP LOCKED LIMIT batch and the UPDATE of the rows it
\* locked.  The priority order decides which rows and is abstracted.
SelectAndLease(w) ==
    /\ proc[w] = "select"
    /\ \E ids \in SUBSET Eligible :
        /\ Cardinality(ids) = (IF Cardinality(Eligible) < Batch
                               THEN Cardinality(Eligible) ELSE Batch)
        /\ rows' = [j \in Jobs |-> IF j \in ids THEN LeasedTo(rows[j], w) ELSE rows[j]]
        /\ picked' = [picked EXCEPT ![w] = ids]
        /\ proc' = [proc EXCEPT ![w] = IF ids = {} THEN "idle" ELSE "read"]
    /\ UNCHANGED <<overdue, pc, att, saw, lost, cx, mnt, historyVars, closed>>

\* The re-read after the commit keeps the rows the process still owns and takes
\* the snapshots _process works from.
ReadClaimed(w) ==
    /\ proc[w] = "read"
    /\ LET mine == {j \in picked[w] : HeldBy(rows[j], w)}
       IN  /\ pc' = [pc EXCEPT ![w] =
                       [j \in Jobs |-> IF j \in mine THEN "check" ELSE "no"]]
           /\ att' = [att EXCEPT ![w] = [j \in Jobs |-> rows[j].attempts]]
           /\ saw' = [saw EXCEPT ![w] = [j \in Jobs |-> rows[j].payload]]
           /\ lost' = [lost EXCEPT ![w] = [j \in Jobs |-> FALSE]]
           /\ proc' = [proc EXCEPT ![w] = IF mine = {} THEN "idle" ELSE "batch"]
    /\ picked' = [picked EXCEPT ![w] = {}]
    /\ UNCHANGED <<tableVars, cx, mnt, historyVars, closed>>

\* The re-read fails: run_forever logs and goes on, the leases stay behind.
ReadFails(w) ==
    /\ "database" \in Faults
    /\ proc[w] = "read"
    /\ proc' = [proc EXCEPT ![w] = "idle"]
    /\ picked' = [picked EXCEPT ![w] = {}]
    /\ UNCHANGED <<tableVars, pc, att, saw, lost, cx, mnt, historyVars, closed>>

-----------------------------------------------------------------------------
(* DurableQueueWorker._process, one thread per job of the batch.           *)

\* Another process of the queue is up: the bound on processes that end.
Spare(w) ==
    \E v \in Workers \ {w} :
        proc[v] # "down" /\ \A j \in Jobs : pc[v][j] # "broken"

MovePC(w, j, to) == pc' = [pc EXCEPT ![w][j] = to]

\* No handler for the kind.
UnsupportedKind(w, j) ==
    /\ pc[w][j] = "check"
    /\ MovePC(w, j, "fatal")
    /\ UNCHANGED <<tableVars, proc, picked, att, saw, lost, cx, mnt, historyVars, closed>>

\* context.raise_if_cancelled() before the handler.
StartHandler(w, j) ==
    /\ pc[w][j] = "check"
    /\ IF lost[w][j] \/ CancelSeenBy(rows[j], w)
       THEN MovePC(w, j, "cancelled") /\ UNCHANGED starts
       ELSE /\ MovePC(w, j, "running")
            /\ starts' = [starts EXCEPT ![j] = @ + 1]
    /\ UNCHANGED <<tableVars, proc, picked, att, saw, lost, cx, mnt,
                   revivals, acked, erased, closed>>

\* A handler polls the context between its side effects.
HandlerSeesCancellation(w, j) ==
    /\ pc[w][j] = "running"
    /\ lost[w][j] \/ CancelSeenBy(rows[j], w)
    /\ MovePC(w, j, "cancelled")
    /\ UNCHANGED <<tableVars, proc, picked, att, saw, lost, cx, mnt, historyVars, closed>>

\* The handler returns; its own commits have closed the domain record.
HandlerReturns(w, j) ==
    /\ pc[w][j] = "running"
    /\ MovePC(w, j, "done")
    /\ closed' = closed \cup ({j} \cap Dependent)
    /\ UNCHANGED <<tableVars, proc, picked, att, saw, lost, cx, mnt, historyVars>>

HandlerRaises(w, j) ==
    /\ pc[w][j] = "running"
    /\ \E to \in {"fatal", "retry"} : MovePC(w, j, to)
    /\ UNCHANGED <<tableVars, proc, picked, att, saw, lost, cx, mnt, historyVars, closed>>

\* The exception a database error raises here is caught one level up; the last
\* level ends the process.
AfterError(at) == IF at \in {"check", "done", "ack"} THEN "retry" ELSE "broken"

\* A write that commits returns, or its connection fails after the commit.
Returned(w, j) ==
    \/ MovePC(w, j, "no")
    \/ /\ "database" \in Faults
       /\ AfterError(pc[w][j]) = "broken" => Spare(w)
       /\ MovePC(w, j, AfterError(pc[w][j]))

\* Faulty variant: the compare-and-swap forgets cancel_requested.
PublishCancelled(w, j) ==
    /\ pc[w][j] = "done" /\ HeldBy(rows[j], w)
    /\ rows' = [rows EXCEPT ![j] = Finished(@, "succeeded", FALSE, "none")]
    /\ MovePC(w, j, "no")
    /\ UNCHANGED <<overdue, proc, picked, att, saw, lost, cx, mnt, historyVars, closed>>

\* mark_worker_job_succeeded, unless the lease is known to be lost.
PublishSuccess(w, j) ==
    /\ pc[w][j] = "done"
    /\ \/ /\ lost[w][j]
          /\ MovePC(w, j, "no")
          /\ UNCHANGED rows
       \/ /\ ~lost[w][j] /\ HeldBy(rows[j], w) /\ ~rows[j].cancel
          /\ \E result \in BOOLEAN :
                rows' = [rows EXCEPT ![j] = Finished(@, "succeeded", result, "none")]
          /\ Returned(w, j)
       \/ /\ ~lost[w][j] /\ ~(HeldBy(rows[j], w) /\ ~rows[j].cancel)
          /\ MovePC(w, j, "ack")
          /\ UNCHANGED rows
    /\ UNCHANGED <<overdue, proc, picked, att, saw, lost, cx, mnt, historyVars, closed>>

\* Faulty variant: the compare-and-swap forgets lease_owner.
MarkAnyCancelled(w, j) ==
    /\ pc[w][j] \in {"ack", "cancelled"}
    /\ rows' = IF rows[j].status = "processing"
               THEN [rows EXCEPT ![j] = Finished(@, "cancelled", FALSE, "cancelled")]
               ELSE rows
    /\ MovePC(w, j, "no")
    /\ UNCHANGED <<overdue, proc, picked, att, saw, lost, cx, mnt, historyVars, closed>>

\* mark_worker_job_cancelled, after JobCancelled or a lost success.
MarkCancelled(w, j) ==
    /\ pc[w][j] \in {"ack", "cancelled"}
    /\ rows' = IF HeldBy(rows[j], w)
               THEN [rows EXCEPT ![j] = Finished(@, "cancelled", FALSE, "cancelled")]
               ELSE rows
    /\ Returned(w, j)
    /\ UNCHANGED <<overdue, proc, picked, att, saw, lost, cx, mnt, historyVars, closed>>

\* Faulty variant: a cancelled job is retried like any other.
FailedRowRetried(r, max, retryable, late) ==
    IF ~retryable \/ r.attempts >= max \/ late
    THEN Finished(r, "failed", FALSE, "error") ELSE Deferred(r)

\* mark_worker_job_failed, under the row lock.
FailedRow(r, max, retryable, late) ==
    IF ~retryable \/ r.cancel \/ r.attempts >= max \/ late
    THEN IF r.cancel THEN Finished(r, "cancelled", FALSE, "cancelled")
                     ELSE Finished(r, "failed", FALSE, "error")
    ELSE Deferred(r)

FinishFailure(w, j) ==
    /\ pc[w][j] \in {"fatal", "retry"}
    /\ rows' = IF HeldBy(rows[j], w)
               THEN [rows EXCEPT ![j] = FailedRow(@, MaxAttempts[j],
                                                 pc[w][j] = "retry", j \in overdue)]
               ELSE rows
    /\ Returned(w, j)
    /\ UNCHANGED <<overdue, proc, picked, att, saw, lost, cx, mnt, historyVars, closed>>

\* A database error before the write commits.
DatabaseError(w, j) ==
    /\ "database" \in Faults
    /\ pc[w][j] \in Executing \ {"running"}
    /\ pc[w][j] = "done" => ~lost[w][j]
    /\ AfterError(pc[w][j]) = "broken" => Spare(w)
    /\ MovePC(w, j, AfterError(pc[w][j]))
    /\ UNCHANGED <<tableVars, proc, picked, att, saw, lost, cx, mnt, historyVars, closed>>

\* _renew_loop: renew_worker_job_lease, or the lease is lost.
RenewLease(w, j) ==
    /\ pc[w][j] \in Executing /\ ~lost[w][j]
    /\ IF HeldBy(rows[j], w)
       THEN rows' = [rows EXCEPT ![j].lease = "live"] /\ UNCHANGED lost
       ELSE lost' = [lost EXCEPT ![w][j] = TRUE] /\ UNCHANGED rows
    /\ UNCHANGED <<overdue, proc, picked, pc, att, saw, cx, mnt, historyVars, closed>>

\* _renew_loop: the database stayed unreachable until the lease ran out.
RenewGivesUp(w, j) ==
    /\ "renewal" \in Faults
    /\ pc[w][j] \in Executing /\ ~lost[w][j]
    /\ lost' = [lost EXCEPT ![w][j] = TRUE]
    /\ UNCHANGED <<tableVars, proc, picked, pc, att, saw, cx, mnt, historyVars, closed>>

\* _process_batch returns, or rethrows what a thread could not handle.
BatchEnds(w) ==
    /\ proc[w] = "batch"
    /\ \A j \in Jobs : pc[w][j] \notin Executing
    /\ proc' = [proc EXCEPT ![w] =
                   IF \E j \in Jobs : pc[w][j] = "broken" THEN "down" ELSE "idle"]
    /\ pc' = [pc EXCEPT ![w] = [j \in Jobs |-> "no"]]
    /\ UNCHANGED <<tableVars, picked, att, saw, lost, cx, mnt, historyVars, closed>>

\* A process dies.  Between the statements of a claim its transaction would roll
\* back, which is the crash before the claim.
Crash(w) ==
    /\ "crash" \in Faults
    /\ proc[w] \in {"idle", "read", "batch"} /\ Spare(w)
    /\ proc' = [proc EXCEPT ![w] = "down"]
    /\ picked' = [picked EXCEPT ![w] = {}]
    /\ pc' = [pc EXCEPT ![w] = [j \in Jobs |-> "no"]]
    /\ UNCHANGED <<tableVars, att, saw, lost, cx, mnt, historyVars, closed>>

-----------------------------------------------------------------------------
(* Cancellation and erasure: two UPDATE statements each.                   *)

\* First statement of request_worker_job_cancellation (one row) and of
\* cancel_user_worker_jobs (every row of the user outside lifecycle).
CancelQueued(op, targets) ==
    /\ op \in Requests /\ cx.op = "none"
    /\ LET hit == {j \in targets : Queued(rows[j])}
       IN  /\ rows' = [j \in Jobs |-> IF j \in hit
                          THEN CancelledInQueue(rows[j],
                                 IF op = "account" THEN "account" ELSE "cancelled")
                          ELSE rows[j]]
           /\ cx' = [op |-> op, targets |-> targets, hits |-> hit]
    /\ UNCHANGED <<overdue, processVars, mnt, historyVars, closed>>

RequestCancellation == \E j \in Jobs \ Lifecycle : CancelQueued("request", {j})
CancelUserJobs      == CancelQueued("account", Jobs \ Lifecycle)

\* Second statement of both.
FlagProcessing ==
    /\ cx.op \in {"request", "account"}
    /\ LET hit == {j \in cx.targets : rows[j].status = "processing"}
       IN  /\ rows' = [j \in Jobs |-> IF j \in hit THEN CancelFlagged(rows[j]) ELSE rows[j]]
           /\ acked' = acked \cup cx.hits \cup hit
    /\ cx' = NoRequest
    /\ UNCHANGED <<overdue, processVars, mnt, revivals, starts, erased, closed>>

\* erase_user_worker_state.
EraseActive ==
    /\ "erase" \in Requests /\ cx.op = "none"
    /\ LET hit == {j \in Jobs \ Lifecycle : Active(rows[j])}
       IN  /\ rows' = [j \in Jobs |-> IF j \in hit THEN ErasedActive(rows[j]) ELSE rows[j]]
           /\ cx' = [op |-> "erase", targets |-> Jobs, hits |-> hit]
    /\ UNCHANGED <<overdue, processVars, mnt, historyVars, closed>>

EraseRemaining ==
    /\ cx.op = "erase"
    /\ rows' = [j \in Jobs |-> Redacted(rows[j])]
    /\ acked' = acked \cup cx.hits
    /\ erased' = erased \cup {j \in Jobs : rows[j].status # "absent"}
    /\ cx' = NoRequest
    /\ UNCHANGED <<overdue, processVars, mnt, revivals, starts, closed>>

-----------------------------------------------------------------------------
(* Maintenance and revival.                                                *)

ExpireSelect ==
    /\ mnt.op = "none"
    /\ LET ids == {j \in overdue : Active(rows[j])}
       IN  ids # {} /\ mnt' = [op |-> "expire", ids |-> ids]
    /\ UNCHANGED <<tableVars, processVars, cx, historyVars, closed>>

\* The UPDATE names the ids only: it does not look at the status again.
ExpireUpdate ==
    /\ mnt.op = "expire"
    /\ rows' = [j \in Jobs |-> IF j \in mnt.ids /\ rows[j].status # "purged"
                               THEN Finished(rows[j], "cancelled", FALSE, "expired")
                               ELSE rows[j]]
    /\ mnt' = NoPass
    /\ UNCHANGED <<overdue, processVars, cx, historyVars, closed>>

Purgeable(j) ==
    /\ Terminal(rows[j])
    /\ rows[j].status = "succeeded" \/ rows[j].reconciled \/ j \notin Dependent

\* Any purgeable rows may have passed the retention cutoff.
PurgeSelect ==
    /\ mnt.op = "none"
    /\ \E ids \in SUBSET {j \in Jobs : Purgeable(j)} :
         ids # {} /\ mnt' = [op |-> "purge", ids |-> ids]
    /\ UNCHANGED <<tableVars, processVars, cx, historyVars, closed>>

PurgeDelete ==
    /\ mnt.op = "purge"
    /\ rows' = [j \in Jobs |-> IF j \in mnt.ids
                               THEN Purged ELSE rows[j]]
    /\ mnt' = NoPass
    /\ UNCHANGED <<overdue, processVars, cx, historyVars, closed>>

\* Faulty variant: any terminal row is requeued.
ReviveTerminal(j) ==
    /\ j \in Lifecycle /\ Terminal(rows[j]) /\ revivals[j] < MaxRevivals
    /\ \E due \in BOOLEAN : rows' = [rows EXCEPT ![j] = NewRow(due)]
    /\ revivals' = [revivals EXCEPT ![j] = @ + 1]
    /\ starts' = [starts EXCEPT ![j] = 0]
    /\ UNCHANGED <<overdue, processVars, cx, mnt, acked, erased, closed>>

\* revive_worker_job_after_lease_expiry.
Revive(j) ==
    /\ j \in Lifecycle
    /\ rows[j].status = "failed" /\ rows[j].code = "lease_expired"
    /\ revivals[j] < MaxRevivals
    /\ \E due \in BOOLEAN : rows' = [rows EXCEPT ![j] = NewRow(due)]
    /\ revivals' = [revivals EXCEPT ![j] = @ + 1]
    /\ starts' = [starts EXCEPT ![j] = 0]
    /\ UNCHANGED <<overdue, processVars, cx, mnt, acked, erased, closed>>

-----------------------------------------------------------------------------
JobStep(j) == EnqueueWorkerJob(j) \/ LeaseLapses(j) \/ BecomesDue(j)
              \/ DeadlinePasses(j) \/ Revive(j)

LoopStep(w) == Reconcile(w) \/ SweepCancelled(w) \/ SweepExhausted(w)
               \/ SelectAndLease(w) \/ ReadClaimed(w) \/ ReadFails(w)
               \/ BatchEnds(w) \/ Crash(w)

ProcessStep(w, j) == UnsupportedKind(w, j) \/ StartHandler(w, j)
                     \/ HandlerSeesCancellation(w, j) \/ HandlerReturns(w, j)
                     \/ HandlerRaises(w, j) \/ PublishSuccess(w, j)
                     \/ MarkCancelled(w, j) \/ FinishFailure(w, j)
                     \/ DatabaseError(w, j) \/ RenewLease(w, j) \/ RenewGivesUp(w, j)

RequestStep == RequestCancellation \/ CancelUserJobs \/ FlagProcessing
               \/ EraseActive \/ EraseRemaining

MaintenanceStep == ExpireSelect \/ ExpireUpdate \/ PurgeSelect \/ PurgeDelete

Next ==
    \/ \E j \in Jobs : JobStep(j)
    \/ \E w \in Workers : LoopStep(w)
    \/ \E w \in Workers, j \in Jobs : ProcessStep(w, j)
    \/ RequestStep
    \/ MaintenanceStep

Spec == Init /\ [][Next]_vars

\* A process that is up keeps running, a handler ends, an abandoned lease lapses
\* and a delay runs out.  Every turn of the main loop offers the reconciliation,
\* hence strong fairness.  Nobody owes a request, a crash, an error or a renewal.
Abandoned(j) ==
    \A w \in Workers : HeldBy(rows[j], w) => pc[w][j] \notin Executing

Fairness ==
    /\ \A j \in Jobs : /\ WF_vars(BecomesDue(j))
                       /\ WF_vars(Abandoned(j) /\ LeaseLapses(j))
    /\ \A w \in Workers :
         /\ SF_vars(Reconcile(w)) /\ WF_vars(SweepCancelled(w))
         /\ WF_vars(SweepExhausted(w)) /\ WF_vars(SelectAndLease(w))
         /\ WF_vars(ReadClaimed(w)) /\ WF_vars(BatchEnds(w))
         /\ \A j \in Jobs :
              /\ WF_vars(StartHandler(w, j))
              /\ WF_vars(HandlerReturns(w, j) \/ HandlerRaises(w, j)
                         \/ HandlerSeesCancellation(w, j))
              /\ WF_vars(PublishSuccess(w, j) \/ MarkCancelled(w, j)
                         \/ FinishFailure(w, j))
    /\ WF_vars(FlagProcessing) /\ WF_vars(EraseRemaining)
    /\ WF_vars(ExpireSelect) /\ WF_vars(ExpireUpdate) /\ WF_vars(PurgeDelete)

FairSpec == Spec /\ Fairness

-----------------------------------------------------------------------------
(* Safety.                                                                 *)

\* The payload is kept exactly as long as the job may still run: a terminal row
\* and a row whose cancellation was accepted hold none, a row waiting for a
\* retry keeps it.  Only an account erasure redacts a row that stays active.
PayloadLifetime ==
    \A j \in Jobs :
        /\ rows[j].payload => Active(rows[j]) /\ ~rows[j].cancel
        /\ Active(rows[j]) /\ ~rows[j].cancel /\ ~rows[j].payload => j \in erased

\* Through crashes, lapsed leases, retries and replaced processes a handler is
\* started at most max_attempts times between two deliberate requeues.
AttemptBudget == \A j \in Jobs : starts[j] <= MaxAttempts[j]

\* A cancellation the requester was told about is final: the row never queues
\* again and never succeeds.  (A row whose last lease had lapsed may still be
\* recorded as failed when the request lands between the two sweeps.)
CancellationHolds ==
    \A j \in acked :
        \/ rows[j].status = "processing" /\ rows[j].cancel
        \/ rows[j].status \in {"cancelled", "purged"}
        \/ rows[j].status = "failed" /\ rows[j].code = "lease_expired"

\* The process whose id is on the lease works from the snapshot of the newest
\* attempt, so a compare-and-swap on the id cannot publish an older one.
LeaseHolderIsCurrent ==
    \A w \in Workers, j \in Jobs :
        HeldBy(rows[j], w) /\ pc[w][j] # "no" => att[w][j] = rows[j].attempts

\* A handler runs with the payload its job was enqueued with, although the
\* snapshot is read after the claim has committed.
HandlerHasPayload ==
    \A w \in Workers, j \in Jobs :
        pc[w][j] = "running" => saw[w][j] \/ j \in erased

\* Retention removes a job with dependent domain state only after that state
\* was closed, by the handler or by the reconciler.
PurgedOnlyWhenClosed ==
    \A j \in Dependent : rows[j].status = "purged" => j \in closed

\* A process changes the outcome of a job only while it holds the lease, and
\* never starts a handler on one it does not hold.
ActsUnderLease ==
    \A w \in Workers, j \in Jobs :
        pc[w][j] # pc'[w][j] /\ (rows[j] # rows'[j] \/ starts[j] # starts'[j])
            => HeldBy(rows[j], w)

OnlyLeaseHolderActs == [][ActsUnderLease]_vars

\* A success that was published is never taken back: waiters and the user have
\* seen it.
SuccessIsFinal ==
    [][\A j \in Jobs : rows[j].status = "succeeded"
           => rows'[j].status \in {"succeeded", "purged"}]_vars

\* Maintenance expires abandoned jobs: one it expires had no outcome yet.
OnlyUnfinishedExpire ==
    [][\A j \in Jobs : rows[j].code # "expired" /\ rows'[j].code = "expired"
           => Active(rows[j])]_vars

\* Retention removes terminal rows only: a job that was safely requeued stays.
PurgeRemovesTerminal ==
    [][\A j \in Jobs : rows[j].status # "purged" /\ rows'[j].status = "purged"
           => Terminal(rows[j])]_vars

\* A cancelled row is not handed to a process again.
NoClaimAfterCancel ==
    [][\A j \in Jobs : rows[j].cancel => rows'[j].attempts <= rows[j].attempts]_vars

-----------------------------------------------------------------------------
(* Liveness.                                                               *)

\* A job that was accepted reaches a final state, whatever crashes on the way.
JobsSettle ==
    \A j \in Jobs : Active(rows[j]) ~> ~Active(rows[j])

\* Whoever waits on the domain record of a job is released in the end.
DependentsClose ==
    \A j \in Dependent : Active(rows[j]) ~> (j \in closed)

-----------------------------------------------------------------------------
(* The queue keeps the promises of JobLedger for the rows that are never    *)
(* revived, as long as none expires: ExpireUpdate and PurgeDelete name ids  *)
(* only, and may reach a row that has changed since they selected it.       *)

LedgerState(r) ==
    CASE r.status \in {"pending", "retry"} -> "offered"
      [] r.status = "processing"           -> "taken"
      [] r.status = "purged"               -> "removed"
      [] OTHER                             -> r.status

LedgerEntry(r) ==
    [state |-> LedgerState(r), taken |-> r.attempts, withdrawn |-> r.cancel]

Ledger == INSTANCE JobLedger WITH
              Jobs <- Jobs \ Lifecycle,
              entry <- [j \in Jobs \ Lifecycle |-> LedgerEntry(rows[j])]

\* Every row goes through the life JobLedger describes: processes, crashes, lapsed
\* leases and two-statement requests add no other history.
KeepsLedger == Ledger!Spec
=============================================================================
