----------------------------- MODULE WorkerRows -----------------------------
(***************************************************************************)
(* One row of the table durable_worker_jobs (workers/models.py) and what   *)
(* each statement of that module does to it.  The operators are pure: the  *)
(* modules that EXTEND this one decide which rows a statement reaches and   *)
(* when.                                                                   *)
(*                                                                         *)
(* Abstraction.  payload and result are present or erased; a lease is       *)
(* "none", "live" (lease_expires_at in the future) or "lapsed"; "due" says  *)
(* that available_at has passed.  "absent" is a row not inserted yet and    *)
(* "purged" a row that retention deleted: row ids are never used again.     *)
(***************************************************************************)
EXTENDS Integers

CONSTANTS
    Workers,        \* worker processes; worker_id is unique per process
    NoWorker        \* lease_owner IS NULL

ASSUME NoWorkerAssumption == NoWorker \notin Workers

JobActive   == {"pending", "processing", "retry"}
JobTerminal == {"succeeded", "failed", "cancelled"}
JobStatus   == JobActive \cup JobTerminal \cup {"absent", "purged"}

ErrorCodes ==
    {"none", "error", "cancelled", "lease_expired", "expired", "account"}

Row == [status     : JobStatus,
        payload    : BOOLEAN,
        result     : BOOLEAN,
        attempts   : Nat,
        cancel     : BOOLEAN,
        due        : BOOLEAN,
        lease      : {"none", "live", "lapsed"},
        owner      : Workers \cup {NoWorker},
        code       : ErrorCodes,
        reconciled : BOOLEAN]

NoRow == [status |-> "absent", payload |-> FALSE, result |-> FALSE,
          attempts |-> 0, cancel |-> FALSE, due |-> FALSE, lease |-> "none",
          owner |-> NoWorker, code |-> "none", reconciled |-> FALSE]

NewRow(due) == [NoRow EXCEPT !.status = "pending", !.payload = TRUE, !.due = due]

-----------------------------------------------------------------------------
(* Predicates of the WHERE clauses.                                        *)

Active(r)   == r.status \in JobActive
Terminal(r) == r.status \in JobTerminal
Queued(r)   == r.status \in {"pending", "retry"}
Lapsed(r)   == r.status = "processing" /\ r.lease = "lapsed"
HeldBy(r, w) == r.status = "processing" /\ r.owner = w

\* Faulty variant: a lapsed lease is taken over whatever was spent.
ClaimableUnbounded(r, max) ==
    ~r.cancel /\ (Lapsed(r) \/ (Queued(r) /\ r.due))

\* The selection of claim_worker_jobs, the deadline apart.
Claimable(r, max) ==
    /\ ~r.cancel
    /\ \/ Queued(r) /\ r.due
       \/ Lapsed(r) /\ r.attempts < max

\* worker_job_cancel_requested: losing the lease is equivalent to cancellation.
CancelSeenBy(r, w) == ~HeldBy(r, w) \/ r.cancel

-----------------------------------------------------------------------------
(* SET clauses.                                                            *)

\* _terminal_values, and the same columns written out by the sweeps.
Finished(r, status, result, code) ==
    [r EXCEPT !.status = status, !.payload = FALSE, !.result = result,
              !.code = code, !.lease = "none", !.owner = NoWorker]

LeasedTo(r, w) ==
    [r EXCEPT !.status = "processing", !.attempts = @ + 1, !.lease = "live",
              !.owner = w, !.code = "none"]

Deferred(r) ==
    [r EXCEPT !.status = "retry", !.due = FALSE, !.code = "error",
              !.lease = "none", !.owner = NoWorker]

\* request_worker_job_cancellation and cancel_user_worker_jobs, first UPDATE.
\* A queued row holds no lease, so the lease columns are not written.
CancelledInQueue(r, code) ==
    [r EXCEPT !.status = "cancelled", !.cancel = TRUE, !.payload = FALSE,
              !.result = FALSE, !.code = code]

\* Faulty variant: the payload stays until the process acknowledges.
CancelFlaggedOnly(r) == [r EXCEPT !.cancel = TRUE]

\* The second UPDATE of the same functions.
CancelFlagged(r) ==
    [r EXCEPT !.cancel = TRUE, !.payload = FALSE, !.result = FALSE]

\* erase_user_worker_state, first UPDATE.
ErasedActive(r) ==
    [Finished(r, "cancelled", FALSE, "account") EXCEPT !.cancel = TRUE]

\* erase_user_worker_state, second UPDATE.
Redacted(r) == [r EXCEPT !.payload = FALSE, !.result = FALSE]

\* purge_terminal_worker_jobs deletes the row; its id is never used again.
Purged == [NoRow EXCEPT !.status = "purged"]
=============================================================================
