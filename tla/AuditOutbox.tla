---------------------------- MODULE AuditOutbox -----------------------------
(***************************************************************************)
(* Audit events about one account and their erasure, across two databases. *)
(* Writers put an event into the audit database themselves or stage it in  *)
(* the outbox of the main database for the event worker                    *)
(* (backend/app/workers/events.py); an erasure fences the account, redacts *)
(* the outbox and then deletes from the audit database (workers/models.py, *)
(* logging/models.py); a restoration lifts the fence (users/models.py).    *)
(* Transactions hold row locks: the fence, the guard and the account's row *)
(* are locks of their own, and each outbox row has one.                    *)
(***************************************************************************)
EXTENDS Naturals, FiniteSets

CONSTANTS
    Events,
    ActorEvents,    \* events whose actor is the account; the others mention it
    Workers,        \* event workers
    Erasers,        \* processes that run an erasure: the deletion itself, the durable job
    MaxDeletes,     \* bound: deletions of the account
    MaxCrashes,     \* bound: writers, workers and erasers killed
    None

AuditAssumption ==
    /\ ActorEvents \subseteq Events
    /\ None \notin Events \cup Workers \cup Erasers /\ Events \cap Erasers = {}
    /\ MaxDeletes \in Nat /\ MaxCrashes \in Nat

VARIABLES
    deleted,    \* deleted_at of the account
    fence,      \* erased_at of the account's subject state
    owed,       \* a durable audit_erasure job is there
    lock,       \* holders of the fence, the guard and the user row
    writer,     \* each event's writer, and the fence it has read
    row,        \* each event's outbox row; names: it still names the account
    record,     \* each event in the audit database
    worker,     \* each worker and its event; it holds the lock of that row
    eraser,     \* where each eraser is
    erased,     \* history: an erasure is complete and the account not restored
    deletes, crashes

vars == <<deleted, fence, owed, lock, writer, row, record, worker, eraser, erased, deletes, crashes>>

TypeOK ==
    /\ {deleted, fence, owed, erased} \subseteq BOOLEAN
    /\ lock \in [{"fence", "guard", "user"} -> Events \cup Erasers \cup {None}]
    /\ writer \in [Events -> [at : {"idle", "inline", "written", "staging", "done"}, fenced : BOOLEAN]]
    /\ row \in [Events -> [at : {"none", "pending", "delivered", "cancelled"}, names : BOOLEAN]]
    /\ record \in [Events -> {"none", "named", "neutral"}]
    /\ worker \in [Workers -> [at : {"idle", "locked", "written"}, of : Events \cup {None}]]
    /\ eraser \in [Erasers -> {"idle", "guarded", "checked", "fencing", "between"}]
    /\ \A x \in Erasers : (lock["guard"] = x) = (eraser[x] # "idle")
    /\ deletes \in 0 .. MaxDeletes /\ crashes \in 0 .. MaxCrashes

Resting == [at |-> "idle", of |-> None]

Init ==
    /\ deleted = FALSE /\ fence = FALSE /\ owed = FALSE /\ erased = FALSE
    /\ lock = [l \in {"fence", "guard", "user"} |-> None]
    /\ writer = [e \in Events |-> [at |-> "idle", fenced |-> FALSE]]
    /\ row = [e \in Events |-> [at |-> "none", names |-> FALSE]]
    /\ record = [e \in Events |-> "none"]
    /\ worker = [w \in Workers |-> Resting]
    /\ eraser = [x \in Erasers |-> "idle"]
    /\ deletes = 0 /\ crashes = 0

Account == <<deleted, fence, owed, erased, deletes>>
Locked(e) == \E w \in Workers : worker[w].of = e

-----------------------------------------------------------------------------
(* Writers: write_inline_audit_event, stage_audit_event                    *)

\* Faulty variant: the fence is read without its lock.
FenceUnlocked(e, mode) ==
    /\ writer[e].at = "idle"
    /\ writer' = [writer EXCEPT ![e] = [at |-> mode, fenced |-> fence]]
    /\ UNCHANGED <<Account, lock, row, record, worker, eraser, crashes>>

\* The fence stays locked to the end of the transaction; an erased actor's
\* inline event is dropped.
Fence(e, mode) ==
    /\ writer[e].at = "idle" /\ lock["fence"] = None
    /\ IF fence /\ e \in ActorEvents /\ mode = "inline"
       THEN writer' = [writer EXCEPT ![e].at = "done"] /\ UNCHANGED lock
       ELSE /\ writer' = [writer EXCEPT ![e] = [at |-> mode, fenced |-> fence]]
            /\ lock' = [lock EXCEPT !["fence"] = e]
    /\ UNCHANGED <<Account, row, record, worker, eraser, crashes>>

WriteInline(e) ==
    /\ writer[e].at = "inline"
    /\ record' = [record EXCEPT ![e] = IF writer[e].fenced THEN "neutral" ELSE "named"]
    /\ writer' = [writer EXCEPT ![e].at = "written"]
    /\ UNCHANGED <<Account, lock, row, worker, eraser, crashes>>

Unfenced(e) == lock' = IF lock["fence"] = e THEN [lock EXCEPT !["fence"] = None] ELSE lock

EndInline(e) ==
    /\ writer[e].at = "written" /\ Unfenced(e)
    /\ writer' = [writer EXCEPT ![e].at = "done"]
    /\ UNCHANGED <<Account, row, record, worker, eraser, crashes>>

\* The caller commits the staged row, or rolls it back with its own work.
Stage(e, commits) ==
    /\ writer[e].at = "staging" /\ Unfenced(e)
    /\ row' = IF ~commits THEN row
              ELSE [row EXCEPT ![e] = IF writer[e].fenced /\ e \in ActorEvents
                                      THEN [at |-> "cancelled", names |-> FALSE]
                                      ELSE [at |-> "pending", names |-> ~writer[e].fenced]]
    /\ writer' = [writer EXCEPT ![e].at = "done"]
    /\ UNCHANGED <<Account, record, worker, eraser, crashes>>

Write(e) == \/ \E mode \in {"inline", "staging"} : Fence(e, mode)
            \/ WriteInline(e) \/ EndInline(e) \/ \E c \in BOOLEAN : Stage(e, c)

-----------------------------------------------------------------------------
(* The event worker: _handle_audit_log                                     *)

\* Faulty variant: the job of a worker that died is not leased again.
LockFirst(w, e) ==
    /\ worker[w].at = "idle" /\ row[e].at = "pending" /\ ~Locked(e) /\ crashes = 0
    /\ worker' = [worker EXCEPT ![w] = [at |-> "locked", of |-> e]]
    /\ UNCHANGED <<Account, lock, writer, row, record, eraser, crashes>>

Lock(w, e) ==
    /\ worker[w].at = "idle" /\ row[e].at = "pending" /\ ~Locked(e)
    /\ worker' = [worker EXCEPT ![w] = [at |-> "locked", of |-> e]]
    /\ UNCHANGED <<Account, lock, writer, row, record, eraser, crashes>>

\* write_audit_log_record: a record that is there is left alone.
Deliver(w) ==
    LET e == worker[w].of IN
    /\ worker[w].at = "locked"
    /\ record' = IF record[e] # "none" THEN record
                 ELSE [record EXCEPT ![e] = IF row[e].names THEN "named" ELSE "neutral"]
    /\ worker' = [worker EXCEPT ![w].at = "written"]
    /\ UNCHANGED <<Account, lock, writer, row, eraser, crashes>>

EndDeliver(w) ==
    /\ worker[w].at = "written"
    /\ row' = [row EXCEPT ![worker[w].of] = [at |-> "delivered", names |-> FALSE]]
    /\ worker' = [worker EXCEPT ![w] = Resting]
    /\ UNCHANGED <<Account, lock, writer, record, eraser, crashes>>

-----------------------------------------------------------------------------
(* Erasure: _erase_audit_subject_history, delete_audit_logs_for_user       *)

Guard(x) ==
    /\ eraser[x] = "idle" /\ owed /\ lock["guard"] = None
    /\ lock' = [lock EXCEPT !["guard"] = x]
    /\ eraser' = [eraser EXCEPT ![x] = "guarded"]
    /\ UNCHANGED <<Account, writer, row, record, worker, crashes>>

\* An account that is active again ends the erasure.
Check(x) ==
    /\ eraser[x] = "guarded" /\ lock["user"] = None
    /\ IF deleted
       THEN /\ lock' = [lock EXCEPT !["user"] = x] /\ UNCHANGED owed
            /\ eraser' = [eraser EXCEPT ![x] = "checked"]
       ELSE /\ lock' = [lock EXCEPT !["guard"] = None] /\ owed' = FALSE
            /\ eraser' = [eraser EXCEPT ![x] = "idle"]
    /\ UNCHANGED <<deleted, fence, erased, deletes, writer, row, record, worker, crashes>>

LockFence(x) ==
    /\ eraser[x] = "checked" /\ lock["fence"] = None
    /\ lock' = [lock EXCEPT !["fence"] = x]
    /\ eraser' = [eraser EXCEPT ![x] = "fencing"]
    /\ UNCHANGED <<Account, writer, row, record, worker, crashes>>

\* erase_user_audit_event_state waits for the rows' locks; its commit frees the
\* fence and the user row, the guard stays.
Redact(x) ==
    /\ eraser[x] = "fencing" /\ \A e \in Events : ~Locked(e)
    /\ fence' = TRUE
    /\ row' = [e \in Events |->
                  IF row[e].at = "none" THEN row[e]
                  ELSE [at |-> IF e \in ActorEvents THEN "cancelled" ELSE row[e].at, names |-> FALSE]]
    /\ lock' = [lock EXCEPT !["fence"] = None, !["user"] = None]
    /\ eraser' = [eraser EXCEPT ![x] = "between"]
    /\ UNCHANGED <<deleted, owed, erased, deletes, writer, record, worker, crashes>>

Delete(x) ==
    /\ eraser[x] = "between"
    /\ record' = [e \in Events |-> IF record[e] # "named" THEN record[e]
                                   ELSE IF e \in ActorEvents THEN "none" ELSE "neutral"]
    /\ erased' = TRUE /\ owed' = FALSE
    /\ lock' = [lock EXCEPT !["guard"] = None]
    /\ eraser' = [eraser EXCEPT ![x] = "idle"]
    /\ UNCHANGED <<deleted, fence, deletes, writer, row, worker, crashes>>

Erase(x) == Guard(x) \/ Check(x) \/ LockFence(x) \/ Redact(x) \/ Delete(x)

-----------------------------------------------------------------------------
(* The account, and crashes                                                *)

\* The deletion commits the erasure job with the account's state.
DeleteAccount ==
    /\ ~deleted /\ lock["user"] = None /\ deletes < MaxDeletes
    /\ deleted' = TRUE /\ owed' = TRUE /\ deletes' = deletes + 1
    /\ UNCHANGED <<fence, erased, lock, writer, row, record, worker, eraser, crashes>>

\* restore_user_state takes the guard, the user row and the fence.
RestoreAccount ==
    /\ deleted /\ \A l \in DOMAIN lock : lock[l] = None
    /\ deleted' = FALSE /\ fence' = FALSE /\ erased' = FALSE /\ owed' = FALSE
    /\ UNCHANGED <<deletes, lock, writer, row, record, worker, eraser, crashes>>

\* A connection that is lost rolls back and frees its locks.
Crash ==
    /\ crashes < MaxCrashes /\ crashes' = crashes + 1
    /\ \/ \E e \in Events : /\ writer[e].at \in {"inline", "written", "staging"} /\ Unfenced(e)
                            /\ writer' = [writer EXCEPT ![e].at = "done"]
                            /\ UNCHANGED <<worker, eraser>>
       \/ \E w \in Workers : /\ worker[w].at # "idle"
                             /\ worker' = [worker EXCEPT ![w] = Resting]
                             /\ UNCHANGED <<lock, writer, eraser>>
       \/ \E x \in Erasers : /\ eraser[x] # "idle"
                             /\ eraser' = [eraser EXCEPT ![x] = "idle"]
                             /\ lock' = [l \in DOMAIN lock |-> IF lock[l] = x THEN None ELSE lock[l]]
                             /\ UNCHANGED <<writer, worker>>
    /\ UNCHANGED <<Account, row, record>>

Next == \/ \E e \in Events : Write(e)
        \/ \E w \in Workers : (\E e \in Events : Lock(w, e)) \/ Deliver(w) \/ EndDeliver(w)
        \/ \E x \in Erasers : Erase(x)
        \/ DeleteAccount \/ RestoreAccount \/ Crash

Spec == Init /\ [][Next]_vars

\* Transactions that have begun go on; rows and jobs that are waiting are
\* claimed, and the database grants its locks in turn.
Fairness ==
    /\ \A e \in Events : WF_vars(WriteInline(e) \/ EndInline(e) \/ Stage(e, TRUE))
    /\ \A w \in Workers : WF_vars(Deliver(w) \/ EndDeliver(w))
    /\ \A e \in Events : SF_vars(\E w \in Workers : Lock(w, e))
    /\ SF_vars(\E x \in Erasers : Guard(x))
    /\ \A x \in Erasers : SF_vars(Check(x) \/ LockFence(x) \/ Redact(x) \/ Delete(x))

FairSpec == Spec /\ Fairness

-----------------------------------------------------------------------------
(* Properties                                                              *)

\* "Concurrent and later events cannot reintroduce an erased subject": after an
\* erasure neither the audit database nor the outbox names the account, until it
\* is restored.
ErasedStaysErased ==
    erased => \A e \in Events : record[e] # "named" /\ ~row[e].names

\* The account is not active again between the two commits of an erasure, so no
\* erasure deletes what a restored account does.
NoRestoreBetween == (\E x \in Erasers : eraser[x] = "between") => deleted

\* Before the first erasure an outbox row that was delivered is in the audit
\* database, wherever a worker died.
DeliveredIsRecorded ==
    ~fence /\ deletes = 0 => \A e \in Events : row[e].at = "delivered" => record[e] # "none"

\* An erased history stays erased, a restored account's is not erased, and what
\* was delivered before is there.
ErasureHolds == ErasedStaysErased /\ NoRestoreBetween /\ DeliveredIsRecorded

\* A staged event is delivered or cancelled in the end.
RowsSettle == \A e \in Events : (row[e].at = "pending") ~> (row[e].at # "pending")

\* A deleted account's history is erased in the end, or the account is restored.
ErasureEnds == (deleted /\ owed) ~> (erased \/ ~deleted)
=============================================================================
