-------------------------- MODULE WorkerQueueProofs --------------------------
(***************************************************************************)
(* Proofs about WorkerQueue for every set of workers and rows, every        *)
(* max_attempts, batch size and combination of requests and faults: about   *)
(* the rows of the table, the _process threads, and the outcome of a job.   *)
(***************************************************************************)
EXTENDS WorkerQueue, TLAPS

(* Every statement turns a row into a row.                                  *)
LEMMA NewRowType ==
    /\ NoRow \in Row
    /\ Purged \in Row
    /\ \A b \in BOOLEAN : NewRow(b) \in Row
  BY DEF Row, NoRow, NewRow, Purged, JobStatus, JobActive, JobTerminal, ErrorCodes

LEMMA RowOps ==
    ASSUME NEW r \in Row
    PROVE  /\ \A s \in JobTerminal, b \in BOOLEAN, c \in ErrorCodes :
                  Finished(r, s, b, c) \in Row
           /\ \A w \in Workers : LeasedTo(r, w) \in Row
           /\ Deferred(r) \in Row
           /\ \A c \in ErrorCodes : CancelledInQueue(r, c) \in Row
           /\ CancelFlagged(r) \in Row
           /\ ErasedActive(r) \in Row
           /\ Redacted(r) \in Row
           /\ \A b \in BOOLEAN : [r EXCEPT !.reconciled = b] \in Row
           /\ \A b \in BOOLEAN : [r EXCEPT !.due = b] \in Row
           /\ \A l \in {"none", "live", "lapsed"} : [r EXCEPT !.lease = l] \in Row
<1> USE DEF Row, JobStatus, JobActive, JobTerminal, ErrorCodes
<1>1. \A s \in JobTerminal, b \in BOOLEAN, c \in ErrorCodes : Finished(r, s, b, c) \in Row
  <2> TAKE s \in JobTerminal, b \in BOOLEAN, c \in ErrorCodes
  <2>1. s \in JobStatus
    OBVIOUS
  <2> HIDE DEF JobStatus, JobActive, JobTerminal, ErrorCodes
  <2>2. QED
    BY <2>1 DEF Finished
<1>2. \A w \in Workers : LeasedTo(r, w) \in Row
  <2> TAKE w \in Workers
  <2>1. r.attempts + 1 \in Nat
    OBVIOUS
  <2> DEFINE n == r.attempts + 1
             q == [r EXCEPT !.status = "processing", !.lease = "live", !.owner = w,
                            !.code = "none"]
  <2>2. q \in Row
    OBVIOUS
  <2>3. LeasedTo(r, w) = [q EXCEPT !.attempts = n]
    BY DEF LeasedTo
  <2> HIDE DEF n, q
  <2>4. n \in Nat
    BY <2>1 DEF n
  <2>5. [q EXCEPT !.attempts = n] \in Row
    BY <2>2, <2>4
  <2>6. QED
    BY <2>3, <2>5
<1>3. Deferred(r) \in Row
  BY DEF Deferred
<1>4. \A c \in ErrorCodes : CancelledInQueue(r, c) \in Row
  BY DEF CancelledInQueue
<1>5. CancelFlagged(r) \in Row /\ Redacted(r) \in Row
  BY DEF CancelFlagged, Redacted
<1>6. ErasedActive(r) \in Row
  BY DEF ErasedActive, Finished
<1>7. /\ \A b \in BOOLEAN : [r EXCEPT !.reconciled = b] \in Row
      /\ \A b \in BOOLEAN : [r EXCEPT !.due = b] \in Row
      /\ \A l \in {"none", "live", "lapsed"} : [r EXCEPT !.lease = l] \in Row
  OBVIOUS
<1> HIDE DEF Row, JobStatus, JobActive, JobTerminal, ErrorCodes
<1>8. QED
  BY <1>1, <1>2, <1>3, <1>4, <1>5, <1>6, <1>7

(* The columns the invariants speak of, after each statement.               *)
LEMMA LeasedFields ==
    ASSUME NEW r \in Row, NEW w
    PROVE  LET q == LeasedTo(r, w) IN
             /\ q.status = "processing" /\ q.cancel = r.cancel /\ q.owner = w
             /\ q.attempts = r.attempts + 1 /\ q.payload = r.payload
  BY DEF Row, LeasedTo

LEMMA QueuedFields ==
    ASSUME NEW r \in Row, NEW c
    PROVE  LET q == CancelledInQueue(r, c) IN
             /\ q.status = "cancelled" /\ q.cancel = TRUE /\ q.payload = FALSE
             /\ q.attempts = r.attempts /\ q.reconciled = r.reconciled
  BY DEF Row, CancelledInQueue

LEMMA RewrittenFields ==
    ASSUME NEW r \in Row
    PROVE  /\ LET q == Deferred(r) IN
                /\ q.status = "retry" /\ q.cancel = r.cancel
                /\ q.attempts = r.attempts /\ q.payload = r.payload
           /\ LET q == CancelFlagged(r) IN
                /\ q.status = r.status /\ q.cancel = TRUE /\ q.payload = FALSE
                /\ q.attempts = r.attempts /\ q.code = r.code /\ q.owner = r.owner
           /\ LET q == ErasedActive(r) IN
                /\ q.status = "cancelled" /\ q.cancel = TRUE /\ q.payload = FALSE
                /\ q.attempts = r.attempts /\ q.reconciled = r.reconciled
           /\ LET q == Redacted(r) IN
                /\ q.status = r.status /\ q.cancel = r.cancel /\ q.payload = FALSE
                /\ q.attempts = r.attempts /\ q.code = r.code /\ q.owner = r.owner
                /\ q.reconciled = r.reconciled
           /\ \A q \in {[r EXCEPT !.reconciled = TRUE], [r EXCEPT !.due = TRUE],
                       [r EXCEPT !.lease = "live"], [r EXCEPT !.lease = "lapsed"]} :
                /\ q.status = r.status /\ q.cancel = r.cancel /\ q.payload = r.payload
                /\ q.attempts = r.attempts /\ q.code = r.code /\ q.owner = r.owner
  BY DEF Row, Finished, Deferred, CancelFlagged, ErasedActive, Redacted

LEMMA FreshFields ==
    /\ \A b \in BOOLEAN :
              /\ NewRow(b).status = "pending" /\ ~NewRow(b).cancel
              /\ NewRow(b).payload = TRUE /\ NewRow(b).attempts = 0
              /\ NewRow(b).owner = NoWorker /\ NewRow(b).reconciled = FALSE
    /\ Purged.status = "purged" /\ ~Purged.cancel /\ Purged.payload = FALSE
    /\ Purged.attempts = 0 /\ Purged.reconciled = FALSE
    /\ NoRow.status = "absent" /\ ~NoRow.cancel /\ NoRow.payload = FALSE
    /\ NoRow.attempts = 0 /\ NoRow.reconciled = FALSE
  BY DEF NewRow, Purged, NoRow

LEMMA TypeInit == Init => TypeOK
  BY NewRowType DEF Init, TypeOK, NoRequest, NoPass, ExecPC, ProcState

(* A thread moves within its control states.                                *)
LEMMA PCMoves ==
    ASSUME TypeOK, NEW w \in Workers, NEW j \in Jobs
    PROVE  /\ Returned(w, j) => pc' \in [Workers -> [Jobs -> ExecPC]]
           /\ \A to \in ExecPC : MovePC(w, j, to) => pc' \in [Workers -> [Jobs -> ExecPC]]
           /\ {"no", "ack"} \subseteq ExecPC
<1>1. \A to \in ExecPC : MovePC(w, j, to) => pc' \in [Workers -> [Jobs -> ExecPC]]
  BY DEF TypeOK, MovePC
<1>2. AfterError(pc[w][j]) \in ExecPC /\ {"no", "ack"} \subseteq ExecPC
  BY DEF AfterError, ExecPC
<1>3. QED
  BY <1>1, <1>2 DEF Returned

LEMMA TypeNext == TypeOK /\ [Next]_vars => TypeOK'
<1> SUFFICES ASSUME TypeOK, [Next]_vars PROVE TypeOK'
  OBVIOUS
<1> USE DEF TypeOK
<1>1. ASSUME NEW j \in Jobs, JobStep(j) PROVE TypeOK'
  <2>1. CASE EnqueueWorkerJob(j)
    BY <2>1, NewRowType DEF EnqueueWorkerJob, processVars, historyVars
  <2>2. CASE LeaseLapses(j)
    BY <2>2, RowOps DEF LeaseLapses, processVars, historyVars
  <2>3. CASE BecomesDue(j)
    BY <2>3, RowOps DEF BecomesDue, processVars, historyVars
  <2>4. CASE DeadlinePasses(j)
    BY <2>4 DEF DeadlinePasses, processVars, historyVars
  <2>5. CASE Revive(j)
    BY <2>5, NewRowType DEF Revive, processVars
  <2>6. QED
    BY <1>1, <2>1, <2>2, <2>3, <2>4, <2>5 DEF JobStep
<1>2. ASSUME NEW w \in Workers, LoopStep(w) PROVE TypeOK'
  <2>1. CASE Reconcile(w)
    BY <2>1, RowOps, JobsAssumption DEF Reconcile, Unreconciled, processVars, historyVars
  <2>2. CASE SweepCancelled(w)
    BY <2>2, RowOps DEF SweepCancelled, historyVars, ProcState, JobTerminal, ErrorCodes
  <2>3. CASE SweepExhausted(w)
    BY <2>3, RowOps DEF SweepExhausted, historyVars, ProcState, JobTerminal, ErrorCodes
  <2>4. CASE SelectAndLease(w)
    <3>1. PICK ids \in SUBSET Eligible :
             /\ rows' = [j \in Jobs |-> IF j \in ids THEN LeasedTo(rows[j], w) ELSE rows[j]]
             /\ picked' = [picked EXCEPT ![w] = ids]
             /\ proc' = [proc EXCEPT ![w] = IF ids = {} THEN "idle" ELSE "read"]
      BY <2>4 DEF SelectAndLease
    <3>2. ids \subseteq Jobs
      BY DEF Eligible
    <3>3. QED
      BY <2>4, <3>1, <3>2, RowOps DEF SelectAndLease, historyVars, ProcState
  <2>5. CASE ReadClaimed(w)
    <3> DEFINE mine == {j \in picked[w] : HeldBy(rows[j], w)}
    <3>1. /\ pc' = [pc EXCEPT ![w] = [j \in Jobs |-> IF j \in mine THEN "check" ELSE "no"]]
          /\ att' = [att EXCEPT ![w] = [j \in Jobs |-> rows[j].attempts]]
          /\ saw' = [saw EXCEPT ![w] = [j \in Jobs |-> rows[j].payload]]
          /\ lost' = [lost EXCEPT ![w] = [j \in Jobs |-> FALSE]]
          /\ proc' = [proc EXCEPT ![w] = IF mine = {} THEN "idle" ELSE "batch"]
          /\ picked' = [picked EXCEPT ![w] = {}]
          /\ UNCHANGED <<tableVars, cx, mnt, historyVars, closed>>
      BY <2>5 DEF ReadClaimed
    <3> HIDE DEF mine
    <3>2. \A j \in Jobs : rows[j].attempts \in Nat /\ rows[j].payload \in BOOLEAN
      BY DEF Row
    <3>3. pc' \in [Workers -> [Jobs -> ExecPC]]
      BY <3>1 DEF ExecPC
    <3>4. att' \in [Workers -> [Jobs -> Nat]] /\ saw' \in [Workers -> [Jobs -> BOOLEAN]]
      BY <3>1, <3>2
    <3>5. QED
      BY <3>1, <3>3, <3>4 DEF tableVars, historyVars, ProcState
  <2>6. CASE ReadFails(w)
    BY <2>6 DEF ReadFails, tableVars, historyVars, ProcState
  <2>7. CASE BatchEnds(w)
    BY <2>7 DEF BatchEnds, tableVars, historyVars, ProcState, ExecPC
  <2>8. CASE Crash(w)
    BY <2>8 DEF Crash, tableVars, historyVars, ProcState, ExecPC
  <2>9. QED
    BY <1>2, <2>1, <2>2, <2>3, <2>4, <2>5, <2>6, <2>7, <2>8 DEF LoopStep
<1>3. ASSUME NEW w \in Workers, NEW j \in Jobs, ProcessStep(w, j) PROVE TypeOK'
  <2>1. CASE UnsupportedKind(w, j)
    BY <2>1 DEF UnsupportedKind, MovePC, tableVars, historyVars, ExecPC
  <2>2. CASE StartHandler(w, j)
    <3>1. \E to \in ExecPC : MovePC(w, j, to)
      BY <2>2 DEF StartHandler, ExecPC
    <3>2. starts' \in [Jobs -> Nat]
      <4>1. starts[j] + 1 \in Nat
        OBVIOUS
      <4>2. starts' = starts \/ starts' = [starts EXCEPT ![j] = starts[j] + 1]
        BY <2>2 DEF StartHandler
      <4>3. QED
        BY <4>1, <4>2
    <3>3. QED
      BY <2>2, <3>1, <3>2, PCMoves DEF StartHandler, tableVars
  <2>3. CASE HandlerSeesCancellation(w, j)
    BY <2>3 DEF HandlerSeesCancellation, MovePC, tableVars, historyVars, ExecPC
  <2>4. CASE HandlerReturns(w, j)
    BY <2>4 DEF HandlerReturns, MovePC, tableVars, historyVars, ExecPC
  <2>5. CASE HandlerRaises(w, j)
    BY <2>5 DEF HandlerRaises, MovePC, tableVars, historyVars, ExecPC
  <2>6. CASE PublishSuccess(w, j)
    <3>1. pc' \in [Workers -> [Jobs -> ExecPC]]
      BY <2>6, PCMoves DEF PublishSuccess
    <3>2. rows' \in [Jobs -> Row]
      <4>1. \/ rows' = rows
            \/ \E result \in BOOLEAN :
                 rows' = [rows EXCEPT ![j] = Finished(rows[j], "succeeded", result, "none")]
        BY <2>6 DEF PublishSuccess
      <4>2. \A result \in BOOLEAN : Finished(rows[j], "succeeded", result, "none") \in Row
        BY RowOps DEF JobTerminal, ErrorCodes
      <4>3. CASE rows' = rows
        BY <4>3
      <4>4. CASE \E result \in BOOLEAN :
                   rows' = [rows EXCEPT ![j] = Finished(rows[j], "succeeded", result, "none")]
        BY <4>2, <4>4
      <4>5. QED
        BY <4>1, <4>3, <4>4
    <3>3. QED
      BY <2>6, <3>1, <3>2 DEF PublishSuccess, historyVars
  <2>7. CASE MarkCancelled(w, j)
    <3>1. pc' \in [Workers -> [Jobs -> ExecPC]]
      BY <2>7, PCMoves DEF MarkCancelled
    <3>2. rows' \in [Jobs -> Row]
      BY <2>7, RowOps DEF MarkCancelled, JobTerminal, ErrorCodes
    <3>3. QED
      BY <2>7, <3>1, <3>2 DEF MarkCancelled, historyVars
  <2>8. CASE FinishFailure(w, j)
    <3>1. pc' \in [Workers -> [Jobs -> ExecPC]]
      BY <2>8, PCMoves DEF FinishFailure
    <3>2. rows' \in [Jobs -> Row]
      BY <2>8, RowOps DEF FinishFailure, FailedRow, JobTerminal, ErrorCodes
    <3>3. QED
      BY <2>8, <3>1, <3>2 DEF FinishFailure, historyVars
  <2>9. CASE DatabaseError(w, j)
    BY <2>9 DEF DatabaseError, AfterError, MovePC, tableVars, historyVars, ExecPC
  <2>10. CASE RenewLease(w, j)
    <3>1. rows' = rows \/ rows' = [rows EXCEPT ![j] = [rows[j] EXCEPT !.lease = "live"]]
      BY <2>10 DEF RenewLease
    <3>2. lost' = lost \/ lost' = [lost EXCEPT ![w][j] = TRUE]
      BY <2>10 DEF RenewLease
    <3>3. rows' \in [Jobs -> Row]
      <4>1. [rows[j] EXCEPT !.lease = "live"] \in Row
        BY RowOps
      <4>2. QED
        BY <3>1, <4>1
    <3>4. lost' \in [Workers -> [Jobs -> BOOLEAN]]
      <4>1. CASE lost' = lost
        BY <4>1
      <4>2. CASE lost' = [lost EXCEPT ![w][j] = TRUE]
        BY <4>2
      <4>3. QED
        BY <3>2, <4>1, <4>2
    <3>5. QED
      BY <2>10, <3>3, <3>4 DEF RenewLease, historyVars
  <2>11. CASE RenewGivesUp(w, j)
    BY <2>11 DEF RenewGivesUp, tableVars, historyVars
  <2>12. QED
    BY <1>3, <2>1, <2>2, <2>3, <2>4, <2>5, <2>6, <2>7, <2>8, <2>9, <2>10, <2>11
       DEF ProcessStep
<1>4. CASE RequestStep
  <2>1. ASSUME NEW op \in {"request", "account"}, NEW targets \in SUBSET Jobs,
               CancelQueued(op, targets)
        PROVE  TypeOK'
    BY <2>1, RowOps DEF CancelQueued, processVars, historyVars, ErrorCodes
  <2>2. CASE RequestCancellation
    BY <2>1, <2>2 DEF RequestCancellation
  <2>3. CASE CancelUserJobs
    BY <2>1, <2>3 DEF CancelUserJobs
  <2>4. CASE FlagProcessing
    BY <2>4, RowOps DEF FlagProcessing, processVars, NoRequest
  <2>5. CASE EraseActive
    BY <2>5, RowOps DEF EraseActive, processVars, historyVars
  <2>6. CASE EraseRemaining
    BY <2>6, RowOps DEF EraseRemaining, processVars, NoRequest
  <2>7. QED
    BY <1>4, <2>2, <2>3, <2>4, <2>5, <2>6 DEF RequestStep
<1>5. CASE MaintenanceStep
  <2>1. CASE ExpireSelect
    BY <2>1, JobsAssumption DEF ExpireSelect, tableVars, processVars, historyVars
  <2>2. CASE ExpireUpdate
    BY <2>2, RowOps DEF ExpireUpdate, processVars, historyVars, NoPass, JobTerminal, ErrorCodes
  <2>3. CASE PurgeSelect
    BY <2>3 DEF PurgeSelect, tableVars, processVars, historyVars
  <2>4. CASE PurgeDelete
    BY <2>4, NewRowType DEF PurgeDelete, processVars, historyVars, NoPass
  <2>5. QED
    BY <1>5, <2>1, <2>2, <2>3, <2>4 DEF MaintenanceStep
<1>6. CASE UNCHANGED vars
  BY <1>6 DEF vars, tableVars, processVars, historyVars
<1>7. QED
  BY <1>1, <1>2, <1>3, <1>4, <1>5, <1>6 DEF Next

(* Every reachable state is well typed.                                     *)
THEOREM TypeCorrect == Spec => []TypeOK
  BY TypeInit, TypeNext, PTL DEF Spec

-----------------------------------------------------------------------------
(* What one step may do to one row, whichever process takes it.  The       *)
(* invariants that speak of a row alone follow from this relation.         *)

ProcessMove(j, r, q) ==
    /\ r.status = "processing"
    /\ \/ q = [r EXCEPT !.lease = "live"]
       \/ /\ ~r.cancel /\ \E w \in Workers : pc[w][j] = "done"
          /\ \E b \in BOOLEAN : q = Finished(r, "succeeded", b, "none")
       \/ q = Finished(r, "cancelled", FALSE, "cancelled")
       \/ ~r.cancel /\ q = Finished(r, "failed", FALSE, "error")
       \/ ~r.cancel /\ r.attempts < MaxAttempts[j] /\ q = Deferred(r)

ClaimMove(j, r, q) ==
    \/ Lapsed(r) /\ r.cancel /\ q = Finished(r, "cancelled", FALSE, "cancelled")
    \/ /\ Lapsed(r) /\ r.attempts >= MaxAttempts[j]
       /\ q = Finished(r, "failed", FALSE, "lease_expired")
    \/ /\ Claimable(r, MaxAttempts[j])
       /\ \E w \in Workers : q = LeasedTo(r, w) /\ proc[w] = "select" /\ pc' = pc
    \/ /\ r.status \in {"failed", "cancelled"} /\ j \in closed'
       /\ q = [r EXCEPT !.reconciled = TRUE]

RequestMove(j, r, q) ==
    \/ Queued(r) /\ \E c \in {"cancelled", "account"} : q = CancelledInQueue(r, c)
    \/ r.status = "processing" /\ q = CancelFlagged(r)
    \/ Active(r) /\ q = ErasedActive(r)
    \/ (r.status # "absent" => j \in erased') /\ q = Redacted(r)

MaintenanceMove(j, r, q) ==
    \/ /\ mnt.op = "expire" /\ j \in mnt.ids /\ r.status # "purged"
       /\ q = Finished(r, "cancelled", FALSE, "expired")
    \/ mnt.op = "purge" /\ j \in mnt.ids /\ q = Purged

TimeMove(j, r, q) ==
    \/ r.status = "absent" /\ \E b \in BOOLEAN : q = NewRow(b)
    \/ r.lease = "live" /\ q = [r EXCEPT !.lease = "lapsed"]
    \/ Queued(r) /\ q = [r EXCEPT !.due = TRUE]
    \/ /\ r.status = "failed" /\ j \in Lifecycle /\ MaxRevivals # 0 /\ starts'[j] = 0
       /\ \E b \in BOOLEAN : q = NewRow(b)

AnyMove(j, r, q) ==
    \/ q = r
    \/ ProcessMove(j, r, q)
    \/ ClaimMove(j, r, q)
    \/ RequestMove(j, r, q)
    \/ MaintenanceMove(j, r, q)
    \/ TimeMove(j, r, q)

RowMove(j) == AnyMove(j, rows[j], rows'[j])

(* The columns after each kind of move.                                     *)
ProcessEffect(j, r, q) ==
    /\ r.status = "processing" /\ q.cancel = r.cancel
    /\ q.attempts = r.attempts
    /\ \/ q.status = "processing" /\ q.payload = r.payload /\ q.owner = r.owner
       \/ q.status \in {"succeeded", "failed"} /\ ~r.cancel /\ q.payload = FALSE
       \/ q.status = "cancelled" /\ q.payload = FALSE
       \/ q.status = "retry" /\ ~r.cancel /\ q.payload = r.payload

ClaimEffect(j, r, q) ==
    /\ q.cancel = r.cancel
    /\ \/ r.cancel /\ q.status = "cancelled" /\ q.payload = FALSE
       \/ q.status = "failed" /\ q.code = "lease_expired" /\ q.payload = FALSE
       \/ ~r.cancel /\ q.status = "processing" /\ q.payload = r.payload
       \/ /\ r.status \in {"failed", "cancelled"} /\ q.status = r.status
          /\ q.payload = r.payload /\ q.code = r.code

RequestEffect(j, r, q) ==
    /\ q.payload = FALSE /\ q.attempts = r.attempts
    /\ \/ q.status = "cancelled" /\ q.cancel
       \/ /\ r.status = "processing" /\ q.status = r.status /\ q.cancel
          /\ q.owner = r.owner /\ q.code = r.code
       \/ /\ q.status = r.status /\ q.cancel = r.cancel
          /\ q.owner = r.owner /\ q.code = r.code
          /\ r.status # "absent" => j \in erased'

MaintenanceEffect(j, r, q) ==
    \/ /\ mnt.op = "expire" /\ j \in mnt.ids /\ r.status # "purged"
       /\ q.status = "cancelled" /\ q.cancel = r.cancel /\ q.payload = FALSE
       /\ q.attempts = r.attempts /\ q.reconciled = r.reconciled
    \/ /\ mnt.op = "purge" /\ j \in mnt.ids
       /\ q.status = "purged" /\ ~q.cancel /\ q.payload = FALSE
       /\ q.attempts = 0 /\ q.reconciled = FALSE

LEMMA ProcessColumns ==
    ASSUME NEW j, NEW r \in Row, NEW q, ProcessMove(j, r, q)
    PROVE  ProcessEffect(j, r, q)
<1> USE DEF ProcessEffect
<1>1. r.status = "processing"
  BY DEF ProcessMove
<1>2. CASE q = [r EXCEPT !.lease = "live"]
  BY <1>1, <1>2, RewrittenFields
<1>3. CASE ~r.cancel /\ \E b \in BOOLEAN : q = Finished(r, "succeeded", b, "none")
  BY <1>1, <1>3 DEF Row, Finished
<1>4. CASE q = Finished(r, "cancelled", FALSE, "cancelled")
  BY <1>1, <1>4 DEF Row, Finished
<1>5. CASE ~r.cancel /\ q = Finished(r, "failed", FALSE, "error")
  BY <1>1, <1>5 DEF Row, Finished
<1>6. CASE ~r.cancel /\ q = Deferred(r)
  BY <1>1, <1>6, RewrittenFields
<1>7. QED
  BY <1>2, <1>3, <1>4, <1>5, <1>6 DEF ProcessMove

LEMMA ClaimColumns ==
    ASSUME NEW j, NEW r \in Row, NEW q, ClaimMove(j, r, q)
    PROVE  ClaimEffect(j, r, q)
<1> USE DEF ClaimEffect
<1>1. CASE r.cancel /\ q = Finished(r, "cancelled", FALSE, "cancelled")
  BY <1>1 DEF Row, Finished
<1>2. CASE q = Finished(r, "failed", FALSE, "lease_expired")
  BY <1>2 DEF Row, Finished
<1>3. CASE Claimable(r, MaxAttempts[j]) /\ \E w \in Workers : q = LeasedTo(r, w)
  <2>1. ~r.cancel
    BY <1>3 DEF Claimable
  <2>2. QED
    BY <1>3, <2>1, LeasedFields
<1>4. CASE r.status \in {"failed", "cancelled"} /\ q = [r EXCEPT !.reconciled = TRUE]
  BY <1>4, RewrittenFields
<1>5. QED
  BY <1>1, <1>2, <1>3, <1>4 DEF ClaimMove

LEMMA RequestColumns ==
    ASSUME NEW j, NEW r \in Row, NEW q, RequestMove(j, r, q)
    PROVE  RequestEffect(j, r, q)
<1> USE DEF RequestEffect
<1>1. CASE \E c \in {"cancelled", "account"} : q = CancelledInQueue(r, c)
  BY <1>1 DEF Row, CancelledInQueue
<1>2. CASE r.status = "processing" /\ q = CancelFlagged(r)
  BY <1>2, RewrittenFields
<1>3. CASE q = ErasedActive(r)
  BY <1>3, RewrittenFields
<1>4. CASE (r.status # "absent" => j \in erased') /\ q = Redacted(r)
  BY <1>4, RewrittenFields
<1>5. QED
  BY <1>1, <1>2, <1>3, <1>4 DEF RequestMove

LEMMA MaintenanceColumns ==
    ASSUME NEW j, NEW r \in Row, NEW q, MaintenanceMove(j, r, q)
    PROVE  MaintenanceEffect(j, r, q)
<1> USE DEF MaintenanceEffect
<1>1. CASE /\ mnt.op = "expire" /\ j \in mnt.ids /\ r.status # "purged"
           /\ q = Finished(r, "cancelled", FALSE, "expired")
  BY <1>1 DEF Row, Finished
<1>2. CASE mnt.op = "purge" /\ j \in mnt.ids /\ q = Purged
  BY <1>2, FreshFields
<1>3. QED
  BY <1>1, <1>2 DEF MaintenanceMove

LEMMA RowMoves == TypeOK /\ [Next]_vars => \A k \in Jobs : RowMove(k)
<1> SUFFICES ASSUME TypeOK, [Next]_vars, NEW k \in Jobs PROVE RowMove(k)
  OBVIOUS
<1> USE DEF TypeOK
<1>0. ASSUME rows' = rows PROVE RowMove(k)
  BY <1>0 DEF RowMove, AnyMove
<1>1. ASSUME NEW j \in Jobs, JobStep(j) PROVE RowMove(k)
  <2>1. CASE EnqueueWorkerJob(j)
    BY <2>1 DEF EnqueueWorkerJob, RowMove, AnyMove, TimeMove
  <2>2. CASE LeaseLapses(j)
    BY <2>2 DEF LeaseLapses, RowMove, AnyMove, TimeMove
  <2>3. CASE BecomesDue(j)
    BY <2>3 DEF BecomesDue, RowMove, AnyMove, TimeMove
  <2>4. CASE DeadlinePasses(j)
    BY <2>4, <1>0 DEF DeadlinePasses
  <2>5. CASE Revive(j)
    <3>1. MaxRevivals # 0
      BY <2>5, JobsAssumption DEF Revive
    <3>2. QED
      BY <2>5, <3>1 DEF Revive, RowMove, AnyMove, TimeMove
  <2>6. QED
    BY <1>1, <2>1, <2>2, <2>3, <2>4, <2>5 DEF JobStep
<1>2. ASSUME NEW w \in Workers, LoopStep(w) PROVE RowMove(k)
  <2>1. CASE Reconcile(w)
    BY <2>1 DEF Reconcile, Unreconciled, RowMove, AnyMove, ClaimMove
  <2>2. CASE SweepCancelled(w)
    BY <2>2 DEF SweepCancelled, RowMove, AnyMove, ClaimMove
  <2>3. CASE SweepExhausted(w)
    BY <2>3 DEF SweepExhausted, RowMove, AnyMove, ClaimMove
  <2>4. CASE SelectAndLease(w)
    <3>1. CASE k \in Eligible /\ rows'[k] = LeasedTo(rows[k], w)
      BY <2>4, <3>1 DEF SelectAndLease, Eligible, RowMove, AnyMove, ClaimMove
    <3>2. CASE rows'[k] = rows[k]
      BY <3>2 DEF RowMove, AnyMove
    <3>3. QED
      BY <2>4, <3>1, <3>2 DEF SelectAndLease, Eligible
  <2>5. CASE ReadClaimed(w)
    BY <2>5, <1>0 DEF ReadClaimed, tableVars
  <2>6. CASE ReadFails(w)
    BY <2>6, <1>0 DEF ReadFails, tableVars
  <2>7. CASE BatchEnds(w)
    BY <2>7, <1>0 DEF BatchEnds, tableVars
  <2>8. CASE Crash(w)
    BY <2>8, <1>0 DEF Crash, tableVars
  <2>9. QED
    BY <1>2, <2>1, <2>2, <2>3, <2>4, <2>5, <2>6, <2>7, <2>8 DEF LoopStep
<1>3. ASSUME NEW w \in Workers, NEW j \in Jobs, ProcessStep(w, j) PROVE RowMove(k)
  <2>1. CASE \/ UnsupportedKind(w, j) \/ StartHandler(w, j) \/ HandlerSeesCancellation(w, j)
             \/ HandlerReturns(w, j) \/ HandlerRaises(w, j) \/ DatabaseError(w, j)
             \/ RenewGivesUp(w, j)
    BY <2>1, <1>0 DEF UnsupportedKind, StartHandler, HandlerSeesCancellation, HandlerReturns,
       HandlerRaises, DatabaseError, RenewGivesUp, tableVars
  <2>2. CASE PublishSuccess(w, j)
    <3>1. CASE rows' = rows
      BY <3>1, <1>0
    <3>2. CASE /\ pc[w][j] = "done" /\ HeldBy(rows[j], w) /\ ~rows[j].cancel
               /\ \E result \in BOOLEAN :
                    rows' = [rows EXCEPT ![j] = Finished(@, "succeeded", result, "none")]
      <4>1. CASE k = j
        BY <3>2, <4>1 DEF HeldBy, RowMove, AnyMove, ProcessMove
      <4>2. CASE k # j
        BY <3>2, <4>2 DEF RowMove, AnyMove
      <4>3. QED
        BY <4>1, <4>2
    <3>3. QED
      BY <2>2, <3>1, <3>2 DEF PublishSuccess
  <2>3. CASE MarkCancelled(w, j)
    BY <2>3 DEF MarkCancelled, HeldBy, RowMove, AnyMove, ProcessMove
  <2>4. CASE FinishFailure(w, j)
    <3>1. CASE ~HeldBy(rows[j], w)
      BY <2>4, <3>1, <1>0 DEF FinishFailure
    <3>2. CASE HeldBy(rows[j], w)
      <4>1. rows[j].attempts \in Nat /\ MaxAttempts[j] \in Nat
        BY JobsAssumption DEF Row
      <4>2. rows[j].attempts >= MaxAttempts[j] \/ rows[j].attempts < MaxAttempts[j]
        BY <4>1
      <4> DEFINE q == FailedRow(rows[j], MaxAttempts[j], pc[w][j] = "retry", j \in overdue)
      <4>3. \/ q = Finished(rows[j], "cancelled", FALSE, "cancelled")
            \/ ~rows[j].cancel /\ q = Finished(rows[j], "failed", FALSE, "error")
            \/ ~rows[j].cancel /\ rows[j].attempts < MaxAttempts[j] /\ q = Deferred(rows[j])
        BY <4>2, Zenon DEF FailedRow
      <4>4. rows' = [rows EXCEPT ![j] = q]
        BY <2>4, <3>2 DEF FinishFailure
      <4> HIDE DEF q
      <4>5. CASE k = j
        BY <3>2, <4>3, <4>4, <4>5 DEF HeldBy, RowMove, AnyMove, ProcessMove
      <4>6. CASE k # j
        BY <4>4, <4>6 DEF RowMove, AnyMove
      <4>7. QED
        BY <4>5, <4>6
    <3>3. QED
      BY <3>1, <3>2
  <2>5. CASE RenewLease(w, j)
    <3>1. CASE rows' = rows
      BY <3>1, <1>0
    <3>2. CASE HeldBy(rows[j], w) /\ rows' = [rows EXCEPT ![j].lease = "live"]
      <4>1. CASE k = j
        BY <3>2, <4>1 DEF HeldBy, RowMove, AnyMove, ProcessMove
      <4>2. CASE k # j
        BY <3>2, <4>2 DEF RowMove, AnyMove
      <4>3. QED
        BY <4>1, <4>2
    <3>3. QED
      BY <2>5, <3>1, <3>2 DEF RenewLease
  <2>6. QED
    BY <1>3, <2>1, <2>2, <2>3, <2>4, <2>5 DEF ProcessStep
<1>4. CASE RequestStep
  <2>1. ASSUME NEW op, NEW targets, CancelQueued(op, targets) PROVE RowMove(k)
    BY <2>1 DEF CancelQueued, RowMove, AnyMove, RequestMove
  <2>2. CASE FlagProcessing
    BY <2>2 DEF FlagProcessing, RowMove, AnyMove, RequestMove
  <2>3. CASE EraseActive
    BY <2>3 DEF EraseActive, RowMove, AnyMove, RequestMove
  <2>4. CASE EraseRemaining
    BY <2>4 DEF EraseRemaining, RowMove, AnyMove, RequestMove
  <2>5. QED
    BY <1>4, <2>1, <2>2, <2>3, <2>4 DEF RequestStep, RequestCancellation, CancelUserJobs
<1>5. CASE MaintenanceStep
  <2>1. CASE ExpireSelect \/ PurgeSelect
    BY <2>1, <1>0 DEF ExpireSelect, PurgeSelect, tableVars
  <2>2. CASE ExpireUpdate
    BY <2>2 DEF ExpireUpdate, RowMove, AnyMove, MaintenanceMove
  <2>3. CASE PurgeDelete
    BY <2>3 DEF PurgeDelete, RowMove, AnyMove, MaintenanceMove
  <2>4. QED
    BY <1>5, <2>1, <2>2, <2>3 DEF MaintenanceStep
<1>6. CASE UNCHANGED vars
  BY <1>6, <1>0 DEF vars, tableVars
<1>7. QED
  BY <1>1, <1>2, <1>3, <1>4, <1>5, <1>6 DEF Next

(* The history sets only grow.                                              *)
LEMMA Monotone ==
    [Next]_vars => erased \subseteq erased' /\ closed \subseteq closed'
<1> SUFFICES ASSUME [Next]_vars PROVE erased \subseteq erased' /\ closed \subseteq closed'
  OBVIOUS
<1> USE DEF vars, tableVars, processVars, historyVars
<1>1. ASSUME NEW j \in Jobs, JobStep(j) PROVE erased' = erased /\ closed' = closed
  BY <1>1 DEF JobStep, EnqueueWorkerJob, LeaseLapses, BecomesDue, DeadlinePasses, Revive
<1>2. ASSUME NEW w \in Workers, LoopStep(w) PROVE erased' = erased /\ closed \subseteq closed'
  BY <1>2 DEF LoopStep, Reconcile, SweepCancelled, SweepExhausted, SelectAndLease,
     ReadClaimed, ReadFails, BatchEnds, Crash
<1>3. ASSUME NEW w \in Workers, NEW j \in Jobs, ProcessStep(w, j)
      PROVE  erased' = erased /\ closed \subseteq closed'
  BY <1>3 DEF ProcessStep, UnsupportedKind, StartHandler, HandlerSeesCancellation,
     HandlerReturns, HandlerRaises, PublishSuccess, MarkCancelled, FinishFailure,
     DatabaseError, RenewLease, RenewGivesUp
<1>4. ASSUME RequestStep PROVE erased \subseteq erased' /\ closed' = closed
  BY <1>4 DEF RequestStep, RequestCancellation, CancelUserJobs, CancelQueued,
     FlagProcessing, EraseActive, EraseRemaining
<1>5. ASSUME MaintenanceStep PROVE erased' = erased /\ closed' = closed
  BY <1>5 DEF MaintenanceStep, ExpireSelect, ExpireUpdate, PurgeSelect, PurgeDelete
<1>6. QED
  BY <1>1, <1>2, <1>3, <1>4, <1>5 DEF Next

-----------------------------------------------------------------------------
(* The payload.                                                             *)

PayloadRow(j, r) ==
    /\ r.payload => Active(r) /\ ~r.cancel
    /\ Active(r) /\ ~r.cancel /\ ~r.payload => j \in erased

LEMMA PayloadMove ==
    ASSUME NEW j, NEW r \in Row, NEW q, PayloadRow(j, r), AnyMove(j, r, q),
           j \in erased => j \in erased'
    PROVE  /\ q.payload => Active(q) /\ ~q.cancel
           /\ Active(q) /\ ~q.cancel /\ ~q.payload => j \in erased'
<1> USE DEF PayloadRow, Active, JobActive, Row, JobStatus, JobTerminal
<1>1. CASE q = r
  BY <1>1
<1>2. CASE ProcessMove(j, r, q)
  <2>1. CASE q = [r EXCEPT !.lease = "live"]
    BY <2>1
  <2>2. CASE \E b \in BOOLEAN : q = Finished(r, "succeeded", b, "none")
    BY <2>2 DEF Finished
  <2>3. CASE q = Finished(r, "cancelled", FALSE, "cancelled")
    BY <2>3 DEF Finished
  <2>4. CASE q = Finished(r, "failed", FALSE, "error")
    BY <2>4 DEF Finished
  <2>5. CASE r.status = "processing" /\ q = Deferred(r)
    BY <2>5 DEF Deferred
  <2>6. QED
    BY <1>2, <2>1, <2>2, <2>3, <2>4, <2>5 DEF ProcessMove
<1>3. CASE ClaimMove(j, r, q)
  <2>1. CASE Claimable(r, MaxAttempts[j]) /\ \E w \in Workers : q = LeasedTo(r, w)
    BY <2>1 DEF Claimable, Queued, Lapsed, LeasedTo
  <2>2. CASE r.status \in {"failed", "cancelled"} /\ q = [r EXCEPT !.reconciled = TRUE]
    BY <2>2
  <2>3. CASE q = Finished(r, "cancelled", FALSE, "cancelled")
    BY <2>3 DEF Finished
  <2>4. CASE q = Finished(r, "failed", FALSE, "lease_expired")
    BY <2>4 DEF Finished
  <2>5. QED
    BY <1>3, <2>1, <2>2, <2>3, <2>4 DEF ClaimMove
<1>4. CASE RequestMove(j, r, q)
  <2>1. r.status # "absent" \/ ~Active(r)
    OBVIOUS
  <2>2. RequestEffect(j, r, q)
    BY <1>4, RequestColumns
  <2>3. QED
    BY <2>1, <2>2 DEF RequestEffect
<1>5. CASE MaintenanceMove(j, r, q)
  <2>1. MaintenanceEffect(j, r, q)
    BY <1>5, MaintenanceColumns
  <2>2. QED
    BY <2>1 DEF MaintenanceEffect
<1>6. CASE TimeMove(j, r, q)
  BY <1>6, FreshFields DEF TimeMove, Queued
<1>7. QED
  BY <1>1, <1>2, <1>3, <1>4, <1>5, <1>6 DEF AnyMove

LEMMA PayloadNext == TypeOK /\ PayloadLifetime /\ [Next]_vars => PayloadLifetime'
<1> SUFFICES ASSUME TypeOK, PayloadLifetime, [Next]_vars, NEW j \in Jobs
             PROVE  /\ rows'[j].payload => Active(rows'[j]) /\ ~rows'[j].cancel
                    /\ Active(rows'[j]) /\ ~rows'[j].cancel /\ ~rows'[j].payload
                         => j \in erased'
  BY DEF PayloadLifetime
<1>1. RowMove(j) /\ rows[j] \in Row /\ (j \in erased => j \in erased')
  BY RowMoves, Monotone DEF TypeOK
<1>2. PayloadRow(j, rows[j])
  BY DEF PayloadLifetime, PayloadRow
<1>3. QED
  BY <1>1, <1>2, PayloadMove DEF RowMove

(* No terminal or cancelled row keeps its payload, and no job that may still *)
(* run has lost it, except to an account erasure.                           *)
THEOREM PayloadCorrect == Spec => []PayloadLifetime
<1>1. Init => PayloadLifetime
  BY DEF Init, PayloadLifetime, NoRow, Active, JobActive
<1>2. QED
  BY <1>1, TypeCorrect, PayloadNext, PTL DEF Spec

-----------------------------------------------------------------------------
(* Cancellation.                                                            *)

CancelRow(r) ==
    r.cancel => \/ r.status \in {"processing", "cancelled"}
                \/ r.status = "failed" /\ r.code = "lease_expired"

CancelOutcome == \A j \in Jobs : CancelRow(rows[j])

LEMMA CancelMove ==
    ASSUME NEW j, NEW r \in Row, NEW q, CancelRow(r), AnyMove(j, r, q)
    PROVE  CancelRow(q)
<1> USE DEF CancelRow, Row
<1>1. CASE q = r
  BY <1>1
<1>2. CASE ProcessMove(j, r, q)
  <2>1. ProcessEffect(j, r, q)
    BY <1>2, ProcessColumns
  <2>2. QED
    BY <2>1 DEF ProcessEffect
<1>3. CASE ClaimMove(j, r, q)
  <2>1. ClaimEffect(j, r, q)
    BY <1>3, ClaimColumns
  <2>2. QED
    BY <2>1 DEF ClaimEffect
<1>4. CASE RequestMove(j, r, q)
  <2>1. RequestEffect(j, r, q)
    BY <1>4, RequestColumns
  <2>2. QED
    BY <2>1 DEF RequestEffect
<1>5. CASE MaintenanceMove(j, r, q)
  <2>1. MaintenanceEffect(j, r, q)
    BY <1>5, MaintenanceColumns
  <2>2. QED
    BY <2>1 DEF MaintenanceEffect
<1>6. CASE TimeMove(j, r, q)
  <2>1. CASE \E b \in BOOLEAN : q = NewRow(b)
    BY <2>1, FreshFields
  <2>2. CASE q = [r EXCEPT !.lease = "lapsed"] \/ q = [r EXCEPT !.due = TRUE]
    BY <2>2, RewrittenFields
  <2>3. QED
    BY <1>6, <2>1, <2>2 DEF TimeMove
<1>7. QED
  BY <1>1, <1>2, <1>3, <1>4, <1>5, <1>6 DEF AnyMove

LEMMA CancelOutcomeNext == TypeOK /\ CancelOutcome /\ [Next]_vars => CancelOutcome'
<1> SUFFICES ASSUME TypeOK, CancelOutcome, [Next]_vars, NEW j \in Jobs
             PROVE  CancelRow(rows'[j])
  BY DEF CancelOutcome, CancelRow
<1>1. RowMove(j) /\ rows[j] \in Row /\ CancelRow(rows[j])
  BY RowMoves DEF TypeOK, CancelOutcome
<1>2. QED
  BY <1>1, CancelMove DEF RowMove

LEMMA CancelNoClaim ==
    TypeOK /\ [Next]_vars =>
        \A j \in Jobs : rows[j].cancel => rows'[j].attempts <= rows[j].attempts
<1> SUFFICES ASSUME TypeOK, [Next]_vars, NEW j \in Jobs, rows[j].cancel
             PROVE  rows'[j].attempts <= rows[j].attempts
  OBVIOUS
<1>1. RowMove(j) /\ rows[j] \in Row
  BY RowMoves DEF TypeOK
<1>2. rows[j].attempts \in Nat
  BY <1>1 DEF Row
<1>3. rows'[j].attempts = rows[j].attempts \/ rows'[j].attempts = 0
  BY <1>1 DEF RowMove, AnyMove, ProcessMove, ClaimMove, RequestMove, MaintenanceMove, TimeMove,
     Finished, Deferred, LeasedTo, Claimable, CancelledInQueue, CancelFlagged, ErasedActive,
     Redacted, Purged, NewRow, NoRow, Row
<1>4. QED
  BY <1>2, <1>3

(* Once cancel_requested is set no process is handed the row again.          *)
THEOREM CancelledRowsStayUnclaimed == Spec => NoClaimAfterCancel
  BY TypeCorrect, CancelNoClaim, PTL DEF Spec, NoClaimAfterCancel

-----------------------------------------------------------------------------
(* The _process threads: what one step may do to one thread, and the        *)
(* invariants that relate a thread to its row.                              *)

(* The main loop: threads exist only while it waits for its batch, and the *)
(* ids of a claim only until they are read back.                           *)
LoopInv ==
    \A w \in Workers :
        /\ proc[w] # "batch" => \A j \in Jobs : pc[w][j] = "no"
        /\ proc[w] # "read" => picked[w] = {}

LEMMA LoopNext == TypeOK /\ LoopInv /\ [Next]_vars => LoopInv'
<1> SUFFICES ASSUME TypeOK, LoopInv, [Next]_vars PROVE LoopInv'
  OBVIOUS
<1> USE DEF LoopInv, TypeOK
<1>0. ASSUME UNCHANGED <<proc, picked, pc>> PROVE LoopInv'
  BY <1>0
<1>1. ASSUME NEW j \in Jobs, JobStep(j) PROVE LoopInv'
  BY <1>1, <1>0 DEF JobStep, EnqueueWorkerJob, LeaseLapses, BecomesDue, DeadlinePasses,
     Revive, processVars
<1>2. ASSUME NEW w \in Workers, LoopStep(w) PROVE LoopInv'
  <2>1. CASE Reconcile(w)
    BY <2>1, <1>0 DEF Reconcile, processVars
  <2>2. CASE SweepCancelled(w)
    BY <2>2 DEF SweepCancelled
  <2>3. CASE SweepExhausted(w)
    BY <2>3 DEF SweepExhausted
  <2>4. CASE SelectAndLease(w)
    BY <2>4 DEF SelectAndLease
  <2>5. CASE ReadClaimed(w)
    BY <2>5 DEF ReadClaimed
  <2>6. CASE ReadFails(w)
    BY <2>6 DEF ReadFails
  <2>7. CASE BatchEnds(w)
    BY <2>7 DEF BatchEnds
  <2>8. CASE Crash(w)
    BY <2>8 DEF Crash
  <2>9. QED
    BY <1>2, <2>1, <2>2, <2>3, <2>4, <2>5, <2>6, <2>7, <2>8 DEF LoopStep
<1>3. ASSUME NEW w \in Workers, NEW j \in Jobs, ProcessStep(w, j) PROVE LoopInv'
  <2>1. UNCHANGED <<proc, picked>>
    BY <1>3 DEF ProcessStep, UnsupportedKind, StartHandler, HandlerSeesCancellation,
       HandlerReturns, HandlerRaises, PublishSuccess, MarkCancelled, FinishFailure,
       DatabaseError, RenewLease, RenewGivesUp
  <2>2. pc[w][j] # "no"
    BY <1>3 DEF ProcessStep, UnsupportedKind, StartHandler, HandlerSeesCancellation,
       HandlerReturns, HandlerRaises, PublishSuccess, MarkCancelled, FinishFailure,
       DatabaseError, RenewLease, RenewGivesUp, Executing
  <2>3. pc' = pc \/ \E to : MovePC(w, j, to)
    BY <1>3 DEF ProcessStep, UnsupportedKind, StartHandler, HandlerSeesCancellation,
       HandlerReturns, HandlerRaises, PublishSuccess, MarkCancelled, FinishFailure,
       DatabaseError, RenewLease, RenewGivesUp, Returned
  <2>4. \A v \in Workers \ {w} : pc'[v] = pc[v]
    BY <2>3 DEF MovePC
  <2>5. proc[w] = "batch"
    BY <2>2
  <2>6. ASSUME NEW v \in Workers
        PROVE  /\ proc'[v] # "batch" => \A i \in Jobs : pc'[v][i] = "no"
               /\ proc'[v] # "read" => picked'[v] = {}
    <3>1. CASE v = w
      BY <2>1, <2>5, <3>1
    <3>2. CASE v # w
      BY <2>1, <2>4, <3>2
    <3>3. QED
      BY <3>1, <3>2
  <2>7. QED
    BY <2>6
<1>4. CASE RequestStep
  BY <1>4, <1>0 DEF RequestStep, RequestCancellation, CancelUserJobs, CancelQueued,
     FlagProcessing, EraseActive, EraseRemaining, processVars
<1>5. CASE MaintenanceStep
  BY <1>5, <1>0 DEF MaintenanceStep, ExpireSelect, ExpireUpdate, PurgeSelect, PurgeDelete,
     processVars
<1>6. CASE UNCHANGED vars
  BY <1>6, <1>0 DEF vars, processVars
<1>7. QED
  BY <1>1, <1>2, <1>3, <1>4, <1>5, <1>6 DEF Next

-----------------------------------------------------------------------------
(* What one step may do to one thread.                                     *)

Stay(w, j)  == pc'[w][j] = pc[w][j] /\ att'[w][j] = att[w][j] /\ saw'[w][j] = saw[w][j]
Leave(w, j) == pc'[w][j] = "no"

Read(w, j) ==
    /\ proc[w] = "read" /\ j \in picked[w] /\ HeldBy(rows[j], w)
    /\ pc'[w][j] = "check"
    /\ att'[w][j] = rows[j].attempts /\ saw'[w][j] = rows[j].payload

Start(w, j) ==
    /\ pc[w][j] = "check" /\ HeldBy(rows[j], w) /\ ~rows[j].cancel
    /\ pc'[w][j] = "running"
    /\ att'[w][j] = att[w][j] /\ saw'[w][j] = saw[w][j]

Advance(w, j) ==
    /\ pc[w][j] # "no" /\ pc'[w][j] \notin {"no", "check", "running"}
    /\ pc'[w][j] = "done" /\ j \in Dependent => j \in closed'
    /\ att'[w][j] = att[w][j] /\ saw'[w][j] = saw[w][j]

ThreadMove(w, j) ==
    \/ Stay(w, j) \/ Leave(w, j)
    \/ Read(w, j) /\ rows' = rows /\ starts' = starts
    \/ Start(w, j) /\ rows' = rows /\ starts' = [starts EXCEPT ![j] = @ + 1]
    \/ Advance(w, j)

LEMMA ThreadMoves ==
    TypeOK /\ [Next]_vars => \A v \in Workers, i \in Jobs : ThreadMove(v, i)
<1> SUFFICES ASSUME TypeOK, [Next]_vars, NEW v \in Workers, NEW i \in Jobs
             PROVE  ThreadMove(v, i)
  OBVIOUS
<1> USE DEF TypeOK
<1>0. ASSUME UNCHANGED <<pc, att, saw>> PROVE ThreadMove(v, i)
  BY <1>0 DEF ThreadMove, Stay
<1>1. ASSUME NEW j \in Jobs, JobStep(j) PROVE ThreadMove(v, i)
  BY <1>1, <1>0 DEF JobStep, EnqueueWorkerJob, LeaseLapses, BecomesDue, DeadlinePasses,
     Revive, processVars
<1>2. ASSUME NEW w \in Workers, LoopStep(w) PROVE ThreadMove(v, i)
  <2>1. CASE Reconcile(w) \/ SweepCancelled(w) \/ SweepExhausted(w) \/ SelectAndLease(w)
             \/ ReadFails(w)
    BY <2>1, <1>0 DEF Reconcile, SweepCancelled, SweepExhausted, SelectAndLease, ReadFails,
       processVars
  <2>2. CASE ReadClaimed(w)
    <3>1. CASE v # w
      <4>1. pc'[v] = pc[v] /\ att'[v] = att[v] /\ saw'[v] = saw[v]
        BY <2>2, <3>1 DEF ReadClaimed
      <4>2. QED
        BY <4>1 DEF ThreadMove, Stay
    <3>2. CASE v = w /\ ~(i \in picked[w] /\ HeldBy(rows[i], w))
      <4>1. pc'[v][i] = "no"
        BY <2>2, <3>2 DEF ReadClaimed
      <4>2. QED
        BY <4>1 DEF ThreadMove, Leave
    <3>3. CASE v = w /\ i \in picked[w] /\ HeldBy(rows[i], w)
      <4>1. /\ pc'[v][i] = "check" /\ att'[v][i] = rows[i].attempts
            /\ saw'[v][i] = rows[i].payload /\ proc[v] = "read"
            /\ rows' = rows /\ starts' = starts
        BY <2>2, <3>3 DEF ReadClaimed, tableVars, historyVars
      <4>2. QED
        BY <3>3, <4>1 DEF ThreadMove, Read
    <3>4. QED
      BY <3>1, <3>2, <3>3
  <2>3. CASE BatchEnds(w) \/ Crash(w)
    <3>1. /\ pc' = [pc EXCEPT ![w] = [j \in Jobs |-> "no"]]
          /\ att' = att /\ saw' = saw
      BY <2>3 DEF BatchEnds, Crash
    <3>2. QED
      BY <3>1 DEF ThreadMove, Stay, Leave
  <2>4. QED
    BY <1>2, <2>1, <2>2, <2>3 DEF LoopStep
<1>3. ASSUME NEW w \in Workers, NEW j \in Jobs, ProcessStep(w, j) PROVE ThreadMove(v, i)
  <2>1. att' = att /\ saw' = saw /\ pc[w][j] # "no"
    BY <1>3 DEF ProcessStep, UnsupportedKind, StartHandler, HandlerSeesCancellation,
       HandlerReturns, HandlerRaises, PublishSuccess, MarkCancelled, FinishFailure,
       DatabaseError, RenewLease, RenewGivesUp, Executing
  <2>2. ASSUME NEW to, MovePC(w, j, to), to \notin {"check", "running"},
               to = "done" /\ j \in Dependent => j \in closed'
        PROVE  ThreadMove(v, i)
    <3>1. CASE v = w /\ i = j
      <4>1. pc'[v][i] = to
        BY <2>2, <3>1 DEF MovePC
      <4>2. QED
        BY <2>1, <2>2, <3>1, <4>1 DEF ThreadMove, Leave, Advance
    <3>2. CASE ~(v = w /\ i = j)
      <4>1. pc'[v][i] = pc[v][i]
        BY <2>2, <3>2 DEF MovePC
      <4>2. QED
        BY <2>1, <4>1 DEF ThreadMove, Stay
    <3>3. QED
      BY <3>1, <3>2
  <2>3. CASE RenewLease(w, j) \/ RenewGivesUp(w, j)
    BY <2>3, <1>0 DEF RenewLease, RenewGivesUp
  <2>4. CASE StartHandler(w, j)
    <3>1. CASE lost[w][j] \/ CancelSeenBy(rows[j], w)
      BY <2>2, <2>4, <3>1 DEF StartHandler
    <3>2. CASE ~(lost[w][j] \/ CancelSeenBy(rows[j], w))
      <4>1. /\ MovePC(w, j, "running") /\ rows' = rows /\ pc[w][j] = "check"
            /\ starts' = [starts EXCEPT ![j] = @ + 1]
            /\ HeldBy(rows[j], w) /\ ~rows[j].cancel
        BY <2>4, <3>2 DEF StartHandler, CancelSeenBy, tableVars
      <4>2. CASE v = w /\ i = j
        <5>1. pc'[v][i] = "running"
          BY <4>1, <4>2 DEF MovePC
        <5>2. QED
          BY <2>1, <4>1, <4>2, <5>1 DEF ThreadMove, Start
      <4>3. CASE ~(v = w /\ i = j)
        <5>1. pc'[v][i] = pc[v][i]
          BY <4>1, <4>3 DEF MovePC
        <5>2. QED
          BY <2>1, <5>1 DEF ThreadMove, Stay
      <4>4. QED
        BY <4>2, <4>3
    <3>3. QED
      BY <3>1, <3>2
  <2>5. CASE HandlerReturns(w, j)
    <3>1. MovePC(w, j, "done") /\ (j \in Dependent => j \in closed')
      BY <2>5 DEF HandlerReturns
    <3>2. QED
      BY <2>2, <3>1
  <2>6. CASE UnsupportedKind(w, j) \/ HandlerSeesCancellation(w, j) \/ HandlerRaises(w, j)
    BY <2>2, <2>6 DEF UnsupportedKind, HandlerSeesCancellation, HandlerRaises
  <2>7. CASE PublishSuccess(w, j) \/ MarkCancelled(w, j) \/ FinishFailure(w, j)
             \/ DatabaseError(w, j)
    <3>1. \E to \in {"no", "ack", "retry", "broken"} : MovePC(w, j, to)
      BY <2>7 DEF PublishSuccess, MarkCancelled, FinishFailure, DatabaseError, Returned,
         AfterError
    <3>2. QED
      BY <2>2, <3>1
  <2>8. QED
    BY <1>3, <2>3, <2>4, <2>5, <2>6, <2>7 DEF ProcessStep
<1>4. CASE RequestStep
  BY <1>4, <1>0 DEF RequestStep, RequestCancellation, CancelUserJobs, CancelQueued,
     FlagProcessing, EraseActive, EraseRemaining, processVars
<1>5. CASE MaintenanceStep
  BY <1>5, <1>0 DEF MaintenanceStep, ExpireSelect, ExpireUpdate, PurgeSelect, PurgeDelete,
     processVars
<1>6. CASE UNCHANGED vars
  BY <1>6, <1>0 DEF vars, processVars
<1>7. QED
  BY <1>1, <1>2, <1>3, <1>4, <1>5, <1>6 DEF Next

-----------------------------------------------------------------------------
(* Whoever holds a row after a step held it before, with the same attempt, *)
(* or has just leased it and runs no thread yet.                            *)

Kept(r, q, w) == HeldBy(r, w) /\ q.attempts = r.attempts /\ (r.cancel => q.cancel)

Leased(r, q, w) == /\ proc[w] = "select" /\ pc' = pc
                   /\ q.attempts = r.attempts + 1 /\ q.payload = r.payload

LEMMA HeldMove ==
    ASSUME NEW j, NEW r \in Row, NEW q, NEW w \in Workers, AnyMove(j, r, q), HeldBy(q, w)
    PROVE  Kept(r, q, w) \/ Leased(r, q, w)
<1> USE DEF HeldBy, Row, Kept, Leased
<1>1. CASE q = r
  BY <1>1
<1>2. CASE ProcessMove(j, r, q)
  <2>1. ProcessEffect(j, r, q)
    BY <1>2, ProcessColumns
  <2>2. QED
    BY <2>1 DEF ProcessEffect
<1>3. CASE ClaimMove(j, r, q)
  <2>1. CASE \E v \in Workers : q = LeasedTo(r, v) /\ proc[v] = "select" /\ pc' = pc
    BY <2>1 DEF LeasedTo
  <2>2. CASE r.status \in {"failed", "cancelled"} /\ q = [r EXCEPT !.reconciled = TRUE]
    BY <2>2
  <2>3. CASE q = Finished(r, "cancelled", FALSE, "cancelled")
    BY <2>3 DEF Finished
  <2>4. CASE q = Finished(r, "failed", FALSE, "lease_expired")
    BY <2>4 DEF Finished
  <2>5. QED
    BY <1>3, <2>1, <2>2, <2>3, <2>4 DEF ClaimMove
<1>4. CASE RequestMove(j, r, q)
  BY <1>4 DEF RequestMove, Queued, CancelledInQueue, CancelFlagged, ErasedActive,
     Finished, Redacted
<1>5. CASE MaintenanceMove(j, r, q)
  <2>1. MaintenanceEffect(j, r, q)
    BY <1>5, MaintenanceColumns
  <2>2. QED
    BY <2>1 DEF MaintenanceEffect
<1>6. CASE TimeMove(j, r, q)
  BY <1>6, FreshFields DEF TimeMove, Queued
<1>7. QED
  BY <1>1, <1>2, <1>3, <1>4, <1>5, <1>6 DEF AnyMove

LEMMA HolderInit == Init => LoopInv /\ LeaseHolderIsCurrent
  BY DEF Init, LoopInv, LeaseHolderIsCurrent

LEMMA HolderNext ==
    TypeOK /\ LoopInv /\ LeaseHolderIsCurrent /\ [Next]_vars => LeaseHolderIsCurrent'
<1> SUFFICES ASSUME TypeOK, LoopInv, LeaseHolderIsCurrent, [Next]_vars,
                    NEW w \in Workers, NEW j \in Jobs,
                    HeldBy(rows'[j], w), pc'[w][j] # "no"
             PROVE  att'[w][j] = rows'[j].attempts
  BY DEF LeaseHolderIsCurrent, HeldBy
<1>1. AnyMove(j, rows[j], rows'[j]) /\ rows[j] \in Row
  BY RowMoves DEF RowMove, TypeOK
<1>2. Kept(rows[j], rows'[j], w) \/ Leased(rows[j], rows'[j], w)
  BY <1>1, HeldMove
<1>3. ThreadMove(w, j)
  BY ThreadMoves
<1>4. ~Leased(rows[j], rows'[j], w)
  BY DEF Leased, LoopInv
<1>5. Kept(rows[j], rows'[j], w)
  BY <1>2, <1>4
<1>6. CASE Read(w, j) /\ rows' = rows
  BY <1>6 DEF Read
<1>7. CASE pc[w][j] # "no" /\ att'[w][j] = att[w][j]
  BY <1>5, <1>7 DEF Kept, LeaseHolderIsCurrent
<1>8. QED
  BY <1>3, <1>6, <1>7 DEF ThreadMove, Stay, Leave, Start, Advance

(* The process whose id is on a lease works from the snapshot of the newest *)
(* attempt: LoopInv says that a process claims only when it runs no thread. *)
THEOREM LeaseHolderCurrent == Spec => []LeaseHolderIsCurrent
<1>1. TypeOK /\ LoopInv /\ LeaseHolderIsCurrent /\ [Next]_vars
        => LoopInv' /\ LeaseHolderIsCurrent'
  BY LoopNext, HolderNext
<1>2. QED
  BY <1>1, TypeCorrect, HolderInit, PTL DEF Spec

-----------------------------------------------------------------------------
(* The payload a handler works with.                                        *)

SnapshotInv ==
    \A w \in Workers, j \in Jobs :
        pc[w][j] = "check" /\ HeldBy(rows[j], w) /\ ~rows[j].cancel
            => saw[w][j] \/ j \in erased

LEMMA SnapshotNext ==
    TypeOK /\ LoopInv /\ PayloadLifetime /\ SnapshotInv /\ [Next]_vars => SnapshotInv'
<1> SUFFICES ASSUME TypeOK, LoopInv, PayloadLifetime, SnapshotInv, [Next]_vars,
                    NEW w \in Workers, NEW j \in Jobs,
                    pc'[w][j] = "check", HeldBy(rows'[j], w), ~rows'[j].cancel
             PROVE  saw'[w][j] \/ j \in erased'
  BY DEF SnapshotInv, HeldBy
<1>1. AnyMove(j, rows[j], rows'[j]) /\ rows[j] \in Row
  BY RowMoves DEF RowMove, TypeOK
<1>2. Kept(rows[j], rows'[j], w) \/ Leased(rows[j], rows'[j], w)
  BY <1>1, HeldMove
<1>3. ThreadMove(w, j) /\ (j \in erased => j \in erased')
  BY ThreadMoves, Monotone
<1>4. CASE Stay(w, j)
  <2>1. ~Leased(rows[j], rows'[j], w)
    BY <1>4 DEF Leased, LoopInv, Stay
  <2>2. QED
    BY <1>2, <1>3, <1>4, <2>1 DEF Kept, Stay, SnapshotInv
<1>5. CASE Read(w, j) /\ rows' = rows
  <2>1. Active(rows[j]) /\ ~rows[j].cancel /\ saw'[w][j] = rows[j].payload
    BY <1>5 DEF Read, HeldBy, Active, JobActive
  <2>2. QED
    BY <1>3, <2>1 DEF PayloadLifetime
<1>6. QED
  BY <1>3, <1>4, <1>5 DEF ThreadMove, Leave, Start, Advance

LEMMA HasPayloadNext ==
    TypeOK /\ SnapshotInv /\ HandlerHasPayload /\ [Next]_vars => HandlerHasPayload'
<1> SUFFICES ASSUME TypeOK, SnapshotInv, HandlerHasPayload, [Next]_vars,
                    NEW w \in Workers, NEW j \in Jobs, pc'[w][j] = "running"
             PROVE  saw'[w][j] \/ j \in erased'
  BY DEF HandlerHasPayload
<1>1. ThreadMove(w, j) /\ (j \in erased => j \in erased')
  BY ThreadMoves, Monotone
<1>2. CASE Stay(w, j)
  BY <1>1, <1>2 DEF Stay, HandlerHasPayload
<1>3. CASE Start(w, j)
  BY <1>1, <1>3 DEF Start, SnapshotInv
<1>4. QED
  BY <1>1, <1>2, <1>3 DEF ThreadMove, Leave, Read, Advance

(* No handler runs without its payload, except on a job that an account     *)
(* erasure redacted, although the claim commits before it reads the payload.*)
THEOREM HandlersHavePayload == Spec => []HandlerHasPayload
<1>1. Init => SnapshotInv /\ HandlerHasPayload
  BY DEF Init, SnapshotInv, HandlerHasPayload
<1>2. TypeOK /\ LoopInv /\ PayloadLifetime /\ SnapshotInv /\ HandlerHasPayload /\ [Next]_vars
        => LoopInv' /\ SnapshotInv' /\ HandlerHasPayload'
  BY LoopNext, SnapshotNext, HasPayloadNext
<1>3. QED
  BY <1>1, <1>2, TypeCorrect, PayloadCorrect, HolderInit, PTL DEF Spec

-----------------------------------------------------------------------------
(* The budget of handler starts.                                            *)

AttemptRow(j, r) ==
    /\ r.status # "purged" => r.attempts <= MaxAttempts[j]
    /\ Queued(r) => r.attempts < MaxAttempts[j]
    /\ r.status = "absent" => r.attempts = 0

LEMMA AttemptMove ==
    ASSUME NEW j \in Jobs, NEW r \in Row, NEW q, AttemptRow(j, r), AnyMove(j, r, q)
    PROVE  /\ AttemptRow(j, q)
           /\ q.attempts >= r.attempts \/ q.status = "purged" \/ starts'[j] = 0
           /\ r.status = "purged" => q.status = "purged"
<1>0. r.attempts \in Nat /\ MaxAttempts[j] \in Nat /\ MaxAttempts[j] > 0
  BY JobsAssumption DEF Row
<1> USE <1>0 DEF AttemptRow, Queued
<1>1. CASE q = r
  BY <1>1
<1>2. CASE ProcessMove(j, r, q)
  <2>1. q.attempts = r.attempts /\ r.status = "processing"
    BY <1>2 DEF ProcessMove, Finished, Deferred, Row
  <2>2. \/ q.status \in {"processing", "succeeded", "cancelled", "failed"}
        \/ q.status = "retry" /\ r.attempts < MaxAttempts[j]
    BY <1>2 DEF ProcessMove, Finished, Deferred, Row
  <2>3. QED
    BY <2>1, <2>2
<1>3. CASE ClaimMove(j, r, q)
  <2>1. CASE Claimable(r, MaxAttempts[j]) /\ \E v \in Workers : q = LeasedTo(r, v)
    <3>1. q.attempts = r.attempts + 1 /\ q.status = "processing"
      BY <2>1 DEF LeasedTo, Row
    <3>2. r.attempts < MaxAttempts[j] /\ r.status # "purged"
      BY <2>1 DEF Claimable, Lapsed
    <3>3. QED
      BY <3>1, <3>2
  <2>2. CASE r.status \in {"failed", "cancelled"} /\ q = [r EXCEPT !.reconciled = TRUE]
    BY <2>2 DEF Row
  <2>3. CASE r.status = "processing" /\ q = Finished(r, "cancelled", FALSE, "cancelled")
    BY <2>3 DEF Finished, Row
  <2>4. CASE r.status = "processing" /\ q = Finished(r, "failed", FALSE, "lease_expired")
    BY <2>4 DEF Finished, Row
  <2>5. QED
    BY <1>3, <2>1, <2>2, <2>3, <2>4 DEF ClaimMove, Lapsed
<1>4. CASE RequestMove(j, r, q)
  <2>1. q.attempts = r.attempts
    BY <1>4 DEF RequestMove, CancelledInQueue, CancelFlagged, ErasedActive,
       Finished, Redacted, Row
  <2>2. q.status = r.status \/ (q.status = "cancelled" /\ r.status \in JobActive)
    BY <1>4 DEF RequestMove, CancelledInQueue, CancelFlagged, ErasedActive,
       Finished, Redacted, Row, Active, JobActive
  <2>3. QED
    BY <2>1, <2>2 DEF JobActive
<1>5. CASE MaintenanceMove(j, r, q)
  <2>1. CASE r.status # "purged" /\ q = Finished(r, "cancelled", FALSE, "expired")
    BY <2>1 DEF Finished, Row
  <2>2. CASE q = Purged
    BY <2>2, FreshFields
  <2>3. QED
    BY <1>5, <2>1, <2>2 DEF MaintenanceMove
<1>6. CASE TimeMove(j, r, q)
  BY <1>6, FreshFields DEF TimeMove, Row
<1>7. QED
  BY <1>1, <1>2, <1>3, <1>4, <1>5, <1>6 DEF AnyMove

\* What one step may do to the count of starts and to the ids of a claim.
StartsMove(j) ==
    \/ starts'[j] = starts[j]
    \/ starts'[j] = 0 /\ rows'[j].status = "pending"
    \/ /\ starts'[j] = starts[j] + 1 /\ rows' = rows /\ picked' = picked
       /\ \E v \in Workers : Start(v, j)

LEMMA StartsMoves == TypeOK /\ [Next]_vars => \A i \in Jobs : StartsMove(i)
<1> SUFFICES ASSUME TypeOK, [Next]_vars, NEW i \in Jobs PROVE StartsMove(i)
  OBVIOUS
<1> USE DEF TypeOK
<1>0. ASSUME starts' = starts PROVE StartsMove(i)
  BY <1>0 DEF StartsMove
<1>1. ASSUME NEW j \in Jobs, JobStep(j) PROVE StartsMove(i)
  <2>1. CASE Revive(j)
    BY <2>1, FreshFields DEF Revive, StartsMove
  <2>2. CASE ~Revive(j)
    BY <1>1, <1>0, <2>2 DEF JobStep, EnqueueWorkerJob, LeaseLapses, BecomesDue,
       DeadlinePasses, historyVars
  <2>3. QED
    BY <2>1, <2>2
<1>2. ASSUME NEW w \in Workers, LoopStep(w) PROVE StartsMove(i)
  BY <1>2, <1>0 DEF LoopStep, Reconcile, SweepCancelled, SweepExhausted, SelectAndLease,
     ReadClaimed, ReadFails, BatchEnds, Crash, historyVars
<1>3. ASSUME NEW w \in Workers, NEW j \in Jobs, ProcessStep(w, j) PROVE StartsMove(i)
  <2>1. CASE StartHandler(w, j) /\ starts' # starts
    <3>1. /\ MovePC(w, j, "running") /\ rows' = rows /\ picked' = picked
          /\ pc[w][j] = "check" /\ HeldBy(rows[j], w) /\ ~rows[j].cancel
          /\ starts' = [starts EXCEPT ![j] = @ + 1] /\ att' = att /\ saw' = saw
      BY <2>1 DEF StartHandler, CancelSeenBy, tableVars
    <3>2. CASE i = j
      <4>1. pc'[w][j] = "running"
        BY <3>1 DEF MovePC
      <4>2. Start(w, i)
        BY <3>1, <3>2, <4>1 DEF Start
      <4>3. QED
        BY <3>1, <3>2, <4>2 DEF StartsMove
    <3>3. CASE i # j
      BY <3>1, <3>3 DEF StartsMove
    <3>4. QED
      BY <3>2, <3>3
  <2>2. CASE ~(StartHandler(w, j) /\ starts' # starts)
    BY <1>3, <1>0, <2>2 DEF ProcessStep, UnsupportedKind, HandlerSeesCancellation,
       HandlerReturns, HandlerRaises, PublishSuccess, MarkCancelled, FinishFailure,
       DatabaseError, RenewLease, RenewGivesUp, historyVars
  <2>3. QED
    BY <2>1, <2>2
<1>4. CASE RequestStep
  BY <1>4, <1>0 DEF RequestStep, RequestCancellation, CancelUserJobs, CancelQueued,
     FlagProcessing, EraseActive, EraseRemaining, historyVars
<1>5. CASE MaintenanceStep
  BY <1>5, <1>0 DEF MaintenanceStep, ExpireSelect, ExpireUpdate, PurgeSelect, PurgeDelete,
     historyVars
<1>6. CASE UNCHANGED vars
  BY <1>6, <1>0 DEF vars, historyVars
<1>7. QED
  BY <1>1, <1>2, <1>3, <1>4, <1>5, <1>6 DEF Next

LEMMA PickMoves ==
    ASSUME TypeOK, [Next]_vars, NEW v \in Workers, NEW i \in Jobs, i \in picked'[v]
    PROVE  i \in picked[v] \/ rows'[i].attempts = rows[i].attempts + 1
<1> USE DEF TypeOK
<1>1. CASE \E w \in Workers : SelectAndLease(w)
  <2>1. PICK w \in Workers : SelectAndLease(w)
    BY <1>1
  <2>2. PICK ids : /\ rows' = [j \in Jobs |-> IF j \in ids THEN LeasedTo(rows[j], w) ELSE rows[j]]
                   /\ picked' = [picked EXCEPT ![w] = ids]
    BY <2>1 DEF SelectAndLease
  <2>3. i \in picked[v] \/ i \in ids
    BY <2>2
  <2>4. i \in ids => rows'[i].attempts = rows[i].attempts + 1
    BY <2>2, LeasedFields
  <2>5. QED
    BY <2>3, <2>4
<1>2. CASE ~\E w \in Workers : SelectAndLease(w)
  <2>1. \/ picked' = picked
        \/ \E w \in Workers : picked' = [picked EXCEPT ![w] = {}]
    <3>1. ASSUME NEW j \in Jobs, JobStep(j) PROVE picked' = picked
      BY <3>1 DEF JobStep, EnqueueWorkerJob, LeaseLapses, BecomesDue, DeadlinePasses,
         Revive, processVars
    <3>2. ASSUME NEW w \in Workers, LoopStep(w)
          PROVE  picked' = picked \/ picked' = [picked EXCEPT ![w] = {}]
      BY <1>2, <3>2 DEF LoopStep, Reconcile, SweepCancelled, SweepExhausted, ReadClaimed,
         ReadFails, BatchEnds, Crash, processVars
    <3>3. ASSUME NEW w \in Workers, NEW j \in Jobs, ProcessStep(w, j) PROVE picked' = picked
      BY <3>3 DEF ProcessStep, UnsupportedKind, StartHandler, HandlerSeesCancellation,
         HandlerReturns, HandlerRaises, PublishSuccess, MarkCancelled, FinishFailure,
         DatabaseError, RenewLease, RenewGivesUp
    <3>4. ASSUME RequestStep \/ MaintenanceStep PROVE picked' = picked
      BY <3>4 DEF RequestStep, RequestCancellation, CancelUserJobs, CancelQueued,
         FlagProcessing, EraseActive, EraseRemaining, MaintenanceStep, ExpireSelect,
         ExpireUpdate, PurgeSelect, PurgeDelete, processVars
    <3>5. ASSUME UNCHANGED vars PROVE picked' = picked
      BY <3>5 DEF vars, processVars
    <3>6. QED
      BY <3>1, <3>2, <3>3, <3>4, <3>5 DEF Next
  <2>2. QED
    BY <2>1
<1>3. QED
  BY <1>1, <1>2

\* A row is claimed before it is started, so a start is always paid for.
BudgetInv ==
    \A j \in Jobs :
        /\ AttemptRow(j, rows[j])
        /\ starts[j] <= MaxAttempts[j]
        /\ rows[j].status # "purged" => starts[j] <= rows[j].attempts
        /\ \A w \in Workers :
             HeldBy(rows[j], w) /\ (pc[w][j] = "check" \/ j \in picked[w])
                 => starts[j] < rows[j].attempts

LEMMA BudgetInit == Init => BudgetInv
<1> SUFFICES ASSUME Init, NEW j \in Jobs
             PROVE  /\ AttemptRow(j, rows[j])
                    /\ starts[j] <= MaxAttempts[j]
                    /\ rows[j].status # "purged" => starts[j] <= rows[j].attempts
                    /\ \A w \in Workers : ~HeldBy(rows[j], w)
  BY DEF BudgetInv
<1>1. rows[j] = NoRow /\ starts[j] = 0 /\ MaxAttempts[j] \in Nat
  BY JobsAssumption DEF Init
<1>2. QED
  BY <1>1, FreshFields DEF AttemptRow, Queued, HeldBy

LEMMA BudgetNext == TypeOK /\ LoopInv /\ BudgetInv /\ [Next]_vars => BudgetInv'
<1> SUFFICES ASSUME TypeOK, LoopInv, BudgetInv, [Next]_vars, NEW j \in Jobs
             PROVE  /\ AttemptRow(j, rows'[j])
                    /\ starts'[j] <= MaxAttempts[j]
                    /\ rows'[j].status # "purged" => starts'[j] <= rows'[j].attempts
                    /\ \A w \in Workers :
                         HeldBy(rows'[j], w) /\ (pc'[w][j] = "check" \/ j \in picked'[w])
                             => starts'[j] < rows'[j].attempts
  BY DEF BudgetInv, AttemptRow, HeldBy, Queued
<1> DEFINE r == rows[j]
           q == rows'[j]
<1>1. AnyMove(j, r, q) /\ r \in Row
  BY RowMoves DEF RowMove, TypeOK
<1>2. q \in Row
  BY TypeNext DEF TypeOK
<1>3. /\ r.attempts \in Nat /\ q.attempts \in Nat /\ MaxAttempts[j] \in Nat
      /\ starts[j] \in Nat /\ starts'[j] \in Nat
  BY <1>1, <1>2, TypeNext, JobsAssumption DEF Row, TypeOK
<1>4. /\ AttemptRow(j, r)
      /\ starts[j] <= MaxAttempts[j]
      /\ r.status # "purged" => starts[j] <= r.attempts
      /\ \A w \in Workers : HeldBy(r, w) /\ (pc[w][j] = "check" \/ j \in picked[w])
             => starts[j] < r.attempts
  BY DEF BudgetInv
<1> HIDE DEF r, q
<1>5. /\ AttemptRow(j, q)
      /\ q.attempts >= r.attempts \/ q.status = "purged" \/ starts'[j] = 0
      /\ r.status = "purged" => q.status = "purged"
  BY <1>1, <1>4, AttemptMove
<1>6. StartsMove(j)
  BY StartsMoves
<1>7. ASSUME NEW w \in Workers, HeldBy(q, w), pc'[w][j] = "check" \/ j \in picked'[w],
             starts'[j] = starts[j]
      PROVE  starts'[j] < q.attempts
  <2>1. Kept(r, q, w) \/ Leased(r, q, w)
    BY <1>1, <1>7, HeldMove
  <2>2. r.status # "purged"
    BY <1>5, <1>7 DEF HeldBy
  <2>3. CASE Leased(r, q, w)
    BY <1>3, <1>4, <1>7, <2>2, <2>3 DEF Leased
  <2>4. CASE Kept(r, q, w)
    <3>1. ThreadMove(w, j)
      BY ThreadMoves
    <3>2. pc'[w][j] = "check" => pc[w][j] = "check" \/ j \in picked[w]
      BY <3>1 DEF ThreadMove, Stay, Leave, Read, Start, Advance
    <3>3. j \in picked'[w] => j \in picked[w]
      BY <1>3, <2>4, PickMoves DEF Kept, r, q
    <3>4. HeldBy(r, w) /\ (pc[w][j] = "check" \/ j \in picked[w])
      BY <1>7, <2>4, <3>2, <3>3 DEF Kept
    <3>5. QED
      BY <1>4, <1>7, <2>4, <3>4 DEF Kept
  <2>5. QED
    BY <2>1, <2>3, <2>4
<1>8. CASE starts'[j] = starts[j]
  <2>1. q.status # "purged" => starts'[j] <= q.attempts
    BY <1>3, <1>4, <1>5, <1>8
  <2>2. QED
    BY <1>4, <1>5, <1>7, <1>8, <2>1 DEF q
<1>9. CASE starts'[j] = 0 /\ q.status = "pending"
  <2>1. \A w \in Workers : ~HeldBy(q, w)
    BY <1>9 DEF HeldBy
  <2>2. QED
    BY <1>3, <1>5, <1>9, <2>1 DEF q
<1>10. CASE /\ starts'[j] = starts[j] + 1 /\ rows' = rows /\ picked' = picked
            /\ \E v \in Workers : Start(v, j)
  <2>1. PICK v \in Workers : Start(v, j)
    BY <1>10
  <2>2. q = r
    BY <1>10 DEF q, r
  <2>3. HeldBy(r, v) /\ pc[v][j] = "check" /\ pc'[v][j] = "running"
    BY <2>1 DEF Start, r
  <2>4. starts[j] < r.attempts /\ r.attempts <= MaxAttempts[j]
    BY <1>4, <2>3 DEF AttemptRow, HeldBy
  <2>5. picked'[v] = {}
    BY <1>10, <2>3 DEF LoopInv
  <2>6. \A w \in Workers : HeldBy(q, w) => w = v
    BY <2>2, <2>3 DEF HeldBy
  <2>7. starts'[j] <= MaxAttempts[j] /\ starts'[j] <= q.attempts
    BY <1>3, <1>10, <2>2, <2>4
  <2>8. QED
    BY <1>5, <2>3, <2>5, <2>6, <2>7 DEF q
<1>11. QED
  BY <1>6, <1>8, <1>9, <1>10 DEF StartsMove, q

(* Through crashes, lapsed leases and retries a handler starts at most      *)
(* max_attempts times: every start is paid for by an attempt of its own.    *)
THEOREM BudgetKept == Spec => []AttemptBudget
<1>1. Init => LoopInv /\ BudgetInv
  BY HolderInit, BudgetInit
<1>2. TypeOK /\ LoopInv /\ BudgetInv /\ [Next]_vars => LoopInv' /\ BudgetInv'
  BY LoopNext, BudgetNext
<1>3. BudgetInv => AttemptBudget
  BY DEF BudgetInv, AttemptBudget
<1>4. QED
  BY <1>1, <1>2, <1>3, TypeCorrect, PTL DEF Spec

-----------------------------------------------------------------------------
(* The outcome of a job: who may decide it, what an accepted cancellation is
   worth, when a success is final, when retention may forget a job, and that
   the queue implements JobLedger.                                          *)

(* An action of a thread touches its own row and its own control state.     *)
LEMMA ProcessMoves ==
    ASSUME TypeOK, NEW w \in Workers, NEW j \in Jobs, ProcessStep(w, j)
    PROVE  /\ \A i \in Jobs \ {j} : rows'[i] = rows[i] /\ starts'[i] = starts[i]
           /\ \A v \in Workers, i \in Jobs :
                pc'[v][i] # pc[v][i] => v = w /\ i = j
           /\ rows'[j] # rows[j] \/ starts'[j] # starts[j] => HeldBy(rows[j], w)
<1> USE DEF TypeOK
<1>1. pc' = pc \/ \E to : MovePC(w, j, to)
  BY DEF ProcessStep, UnsupportedKind, StartHandler, HandlerSeesCancellation,
     HandlerReturns, HandlerRaises, PublishSuccess, MarkCancelled, FinishFailure,
     DatabaseError, RenewLease, RenewGivesUp, Returned
<1>2. \A v \in Workers, i \in Jobs : pc'[v][i] # pc[v][i] => v = w /\ i = j
  BY <1>1 DEF MovePC
<1>3. CASE StartHandler(w, j)
  <2>1. /\ rows' = rows
        /\ starts' = starts \/ (starts' = [starts EXCEPT ![j] = @ + 1] /\ HeldBy(rows[j], w))
    BY <1>3 DEF StartHandler, CancelSeenBy, tableVars
  <2>2. QED
    BY <1>2, <2>1
<1>4. CASE UnsupportedKind(w, j) \/ HandlerSeesCancellation(w, j) \/ HandlerReturns(w, j)
           \/ HandlerRaises(w, j) \/ DatabaseError(w, j) \/ RenewGivesUp(w, j)
  <2>1. rows' = rows /\ starts' = starts
    BY <1>4 DEF UnsupportedKind, HandlerSeesCancellation, HandlerReturns, HandlerRaises,
       DatabaseError, RenewGivesUp, tableVars, historyVars
  <2>2. QED
    BY <1>2, <2>1
<1>5. CASE PublishSuccess(w, j) \/ MarkCancelled(w, j) \/ FinishFailure(w, j)
           \/ RenewLease(w, j)
  <2>1. /\ starts' = starts
        /\ rows' = rows \/ (HeldBy(rows[j], w) /\ \E q : rows' = [rows EXCEPT ![j] = q])
    BY <1>5 DEF PublishSuccess, MarkCancelled, FinishFailure, RenewLease, historyVars
  <2>2. QED
    BY <1>2, <2>1
<1>6. QED
  BY <1>3, <1>4, <1>5 DEF ProcessStep

LEMMA ActsNext == TypeOK /\ [Next]_vars => ActsUnderLease
<1> SUFFICES ASSUME TypeOK, [Next]_vars, NEW v \in Workers, NEW i \in Jobs,
                    pc[v][i] # pc'[v][i],
                    rows[i] # rows'[i] \/ starts[i] # starts'[i]
             PROVE  HeldBy(rows[i], v)
  BY DEF ActsUnderLease
<1>1. ASSUME NEW j \in Jobs, JobStep(j) PROVE FALSE
  BY <1>1 DEF JobStep, EnqueueWorkerJob, LeaseLapses, BecomesDue, DeadlinePasses, Revive,
     processVars
<1>2. ASSUME NEW w \in Workers, LoopStep(w) PROVE FALSE
  BY <1>2 DEF LoopStep, Reconcile, SweepCancelled, SweepExhausted, SelectAndLease,
     ReadClaimed, ReadFails, BatchEnds, Crash, processVars, tableVars, historyVars
<1>3. ASSUME NEW w \in Workers, NEW j \in Jobs, ProcessStep(w, j) PROVE HeldBy(rows[i], v)
  BY <1>3, ProcessMoves
<1>4. ASSUME RequestStep \/ MaintenanceStep PROVE FALSE
  BY <1>4 DEF RequestStep, RequestCancellation, CancelUserJobs, CancelQueued,
     FlagProcessing, EraseActive, EraseRemaining, MaintenanceStep, ExpireSelect,
     ExpireUpdate, PurgeSelect, PurgeDelete, processVars
<1>5. ASSUME UNCHANGED vars PROVE FALSE
  BY <1>5 DEF vars, tableVars, processVars, historyVars
<1>6. QED
  BY <1>1, <1>2, <1>3, <1>4, <1>5 DEF Next

(* A process starts a handler and changes the outcome of a job only under   *)
(* the lease of that job, however long it was paused before.                *)
THEOREM LeaseHolderActs == Spec => OnlyLeaseHolderActs
<1>1. TypeOK /\ [Next]_vars => [ActsUnderLease]_vars
  BY ActsNext
<1>2. QED
  BY <1>1, TypeCorrect, PTL DEF Spec, OnlyLeaseHolderActs

-----------------------------------------------------------------------------
(* Cancellation.                                                            *)

\* The rows a request reached, before and after it answers.
Reached == acked \cup cx.hits

AckInv ==
    /\ Reached \subseteq Jobs \ Lifecycle
    /\ cx.op \in {"request", "account"} => cx.targets \cap Lifecycle = {}
    /\ \A j \in Reached : rows[j].cancel \/ rows[j].status = "purged"

LEMMA CancelStays ==
    ASSUME NEW j \in Jobs \ Lifecycle, NEW r \in Row, NEW q, CancelRow(r),
           AnyMove(j, r, q), r.cancel \/ r.status = "purged"
    PROVE  q.cancel \/ q.status = "purged"
<1> USE DEF CancelRow, Row
<1>1. CASE q = r
  BY <1>1
<1>2. CASE ProcessMove(j, r, q)
  BY <1>2 DEF ProcessMove, Finished, Deferred
<1>3. CASE ClaimMove(j, r, q)
  BY <1>3 DEF ClaimMove, Claimable, Queued, Lapsed, Finished, LeasedTo
<1>4. CASE RequestMove(j, r, q)
  BY <1>4 DEF RequestMove, Queued, CancelledInQueue, CancelFlagged, ErasedActive,
     Finished, Redacted
<1>5. CASE MaintenanceMove(j, r, q)
  <2>1. MaintenanceEffect(j, r, q)
    BY <1>5, MaintenanceColumns
  <2>2. QED
    BY <2>1 DEF MaintenanceEffect
<1>6. CASE TimeMove(j, r, q)
  BY <1>6 DEF TimeMove, Queued
<1>7. QED
  BY <1>1, <1>2, <1>3, <1>4, <1>5, <1>6 DEF AnyMove

LEMMA AckNext == TypeOK /\ CancelOutcome /\ AckInv /\ [Next]_vars => AckInv'
<1> SUFFICES ASSUME TypeOK, CancelOutcome, AckInv, [Next]_vars PROVE AckInv'
  OBVIOUS
<1> USE DEF Reached
<1>1. \A j \in Reached : rows'[j].cancel \/ rows'[j].status = "purged"
  <2> TAKE j \in Reached
  <2>1. /\ j \in Jobs \ Lifecycle /\ rows[j] \in Row /\ CancelRow(rows[j])
        /\ AnyMove(j, rows[j], rows'[j]) /\ (rows[j].cancel \/ rows[j].status = "purged")
    BY RowMoves DEF AckInv, TypeOK, CancelOutcome, RowMove
  <2>2. QED
    BY <2>1, CancelStays
<1>2. ASSUME UNCHANGED <<acked, cx>> PROVE AckInv'
  BY <1>1, <1>2 DEF AckInv
<1>3. ASSUME NEW j \in Jobs, JobStep(j) PROVE AckInv'
  BY <1>3, <1>2 DEF JobStep, EnqueueWorkerJob, LeaseLapses, BecomesDue, DeadlinePasses,
     Revive, historyVars
<1>4. ASSUME NEW w \in Workers, LoopStep(w) PROVE AckInv'
  BY <1>4, <1>2 DEF LoopStep, Reconcile, SweepCancelled, SweepExhausted, SelectAndLease,
     ReadClaimed, ReadFails, BatchEnds, Crash, historyVars
<1>5. ASSUME NEW w \in Workers, NEW j \in Jobs, ProcessStep(w, j) PROVE AckInv'
  BY <1>5, <1>2 DEF ProcessStep, UnsupportedKind, StartHandler, HandlerSeesCancellation,
     HandlerReturns, HandlerRaises, PublishSuccess, MarkCancelled, FinishFailure,
     DatabaseError, RenewLease, RenewGivesUp, historyVars
<1>6. CASE RequestStep
  <2>1. ASSUME NEW op, NEW targets \in SUBSET (Jobs \ Lifecycle), CancelQueued(op, targets)
        PROVE  AckInv'
    <3> DEFINE hit == {j \in targets : Queued(rows[j])}
    <3>1. acked' = acked /\ cx' = [op |-> op, targets |-> targets, hits |-> hit]
      BY <2>1 DEF CancelQueued, historyVars
    <3>2. \A j \in hit : rows'[j].cancel
      BY <2>1, QueuedFields DEF CancelQueued, TypeOK
    <3>3. Reached' \subseteq Jobs \ Lifecycle
      BY <3>1 DEF AckInv
    <3>4. QED
      BY <1>1, <3>1, <3>2, <3>3 DEF AckInv
  <2>2. CASE RequestCancellation \/ CancelUserJobs
    BY <2>1, <2>2 DEF RequestCancellation, CancelUserJobs
  <2>3. CASE FlagProcessing
    <3> DEFINE hit == {j \in cx.targets : rows[j].status = "processing"}
    <3>1. acked' = acked \cup cx.hits \cup hit /\ cx' = NoRequest
      BY <2>3 DEF FlagProcessing
    <3>2. hit \subseteq Jobs \ Lifecycle
      BY <2>3 DEF FlagProcessing, AckInv, TypeOK
    <3>3. \A j \in hit : rows'[j].cancel
      <4>1. \A j \in hit : rows'[j] = CancelFlagged(rows[j])
        BY <2>3, <3>2 DEF FlagProcessing
      <4>2. \A j \in hit : CancelFlagged(rows[j]).cancel
        BY <3>2 DEF TypeOK, CancelFlagged, Row
      <4>3. QED
        BY <4>1, <4>2
    <3>4. QED
      BY <1>1, <3>1, <3>2, <3>3 DEF AckInv, NoRequest
  <2>4. CASE EraseActive
    <3> DEFINE hit == {j \in Jobs \ Lifecycle : Active(rows[j])}
    <3>1. acked' = acked /\ cx' = [op |-> "erase", targets |-> Jobs, hits |-> hit]
      BY <2>4 DEF EraseActive, historyVars
    <3>2. \A j \in hit : rows'[j].cancel
      <4> TAKE j \in hit
      <4>1. rows[j] \in Row /\ rows'[j] = ErasedActive(rows[j])
        BY <2>4 DEF EraseActive, TypeOK
      <4>2. QED
        BY <4>1 DEF ErasedActive, Finished, Row
    <3>3. QED
      BY <1>1, <3>1, <3>2 DEF AckInv
  <2>5. CASE EraseRemaining
    BY <2>5, <1>1 DEF EraseRemaining, AckInv, NoRequest
  <2>6. QED
    BY <1>6, <2>2, <2>3, <2>4, <2>5 DEF RequestStep
<1>7. CASE MaintenanceStep
  BY <1>7, <1>2 DEF MaintenanceStep, ExpireSelect, ExpireUpdate, PurgeSelect, PurgeDelete,
     historyVars
<1>8. CASE UNCHANGED vars
  BY <1>8, <1>2 DEF vars, historyVars
<1>9. QED
  BY <1>3, <1>4, <1>5, <1>6, <1>7, <1>8 DEF Next

(* A cancellation its requester was told about is final, whatever attempt   *)
(* was under way and whichever of its two statements reached the row.       *)
THEOREM CancellationFinal == Spec => []CancellationHolds
<1>1. Init => CancelOutcome /\ AckInv
  BY DEF Init, CancelOutcome, CancelRow, NoRow, AckInv, Reached, NoRequest
<1>2. TypeOK /\ CancelOutcome /\ AckInv /\ [Next]_vars => CancelOutcome' /\ AckInv'
  BY CancelOutcomeNext, AckNext
<1>3. TypeOK /\ CancelOutcome /\ AckInv => CancellationHolds
  BY DEF TypeOK, CancelOutcome, CancelRow, AckInv, Reached, CancellationHolds
<1>4. QED
  BY <1>1, <1>2, <1>3, TypeCorrect, PTL DEF Spec

-----------------------------------------------------------------------------
(* Retention and the domain record.                                         *)

ClosedRow(j, r) ==
    j \in Dependent /\ (r.reconciled \/ r.status \in {"succeeded", "purged"}) => j \in closed

ClosedInv ==
    \A j \in Jobs :
        /\ ClosedRow(j, rows[j])
        /\ j \in Dependent /\ mnt.op = "purge" /\ j \in mnt.ids => j \in closed
        /\ \A w \in Workers : j \in Dependent /\ pc[w][j] = "done" => j \in closed

LEMMA ClosedMove ==
    ASSUME NEW j, NEW r \in Row, NEW q, AnyMove(j, r, q), ClosedRow(j, r),
           j \in Dependent /\ mnt.op = "purge" /\ j \in mnt.ids => j \in closed,
           \A w \in Workers : j \in Dependent /\ pc[w][j] = "done" => j \in closed,
           j \in closed => j \in closed',
           j \in Dependent, q.reconciled \/ q.status \in {"succeeded", "purged"}
    PROVE  j \in closed'
<1> USE DEF ClosedRow, Row
<1>1. CASE q = r
  BY <1>1
<1>2. CASE ProcessMove(j, r, q)
  <2>1. CASE \E w \in Workers : pc[w][j] = "done"
    BY <2>1
  <2>2. CASE ~\E w \in Workers : pc[w][j] = "done"
    <3>1. \/ q = [r EXCEPT !.lease = "live"] \/ q = Deferred(r)
          \/ q = Finished(r, "cancelled", FALSE, "cancelled")
          \/ q = Finished(r, "failed", FALSE, "error")
      BY <1>2, <2>2 DEF ProcessMove
    <3>2. q.reconciled = r.reconciled
      BY <3>1 DEF Deferred, Finished
    <3>3. q.status \in {r.status, "retry", "cancelled", "failed"}
      BY <3>1 DEF Deferred, Finished
    <3>4. QED
      BY <3>2, <3>3
  <2>3. QED
    BY <2>1, <2>2
<1>3. CASE ClaimMove(j, r, q)
  <2>1. CASE \E w \in Workers : q = LeasedTo(r, w)
    BY <2>1 DEF LeasedTo
  <2>2. CASE j \in closed'
    BY <2>2
  <2>3. CASE q = Finished(r, "cancelled", FALSE, "cancelled")
    BY <2>3 DEF Finished
  <2>4. CASE q = Finished(r, "failed", FALSE, "lease_expired")
    BY <2>4 DEF Finished
  <2>5. QED
    BY <1>3, <2>1, <2>2, <2>3, <2>4 DEF ClaimMove
<1>4. CASE RequestMove(j, r, q)
  <2>1. q.reconciled = r.reconciled
    BY <1>4 DEF RequestMove, CancelledInQueue, CancelFlagged, ErasedActive, Finished, Redacted
  <2>2. q.status \in {r.status, "cancelled"}
    BY <1>4 DEF RequestMove, CancelledInQueue, CancelFlagged, ErasedActive, Finished, Redacted
  <2>3. QED
    BY <2>1, <2>2
<1>5. CASE MaintenanceMove(j, r, q)
  <2>1. CASE q = Finished(r, "cancelled", FALSE, "expired")
    BY <2>1 DEF Finished
  <2>2. CASE mnt.op = "purge" /\ j \in mnt.ids
    BY <2>2
  <2>3. QED
    BY <1>5, <2>1, <2>2 DEF MaintenanceMove
<1>6. CASE TimeMove(j, r, q)
  BY <1>6, FreshFields DEF TimeMove
<1>7. QED
  BY <1>1, <1>2, <1>3, <1>4, <1>5, <1>6 DEF AnyMove

\* What one step may do to the pass of the maintenance.
MaintenanceFrame ==
    \/ mnt' = mnt
    \/ mnt'.op # "purge" /\ (mnt'.op = "expire" => overdue # {})
    \/ mnt'.op = "purge" /\ rows' = rows /\ \A j \in mnt'.ids : j \in Jobs /\ Purgeable(j)

LEMMA MaintenanceFrames == TypeOK /\ [Next]_vars => MaintenanceFrame
<1> SUFFICES ASSUME TypeOK, [Next]_vars PROVE MaintenanceFrame
  OBVIOUS
<1>0. ASSUME mnt' = mnt PROVE MaintenanceFrame
  BY <1>0 DEF MaintenanceFrame
<1>1. ASSUME NEW j \in Jobs, JobStep(j) PROVE MaintenanceFrame
  BY <1>1, <1>0 DEF JobStep, EnqueueWorkerJob, LeaseLapses, BecomesDue, DeadlinePasses, Revive
<1>2. ASSUME NEW w \in Workers, LoopStep(w) PROVE MaintenanceFrame
  BY <1>2, <1>0 DEF LoopStep, Reconcile, SweepCancelled, SweepExhausted, SelectAndLease,
     ReadClaimed, ReadFails, BatchEnds, Crash
<1>3. ASSUME NEW w \in Workers, NEW j \in Jobs, ProcessStep(w, j) PROVE MaintenanceFrame
  BY <1>3, <1>0 DEF ProcessStep, UnsupportedKind, StartHandler, HandlerSeesCancellation,
     HandlerReturns, HandlerRaises, PublishSuccess, MarkCancelled, FinishFailure,
     DatabaseError, RenewLease, RenewGivesUp
<1>4. CASE RequestStep
  BY <1>4, <1>0 DEF RequestStep, RequestCancellation, CancelUserJobs, CancelQueued,
     FlagProcessing, EraseActive, EraseRemaining
<1>5. CASE ExpireSelect
  BY <1>5 DEF ExpireSelect, MaintenanceFrame
<1>6. CASE ExpireUpdate \/ PurgeDelete
  <2>1. mnt' = NoPass
    BY <1>6 DEF ExpireUpdate, PurgeDelete
  <2>2. QED
    BY <2>1 DEF NoPass, MaintenanceFrame
<1>7. CASE PurgeSelect
  <2>1. PICK ids \in SUBSET {j \in Jobs : Purgeable(j)} : mnt' = [op |-> "purge", ids |-> ids]
    BY <1>7 DEF PurgeSelect
  <2>2. rows' = rows
    BY <1>7 DEF PurgeSelect, tableVars
  <2>3. mnt'.op = "purge" /\ mnt'.ids = ids
    BY <2>1
  <2>4. QED
    BY <2>2, <2>3 DEF MaintenanceFrame
<1>8. CASE UNCHANGED vars
  BY <1>8, <1>0 DEF vars
<1>9. QED
  BY <1>1, <1>2, <1>3, <1>4, <1>5, <1>6, <1>7, <1>8 DEF Next, MaintenanceStep

LEMMA ClosedNext == TypeOK /\ ClosedInv /\ [Next]_vars => ClosedInv'
<1> SUFFICES ASSUME TypeOK, ClosedInv, [Next]_vars, NEW j \in Jobs
             PROVE  /\ ClosedRow(j, rows[j])'
                    /\ (j \in Dependent /\ mnt.op = "purge" /\ j \in mnt.ids => j \in closed)'
                    /\ \A w \in Workers : (j \in Dependent /\ pc[w][j] = "done" => j \in closed)'
  BY DEF ClosedInv
<1>1. /\ AnyMove(j, rows[j], rows'[j]) /\ rows[j] \in Row /\ ClosedRow(j, rows[j])
      /\ j \in closed => j \in closed'
  BY RowMoves, Monotone DEF RowMove, TypeOK, ClosedInv
<1>2. /\ j \in Dependent /\ mnt.op = "purge" /\ j \in mnt.ids => j \in closed
      /\ \A w \in Workers : j \in Dependent /\ pc[w][j] = "done" => j \in closed
  BY DEF ClosedInv
<1>3. ClosedRow(j, rows[j])'
  <2> SUFFICES ASSUME j \in Dependent,
                      rows'[j].reconciled \/ rows'[j].status \in {"succeeded", "purged"}
               PROVE  j \in closed'
    BY DEF ClosedRow
  <2>1. QED
    BY <1>1, <1>2, ClosedMove
<1>4. (j \in Dependent /\ mnt.op = "purge" /\ j \in mnt.ids => j \in closed)'
  <2>1. Purgeable(j) /\ j \in Dependent => j \in closed
    BY <1>1 DEF Purgeable, ClosedRow
  <2>2. QED
    BY <1>1, <1>2, <2>1, MaintenanceFrames DEF MaintenanceFrame
<1>5. ASSUME NEW w \in Workers PROVE (j \in Dependent /\ pc[w][j] = "done" => j \in closed)'
  <2>1. ThreadMove(w, j)
    BY ThreadMoves
  <2>2. QED
    BY <1>1, <1>2, <2>1 DEF ThreadMove, Stay, Leave, Read, Start, Advance
<1>6. QED
  BY <1>3, <1>4, <1>5

(* Retention forgets a job with dependent domain state only after that      *)
(* state was closed, also when its pass deletes what it selected long before.*)
THEOREM PurgedAfterClosing == Spec => []PurgedOnlyWhenClosed
<1>1. Init => ClosedInv
  BY DEF Init, ClosedInv, ClosedRow, NoRow, NoPass
<1>2. ClosedInv => PurgedOnlyWhenClosed
  BY JobsAssumption DEF ClosedInv, ClosedRow, PurgedOnlyWhenClosed
<1>3. QED
  BY <1>1, <1>2, TypeCorrect, ClosedNext, PTL DEF Spec

-----------------------------------------------------------------------------
(* Without deadlines nothing overwrites an outcome.                         *)

NoExpiry == overdue = {} /\ mnt.op # "expire"

LEMMA NoExpiryNext ==
    ASSUME Expiring = {} PROVE TypeOK /\ NoExpiry /\ [Next]_vars => NoExpiry'
<1> SUFFICES ASSUME TypeOK, NoExpiry, [Next]_vars PROVE NoExpiry'
  OBVIOUS
<1>1. overdue' = {}
  BY TypeNext DEF TypeOK
<1>2. QED
  BY <1>1, MaintenanceFrames DEF MaintenanceFrame, NoExpiry

SuccessKept ==
    \A j \in Jobs : rows[j].status = "succeeded" => rows'[j].status \in {"succeeded", "purged"}

LEMMA SuccessMove ==
    ASSUME NEW j, NEW r \in Row, NEW q, AnyMove(j, r, q), mnt.op # "expire",
           r.status = "succeeded"
    PROVE  q.status \in {"succeeded", "purged"}
<1> USE DEF Row
<1>1. CASE q = r
  BY <1>1
<1>2. CASE ProcessMove(j, r, q)
  BY <1>2 DEF ProcessMove
<1>3. CASE ClaimMove(j, r, q)
  BY <1>3 DEF ClaimMove, Claimable, Queued, Lapsed
<1>4. CASE RequestMove(j, r, q)
  BY <1>4 DEF RequestMove, Queued, Active, JobActive, Redacted
<1>5. CASE MaintenanceMove(j, r, q)
  BY <1>5, FreshFields DEF MaintenanceMove
<1>6. CASE TimeMove(j, r, q)
  BY <1>6 DEF TimeMove, Queued
<1>7. QED
  BY <1>1, <1>2, <1>3, <1>4, <1>5, <1>6 DEF AnyMove

(* A published success is never taken back by a process, a request, a sweep *)
(* or a revival; an expiry may (see OnlyUnfinishedExpire).                   *)
THEOREM SuccessFinal == ASSUME Expiring = {} PROVE Spec => SuccessIsFinal
<1>1. Init => NoExpiry
  BY DEF Init, NoExpiry, NoPass
<1>2. TypeOK /\ NoExpiry /\ [Next]_vars => NoExpiry'
  BY NoExpiryNext
<1>3. TypeOK /\ NoExpiry /\ [Next]_vars => [SuccessKept]_vars
  <2> SUFFICES ASSUME TypeOK, NoExpiry, [Next]_vars, NEW j \in Jobs,
                      rows[j].status = "succeeded"
               PROVE  rows'[j].status \in {"succeeded", "purged"}
    BY DEF SuccessKept
  <2>1. AnyMove(j, rows[j], rows'[j]) /\ rows[j] \in Row
    BY RowMoves DEF RowMove, TypeOK
  <2>2. QED
    BY <2>1, SuccessMove DEF NoExpiry
<1>4. QED
  BY <1>1, <1>2, <1>3, TypeCorrect, PTL DEF Spec, SuccessIsFinal, SuccessKept

-----------------------------------------------------------------------------
(* The queue implements JobLedger, for every set of processes and rows and  *)
(* under every request and fault, for the rows that cannot be revived, as   *)
(* long as none has a deadline.  The mapping forgets processes, leases and  *)
(* statements.                                                              *)

LEMMA LedgerStates ==
    ASSUME NEW r
    PROVE  /\ r.status \in {"pending", "retry"} => LedgerState(r) = "offered"
           /\ r.status = "processing" => LedgerState(r) = "taken"
           /\ r.status = "purged" => LedgerState(r) = "removed"
           /\ r.status \in {"absent", "succeeded", "failed", "cancelled"}
                => LedgerState(r) = r.status
  BY DEF LedgerState

\* Rows that are not there carry nothing; a pass of retention holds closed rows.
Blank(r) == r.status \in {"absent", "purged"} => r.attempts = 0 /\ ~r.cancel

Settled(r) == Terminal(r) \/ r.status = "purged"

LEMMA BlankMove ==
    ASSUME NEW j, NEW r \in Row, NEW q, AnyMove(j, r, q), Blank(r)
    PROVE  Blank(q)
<1> USE DEF Blank, Row
<1>1. CASE q = r
  BY <1>1
<1>2. CASE ProcessMove(j, r, q)
  <2>1. q.status \in {"processing", "succeeded", "cancelled", "failed", "retry"}
    BY <1>2 DEF ProcessMove, Finished, Deferred
  <2>2. QED
    BY <2>1
<1>3. CASE ClaimMove(j, r, q)
  <2>1. q.status \in {"processing", "cancelled", "failed"}
    BY <1>3 DEF ClaimMove, Finished, LeasedTo
  <2>2. QED
    BY <2>1
<1>4. CASE RequestMove(j, r, q)
  <2>1. CASE q = Redacted(r)
    BY <2>1 DEF Redacted
  <2>2. CASE q # Redacted(r)
    <3>1. q.status \in {"processing", "cancelled"}
      BY <1>4, <2>2 DEF RequestMove, CancelledInQueue, CancelFlagged, ErasedActive, Finished
    <3>2. QED
      BY <3>1
  <2>3. QED
    BY <2>1, <2>2
<1>5. CASE MaintenanceMove(j, r, q)
  <2>1. MaintenanceEffect(j, r, q)
    BY <1>5, MaintenanceColumns
  <2>2. QED
    BY <2>1 DEF MaintenanceEffect
<1>6. CASE TimeMove(j, r, q)
  BY <1>6, FreshFields DEF TimeMove, Queued
<1>7. QED
  BY <1>1, <1>2, <1>3, <1>4, <1>5, <1>6 DEF AnyMove

LEMMA SettledMove ==
    ASSUME NEW j, NEW r \in Row, NEW q, AnyMove(j, r, q), mnt.op # "expire",
           j \notin Lifecycle, Settled(r)
    PROVE  Settled(q)
<1> USE DEF Settled, Terminal, JobTerminal, Row
<1>1. CASE q = r
  BY <1>1
<1>2. CASE ProcessMove(j, r, q)
  BY <1>2 DEF ProcessMove
<1>3. CASE ClaimMove(j, r, q)
  BY <1>3 DEF ClaimMove, Claimable, Queued, Lapsed
<1>4. CASE RequestMove(j, r, q)
  BY <1>4 DEF RequestMove, Queued, Active, JobActive, Redacted
<1>5. CASE MaintenanceMove(j, r, q)
  BY <1>5, FreshFields DEF MaintenanceMove
<1>6. CASE TimeMove(j, r, q)
  BY <1>6 DEF TimeMove, Queued
<1>7. QED
  BY <1>1, <1>2, <1>3, <1>4, <1>5, <1>6 DEF AnyMove

-----------------------------------------------------------------------------
(* Every move of a row is a step of its entry, or none.                     *)

LEMMA SameEntry ==
    ASSUME NEW r, NEW q, q.status = r.status, q.attempts = r.attempts, q.cancel = r.cancel
    PROVE  LedgerEntry(q) = LedgerEntry(r)
  BY DEF LedgerEntry, LedgerState

LEMMA EntryMove ==
    ASSUME NEW j \in Jobs \ Lifecycle, NEW r \in Row, NEW q \in Row, AnyMove(j, r, q),
           mnt.op # "expire", AttemptRow(j, r), Blank(r),
           mnt.op = "purge" /\ j \in mnt.ids => Settled(r)
    PROVE  Ledger!EntryStep(j, LedgerEntry(r), LedgerEntry(q))
<1> DEFINE e == LedgerEntry(r)
           f == LedgerEntry(q)
<1> USE DEF Ledger!EntryStep
<1>0. /\ r.attempts \in Nat /\ q.attempts \in Nat /\ r.cancel \in BOOLEAN /\ q.cancel \in BOOLEAN
      /\ MaxAttempts[j] \in Nat
  BY JobsAssumption DEF Row
<1>1. ASSUME q.status = r.status, q.attempts = r.attempts, q.cancel = r.cancel
      PROVE  Ledger!EntryStep(j, e, f)
  BY <1>1, SameEntry
<1>2. /\ e.state = LedgerState(r) /\ e.taken = r.attempts /\ e.withdrawn = r.cancel
      /\ f = Ledger!At(LedgerState(q), q.attempts, q.cancel)
  BY DEF LedgerEntry, Ledger!At
<1> HIDE DEF e, f
<1>3. ASSUME r.status = "processing", q.status \in {"failed", "cancelled"},
             q.attempts = r.attempts, q.cancel = r.cancel
      PROVE  Ledger!GiveUp(e, f)
  <2>1. LedgerState(r) = "taken" /\ LedgerState(q) = q.status
    BY <1>3, LedgerStates
  <2>2. f = Ledger!At(q.status, e.taken, e.withdrawn)
    BY <1>2, <1>3, <2>1
  <2>3. QED
    BY <1>2, <1>3, <2>1, <2>2 DEF Ledger!GiveUp
<1>4. CASE ProcessMove(j, r, q)
  <2>1. CASE q = [r EXCEPT !.lease = "live"]
    BY <1>1, <2>1 DEF Row, e, f
  <2>2. CASE ~r.cancel /\ \E b \in BOOLEAN : q = Finished(r, "succeeded", b, "none")
    <3>1. q.status = "succeeded" /\ q.attempts = r.attempts /\ q.cancel = r.cancel
      BY <2>2 DEF Finished, Row
    <3>2. LedgerState(r) = "taken" /\ LedgerState(q) = "succeeded"
      BY <1>4, <3>1, LedgerStates DEF ProcessMove
    <3>3. Ledger!Succeed(e, f)
      BY <1>2, <2>2, <3>1, <3>2 DEF Ledger!Succeed
    <3>4. QED
      BY <3>3 DEF e, f
  <2>3. CASE q = Finished(r, "cancelled", FALSE, "cancelled")
    <3>1. q.status = "cancelled" /\ q.attempts = r.attempts /\ q.cancel = r.cancel
      BY <2>3 DEF Finished, Row
    <3>2. QED
      BY <1>3, <1>4, <3>1 DEF ProcessMove, e, f
  <2>4. CASE q = Finished(r, "failed", FALSE, "error")
    <3>1. q.status = "failed" /\ q.attempts = r.attempts /\ q.cancel = r.cancel
      BY <2>4 DEF Finished, Row
    <3>2. QED
      BY <1>3, <1>4, <3>1 DEF ProcessMove, e, f
  <2>5. CASE ~r.cancel /\ r.attempts < MaxAttempts[j] /\ q = Deferred(r)
    <3>1. q.status = "retry" /\ q.attempts = r.attempts /\ q.cancel = r.cancel
      BY <2>5 DEF Deferred, Row
    <3>2. LedgerState(r) = "taken" /\ LedgerState(q) = "offered"
      BY <1>4, <3>1, LedgerStates DEF ProcessMove
    <3>3. Ledger!GiveBack(e, f, MaxAttempts[j])
      BY <1>2, <2>5, <3>1, <3>2 DEF Ledger!GiveBack
    <3>4. QED
      BY <3>3 DEF e, f
  <2>6. QED
    BY <1>4, <2>1, <2>2, <2>3, <2>4, <2>5 DEF ProcessMove
<1>5. CASE ClaimMove(j, r, q)
  <2>1. CASE r.status = "processing" /\ q = Finished(r, "cancelled", FALSE, "cancelled")
    <3>1. q.status = "cancelled" /\ q.attempts = r.attempts /\ q.cancel = r.cancel
      BY <2>1 DEF Finished, Row
    <3>2. QED
      BY <1>3, <2>1, <3>1 DEF e, f
  <2>2. CASE r.status = "processing" /\ q = Finished(r, "failed", FALSE, "lease_expired")
    <3>1. q.status = "failed" /\ q.attempts = r.attempts /\ q.cancel = r.cancel
      BY <2>2 DEF Finished, Row
    <3>2. QED
      BY <1>3, <2>2, <3>1 DEF e, f
  <2>3. CASE Claimable(r, MaxAttempts[j]) /\ \E w \in Workers : q = LeasedTo(r, w)
    <3>1. q.status = "processing" /\ q.attempts = r.attempts + 1 /\ q.cancel = r.cancel
      BY <2>3 DEF LeasedTo, Row
    <3>2. ~r.cancel /\ r.attempts < MaxAttempts[j] /\ r.status \in {"pending", "retry", "processing"}
      BY <2>3 DEF Claimable, Queued, Lapsed, AttemptRow
    <3>3. LedgerState(r) \in {"offered", "taken"} /\ LedgerState(q) = "taken"
      BY <3>1, <3>2, LedgerStates
    <3>4. Ledger!Take(e, f, MaxAttempts[j])
      <4>1. e.state \in {"offered", "taken"} /\ ~e.withdrawn /\ e.taken < MaxAttempts[j]
        BY <1>2, <3>2, <3>3
      <4>2. f = Ledger!At("taken", e.taken + 1, e.withdrawn)
        BY <1>2, <3>1, <3>3
      <4>3. QED
        BY <4>1, <4>2 DEF Ledger!Take
    <3>5. QED
      BY <3>4 DEF e, f
  <2>4. CASE q = [r EXCEPT !.reconciled = TRUE]
    BY <1>1, <2>4 DEF Row, e, f
  <2>5. QED
    BY <1>5, <2>1, <2>2, <2>3, <2>4 DEF ClaimMove, Lapsed
<1>6. CASE RequestMove(j, r, q)
  <2>1. CASE /\ r.status \in {"pending", "retry", "processing"}
             /\ q.status = "cancelled" /\ q.cancel /\ q.attempts = r.attempts
    <3>1. LedgerState(r) \in {"offered", "taken"} /\ LedgerState(q) = "cancelled"
      BY <2>1, LedgerStates
    <3>2. Ledger!Withdraw(e, f)
      <4>1. f = Ledger!At("cancelled", e.taken, TRUE)
        BY <1>0, <1>2, <2>1, <3>1
      <4>2. e.state \in {"offered", "taken"}
        BY <1>2, <3>1
      <4>3. QED
        BY <4>1, <4>2 DEF Ledger!Withdraw
    <3>3. QED
      BY <3>2 DEF e, f
  <2>2. CASE Queued(r) /\ \E c \in {"cancelled", "account"} : q = CancelledInQueue(r, c)
    <3>1. q.status = "cancelled" /\ q.cancel /\ q.attempts = r.attempts
      BY <2>2 DEF CancelledInQueue, Row
    <3>2. QED
      BY <2>1, <2>2, <3>1 DEF Queued
  <2>3. CASE Active(r) /\ q = ErasedActive(r)
    <3>1. q.status = "cancelled" /\ q.cancel /\ q.attempts = r.attempts
      BY <2>3 DEF ErasedActive, Finished, Row
    <3>2. QED
      BY <2>1, <2>3, <3>1 DEF Active, JobActive
  <2>4. CASE r.status = "processing" /\ q = CancelFlagged(r)
    <3>1. q.status = "processing" /\ q.cancel = TRUE /\ q.attempts = r.attempts
      BY <2>4 DEF CancelFlagged, Row
    <3>2. LedgerState(r) = "taken" /\ LedgerState(q) = "taken"
      BY <2>4, <3>1, LedgerStates
    <3>3. Ledger!Withdraw(e, f)
      <4>1. f = Ledger!At("taken", e.taken, TRUE) /\ e.state = "taken"
        BY <1>2, <3>1, <3>2
      <4>2. QED
        BY <4>1 DEF Ledger!Withdraw
    <3>4. QED
      BY <3>3 DEF e, f
  <2>5. CASE q = Redacted(r)
    BY <1>1, <2>5 DEF Redacted, Row, e, f
  <2>6. QED
    BY <1>6, <2>2, <2>3, <2>4, <2>5 DEF RequestMove
<1>7. CASE MaintenanceMove(j, r, q)
  <2>1. q = Purged /\ Settled(r)
    BY <1>7 DEF MaintenanceMove
  <2>2. q.status = "purged" /\ q.attempts = 0 /\ q.cancel = FALSE
    BY <2>1 DEF Purged, NoRow
  <2>3. CASE r.status = "purged"
    <3>1. r.attempts = 0 /\ r.cancel = FALSE
      BY <1>0, <2>3 DEF Blank
    <3>2. QED
      BY <1>1, <2>2, <2>3, <3>1 DEF e, f
  <2>4. CASE r.status \in {"succeeded", "failed", "cancelled"}
    <3>1. LedgerState(r) = r.status /\ LedgerState(q) = "removed"
      BY <2>2, <2>4, LedgerStates
    <3>2. Ledger!Remove(e, f)
      <4>1. f = Ledger!Removed
        BY <1>2, <2>2, <3>1 DEF Ledger!Removed
      <4>2. e.state \in {"succeeded", "failed", "cancelled"}
        BY <1>2, <2>4, <3>1
      <4>3. QED
        BY <4>1, <4>2 DEF Ledger!Remove
    <3>3. QED
      BY <3>2 DEF e, f
  <2>5. QED
    BY <2>1, <2>3, <2>4 DEF Settled, Terminal, JobTerminal
<1>8. CASE TimeMove(j, r, q)
  <2>1. CASE q = [r EXCEPT !.lease = "lapsed"] \/ q = [r EXCEPT !.due = TRUE]
    BY <1>1, <2>1 DEF Row, e, f
  <2>2. CASE r.status = "absent" /\ \E b \in BOOLEAN : q = NewRow(b)
    <3>1. r.attempts = 0 /\ r.cancel = FALSE
      BY <1>0, <2>2 DEF Blank
    <3>2. q.status = "pending" /\ q.attempts = 0 /\ q.cancel = FALSE
      BY <2>2, <1>0, FreshFields
    <3>3. LedgerState(r) = "absent" /\ LedgerState(q) = "offered"
      BY <2>2, <3>2, LedgerStates
    <3>4. Ledger!Offer(e, f)
      <4>1. f = Ledger!At("offered", e.taken, e.withdrawn) /\ e.state = "absent"
        BY <1>2, <3>1, <3>2, <3>3
      <4>2. QED
        BY <4>1 DEF Ledger!Offer
    <3>5. QED
      BY <3>4 DEF e, f
  <2>3. QED
    BY <1>8, <2>1, <2>2 DEF TimeMove
<1>9. QED
  BY <1>1, <1>4, <1>5, <1>6, <1>7, <1>8 DEF AnyMove, e, f

-----------------------------------------------------------------------------
LedgerInv ==
    \A j \in Jobs \ Lifecycle :
        /\ Blank(rows[j])
        /\ mnt.op = "purge" /\ j \in mnt.ids => Settled(rows[j])

LEMMA LedgerInvNext ==
    TypeOK /\ NoExpiry /\ LedgerInv /\ [Next]_vars => LedgerInv'
<1> SUFFICES ASSUME TypeOK, NoExpiry, LedgerInv, [Next]_vars, NEW j \in Jobs \ Lifecycle
             PROVE  /\ Blank(rows'[j])
                    /\ mnt'.op = "purge" /\ j \in mnt'.ids => Settled(rows'[j])
  BY DEF LedgerInv, Blank, Settled, Terminal
<1>1. AnyMove(j, rows[j], rows'[j]) /\ rows[j] \in Row /\ mnt.op # "expire" /\ Blank(rows[j])
  BY RowMoves DEF RowMove, TypeOK, NoExpiry, LedgerInv
<1>2. Blank(rows'[j])
  BY <1>1, BlankMove
<1>3. Settled(rows[j]) => Settled(rows'[j])
  BY <1>1, SettledMove
<1>4. MaintenanceFrame
  BY MaintenanceFrames
<1>5. mnt'.op = "purge" /\ j \in mnt'.ids => Settled(rows'[j])
  BY <1>3, <1>4 DEF MaintenanceFrame, LedgerInv, Purgeable, Settled
<1>6. QED
  BY <1>2, <1>5

LEMMA EntryType ==
    ASSUME NEW r \in Row PROVE LedgerEntry(r) \in Ledger!Entry
<1>1. r.attempts \in Nat /\ r.cancel \in BOOLEAN /\ r.status \in JobStatus
  BY DEF Row
<1>2. LedgerState(r) \in {"absent", "offered", "taken", "succeeded", "failed", "cancelled",
                          "removed"}
  BY <1>1, LedgerStates DEF JobStatus, JobActive, JobTerminal
<1>3. QED
  BY <1>1, <1>2 DEF LedgerEntry, Ledger!Entry

LEMMA LedgerStep ==
    TypeOK /\ NoExpiry /\ BudgetInv /\ LedgerInv /\ [Next]_vars => Ledger!Next
<1> SUFFICES ASSUME TypeOK, NoExpiry, BudgetInv, LedgerInv, [Next]_vars PROVE Ledger!Next
  OBVIOUS
<1>1. rows' \in [Jobs -> Row]
  BY TypeNext DEF TypeOK
<1>2. [j \in Jobs \ Lifecycle |-> LedgerEntry(rows'[j])]
        \in [Jobs \ Lifecycle -> Ledger!Entry]
  BY <1>1, EntryType
<1>3. ASSUME NEW j \in Jobs \ Lifecycle
      PROVE  Ledger!EntryStep(j, LedgerEntry(rows[j]), LedgerEntry(rows'[j]))
  <2>1. /\ AnyMove(j, rows[j], rows'[j]) /\ rows[j] \in Row /\ rows'[j] \in Row
        /\ mnt.op # "expire" /\ AttemptRow(j, rows[j]) /\ Blank(rows[j])
        /\ mnt.op = "purge" /\ j \in mnt.ids => Settled(rows[j])
    BY <1>1, RowMoves DEF RowMove, TypeOK, NoExpiry, BudgetInv, LedgerInv
  <2>2. QED
    BY <2>1, EntryMove
<1>4. QED
  BY <1>2, <1>3 DEF Ledger!Next, LedgerEntry

LEMMA LedgerInit == Init => Ledger!Init
<1> SUFFICES ASSUME Init PROVE Ledger!Init
  OBVIOUS
<1>1. LedgerEntry(NoRow) = Ledger!Unborn
  <2>1. LedgerState(NoRow) = "absent"
    BY FreshFields, LedgerStates
  <2>2. QED
    BY <2>1 DEF LedgerEntry, Ledger!Unborn, Ledger!At, NoRow
<1>2. QED
  BY <1>1 DEF Init, Ledger!Init

(* Without deadlines every history of the rows that are never revived is one *)
(* of the ledger: each job is taken within its budget, withdrawn for good,   *)
(* closed once and then forgotten.                                          *)
THEOREM QueueKeepsLedger ==
    ASSUME Expiring = {} PROVE Spec => KeepsLedger
<1>1. Init => LoopInv /\ BudgetInv /\ NoExpiry /\ LedgerInv
  BY HolderInit, BudgetInit DEF Init, NoExpiry, LedgerInv, Blank, NoRow, NoPass
<1>2. TypeOK /\ LoopInv /\ BudgetInv /\ NoExpiry /\ LedgerInv /\ [Next]_vars
        => LoopInv' /\ BudgetInv' /\ NoExpiry' /\ LedgerInv'
  BY LoopNext, BudgetNext, NoExpiryNext, LedgerInvNext
<1>3. TypeOK /\ NoExpiry /\ BudgetInv /\ LedgerInv /\ [Next]_vars => Ledger!Next
  BY LedgerStep
<1>4. QED
  BY <1>1, <1>2, <1>3, TypeCorrect, LedgerInit, PTL DEF Spec, KeepsLedger, Ledger!Spec
=============================================================================
