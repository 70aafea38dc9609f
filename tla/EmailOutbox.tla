----------------------------- MODULE EmailOutbox -----------------------------
(***************************************************************************)
(* The outbox of system messages (email/models.py) and the processes that  *)
(* deliver it (email/worker.py).  A process claims a batch, then takes its *)
(* rows one at a time: renew the lease, lock the row, validate, talk to the *)
(* mail provider, record the outcome.  The row lock is held from the lock   *)
(* to the commit of the outcome, so every statement that writes the row    *)
(* waits for it, and the selection of a claim skips it.                    *)
(*                                                                         *)
(* The unit of atomicity is one SQL statement at READ COMMITTED, except that*)
(* a write is placed at its commit: until then its row locks keep others    *)
(* away.  The database connection of a process outlives its conversation    *)
(* with the provider.                                                      *)
(***************************************************************************)
EXTENDS Integers, FiniteSets

CONSTANTS
    Messages,       \* outbox ids
    Senders,        \* worker processes; worker_id is unique per process
    NoSender,       \* lease_owner IS NULL
    NoMessage,      \* a process that is between two rows
    MaxAttempts,    \* the column max_attempts of each row
    Batch,          \* batch_size
    Expiring,       \* rows with expires_at
    OneTime,        \* rows that carry a reset link or a one-time code
    Owned,          \* rows of the account whose requests are modelled
    Faults          \* bound: what goes wrong in the environment

OutboxAssumption ==
    /\ NoSender \notin Senders /\ NoMessage \notin Messages
    /\ MaxAttempts \in [Messages -> Nat \ {0}]
    /\ Batch \in Nat \ {0}
    /\ Expiring \subseteq Messages
    /\ OneTime \subseteq Messages
    /\ Owned \subseteq Messages
    /\ Faults \subseteq {"crash", "database", "provider"}

VARIABLES
    mail,       \* the table
    overdue,    \* rows whose expires_at has passed
    stale,      \* rows whose credential was superseded, consumed or revoked
    at,         \* where each process is
    picked,     \* ids a claim committed and has not read back
    left,       \* rows of its batch a process has not taken up yet
    turn,       \* the row a process is working on
    expiry,     \* ids expire_email_rows selected and has not written
    accepted    \* how often the provider took the message

tableVars  == <<mail, overdue, stale>>
senderVars == <<at, picked, left, turn>>
vars == <<tableVars, senderVars, expiry, accepted>>

Queued   == {"pending", "retry"}
Open     == Queued \cup {"processing"}
Terminal == {"sent", "dead", "cancelled"}

Mail == [status   : Open \cup Terminal \cup {"absent", "removed"},
         body     : BOOLEAN,        \* recipient and payload are present
         attempts : Nat,
         due      : BOOLEAN,        \* available_at has passed
         lease    : {"none", "live", "lapsed"},
         owner    : Senders \cup {NoSender}]

NoMail == [status |-> "absent", body |-> FALSE, attempts |-> 0, due |-> FALSE,
           lease |-> "none", owner |-> NoSender]

\* "fresh": no commit since the rows of the batch were read; "batch": between
\* two rows; "locked" to "fatal": the row lock is held; "internal": rolled back.
SenderState == {"idle", "claimed", "fresh", "batch", "renewed", "locked", "valid",
                "accepted", "refused", "fatal", "internal", "down"}

TypeOK ==
    /\ mail \in [Messages -> Mail]
    /\ overdue \subseteq Expiring
    /\ stale \subseteq OneTime
    /\ at \in [Senders -> SenderState]
    /\ picked \in [Senders -> SUBSET Messages]
    /\ left \in [Senders -> SUBSET Messages]
    /\ turn \in [Senders -> Messages \cup {NoMessage}]
    /\ expiry \subseteq Messages
    /\ accepted \in [Messages -> Nat]

Init ==
    /\ mail = [m \in Messages |-> NoMail]
    /\ overdue = {} /\ stale = {} /\ expiry = {}
    /\ at = [s \in Senders |-> "idle"]
    /\ picked = [s \in Senders |-> {}]
    /\ left = [s \in Senders |-> {}]
    /\ turn = [s \in Senders |-> NoMessage]
    /\ accepted = [m \in Messages |-> 0]

-----------------------------------------------------------------------------
(* Rows.                                                                   *)

Closed(r, status) == [r EXCEPT !.status = status, !.body = FALSE,
                               !.lease = "none", !.owner = NoSender]

\* mark_email_failed.
FailedMail(r, max, retryable, late) ==
    IF ~retryable \/ late \/ r.attempts >= max
    THEN Closed(r, "dead")
    ELSE [r EXCEPT !.status = "retry", !.due = FALSE,
                   !.lease = "none", !.owner = NoSender]

Lapsed(m)    == mail[m].status = "processing" /\ mail[m].lease = "lapsed"
HeldBy(m, s) == mail[m].status = "processing" /\ mail[m].owner = s

Conversing == {"locked", "valid", "accepted", "refused", "fatal"}

\* Faulty variant: lock_email_for_delivery without FOR UPDATE.
NeverLocked(m) == FALSE

LockHeld(m) == \E s \in Senders : turn[s] = m /\ at[s] \in Conversing

\* A statement that writes rows waits until nobody has them locked.
Writable(ms) == \A m \in ms : ~LockHeld(m)

CloseRows(ms, status) ==
    mail' = [m \in Messages |-> IF m \in ms THEN Closed(mail[m], status) ELSE mail[m]]

Removed == [NoMail EXCEPT !.status = "removed"]

RemoveRows(ms) ==
    mail' = [m \in Messages |-> IF m \in ms THEN Removed ELSE mail[m]]

-----------------------------------------------------------------------------
(* The application and the clock.                                          *)

\* enqueue_email on a fresh idempotency key.
EnqueueEmail(m) ==
    /\ mail[m].status = "absent"
    /\ \E due \in BOOLEAN :
         mail' = [mail EXCEPT ![m] = [NoMail EXCEPT !.status = "pending",
                                                    !.body = TRUE, !.due = due]]
    /\ UNCHANGED <<overdue, stale, senderVars, expiry, accepted>>

LeaseLapses(m) ==
    /\ mail[m].lease = "live"
    /\ mail' = [mail EXCEPT ![m].lease = "lapsed"]
    /\ UNCHANGED <<overdue, stale, senderVars, expiry, accepted>>

BecomesDue(m) ==
    /\ mail[m].status \in Queued /\ ~mail[m].due
    /\ mail' = [mail EXCEPT ![m].due = TRUE]
    /\ UNCHANGED <<overdue, stale, senderVars, expiry, accepted>>

DeadlinePasses(m) ==
    /\ m \in Expiring \ overdue /\ mail[m].status # "absent"
    /\ overdue' = overdue \cup {m}
    /\ UNCHANGED <<mail, stale, senderVars, expiry, accepted>>

\* A newer code or link is issued, or this one is used: the row of the outbox is
\* not touched, validate_outbox_row reads the credential.
Supersede(m) ==
    /\ m \in OneTime \ stale /\ mail[m].status # "absent"
    /\ stale' = stale \cup {m}
    /\ UNCHANGED <<mail, overdue, senderVars, expiry, accepted>>

\* cancel_user_email, one UPDATE.
CancelUserEmail ==
    LET hit == {m \in Owned : mail[m].status \in Open}
    IN  /\ hit # {} /\ Writable(hit)
        /\ CloseRows(hit, "cancelled")
        /\ UNCHANGED <<overdue, stale, senderVars, expiry, accepted>>

\* erase_user_email_state, one DELETE.
EraseUserEmail ==
    LET hit == {m \in Owned : mail[m].status \in Open \cup Terminal}
    IN  /\ hit # {} /\ Writable(hit)
        /\ RemoveRows(hit)
        /\ UNCHANGED <<overdue, stale, senderVars, expiry, accepted>>

-----------------------------------------------------------------------------
(* claim_email_batch: sweep, selection and lease in one transaction, then   *)
(* the rows are read back.                                                 *)

\* Faulty variant: off by one.
ExhaustedLate(m) == Lapsed(m) /\ mail[m].attempts > MaxAttempts[m]

Exhausted(m) == Lapsed(m) /\ mail[m].attempts >= MaxAttempts[m]

Claimable(m) ==
    /\ \/ mail[m].status \in Queued /\ mail[m].due
       \/ Lapsed(m)
    /\ mail[m].attempts < MaxAttempts[m]
    /\ m \notin overdue /\ ~LockHeld(m)

LeasedMail(r, s) == [r EXCEPT !.status = "processing", !.attempts = @ + 1,
                              !.lease = "live", !.owner = s]

Claim(s) ==
    LET swept == {m \in Messages : Exhausted(m)}
        found == {m \in Messages \ swept : Claimable(m)}
    IN  /\ at[s] = "idle"
        /\ Writable(swept)
        /\ \E ids \in SUBSET found :
             /\ Cardinality(ids) <= Batch
             /\ Cardinality(ids) = Batch \/ ids = found
             /\ mail' = [m \in Messages |->
                           IF m \in swept THEN Closed(mail[m], "dead")
                           ELSE IF m \in ids THEN LeasedMail(mail[m], s)
                           ELSE mail[m]]
             /\ picked' = [picked EXCEPT ![s] = ids]
             /\ at' = [at EXCEPT ![s] = IF ids = {} THEN "idle" ELSE "claimed"]
    /\ UNCHANGED <<overdue, stale, left, turn, expiry, accepted>>

ReadClaimed(s) ==
    /\ at[s] = "claimed"
    /\ left' = [left EXCEPT ![s] = {m \in picked[s] : HeldBy(m, s)}]
    /\ picked' = [picked EXCEPT ![s] = {}]
    /\ at' = [at EXCEPT ![s] = "fresh"]
    /\ UNCHANGED <<tableVars, turn, expiry, accepted>>

\* The batch is over.
BatchEnds(s) ==
    /\ at[s] \in {"fresh", "batch"} /\ left[s] = {}
    /\ at' = [at EXCEPT ![s] = "idle"]
    /\ UNCHANGED <<tableVars, picked, left, turn, expiry, accepted>>

\* The outer exception handler: what is left stays leased until it lapses.
Abandon(s) ==
    /\ at' = [at EXCEPT ![s] = "idle"]
    /\ left' = [left EXCEPT ![s] = {}]
    /\ picked' = [picked EXCEPT ![s] = {}]
    /\ turn' = [turn EXCEPT ![s] = NoMessage]

NextRow(s) ==
    /\ at' = [at EXCEPT ![s] = "batch"]
    /\ turn' = [turn EXCEPT ![s] = NoMessage]
    /\ UNCHANGED <<picked, left>>

-----------------------------------------------------------------------------
(* One row of the batch.                                                   *)

\* renew_email_lease.  A commit expires the rows the session has loaded: reading
\* row.id of a row erased since then raises, and the batch is given up.
RenewLease(s) ==
    /\ at[s] \in {"fresh", "batch"}
    /\ \E m \in left[s] :
         \/ /\ HeldBy(m, s)
            /\ mail' = [mail EXCEPT ![m].lease = "live"]
            /\ at' = [at EXCEPT ![s] = "renewed"]
            /\ turn' = [turn EXCEPT ![s] = m]
            /\ left' = [left EXCEPT ![s] = @ \ {m}]
            /\ UNCHANGED picked
         \/ /\ ~HeldBy(m, s)
            /\ mail[m].status # "removed" \/ at[s] = "fresh"
            /\ at' = [at EXCEPT ![s] = "batch"]
            /\ left' = [left EXCEPT ![s] = @ \ {m}]
            /\ UNCHANGED <<mail, picked, turn>>
         \/ /\ mail[m].status = "removed" /\ at[s] = "batch"
            /\ Abandon(s)
            /\ UNCHANGED mail
    /\ UNCHANGED <<overdue, stale, expiry, accepted>>

\* lock_email_for_delivery; the refresh that ends the renewal raises when the row
\* was erased before it.
LockForDelivery(s) ==
    /\ at[s] = "renewed"
    /\ \/ /\ HeldBy(turn[s], s)
          /\ at' = [at EXCEPT ![s] = "locked"]
          /\ UNCHANGED <<picked, left, turn>>
       \/ ~HeldBy(turn[s], s) /\ NextRow(s)
       \/ mail[turn[s]].status = "removed" /\ Abandon(s)
    /\ UNCHANGED <<tableVars, expiry, accepted>>

\* validate_outbox_row.
Valid(m) == mail[m].body /\ m \notin overdue /\ m \notin stale

Validate(s) ==
    /\ at[s] = "locked"
    /\ IF Valid(turn[s])
       THEN at' = [at EXCEPT ![s] = "valid"] /\ UNCHANGED <<mail, picked, left, turn>>
       ELSE /\ mail' = [mail EXCEPT ![turn[s]] = Closed(@, "cancelled")]
            /\ NextRow(s)
    /\ UNCHANGED <<overdue, stale, expiry, accepted>>

\* SMTP took the message; "refused" when its answer was lost.
ProviderAccepts(s) ==
    /\ at[s] = "valid"
    /\ accepted' = [accepted EXCEPT ![turn[s]] = @ + 1]
    /\ \/ at' = [at EXCEPT ![s] = "accepted"]
       \/ "provider" \in Faults /\ at' = [at EXCEPT ![s] = "refused"]
    /\ UNCHANGED <<tableVars, picked, left, turn, expiry>>

\* Rendering, configuration or SMTP fails before the message is taken.
ProviderRefuses(s) ==
    /\ at[s] = "valid"
    /\ \E to \in {"refused", "fatal", "internal"} : at' = [at EXCEPT ![s] = to]
    /\ UNCHANGED <<tableVars, picked, left, turn, expiry, accepted>>

\* mark_email_sent.  The UPDATE of the ORM names the id only: the lock protects it.
MarkSent(s) ==
    /\ at[s] = "accepted"
    /\ mail' = [mail EXCEPT ![turn[s]] = Closed(@, "sent")]
    /\ NextRow(s)
    /\ UNCHANGED <<overdue, stale, expiry, accepted>>

MarkFailed(s) ==
    /\ at[s] \in {"refused", "fatal"}
    /\ mail' = [mail EXCEPT ![turn[s]] =
                   FailedMail(@, MaxAttempts[turn[s]], at[s] = "refused",
                              turn[s] \in overdue)]
    /\ NextRow(s)
    /\ UNCHANGED <<overdue, stale, expiry, accepted>>

\* Faulty variant: the row is failed without asking whether it is still held.
MarkInternalById(s) ==
    /\ at[s] = "internal" /\ Writable({turn[s]})
    /\ mail' = [mail EXCEPT ![turn[s]] =
                   FailedMail(@, MaxAttempts[turn[s]], TRUE, turn[s] \in overdue)]
    /\ NextRow(s)
    /\ UNCHANGED <<overdue, stale, expiry, accepted>>

\* After the rollback the row is locked again, if it is still held.
MarkInternal(s) ==
    /\ at[s] = "internal" /\ Writable({turn[s]})
    /\ mail' = IF HeldBy(turn[s], s)
               THEN [mail EXCEPT ![turn[s]] =
                        FailedMail(@, MaxAttempts[turn[s]], TRUE, turn[s] \in overdue)]
               ELSE mail
    /\ NextRow(s)
    /\ UNCHANGED <<overdue, stale, expiry, accepted>>

\* A statement or a commit fails.  An acknowledgement that failed, or committed
\* without an answer, is handled as an internal failure; anything else ends the
\* batch, and so does reading a row erased after its failure was recorded.
DatabaseError(s) ==
    /\ "database" \in Faults
    /\ at[s] \notin {"idle", "valid", "down"}
    /\ IF at[s] = "accepted"
       THEN /\ mail' \in {mail, [mail EXCEPT ![turn[s]] = Closed(@, "sent")]}
            /\ at' = [at EXCEPT ![s] = "internal"]
            /\ UNCHANGED <<picked, left, turn>>
       ELSE Abandon(s) /\ UNCHANGED mail
    /\ UNCHANGED <<overdue, stale, expiry, accepted>>

\* A process dies and its transaction with it.  One process stays up.
Crash(s) ==
    /\ "crash" \in Faults
    /\ at[s] # "down"
    /\ \E t \in Senders \ {s} : at[t] # "down"
    /\ at' = [at EXCEPT ![s] = "down"]
    /\ left' = [left EXCEPT ![s] = {}]
    /\ picked' = [picked EXCEPT ![s] = {}]
    /\ turn' = [turn EXCEPT ![s] = NoMessage]
    /\ UNCHANGED <<tableVars, expiry, accepted>>

-----------------------------------------------------------------------------
(* _maintenance.                                                           *)

\* expire_email_rows, the SELECT.
ExpireSelect ==
    /\ expiry = {}
    /\ expiry' = {m \in overdue : mail[m].status \in Open}
    /\ UNCHANGED <<tableVars, senderVars, accepted>>

\* Its UPDATE names the ids only, and waits for locked rows.
ExpireUpdate ==
    /\ expiry # {} /\ Writable(expiry)
    /\ CloseRows({m \in expiry : mail[m].status # "removed"}, "cancelled")
    /\ expiry' = {}
    /\ UNCHANGED <<overdue, stale, senderVars, accepted>>

\* purge_terminal_email_rows.  A terminal row stays terminal, so that its SELECT
\* and its DELETE by id are one step.
PurgeTerminal ==
    /\ \E ids \in SUBSET {m \in Messages : mail[m].status \in Terminal} :
         /\ ids # {}
         /\ RemoveRows(ids)
    /\ UNCHANGED <<overdue, stale, senderVars, expiry, accepted>>

-----------------------------------------------------------------------------
MessageStep(m) == EnqueueEmail(m) \/ LeaseLapses(m) \/ BecomesDue(m)
                  \/ DeadlinePasses(m) \/ Supersede(m)

SenderStep(s) == Claim(s) \/ ReadClaimed(s) \/ RenewLease(s) \/ LockForDelivery(s)
                 \/ Validate(s) \/ ProviderAccepts(s) \/ ProviderRefuses(s)
                 \/ MarkSent(s) \/ MarkFailed(s) \/ MarkInternal(s) \/ BatchEnds(s)

Next ==
    \/ \E m \in Messages : MessageStep(m)
    \/ \E s \in Senders : SenderStep(s) \/ DatabaseError(s) \/ Crash(s)
    \/ CancelUserEmail \/ EraseUserEmail
    \/ ExpireSelect \/ ExpireUpdate \/ PurgeTerminal

Spec == Init /\ [][Next]_vars

Abandoned(m) ==
    \A s \in Senders : turn[s] # m /\ m \notin left[s] \cup picked[s]

\* A process that is up keeps running, SMTP is configured and every conversation
\* ends (smtplib has a timeout); an abandoned lease lapses, delays run out and
\* maintenance comes around.  Nobody owes a request, a fault or an acceptance.
Fairness ==
    /\ \A m \in Messages : /\ WF_vars(BecomesDue(m))
                           /\ WF_vars(Abandoned(m) /\ LeaseLapses(m))
    /\ \A s \in Senders : WF_vars(SenderStep(s))
    /\ WF_vars(ExpireSelect) /\ WF_vars(ExpireUpdate)

FairSpec == Spec /\ Fairness

-----------------------------------------------------------------------------
(* Properties.                                                             *)

\* Recipient and payload exist exactly as long as the message may still be sent:
\* every outcome erases them, a retry keeps them.
RedactedWhenClosed == \A m \in Messages : mail[m].body <=> mail[m].status \in Open

\* At most one process talks to the provider about a message, although leases
\* lapse during the conversation and other processes claim and sweep.
OneConversation ==
    \A s, t \in Senders :
        s # t /\ at[s] \in Conversing /\ at[t] \in Conversing => turn[s] # turn[t]

\* While a process talks to the provider its row stays leased to it: neither a
\* cancellation, an erasure, an expiry nor a lease recovery gets in between.
HeldWhileConversing ==
    \A s \in Senders : at[s] \in Conversing => HeldBy(turn[s], s)

\* The documentation's claim: "superseded or expired credentials are not sent".
SupersededNotSent ==
    [][\A m \in Messages : m \in stale => accepted'[m] = accepted[m]]_vars

\* Every message the application posted is sent, cancelled, given up or erased.
MailSettles ==
    \A m \in Messages : mail[m].status \in Open ~> mail[m].status \notin Open

-----------------------------------------------------------------------------
MailState(status) ==
    CASE status \in Open     -> "open"
      [] status \in Terminal -> "closed"
      [] OTHER               -> status

Ledger == INSTANCE MailLedger WITH
              entry <- [m \in Messages |-> [state |-> MailState(mail[m].status),
                                            delivered |-> accepted[m]]]

\* A message is handed to the provider at most max_attempts times, only while it
\* is open: never again after it was sent, cancelled, expired, given up or erased.
KeepsLedger == Ledger!Spec
=============================================================================
