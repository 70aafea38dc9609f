---------------------------- MODULE MCBackground -----------------------------
(* Scheduled and background work of the backend for TLC: automations,       *)
(* backups and restores, the outboxes of audit events and of mails, and the *)
(* end of a generation's streams.  One part runs, the others rest.          *)
EXTENDS AuditOutbox

CONSTANTS
    Schedulers, Runners, LastSlot, MaxEdits, MaxFailures, MaxLosses,    \* of AutomationScheduler
    MaxMishaps,                                             \* bound of its part late
    Backups, Restores, Requests, MaxFails, BusyIdle,      \* of BackupFreeze
    Reader, MaxLines, MaxPublished, MaxTries,               \* of RedisStream
    MaxItems,                                               \* of ProviderStream
    Messages, Senders, NoSender, NoMessage, MaxAttempts, Batch, Expiring, OneTime, Owned,
    Faults,                                                 \* of EmailOutbox
    Parts                                                   \* the parts a run is about

VARIABLES
    part,                                                   \* the part that runs
    clock, plan, lead, sched, run, queued, executor, editor, ran, again, edits, failures, losses,
    freeze, held, job, rows, stored, request, fails,
    web, status, seq, events, signal, local, published, sub, handed, tries,
    mode, flag, redis, event, hook, wanted, caller, snap, consumer, producer, queue,
    sent, stopped, closed, outcome, interpreted, misled,
    mail, overdue, stale, at, picked, left, turn, expiry, accepted

autoVars   == <<clock, plan, lead, sched, run, queued, executor, editor, ran, again, edits, failures, losses>>
backupVars == <<freeze, held, job, rows, stored, request, fails>>
redisVars  == <<web, status, seq, events, signal, local, published, sub, handed, tries>>
providerVars == <<mode, flag, redis, event, hook, wanted, caller, snap, consumer, producer,
                  queue, sent, stopped, closed, outcome, interpreted, misled>>
streamVars == <<redisVars, providerVars>>
mailVars   == <<mail, overdue, stale, at, picked, left, turn, expiry, accepted>>
allVars    == <<part, autoVars, backupVars, streamVars, mailVars, vars>>

\* max_attempts of each mail.
Attempts == [m \in Messages |-> IF m \in Expiring THEN 1 ELSE 2]
TwoAttempts == [m \in Messages |-> 2]

\* Prompt: no claim outlives its timeout.  Late: claims do, and things get lost.
Prompt == INSTANCE AutomationScheduler WITH
              ClaimsAge <- FALSE, OthersFail <- FALSE, MaxCrashes <- 0,
              Workers <- Runners, MaxFails <- MaxFailures,
              row <- plan, lock <- lead, job <- run, listed <- queued,
              worker <- executor, fails <- failures, crashes <- losses

Late == INSTANCE AutomationScheduler WITH
            ClaimsAge <- TRUE, OthersFail <- TRUE, MaxCrashes <- MaxLosses,
            Workers <- Runners, MaxFails <- MaxFailures,
            row <- plan, lock <- lead, job <- run, listed <- queued,
            worker <- executor, fails <- failures, crashes <- losses

\* Busy: requests arrive and jobs take long.  Calm: jobs only.
Busy == INSTANCE BackupFreeze WITH Traffic <- TRUE, SlowWork <- TRUE, lock <- held

Calm == INSTANCE BackupFreeze WITH Traffic <- FALSE, SlowWork <- TRUE, lock <- held

Redis == INSTANCE RedisStream WITH
             Async <- {Reader}, Threads <- {}, Webs <- {"web"}, MaxFails <- MaxTries, fails <- tries

Provider == INSTANCE ProviderStream WITH
                Modes <- {"inline", "remote", "external"}, MaxStreams <- 1, QueueMax <- 1

Mail == INSTANCE EmailOutbox

ASSUME BackgroundAssumption ==
    /\ Late!SchedulerAssumption
    /\ Busy!BackupAssumption
    /\ AuditAssumption
    /\ Redis!StreamAssumption /\ Provider!CancelAssumption
    /\ Mail!OutboxAssumption

BackgroundInit ==
    /\ part \in Parts
    /\ Late!Init /\ Busy!Init /\ Init /\ Redis!Init /\ Mail!Init
    /\ Provider!Init /\ (part # "provider" => mode = "inline")

\* Bounds of two parts.
LateBound == editor' = editor /\ clock' <= 1 /\ failures' + losses' <= MaxMishaps
BusyBound == fails' <= 1 /\ \A j \in BusyIdle : job'[j] = job[j]

BackgroundNext ==
    \/ /\ \/ part = "prompt" /\ Prompt!Next
          \/ part = "late" /\ Late!Next /\ LateBound
       /\ UNCHANGED <<part, backupVars, streamVars, mailVars, vars>>
    \/ /\ \/ part = "busy" /\ Busy!Next /\ BusyBound
          \/ part = "calm" /\ Calm!Next
       /\ UNCHANGED <<part, autoVars, streamVars, mailVars, vars>>
    \/ part = "audit" /\ Next /\ UNCHANGED <<part, autoVars, backupVars, streamVars, mailVars>>
    \/ part = "mail" /\ Mail!Next /\ UNCHANGED <<part, autoVars, backupVars, streamVars, vars>>
    \/ /\ part = "redis" /\ Redis!Next
       /\ UNCHANGED <<part, autoVars, backupVars, providerVars, mailVars, vars>>
    \/ /\ part = "provider" /\ Provider!Next
       /\ UNCHANGED <<part, autoVars, backupVars, redisVars, mailVars, vars>>

\* A part that rests looks for no work.
AutomationFairness ==
    /\ WF_autoVars(part = "late" /\ \E s \in Schedulers : Late!Acquire(s))
    /\ \A s \in Schedulers : WF_autoVars(part = "late" /\ (\/ Late!Claim(s) \/ Late!Read(s) \/ Late!Slotless(s)
                                                         \/ Late!Fetch(s) \/ Late!Enqueue(s)))
    /\ \A w \in Runners : WF_autoVars(part = "late" /\ Late!Work(w))
    /\ WF_autoVars(part = "late" /\ Late!LockExpires)
    /\ WF_autoVars(part = "late" /\ Late!ClaimAges)
    /\ \A n \in Late!Slots : WF_autoVars(part = "late" /\ Late!JobAbandoned(n))

BackgroundSpec == BackgroundInit /\ [][BackgroundNext]_allVars

AuditFairness ==
    /\ \A e \in Events :
         /\ WF_vars(part = "audit" /\ (WriteInline(e) \/ EndInline(e) \/ Stage(e, TRUE)))
         /\ SF_vars(part = "audit" /\ \E w \in Workers : Lock(w, e))
    /\ \A w \in Workers : WF_vars(part = "audit" /\ (Deliver(w) \/ EndDeliver(w)))
    /\ SF_vars(part = "audit" /\ \E x \in Erasers : Guard(x))
    /\ \A x \in Erasers :
         SF_vars(part = "audit" /\ (Check(x) \/ LockFence(x) \/ Redact(x) \/ Delete(x)))

ReaderFairness ==
    /\ WF_redisVars(/\ part = "redis"
                    /\ Redis!ReadStatus(Reader) \/ Redis!ReadBatch(Reader) \/ Redis!Recheck(Reader))
    /\ WF_redisVars(part = "redis" /\ sub[Reader].done /\ Redis!ReadNothing(Reader))

CancelFairness ==
    /\ \A c \in Provider!Callers :
         WF_providerVars(part = "provider" /\ Provider!CallerStep(c))
    /\ WF_providerVars(part = "provider" /\ Provider!SetDurable)
    /\ WF_providerVars(part = "provider" /\ (Provider!MonitorLooks \/ Provider!MonitorReads))
    /\ WF_providerVars(part = "provider" /\ (Provider!ReadIsCut(1) \/ Provider!Offer(1)))
    /\ WF_providerVars(part = "provider" /\ Provider!ConsumerStep)

\* Nothing is enabled in an outbox that rests: no mail was posted.
FairBackgroundSpec == /\ BackgroundSpec /\ AutomationFairness /\ AuditFairness
                      /\ ReaderFairness /\ CancelFairness /\ Mail!Fairness

-----------------------------------------------------------------------------
TypesOK ==
    /\ part = "prompt" => Prompt!TypeOK
    /\ part = "late" => Late!TypeOK
    /\ part = "calm" => Calm!TypeOK
    /\ part = "busy" => Busy!TypeOK
    /\ TypeOK

\* A due slot runs once and none is passed over, though schedulers overlap, die and
\* fail between their steps.
EachSlotOnce == [][part = "prompt" => Prompt!RunsOnce']_allVars /\ Late!NoSlotSkipped

\* Rows and files of an archive, and those after a restore, belong together.
BackupsHold == /\ part = "busy" => Busy!TornNeedsMishap
               /\ part = "calm" => Calm!SafeMeansWhole

\* A mail is never in two conversations with the provider at once.
OneConversation == Mail!OneConversation

\* The provider gets a mail max_attempts times at most, and only while it is open.
KeepsLedger == Mail!KeepsLedger

\* Due slots run, staged events are settled, and so is the erasure that is owed; every
\* mail that was posted is sent, cancelled, given up or erased.
BackgroundSettles == /\ Late!DueSlotRuns /\ RowsSettle /\ ErasureEnds
                     /\ Mail!MailSettles

\* Followers hear of the end, a cancelled generation ends, and no thread of a
\* provider stream stays behind.
StreamsLeave == Redis!FollowersFinish /\ Provider!CancelEnds /\ Provider!ProducersLeave
=============================================================================
