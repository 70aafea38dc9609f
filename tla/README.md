# Verification of Omlorix

TLA+ models of the parts of Omlorix in which several processes, threads, tabs,
requests or statements meet - in the backend (`src/backend/app`), the web client
(`src/frontend/js`), the Launcher (`src/electron`) and the command line program
(`src/cmd`) - with the TLC runs that check them on small instances, and proofs,
checked by TLAPS, of their safety properties for every value of the constants.

| part | modules | runs | proofs |
| --- | --- | --- | --- |
| durable worker queue and runtime | `WorkerRows`, `WorkerQueue`, `JobLedger` | `WorkerQueueSafe`, `WorkerQueueLive` | `WorkerQueueProofs` |
| transactional email outbox | `EmailOutbox`, `MailLedger` | `BackgroundSafe`, `BackgroundLive`, `EmailOutboxStale` | `BackgroundProofs` |
| in-memory chat stream hub | `StreamHub` | `ChatAll`, `BrowserLive` | `ChatProofs` |
| stream hub in Redis | `RedisStream` | `ChatAll`, `BackgroundLive`, `ChatStreamPolled` | `ChatProofs` |
| provider streams and their cancellation | `ProviderStream` | `ChatAll`, `BackgroundLive` | `ChatProofs` |
| operation lock of a server | `OperationLock` | `HostAll` | `HostProofs` |
| Launcher's server operations | `ServerOps` | `HostAll` | `HostProofs` |
| automatic updates | `AutoUpdate` | `HostAll` | `HostProofs` |
| automations scheduler | `AutomationScheduler` | `BackgroundSafe`, `BackgroundLive` | `BackgroundProofs` |
| backups, restores, write freeze | `BackupFreeze` | `BackgroundSafe`, `BackupFreezeRollback` | `BackgroundProofs` |
| audit outbox and erasure | `AuditOutbox` | `BackgroundSafe`, `BackgroundLive` | `BackgroundProofs` |
| browser session, token refresh | `TokenRefresh` | `BrowserSafe`, `BrowserLive` | `TokenRefreshProofs`, `BrowserProofs` |
| session cache | `SessionCache` | `BrowserSafe` | `BrowserProofs` |
| message queue of a chat | `MessageQueue` | `QueueSafe`, `BrowserLive` | `MessageQueueProofs`, `SplitQueueProofs` |
| message queue of a split screen | `SplitQueue` | `QueueSafe`, `BrowserLive` | `SplitQueueProofs` |

To repeat a check: `tlc -config WorkerQueueSafe.cfg MCWorkerQueue` and `tlapm
WorkerQueueProofs.tla`. A run's MC module is `MCWorkerQueue`, `MCChat`, `MCHost`,
`MCBackground`, `MCBrowser`, `MCQueue`, `MCEmailOutbox`
(`EmailOutboxStale`) or `MCBackupFreeze`.

## 1. Inventory

Omlorix is a self-hosted assistant: a FastAPI backend on PostgreSQL and Redis, a
set of worker processes on the same image, a web client, and on the host an
Electron Launcher and a command line program that run the containers.

**Durable worker queue** (`workers/models.py`). State: the table
`durable_worker_jobs` - status, payload, attempts, lease (worker and expiry),
`cancel_requested_at`, error code, `available_at`, `expires_at`. Operations:
enqueue, claim a batch, renew, check for cancellation, succeed, fail or defer,
acknowledge a cancellation, cancel by request, cancel an account's jobs, erase an
account, expire, purge, revive. Callers hold no lock between statements; each
operation is a conditional `UPDATE`. Hard: a process that dies or pauses with a
lease, requests between two statements of one operation, `SELECT` then write by
id in maintenance, answers of the database that never arrive. Correct when: an
outcome is written only by the lease's holder, an accepted cancellation is final,
the number of handler starts is bounded, the payload lives exactly as long as the
job may run, every accepted job reaches a final state, a failed job stays until
its domain record has been closed.

**Durable worker runtime** (`workers/runtime.py`). State: the main loop of each
process, one `_process` call per job of the claimed batch, its snapshot,
`lease_lost`, the renewal thread. Each turn of the loop reconciles domain
records, then claims, then processes a batch. Hard: a batch of threads of which
one fails, failures after a commit, a renewal without an answer.

**Queue clients**: the generation worker (`generation.py`: closes streams of jobs
that ended badly), account lifecycle (`lifecycle.py`: its rows are revivable and
are skipped by account cancellation), feature workers (media, files, research,
rendering, ingestion, memory, tools), the maintenance worker
(`maintenance.py`). Interaction: the queue's table, and reconcilers that read
terminal rows.

**Audit events** (`workers/events.py`, `audit_event_outbox` and its guards in
`workers/models.py`). State: staged events, erasure guards per subject, the audit
database. Staging shares the business transaction; delivery writes a second
database and commits twice. Correct when: an event is delivered at least once
and deduplicated, and no event with personal data survives the erasure of its
subject, wherever that falls between stage, delivery and acknowledgement.

**Transactional email** (`email/models.py`, `worker.py`, `validation.py`).
State: `email_outbox` rows - status, attempts, lease, recipient and encrypted
payload, expiry. Operations: enqueue under an idempotency key, claim, lock for
delivery, validate, talk to SMTP, record, cancel, erase, expire, purge. Hard: the
provider's answer is outside any transaction; the row lock is held while SMTP is
spoken; the rows of a batch are read again after each commit. Correct when: one
conversation at a time per message, bounded deliveries, nothing sent once the
message is closed, recipient and payload gone after every outcome.

**Chat streaming** (`chats/streaming.py`). State: per generation a bounded deque
of numbered lines, status, subscriber count and the events of async subscribers;
the chat's active generation; a heap of cleanup deadlines with one reaper thread.
Producers are threads, followers are threads and tasks on event loops, all under
one lock. With Redis configured the hub uses Redis streams and falls back to the
in-memory hub for each failing call; beside it, cancel registries. Correct
when: a follower gets a contiguous run of lines or is told of the gap, no wakeup
is lost, a stream outlives its followers and no longer, a chat names its stream.

**Automations** (`automations/worker.py`, `queue.py`, `jobs.py`, `models.py`).
State: an automation's next slot and claim, a Redis lock with an expiry, one RQ
job per slot. Schedulers claim due automations in the database, commit, enqueue
in Redis, commit; workers run the job and move the automation on. Correct when:
each due slot is executed once although schedulers overlap, die, and Redis
forgets, and none is passed over.

**Backups** (`backups/*`, `middleware/write_freeze.py`). State: the freeze, one
Redis key without an owner; two Redis locks; the phases of a job; the data.
Correct when: an archive's rows and files belong together, and a restore that is
recorded as safe has left whole data.

**Sessions** (`auth/token.py`, `auth/models.py`, `auth/session_store.py`,
`auth/account_slots.py`). State: session rows with the digests of consumed refresh
tokens, a Redis cache of access tokens and an index per user; in the browser a jar
with one refresh cookie per account slot, an access cookie and the active slot.
Correct when: a rotated or revoked token is refused, and an honest browser
with several tabs loses no session.

**Web client** (`frontend/js/common/auth.js`, `frontend/js/chat/*`). State of a
page: the session bootstrap and the refresh under a Web Lock; the queue of typed
messages, the dispatch under way, readers of responses and generations, the
transport of the current chat; in a split screen two panels with their own
streams and the turns that fan out to them. One thread, but every `await` lets
other handlers run. Correct when: no message is sent twice, lost, or sent to
another chat; turns of a chat do not overlap; a stopped or failed queue waits for
the user; every dispatch ends.

**Launcher** (`electron/server-manager.js`, `scheduled-updates.js`) and **command
line program** (`cmd/omlorix-server-cli`). State: `.env`, the containers, the
schema, the data, the lock file of an installation, the file with the schedule
of updates and its copy in memory. Correct when: operations exclude each
other although their processes die; no service runs on a schema newer than its
release, whatever step of an update fails; a lost Launcher's lock is replaced;
a window is attempted at most once and the next one has its timer.

**Not concurrent or not core**: the CRUD routers (one transaction each over a
relational store), model provider adapters, realtime relays, administrator
metrics, user interfaces. `PROJECT.json` lists every component with what is and
is not modelled, and every hazard with its line and the properties aimed at it.

## 2. How the runs are put together

Each component has a module of its own, with its constants, `Init`, one action per
step, `Next`, `Spec`, its fairness and its properties. The worker queue has an MC module of
its own. The other components are checked together, by where they run: `MCChat` (the
stream hubs in memory and in Redis, the provider streams), `MCHost` (the host of a
server), `MCBackground` (scheduled and background work of the backend, its mails, and
how its streams end), `MCBrowser` (the sessions of the web client and the cache behind
them), `MCQueue` (the message queues of the web client). The runs of `EmailOutboxStale`
and `BackupFreezeRollback`, which refute a statement about one module, have an MC module
with that module alone.

These share no state in the code beyond what each module models, so a run does
not interleave them. A variable `part` is chosen in the initial state and never
changes: the part it names takes steps and the others rest in an initial state.
One module may be instantiated several times over the same variables; each
instance is a configuration (`part` tells which one runs), so that one run sees
two tabs without Web Locks as well as three generations with them. The two message
queues have their configuration in the state instead: a variable `plan`, chosen in the
initial state from the constant `Plans` and never changed, says what may happen in a
behaviour, so that a property names the plans it is meant for and the theorems about it
keep every other constant as a parameter (`MCQueue`). A property is guarded by
`part` or by the plan only where it is meant for one configuration. Fairness of a part
that rests is guarded by `part` too, unless nothing fair is enabled in it (no mail was
posted, no message typed): without the guard, a weakly fair action that is enabled in a
resting part and never taken would make every behaviour unfair and every liveness
property true.

Every cfg has `CHECK_DEADLOCK FALSE`: when all jobs are final, all messages typed
and all bounds reached, nothing is left to do.

## 3. The durable worker queue

`WorkerRows` defines a row and the value each `UPDATE` writes (`LeasedTo`,
`Deferred`, `Finished`, `CancelledInQueue`, `CancelFlagged`, `ErasedActive`, ...)
and the conditions of its `WHERE` (`Claimable`, `HeldBy`, `Lapsed`).
`WorkerQueue` has the processes.

| actions | code |
| --- | --- |
| `EnqueueWorkerJob` | `enqueue_worker_job` |
| `Reconcile` | the reconcilers called at the top of `run_forever` |
| `SweepCancelled`, `SweepExhausted`, `SelectAndLease`, `ReadClaimed`, `ReadFails` | the statements of `claim_worker_jobs` |
| `UnsupportedKind`, `StartHandler`, `HandlerReturns`, `HandlerRaises`, `HandlerSeesCancellation` | `_process` up to the outcome |
| `PublishSuccess`, `MarkCancelled`, `FinishFailure` | the terminal statements, only for the lease's holder |
| `DatabaseError`, `BatchEnds`, `Crash` | the exception paths, the pool, the process |
| `RenewLease`, `RenewGivesUp`, `LeaseLapses` | the renewal thread and time |
| `RequestCancellation`, `CancelUserJobs`, `FlagProcessing`, `EraseActive`, `EraseRemaining` | the two statements of a cancellation and of an erasure |
| `ExpireSelect`, `ExpireUpdate`, `PurgeSelect`, `PurgeDelete`, `Revive` | maintenance and lifecycle |

*Atomicity.* One action is one SQL statement at READ COMMITTED. A write that has
not committed holds its row lock, so nobody can act on the row in between, and
the write can be placed at its commit; a transaction of several statements on
different rows shows each when it takes effect. A function with two statements is
two actions, and anything may happen in between.

*Time* is the environment: leases lapse, delays and deadlines pass at any moment,
also under a process that is alive but paused.

*Abstractions.* Rows of other queues do not interfere. Payload and result are
present or absent. A handler does anything and returns or raises. The renewal
thread that outlives `_process` by its join timeout can only renew a row it holds,
which is merged with the renewals before.

### Runs

- `WorkerQueueSafe` has two parts (`part` of `MCWorkerQueue`). In `one`, two processes
  work on one job with two attempts and a domain record, under cancellation and
  erasure, crashes, database errors and failed renewals. One job is enough for the
  properties of one row (nothing in a statement relates two rows), two attempts give
  a takeover while the older process is still running, the third claim is the
  exhausted one. In `pair`, a batch of two jobs, one of them revivable, with crashes: a
  batch of two threads is left half done and a row lives twice. Checked are the
  lifetime of the payload, that an accepted cancellation holds, that only the lease's
  holder writes an outcome, the budget of handler starts, the finality of success, and
  `KeepsLedger`: each row that cannot be revived implements `JobLedger`, in which a job
  is offered, taken, or closed with one outcome: taken at most `max_attempts` times,
  never restarted or reopened once closed, never successful once a cancellation was
  accepted, gone when purged.
- `WorkerQueueLive`: `AcceptedWorkEnds` - every accepted job reaches a final state
  (`JobsSettle`), and the domain record of a job that ended badly is closed
  (`DependentsClose`) - with expiry. Fairness: each statement of the loop is weakly
  fair for a process that is up, which the loop's unconditional turns justify;
  `Reconcile` is strongly fair because each turn of the loop offers it again while
  a claim makes it unavailable; handlers end; started requests and maintenance
  passes end; an abandoned lease lapses. Crashes are bounded by attempts and one
  process stays up. Nothing is assumed of leases that are being renewed. One job is
  offered here; the batch of two whose process dies with both leases is in
  `WorkerQueueSafe`.

### What the model shows beside its properties

- A cancellation that lands between the two sweeps of a claim, on a row whose last
  lease has lapsed, is recorded as `failed`/`lease_expired` although it was
  accepted. `CancellationHolds` therefore promises "never queued, never
  successful", not "recorded as cancelled".
- `expire_worker_jobs` selects ids and updates by id: a job that succeeds between
  the two is overwritten as cancelled and loses its result (`OnlyUnfinishedExpire`
  with `Expiring` not empty; `models.py:1269`, against the administrator's
  `4_operations.md:105`). `purge_terminal_worker_jobs` selects ids and deletes by
  id: a failed row revived in between is deleted while it is pending
  (`PurgeRemovesTerminal`; `models.py:1348` against the comment at `:1396`). The
  safety runs therefore have no expiry.
- `expire_worker_jobs` also cancels rows a process is running; the process then
  finds that it lost the lease.
- A row enqueued between the two statements of an erasure stays pending without
  a payload and is claimed without it. Hence the exception for erased rows in
  `PayloadLifetime` and `HandlerHasPayload`; the history variable is not cleared
  by `Revive`, since the payload is not restored.
- Two handlers of one job overlap when a process is paused longer than its lease.
  The code relies on idempotent handlers; only the outcome is exclusive.

### Proofs

Assumptions: `JobsAssumption` (types of the constants) and nothing else, except
where a theorem names one.

- `WorkerQueueProofs`: `TypeCorrect`; `PayloadCorrect` and
  `CancelledRowsStayUnclaimed` by a lemma that lists how one row may move in a
  step (`RowMoves`, `AnyMove`) and what each move does to its columns
  (`ProcessEffect`, `ClaimEffect`, `RequestEffect`, `MaintenanceEffect`), so that
  an invariant of a row is a check of each move instead of each action.
- `WorkerQueueProofs`, second part: the same for a `_process` call (`ThreadMoves`).
  `LeaseHolderCurrent` needs that the snapshot of a thread whose name is on the
  lease was taken in the present attempt (`SnapshotInv`), which needs that an idle
  process has no threads and no picked ids (`LoopInv`). `BudgetKept` is not
  inductive by itself: a lapsed process may start its handler late, so
  `BudgetInv` counts the starts together with the calls still before their start.
- `WorkerQueueProofs`, third part: `LeaseHolderActs`, `CancellationFinal` (with `AckInv`:
  an acknowledged row is flagged or closed), `PurgedAfterClosing` (with
  `ClosedInv`), and `SuccessFinal`, for `Expiring = {}`, since
  the expiry race is real.
- `QueueKeepsLedger` (same part): the refinement of `JobLedger`, for
  `Expiring = {}`, for the rows that cannot be revived: initial states map to initial states, and
  each step to a step or a stutter, using the invariants above (`LedgerInv`).

## 4. The email outbox

`EmailOutbox` models `claim_email_batch`, `_process_batch`, the validation, the
row lock (`SELECT ... FOR UPDATE` held while SMTP is spoken), outcomes, requests
and maintenance; `MailLedger` is the life of a message without processes: posted,
delivered at most `max_attempts` times, then closed and never sent again.
A row is locked exactly while a process converses about it, and every other
statement on it waits (`LockHeld`, `Writable` in the guards).

- `BackgroundSafe` (the part `mail` of `MCBackground`): two processes, a batch of two messages - a one-time code with
  two attempts that belongs to an account, and a message with a deadline and one
  attempt - with crashes, database errors and lost provider answers. At most one
  conversation at a time (`OneConversation`), and `MailLedger` is kept (`KeepsLedger`). Two
  messages are needed because an error on one row decides over the other rows of the batch.
- `BackgroundLive` (in `BackgroundSettles`): every message is settled in the end
  (`MailSettles`). One message of an account with a deadline and two attempts, two processes, the same
  faults; a batch of two is left to the safety run. Fairness: a sender that is up keeps running
  (`SenderStep` is one weakly fair action, as the loop has one next statement), a
  conversation times out, delays run out, abandoned leases lapse, expiry passes
  end. One sender stays up and SMTP is configured.
- `EmailOutboxStale` (violation): a reset link or code superseded after
  `validate_outbox_row` and before SMTP is sent, against the administrator's
  documentation and the comment at `email/models.py:570`: issuing a newer
  credential does not touch the locked row.

Proved in `BackgroundProofs`, under the assumptions on the constants: types
(`MailTypeCorrect`), one conversation (`ConversationsHeld`: `TurnInv`, a sender's
turn is a row of its batch, and `LockInv`, a locked row is leased to its
locker), redaction (`MailRedacted`), the refinement (`OutboxKeepsLedger`, with
`ExpiryInv` for rows between the two statements of expiry, and `BudgetInv` and
`Unsent` for deliveries against attempts). A run of `MCBackground` is one of the outbox,
which runs or rests (`MailRuns`): `MailsTalkOnce` and `MailsKeepLedger` state the two
properties of `BackgroundSafe`.

Noted while modelling: expiry waits for the row lock and then records a message
that was just sent as `cancelled` (the recorded status only; it is not sent again).
Reading a row that was erased after the last commit raises in the loop and
abandons the rest of the batch until their leases lapse. Assumed: the
connection to the database outlives the conversation (a lost one would release
the row lock), and one maintenance pass runs at a time. Idempotency keys,
limits and the reconciliation after a restore are not modelled; cancelling
security events is merged with cancelling an account's email.

## 5. The stream hub

`StreamHub` models `_InMemoryStreamHub`. Each section under the lock is one action
and, between two of them, a thread may be preempted: `Look` is the section of the
follower's loop (gap, next line, wait or end), `Leave` the `finally` clause,
`PublishLine`, `MarkDone`, `Start` the producer's, `Reap` one turn of the
reaper. A waiting thread is woken by `notify_all`; a waiting task by a callback
posted to its loop (`posted`), which runs later (`RunPosted`) and sets its event.
Clearing the event is part of `Look`, because the code clears it under the lock.
A loop may be closed (`LoopCloses`); its subscribers are counted out by the next
notification.

Abstractions: a line is its sequence number; trimming by bytes leaves any
newest part of the buffer (at least one line: a line larger than the limit is
refused); the order of the heap is left out (an entry is taken when its own
deadline has passed); an entry names the life of its stream instead of the deadline's
value; metadata is left out.

- `ChatAll`, part `memory`, has two families of behaviours (`OneStream`, `TwoStreams` of
  `MCChat`): a thread and a task follow one generation of three lines through
  a buffer of two, started twice; or two generations of two chats, followed by
  a task. Contiguous lines (`ContiguousLines`), complete ends (`EndsComplete`), no
  stream removed under a follower (`FollowedStreamStays`), no lost wakeup
  (`WokenForNews`), chats that name a stream of theirs (`ChatNamesItsStream`).
  Three lines through two places make a gap; two lives make stale heap entries; two
  followers make a last one.
- `BrowserLive` (in `PagesEnd`): a follower of a finished stream gets to its end, and
  a finished stream nobody follows is given back. Fairness: threads,
  loops and reaper run, consumers ask for the next line, deadlines pass. No
  heartbeat is assumed, so a lost wakeup would be found. Loops are not closed in
  this run: one closed after the last notification is never counted out, and its
  stream stays in memory for good; the code can only learn of it by notifying.

Proved in `ChatProofs` for any numbers of generations, subscribers, lines and
lives: all the safety properties above. `HubInv` = types, `BufferInv` (the
buffer is the newest numbers without a hole), `RegisteredInv` (a follower inside
its loop follows a present stream, and a task is listed there), `HubCount` (the
count is the cardinality of the attached followers, which is why no stream is
removed under one: the argument needs finite sets of subscribers). `ReadInv`
relates cursor and lines for `LinesContiguous` and `EndedWasComplete`; `ListInv`
relates `cleanup_scheduled` to the heap for `FinishedIsListed`; `ChatMove` and
`PointerMoves` list how a stream's chat and a chat's stream may change for
`ChatPointersExact`.

A late `start` with a chat, on a reserved stream that has already finished, points
the chat at a finished stream until it is removed; `get_status` then reports it as
not active. `ChatNamesItsStream` therefore promises presence and ownership only.

### The stream hub in Redis

`RedisStream` models `StreamHub`, whose calls go to Redis and, call by call, to the hub of
the own process when they fail. `AppendLine` and `Terminal` are the two scripts,
each one step; `Publish`, `Start` and `MarkDone` are the methods, in each of which a
failing call may or may not have been carried out. A task reads the status once
(`ReadStatus`), then events and the terminal entry (`ReadBatch`), and asks for the
status again when nothing came (`ReadNothing`, `Recheck`); a thread reads the status
before each read and never looks at the terminal entry. `Unread` is the answer of
XREAD, any first part of it one batch. The subscribers are served by the process
that runs the generation or by another one (`web`).

Abstractions: trimming by bytes leaves any newest part, as above; the own hub's
lines are not trimmed (that is `StreamHub`); a batch is handed over in one step; keys
do not expire; the map from chats to streams is left out. `MCChat` gives the stream
one follower of either kind: a follower writes nothing another one reads.

- `ChatAll`, part `redis`, `RedisLinesHold`: with two failing calls anywhere, a client
  is handed the lines after its number one by one, without hole or repetition
  (`HandedInOrder`), and is told of a gap only when there is one (`NoFalseGap`). Without
  failures, a thread that ends and a task that saw the end were handed everything
  (`EndsComplete`). Four lines through two places make a gap twice; one failure
  splits a start, a second one a publish.
- `BackgroundLive`, part `redis`, `StreamsLeave` (with `FollowersFinish`): once the end is
  recorded, a task that follows Redis ends. Fairness: calls return; no wait of a task
  runs out by itself before the end is known. Threads, which ask for the status in
  every turn, are left to the safety run.
- `ChatStreamPolled` (violation): a task whose wait ran out asks for the status
  (`streaming.py:1349`); when the last line and the end come in between, it returns
  without a further read. The thread's order (status, then read) and the terminal
  entry both avoid it.

What a failure in the middle of a stream costs is not stated as a property, because the
code promises nothing: the line goes to the own hub, which mostly does not know the
stream, and is lost without a gap; a read that fails once the end is known ends a
task (`streaming.py:1345`); a follower sent to its own hub by a failed call does not
return to Redis.

### Provider streams and their cancellation

`ProviderStream` models `CancelRegistry` with its handles and monitor and
`interruptible_provider_stream`. `SetFlag`, `SetEvent`, `Close`, `SetRedis` are the steps of
`cancel`, between which any thread may run; the monitor takes the same ones after
`MonitorLooks` and `MonitorReads`; `Clear` is `clear`. `ProviderSends`, `ReadIsCut`, `Offer` are
the thread that owns the blocking read, `Begin` to `Leave` the generation: registration
of the handle, the looks at the event before and after the queue, the adapter's look
at the flags before each item (`Interpret`), the `finally` clause. Closing a connection
ends its read with an exception or as if the answer were complete (`"cut"`).

Three deployments: the request is served by the process of the generation
(`inline`), by another one (`remote`: Redis and the monitor), or by another one while
a durable worker runs the generation (`external`), whose handler, at a line and after
`cancel_requested` was written, cancels and clears as well without waiting for the
generation's thread; the generation is closed at a later line (`"dropped"`).
Redis answers every call here; ids are used once; nested streams (subagents with
generations of their own), tools between streams and the handler's checks before the
generation begins are left out. A cancellation after a generation ended sets flags
that nobody clears in the process it ran in; Redis forgets its own after a while.

- `ChatAll`, part `provider`, `CancelHolds`: a cancellation is never taken for a failure
  or for the end of an answer, and nothing is interpreted after it returned
  (`NothingAfterCancel`); with a worker, until its handler has cleared the flags. Two
  streams are needed because leaving one forgets the event (the flag, set first,
  stops the next); two items fill the queue.
- `BackgroundLive`, part `provider`, `StreamsLeave`: the generation ends though the
  provider stalls (`CancelEnds`) and leaves no thread (`ProducersLeave`). One stream of one
  item, beside the end of the stream in a queue of one place. Fairness: threads run, a
  closed connection ends its read; nothing of the provider.

A statement that does not hold: once a worker's handler has cleared the flags, the
thread it left behind interprets the wake-up value, or takes the cut connection for
a failure, and the partial answer is not saved (`WakeupIsSafe` with
`Modes = {"external"}`; `workers/generation.py:219`).

### Proofs of chat streaming

`ChatProofs` extends `MCChat`, whose limits are parameters (`MaxPublished`, `MaxFails`,
`MaxStreams`, `MaxItems`, `QueueMax`; any `Subscribers`, of which `Async` are tasks),
under `ChatAssumption`. One part runs and the others rest, so `ChatInv` is `RedisInv` and
`ProviderInv`, each shown for the `Next` of its module (`OneFollower` is not used: the
statements hold with any number of followers at once). `ChatInvariance` is the
invariant, `LinesHold` states `RedisLinesHold` and `CancellationHolds` states `CancelHolds`.
`ChatRunsTheHub` says that the composition runs `StreamHub`, so that the theorems about
`StreamHub` hold of it.

- *What is read from Redis.* That lines come without a hole is a property of three
  sequences: what was published, what is retained, what was handed over. `StreamInv`
  says that the retained events are the newest ones, numbered without a hole, and in the
  order of publication, although a reserved number may be spent on a line that went
  elsewhere; `HandedOne` that a follower's lines are numbered right after what it asked
  for, that its cursor stands at the last one, and that everything still to be read was
  published later. The key lemma is `TakenIn` (with `LaterIs` and `BatchIs`): what a
  read hands over, if it reports no gap, begins right after the cursor, wherever the
  stream was trimmed and whichever first part of the answer came. A follower that
  was sent to its own hub when it subscribed is handed that hub's lines, numbered by their
  places: they are in order too (`LocalInv`), and its cursor stands at the last one.
- *How it ends.* `EndOne`: a gap was reported only before an event whose number is not the
  next, a status read as done is done, and, without failed calls, a follower that ended
  has the last number (`NothingLeft`). The task that polls is excepted (`polled`): it is
  the case of `ChatStreamPolled`.
- *Cancellation.* While the generation runs and no worker's handler clears, the flags
  account for everything the cancellation leaves behind: the event, the wake-up value in
  the generation's hands (`FlagInv`), a closed resource of the stream being read
  (`CloseInv`), a cut read (`CutInv`). Therefore what was taken for the end or for a
  failure can only come of clearing (`MisledInv`). `CallerKeeps` and `ProducerKeeps` show once
  for all steps of a caller and of a producer thread what they cannot disturb.
- *Nothing after a cancellation* needs `DoneInv` - a cancellation that returned stands in
  Redis - because the adapter's look at the flags reads it there (`Quiet`). `CountInv`
  (no more is interpreted than was read, stream by stream) gives the types of the
  counters.

## 6. The host of a server

### The operation lock

`OperationLock` models the file `.omlorix-server.lock`: exclusive creation
(`Open`, `Reopen`, both by `Create`), judging the age of a file that is there
(`Stat`), removal of an old one (`Remove`), the release that removes whatever file
is at the path, processes killed with the lock (`Crash`), and six hours that pass
(`Age`), also for the file of an operation that lives. `acquireSharedOperationLock`
of the Launcher runs without an `await`, so that its calls share one thread
(`HasThread`) and one `activeOperation` (`Mark`); `acquireOperationLock` of the command
line program is a process of its own at each system call.

`OverlapNeedsMishap`: two hold the lock at once only after an operation outlived the
six hours or a taker removed a fresh file. `LocksEnd`: an orphaned lock does not
stay for ever. Fairness: files grow old, and the auto-update daemon asks again in
each of its windows - each of its steps is strongly fair, because a daemon that
is killed now and then is not killed at the same place for ever.

`HostProofs` proves types and `OverlapNeedsMishap` for every set of processes and calls. The property is not inductive; `OwnsFile` is: as long as nothing went
wrong, whoever holds the lock created the file that is there, and it is fresh.
So no other taker finds the path free, and none may remove the file.

Two statements of the code and its documents do not hold, as their properties in
the module show: a takeover removes a fresh file when another process replaced the
old one between `Stat` and `Remove` (`OnlyOldLocksTaken`; `server-manager.js:2360`,
`operations.go:358`), and an operation that takes more than six hours is joined
by a second one (`NoOverlap`; `server-manager.js:2359`, `operations.go:357`).

### The operations of the Launcher

`ServerOps` follows one installation through `start`, `restart`, `stop`, `update`,
`restore`, the choice of a release and the visitor address repair. The state is what
an operation leaves behind: the selected release and channel (`.env`,
`server-settings.json`), the release each service runs, the newest release whose
migrations may have begun, whether the data are whole, a restore container that
may outlive its Launcher. An operation is a record (`op`) with the flags of the JavaScript
function: which step it is at, whether it reset, drained, stopped, replaced. Each
Docker command is one step with a result; a failing command may have done half its
work (`Halt`, `Migrate` and `BringUp` leave any part of the services changed), and
the Launcher may die between any two steps (`Crash`), which loses `op`.

| definitions | code (`server-manager.js`) |
| --- | --- |
| `Launch`, `Stop`, `SelectVersion` | `start`, `restart`, `stop`, `saveSettingsUnlocked` |
| `Update` and its steps from `UpdateBackup` to `Ready` | `update` |
| `UpdateFailed`, `Offline` / `RolledBack`, `DrainBack`, `PullBack`, `UpBack` | its two ways back: stay offline once the schema may have changed, or return to the old release |
| `Restore`, `Fence`, `Replace`, `RestoreFailed`, `MayRestart`, `UpAgain` | `restore`, `stopRemainingRestoreApplicationContainers` and its recovery |
| `Repair` | `convergeVisitorIps` |

`NoOldImageOnNewSchema`: no service runs a release older than the schema, and
what the last operation reported of the server is so (`ReportIsTrue`).
`StepsInOrder`: migrations wait until everything is down (`MigratesDrained`), and
services start only on data that are whole if the restore began on whole data
(`StartsWholeData`). `LocksEnd`: the lock is released, whatever fails (fairness: the
steps of the operation under way, a lock that ages, a container that ends).

Two services stand for all of them: the one `update` needs and another one, so
that "some are up" exists. Releases are never chosen older than the selected one,
an archive's schema is that of the selected release, a restore is over before
its lock ages, and failing writes of `.env` and of the settings are left out. So are the
reset of the `migrate` container and the call of the address repair at the end of `start`
and `restart` (`:6300`, `:6401`; `Launch` ends when the services run), and, of the repair, its
second pass, the wait for readiness and the recovering `up` after an error (`:6542`,
`:6561`-`:6571`; `Repair` is its first `up`).
The repair (`part = "repair"`) is not held to `NoOldImageOnNewSchema` and
`MigratesDrained`: after a selected release was changed it brings up `fastapi` with
its `migrate` dependency beside running workers (`DrainedBeforeMigration` with
`WithRepair = TRUE`; `server-manager.js:6538`, against the comment at `:6848`). Other statements
that do not hold: a rollback whose last `up` fails after it has started a service
reports that the server was left offline (`LeftOfflineIsOffline`; `:6943`, `:6945`), and a
restore that fails before its Docker command was started brings the services up
again on the data that an earlier restore left half replaced
(`RestartsOnWholeData`; `:7474`, `:7480`) - hence "if the restore began on whole data".

### Automatic updates

`AutoUpdate` models `ScheduledUpdateManager` with its two flows - the timer or the start
(`Wake`, `Boot`) and the settings page (`Ask`: edit or run now) - that interleave at each `await`:
`TakeLock`, `LoadEdit` / `LoadRun` (reload under the lock), `Run`, and the awaits of `scheduleNext`
one by one: the timer is cleared and the next run planned (`Plans`), the release server is
asked about a block (`Refresh`), the file is saved as it was serialised (`Serialise`, `Write`,
`Rename`: both flows write one temporary file, and the second rename finds none), and the timer is armed
by the memory of that moment (`Arm`). The copy in memory (`mem`) is shared, and saved by some
ways out and not by others; that is the hazard. The daemon and the commands of the command
line program work on the same file (`Daemon...`, `Command...`). One window a day; time `2w - 1` is
window `w`.

`ScheduleIsKept` = `EditsSurvive` (an accepted edit is what the file says when nothing
is under way), `OncePerWindow` (a window is attempted at most once, also when the
Launcher dies in it or the update fails) and `TimerIsArmed` (a Launcher that believes
updates are on and not blocked has a timer). Three windows, two edits or manual runs, one death of
the Launcher: an edit or a run may meet the timer's flow at each of its awaits, before and after
a restart.

It is said of the time until the page loads, runs or schedules while the timer's
flow is scheduling *without* the lock (`crossed`): at the start (`scheduled-updates.js:212`), after a lock
that was held (`recordFailure`, `:399`), and in a wake whose window was attempted (`:332`). None of the
three holds beyond it. While the timer's flow awaits the release server (`:289`) an edit may
set the state to `scheduled`; the other flow then empties `nextRunAt` (`:293`), and the next wake's
`armTimer` returns (`:326`, `:312`): no timer, although updates are on. Likewise what was
serialised before an edit may be renamed into place after it (`:232`, `:236`), which loses the edit, and with
the status a window's key goes back, so that it is attempted again. Under the lock the same awaits
lose nothing. `CrossedEnds` of `MCHost` is a bound: after such a meeting what is under way ends,
time and the user stand still.

The saves of `setRunningStatus` and `recordLauncherBlocked` are one step: both are under the
lock with the timer cleared, so that the other flow can join them only in the meeting that is
excepted. One timer flow runs at a time; writes that fail for another reason than the missing
temporary file, or that a death leaves half done, are left out.

The run has neither daemon nor commands, because with them the code loses edits and
windows: `recordFailure` saves the copy in memory without having taken the lock
and overwrites the edit of a command (`EditsSurvive` with `WithCommands`;
`:391`, against the comment at `:253`); the daemon reads
the status before it takes the lock and attempts a window of the Launcher's again (`OncePerWindow`
with `WithDaemon`; `:331`, `scheduled_updates.go:347`).

`HostAll` runs these three (and the repair) as its parts.

### Proofs of the host

`HostProofs` extends `MCHost`, whose constants are parameters, and proves the safety
properties of `HostAll` for every set of processes, services and channels, every
latest release and every bound on operations, windows, edits and deaths: `HostTypes`,
`NoOldImage`, `InOrder`, `ScheduleKept` and `OverlapNeeds`. One part steps and the others rest
(`PartsStep`), so `HostInv` is the conjunction of an invariant per part. None of
the properties is inductive; they need

- *operations without the repair*: `SchemaInv` (the selected release is at least the schema's,
  and an update that has not begun to migrate can go back, because its old release
  is at least the schema's too) and `PhaseInv` (at each step at which the schema
  may change every service is down; where success may be reported all run; `op.migrated`
  says on which side of the migration an update is). Without the second, the choice of the
  way back after a failure could not be shown right. The argument goes step by
  step in `OrderStep`; the steps of the ways back are `WayBack`.
- *restores*: `RestoreInv` relates what the function remembers (`commanded`, `replaced`,
  `safe`, `stopped`, `stopTried`) to the data: unless the container was started and ended
  without a word, data that were whole are whole. It is what makes `MayRestart`
  sufficient; it holds with the repair, so `StartsWholeData` does too.
- *updates*: `ScheduleInv` is `FlowInv`, whatever happens (who loads, runs or schedules under the
  lock holds it; a wake is never an edit), and `KeptInv` until flows have met (`~crossed`). Then only
  one flow is at work (`Working`, `Alone`), which is what the lock gives as long as the other
  schedules under it. `EditInv`: file and memory agree with the last
  accepted edit, or the page has not answered yet, and what is about to be written is what
  the memory says.
  `AttemptInv`: the window of the timer and of a wake under way is later than every window attempted
  (`Ahead`), and so is the plan of a flow on its way to `Arm` (`PlanInv`). `TimerInv`: no such flow and no
  timer means off or blocked. That wakes may load again what a run has
  saved is why file *and* memory are in `EditInv`. The awaits are gone through once
  in `FlowStep` and `FlowMoves`, which say where a flow may go, and the four invariants are
  shown step by step from there (`EditStep`, `AttemptStep`, `PlanStep`, `TimerStep`).

Here `WithDaemon` and `WithCommands` are `FALSE`, as in the run; with them `EditInv` and
`AttemptInv` fail as described above.

## 7. Background work of the backend

### Automations

`AutomationScheduler` follows one automation of a batch and its slots 1, 2, 3. A
scheduler's pass (`Pass`): take the Redis lock, claim in the database, look for an RQ job
of that slot, delete an ended one, enqueue, or release the claim when Redis
fails. The lock expires whenever it likes, so two passes overlap. A worker (`Work`):
pop an id, mark the job started, execute, and - if the automation still stands at
that slot - move it on. Users reschedule (`Edit`), schedulers and workers are killed
and Redis loses its queue (`Crash`), claims time out (`ClaimAges`), ended jobs are
forgotten and abandoned ones cleaned up.

Statements are steps of their own: the UPDATE of a claim and the SELECT after it (`Claim`,
`Read`), the SELECT of a finished execution (`Look`) and its UPDATE by id (`Record`), the read of
a user's request (`Edit`) and its commit (`Save`). The last two are writes of an ORM: they set the columns
that the session has changed, whatever others have saved since it read them (`Saved`). An
edit plans from the current minute on, with that minute included.

- `BackgroundSafe`, `EachSlotOnce`, part `prompt` (`RunsOnce`): three slots, two schedulers and workers, one edit and
  one failure, at any two steps of the others. No claim outlives its timeout while it is in use, and nothing crashes:
  with `ClaimsAge` a second scheduler claims the slot while its job is at work, finds the
  job ended, deletes it and enqueues the slot again (`automations/queue.py:152`,
  against `features.md:85`).
- The same in part `late` (`NoSlotSkipped`): the automation leaves a due slot only after its
  execution, also with late claims, reloaded automations, and one crash or failure.
- `BackgroundLive`, `BackgroundSettles` (`DueSlotRuns`): after one crash of anything a due slot is executed
  or rescheduled. Fairness: steps of a pass and of a worker go on, some
  scheduler gets the lock, the lock and claims expire, abandoned jobs are cleaned up.

What an edit may do against the schedule is the code's, and excepted by name:

- A slot that is under way or was executed in the current minute is planned once more when its
  automation is saved in that minute (`automations/models.py:377`, `schedule.py:57`, `:127`), and runs
  twice. `RunsOnce` speaks of the slots that were not (`again` records those planned although taken).
- The end of an execution reads the row without a lock and writes it by id
  (`models.py:746`-`:774`), and so does an edit (`:326`, `:381`). An edit between the two is
  overwritten: the automation moves on from the slot its user just chose, due or not, or
  one just paused keeps a next slot. The other way round, an edit that read the row before the
  execution was recorded plans an executed slot again. `NoSlotSkipped` excepts
  the writes of a worker whose row is outdated (`Outdated`); a slot planned again so is in `again`.

A statement that does not hold: a slot of the future may be enqueued (`QueuedIsDue`), when the enqueue
of another automation of the batch fails and the commit that releases it expires the
session's objects, so that the automation is reloaded with the slot it has by then (with `OthersFail`;
`automations/worker.py:132`, `:115`), or when an edit falls between the claim's UPDATE
and its SELECT (`models.py:673`, `:675`; the commit of an edit that planned the same slot leaves the claim).

A claim that outlives its timeout between the two statements of `claim_due_automations` counts
as one of the mishaps (`ClaimAges`). Execution inside the scheduler while Redis is away
(`queue.py:130`-`:140`) is left out.

### Backups and restores

`BackupFreeze` models `_run_backup_job_with_session` and `_run_restore_job_with_session`
phase by phase (`TakeBackup`, `Freeze`, `Dump`, `Tar`, `Thaw`, `Publish`; `TakeRestore`, the safety
backup, `Close`, `RestoreDb`, `RestoreFiles`, `Migrate`, `Open`), the failure of any phase with
the rollback to the safety backup (`BackupFails`, `RestoreFails`), killed jobs, the freeze key
that anyone's end deletes, the locks and the freeze that expire, and requests that
look at the freeze once and then delete a row and its file.

- `BackupsHold`, part `busy` (`TornNeedsMishap`; a backup and a restore beside two requests): an archive has
  the file of each of its rows unless a request was in flight when the freeze
  began, a restore was at work or had been broken off, or somebody lifted the freeze
  before both were copied. The exceptions are the code's: the middleware does not
  count requests, and the key has no owner.
- `BackupsHold`, part `calm` (`SafeMeansWhole`; two backups and one restore, no requests): when every restore has ended
  with an outcome recorded as safe, rows and files belong together.
- `BackupFreezeRollback` (violation, two restores): the rollback runs after the restore's
  lock was released; another restore runs at the same time and both record a
  safe end (`backups/service.py:3607`).

Requests are admitted while a restore works when a backup that ends deletes
the key (`NothingAdmittedInRestore`; `backups/state.py:47`, against `features.md:232`).

### Audit events

`AuditOutbox` models two events about one account - one whose actor it is, one that mentions it -
through two databases: writers that fence and write inline or stage
(`Fence`, `WriteInline`, `Stage`), event workers (`Lock`, `Deliver`, `EndDeliver`: the record commits in
the second database before the outbox row), the erasure with its guard, its two
commits and its locks (`Guard`, `Check`, `LockFence`, `Redact`, `Delete`), deletion and restoration of the
account, and a crash of any of them. Row locks are explicit, since everything
rests on them.

- `BackgroundSafe`, `ErasureHolds`: once an erasure is complete neither database names
  the account until it is restored (`ErasedStaysErased`); the account is not active again
  between the two commits (`NoRestoreBetween`); what counted as delivered before the first
  erasure is there (`DeliveredIsRecorded`).
- `BackgroundLive`, `BackgroundSettles` (`RowsSettle`, `ErasureEnds`): a staged event is delivered or cancelled, and the
  erasure that is owed completes unless the account is restored. Fairness: a begun
  transaction of a writer or worker goes on; locking a waiting row and the steps of
  an eraser are strongly fair, as the database grants contended locks in turn.

Two erasers are needed because the deletion itself and the durable job run the
same code; two deletions give a second erasure over a restored account.

### Proofs of the background work

`BackgroundProofs` extends `MCBackground`, whose constants are parameters, and proves the
safety properties of `BackgroundSafe` for every set of schedulers, workers, backups,
requests, events and erasers, every number of slots and every bound:
`BackgroundTypes`, `SlotsRunOnce`, `BackupsAreWhole`, `ErasureIsHeld`. One part runs, the others rest
(`PartsStep`), so `BackgroundInv` is a conjunction of an invariant per part. The bounds of
`BackgroundNext` (`LateBound`, `BusyBound`) are not used: the steps are shown for the
`Next` of each module.

- *Automations, prompt* (`SlotInv`). That a slot runs once is not inductive, since its
  executions are counted far from where it is claimed. Who is to execute a slot - a scheduler past
  its claim, a place in the RQ queue, a worker - keeps it claimed as long as the automation stands there
  (`HeldAt`); there is only one of them (`AloneAt`); and a slot that has run has at most the
  worker that will record it (`RanAt`) - all of this of the slots outside `again`, whose definition
  is what makes it survive an edit and an outdated write. `AloneAt` is what a second scheduler, come in
  through the expired lock, would break if the claim were not conditional; it needs that a claim
  does not outlive its timeout.
- *Automations, late* (`CountInv`). A worker records a slot only after the count of it went up; that
  is enough, as nobody but that worker and the user moves a due slot the worker has read (`LeavesExecuted`).
  The steps of `prompt` are steps of `late` (`PromptIsLate`), so this and the types are shown once.
- *Backups* (`CopyInv`, `ArchivesAreWhole`). While a copy may be trusted the freeze is on, no request is
  between its look and its end, no restore is at work, and what was copied of the
  rows is what is there. The flag `late` stands for every way to lose one of these, and the steps that
  set it are those the code has, not assumptions.
- *Restores* (`WholeInv`, `BackupsAreWhole`). Until it replaces the database, and again after it
  has replaced the files, rows and files are of one state, and so are the two in
  the archive it goes back to; between the two, the rows are those of the archive
  whose files come next. The theorem has the hypothesis that there is one restore: with two
  the statement is false (`BackupFreezeRollback`).
- *Audit* (`AuditInv`, `AuditTypes`, `ErasureIsHeld`). `ErasedStaysErased` needs that the locks are
  where the processes are (`LocksInv`), hence that nobody sets or lifts a
  fence somebody has read (`FenceRead`), hence that under a fence no row of the
  outbox names the account (`Redacted`) and no writer or worker puts a named record into the
  audit database (`Erased`). `NoRestoreBetween` follows from the guard, which
  a restoration takes too (`ErasureInv`); `DeliveredIsRecorded` from what a worker that has written
  has left behind (`FirstLife`).

## 8. The web client

### Tokens and tabs

`TokenRefresh`: two tabs share one cookie jar with a refresh cookie per slot. The
tokens of a session are its generations 1, 2, ...; a request carries the jar of
the moment it was sent, a reply changes the jar when it arrives, and in between
others do. Page: bootstrap, the Web Lock or its absence, refresh with its race
retry, calls, switching, removal, logout, reload (`PageStep`, `LockStep`, `UserStep`). Server:
`ServerRefresh` with the grace for just consumed tokens and the answer to a replay,
`ServerCall`, `ServerSwitch`, `ServerLogout`, `ServerRemove` with what each does to cookies and rows.
A request of a page that went away lives on as `Orphan`.

- `NoSessionLost`: without Web Locks and with a server that answers within the grace, no
  race of two tabs costs a session; with Web Locks, no refresh carries a consumed
  token. `JarNeverGoesBack`: with late, lost and abandoned replies the jar's token
  of a slot never becomes an earlier one. Each part has a third generation of a
  session, so that there is a second one to go back to.
- `PagesSettle` (`BrowserLive`, in `PagesEnd`): every page that waits ends with a session or signed out.
  Fairness: the server answers, scripts and timers run; a lock that is free again
  and again is granted (strong, because the other tab may hold it in between).

Statements that do not hold: the retry after a race may carry the same consumed
token, when the reply takes longer than the wait (`RetryUsesRotatedToken`; `auth.js:687`,
comment at `:685`); a logout whose tokens another tab has just rotated ends no session
(`LogoutEndsSession`; `auth/router.py:423`, `16_account_switching.md:17`), and one that runs beside
another account's refresh removes that account from the browser
(`LogoutKeepsOthers`; `auth/utils.py:4129`).

Proved (`TokenRefreshProofs`, for any slots, tabs and bounds, under `RefreshAssumption`):

- `JarKept`, that is `JarNeverGoesBack`, whatever times out, is lost or given up. A reply that
  sets a token is the only one of its slot that does, its token is newer than that of the jar
  and of every request, and no browser has a newer one than the session (`FreshInv`): a token
  is issued only to a request that carries the current one, and then no other reply can set one.
  `RefreshTypes` comes with it; it needs that only a refresh with attempts left pauses.
- `LockedRefreshes`, that is `LockedRefreshIsCurrent`, with Web Locks, no lock timeouts and no
  request given up: the page between asking and reading is the lock's holder (`HolderInv`), and
  the jar is behind a session only while the holder's reply is under way (`LockInv`).
- `NoSessionIsLost`, for a prompt server, users who only call and switch, and no request given
  up, without any use of the lock: every request and the jar carry a token that is current or
  in its grace and an active account (`CarriedInv`), so no refresh is refused as reused and no
  reply clears a cookie, and the current token is in the jar or in a reply (`ArrivesInv`).

The last two rest on `PcInv`: what a page waits for is the request it made. `MaxLost = 0`, the
lock's and the server's promptness and the kinds of requests are the conditions under which
the properties are claimed, as in the parts `held` and `race`; with lost replies both fail.

`BrowserProofs` takes these theorems to the parts of `MCBrowser`, whose instances give the
bounds of the run: `BrowserKeepsSessions` proves `NoSessionLost` and `BrowserKeepsJar`
`JarNeverGoesBack`, whatever part runs, the latter without the part `locks`, which has one
slot; `BrowserTypes` proves `TypesOK`.

### The session cache

`SessionCache` models a request's verification (`_get_verified_user`: cache, row, fill, and the
row once more) against revocations and rotations, which write the
table first and Redis in a second step that may fail silently. The index of a
user's tokens is read before it is deleted (`ReadMembers`, `ChangeCache`), so tokens survive in the cache.
`VerdictsHold`: a request that begins after its token's row is gone is refused all
the same (`RevokedStaysOut`), and one whose row is there all the time is not (`LiveIsAccepted`). Two
sessions, three tokens, two requests and two changes: a stale entry needs a
request that read the row before the change and another one that finds it.

Proved (`BrowserProofs`, for any tokens, requests and changes): `CacheTypes` and
`RevokedIsRefused`, that is `VerdictsHold`. The invariant relates each request to the
table alone - which of its tokens' rows were there when it began and have
been since (`Presence`) - and the cache occurs in it only by its type: an entry may be
as stale as it likes, because the last look at the row decides.

### The message queue of a chat

`MessageQueue`: one page, its queue, its readers (one per request), and the generations on the
server. An action is what the page runs between two awaits, and microtasks
come before any other event (`Quiet`). `Submit`, `Resume`, `SendNext`, `Arrange`, `Stop`, `Open`, `NewChat` are
the user; `Loaded` and `Probe` load a chat and attach to its generation; `Answered`, `Refused`, `Cut`, `Named`,
`Done`, `Errored`, `Closed`, `Stale`, `Settle` are the life of a reader; `Handoff`, `Terminal`, `ProcessNext` the queue. History
variables hold what was promised: the chat a message was typed in (`home`), what the
user removed (`thrown`), that a turn was stopped or failed before waiting messages
(`broken`). `plan` says which chat the page shows first and what may happen beside
sending (`Mishaps`: `command` to pause, resume or remove, `stop`, `open` another chat, begin a
`new` one, turns that `fail`, are refused (`refuse`), lose the server's answer (`lost`) or
`drop` in mid-answer). The plans of `QueueSafe` (`ManyPlans` of `MCQueue`; messages,
requests, and mishaps and commands):

| first | what happens | bounds |
| --- | --- | --- |
| a chat | `command`, `fail`, `refuse`, `drop` | 3, 6, 4 |
| a blank page | `command`, `fail`, `refuse` | 3, 6, 4 |
| a chat | `command`, `stop`, `open`, `lost` | 2, 3, 2 |
| a blank page | `command`, `stop`, `open`, `new`, `lost` | 2, 3, 2 |

`TypeOK` and `NothingDropped` are checked in all of them, `NeverTwice`, `StaysInItsChat`,
`NoOverlap` and `BreakHolds` in those that satisfy the hypothesis of the theorem below.
`BrowserLive` (in `DispatchesEnd`) has a new chat whose turns fail, are refused, lost or dropped (3
messages, 6 requests, 2 mishaps): a dispatch ends (`DispatchEnds`), and no message waits for ever
in a queue that is not paused (`QueueMoves`).

Fairness: microtasks, readers, the server, loading and probing; nothing of the user.
Attachments and composer snapshots, temporary chats, regeneration, the reconnect
of a page that becomes visible, and rendering are left out; an error before a
new chat is named counts as a refusal.

Not every property holds in every plan. Found by TLC:

- after a stop whose answer is late, the queue goes on: `BreakHolds` with `stop`
  (`send.js:231`, `messageQueue.js:687`), two of its turns run (`OneQueuedTurn`, and
  `NoOverlap`; `send.js:1213`, `messageQueue.js:817`), and a message whose request was stopped after the
  server took it is sent again (`NeverTwice` with `stop`, and with `lost`; `messageQueue.js:836`);
- a message queued in a new chat that has no name yet goes to whatever new chat is
  open when its turn comes (`StaysInItsChat` with `new`; `messageQueue.js:644`, `:448`);
- a page that opens or begins another chat, whose stream is dropped, or which never learns
  that the server took a request, is free to send while an old turn still runs on the server
  (`NoOverlap` with `open`, `drop`, `lost`, or `new` and a failure), and what then breaks
  belongs to a turn the queue no longer waits for (`BreakHolds` with `new`, or with `open` and
  `lost`);
- a page that leaves its chat while a queued message is under way may leave the dispatch open for
  ever (`DispatchEnds` with `open`; `send.js:1177`, `messageQueue.js:558`).

Proved (`MessageQueueProofs`, for any numbers of messages, requests and chats, any budget and any
plans; the hypothesis is part of the formula, `Spec => [](... => NeverTwice)`):

| theorem | property | in a run |
| --- | --- | --- |
| `QueueTypes` | `TypeOK` | any |
| `NoMessageDropped` | `NothingDropped` | any |
| `NoMessageTwice` | `NeverTwice` | without `stop` and `lost` |
| `MessagesStayInTheirChat` | `StaysInItsChat` | that begins in a chat, without `new` |
| `BreakIsHeld` | `BreakHolds` | without `stop`, `open`, `new` and `lost` (`Orderly`) |
| `TurnsRunAlone` | `NoOverlap` | the same, and without `drop` |

Every action is read once, into `Effect`: which items stay and which one joins,
leaves or is taken, at most one new request, where each request may go (`Goes`), and that
the server forgets nothing. `TypeInv` and `Effect` are shown together for every action
(`EveryStep`); the proofs about messages see a step only through `Effect`.

- *Dropped.* `NothingDropped` is inductive with the types: an item leaves only when its request is
  answered (`Takes`), and then the server has it.
- *Twice.* `Once`: the messages that wait differ (`OnceItems`); a request for one of them is the
  one the queue waits for, or can no longer reach the server (not `Live`); of two requests for
  one message at most one is `Live`. A reader that ends without an answer must not have been sent,
  which is what a stop or a lost answer breaks.
- *Turns.* `OneTurn`: only the last request is asked or read, the page is busy exactly then
  (`Single`), and the dispatch waits for it (`Held`). So a turn that fails is the one the queue waits
  for, and behind it the queue is paused at once or its last reader has yet to end (`Break`).

### The message queue of a split screen

`SplitQueue`: a turn (`split.send`) goes to one panel or both, each with a request and a
stream of its own; the dispatch holds the generations it waits for, and a queued message
stays, narrowed to the panels that have not taken it (`Narrowed`, `Complete`). `Replace`,
`Replaced`, `NotReplaced`, `Loaded` exchange a panel's chat meanwhile.

Its `plan` names the panels a message may be for (`Targets`) and what may happen
(`command`, `stop`, `replace`, `fail`, `refuse`, a request that rejects although the server took it,
`lost`, and a stream that breaks, `drop`). The plans of `QueueSafe`:

| messages for | what happens | messages, turns, mishaps and commands |
| --- | --- | --- |
| one panel or the other | `command`, `fail`, `refuse`, `drop` | 3, 5, 3 |
| either panel or both | `command`, `fail`, `refuse` | 2, 5, 4 |
| the left panel or both | `command`, `stop`, `replace` | 2, 3, 2 |
| the left panel or both | `command`, `fail`, `stop`, `lost`, `drop` | 2, 4, 2 |

`TypeOK`, `NothingDropped` and `StaysInItsChats` are checked in all of them, the other
properties in those that satisfy the hypothesis of the theorem below; `DispatchEnds` in
`BrowserLive` (in `DispatchesEnd`; the left panel or both, `fail`, `refuse`, `stop`, `lost`,
`drop`, 2 messages, 4 turns).

A stopped request rejects at once, and the preflight is part of "asked". Temporary
chats, closing the split view, saving panels, the reconnect on visibility, layout
and composer are left out; messages queued in the first turn of new chats in both
panels are never given the chats' names by the code, which `StaysInItsChats` does not
contradict because they stay. A panel that loads a chat in which a generation already runs attaches to
it (`lifecycle.js:441`-`:445`); that generation belongs to no turn of the page, and `Loaded` only ends the
loading.

A failure breaks the queue (`broken`) when no queued message is under way, or when it
is of the turn the queue waits for. A turn of the user's own that fails in one panel
while the queue waits for its turn in the other does not pause the queue: the handler
returns for a generation that is not of the dispatch (`messageQueue.js:662`). So the
next message leaves after it, which a reader of the comment at `messageQueue.js:682` may not
expect; it takes four messages in four turns to see it.

Properties that do not hold, found by TLC: `BreakHolds` with messages for both panels - the panel
that ends well schedules the handoff after the other has failed
(`messageQueue.js:668`, `:687`) -, `TurnsDoNotMix` with `replace`, `OncePerPanel` and `RetryIsExact`
with `stop`, `replace` or `lost`, and `DispatchEnds` with `replace` (`core.js:1657`, `messageQueue.js:558`).
With `lost`: a fetch that rejects after the server took the request is a failed request like any
other (`streaming.js:120`-`:124`), so the item keeps that panel as its target, and the panel gets the
message again when the user resumes the queue.
`BreakHolds` with `stop`, `replace` or `lost` and messages for one panel is neither proved nor refuted:
TLC finds no counterexample within the bounds, but the proof rests on `Calm`, which they break.

Proved (`SplitQueueProofs`, for any numbers of messages and turns, any budget and any plans):

| theorem | property | in a run |
| --- | --- | --- |
| `SplitTypes` | `TypeOK` | any |
| `SplitNothingDropped` | `NothingDropped` | any |
| `SplitStaysInItsChats` | `StaysInItsChats` | any |
| `SplitTurnsDoNotMix` | `TurnsDoNotMix` | without `replace` (`NoReplace`) |
| `SplitOncePerPanel`, `SplitRetryIsExact` | `OncePerPanel`, `RetryIsExact` | without `stop`, `replace` and `lost` (`Gentle`) |
| `SplitBreakHolds` | `BreakHolds` | the same, messages for one panel each (`OneEach`) |

Every action is read once, into its kind (`Kind`: who asks, what is answered, what ends), and
`Frame` says what any kind does to turns, server and queue.

- *Dropped, chats.* `Kept`: for each message that waits, the panels it was typed for are those
  it still waits for and those that have it, although the queue narrows an item only when its
  turn is over; what the queue counts as accepted the server has. `InChats`: items and
  turns carry the chats of their message.
- *Turns.* `Own`: a turn that asks or reads in a panel is the turn the panel knows. A
  replaced chat breaks it: the panel is given up while the old stream is still read.
- *Twice, retries.* `Calm`: no stop cuts a request and no answer is lost, so a request that ends without
  one was never taken (`Served`); the queue knows of its dispatch which panels have answered
  (`Waits`); of two requests for one message in one panel at most one is `Live` (`Once`).
- *Breaks.* `Break`: after a failure messages wait in a queue that is paused, or whose turn is
  over in its panel and about to be settled (`Doomed`); with two panels the other one may go on
  (`Singles`).

### Both queues

`SplitQueueProofs` extends `MCQueue` and ends with the properties of `QueueSafe`, for every value
of the constants: a part that rests stutters, so a run of `MCQueue` is one of the split
screen and one of the chat (`QueuesRun`). `QueuesTypes` (`TypesOK`), `QueuesKeep`
(`MessagesKept`), `QueuesSendOnce` (`SentOnce`), `QueuesTurns` (`TurnsApart`) and `QueuesHold`
(`BreaksHold`) have no hypothesis beside the types of the constants: the properties themselves
say of which plans they speak (`Never`, `Only`), and each of those plans is among those of
the run.

## 9. Runs, bounds and what they show

| run | instance | properties |
| --- | --- | --- |
| `WorkerQueueSafe` | 2 parts: 1 job, 2 attempts, all requests and faults; 2 jobs in a batch, 1 revival, crash | `PayloadLifetime`, `CancellationHolds`, `AttemptBudget`, `OnlyLeaseHolderActs`, `KeepsLedger`, `SuccessIsFinal` |
| `WorkerQueueLive` | 2 processes, 1 job, 2 attempts, expiry; crash, renewal | `AcceptedWorkEnds` |
| `EmailOutboxStale` (violation) | 2 senders, 1 one-time code; no fault | `SupersededNotSent` |
| `ChatAll` | 3 parts: memory (1 stream of 3 lines and 2 followers, or 2 streams and 1 follower), redis (4 lines, 2 retained, 1 follower, 2 failing calls), provider (3 deployments, 2 streams of 2 items, queue of 1) | `ContiguousLines`, `FollowedStreamStays`, `WokenForNews`, `ChatNamesItsStream`, `RedisLinesHold`, `EndsComplete`, `CancelHolds` |
| `ChatStreamPolled` (violation) | the part redis | `FollowersDrain` |
| `HostAll` | 4 parts: lock (2 commands, 2 calls), operations (3 releases, 5 operations), repair, updates (3 windows, 2 edits, 1 death) | `TypesOK`, `OverlapNeedsMishap`, `NoOldImageOnNewSchema`, `ScheduleIsKept`, `StepsInOrder`, `LocksEnd` |
| `BackgroundSafe` | 6 parts: two of automations (3 slots, 1 edit, 1 failure; 1 crash or failure), two of backups, audit, mail (2 senders, 2 messages in a batch, 2 and 1 attempts, all faults) | `TypesOK`, `BackupsHold`, `ErasureHolds`, `OneConversation`, `EachSlotOnce`, `KeepsLedger` |
| `BackgroundLive` | 5 parts: automations after a crash or a failure, audit (1 deletion), mail (2 senders, 1 message, 2 attempts), redis (2 lines, 1 retained, 1 failing call), provider (1 stream) | `BackgroundSettles`, `StreamsLeave` |
| `BackupFreezeRollback` (violation) | 2 restores, 1 failure | `SafeMeansWhole` |
| `BrowserSafe` | 4 parts: three of tabs (without Web Locks; with them; with timeouts and lost replies), the session cache | `TypesOK`, `NoSessionLost`, `VerdictsHold`, `JarNeverGoesBack` |
| `BrowserLive` | 4 parts: tabs that wait for the lock, a stream and its followers, a chat's queue (3 messages), a split screen's (2 messages) | `PagesEnd`, `DispatchesEnd` |
| `QueueSafe` | 8 plans: four of a chat, four of a split screen (2 or 3 messages, 3 to 6 requests or turns, 2 to 4 mishaps and commands) | `TypesOK`, `MessagesKept`, `SentOnce`, `TurnsApart`, `BreaksHold` |

Together the passing runs take every disjunct of every next-state relation. Bounds
are constants named where they are declared (`MaxRevivals`, `Faults`, `MaxSeq`, `MaxLives`,
`MaxOps`, `MaxFails`, `MaxCrashes`, `MaxTrips`, `MaxLost`, `Budget`, ...,
`LateBound` with `MaxMishaps` and `BusyBound` of `MCBackground`, `CrossedEnds` of `MCHost`, and the bounds of a plan in `MCQueue`); they stop
an action, never a reaction. They are the smallest ones in which each mishap meets each phase of
the operation it disturbs, and one more step follows it.

Symmetry is used in safety runs only, among processes, tabs and requests that the
specifications do not tell apart.

Each of the three violations shows a statement of the repository that
does not hold; further ones are described in the sections above, with the property of
the module and the constants that show them.

Every property of a passing run has a mutant - a faulty variant of one
definition, marked "Faulty" in the module - that makes TLC find it violated.

## 10. What is proved, and what stays with TLC

Proved for every value of the constants (under the assumptions the modules name):
the types and safety properties of the worker queue, the email outbox, the stream hubs in
memory and in Redis, the provider streams, the three parts of a host (lock, operations,
updates), the automations, the backups, the audit outbox, the session cache, the refresh of
a browser's tabs and the message queues of a chat and of a split screen, and the two
refinements (`JobLedger`, `MailLedger`); the arguments are in the sections of these parts.
Every safety property of a passing run is stated by a theorem. Where one has a hypothesis
(one restore, no expiry, plans without a stop, ...), the section says what is known of
the statement without it, and the runs take values that satisfy it.
Only model-checked is liveness (`AcceptedWorkEnds`, `PagesEnd`, `StreamsLeave`,
`LocksEnd`, `BackgroundSettles`, `DispatchesEnd`): the prover does not handle `ENABLED` and
fairness. The violations are TLC's as well. `BrowserProofs` speaks of the instances of
`MCBrowser`, whose bounds are fixed there; `TokenRefreshProofs` of any bounds.

## 11. Plan

1. `WorkerEnqueue`: the insert race on an idempotency key and the renaming of a
   terminal row's key; the same keys of email.
2. `LeaseRenewal`: a timed model of the renewal thread, to state how long two
   handlers of one job can overlap.
3. The reconciliation of queue and outboxes after a restore; the editor that
   saves a canvas while the assistant writes it.

## 12. Not modelled

Beside what the plan names and what the sections leave out: dumping and restoring
databases, staging directories and health files (I/O); the feature workers (handlers
of the queue, abstracted as any handler); provider adapters and realtime relays
(wire formats of external services); request handlers that are one transaction over the
relational store; administrator metrics; settings editors, storage migration, logs and
the proxy of the Launcher; rendering, translation and layout of the clients.
