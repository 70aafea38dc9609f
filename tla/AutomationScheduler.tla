------------------------ MODULE AutomationScheduler ------------------------
(***************************************************************************)
(* The scheduler of automations (backend/app/automations): scheduler       *)
(* processes take a Redis lock for each pass, claim due automations in the *)
(* database, and put one job per slot on an RQ queue (worker.py, queue.py, *)
(* claim_due_automations of models.py); RQ workers run the jobs and move   *)
(* the automation to its next slot (jobs.py).  One automation of the batch *)
(* is followed; slot n is its n-th planned minute, and the minutes of the  *)
(* slots follow each other.  Two of the writes to its row are those of an  *)
(* ORM: columns are read first, and written by id later.                   *)
(***************************************************************************)
EXTENDS Integers

CONSTANTS
    Schedulers, Workers,
    LastSlot,       \* the schedule ends with this slot
    ClaimsAge,      \* whether a claim may outlive its timeout while in use
    OthersFail,     \* whether the enqueue of another automation may fail
    MaxEdits,       \* bound: changes of the schedule by the user
    MaxFails,       \* bound: executions that fail, Redis errors
    MaxCrashes,     \* bound: schedulers, workers or queues lost
    None

SchedulerAssumption ==
    /\ None \notin Schedulers
    /\ LastSlot \in Nat \ {0}
    /\ {ClaimsAge, OthersFail} \subseteq BOOLEAN
    /\ {MaxEdits, MaxFails, MaxCrashes} \subseteq Nat

Slots == 1 .. LastSlot

VARIABLES
    clock,      \* the minute; the slots up to this one are due
    row,        \* the automation: its slot (0: none), its claim and its age, is_active
    lock,       \* holder of the Redis lock of the scheduler
    sched,      \* each scheduler: where it is, and the claimed automation
    job,        \* the RQ job of each slot
    listed,     \* how often its id stands in the queue
    worker,     \* each worker: where it is, its slot, and the row as it read it
    editor,     \* the user's request: the slot it plans, and the row as it read it
    ran,        \* history: how often a slot was executed with success
    again,      \* history: slots planned once more although they were taken
    edits, fails, crashes

vars == <<clock, row, lock, sched, job, listed, worker, editor, ran, again, edits, fails, crashes>>

Claims == Schedulers \cup {None}
Columns == [slot : 0 .. LastSlot, claim : Claims, active : BOOLEAN]

TypeOK ==
    /\ clock \in 0 .. LastSlot
    /\ row \in [slot : 0 .. LastSlot, claim : Claims, active : BOOLEAN, old : BOOLEAN]
    /\ lock \in Claims
    /\ sched \in [Schedulers -> [at : {"wait", "claim", "read", "claimed", "cleared"},
                                 slot : 0 .. LastSlot, claim : Claims]]
    /\ job \in [Slots -> {"none", "queued", "started", "ended"}]
    /\ listed \in [Slots -> Nat]
    /\ worker \in [Workers -> [at : {"idle", "begun", "ran", "record", "failed"},
                               slot : 0 .. LastSlot, seen : Columns]]
    /\ editor \in [saves : BOOLEAN, to : 0 .. LastSlot, seen : Columns]
    /\ ran \in [Slots -> Nat] /\ again \in SUBSET Slots
    /\ editor.saves => edits < MaxEdits
    /\ edits \in 0 .. MaxEdits /\ fails \in 0 .. MaxFails /\ crashes \in 0 .. MaxCrashes

Waiting == [at |-> "wait", slot |-> 0, claim |-> None]
Nothing == [slot |-> 0, claim |-> None, active |-> FALSE]
Free == [at |-> "idle", slot |-> 0, seen |-> Nothing]
NoEdit == [saves |-> FALSE, to |-> 0, seen |-> Nothing]

Init ==
    /\ clock = 0
    /\ row = [slot |-> 1, claim |-> None, active |-> TRUE, old |-> FALSE]
    /\ lock = None /\ sched = [s \in Schedulers |-> Waiting]
    /\ job = [n \in Slots |-> "none"] /\ listed = [n \in Slots |-> 0]
    /\ worker = [w \in Workers |-> Free] /\ editor = NoEdit
    /\ ran = [n \in Slots |-> 0] /\ again = {}
    /\ edits = 0 /\ fails = 0 /\ crashes = 0

Counters == <<edits, fails, crashes>>
Users == <<editor, again>>
Due(n) == n # 0 /\ n <= clock

\* What a session reads of the row, and what it writes of it by id at its commit:
\* the columns it has changed.  The claim is always given up.
Seen == [slot |-> row.slot, claim |-> row.claim, active |-> row.active]
Saved(seen, slot, active) ==
    [slot   |-> IF slot = seen.slot THEN row.slot ELSE slot,
     active |-> IF active = seen.active THEN row.active ELSE active,
     claim  |-> IF seen.claim = None THEN row.claim ELSE None,
     old    |-> seen.claim = None /\ row.old]

\* Somebody is to execute the slot, or has done so.
Takes(s) == sched[s].at \in {"claimed", "cleared"}
Taken(n) == \/ \E s \in Schedulers : Takes(s) /\ sched[s].slot = n
            \/ listed[n] > 0 \/ ran[n] > 0
            \/ \E w \in Workers : worker[w].slot = n

\* The row was saved.
Planned == again' = again \cup {n \in Slots : row'.slot = n /\ Taken(n)}

-----------------------------------------------------------------------------
(* A scheduler's pass                                                      *)

\* set nx: only one holder at a time.
Acquire(s) ==
    /\ sched[s].at = "wait" /\ lock = None
    /\ lock' = s /\ sched' = [sched EXCEPT ![s].at = "claim"]
    /\ UNCHANGED <<clock, row, job, listed, worker, ran, Users, Counters>>

\* The lock's time is over, whatever its holder does.
LockExpires ==
    /\ lock # None /\ lock' = None
    /\ UNCHANGED <<clock, row, sched, job, listed, worker, ran, Users, Counters>>

\* The end of a pass gives the lock back if it is still the scheduler's own.
Ends(s) == /\ sched' = [sched EXCEPT ![s] = Waiting]
           /\ lock' = IF lock = s THEN None ELSE lock

\* The UPDATE of claim_due_automations.
ClaimIf(s, free) ==
    LET claims == row.active /\ Due(row.slot) /\ free IN
    /\ sched[s].at = "claim"
    /\ \/ /\ claims
          /\ row' = [row EXCEPT !.claim = s, !.old = FALSE]
          /\ sched' = [sched EXCEPT ![s].at = "read"] /\ UNCHANGED lock
       \/ ~claims /\ Ends(s) /\ UNCHANGED row
    /\ UNCHANGED <<clock, job, listed, worker, ran, Users, Counters>>

\* Faulty variant: claims are taken from any holder.
ClaimAny(s) == ClaimIf(s, TRUE)

\* Faulty variant: a crashed scheduler's claim is kept for good.
ClaimFresh(s) == ClaimIf(s, row.claim = None)

Claim(s) == ClaimIf(s, row.claim = None \/ row.old)

\* Its SELECT, after the commit: the rows that have the claim, as they are by now.
Read(s) ==
    /\ sched[s].at = "read" /\ UNCHANGED row
    /\ IF row.claim = s
       THEN /\ sched' = [sched EXCEPT ![s] = [at |-> "claimed", slot |-> row.slot, claim |-> s]]
            /\ UNCHANGED lock
       ELSE Ends(s)
    /\ UNCHANGED <<clock, job, listed, worker, ran, Users, Counters>>

\* The release of another automation of the batch commits the session: this one
\* is read again when the loop comes to it.
Reload(s) ==
    /\ OthersFail /\ sched[s].at = "claimed"
    /\ sched' = [sched EXCEPT ![s].slot = row.slot, ![s].claim = row.claim]
    /\ UNCHANGED <<clock, row, lock, job, listed, worker, ran, Users, Counters>>

\* release_automation_claim: by the time of the claim.
Released(s) ==
    row' = IF sched[s].claim # None /\ row.claim = sched[s].claim
           THEN [row EXCEPT !.claim = None, !.old = FALSE] ELSE row

\* An automation that was reloaded without a slot.
Slotless(s) ==
    /\ sched[s].at = "claimed" /\ sched[s].slot = 0
    /\ Released(s) /\ Ends(s)
    /\ UNCHANGED <<clock, job, listed, worker, ran, Users, Counters>>

\* fetch_job: a job that is under way makes the enqueue a duplicate, one that
\* ended is deleted first.
Fetch(s) ==
    LET n == sched[s].slot IN
    /\ sched[s].at = "claimed" /\ n # 0
    /\ IF job[n] \in {"queued", "started"} THEN Ends(s) /\ UNCHANGED job
       ELSE /\ job' = [job EXCEPT ![n] = "none"]
            /\ sched' = [sched EXCEPT ![s].at = "cleared"] /\ UNCHANGED lock
    /\ UNCHANGED <<clock, row, listed, worker, ran, Users, Counters>>

Enqueue(s) ==
    LET n == sched[s].slot IN
    /\ sched[s].at = "cleared" /\ Ends(s)
    /\ job' = [job EXCEPT ![n] = "queued"]
    /\ listed' = [listed EXCEPT ![n] = @ + 1]
    /\ UNCHANGED <<clock, row, worker, ran, Users, Counters>>

\* Redis fails at either of the two; the claim is released for the next pass.
EnqueueFails(s) ==
    /\ sched[s].at \in {"claimed", "cleared"} /\ sched[s].slot # 0
    /\ fails < MaxFails /\ fails' = fails + 1
    /\ Released(s) /\ Ends(s)
    /\ UNCHANGED <<clock, job, listed, worker, ran, Users, edits, crashes>>

Pass(s) == \/ Acquire(s) \/ Claim(s) \/ Read(s) \/ Reload(s) \/ Slotless(s)
           \/ Fetch(s) \/ Enqueue(s) \/ EnqueueFails(s)

-----------------------------------------------------------------------------
(* A worker                                                                *)

\* An id whose job was deleted is dropped.  An inactive automation is rejected.
Begin(w, n) ==
    /\ worker[w].at = "idle" /\ listed[n] > 0
    /\ listed' = [listed EXCEPT ![n] = @ - 1]
    /\ IF job[n] = "none" THEN UNCHANGED <<job, worker>>
       ELSE /\ job' = [job EXCEPT ![n] = "started"]
            /\ worker' = [worker EXCEPT ![w].at = IF row.active THEN "begun" ELSE "failed",
                                        ![w].slot = n]
    /\ UNCHANGED <<clock, row, lock, sched, ran, Users, Counters>>

\* execute_automation_job
Execute(w) ==
    /\ worker[w].at = "begun"
    /\ \/ /\ worker' = [worker EXCEPT ![w].at = "ran"]
          /\ ran' = [ran EXCEPT ![worker[w].slot] = @ + 1] /\ UNCHANGED fails
       \/ /\ fails < MaxFails /\ fails' = fails + 1
          /\ worker' = [worker EXCEPT ![w].at = "failed"] /\ UNCHANGED ran
    /\ UNCHANGED <<clock, row, lock, sched, job, listed, Users, edits, crashes>>

\* The next slot, none after the last.
After(n) == IF n < LastSlot THEN n + 1 ELSE 0

\* The job ends, and the worker is free.
Leaves(w) == /\ job' = [job EXCEPT ![worker[w].slot] = "ended"]
             /\ worker' = [worker EXCEPT ![w] = Free]

\* Faulty variant: the slot the automation stands at is not compared.
LookAny(w) ==
    /\ worker[w].at = "ran"
    /\ worker' = [worker EXCEPT ![w].at = "record", ![w].seen = Seen]
    /\ UNCHANGED <<clock, row, lock, sched, job, listed, ran, Users, Counters>>

\* complete_automation_schedule_for_slot reads the automation, if it still stands at
\* the job's slot, ...
Look(w) ==
    /\ worker[w].at = "ran"
    /\ IF row.slot = worker[w].slot
       THEN /\ worker' = [worker EXCEPT ![w].at = "record", ![w].seen = Seen] /\ UNCHANGED job
       ELSE Leaves(w)
    /\ UNCHANGED <<clock, row, lock, sched, listed, ran, Users, Counters>>

\* ... and moves it on by id, whatever was saved in between.
Record(w) ==
    LET next == After(worker[w].slot)
        seen == worker[w].seen
    IN  /\ worker[w].at = "record"
        /\ row' = Saved(seen, next, seen.active /\ next # 0) /\ Planned
        /\ Leaves(w)
        /\ UNCHANGED <<clock, lock, sched, listed, ran, editor, Counters>>

\* release_automation_claim_for_slot is one UPDATE.
Release(w) ==
    /\ worker[w].at = "failed"
    /\ row' = IF row.slot = worker[w].slot
              THEN [row EXCEPT !.claim = None, !.old = FALSE] ELSE row
    /\ Leaves(w)
    /\ UNCHANGED <<clock, lock, sched, listed, ran, Users, Counters>>

Work(w) == (\E n \in Slots : Begin(w, n)) \/ Execute(w) \/ Look(w) \/ Record(w) \/ Release(w)

-----------------------------------------------------------------------------
(* The user, time, and what is lost                                        *)

\* update_automation reads the row and plans the next slot, from the current minute
\* on and that included, or pauses (0).  One request at a time.
Edit(n) ==
    /\ edits < MaxEdits /\ ~editor.saves
    /\ n = 0 \/ n >= clock
    /\ editor' = [saves |-> TRUE, to |-> n, seen |-> Seen]
    /\ UNCHANGED <<clock, row, lock, sched, job, listed, worker, ran, again, Counters>>

\* Its commit.
Save ==
    /\ editor.saves /\ editor' = NoEdit /\ edits' = edits + 1
    /\ row' = Saved(editor.seen, editor.to, editor.to # 0) /\ Planned
    /\ UNCHANGED <<clock, lock, sched, job, listed, worker, ran, fails, crashes>>

Tick == /\ clock < LastSlot /\ clock' = clock + 1
        /\ UNCHANGED <<row, lock, sched, job, listed, worker, ran, Users, Counters>>

\* A scheduler is between the commit of its claim and the SELECT.
Between == \E s \in Schedulers : sched[s].at = "read" /\ row.claim = s

\* Some scheduler or job still needs the claim.
InUse == \/ Between
         \/ \E s \in Schedulers : Takes(s) /\ sched[s].slot = row.slot
         \/ row.slot # 0 /\ (listed[row.slot] > 0 \/ \E w \in Workers : worker[w].slot = row.slot)

\* A scheduler that stands for minutes between the two counts as one of the mishaps.
ClaimAges ==
    /\ row.claim # None /\ ~row.old /\ (InUse => ClaimsAge)
    /\ row' = [row EXCEPT !.old = TRUE]
    /\ IF Between THEN crashes < MaxCrashes /\ crashes' = crashes + 1 ELSE UNCHANGED crashes
    /\ UNCHANGED <<clock, lock, sched, job, listed, worker, ran, Users, edits, fails>>

\* A job that ended is kept for a while; one whose worker died ends by cleanup.
JobExpires(n) ==
    /\ job[n] = "ended" /\ job' = [job EXCEPT ![n] = "none"]
    /\ UNCHANGED <<clock, row, lock, sched, listed, worker, ran, Users, Counters>>

JobAbandoned(n) ==
    /\ job[n] = "started" /\ \A w \in Workers : worker[w].slot # n
    /\ job' = [job EXCEPT ![n] = "ended"]
    /\ UNCHANGED <<clock, row, lock, sched, listed, worker, ran, Users, Counters>>

Crash ==
    /\ crashes < MaxCrashes /\ crashes' = crashes + 1
    /\ \/ \E s \in Schedulers : /\ sched[s].at # "wait"
                                /\ sched' = [sched EXCEPT ![s] = Waiting]
                                /\ UNCHANGED <<lock, worker, job, listed>>
       \/ \E w \in Workers : /\ worker[w].at # "idle"
                             /\ worker' = [worker EXCEPT ![w] = Free]
                             /\ UNCHANGED <<lock, sched, job, listed>>
       \/ /\ lock' = None
          /\ job' = [n \in Slots |-> "none"] /\ listed' = [n \in Slots |-> 0]
          /\ UNCHANGED <<sched, worker>>
    /\ UNCHANGED <<clock, row, ran, Users, edits, fails>>

Next == \/ \E s \in Schedulers : Pass(s)
        \/ \E w \in Workers : Work(w)
        \/ Save \/ \E n \in 0 .. LastSlot : Edit(n)
        \/ \E n \in Slots : JobExpires(n) \/ JobAbandoned(n)
        \/ Tick \/ LockExpires \/ ClaimAges \/ Crash

Spec == Init /\ [][Next]_vars

\* Schedulers and workers go on, a scheduler gets the lock in the end; locks,
\* claims and abandoned jobs run out.
Fairness ==
    /\ \A s \in Schedulers : WF_vars(Claim(s) \/ Read(s) \/ Slotless(s) \/ Fetch(s) \/ Enqueue(s))
    /\ WF_vars(\E s \in Schedulers : Acquire(s))
    /\ \A w \in Workers : WF_vars(Work(w))
    /\ WF_vars(LockExpires) /\ WF_vars(ClaimAges)
    /\ \A n \in Slots : WF_vars(JobAbandoned(n))

FairSpec == Spec /\ Fairness

-----------------------------------------------------------------------------
(* Properties                                                              *)

\* A planned time is executed once: neither an expired lock of the scheduler,
\* two passes at once, nor edits of the schedule make it run again, unless it is
\* planned once more while it is under way or after it ran.
RunsOnce == \A n \in Slots \ again : ran[n] <= 1

\* A worker is about to write over what was saved after it read the row.
Outdated(w) == worker[w].at = "record" /\ row.slot # worker[w].seen.slot

\* The schedule never skips a time that has come: the automation leaves a due
\* slot after an execution of that very slot, by its user's hand, or because an
\* execution writes over what the user saved meanwhile.
Leaving == row'.slot # row.slot /\ Due(row.slot) /\ edits' = edits
NoSlotSkipped ==
    [][Leaving => \/ ran[row.slot] > 0
                  \/ \E w \in Workers : Outdated(w) /\ worker'[w] = Free]_vars

\* Whoever dies, and whatever is lost of the queue, a time that has come is
\* executed in the end, or the user changes the schedule.
DueSlotRuns == \A n \in Slots : (row.slot = n /\ Due(n)) ~> row.slot # n

\* "Claim due automations in batches and enqueue their executions": what is on
\* the queue is due.
QueuedIsDue == \A n \in Slots : listed[n] > 0 => Due(n)
=============================================================================
