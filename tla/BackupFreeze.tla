---------------------------- MODULE BackupFreeze ----------------------------
(***************************************************************************)
(* Backups and restores (backend/app/backups/service.py) and the write     *)
(* freeze that keeps API requests away meanwhile (backups/state.py,        *)
(* middleware/write_freeze.py).  The freeze is one Redis key without an    *)
(* owner; two Redis locks keep backups from backups and restores from      *)
(* restores.  The data are database rows and the files they name; a        *)
(* request deletes one record, its row before its file.                    *)
(***************************************************************************)
EXTENDS Naturals, FiniteSets

CONSTANTS
    Backups, Restores,  \* jobs; Restores are in place
    Requests,           \* mutating requests, one per record
    Traffic,            \* whether requests arrive at all
    SlowWork,           \* whether the freeze and the locks may run out in use
    MaxFails,           \* bound: steps of jobs that fail, jobs that are killed
    None

Jobs == Backups \cup Restores

BackupAssumption ==
    /\ Backups \cap Restores = {} /\ None \notin Jobs
    /\ {Traffic, SlowWork} \subseteq BOOLEAN /\ MaxFails \in Nat

VARIABLES
    freeze,     \* the reason in the key
    lock,       \* holders of backup_job_lock and restore_job_lock
    job,        \* each job
    rows, stored,   \* the records in the database, the files of records
    request,    \* each request
    fails

vars == <<freeze, lock, job, rows, stored, request, fails>>

Steps == {"queued", "pre", "freeze", "dump", "tar", "thaw", "publish",
          "close", "db", "files", "migrate", "open", "ended"}
Outcomes == {"none", "success", "failed", "not started", "restored", "rolled back", "unsafe"}

TypeOK ==
    /\ freeze \in {"none", "backup", "restore"}
    /\ lock \in [{"backup", "restore"} -> Jobs \cup {None}]
    /\ job \in [Jobs -> [at : Steps, rows : SUBSET Requests, stored : SUBSET Requests,
                         back : BOOLEAN, keep : SUBSET Requests, late : BOOLEAN, out : Outcomes]]
    /\ rows \subseteq Requests /\ stored \subseteq Requests
    /\ request \in [Requests -> {"idle", "admitted", "row", "done", "refused"}]
    /\ fails \in 0 .. MaxFails

Init ==
    /\ freeze = "none" /\ lock = [l \in {"backup", "restore"} |-> None]
    /\ job = [j \in Jobs |-> [at |-> "queued", rows |-> {}, stored |-> {}, back |-> FALSE,
                              keep |-> {}, late |-> FALSE, out |-> "none"]]
    /\ rows = Requests /\ stored = Requests
    /\ request = [r \in Requests |-> "idle"] /\ fails = 0

Data == <<rows, stored, request>>
At(j, s) == job[j].at = s
Goto(j, s) == job' = [job EXCEPT ![j].at = s]
End(j, o) == job' = [job EXCEPT ![j].at = "ended", ![j].out = o]
Freed(l, j) == IF lock[l] = j THEN [lock EXCEPT ![l] = None] ELSE lock
InFlight == \E r \in Requests : request[r] \in {"admitted", "row"}

\* Jobs that copy the data, or replace them.
Copying == {j \in Jobs : job[j].at \in {"dump", "tar", "thaw"}}
Replacing == {j \in Restores : job[j].at \in {"db", "files", "migrate"}}

-----------------------------------------------------------------------------
(* The backup, alone or before a restore: _run_backup_job_with_session     *)

\* The restore's own lock; a lock that is held fails the job.
TakeRestore(j) ==
    /\ j \in Restores /\ At(j, "queued")
    /\ IF lock["restore"] = None
       THEN lock' = [lock EXCEPT !["restore"] = j] /\ Goto(j, "pre")
       ELSE End(j, "not started") /\ UNCHANGED lock
    /\ UNCHANGED <<freeze, Data, fails>>

TakeBackup(j) ==
    /\ IF j \in Backups THEN At(j, "queued") ELSE At(j, "pre")
    /\ IF lock["backup"] = None
       THEN lock' = [lock EXCEPT !["backup"] = j] /\ Goto(j, "freeze")
       ELSE IF j \in Backups THEN End(j, "failed") /\ UNCHANGED lock
       ELSE End(j, "not started") /\ lock' = Freed("restore", j)
    /\ UNCHANGED <<freeze, Data, fails>>

\* "late" remembers that the copy may be torn: a request is in flight, or a
\* restore at work or broken off.
Freeze(j) ==
    /\ At(j, "freeze") /\ freeze' = "backup"
    /\ job' = [job EXCEPT ![j].at = "dump", ![j].late = InFlight \/ Replacing # {} \/ ~(rows \subseteq stored)]
    /\ UNCHANGED <<lock, Data, fails>>

Dump(j) ==
    /\ At(j, "dump") /\ job' = [job EXCEPT ![j].at = "tar", ![j].rows = rows]
    /\ UNCHANGED <<freeze, lock, Data, fails>>

\* Faulty variant: files are taken in after the freeze has ended.
TarLate(j) ==
    /\ At(j, "tar") /\ freeze' = "none"
    /\ job' = [k \in Jobs |-> IF k = j THEN [job[k] EXCEPT !.at = "publish", !.stored = stored]
                                       ELSE job[k]]
    /\ UNCHANGED <<lock, Data, fails>>

Tar(j) ==
    /\ At(j, "tar") /\ job' = [job EXCEPT ![j].at = "thaw", ![j].stored = stored]
    /\ UNCHANGED <<freeze, lock, Data, fails>>

\* deactivate_write_freeze deletes the key, whoever set it.
Deleted(j) ==
    /\ freeze' = "none"
    /\ job' = [k \in Jobs |-> IF k = j THEN [job[k] EXCEPT !.at =
                                  IF job[k].at = "thaw" THEN "publish" ELSE "ended"]
                              ELSE IF k \in Copying THEN [job[k] EXCEPT !.late = TRUE] ELSE job[k]]

Thaw(j) == At(j, "thaw") /\ Deleted(j) /\ UNCHANGED <<lock, Data, fails>>

\* A backup ends with its archive; a restore goes on with its own.
Publish(j) ==
    /\ At(j, "publish") /\ lock' = Freed("backup", j)
    /\ IF j \in Backups THEN End(j, "success") ELSE Goto(j, "close")
    /\ UNCHANGED <<freeze, Data, fails>>

\* Dump, tar or upload fail: finally lifts the freeze and releases the locks.
BackupFails(j) ==
    /\ job[j].at \in {"dump", "tar", "publish"} /\ fails < MaxFails /\ fails' = fails + 1
    /\ freeze' = IF At(j, "publish") THEN freeze ELSE "none"
    /\ lock' = [l \in DOMAIN lock |-> IF lock[l] = j THEN None ELSE lock[l]]
    /\ job' = [k \in Jobs |->
                  IF k = j THEN [job[k] EXCEPT !.at = "ended",
                                     !.out = IF j \in Backups THEN "failed" ELSE "not started"]
                  ELSE IF k \in Copying /\ ~At(j, "publish") THEN [job[k] EXCEPT !.late = TRUE]
                  ELSE job[k]]
    /\ UNCHANGED Data

-----------------------------------------------------------------------------
(* The restore: _run_restore_job_with_session, _restore_from_archive       *)

\* Faulty variant: a reason nobody knows.
CloseOther(j) ==
    /\ At(j, "close") /\ freeze' = "maintenance" /\ Goto(j, "db")
    /\ UNCHANGED <<lock, Data, fails>>

Close(j) ==
    /\ At(j, "close") /\ freeze' = "restore" /\ Goto(j, "db")
    /\ UNCHANGED <<lock, Data, fails>>

\* The archive that is installed: an older one, or the safety backup.
From(j) == IF job[j].back THEN [rows |-> job[j].rows, stored |-> job[j].stored]
           ELSE [rows |-> {}, stored |-> {}]

RestoreDb(j) ==
    /\ At(j, "db") /\ rows' = From(j).rows
    /\ job' = [k \in Jobs |-> IF k = j THEN [job[k] EXCEPT !.at = "files"]
                              ELSE [job[k] EXCEPT !.late = @ \/ k \in Copying]]
    /\ UNCHANGED <<freeze, lock, stored, request, fails>>

\* The directories that are replaced are kept for the moment.
RestoreFiles(j) ==
    /\ At(j, "files") /\ stored' = From(j).stored
    /\ job' = [job EXCEPT ![j].at = "migrate", ![j].keep = stored]
    /\ UNCHANGED <<freeze, lock, rows, request, fails>>

Migrate(j) ==
    /\ At(j, "migrate") /\ Goto(j, "open")
    /\ UNCHANGED <<freeze, lock, Data, fails>>

\* The freeze ends, the lock is released, the outcome recorded.
Open(j) ==
    /\ At(j, "open") /\ freeze' = "none" /\ lock' = Freed("restore", j)
    /\ job' = [k \in Jobs |->
                  IF k = j THEN [job[k] EXCEPT !.at = "ended",
                                     !.out = IF job[j].back THEN "rolled back" ELSE "restored"]
                  ELSE IF k \in Copying THEN [job[k] EXCEPT !.late = TRUE] ELSE job[k]]
    /\ UNCHANGED <<Data, fails>>

\* Faulty variant: the directories are put back, the database is not.
RestoreFailsBare(j) ==
    /\ j \in Replacing /\ fails < MaxFails /\ fails' = fails + 1
    /\ stored' = IF At(j, "migrate") THEN job[j].keep ELSE stored
    /\ freeze' = "none" /\ lock' = Freed("restore", j)
    /\ End(j, "rolled back")
    /\ UNCHANGED <<rows, request>>

\* A step fails: the directories are put back, the freeze ends, the lock is
\* released on the way out; then the safety backup is installed in the same way.
RestoreFails(j) ==
    /\ j \in Replacing /\ fails < MaxFails /\ fails' = fails + 1
    /\ stored' = IF At(j, "migrate") THEN job[j].keep ELSE stored
    /\ freeze' = "none" /\ lock' = Freed("restore", j)
    /\ job' = [k \in Jobs |->
                  IF k = j THEN IF job[j].back THEN [job[k] EXCEPT !.at = "ended", !.out = "unsafe"]
                                ELSE [job[k] EXCEPT !.at = "close", !.back = TRUE]
                  ELSE IF k \in Copying THEN [job[k] EXCEPT !.late = TRUE] ELSE job[k]]
    /\ UNCHANGED <<rows, request>>

\* A job's process is killed: what it held in Redis stays until it expires.
Kill(j) ==
    /\ job[j].at \notin {"queued", "ended"} /\ fails < MaxFails /\ fails' = fails + 1
    /\ End(j, IF j \in Backups THEN "failed" ELSE "unsafe")
    /\ UNCHANGED <<freeze, lock, Data>>

Work(j) == \/ TakeRestore(j) \/ TakeBackup(j) \/ Freeze(j) \/ Dump(j) \/ Tar(j) \/ Thaw(j)
           \/ Publish(j) \/ Close(j) \/ RestoreDb(j) \/ RestoreFiles(j) \/ Migrate(j) \/ Open(j)

-----------------------------------------------------------------------------
(* Requests and time                                                       *)

\* WriteFreezeMiddleware looks once, before the request.
Arrive(r) ==
    /\ Traffic /\ request[r] = "idle"
    /\ request' = [request EXCEPT ![r] = IF freeze = "none" THEN "admitted" ELSE "refused"]
    /\ UNCHANGED <<freeze, lock, job, rows, stored, fails>>

Retry(r) ==
    /\ request[r] = "refused" /\ request' = [request EXCEPT ![r] = "idle"]
    /\ UNCHANGED <<freeze, lock, job, rows, stored, fails>>

DeleteRow(r) ==
    /\ request[r] = "admitted" /\ rows' = rows \ {r}
    /\ request' = [request EXCEPT ![r] = "row"]
    /\ UNCHANGED <<freeze, lock, job, stored, fails>>

DeleteFile(r) ==
    /\ request[r] = "row" /\ stored' = stored \ {r}
    /\ request' = [request EXCEPT ![r] = "done"]
    /\ UNCHANGED <<freeze, lock, job, rows, fails>>

\* Nobody renews the key; in time it goes whoever still needs it.
FreezeExpires ==
    /\ freeze # "none" /\ (SlowWork \/ Copying \cup Replacing = {})
    /\ freeze' = "none"
    /\ job' = [k \in Jobs |-> IF k \in Copying THEN [job[k] EXCEPT !.late = TRUE] ELSE job[k]]
    /\ UNCHANGED <<lock, Data, fails>>

LockExpires(l) ==
    /\ lock[l] # None /\ (SlowWork \/ At(lock[l], "ended"))
    /\ lock' = [lock EXCEPT ![l] = None]
    /\ UNCHANGED <<freeze, job, Data, fails>>

Next == \/ \E j \in Jobs : Work(j) \/ BackupFails(j) \/ RestoreFails(j) \/ Kill(j)
        \/ \E r \in Requests : Arrive(r) \/ Retry(r) \/ DeleteRow(r) \/ DeleteFile(r)
        \/ FreezeExpires \/ \E l \in DOMAIN lock : LockExpires(l)

Spec == Init /\ [][Next]_vars

-----------------------------------------------------------------------------
(* Properties                                                              *)

\* "Temporarily reject mutating API requests during restore": none is admitted
\* while a restore replaces the data.
NothingAdmittedInRestore ==
    [][\A r \in Requests : request[r] = "idle" /\ request'[r] = "admitted" => Replacing = {}]_vars

\* An archive has the file of every row, unless a request was in flight or the
\* data torn when the freeze began, a restore worked at the same time, or the
\* freeze was lifted before both were copied.
TornNeedsMishap ==
    \A j \in Jobs : job[j].at \in {"publish", "close"} /\ ~job[j].late => job[j].rows \subseteq job[j].stored

\* "The launcher may restart automatically only if the terminal record confirms
\* that rollback completed": when every restore has ended in a state recorded as
\* safe and nobody else writes, rows and files are of one state.
SafeMeansWhole ==
    (\A j \in Restores : At(j, "ended") /\ job[j].out \in {"not started", "restored", "rolled back"})
        => rows = stored

=============================================================================
