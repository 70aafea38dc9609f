------------------------------ MODULE ServerOps ------------------------------
(***************************************************************************)
(* The operations of ServerManager (electron/server-manager.js) on one     *)
(* installation: start, restart, stop, update with its two ways back,      *)
(* restore with its recovery, the choice of a release, and the repair of   *)
(* visitor addresses.  They change the release selection (.env and         *)
(* server-settings.json), the containers, the schema and the data, through *)
(* Docker commands that may fail halfway, in a Launcher that may die.      *)
(***************************************************************************)
EXTENDS Integers, FiniteSets

CONSTANTS
    Services,       \* application services (frontend, workers, fastapi)
    Fastapi,        \* the one that Update needs running
    Latest,         \* the newest release, releases are 1 .. Latest
    Channels,       \* update channels
    WithRepair,     \* whether visitor addresses are repaired
    MaxOps          \* bound: operations begun

OpsAssumption ==
    /\ Fastapi \in Services
    /\ Latest \in Nat \ {0}
    /\ WithRepair \in BOOLEAN
    /\ MaxOps \in Nat

VARIABLES
    sel,        \* OMLORIX_VERSION in .env
    chan,       \* updateChannel in server-settings.json
    app,        \* the release each service runs, 0 when it does not run
    db,         \* the newest release whose migrations may have begun
    data,       \* the server's data: "kept", "partial" or "restored"
    restorer,   \* whether a restore container runs
    op,         \* the operation that holds the lock
    said,       \* what the last operation reported
    lock,       \* the operation lock: "free", "held" or "orphan"
    begun       \* number of operations begun

vars == <<sel, chan, app, db, data, restorer, op, said, lock, begun>>

Releases == 1 .. Latest
AllDown == [s \in Services |-> 0]
AllUp   == [s \in Services |-> sel]
Newest(a, b) == IF a > b THEN a ELSE b

Kinds == {"none", "start", "restart", "stop", "update", "restore", "repair"}

Steps == {"", "archive", "backup", "version", "channel", "pull", "drain", "reset", "migrate",
          "up", "ready", "done", "down", "stop", "fence", "replace", "replacing", "failed",
          "offline", "version back", "channel back", "rolled back", "drain back",
          "pull back", "up back", "up again", "ready again"}

\* from, to: the selection before and after an update; drain and migrated:
\* rollbackRequiresDrain and migrationMayHaveStarted; stopTried, stopped,
\* commanded and replaced: the phases of a restore; safe: the backend's word.
Op == [kind : Kinds, at : Steps,
       from : Releases \X Channels, to : Releases \X Channels,
       drain : BOOLEAN, migrated : BOOLEAN,
       stopTried : BOOLEAN, stopped : BOOLEAN, commanded : BOOLEAN,
       replaced : BOOLEAN, safe : BOOLEAN,
       whole : BOOLEAN]     \* history: the data was whole when it began

Says == {"nothing", "ok", "failed", "rolled back", "left offline", "target retained",
         "stopped safely", "restart failed", "left stopped", "startup failed"}

TypeOK ==
    /\ sel \in Releases /\ chan \in Channels
    /\ app \in [Services -> 0 .. Latest]
    /\ db \in Releases
    /\ data \in {"kept", "partial", "restored"}
    /\ restorer \in BOOLEAN
    /\ op \in Op
    /\ said \in Says
    /\ lock \in {"free", "held", "orphan"}
    /\ begun \in 0 .. MaxOps
    /\ lock = "held" <=> op.kind # "none"

Unset == <<1, CHOOSE c \in Channels : TRUE>>
Idle == [kind |-> "none", at |-> "", from |-> Unset, to |-> Unset,
         drain |-> FALSE, migrated |-> FALSE, stopTried |-> FALSE, stopped |-> FALSE,
         commanded |-> FALSE, replaced |-> FALSE, safe |-> FALSE, whole |-> TRUE]

Init ==
    /\ sel = 1 /\ chan \in Channels /\ db = 1
    /\ app \in {AllDown, [s \in Services |-> 1]}
    /\ data = "kept" /\ restorer = FALSE
    /\ op = Idle /\ said = "nothing" /\ lock = "free" /\ begun = 0

-----------------------------------------------------------------------------
(* What Docker does.  A command that fails, or whose client is killed by a  *)
(* timeout, may have done any part of its work.                             *)

\* Every service of S stopped, or only some.
Halt(S, ok) ==
    /\ \E D \in SUBSET S : /\ ok => D = S
                           /\ app' = [s \in Services |-> IF s \in D THEN 0 ELSE app[s]]
    /\ UNCHANGED <<sel, chan, db, data>>

\* down --remove-orphans also removes a restore container.
TakeDown(ok) == Halt(Services, ok) /\ (restorer' = FALSE \/ (~ok /\ restorer' = restorer))

\* up of the migration service alone: the schema may have changed from here on.
Migrate(ok) ==
    /\ db' = Newest(db, sel) \/ (~ok /\ db' = db)
    /\ UNCHANGED <<sel, chan, app, data, restorer>>

\* up of S: containers are recreated at the selected release, after the
\* migration service they depend on unless the command says --no-deps.
BringUp(S, deps, ok) ==
    /\ \/ db' = IF deps THEN Newest(db, sel) ELSE db
       \/ ~ok /\ db' = db
    /\ app' \in [Services -> {0, sel} \cup {app[s] : s \in Services}]
    /\ \A s \in Services :
          \/ s \in S /\ app'[s] = sel /\ (deps => db' >= sel)
          \/ s \in S /\ ~ok /\ app'[s] = 0
          \/ (s \in S => ~ok) /\ app'[s] = app[s]
    /\ UNCHANGED <<sel, chan, data, restorer>>

UpAll(ok) == BringUp(Services, TRUE, ok)
UpFastapi(ok) == BringUp({Fastapi}, TRUE, ok)

\* waitForReady: every expected service answers.
Ready(ok) ==
    /\ ok => \A s \in Services : app[s] # 0
    /\ UNCHANGED <<sel, chan, app, db, data, restorer>>

Untouched == UNCHANGED <<sel, chan, app, db, data, restorer>>

-----------------------------------------------------------------------------
(* The course of an operation                                              *)

At(kind, at) == op.kind = kind /\ op.at = at /\ lock = "held"

GoesTo(at) == op' = [op EXCEPT !.at = at] /\ UNCHANGED <<said, lock, begun>>

Reports(what) ==
    /\ op' = Idle /\ said' = what /\ lock' = "free" /\ UNCHANGED begun

Starts(kind, at, to) ==
    /\ op.kind = "none" /\ lock = "free" /\ begun < MaxOps
    /\ op' = [Idle EXCEPT !.kind = kind, !.at = at, !.from = <<sel, chan>>, !.to = to,
                         !.whole = data # "partial" /\ ~restorer]
    /\ said' = "nothing" /\ lock' = "held" /\ begun' = begun + 1
    /\ Untouched

\* One step: its effect, then `next`, or the failure path of the operation.
Does(Effect(_), kind, at, next) ==
    /\ At(kind, at)
    /\ \/ Effect(TRUE) /\ GoesTo(next)
       \/ /\ Effect(FALSE)
          /\ IF kind \in {"update", "restore"} THEN GoesTo("failed") ELSE Reports("failed")

-----------------------------------------------------------------------------
(* start, restart, stop, the choice of a release                           *)

Begin == \/ Starts("start", "drain", <<sel, chan>>)
         \/ Starts("restart", "drain", <<sel, chan>>)
         \/ Starts("stop", "down", <<sel, chan>>)

\* Both take the project offline, run the migrations, and bring it up.
Launch(kind) ==
    \/ Does(TakeDown, kind, "drain", "migrate")
    \/ Does(Migrate, kind, "migrate", "up")
    \/ Does(UpAll, kind, "up", "ready")
    \/ Does(Ready, kind, "ready", "done")
    \/ At(kind, "done") /\ Untouched /\ Reports("ok")

Stop == \/ Does(TakeDown, "stop", "down", "done")
        \/ At("stop", "done") /\ Untouched /\ Reports("ok")

\* saveSettings writes the release the administrator picks; picking an older
\* one than the data has seen is left out, the Launcher warns of it.
SelectVersion(v) ==
    /\ op.kind = "none" /\ lock = "free" /\ begun < MaxOps /\ v > sel
    /\ sel' = v /\ begun' = begun + 1 /\ said' = "nothing" /\ op' = Idle
    /\ UNCHANGED <<chan, app, db, data, restorer, lock>>

-----------------------------------------------------------------------------
(* update                                                                  *)

\* assertUpdatePrerequisites; the release on offer is never older.
UpdateBegins(v, c) == app[Fastapi] # 0 /\ v >= sel /\ Starts("update", "backup", <<v, c>>)

\* A failed backup cancels the update before anything is changed.
UpdateBackup == /\ At("update", "backup") /\ Untouched
                /\ GoesTo("version") \/ Reports("failed")

WriteVersion(at, pair, next) ==
    /\ At("update", at) /\ sel' = pair[1] /\ GoesTo(next)
    /\ UNCHANGED <<chan, app, db, data, restorer>>

WriteChannel(at, pair, next) ==
    /\ At("update", at) /\ chan' = pair[2] /\ GoesTo(next)
    /\ UNCHANGED <<sel, app, db, data, restorer>>

\* Until the drain begins the old containers run on undisturbed.
Pull == /\ At("update", "pull") /\ Untouched
        /\ \/ op' = [op EXCEPT !.at = "drain", !.drain = TRUE]
           \/ op' = [op EXCEPT !.at = "failed"]
        /\ UNCHANGED <<said, lock, begun>>

\* The migration container is reset, and the boundary crossed.
Reset == /\ At("update", "reset") /\ Untouched
         /\ \/ op' = [op EXCEPT !.at = "migrate", !.migrated = TRUE]
            \/ op' = [op EXCEPT !.at = "failed"]
         /\ UNCHANGED <<said, lock, begun>>

\* Faulty variant: a failure always leads back to the old release.
UpdateFailedBack ==
    /\ At("update", "failed") /\ Untouched
    /\ IF op.from # op.to THEN GoesTo("version back") ELSE Reports("failed")

\* Past the boundary the target stays selected and the project goes offline;
\* before it the old selection comes back, if it is another one.
UpdateFailed ==
    /\ At("update", "failed") /\ Untouched
    /\ IF op.migrated THEN GoesTo("offline")
       ELSE IF op.from # op.to THEN GoesTo("version back") ELSE Reports("failed")

\* The last drain is attempted; its outcome only changes the wording.
Offline == /\ At("update", "offline") /\ \E ok \in BOOLEAN : TakeDown(ok)
           /\ Reports("target retained")

\* Containers that were not drained are left alone.
RolledBack == /\ At("update", "rolled back") /\ Untouched
              /\ IF op.drain THEN GoesTo("drain back") ELSE Reports("rolled back")

DrainBack == /\ At("update", "drain back")
             /\ \/ TakeDown(TRUE) /\ GoesTo("pull back")
                \/ TakeDown(FALSE) /\ Reports("left offline")

PullBack == /\ At("update", "pull back") /\ Untouched
            /\ GoesTo("up back") \/ Reports("left offline")

UpBack == /\ At("update", "up back")
          /\ \/ BringUp(Services, TRUE, TRUE) /\ Reports("rolled back")
             \/ BringUp(Services, TRUE, FALSE) /\ Reports("left offline")

Update ==
    \/ \E v \in Releases, c \in Channels : UpdateBegins(v, c)
    \/ UpdateBackup
    \/ WriteVersion("version", op.to, "channel")
    \/ WriteChannel("channel", op.to, "pull")
    \/ Pull
    \/ Does(TakeDown, "update", "drain", "reset")
    \/ Reset
    \/ Does(Migrate, "update", "migrate", "up")
    \/ Does(UpAll, "update", "up", "ready")
    \/ Does(Ready, "update", "ready", "done")
    \/ At("update", "done") /\ Untouched /\ Reports("ok")
    \/ UpdateFailed \/ Offline
    \/ WriteVersion("version back", op.from, "channel back")
    \/ WriteChannel("channel back", op.from, "rolled back")
    \/ RolledBack \/ DrainBack \/ PullBack \/ UpBack

-----------------------------------------------------------------------------
(* restore                                                                 *)

\* An archive that cannot be read ends the operation before any stop.
RestoreBegins == Starts("restore", "archive", <<sel, chan>>)

CheckArchive == /\ At("restore", "archive") /\ Untouched
                /\ \/ /\ op' = [op EXCEPT !.at = "stop", !.stopTried = TRUE]
                      /\ UNCHANGED <<said, lock, begun>>
                   \/ Reports("failed")

StopServices(ok) == Halt(Services, ok) /\ UNCHANGED restorer

\* What the named stop did not reach is stopped by container id.
Fence ==
    /\ At("restore", "fence")
    /\ \/ TakeDown(TRUE) /\ op' = [op EXCEPT !.at = "replace", !.stopped = TRUE]
       \/ TakeDown(FALSE) /\ op' = [op EXCEPT !.at = "failed"]
    /\ UNCHANGED <<said, lock, begun>>

Replace ==
    /\ At("restore", "replace")
    /\ restorer' = TRUE
    /\ op' = [op EXCEPT !.at = "replacing", !.commanded = TRUE]
    /\ UNCHANGED <<sel, chan, app, db, data, said, lock, begun>>

\* The container ends with success, with its word that the data is safe, or
\* without one; a client that is killed leaves the container running.
Replaced ==
    /\ At("restore", "replacing")
    /\ \/ /\ restorer' = FALSE /\ data' = "restored"
          /\ op' = [op EXCEPT !.at = "up", !.replaced = TRUE]
       \/ /\ restorer' = FALSE /\ UNCHANGED data
          /\ op' = [op EXCEPT !.at = "failed", !.safe = TRUE]
       \/ /\ restorer' \in BOOLEAN /\ data' \in {data, "partial"}
          /\ op' = [op EXCEPT !.at = "failed"]
    /\ UNCHANGED <<sel, chan, app, db, said, lock, begun>>

\* applicationStopped is cleared once the services were started.
BackUp(ok) == BringUp(Services, FALSE, ok)
UpAfterRestore ==
    /\ At("restore", "up")
    /\ \/ BackUp(TRUE) /\ op' = [op EXCEPT !.at = "ready", !.stopped = FALSE]
       \/ BackUp(FALSE) /\ op' = [op EXCEPT !.at = "failed"]
    /\ UNCHANGED <<said, lock, begun>>

\* Faulty variant: the services come back whenever the data was not replaced.
MayRestartAlways == op.stopTried /\ ~op.replaced

\* Nothing was stopped for good, or the backend vouches for the data.
MayRestart == op.stopTried /\ ~op.replaced /\ (~op.stopped \/ ~op.commanded \/ op.safe)

RestoreFailed ==
    /\ At("restore", "failed") /\ Untouched
    /\ IF MayRestart THEN GoesTo("up again")
       ELSE Reports(IF op.replaced THEN "startup failed" ELSE "left stopped")

UpAgain == /\ At("restore", "up again")
           /\ \/ BackUp(TRUE) /\ GoesTo("ready again")
              \/ BackUp(FALSE) /\ Reports("restart failed")

ReadyAgain == /\ At("restore", "ready again")
              /\ \/ Ready(TRUE) /\ Reports("stopped safely")
                 \/ Ready(FALSE) /\ Reports("restart failed")

Restore ==
    \/ RestoreBegins \/ CheckArchive
    \/ Does(StopServices, "restore", "stop", "fence")
    \/ Fence \/ Replace \/ Replaced \/ UpAfterRestore
    \/ Does(Ready, "restore", "ready", "done")
    \/ At("restore", "done") /\ Untouched /\ Reports("ok")
    \/ RestoreFailed \/ UpAgain \/ ReadyAgain

-----------------------------------------------------------------------------
(* The repair of visitor addresses recreates fastapi and the frontend, with  *)
(* the migration service they depend on.                                    *)

RepairBegins == WithRepair /\ app # AllDown /\ Starts("repair", "up", <<sel, chan>>)

Repair == \/ RepairBegins
          \/ Does(UpFastapi, "repair", "up", "done")
          \/ At("repair", "done") /\ Untouched /\ Reports("ok")

-----------------------------------------------------------------------------
(* The world                                                               *)

\* The Launcher dies; its lock file and a restore container stay.
Crash == /\ op.kind # "none"
         /\ op' = Idle /\ lock' = "orphan" /\ said' = "nothing"
         /\ UNCHANGED begun /\ Untouched

\* After six hours the lock counts as that of a dead process; a restore is
\* over by then.
LockAges == /\ lock = "orphan" /\ ~restorer /\ lock' = "free"
            /\ UNCHANGED <<op, said, begun>> /\ Untouched

\* A restore container whose client is gone.
RestorerEnds ==
    /\ restorer /\ op.at # "replacing"
    /\ restorer' = FALSE /\ data' \in {data, "partial", "restored"}
    /\ UNCHANGED <<sel, chan, app, db, op, said, lock, begun>>

Step == \/ Begin \/ Launch("start") \/ Launch("restart") \/ Stop
        \/ Update \/ Restore \/ Repair

Next == \/ Step
        \/ \E v \in Releases : SelectVersion(v)
        \/ Crash \/ LockAges \/ RestorerEnds

Spec == Init /\ [][Next]_vars

\* Commands return: those of the steps have time limits.  Six hours pass.
Fairness == WF_vars(Step /\ op.kind # "none") /\ WF_vars(LockAges) /\ WF_vars(RestorerEnds)
FairSpec == Spec /\ Fairness

-----------------------------------------------------------------------------
(* Properties                                                              *)

\* "never start the previous image against a potentially newer schema": no
\* service runs a release older than the one whose migrations may have begun,
\* whatever fails and wherever the Launcher dies.
NoOldImageOnNewSchema == \A s \in Services : app[s] # 0 => app[s] >= db

\* The migrations of a release begin only when every service is down: the
\* drain comes first on every way, also after a crash left things halfway.
MigratesDrained == db' # db => app = AllDown
DrainedBeforeMigration == [][MigratesDrained]_vars

\* A restore that began on whole data brings the services up on whole data, or
\* leaves them down, whichever of its steps fails.
StartsWholeData ==
    op.kind = "restore" /\ op.whole /\ (\E s \in Services : app'[s] > app[s])
        => data # "partial" /\ ~restorer
RestoreStartsWholeData == [][StartsWholeData]_vars

\* What the operation reports is what the administrator finds: after a success
\* or a safe stop the services run the selected release, all or none of them,
\* and a retained target is no older than the schema.
ReportIsTrue ==
    /\ said \in {"ok", "stopped safely"} => app \in {AllDown, AllUp}
    /\ said = "target retained" => sel >= db

\* Every operation ends, and a dead one does not block the server for ever.
LockIsReleased == lock # "free" ~> lock = "free"

\* "Restarting Omlorix with the existing or recovered server data": a restore
\* never starts the services on data that is not whole.
RestartsOnWholeData ==
    [][op.kind = "restore" /\ (\E s \in Services : app'[s] > app[s])
        => data # "partial" /\ ~restorer]_vars

\* "Omlorix was left offline" is said when it is.
LeftOfflineIsOffline == said = "left offline" => app = AllDown
=============================================================================
