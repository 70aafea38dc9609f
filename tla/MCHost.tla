------------------------------- MODULE MCHost --------------------------------
(* The host of a server for TLC: the operation lock, the operations of one  *)
(* Launcher, and automatic updates.  One part runs, the others rest.        *)
EXTENDS OperationLock

CONSTANTS
    daemon, c1, l1, l2,
    Services, Fastapi, Latest, Channels, MaxOps,            \* of ServerOps
    MaxTime, MaxEdits, MaxCrashes                           \* of AutoUpdate

VARIABLES
    part,                                                   \* the part that runs
    sel, chan, app, db, data, restorer, op, said, held, begun,
    now, store, mem, timer, flow, draft, temp, lock, auto, command, wish, attempts, crossed,
    edits, crashes

opsVars  == <<sel, chan, app, db, data, restorer, op, said, held, begun>>
autoVars == <<now, store, mem, timer, flow, draft, temp, lock, auto, command, wish, attempts,
              crossed, edits, crashes>>
allVars  == <<part, vars, opsVars, autoVars>>

TwoCommands == {daemon, c1}
TwoCalls    == {l1, l2}

Ops == INSTANCE ServerOps WITH WithRepair <- TRUE, lock <- held

Updates == INSTANCE AutoUpdate WITH WithDaemon <- FALSE, WithCommands <- FALSE, daemon <- auto

ASSUME HostAssumption == Ops!OpsAssumption /\ Updates!UpdateAssumption

HostInit ==
    /\ part \in {"lock", "ops", "repair", "auto"}
    /\ Init /\ Ops!Init /\ Updates!Init
    /\ part \in {"lock", "auto"} => chan = Ops!Unset[2] /\ app = Ops!AllDown
    /\ part # "auto" => wish

\* Bound: once the page was at work beside an unlocked schedule nothing is promised of
\* it, and what is under way ends.
CrossedEnds == crossed => UNCHANGED <<now, edits, crashes>>

\* Addresses are repaired in a part of its own, which knows no other channel and
\* leaves the newest release out.
HostNext ==
    \/ part = "lock" /\ Next /\ UNCHANGED <<part, opsVars, autoVars>>
    \/ part = "ops" /\ Ops!Next /\ op'.kind # "repair" /\ UNCHANGED <<part, vars, autoVars>>
    \/ /\ part = "repair" /\ Ops!Next /\ chan' = chan /\ sel' < Latest
       /\ UNCHANGED <<part, vars, autoVars>>
    \/ part = "auto" /\ Updates!Next /\ CrossedEnds /\ UNCHANGED <<part, vars, opsVars>>

\* The daemon of a resting lock asks for nothing.
HostFairness ==
    /\ WF_vars(Age)
    /\ SF_vars(part = "lock" /\ Open(Daemon)) /\ SF_vars(Stat(Daemon))
    /\ SF_vars(Remove(Daemon)) /\ SF_vars(Reopen(Daemon))
    /\ Ops!Fairness

HostSpec == HostInit /\ [][HostNext]_allVars /\ HostFairness

-----------------------------------------------------------------------------
TypesOK == TypeOK /\ Ops!TypeOK /\ Updates!TypeOK

\* Services never run on a schema newer than their release, and what the last
\* operation said of the server is so.
NoOldImageOnNewSchema == part = "ops" => Ops!NoOldImageOnNewSchema /\ Ops!ReportIsTrue

\* Migrations wait for the drain, and a restore that began on whole data starts
\* the services on whole data.
StepsInOrder == [][(part = "ops" => Ops!MigratesDrained) /\ Ops!StartsWholeData]_opsVars

\* Edits of the schedule survive, no window is attempted twice, and the next one
\* has its timer.
ScheduleIsKept == Updates!EditsSurvive /\ Updates!OncePerWindow /\ Updates!TimerIsArmed

\* A lock is not held for ever, whoever died with it.
LocksEnd == OrphanIsReplaced /\ Ops!LockIsReleased
=============================================================================
