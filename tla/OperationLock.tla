--------------------------- MODULE OperationLock ---------------------------
(***************************************************************************)
(* The lock file .omlorix-server.lock under which the Launcher             *)
(* (acquireSharedOperationLock, withSharedOperationLock of                 *)
(* electron/server-manager.js) and the command line program                *)
(* (acquireOperationLock of cmd/omlorix-server-cli) change a server.  The  *)
(* file is created exclusively, removed by the release, left behind by a   *)
(* crash, and taken over when it is older than six hours.                  *)
(***************************************************************************)
EXTENDS Integers, FiniteSets

CONSTANTS
    Commands,   \* processes of the command line program
    Calls,      \* operations of the one Launcher, which share its thread
    Daemon,     \* the auto-update daemon, which asks for ever
    None        \* nobody

ASSUME LockAssumption ==
    /\ Commands \cap Calls = {}
    /\ Daemon \in Commands
    /\ None \notin Commands \cup Calls

Takers == Commands \cup Calls

VARIABLES
    by,         \* who created the lock file, None when there is no file
    old,        \* whether its age is past six hours
    pc,         \* where each taker is
    active,     \* activeOperation of the Launcher
    mishaps     \* history: what went wrong with a takeover

vars == <<by, old, pc, active, mishaps>>

TypeOK ==
    /\ by \in Takers \cup {None}
    /\ old \in BOOLEAN /\ (old => by # None)
    /\ pc \in [Takers -> {"idle", "stat", "remove", "reopen", "holds"}]
    /\ active \in BOOLEAN
    /\ active => \E c \in Calls : pc[c] = "holds"
    /\ mishaps \subseteq {"overlong", "race"}

Init == /\ by = None /\ old = FALSE
        /\ pc = [t \in Takers |-> "idle"]
        /\ active = FALSE /\ mishaps = {}

Holders == {t \in Takers : pc[t] = "holds"}

\* The calls of the Launcher are synchronous: one at a time takes the lock.
HasThread(t) == t \in Calls =>
                   \A c \in Calls \ {t} : pc[c] \notin {"stat", "remove", "reopen"}

Goes(t, at) == pc' = [pc EXCEPT ![t] = at]

-----------------------------------------------------------------------------
\* The exclusive open created the file; what is written into it decides nothing.
Create(t) == /\ by = None
             /\ by' = t /\ old' = FALSE /\ Goes(t, "holds")
             /\ UNCHANGED <<active, mishaps>>

\* Faulty variant: an existing file is opened as well.
OpenShared(t) ==
    /\ pc[t] = "idle" /\ HasThread(t) /\ ~(t \in Calls /\ active)
    /\ by' = t /\ old' = FALSE /\ Goes(t, "holds") /\ UNCHANGED <<active, mishaps>>

\* The Launcher refuses first when it knows of an operation of its own.
Open(t) ==
    /\ pc[t] = "idle" /\ HasThread(t) /\ ~(t \in Calls /\ active)
    /\ \/ Create(t)
       \/ by # None /\ Goes(t, "stat") /\ UNCHANGED <<by, old, active, mishaps>>

\* Faulty variant: an old lock is respected as well.
StatNever(t) ==
    /\ pc[t] = "stat" /\ HasThread(t)
    /\ Goes(t, IF by = None /\ t \in Calls THEN "reopen" ELSE "idle")
    /\ UNCHANGED <<by, old, active, mishaps>>

\* The file may be gone by now: the Launcher opens again, the command gives up.
Stat(t) ==
    /\ pc[t] = "stat" /\ HasThread(t)
    /\ Goes(t, IF by = None THEN IF t \in Calls THEN "reopen" ELSE "idle"
               ELSE IF old THEN "remove" ELSE "idle")
    /\ UNCHANGED <<by, old, active, mishaps>>

\* What is removed is whatever file is there now.
Remove(t) ==
    /\ pc[t] = "remove" /\ HasThread(t)
    /\ Goes(t, IF by # None \/ t \in Calls THEN "reopen" ELSE "idle")
    /\ by' = None /\ old' = FALSE
    /\ mishaps' = IF by # None /\ ~old THEN mishaps \cup {"race"} ELSE mishaps
    /\ UNCHANGED active

Reopen(t) ==
    /\ pc[t] = "reopen" /\ HasThread(t)
    /\ \/ Create(t)
       \/ by # None /\ Goes(t, "idle") /\ UNCHANGED <<by, old, active, mishaps>>

\* The operation notes its name in activeOperation.
Mark(c) == /\ pc[c] = "holds" /\ ~active /\ active' = TRUE
           /\ UNCHANGED <<by, old, pc, mishaps>>

\* Faulty variant: activeOperation is not cleared.
ReleaseMarked(t) == /\ pc[t] = "holds"
                    /\ by' = None /\ old' = FALSE /\ Goes(t, "idle")
                    /\ UNCHANGED <<active, mishaps>>

\* The release removes the file at the path, whoever created it.
Release(t) == /\ pc[t] = "holds"
              /\ by' = None /\ old' = FALSE /\ Goes(t, "idle")
              /\ active' = IF t \in Calls THEN FALSE ELSE active
              /\ UNCHANGED mishaps

\* A killed process leaves the file; the Launcher dies with all its calls.
Crash(t) ==
    /\ pc' = [u \in Takers |-> IF u = t \/ {t, u} \subseteq Calls THEN "idle" ELSE pc[u]]
    /\ active' = IF t \in Calls THEN FALSE ELSE active
    /\ UNCHANGED <<by, old, mishaps>>

\* Six hours pass, for the file of a dead process or of a long operation.
Age ==
    /\ by # None /\ ~old /\ old' = TRUE
    /\ mishaps' = IF by \in Holders THEN mishaps \cup {"overlong"} ELSE mishaps
    /\ UNCHANGED <<by, pc, active>>

Take(t) == Open(t) \/ Stat(t) \/ Remove(t) \/ Reopen(t)

Next == \/ \E t \in Takers : Take(t) \/ Release(t) \/ Crash(t)
        \/ \E c \in Calls : Mark(c)
        \/ Age

Spec == Init /\ [][Next]_vars

\* Files grow old; the daemon asks again in each of its windows, and when it is
\* killed it is not killed at the same place for ever.
FairSpec == /\ Spec /\ WF_vars(Age)
            /\ SF_vars(Open(Daemon)) /\ SF_vars(Stat(Daemon))
            /\ SF_vars(Remove(Daemon)) /\ SF_vars(Reopen(Daemon))

-----------------------------------------------------------------------------
(* Properties                                                              *)

\* Two operations change the server at once only after a takeover went wrong:
\* an operation outlived the six hours, or a taker removed a fresh file.
OverlapNeedsMishap == mishaps = {} => \A t, u \in Holders : t = u

Orphaned == by # None /\ Holders = {}

\* The lock of a dead process does not stop the server's operations for ever.
OrphanIsReplaced == Orphaned ~> ~Orphaned

\* "recent locks fail closed": a takeover removes old files only.
OnlyOldLocksTaken ==
    [][by # None /\ ~old /\ by' = None => \E t \in Takers : pc[t] = "holds"]_vars

\* The lock "prevents two CLI processes from mutating the same Compose project
\* or .env file concurrently".
NoOverlap == \A t, u \in Holders : t = u
=============================================================================
