----------------------------- MODULE AutoUpdate -----------------------------
(***************************************************************************)
(* Automatic updates: the Launcher (ScheduledUpdateManager of              *)
(* electron/scheduled-updates.js), the daemon and the commands of the      *)
(* command line program (cmd/omlorix-server-cli/scheduled_updates.go)      *)
(* share scheduled-updates.json and the operation lock.  The Launcher      *)
(* works on a copy in memory, which it reloads under the lock; but at its  *)
(* start, and when the timer finds the lock held or its window attempted,  *)
(* it schedules and saves without it, and while it waits for the release   *)
(* server or the file, the settings page may be at work on the same copy.  *)
(*                                                                         *)
(* The time 2w - 1 is maintenance window w, an even time lies between two  *)
(* windows.                                                                *)
(***************************************************************************)
EXTENDS Integers

CONSTANTS
    MaxTime,        \* bound: the last time, every day has one window
    WithDaemon,     \* whether a daemon runs on the host
    WithCommands,   \* whether auto-update enable and disable are used
    MaxEdits,       \* bound: edits of the settings and manual runs
    MaxCrashes      \* bound: deaths of the Launcher

UpdateAssumption ==
    /\ MaxTime \in Nat /\ MaxEdits \in Nat /\ MaxCrashes \in Nat
    /\ WithDaemon \in BOOLEAN /\ WithCommands \in BOOLEAN

VARIABLES
    now,        \* the time
    store,      \* scheduled-updates.json
    mem,        \* settings and status in the Launcher's memory
    timer,      \* the time the Launcher's timer fires, 0 when there is none
    flow,       \* the two flows of the Launcher
    draft,      \* what each of them is about to write
    temp,       \* scheduled-updates.json.tmp, empty when there is none
    lock,       \* who holds the operation lock, "" when it is free
    daemon,     \* where the daemon is, and the store it read
    command,    \* where a command is, the store it read, what it sets
    wish,       \* history: what the last edit that was accepted asked for
    attempts,   \* history: automatic attempts per window
    crossed,    \* history: the page worked while the timer scheduled without the lock
    edits, crashes

vars == <<now, store, mem, timer, flow, draft, temp, lock, daemon, command, wish, attempts,
          crossed, edits, crashes>>

Windows == 1 .. (MaxTime + 1) \div 2
Keys    == Windows \cup {0}     \* 0: no attempt, or a manual run
Time(w) == 2 * w - 1

States == {"idle", "scheduled", "running", "blocked", "done"}

\* on: enabled; key: lastAttemptWindowKey;
\* next: nextRunAt as a time, 0 when it is empty.
Store == [on : BOOLEAN, state : States, key : Keys,
          next : 0 .. MaxTime + 2]

\* wake: the timer; ui: the settings page and "run now".  key is the window of
\* a run (0: manual), sets the value of an edit; arms: the timer is set at the end.
Flows == {"wake", "ui"}
Planning == {"refresh", "save", "write", "rename", "arm"}   \* the awaits of scheduleNext
Flow == [at : {"idle", "lock", "load", "run", "schedule"} \cup Planning,
         does : {"run", "edit"}, key : Keys, sets : BOOLEAN, arms : BOOLEAN]

TypeOK ==
    /\ now \in 0 .. MaxTime
    /\ store \in Store /\ mem \in Store
    /\ timer \in 0 .. MaxTime + 2
    /\ flow \in [Flows -> Flow]
    /\ lock \in {"", "wake", "ui", "daemon", "command", "other", "orphan"}
    /\ draft \in [Flows -> Store] /\ temp \in SUBSET Store
    /\ \A f \in Flows : lock = f => flow[f].at \in {"load", "run"} \cup Planning
    /\ daemon \in [at : {"sleep", "lock", "run", "write"}, copy : Store]
    /\ command \in [at : {"idle", "read", "write"}, copy : Store, sets : BOOLEAN]
    /\ wish \in BOOLEAN /\ crossed \in BOOLEAN
    /\ attempts \in [Windows -> Nat]
    /\ edits \in 0 .. MaxEdits /\ crashes \in 0 .. MaxCrashes

\* nextRunDate: the first window that begins after now, when updates are on.
NextDate    == IF now % 2 = 1 THEN now + 2 ELSE now + 1
NextRun(on) == IF on THEN NextDate ELSE 0

Resting == [at |-> "idle", does |-> "run", key |-> 0, sets |-> FALSE, arms |-> FALSE]
DefaultStore == [on |-> FALSE, state |-> "idle", key |-> 0, next |-> 0]

\* The Launcher has started; the store is as an earlier session left it.
Init ==
    /\ now = 0 /\ wish \in BOOLEAN
    /\ store = [on |-> wish, state |-> IF wish THEN "scheduled" ELSE "idle", key |-> 0,
                next |-> NextRun(wish)]
    /\ mem = store /\ timer = store.next
    /\ flow = [f \in Flows |-> Resting]
    /\ draft = [f \in Flows |-> DefaultStore] /\ temp = {}
    /\ lock = "" /\ crossed = FALSE
    /\ daemon = [at |-> "sleep", copy |-> DefaultStore]
    /\ command = [at |-> "idle", copy |-> DefaultStore, sets |-> FALSE]
    /\ attempts = [w \in Windows |-> 0]
    /\ edits = 0 /\ crashes = 0

World == <<daemon, command, edits, crashes>>
Files == <<draft, temp>>

-----------------------------------------------------------------------------
(* The Launcher                                                            *)

Moves(f, at) == flow' = [flow EXCEPT ![f].at = at]
Rests(f)     == flow' = [flow EXCEPT ![f] = Resting]

Frees(f) == lock' = IF lock = f THEN "" ELSE lock

\* nextRunAt and state as scheduleNext sets them.
Planned(m) ==
    IF m.on THEN [m EXCEPT !.next = NextDate, !.state = IF @ = "idle" THEN "scheduled" ELSE @]
    ELSE [m EXCEPT !.next = 0, !.state = "idle"]

\* scheduleNext as far as its first await, with m in memory: a block is looked up,
\* the rest is saved.
Plans(f, m) ==
    LET asks == m.on /\ m.state = "blocked" IN
    /\ timer' = 0
    /\ mem' = IF asks THEN m ELSE Planned(m)
    /\ flow' = [flow EXCEPT ![f].at = IF asks THEN "refresh" ELSE "save", ![f].arms = m.on]

\* The timer is spent.  A wake that finds the updates off or blocked leaves it so;
\* one that is early sets it again, one whose window was attempted only schedules.
Wake ==
    LET next == IF mem.next # 0 THEN mem.next ELSE NextDate
        key  == (next + 1) \div 2
    IN  /\ timer # 0 /\ now >= timer /\ flow["wake"].at = "idle"
        /\ IF ~mem.on \/ mem.state = "blocked" THEN timer' = 0 /\ UNCHANGED <<mem, flow>>
           ELSE IF next > now THEN timer' = mem.next /\ UNCHANGED <<mem, flow>>
           ELSE IF mem.key = key THEN Plans("wake", mem)
           ELSE /\ timer' = 0 /\ UNCHANGED mem
                /\ flow' = [flow EXCEPT !["wake"] = [Resting EXCEPT !.at = "lock", !.key = key]]
        /\ UNCHANGED <<now, store, lock, wish, attempts, Files, World>>

\* The settings page saves, or the user runs an update now.
Ask(does, sets) ==
    /\ flow["ui"].at = "idle" /\ edits < MaxEdits
    /\ flow' = [flow EXCEPT !["ui"] = [Resting EXCEPT !.at = "lock", !.does = does, !.sets = sets]]
    /\ edits' = edits + 1
    /\ UNCHANGED <<now, store, mem, timer, lock, wish, attempts, Files, daemon, command, crashes>>

\* withSharedLock: the page is told of a lock that is held, the timer's failure
\* is recorded in the memory and scheduled from there.
TakeLock(f) ==
    /\ flow[f].at = "lock"
    /\ \/ lock = "" /\ lock' = f /\ Moves(f, "load") /\ UNCHANGED <<mem, timer>>
       \/ /\ lock # "" /\ UNCHANGED lock
          /\ IF f = "ui" THEN Rests(f) /\ UNCHANGED <<mem, timer>>
             ELSE Plans(f, [mem EXCEPT !.state = "done"])
    /\ UNCHANGED <<now, store, wish, attempts, Files, World>>

\* load: the status of a store that is off is normalised.
Loaded == IF store.on THEN store ELSE [store EXCEPT !.state = "idle", !.next = 0]

\* saveSettings
LoadEdit(f) ==
    /\ flow[f].at = "load" /\ flow[f].does = "edit"
    /\ Plans(f, [Loaded EXCEPT !.on = flow[f].sets,
                               !.state = IF flow[f].sets THEN "scheduled" ELSE "idle"])
    /\ UNCHANGED <<now, store, lock, wish, attempts, Files, World>>

\* runUpdate: a run of the timer that finds the updates off only stops;
\* otherwise the attempt is noted and saved before it begins.
LoadRun(f) ==
    /\ flow[f].at = "load" /\ flow[f].does = "run"
    /\ IF f = "wake" /\ ~Loaded.on
       THEN mem' = Loaded /\ Frees(f) /\ Rests(f) /\ UNCHANGED <<store, timer, attempts>>
       ELSE /\ mem' = [Loaded EXCEPT !.state = "running", !.key = flow[f].key]
            /\ store' = mem' /\ timer' = 0 /\ Moves(f, "run")
            /\ attempts' = [w \in Windows |-> IF w = flow[f].key THEN attempts[w] + 1
                                              ELSE attempts[w]]
            /\ UNCHANGED lock
    /\ UNCHANGED <<now, wish, Files, World>>

\* A skip, a success or a failure is scheduled; a release that needs a newer
\* Launcher blocks the updates.
Run(f) ==
    /\ flow[f].at = "run"
    /\ \/ Plans(f, [mem EXCEPT !.state = "done"]) /\ UNCHANGED <<store, lock>>
       \/ /\ mem' = [mem EXCEPT !.state = "blocked", !.next = 0]
          /\ store' = mem' /\ Frees(f) /\ Rests(f) /\ UNCHANGED timer
    /\ UNCHANGED <<now, wish, attempts, Files, World>>

\* The start goes on to schedule when it has given the lock back.
Schedule(f) ==
    /\ flow[f].at = "schedule" /\ Plans(f, mem)
    /\ UNCHANGED <<now, store, lock, wish, attempts, Files, World>>

\* refreshLauncherBlock: the release can be installed by now, or not.
Refresh(f) ==
    /\ flow[f].at = "refresh"
    /\ \/ Plans(f, [mem EXCEPT !.state = "scheduled"])
       \/ /\ mem' = [mem EXCEPT !.next = 0] /\ UNCHANGED timer
          /\ flow' = [flow EXCEPT ![f].at = "save", ![f].arms = FALSE]
    /\ UNCHANGED <<now, store, lock, wish, attempts, Files, World>>

\* save: the memory is copied once the directory is there, ...
Serialise(f) ==
    /\ flow[f].at = "save" /\ Moves(f, "write") /\ draft' = [draft EXCEPT ![f] = mem]
    /\ UNCHANGED <<now, store, mem, timer, lock, wish, attempts, temp, World>>

\* ... the copy is written to the one temporary file, ...
Write(f) ==
    /\ flow[f].at = "write" /\ Moves(f, "rename")
    /\ temp' = {draft[f]} /\ draft' = [draft EXCEPT ![f] = DefaultStore]
    /\ UNCHANGED <<now, store, mem, timer, lock, wish, attempts, World>>

\* ... and this is renamed, unless the other flow has done so: that is an error, which
\* the timer schedules once more when it has not come from there.
Rename(f) ==
    /\ flow[f].at = "rename"
    /\ \/ /\ \E copy \in temp : store' = copy
          /\ temp' = {} /\ Moves(f, "arm") /\ UNCHANGED <<mem, timer, lock>>
       \/ /\ temp = {} /\ Frees(f) /\ UNCHANGED <<store, temp>>
          /\ \/ Rests(f) /\ UNCHANGED <<mem, timer>>
             \/ f = "wake" /\ Plans(f, [mem EXCEPT !.state = "done"])
    /\ UNCHANGED <<now, wish, attempts, draft, World>>

\* The end of scheduleNext: armTimer goes by the memory as it is now.
Arm(f) ==
    /\ flow[f].at = "arm" /\ Frees(f) /\ Rests(f)
    /\ timer' = IF ~flow[f].arms THEN timer
                ELSE IF mem.on /\ mem.state # "blocked" THEN mem.next ELSE 0
    /\ wish' = IF flow[f].does = "edit" THEN flow[f].sets ELSE wish
    /\ UNCHANGED <<now, store, mem, attempts, Files, World>>

\* The Launcher dies and is started again when the lock is free: initialize
\* loads under the lock and schedules.
Crash ==
    /\ crashes < MaxCrashes /\ crashes' = crashes + 1
    /\ lock' = IF lock \in Flows THEN "orphan" ELSE lock
    /\ flow' = [f \in Flows |-> [Resting EXCEPT !.at = IF f = "wake" THEN "lock" ELSE "idle",
                                                !.does = "edit"]]
    /\ timer' = 0 /\ mem' = DefaultStore /\ draft' = [f \in Flows |-> DefaultStore]
    \* an edit that was not answered yet may or may not have been saved
    /\ wish' = IF flow["ui"].does = "edit" /\ flow["ui"].at \in Planning THEN store.on ELSE wish
    /\ UNCHANGED <<now, store, temp, attempts, daemon, command, edits>>

Starting == flow["wake"].does = "edit" /\ flow["wake"].at = "lock"

\* Faulty variant: the start schedules without reading the store.
BootUnread ==
    /\ Starting /\ lock = ""
    /\ flow' = [flow EXCEPT !["wake"] = [Resting EXCEPT !.at = "schedule"]]
    /\ UNCHANGED <<now, store, mem, timer, lock, wish, attempts, Files, World>>

Boot ==
    /\ Starting /\ lock = ""
    /\ mem' = Loaded
    /\ flow' = [flow EXCEPT !["wake"] = [Resting EXCEPT !.at = "schedule"]]
    /\ UNCHANGED <<now, store, timer, lock, wish, attempts, Files, World>>

Launcher ==
    \/ Wake /\ ~Starting
    \/ ~Starting /\ (Ask("run", FALSE) \/ \E b \in BOOLEAN : Ask("edit", b))
    \/ ~Starting /\ \E f \in Flows : TakeLock(f)
    \/ \E f \in Flows : \/ LoadEdit(f) \/ LoadRun(f) \/ Run(f) \/ Schedule(f) \/ Refresh(f)
                       \/ Serialise(f) \/ Write(f) \/ Rename(f) \/ Arm(f)
    \/ Crash \/ Boot

-----------------------------------------------------------------------------
(* The command line program                                                *)

LauncherSame == UNCHANGED <<mem, timer, flow, Files>>

\* The daemon polls the store, within the first minutes of a window.
DaemonReads ==
    /\ WithDaemon /\ daemon.at = "sleep"
    /\ now % 2 = 1 /\ store.on /\ store.key # (now + 1) \div 2
    /\ daemon' = [at |-> "lock", copy |-> [store EXCEPT !.key = (now + 1) \div 2]]
    /\ LauncherSame /\ UNCHANGED <<now, store, lock, command, wish, attempts, edits, crashes>>

\* writeScheduledUpdates: the whole store, with the next run.
Written(copy) == [copy EXCEPT !.next = NextRun(copy.on)]

\* A lock that is held is recorded as a skip, in the store read before.
DaemonLocks ==
    /\ daemon.at = "lock"
    /\ \/ /\ lock = "" /\ lock' = "daemon"
          /\ daemon' = [daemon EXCEPT !.at = "run"] /\ UNCHANGED store
       \/ /\ lock # "" /\ store' = Written([daemon.copy EXCEPT !.state = "done"])
          /\ daemon' = [daemon EXCEPT !.at = "sleep"] /\ UNCHANGED lock
    /\ LauncherSame /\ UNCHANGED <<now, command, wish, attempts, edits, crashes>>

DaemonRuns ==
    /\ daemon.at = "run" /\ daemon' = [daemon EXCEPT !.at = "write"]
    /\ attempts' = [attempts EXCEPT ![daemon.copy.key] = @ + 1]
    /\ LauncherSame /\ UNCHANGED <<now, store, lock, command, wish, edits, crashes>>

DaemonWrites ==
    /\ daemon.at = "write" /\ daemon' = [daemon EXCEPT !.at = "sleep"]
    /\ store' = Written([daemon.copy EXCEPT !.state = "done"]) /\ lock' = ""
    /\ LauncherSame /\ UNCHANGED <<now, command, wish, attempts, edits, crashes>>

\* auto-update enable and disable run under the lock.
CommandBegins(sets) ==
    /\ WithCommands /\ command.at = "idle" /\ edits < MaxEdits /\ lock = ""
    /\ edits' = edits + 1 /\ lock' = "command"
    /\ command' = [at |-> "read", copy |-> DefaultStore, sets |-> sets]
    /\ LauncherSame /\ UNCHANGED <<now, store, daemon, wish, attempts, crashes>>

CommandReads ==
    /\ command.at = "read"
    /\ command' = [command EXCEPT !.at = "write", !.copy = store]
    /\ LauncherSame /\ UNCHANGED <<now, store, lock, daemon, wish, attempts, edits, crashes>>

CommandWrites ==
    /\ command.at = "write" /\ command' = [command EXCEPT !.at = "idle"]
    /\ store' = Written([command.copy EXCEPT !.on = command.sets,
                            !.state = IF command.sets THEN "scheduled" ELSE "idle"])
    /\ wish' = command.sets /\ lock' = ""
    /\ LauncherSame /\ UNCHANGED <<now, daemon, attempts, edits, crashes>>

Cli == \/ DaemonReads \/ DaemonLocks \/ DaemonRuns \/ DaemonWrites
       \/ \E b \in BOOLEAN : CommandBegins(b)
       \/ CommandReads \/ CommandWrites

-----------------------------------------------------------------------------
\* Another operation on the server takes the lock and gives it back; the lock
\* of a dead Launcher grows old.
Other == /\ \/ lock = "" /\ lock' = "other"
            \/ lock \in {"other", "orphan"} /\ lock' = ""
         /\ LauncherSame /\ UNCHANGED <<now, store, daemon, command, wish, attempts, edits, crashes>>

Tick == /\ now < MaxTime /\ now' = now + 1
        /\ LauncherSame
        /\ UNCHANGED <<store, lock, daemon, command, wish, attempts, edits, crashes>>

\* The settings page is at work while the timer, or the start, schedules without the lock.
Crossing == /\ flow["wake"].at \in Planning \cup {"schedule"} /\ lock # "wake"
            /\ flow["ui"].at \in Planning \cup {"load", "run"}

Next == /\ Launcher \/ Cli \/ Other \/ Tick
        /\ crossed' = (crossed \/ Crossing')

Spec == Init /\ [][Next]_vars

\* Every begun flow goes on, and other operations end.
FairSpec == Spec /\ WF_vars(Boot) /\ \A f \in Flows :
    WF_vars(\/ TakeLock(f) \/ LoadEdit(f) \/ LoadRun(f) \/ Run(f) \/ Schedule(f) \/ Refresh(f)
            \/ Serialise(f) \/ Write(f) \/ Rename(f) \/ Arm(f))

-----------------------------------------------------------------------------
(* Properties                                                              *)

Quiet == /\ \A f \in Flows : flow[f].at = "idle"
         /\ daemon.at = "sleep" /\ command.at = "idle"

\* "a CLI edit completed since Launcher startup cannot be overwritten by stale
\* state": when nothing is going on the store says what the last edit asked for, ...
EditsSurvive == Quiet /\ ~crossed => store.on = wish

\* A maintenance window is attempted at most once, also when the Launcher dies
\* in it, a run fails, or the user runs an update in between, ...
OncePerWindow == ~crossed => \A w \in Windows : attempts[w] <= 1

\* A Launcher that believes updates are on and not blocked has a timer, whatever
\* way the last run, wake or edit ended ...
TimerIsArmed ==
    (/\ flow["wake"].at = "idle" /\ flow["ui"].at = "idle" /\ ~crossed
     /\ mem.on /\ mem.state # "blocked") => timer > 0

\* ... unless the settings page was at work while the timer scheduled without the lock.
=============================================================================
