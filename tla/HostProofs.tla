------------------------------ MODULE HostProofs ------------------------------
(***************************************************************************)
(* Proofs about the host of a server: the operation lock, the operations   *)
(* of one Launcher and automatic updates, each on its own and as parts of  *)
(* MCHost, for every set of processes, calls, services and channels, every *)
(* number of releases and every bound.                                     *)
(***************************************************************************)
EXTENDS MCHost, TLAPS

-----------------------------------------------------------------------------
(* The operation lock.  The inductive invariant: as long as no takeover    *)
(* went wrong, whoever holds the lock created the file that is there, and  *)
(* it is fresh; so nobody else can have found no file, and nobody may      *)
(* remove it.                                                              *)

OwnsFile == mishaps = {} => \A t \in Takers : pc[t] = "holds" => by = t /\ ~old

LockInv == TypeOK /\ OwnsFile

\* The types hold in every state, activeOperation only beside a call that holds.
LEMMA LockTypeStep == LockAssumption /\ TypeOK /\ [Next]_vars => TypeOK'
<1> SUFFICES ASSUME LockAssumption, TypeOK, [Next]_vars PROVE TypeOK'
  OBVIOUS
<1> USE DEF TypeOK, LockAssumption
<1>1. CASE UNCHANGED vars
  BY <1>1 DEF vars
<1>2. ASSUME NEW t \in Takers, Open(t) PROVE TypeOK'
  <2>1. pc' \in [Takers -> {"idle", "stat", "remove", "reopen", "holds"}]
    BY <1>2 DEF Open, Create, Goes
  <2>2. active' = active /\ mishaps' = mishaps
    BY <1>2 DEF Open, Create
  <2>3. \A v \in Takers : pc[v] = "holds" => pc'[v] = "holds"
    BY <1>2 DEF Open, Create, Goes
  <2>4. by' \in Takers \cup {None} /\ old' \in BOOLEAN /\ (old' => by' # None)
    BY <1>2 DEF Open, Create
  <2> QED BY <2>1, <2>2, <2>3, <2>4 DEF Takers
<1>3. ASSUME NEW t \in Takers, Stat(t) PROVE TypeOK'
  BY <1>3 DEF Stat, Goes, Takers
<1>4. ASSUME NEW t \in Takers, Remove(t) PROVE TypeOK'
  <2>1. mishaps' \subseteq {"overlong", "race"}
    BY <1>4 DEF Remove
  <2> QED BY <1>4, <2>1 DEF Remove, Goes, Takers
<1>5. ASSUME NEW t \in Takers, Reopen(t) PROVE TypeOK'
  <2>1. pc' \in [Takers -> {"idle", "stat", "remove", "reopen", "holds"}]
    BY <1>5 DEF Reopen, Create, Goes
  <2>2. active' = active /\ mishaps' = mishaps
    BY <1>5 DEF Reopen, Create
  <2>3. \A v \in Takers : pc[v] = "holds" => pc'[v] = "holds"
    BY <1>5 DEF Reopen, Create, Goes
  <2>4. by' \in Takers \cup {None} /\ old' \in BOOLEAN /\ (old' => by' # None)
    BY <1>5 DEF Reopen, Create
  <2> QED BY <2>1, <2>2, <2>3, <2>4 DEF Takers
<1>6. ASSUME NEW t \in Takers, Release(t) PROVE TypeOK'
  <2>1. ASSUME t \notin Calls PROVE \A c \in Calls : pc'[c] = pc[c]
    BY <1>6, <2>1 DEF Release, Goes, Takers
  <2> QED BY <1>6, <2>1 DEF Release, Goes, Takers
<1>7. ASSUME NEW t \in Takers, Crash(t) PROVE TypeOK'
  <2>1. pc' \in [Takers -> {"idle", "stat", "remove", "reopen", "holds"}]
    BY <1>7 DEF Crash
  <2>2. ASSUME t \notin Calls PROVE \A c \in Calls : pc'[c] = pc[c]
    BY <1>7, <2>2 DEF Crash, Takers
  <2> QED BY <1>7, <2>1, <2>2 DEF Crash
<1>8. ASSUME NEW c \in Calls, Mark(c) PROVE TypeOK'
  BY <1>8 DEF Mark
<1>9. CASE Age
  BY <1>9 DEF Age
<1> QED BY <1>1, <1>2, <1>3, <1>4, <1>5, <1>6, <1>7, <1>8, <1>9 DEF Next, Take

\* Without a mishap the holder of the lock owns a fresh file.
LEMMA OwnsStep == LockAssumption /\ LockInv /\ [Next]_vars => OwnsFile'
<1> SUFFICES ASSUME LockAssumption, TypeOK, OwnsFile, [Next]_vars, mishaps' = {},
                    NEW u \in Takers, pc'[u] = "holds"
             PROVE  by' = u /\ ~old'
  BY DEF LockInv, OwnsFile
<1> USE DEF TypeOK, LockAssumption, OwnsFile
<1>1. CASE UNCHANGED vars
  BY <1>1 DEF vars
<1>2. ASSUME NEW t \in Takers, Create(t) PROVE by' = u /\ ~old'
  <2>1. \A v \in Takers : pc[v] # "holds"
    BY <1>2 DEF Create, Takers
  <2> QED BY <1>2, <2>1 DEF Create, Goes
<1>3. ASSUME NEW t \in Takers, Open(t) PROVE by' = u /\ ~old'
  BY <1>2, <1>3 DEF Open, Goes
<1>4. ASSUME NEW t \in Takers, Stat(t) PROVE by' = u /\ ~old'
  BY <1>4 DEF Stat, Goes
<1>5. ASSUME NEW t \in Takers, Remove(t) PROVE by' = u /\ ~old'
  <2>1. pc[u] = "holds" /\ mishaps = {}
    BY <1>5 DEF Remove, Goes
  <2>2. by = u /\ ~old /\ by # None
    BY <2>1 DEF Takers
  <2> QED BY <1>5, <2>2 DEF Remove
<1>6. ASSUME NEW t \in Takers, Reopen(t) PROVE by' = u /\ ~old'
  BY <1>2, <1>6 DEF Reopen, Goes
<1>7. ASSUME NEW t \in Takers, Release(t) PROVE by' = u /\ ~old'
  <2>1. t # u /\ pc[u] = "holds" /\ pc[t] = "holds" /\ mishaps = {}
    BY <1>7 DEF Release, Goes
  <2> QED BY <2>1
<1>8. ASSUME NEW t \in Takers, Crash(t) PROVE by' = u /\ ~old'
  <2>1. pc[u] = "holds"
    BY <1>8 DEF Crash
  <2> QED BY <1>8, <2>1 DEF Crash
<1>9. ASSUME NEW c \in Calls, Mark(c) PROVE by' = u /\ ~old'
  BY <1>9 DEF Mark
<1>10. CASE Age
  <2>1. pc[u] = "holds" /\ mishaps = {} /\ by \notin Holders
    BY <1>10 DEF Age
  <2> QED BY <2>1 DEF Holders
<1> QED BY <1>1, <1>3, <1>4, <1>5, <1>6, <1>7, <1>8, <1>9, <1>10 DEF Next, Take

\* The invariant holds in every state, for every set of commands and calls.
THEOREM LockInvariance == ASSUME LockAssumption PROVE Spec => []LockInv
<1>1. Init => LockInv
  BY DEF Init, LockInv, TypeOK, OwnsFile, LockAssumption
<1>2. LockInv /\ [Next]_vars => LockInv'
  BY LockTypeStep, OwnsStep, LockAssumption DEF LockInv
<1> QED BY <1>1, <1>2, PTL DEF Spec

\* The types of the lock, its takers and the Launcher's flag.
THEOREM LockTypes == ASSUME LockAssumption PROVE Spec => []TypeOK
BY LockInvariance, PTL DEF LockInv

\* However many processes ask, crash and take over, two operations change the
\* server at once only after an operation outlived six hours or a taker removed
\* a file that was not the old one it had seen.
THEOREM OverlapNeeds == ASSUME LockAssumption PROVE Spec => []OverlapNeedsMishap
<1>1. LockInv => OverlapNeedsMishap
  BY DEF LockInv, OwnsFile, OverlapNeedsMishap, Holders
<1> QED BY <1>1, LockInvariance, PTL

-----------------------------------------------------------------------------
(* The operations of the Launcher.                                         *)

(* What Docker does keeps the types, whether it succeeds or stops halfway. *)
LEMMA EffectTypes ==
    ASSUME Ops!OpsAssumption, Ops!TypeOK
    PROVE  /\ \A S \in SUBSET Services, ok \in BOOLEAN :
                Ops!Halt(S, ok) => app' \in [Services -> 0 .. Latest]
           /\ \A S \in SUBSET Services, deps, ok \in BOOLEAN :
                Ops!BringUp(S, deps, ok) => app' \in [Services -> 0 .. Latest] /\
                  db' \in Ops!Releases
           /\ \A ok \in BOOLEAN : Ops!Migrate(ok) => db' \in Ops!Releases
<1>1. ASSUME NEW S \in SUBSET Services, NEW ok \in BOOLEAN, Ops!Halt(S, ok)
      PROVE  app' \in [Services -> 0 .. Latest]
  BY <1>1 DEF Ops!TypeOK, Ops!Halt, Ops!OpsAssumption
<1>2. ASSUME NEW S \in SUBSET Services, NEW deps \in BOOLEAN, NEW ok \in BOOLEAN,
             Ops!BringUp(S, deps, ok)
      PROVE  app' \in [Services -> 0 .. Latest] /\ db' \in Ops!Releases
  BY <1>2 DEF Ops!TypeOK, Ops!BringUp, Ops!Newest, Ops!Releases, Ops!OpsAssumption
<1>3. ASSUME NEW ok \in BOOLEAN, Ops!Migrate(ok) PROVE db' \in Ops!Releases
  BY <1>3 DEF Ops!TypeOK, Ops!Migrate, Ops!Newest
<1> QED BY <1>1, <1>2, <1>3

LEMMA IdleIsOp == Ops!OpsAssumption /\ Ops!TypeOK => Ops!Idle \in Ops!Op /\ Ops!Idle.kind = "none"
<1> SUFFICES ASSUME Ops!OpsAssumption, Ops!TypeOK PROVE Ops!Idle \in Ops!Op
  BY DEF Ops!Idle
<1>1. (CHOOSE c \in Channels : TRUE) \in Channels
  BY DEF Ops!TypeOK
<1> QED BY <1>1 DEF Ops!Idle, Ops!Unset, Ops!Op, Ops!Kinds, Ops!Steps, Ops!Releases,
    Ops!OpsAssumption

(* The server as Docker and the files show it, and the Launcher's own record. *)
ServerOK ==
    /\ sel \in Ops!Releases /\ chan \in Channels /\ app \in [Services -> 0 .. Latest]
    /\ db \in Ops!Releases /\ data \in {"kept", "partial", "restored"} /\ restorer \in BOOLEAN

RecordOK ==
    /\ op \in Ops!Op /\ said \in Ops!Says /\ held \in {"free", "held", "orphan"}
    /\ begun \in 0 .. MaxOps /\ (held = "held" <=> op.kind # "none")

LEMMA RecordTypes ==
    ASSUME Ops!OpsAssumption, Ops!TypeOK
    PROVE  /\ \A at \in Ops!Steps : op.kind # "none" /\ Ops!GoesTo(at) => RecordOK'
           /\ \A what \in Ops!Says : Ops!Reports(what) => RecordOK'
           /\ UNCHANGED <<op, said, held, begun>> => RecordOK'
           /\ \A kind \in Ops!Kinds \ {"none"}, at \in Ops!Steps, to \in Ops!Releases \X Channels :
                 Ops!Starts(kind, at, to) => RecordOK'
<1> USE DEF Ops!TypeOK, RecordOK
<1>0. Ops!Idle \in Ops!Op /\ Ops!Idle.kind = "none"
  BY IdleIsOp
<1>1. ASSUME NEW at \in Ops!Steps, op.kind # "none", Ops!GoesTo(at) PROVE RecordOK'
  BY <1>1 DEF Ops!GoesTo, Ops!Op
<1>2. ASSUME NEW what \in Ops!Says, Ops!Reports(what) PROVE RecordOK'
  BY <1>0, <1>2 DEF Ops!Reports
<1>3. ASSUME UNCHANGED <<op, said, held, begun>> PROVE RecordOK'
  BY <1>3
<1>4. ASSUME NEW kind \in Ops!Kinds \ {"none"}, NEW at \in Ops!Steps,
             NEW to \in Ops!Releases \X Channels,
             Ops!Starts(kind, at, to)
      PROVE  RecordOK'
  <2>1. op' \in Ops!Op /\ op'.kind # "none"
    BY <1>0, <1>4 DEF Ops!Starts, Ops!Op
  <2>2. begun' \in 0 .. MaxOps
    BY <1>4 DEF Ops!Starts, Ops!OpsAssumption
  <2> QED BY <1>4, <2>1, <2>2 DEF Ops!Starts, Ops!Says
<1> QED BY <1>1, <1>2, <1>3, <1>4

\* Every step keeps the types of the release selection, the containers, the
\* schema, the data and the operation.
LEMMA OpsTypeStep == Ops!OpsAssumption /\ Ops!TypeOK /\ [Ops!Next]_opsVars => Ops!TypeOK'
<1> SUFFICES ASSUME Ops!OpsAssumption, Ops!TypeOK, [Ops!Next]_opsVars PROVE ServerOK' /\ RecordOK'
  BY DEF Ops!TypeOK, ServerOK, RecordOK
<1>0. ServerOK /\ RecordOK /\ Ops!Idle \in Ops!Op /\ Ops!Idle.kind = "none"
  BY IdleIsOp DEF Ops!TypeOK, ServerOK, RecordOK
<1>1. CASE UNCHANGED opsVars
  BY <1>0, <1>1 DEF opsVars, ServerOK, RecordOK
<1> DEFINE ServerKept == UNCHANGED <<sel, chan, app, db, data, restorer>>
<1>2. ASSUME ServerKept PROVE ServerOK'
  BY <1>0, <1>2 DEF ServerOK
<1>3. ASSUME NEW S \in SUBSET Services, NEW ok \in BOOLEAN, Ops!Halt(S, ok), restorer' \in BOOLEAN
      PROVE  ServerOK'
  BY <1>0, <1>3, EffectTypes DEF ServerOK, Ops!Halt
<1>4. ASSUME NEW ok \in BOOLEAN, Ops!TakeDown(ok) PROVE ServerOK'
  BY <1>0, <1>3, <1>4 DEF Ops!TakeDown, ServerOK
<1>5. ASSUME NEW S \in SUBSET Services, NEW deps \in BOOLEAN, NEW ok \in BOOLEAN,
             Ops!BringUp(S, deps, ok)
      PROVE  ServerOK'
  BY <1>0, <1>5, EffectTypes DEF ServerOK, Ops!BringUp
<1>6. ASSUME NEW ok \in BOOLEAN, Ops!Migrate(ok) PROVE ServerOK'
  BY <1>0, <1>6, EffectTypes DEF ServerOK, Ops!Migrate
<1> DEFINE RecordGoes == \/ op.kind # "none" /\ \E at \in Ops!Steps : Ops!GoesTo(at)
                         \/ \E what \in Ops!Says : Ops!Reports(what)
                         \/ UNCHANGED <<op, said, held, begun>>
<1>7. ASSUME RecordGoes PROVE RecordOK'
  BY <1>7, RecordTypes
<1>8. ASSUME Ops!Begin PROVE ServerOK' /\ RecordOK'
  <2>1. <<sel, chan>> \in Ops!Releases \X Channels
    BY <1>0 DEF ServerOK
  <2> QED BY <1>2, <1>8, <2>1, RecordTypes DEF Ops!Begin, Ops!Starts, Ops!Untouched, Ops!Kinds,
      Ops!Steps
<1>9. ASSUME NEW kind \in {"start", "restart"}, Ops!Launch(kind) PROVE ServerOK' /\ RecordOK'
  <2>1. RecordGoes
    BY <1>9 DEF Ops!Launch, Ops!Does, Ops!At, Ops!Steps, Ops!Says
  <2>2. ServerOK'
    BY <1>2, <1>4, <1>5, <1>6, <1>9 DEF Ops!Launch, Ops!Does, Ops!UpAll, Ops!Ready, Ops!Untouched
  <2> QED BY <2>1, <2>2, <1>7
<1>10. ASSUME Ops!Stop PROVE ServerOK' /\ RecordOK'
  <2>1. RecordGoes
    BY <1>10 DEF Ops!Stop, Ops!Does, Ops!At, Ops!Steps, Ops!Says
  <2>2. ServerOK'
    BY <1>2, <1>4, <1>10 DEF Ops!Stop, Ops!Does, Ops!Untouched
  <2> QED BY <2>1, <2>2, <1>7
<1>11. ASSUME Ops!Update PROVE ServerOK' /\ RecordOK'
  <2> DEFINE Marks == \/ op' = [op EXCEPT !.at = "drain", !.drain = TRUE]
                      \/ op' = [op EXCEPT !.at = "migrate", !.migrated = TRUE]
                      \/ op' = [op EXCEPT !.at = "failed"]
  <2>1. ASSUME Marks, op.kind # "none", UNCHANGED <<said, held, begun>> PROVE RecordOK'
    <3>1. op' \in Ops!Op /\ op'.kind = op.kind
      BY <1>0, <2>1 DEF RecordOK, Ops!Op, Ops!Steps
    <3> QED BY <1>0, <2>1, <3>1 DEF RecordOK
  <2>2. CASE \E v \in Ops!Releases, c \in Channels : Ops!UpdateBegins(v, c)
    <3>1. PICK v \in Ops!Releases, c \in Channels : Ops!UpdateBegins(v, c)
      BY <2>2
    <3>2. <<v, c>> \in Ops!Releases \X Channels
      OBVIOUS
    <3>3. RecordOK'
      BY <3>1, <3>2, RecordTypes DEF Ops!UpdateBegins, Ops!Kinds, Ops!Steps
    <3> QED BY <1>2, <3>1, <3>3 DEF Ops!UpdateBegins, Ops!Starts, Ops!Untouched
  <2>3. CASE Ops!UpdateBackup
    <3>1. RecordGoes
      BY <2>3 DEF Ops!UpdateBackup, Ops!At, Ops!Steps, Ops!Says
    <3> QED BY <1>2, <1>7, <2>3, <3>1 DEF Ops!UpdateBackup, Ops!Untouched
  <2>4. ASSUME NEW at \in Ops!Steps, NEW pair \in Ops!Releases \X Channels, NEW next \in Ops!Steps,
               Ops!WriteVersion(at, pair, next) \/ Ops!WriteChannel(at, pair, next)
        PROVE  ServerOK' /\ RecordOK'
    <3>1. RecordGoes
      BY <2>4 DEF Ops!WriteVersion, Ops!WriteChannel, Ops!At
    <3> QED BY <1>0, <1>7, <2>4, <3>1 DEF Ops!WriteVersion, Ops!WriteChannel, ServerOK
  <2>5. op.from \in Ops!Releases \X Channels /\ op.to \in Ops!Releases \X Channels
    BY <1>0 DEF RecordOK, Ops!Op
  <2>6. CASE \/ Ops!WriteVersion("version", op.to, "channel") \/
                   Ops!WriteChannel("channel", op.to, "pull")
             \/ Ops!WriteVersion("version back", op.from, "channel back")
             \/ Ops!WriteChannel("channel back", op.from, "rolled back")
    BY <2>4, <2>5, <2>6 DEF Ops!Steps
  <2>7. CASE Ops!Pull \/ Ops!Reset
    BY <1>2, <2>1, <2>7 DEF Ops!Pull, Ops!Reset, Ops!At, Ops!Untouched
  <2>8. CASE \/ Ops!Does(Ops!TakeDown, "update", "drain", "reset")
             \/ Ops!Does(Ops!Migrate, "update", "migrate", "up")
             \/ Ops!Does(Ops!UpAll, "update", "up", "ready")
             \/ Ops!Does(Ops!Ready, "update", "ready", "done")
             \/ Ops!At("update", "done") /\ Ops!Untouched /\ Ops!Reports("ok")
    <3>1. RecordGoes
      BY <2>8 DEF Ops!Does, Ops!At, Ops!Steps, Ops!Says
    <3>2. ServerOK'
      BY <1>2, <1>4, <1>5, <1>6, <2>8 DEF Ops!Does, Ops!UpAll, Ops!Ready, Ops!Untouched
    <3> QED BY <1>7, <3>1, <3>2
  <2>9. CASE Ops!UpdateFailed \/ Ops!RolledBack \/ Ops!PullBack
    <3>1. RecordGoes
      BY <2>9 DEF Ops!UpdateFailed, Ops!RolledBack, Ops!PullBack, Ops!At, Ops!Steps, Ops!Says
    <3> QED BY <1>2, <1>7, <2>9, <3>1 DEF Ops!UpdateFailed, Ops!RolledBack, Ops!PullBack,
        Ops!Untouched
  <2>10. CASE Ops!Offline \/ Ops!DrainBack \/ Ops!UpBack
    <3>1. RecordGoes
      BY <2>10 DEF Ops!Offline, Ops!DrainBack, Ops!UpBack, Ops!At, Ops!Steps, Ops!Says
    <3>2. ServerOK'
      BY <1>4, <1>5, <2>10 DEF Ops!Offline, Ops!DrainBack, Ops!UpBack
    <3> QED BY <1>7, <3>1, <3>2
  <2> QED BY <1>11, <2>2, <2>3, <2>6, <2>7, <2>8, <2>9, <2>10 DEF Ops!Update
<1>12. ASSUME Ops!Restore PROVE ServerOK' /\ RecordOK'
  <2>1. ASSUME \/ op' = [op EXCEPT !.at = "stop", !.stopTried = TRUE]
               \/ op' = [op EXCEPT !.at = "replace", !.stopped = TRUE]
               \/ op' = [op EXCEPT !.at = "replacing", !.commanded = TRUE]
               \/ op' = [op EXCEPT !.at = "up", !.replaced = TRUE]
               \/ op' = [op EXCEPT !.at = "failed", !.safe = TRUE]
               \/ op' = [op EXCEPT !.at = "ready", !.stopped = FALSE]
               \/ op' = [op EXCEPT !.at = "failed"],
               op.kind # "none", UNCHANGED <<said, held, begun>>
        PROVE  RecordOK'
    <3>1. op \in Ops!Op
      BY <1>0 DEF RecordOK
    <3>2. CASE \/ op' = [op EXCEPT !.at = "stop", !.stopTried = TRUE]
               \/ op' = [op EXCEPT !.at = "replace", !.stopped = TRUE]
               \/ op' = [op EXCEPT !.at = "replacing", !.commanded = TRUE]
               \/ op' = [op EXCEPT !.at = "failed"]
      <4>1. op' \in Ops!Op /\ op'.kind = op.kind
        BY <3>1, <3>2 DEF Ops!Op, Ops!Steps
      <4> QED BY <1>0, <2>1, <4>1 DEF RecordOK
    <3>3. CASE \/ op' = [op EXCEPT !.at = "up", !.replaced = TRUE]
               \/ op' = [op EXCEPT !.at = "failed", !.safe = TRUE]
               \/ op' = [op EXCEPT !.at = "ready", !.stopped = FALSE]
      <4>1. op' \in Ops!Op /\ op'.kind = op.kind
        BY <3>1, <3>3 DEF Ops!Op, Ops!Steps
      <4> QED BY <1>0, <2>1, <4>1 DEF RecordOK
    <3> QED BY <2>1, <3>2, <3>3
  <2>2. CASE Ops!RestoreBegins
    <3>1. <<sel, chan>> \in Ops!Releases \X Channels
      BY <1>0 DEF ServerOK
    <3> QED BY <1>2, <2>2, <3>1, RecordTypes DEF Ops!RestoreBegins, Ops!Starts, Ops!Untouched,
        Ops!Kinds, Ops!Steps
  <2>3. CASE Ops!CheckArchive
    <3>1. RecordOK'
      BY <1>7, <2>1, <2>3 DEF Ops!CheckArchive, Ops!At, Ops!Says
    <3> QED BY <1>2, <2>3, <3>1 DEF Ops!CheckArchive, Ops!Untouched
  <2>4. CASE \/ Ops!Does(Ops!StopServices, "restore", "stop", "fence")
             \/ Ops!Does(Ops!Ready, "restore", "ready", "done")
             \/ Ops!At("restore", "done") /\ Ops!Untouched /\ Ops!Reports("ok")
    <3>1. RecordGoes
      BY <2>4 DEF Ops!Does, Ops!At, Ops!Steps, Ops!Says
    <3>2. ServerOK'
      BY <1>0, <1>2, <1>3, <2>4 DEF Ops!Does, Ops!StopServices, Ops!Ready, Ops!Untouched, ServerOK
    <3> QED BY <1>7, <3>1, <3>2
  <2>5. CASE Ops!Fence \/ Ops!UpAfterRestore
    <3>1. RecordOK'
      BY <2>1, <2>5 DEF Ops!Fence, Ops!UpAfterRestore, Ops!At
    <3>2. ServerOK'
      BY <1>4, <1>5, <2>5 DEF Ops!Fence, Ops!UpAfterRestore, Ops!BackUp
    <3> QED BY <3>1, <3>2
  <2>6. CASE Ops!Replace \/ Ops!Replaced
    <3>1. RecordOK'
      BY <2>1, <2>6 DEF Ops!Replace, Ops!Replaced, Ops!At
    <3>2. ServerOK'
      BY <1>0, <2>6 DEF Ops!Replace, Ops!Replaced, ServerOK
    <3> QED BY <3>1, <3>2
  <2>7. CASE Ops!RestoreFailed \/ Ops!UpAgain \/ Ops!ReadyAgain
    <3>1. RecordGoes
      BY <2>7 DEF Ops!RestoreFailed, Ops!UpAgain, Ops!ReadyAgain, Ops!At, Ops!Steps, Ops!Says
    <3>2. ServerOK'
      BY <1>2, <1>5, <2>7 DEF Ops!RestoreFailed, Ops!UpAgain, Ops!ReadyAgain, Ops!BackUp,
         Ops!Ready, Ops!Untouched
    <3> QED BY <1>7, <3>1, <3>2
  <2> QED BY <1>12, <2>2, <2>3, <2>4, <2>5, <2>6, <2>7 DEF Ops!Restore
<1>13. ASSUME Ops!Repair PROVE ServerOK' /\ RecordOK'
  <2>1. CASE Ops!RepairBegins
    <3>1. <<sel, chan>> \in Ops!Releases \X Channels
      BY <1>0 DEF ServerOK
    <3> QED BY <1>2, <2>1, <3>1, RecordTypes DEF Ops!RepairBegins, Ops!Starts, Ops!Untouched,
        Ops!Kinds, Ops!Steps
  <2>2. CASE \/ Ops!Does(Ops!UpFastapi, "repair", "up", "done")
             \/ Ops!At("repair", "done") /\ Ops!Untouched /\ Ops!Reports("ok")
    <3>1. RecordGoes
      BY <2>2 DEF Ops!Does, Ops!At, Ops!Steps, Ops!Says
    <3>2. ServerOK'
      BY <1>2, <1>5, <2>2 DEF Ops!Does, Ops!UpFastapi, Ops!Untouched, Ops!OpsAssumption
    <3> QED BY <1>7, <3>1, <3>2
  <2> QED BY <1>13, <2>1, <2>2 DEF Ops!Repair
<1>14. ASSUME NEW v \in Ops!Releases, Ops!SelectVersion(v) PROVE ServerOK' /\ RecordOK'
  <2>1. RecordOK'
    <3>1. begun' \in 0 .. MaxOps
      BY <1>0, <1>14 DEF Ops!SelectVersion, RecordOK, Ops!OpsAssumption
    <3> QED BY <1>0, <1>14, <3>1 DEF Ops!SelectVersion, RecordOK, Ops!Says
  <2> QED BY <1>0, <1>14, <2>1 DEF Ops!SelectVersion, ServerOK
<1>15. ASSUME Ops!Crash \/ Ops!LockAges PROVE ServerOK' /\ RecordOK'
  <2>1. RecordOK'
    BY <1>0, <1>15 DEF Ops!Crash, Ops!LockAges, RecordOK, Ops!Says
  <2> QED BY <1>2, <1>15, <2>1 DEF Ops!Crash, Ops!LockAges, Ops!Untouched
<1>16. ASSUME Ops!RestorerEnds PROVE ServerOK' /\ RecordOK'
  BY <1>0, <1>7, <1>16 DEF Ops!RestorerEnds, ServerOK, RecordOK
<1> QED BY <1>1, <1>8, <1>9, <1>10, <1>11, <1>12, <1>13, <1>14, <1>15, <1>16 DEF Ops!Next, Ops!Step
-----------------------------------------------------------------------------
(* The release that is selected is never older than the schema, and neither *)
(* is the one an update may still go back to.                               *)
SchemaInv ==
    /\ sel >= db
    /\ op.kind = "update" => /\ op.to[1] >= op.from[1]
                             /\ ~op.migrated => op.from[1] >= db

(* Where an operation may touch the schema every service is down; where it   *)
(* may report success all of them run the selected release.                  *)
Launching == op.kind \in {"start", "restart", "update"}
Drained   == \/ Launching /\ op.at \in {"migrate", "up"}
             \/ op.kind = "update" /\ op.at \in {"reset", "pull back", "up back"}
             \/ op.kind = "stop" /\ op.at = "done"
Restarted == \/ Launching /\ op.at \in {"ready", "done"}
             \/ op.kind = "restore" /\ op.at \in {"ready", "done", "ready again"}

PhaseInv ==
    /\ Drained => app = Ops!AllDown
    /\ Restarted => app = Ops!AllUp
    /\ op.kind = "update" =>
          /\ op.at \in {"migrate", "up"} => op.migrated
          /\ op.at \in {"backup", "version", "channel", "pull", "drain", "version back",
                        "channel back", "rolled back", "drain back", "pull back", "up back"}
                => ~op.migrated
    /\ op.kind # "none" => said = "nothing"

OrderInv == SchemaInv /\ PhaseInv /\ Ops!NoOldImageOnNewSchema /\ Ops!ReportIsTrue

(* What a restore remembers of itself; as long as its container did not end  *)
(* without a word, data that was whole when it began is whole.               *)
Before  == {"archive", "stop", "fence", "replace"}
Settled == op.commanded => op.safe \/ op.replaced

RestoreInv ==
    op.kind = "restore" =>
        /\ op.at \in Before => ~op.commanded
        /\ op.at \in Before \cup {"replacing"} => ~op.safe /\ ~op.replaced
        /\ op.at \in {"replace", "replacing"} => op.stopped
        /\ op.at = "replacing" => op.commanded
        /\ op.commanded => op.stopped \/ op.replaced
        /\ op.at = "up" => op.replaced
        /\ op.at = "up again" => Ops!MayRestart
        /\ op.whole => /\ Settled => data # "partial" /\ ~restorer
                       /\ op.at = "replacing" => data # "partial"

LEMMA RecordFields ==
    ASSUME Ops!OpsAssumption, Ops!TypeOK
    PROVE  /\ \A at \in Ops!Steps : Ops!GoesTo(at) =>
                 /\ op'.kind = op.kind /\ op'.at = at /\ said' = said
                 /\ op'.from = op.from /\ op'.to = op.to /\ op'.drain = op.drain
                 /\ op'.migrated = op.migrated /\ op'.stopTried = op.stopTried
                 /\ op'.stopped = op.stopped /\ op'.commanded = op.commanded
                 /\ op'.replaced = op.replaced /\ op'.safe = op.safe /\ op'.whole = op.whole
           /\ \A what : Ops!Reports(what) => op'.kind = "none" /\ said' = what
           /\ \A kind, at, to : Ops!Starts(kind, at, to) =>
                 /\ op'.kind = kind /\ op'.at = at /\ said' = "nothing"
                 /\ op'.from = <<sel, chan>> /\ op'.to = to
                 /\ ~op'.migrated /\ ~op'.commanded /\ ~op'.safe /\ ~op'.replaced
                 /\ op'.whole = (data # "partial" /\ ~restorer)
                 /\ Ops!Untouched
<1> USE DEF Ops!TypeOK
<1>1. ASSUME NEW at \in Ops!Steps, Ops!GoesTo(at)
      PROVE  /\ op'.kind = op.kind /\ op'.at = at /\ said' = said
             /\ op'.from = op.from /\ op'.to = op.to /\ op'.drain = op.drain
             /\ op'.migrated = op.migrated /\ op'.stopTried = op.stopTried
             /\ op'.stopped = op.stopped /\ op'.commanded = op.commanded
             /\ op'.replaced = op.replaced /\ op'.safe = op.safe /\ op'.whole = op.whole
  BY <1>1 DEF Ops!GoesTo, Ops!Op
<1>2. ASSUME NEW what, Ops!Reports(what) PROVE op'.kind = "none" /\ said' = what
  BY <1>2 DEF Ops!Reports, Ops!Idle
<1>3. ASSUME NEW kind, NEW at, NEW to, Ops!Starts(kind, at, to)
      PROVE  /\ op'.kind = kind /\ op'.at = at /\ said' = "nothing"
             /\ op'.from = <<sel, chan>> /\ op'.to = to
             /\ ~op'.migrated /\ ~op'.commanded /\ ~op'.safe /\ ~op'.replaced
             /\ op'.whole = (data # "partial" /\ ~restorer)
             /\ Ops!Untouched
  BY <1>3 DEF Ops!Starts, Ops!Idle
<1> QED BY <1>1, <1>2, <1>3

\* What Docker does to services, schema and selection.
LEMMA EffectOrder ==
    ASSUME Ops!OpsAssumption, Ops!TypeOK, sel >= db, Ops!NoOldImageOnNewSchema
    PROVE  /\ \A ok \in BOOLEAN : Ops!TakeDown(ok) =>
                 /\ db' = db /\ sel' = sel /\ Ops!NoOldImageOnNewSchema'
                 /\ ok => app' = Ops!AllDown
           /\ \A ok \in BOOLEAN : Ops!Migrate(ok) =>
                 /\ sel' = sel /\ sel >= db' /\ app' = app
                 /\ app = Ops!AllDown => Ops!NoOldImageOnNewSchema'
           /\ \A ok, deps \in BOOLEAN : Ops!BringUp(Services, deps, ok) =>
                 /\ sel' = sel /\ sel >= db' /\ (deps \/ db' = db)
                 /\ ~deps \/ app = Ops!AllDown => Ops!NoOldImageOnNewSchema'
                 /\ ok => app' = Ops!AllUp'
<1> USE DEF Ops!TypeOK, Ops!NoOldImageOnNewSchema, Ops!Releases
<1>1. ASSUME NEW ok \in BOOLEAN, Ops!TakeDown(ok)
      PROVE  db' = db /\ sel' = sel /\ Ops!NoOldImageOnNewSchema' /\ (ok => app' = Ops!AllDown)
  BY <1>1 DEF Ops!TakeDown, Ops!Halt, Ops!AllDown
<1>2. ASSUME NEW ok \in BOOLEAN, Ops!Migrate(ok)
      PROVE  /\ sel' = sel /\ sel >= db' /\ app' = app
             /\ app = Ops!AllDown => Ops!NoOldImageOnNewSchema'
  BY <1>2 DEF Ops!Migrate, Ops!Newest, Ops!AllDown
<1>3. ASSUME NEW ok \in BOOLEAN, NEW deps \in BOOLEAN, Ops!BringUp(Services, deps, ok)
      PROVE  /\ sel' = sel /\ sel >= db' /\ (deps \/ db' = db)
             /\ ~deps \/ app = Ops!AllDown => Ops!NoOldImageOnNewSchema'
             /\ ok => app' = Ops!AllUp'
  <2>1. sel' = sel /\ sel >= db' /\ (deps \/ db' = db)
    BY <1>3 DEF Ops!BringUp, Ops!Newest
  <2>2. ASSUME ~deps \/ app = Ops!AllDown PROVE Ops!NoOldImageOnNewSchema'
    BY <1>3, <2>1, <2>2 DEF Ops!BringUp, Ops!Newest, Ops!AllDown
  <2>3. ASSUME ok PROVE app' = Ops!AllUp'
    BY <1>3, <2>3 DEF Ops!BringUp, Ops!AllUp
  <2> QED BY <2>1, <2>2, <2>3
<1> QED BY <1>1, <1>2, <1>3

\* Before the boundary an update writes releases that the schema allows.
LEMMA WayBack ==
    ASSUME Ops!OpsAssumption, Ops!TypeOK, SchemaInv, op.kind = "update", ~op.migrated, db' = db,
           sel' = sel \/ sel' = op.to[1] \/ sel' = op.from[1]
    PROVE  sel' >= db'
<1>1. op.from[1] \in Ops!Releases /\ op.to[1] \in Ops!Releases /\ sel \in Ops!Releases /\
      db \in Ops!Releases
  BY DEF Ops!TypeOK, Ops!Op
<1>2. /\ op.from[1] \in Nat /\ op.to[1] \in Nat /\ sel \in Nat /\ db \in Nat
  BY <1>1 DEF Ops!Releases, Ops!OpsAssumption
<1>3. op.to[1] >= op.from[1] /\ op.from[1] >= db /\ sel >= db
  BY DEF SchemaInv
<1> QED BY <1>2, <1>3

LEMMA OrderStep ==
    Ops!OpsAssumption /\ Ops!TypeOK /\ OrderInv /\ [Ops!Next]_opsVars /\ op.kind # "repair" /\
      op'.kind # "repair"
        => OrderInv'
<1>a. SUFFICES ASSUME Ops!OpsAssumption, Ops!TypeOK, OrderInv, [Ops!Next]_opsVars,
                    op.kind # "repair", op'.kind # "repair"
             PROVE  OrderInv'
  OBVIOUS
<1>b. Ops!OpsAssumption /\ Ops!TypeOK
  BY <1>a
<1>0. sel \in Nat /\ db \in Nat /\ SchemaInv /\ PhaseInv /\ Ops!NoOldImageOnNewSchema /\
      Ops!ReportIsTrue
  BY <1>a DEF OrderInv, Ops!TypeOK, Ops!Releases
<1>2. Ops!AllDown' = Ops!AllDown /\ (sel' = sel => Ops!AllUp' = Ops!AllUp)
  BY DEF Ops!AllDown, Ops!AllUp
<1>3. ASSUME UNCHANGED <<sel, app, db>> PROVE Ops!NoOldImageOnNewSchema' /\ (sel' >= db')
  BY <1>0, <1>3 DEF Ops!NoOldImageOnNewSchema, SchemaInv
<1>4. ASSUME op'.kind = "none", sel' >= db', Ops!NoOldImageOnNewSchema', Ops!ReportIsTrue'
      PROVE  OrderInv'
  BY <1>4 DEF OrderInv, SchemaInv, PhaseInv, Drained, Restarted, Launching
<1>1. CASE UNCHANGED opsVars
  BY <1>0, <1>1, <1>2, <1>3 DEF opsVars, OrderInv, SchemaInv, PhaseInv, Drained, Restarted,
     Launching, Ops!ReportIsTrue
<1>5. ASSUME NEW at \in Ops!Steps, Ops!GoesTo(at), op.kind # "none", op.kind # "update",
             sel' >= db', Ops!NoOldImageOnNewSchema',
             Drained' => app' = Ops!AllDown', Restarted' => app' = Ops!AllUp'
      PROVE  OrderInv'
  <2>1. op'.kind = op.kind /\ said' = said /\ said' = "nothing"
    BY <1>0, <1>b, <1>5, RecordFields DEF PhaseInv
  <2> QED BY <1>5, <2>1 DEF OrderInv, SchemaInv, PhaseInv, Ops!ReportIsTrue
<1>6. ASSUME NEW at \in Ops!Steps, Ops!GoesTo(at), op.kind = "update", sel' >= db',
             Ops!NoOldImageOnNewSchema',
             Drained' => app' = Ops!AllDown', Restarted' => app' = Ops!AllUp', 
             db' = db \/ op.migrated, (at \in {"migrate", "up"} <=> op.migrated) \/
               at \in {"ready", "done", "failed", "offline"}
      PROVE  OrderInv'
  <2>1. /\ op'.kind = "update" /\ op'.at = at /\ said' = "nothing" /\ op'.from = op.from
        /\ op'.to = op.to /\ op'.migrated = op.migrated
    BY <1>0, <1>b, <1>6, RecordFields DEF PhaseInv
  <2>2. SchemaInv'
    BY <1>0, <1>6, <2>1 DEF SchemaInv
  <2>3. PhaseInv'
    BY <1>6, <2>1 DEF PhaseInv
  <2> QED BY <1>6, <2>1, <2>2, <2>3 DEF OrderInv, Ops!ReportIsTrue
<1>7. ASSUME NEW what, Ops!Reports(what), sel' >= db', Ops!NoOldImageOnNewSchema', 
             what \in {"ok", "stopped safely"} => app' \in {Ops!AllDown', Ops!AllUp'}
      PROVE  OrderInv'
  <2>1. op'.kind = "none" /\ said' = what
    BY <1>b, <1>7, RecordFields
  <2> QED BY <1>4, <1>7, <2>1 DEF Ops!ReportIsTrue
<1>8. CASE Ops!Begin
  <2>1. /\ op'.kind \in {"start", "restart", "stop"} /\ op'.at \in {"drain", "down"}
        /\ said' = "nothing" /\ UNCHANGED <<sel, app, db>>
    BY <1>b, <1>8, RecordFields DEF Ops!Begin, Ops!Untouched
  <2> QED BY <1>3, <2>1 DEF OrderInv, SchemaInv, PhaseInv, Drained, Restarted, Launching,
      Ops!ReportIsTrue
<1>9. ASSUME NEW ok \in BOOLEAN, Ops!TakeDown(ok)
      PROVE  Ops!NoOldImageOnNewSchema' /\ sel' >= db' /\ db' = db
                                                    /\ (ok => app' = Ops!AllDown')
  BY <1>0, <1>2, <1>b, <1>9, EffectOrder DEF SchemaInv
<1>10. ASSUME NEW ok \in BOOLEAN, Ops!Migrate(ok), app = Ops!AllDown
       PROVE  Ops!NoOldImageOnNewSchema' /\ sel' >= db' /\ app' = Ops!AllDown'
  BY <1>0, <1>2, <1>b, <1>10, EffectOrder DEF SchemaInv
<1>11. ASSUME NEW ok \in BOOLEAN, NEW deps \in BOOLEAN, Ops!BringUp(Services, deps, ok),
              ~deps \/ app = Ops!AllDown
       PROVE  Ops!NoOldImageOnNewSchema' /\ sel' >= db' /\ (ok => app' = Ops!AllUp')
  BY <1>0, <1>2, <1>b, <1>11, EffectOrder DEF SchemaInv
<1>12. ASSUME Ops!Untouched
       PROVE  Ops!NoOldImageOnNewSchema' /\ sel' >= db' /\ db' = db /\ app' = app /\
              Ops!AllUp' = Ops!AllUp
  BY <1>2, <1>3, <1>12 DEF Ops!Untouched
<1>13. ASSUME NEW kind \in {"start", "restart"}, Ops!Launch(kind) PROVE OrderInv'
  <2>1. CASE Ops!Does(Ops!TakeDown, kind, "drain", "migrate")
    <3>1. ASSUME Ops!TakeDown(TRUE), Ops!GoesTo("migrate"), op.kind = kind PROVE OrderInv'
      <4>1. op'.kind = kind /\ op'.at = "migrate"
        BY <1>b, <3>1, RecordFields DEF Ops!Steps
      <4> QED BY <1>5, <1>9, <3>1, <4>1 DEF Drained, Restarted, Launching, Ops!Steps
    <3> QED BY <1>7, <1>9, <2>1, <3>1 DEF Ops!Does, Ops!At
  <2>2. CASE Ops!Does(Ops!Migrate, kind, "migrate", "up")
    <3>1. op.kind = kind /\ app = Ops!AllDown
      BY <1>0, <2>2 DEF Ops!Does, Ops!At, PhaseInv, Drained, Launching
    <3>2. ASSUME Ops!Migrate(TRUE), Ops!GoesTo("up") PROVE OrderInv'
      <4>1. op'.kind = kind /\ op'.at = "up"
        BY <1>b, <3>1, <3>2, RecordFields DEF Ops!Steps
      <4> QED BY <1>5, <1>10, <3>1, <3>2, <4>1 DEF Drained, Restarted, Launching, Ops!Steps
    <3> QED BY <1>7, <1>10, <2>2, <3>1, <3>2 DEF Ops!Does
  <2>3. CASE Ops!Does(Ops!UpAll, kind, "up", "ready")
    <3>1. op.kind = kind /\ app = Ops!AllDown
      BY <1>0, <2>3 DEF Ops!Does, Ops!At, PhaseInv, Drained, Launching
    <3>2. ASSUME Ops!UpAll(TRUE), Ops!GoesTo("ready") PROVE OrderInv'
      <4>1. op'.kind = kind /\ op'.at = "ready"
        BY <1>b, <3>1, <3>2, RecordFields DEF Ops!Steps
      <4> QED BY <1>5, <1>11, <3>1, <3>2, <4>1 DEF Drained, Restarted, Launching, Ops!Steps,
          Ops!UpAll
    <3> QED BY <1>7, <1>11, <2>3, <3>1, <3>2 DEF Ops!Does, Ops!UpAll
  <2>4. CASE Ops!Does(Ops!Ready, kind, "ready", "done")
    <3>1. op.kind = kind /\ app = Ops!AllUp /\ Ops!Untouched
      BY <1>0, <2>4 DEF Ops!Does, Ops!At, PhaseInv, Restarted, Launching, Ops!Ready, Ops!Untouched
    <3>2. ASSUME Ops!GoesTo("done") PROVE OrderInv'
      <4>1. op'.kind = kind /\ op'.at = "done"
        BY <1>b, <3>1, <3>2, RecordFields DEF Ops!Steps
      <4> QED BY <1>5, <1>12, <3>1, <3>2, <4>1 DEF Drained, Restarted, Launching, Ops!Steps
    <3> QED BY <1>7, <1>12, <2>4, <3>1, <3>2 DEF Ops!Does
  <2>5. CASE Ops!At(kind, "done") /\ Ops!Untouched /\ Ops!Reports("ok")
    <3>1. app = Ops!AllUp
      BY <1>0, <2>5 DEF Ops!At, PhaseInv, Restarted, Launching
    <3> QED BY <1>7, <1>12, <2>5, <3>1
  <2> QED BY <1>13, <2>1, <2>2, <2>3, <2>4, <2>5 DEF Ops!Launch
<1>14. CASE Ops!Stop
  <2>1. ASSUME Ops!TakeDown(TRUE), Ops!GoesTo("done"), op.kind = "stop" PROVE OrderInv'
    <3>1. op'.kind = "stop" /\ op'.at = "done"
      BY <1>b, <2>1, RecordFields DEF Ops!Steps
    <3> QED BY <1>5, <1>9, <2>1, <3>1 DEF Drained, Restarted, Launching, Ops!Steps
  <2>2. ASSUME Ops!TakeDown(FALSE), Ops!Reports("failed") PROVE OrderInv'
    BY <1>7, <1>9, <2>2
  <2>3. CASE Ops!At("stop", "done") /\ Ops!Untouched /\ Ops!Reports("ok")
    <3>1. app' = Ops!AllDown'
      BY <1>0, <1>2, <1>12, <2>3 DEF Ops!At, PhaseInv, Drained
    <3> QED BY <1>7, <1>12, <2>3, <3>1
  <2> QED BY <1>14, <2>1, <2>2, <2>3 DEF Ops!Stop, Ops!Does, Ops!At
<1>15. ASSUME Ops!Update PROVE OrderInv'
  <2>1. CASE \E v \in Ops!Releases, c \in Channels : Ops!UpdateBegins(v, c)
    <3>1. PICK v \in Ops!Releases, c \in Channels : Ops!UpdateBegins(v, c)
      BY <2>1
    <3>2. /\ op'.kind = "update" /\ op'.at = "backup" /\ said' = "nothing" /\ ~op'.migrated
          /\ op'.from = <<sel, chan>> /\ op'.to = <<v, c>> /\ Ops!Untouched /\ v >= sel
      BY <1>b, <3>1, RecordFields DEF Ops!UpdateBegins
    <3>3. op'.from[1] = sel /\ op'.to[1] = v
      BY <3>2
    <3>4. SchemaInv'
      BY <1>0, <1>12, <3>2, <3>3 DEF SchemaInv
    <3> QED BY <1>12, <3>2, <3>4 DEF OrderInv, PhaseInv, Drained, Restarted, Launching,
        Ops!ReportIsTrue
  <2>2. CASE Ops!UpdateBackup \/ Ops!RolledBack \/ Ops!PullBack \/ Ops!UpdateFailed
    <3>1. Ops!Untouched /\ op.kind = "update"
      BY <2>2 DEF Ops!UpdateBackup, Ops!RolledBack, Ops!PullBack, Ops!UpdateFailed, Ops!At
    <3>2. ASSUME NEW at \in {"version", "drain back", "up back", "offline", "version back"},
                 Ops!GoesTo(at),
                 at # "offline" => ~op.migrated, at = "up back" => app = Ops!AllDown
          PROVE  OrderInv'
      <4>1. op'.kind = "update" /\ op'.at = at
        BY <1>b, <3>1, <3>2, RecordFields DEF Ops!Steps
      <4>2. at \in Ops!Steps
        BY DEF Ops!Steps
      <4> QED BY <1>2, <1>6, <1>12, <3>1, <3>2, <4>1, <4>2 DEF Drained, Restarted, Launching
    <3>3. ASSUME NEW what \in {"failed", "rolled back", "left offline"}, Ops!Reports(what)
          PROVE  OrderInv'
      BY <1>7, <1>12, <3>1, <3>3
    <3>4. CASE Ops!UpdateBackup
      BY <1>0, <3>2, <3>3, <3>4 DEF Ops!UpdateBackup, Ops!At, PhaseInv
    <3>5. CASE Ops!RolledBack
      BY <1>0, <3>2, <3>3, <3>5 DEF Ops!RolledBack, Ops!At, PhaseInv
    <3>6. CASE Ops!PullBack
      BY <1>0, <3>2, <3>3, <3>6 DEF Ops!PullBack, Ops!At, PhaseInv, Drained
    <3>7. CASE Ops!UpdateFailed
      BY <3>2, <3>3, <3>7 DEF Ops!UpdateFailed
    <3> QED BY <2>2, <3>4, <3>5, <3>6, <3>7
  <2>3. ASSUME op.kind = "update", ~op.migrated,
               NEW at \in {"channel", "pull", "channel back", "rolled back"},
               Ops!GoesTo(at), UNCHANGED <<app, db>>,
               sel' = sel \/ sel' = op.to[1] \/ sel' = op.from[1]
        PROVE  OrderInv'
    <3>1. op'.kind = "update" /\ op'.at = at /\ at \in Ops!Steps
      BY <1>b, <2>3, RecordFields DEF Ops!Steps
    <3>5. sel' >= db'
      BY <1>0, <1>b, <2>3, WayBack
    <3>6. Ops!NoOldImageOnNewSchema'
      BY <1>0, <2>3 DEF Ops!NoOldImageOnNewSchema
    <3> QED BY <1>6, <2>3, <3>1, <3>5, <3>6 DEF Drained, Restarted, Launching
  <2>4. CASE \/ Ops!WriteVersion("version", op.to, "channel") \/
                   Ops!WriteChannel("channel", op.to, "pull")
             \/ Ops!WriteVersion("version back", op.from, "channel back")
             \/ Ops!WriteChannel("channel back", op.from, "rolled back")
    BY <1>0, <2>3, <2>4 DEF Ops!WriteVersion, Ops!WriteChannel, Ops!At, PhaseInv
  <2>5. CASE Ops!Pull
    <3>1. /\ op'.kind = "update" /\ op'.at \in {"drain", "failed"} /\ ~op'.migrated /\
                op'.from = op.from
          /\ op'.to = op.to /\ said' = "nothing" /\ op.kind = "update" /\ ~op.migrated
      BY <1>b, <1>0, <2>5 DEF Ops!Pull, Ops!At, PhaseInv, Ops!TypeOK, Ops!Op
    <3>2. SchemaInv' /\ Ops!NoOldImageOnNewSchema'
      BY <1>0, <1>12, <2>5, <3>1 DEF Ops!Pull, SchemaInv
    <3> QED BY <3>1, <3>2 DEF OrderInv, PhaseInv, Drained, Restarted, Launching, Ops!ReportIsTrue
  <2>6. CASE Ops!Reset
    <3>1. /\ op'.kind = "update" /\ op'.at \in {"migrate", "failed"} /\ op'.from = op.from
          /\ op'.at = "migrate" => op'.migrated
          /\ op'.at = "failed" => op'.migrated = op.migrated
          /\ op'.to = op.to /\ said' = "nothing" /\ op.kind = "update" /\ app = Ops!AllDown
      BY <1>b, <1>0, <2>6 DEF Ops!Reset, Ops!At, PhaseInv, Ops!TypeOK, Ops!Op, Drained
    <3>2. SchemaInv' /\ Ops!NoOldImageOnNewSchema' /\ app' = Ops!AllDown'
      BY <1>0, <1>2, <1>12, <2>6, <3>1 DEF Ops!Reset, SchemaInv
    <3> QED BY <3>1, <3>2 DEF OrderInv, PhaseInv, Drained, Restarted, Launching, Ops!ReportIsTrue
  <2>7. ASSUME op.kind = "update",
               NEW at \in {"reset", "up", "ready", "done", "failed", "pull back"},
               Ops!GoesTo(at), Ops!NoOldImageOnNewSchema', sel' >= db', db' = db \/ op.migrated,
               at = "up" => op.migrated, at \in {"reset", "pull back"} => ~op.migrated,
               at \in {"reset", "up", "pull back"} => app' = Ops!AllDown',
               at \in {"ready", "done"} => app' = Ops!AllUp'
        PROVE  OrderInv'
    <3>1. op'.kind = "update" /\ op'.at = at /\ at \in Ops!Steps
      BY <1>b, <2>7, RecordFields DEF Ops!Steps
    <3> QED BY <1>6, <2>7, <3>1 DEF Drained, Restarted, Launching
  <2>8. CASE Ops!Does(Ops!TakeDown, "update", "drain", "reset")
    <3>1. op.kind = "update" /\ ~op.migrated
      BY <1>0, <2>8 DEF Ops!Does, Ops!At, PhaseInv
    <3> QED BY <1>9, <2>7, <2>8, <3>1 DEF Ops!Does
  <2>9. CASE Ops!Does(Ops!Migrate, "update", "migrate", "up")
    <3>1. op.kind = "update" /\ op.migrated /\ app = Ops!AllDown
      BY <1>0, <2>9 DEF Ops!Does, Ops!At, PhaseInv, Drained, Launching
    <3> QED BY <1>10, <2>7, <2>9, <3>1 DEF Ops!Does
  <2>10. CASE Ops!Does(Ops!UpAll, "update", "up", "ready")
    <3>1. op.kind = "update" /\ op.migrated /\ app = Ops!AllDown
      BY <1>0, <2>10 DEF Ops!Does, Ops!At, PhaseInv, Drained, Launching
    <3> QED BY <1>11, <2>7, <2>10, <3>1 DEF Ops!Does, Ops!UpAll
  <2>11. CASE Ops!Does(Ops!Ready, "update", "ready", "done")
    <3>1. op.kind = "update" /\ app = Ops!AllUp /\ Ops!Untouched
      BY <1>0, <2>11 DEF Ops!Does, Ops!At, PhaseInv, Restarted, Launching, Ops!Ready, Ops!Untouched
    <3> QED BY <1>12, <2>7, <2>11, <3>1 DEF Ops!Does
  <2>12. CASE Ops!At("update", "done") /\ Ops!Untouched /\ Ops!Reports("ok")
    <3>1. app = Ops!AllUp
      BY <1>0, <2>12 DEF Ops!At, PhaseInv, Restarted, Launching
    <3> QED BY <1>7, <1>12, <2>12, <3>1
  <2>13. CASE Ops!Offline
    BY <1>7, <1>9, <2>13 DEF Ops!Offline
  <2>14. CASE Ops!DrainBack
    <3>1. op.kind = "update" /\ ~op.migrated
      BY <1>0, <2>14 DEF Ops!DrainBack, Ops!At, PhaseInv
    <3> QED BY <1>7, <1>9, <2>7, <2>14, <3>1 DEF Ops!DrainBack
  <2>15. CASE Ops!UpBack
    <3>1. app = Ops!AllDown
      BY <1>0, <2>15 DEF Ops!UpBack, Ops!At, PhaseInv, Drained
    <3> QED BY <1>7, <1>11, <2>15, <3>1 DEF Ops!UpBack
  <2> QED BY <1>15, <2>1, <2>2, <2>4, <2>5, <2>6, <2>8, <2>9, <2>10, <2>11, <2>12, <2>13, <2>14,
      <2>15
        DEF Ops!Update
<1>16. ASSUME Ops!Restore PROVE OrderInv'
  <2>1. ASSUME op'.kind = "restore", op.kind = "restore", said' = said \/ said' = "nothing",
               sel' >= db', Ops!NoOldImageOnNewSchema',
               op'.at \in {"ready", "done", "ready again"} => app' = Ops!AllUp'
        PROVE  OrderInv'
    <3>1. said' = "nothing"
      BY <1>0, <2>1 DEF PhaseInv
    <3> QED BY <2>1, <3>1 DEF OrderInv, SchemaInv, PhaseInv, Drained, Restarted, Launching,
        Ops!ReportIsTrue
  <2>2. ASSUME NEW ok \in BOOLEAN, Ops!BackUp(ok)
        PROVE  sel' >= db' /\ Ops!NoOldImageOnNewSchema' /\ (ok => app' = Ops!AllUp')
    BY <1>11, <2>2 DEF Ops!BackUp
  <2>3. ASSUME UNCHANGED <<sel, app, db>>
        PROVE  sel' >= db' /\ Ops!NoOldImageOnNewSchema' /\ Ops!AllUp' = Ops!AllUp
    BY <1>2, <1>3, <2>3
  <2>4. ASSUME op.kind = "restore", NEW at \in Ops!Steps, Ops!GoesTo(at)
        PROVE  op'.kind = "restore" /\ op'.at = at /\ said' = said
    BY <1>b, <2>4, RecordFields
  <2>5. CASE Ops!RestoreBegins
    <3>1. op'.kind = "restore" /\ op'.at = "archive" /\ said' = "nothing" /\ Ops!Untouched
      BY <1>b, <2>5, RecordFields DEF Ops!RestoreBegins
    <3> QED BY <1>12, <3>1 DEF OrderInv, SchemaInv, PhaseInv, Drained, Restarted, Launching,
        Ops!ReportIsTrue
  <2>6. CASE Ops!CheckArchive
    <3>1. CASE op' = [op EXCEPT !.at = "stop", !.stopTried = TRUE] /\
               UNCHANGED <<said, held, begun>>
      <4>1. op.kind = "restore" /\ op'.kind = "restore" /\ op'.at = "stop"
        BY <1>b, <2>6, <3>1 DEF Ops!CheckArchive, Ops!At, Ops!TypeOK, Ops!Op
      <4> QED BY <1>12, <2>1, <2>6, <3>1, <4>1 DEF Ops!CheckArchive
    <3> QED BY <1>7, <1>12, <2>6, <3>1 DEF Ops!CheckArchive
  <2>7. CASE Ops!Does(Ops!StopServices, "restore", "stop", "fence")
    <3>1. sel' >= db' /\ Ops!NoOldImageOnNewSchema'
      BY <1>0, <1>b, <2>7 DEF Ops!Does, Ops!StopServices, Ops!Halt, SchemaInv,
         Ops!NoOldImageOnNewSchema
    <3>2. op.kind = "restore" /\ op'.kind = "restore" /\ op'.at \in {"fence", "failed"} /\
          said' = said
      BY <2>4, <2>7 DEF Ops!Does, Ops!At, Ops!Steps
    <3> QED BY <2>1, <3>1, <3>2
  <2>8. CASE Ops!Does(Ops!Ready, "restore", "ready", "done")
    <3>1. Ops!Untouched /\ app = Ops!AllUp
      BY <1>0, <2>8 DEF Ops!Does, Ops!At, Ops!Ready, Ops!Untouched, PhaseInv, Restarted
    <3>2. op.kind = "restore" /\ op'.kind = "restore" /\ said' = said
      BY <2>4, <2>8 DEF Ops!Does, Ops!At, Ops!Steps
    <3> QED BY <1>12, <2>1, <3>1, <3>2
  <2>9. CASE Ops!At("restore", "done") /\ Ops!Untouched /\ Ops!Reports("ok")
    <3>1. app = Ops!AllUp
      BY <1>0, <2>9 DEF Ops!At, PhaseInv, Restarted
    <3> QED BY <1>7, <1>12, <2>9, <3>1
  <2>10. CASE Ops!Fence
    <3>1. /\ op.kind = "restore" /\ op'.kind = "restore" /\ op'.at \in {"replace", "failed"}
          /\ said' = said
      BY <1>b, <2>10 DEF Ops!Fence, Ops!At, Ops!TypeOK, Ops!Op
    <3> QED BY <1>9, <2>1, <2>10, <3>1 DEF Ops!Fence
  <2>11. CASE Ops!Replace \/ Ops!Replaced
    <3>1. /\ op.kind = "restore" /\ op'.kind = "restore" /\ op'.at \in {"replacing", "up", "failed"}
          /\ said' = said /\ UNCHANGED <<sel, app, db>>
      BY <1>b, <2>11 DEF Ops!Replace, Ops!Replaced, Ops!At, Ops!TypeOK, Ops!Op
    <3> QED BY <2>1, <2>3, <3>1
  <2>12. CASE Ops!UpAfterRestore
    <3>1. /\ op.kind = "restore" /\ op'.kind = "restore" /\ said' = said
          /\ \/ Ops!BackUp(TRUE)
             \/ Ops!BackUp(FALSE) /\ op'.at = "failed"
      BY <1>b, <2>12 DEF Ops!UpAfterRestore, Ops!At, Ops!TypeOK, Ops!Op
    <3> QED BY <2>1, <2>2, <3>1
  <2>13. CASE Ops!RestoreFailed
    <3>1. Ops!Untouched /\ op.kind = "restore"
      BY <2>13 DEF Ops!RestoreFailed, Ops!At
    <3>2. CASE Ops!GoesTo("up again")
      BY <1>12, <2>1, <2>4, <3>1, <3>2 DEF Ops!Steps
    <3> QED BY <1>7, <1>12, <2>13, <3>1, <3>2 DEF Ops!RestoreFailed
  <2>14. CASE Ops!UpAgain
    <3>1. op.kind = "restore"
      BY <2>14 DEF Ops!UpAgain, Ops!At
    <3>2. CASE Ops!BackUp(TRUE) /\ Ops!GoesTo("ready again")
      BY <2>1, <2>2, <2>4, <3>1, <3>2 DEF Ops!Steps
    <3> QED BY <1>7, <2>2, <2>14, <3>2 DEF Ops!UpAgain
  <2>15. CASE Ops!ReadyAgain
    <3>1. Ops!Untouched /\ app = Ops!AllUp
      BY <1>0, <2>15 DEF Ops!ReadyAgain, Ops!At, Ops!Ready, Ops!Untouched, PhaseInv, Restarted
    <3> QED BY <1>7, <1>12, <2>15, <3>1 DEF Ops!ReadyAgain
  <2> QED BY <1>16, <2>5, <2>6, <2>7, <2>8, <2>9, <2>10, <2>11, <2>12, <2>13, <2>14, <2>15
      DEF Ops!Restore
<1>17. CASE Ops!Repair
  <2>1. ~Ops!RepairBegins
    BY <1>a, <1>b, RecordFields DEF Ops!RepairBegins
  <2> QED BY <1>a, <1>17, <2>1 DEF Ops!Repair, Ops!Does, Ops!At
<1>18. ASSUME NEW v \in Ops!Releases, Ops!SelectVersion(v) PROVE OrderInv'
  <2>1. op'.kind = "none" /\ said' = "nothing" /\ UNCHANGED <<app, db>>
    BY <1>18 DEF Ops!SelectVersion, Ops!Idle
  <2>2. sel' >= db'
    BY <1>0, <1>18 DEF Ops!SelectVersion, SchemaInv, Ops!Releases
  <2>3. Ops!NoOldImageOnNewSchema'
    BY <1>0, <2>1 DEF Ops!NoOldImageOnNewSchema
  <2> QED BY <1>4, <2>1, <2>2, <2>3 DEF Ops!ReportIsTrue
<1>19. CASE Ops!Crash
  <2>1. op'.kind = "none" /\ said' = "nothing" /\ Ops!Untouched
    BY <1>19 DEF Ops!Crash, Ops!Idle
  <2> QED BY <1>4, <1>12, <2>1 DEF Ops!ReportIsTrue
<1>20. CASE Ops!LockAges \/ Ops!RestorerEnds
  <2>1. UNCHANGED <<sel, app, db, op, said>>
    BY <1>20 DEF Ops!LockAges, Ops!RestorerEnds, Ops!Untouched
  <2> QED BY <1>0, <1>2, <1>3, <2>1
        DEF OrderInv, SchemaInv, PhaseInv, Drained, Restarted, Launching, Ops!ReportIsTrue
<1> QED BY <1>a, <1>1, <1>8, <1>13, <1>14, <1>15, <1>16, <1>17, <1>18, <1>19, <1>20 DEF Ops!Next,
    Ops!Step

\* The first states: nothing runs, or all services run the only release there is.
LEMMA FirstStates == ASSUME Ops!OpsAssumption, Ops!Init PROVE Ops!TypeOK /\ OrderInv /\ RestoreInv
<1>1. Ops!Idle.kind = "none"
  BY DEF Ops!Idle
<1>2. Ops!TypeOK
  <2>1. Ops!Idle \in Ops!Op
    <3>1. (CHOOSE c \in Channels : TRUE) \in Channels
      BY DEF Ops!Init
    <3> QED BY <3>1 DEF Ops!Idle, Ops!Unset, Ops!Op, Ops!Kinds, Ops!Steps, Ops!Releases,
        Ops!OpsAssumption
  <2>2. app \in [Services -> 0 .. Latest]
    BY DEF Ops!Init, Ops!AllDown, Ops!OpsAssumption
  <2>3. 1 \in Ops!Releases /\ 0 \in 0 .. MaxOps /\ "nothing" \in Ops!Says
    BY DEF Ops!Releases, Ops!OpsAssumption, Ops!Says
  <2> QED BY <1>1, <2>1, <2>2, <2>3 DEF Ops!Init, Ops!TypeOK
<1>3. Ops!NoOldImageOnNewSchema
  BY DEF Ops!Init, Ops!NoOldImageOnNewSchema, Ops!AllDown
<1> QED BY <1>1, <1>2, <1>3
      DEF Ops!Init, OrderInv, SchemaInv, PhaseInv, Drained, Restarted, Launching,
          Ops!ReportIsTrue, RestoreInv

\* The steps that are no step of a restore leave no restore at work.
LEMMA OtherSteps ==
    ASSUME Ops!OpsAssumption, Ops!TypeOK,
           Ops!Begin \/ Ops!Launch("start") \/ Ops!Launch("restart") \/ Ops!Stop \/ Ops!Update \/
             Ops!Repair
             \/ (\E v \in Ops!Releases : Ops!SelectVersion(v)) \/ Ops!Crash
    PROVE  op'.kind # "restore"
<1>1. \A at \in Ops!Steps : op.kind # "restore" /\ Ops!GoesTo(at) => op'.kind # "restore"
  BY RecordFields
<1>2. \A what : Ops!Reports(what) => op'.kind # "restore"
  BY RecordFields
<1>3. \A kind, at, to : Ops!Starts(kind, at, to) => op'.kind = kind
  BY RecordFields
<1>4. CASE Ops!Begin
  BY <1>3, <1>4 DEF Ops!Begin
<1>5. ASSUME NEW kind \in {"start", "restart"}, Ops!Launch(kind) PROVE op'.kind # "restore"
  BY <1>1, <1>2, <1>5 DEF Ops!Launch, Ops!Does, Ops!At, Ops!Steps
<1>6. CASE Ops!Stop
  BY <1>1, <1>2, <1>6 DEF Ops!Stop, Ops!Does, Ops!At, Ops!Steps
<1>7. CASE Ops!Update
  <2>1. CASE \E v \in Ops!Releases, c \in Channels : Ops!UpdateBegins(v, c)
    BY <1>3, <2>1 DEF Ops!UpdateBegins
  <2>2. CASE Ops!Pull \/ Ops!Reset
    BY <2>2 DEF Ops!Pull, Ops!Reset, Ops!At, Ops!TypeOK, Ops!Op
  <2>3. CASE \/ Ops!UpdateBackup \/ Ops!UpdateFailed \/ Ops!Offline \/ Ops!RolledBack \/
                   Ops!DrainBack \/ Ops!PullBack \/ Ops!UpBack
    BY <1>1, <1>2, <2>3
       DEF Ops!UpdateBackup, Ops!UpdateFailed, Ops!Offline, Ops!RolledBack, Ops!DrainBack,
           Ops!PullBack, Ops!UpBack, Ops!At, Ops!Steps
  <2>4. CASE \/ Ops!WriteVersion("version", op.to, "channel") \/
                   Ops!WriteChannel("channel", op.to, "pull")
             \/ Ops!WriteVersion("version back", op.from, "channel back")
             \/ Ops!WriteChannel("channel back", op.from, "rolled back")
    BY <1>1, <2>4 DEF Ops!WriteVersion, Ops!WriteChannel, Ops!At, Ops!Steps
  <2>5. CASE \/ Ops!Does(Ops!TakeDown, "update", "drain", "reset")
             \/ Ops!Does(Ops!Migrate, "update", "migrate", "up")
             \/ Ops!Does(Ops!UpAll, "update", "up", "ready")
             \/ Ops!Does(Ops!Ready, "update", "ready", "done")
             \/ Ops!At("update", "done") /\ Ops!Untouched /\ Ops!Reports("ok")
    BY <1>1, <1>2, <2>5 DEF Ops!Does, Ops!At, Ops!Steps
  <2> QED BY <1>7, <2>1, <2>2, <2>3, <2>4, <2>5 DEF Ops!Update
<1>8. CASE Ops!Repair
  BY <1>1, <1>2, <1>3, <1>8 DEF Ops!Repair, Ops!RepairBegins, Ops!Does, Ops!At, Ops!Steps
<1>9. CASE \E v \in Ops!Releases : Ops!SelectVersion(v)
  <2>1. PICK v \in Ops!Releases : Ops!SelectVersion(v)
    BY <1>9
  <2> QED BY <2>1 DEF Ops!SelectVersion, Ops!Idle
<1>10. CASE Ops!Crash
  BY <1>10 DEF Ops!Crash, Ops!Idle
<1> QED BY <1>4, <1>5, <1>6, <1>7, <1>8, <1>9, <1>10

\* The fields of a restore that its own steps set.
LEMMA RestoreMarks ==
    ASSUME Ops!TypeOK, op.kind = "restore", NEW at \in Ops!Steps
    PROVE  /\ op' = [op EXCEPT !.at = at, !.stopTried = TRUE] =>
                 /\ op'.kind = "restore" /\ op'.at = at /\ op'.whole = op.whole /\ op'.stopTried
                 /\ op'.stopped = op.stopped /\ op'.commanded = op.commanded
                 /\ op'.replaced = op.replaced /\ op'.safe = op.safe
           /\ op' = [op EXCEPT !.at = at, !.stopped = TRUE] =>
                 /\ op'.kind = "restore" /\ op'.at = at /\ op'.whole = op.whole /\ op'.stopped
                 /\ op'.commanded = op.commanded /\ op'.replaced = op.replaced /\ op'.safe = op.safe
           /\ op' = [op EXCEPT !.at = at, !.commanded = TRUE] =>
                 /\ op'.kind = "restore" /\ op'.at = at /\ op'.whole = op.whole /\ op'.commanded
                 /\ op'.stopped = op.stopped /\ op'.replaced = op.replaced /\ op'.safe = op.safe
           /\ op' = [op EXCEPT !.at = at, !.replaced = TRUE] =>
                 /\ op'.kind = "restore" /\ op'.at = at /\ op'.whole = op.whole /\ op'.replaced
                 /\ op'.commanded = op.commanded
           /\ op' = [op EXCEPT !.at = at, !.safe = TRUE] =>
                 /\ op'.kind = "restore" /\ op'.at = at /\ op'.whole = op.whole /\ op'.safe
                 /\ op'.commanded = op.commanded /\ op'.stopped = op.stopped
                 /\ op'.replaced = op.replaced
           /\ op' = [op EXCEPT !.at = at, !.stopped = FALSE] =>
                 /\ op'.kind = "restore" /\ op'.at = at /\ op'.whole = op.whole
                 /\ op'.commanded = op.commanded /\ op'.replaced = op.replaced /\ op'.safe = op.safe
           /\ op' = [op EXCEPT !.at = at] =>
                 /\ op'.kind = "restore" /\ op'.at = at /\ op'.whole = op.whole
                 /\ op'.stopTried = op.stopTried /\ op'.stopped = op.stopped
                 /\ op'.commanded = op.commanded /\ op'.replaced = op.replaced /\ op'.safe = op.safe
BY DEF Ops!TypeOK, Ops!Op

\* What a restore remembers is so after every step.
LEMMA RestoreStep == Ops!OpsAssumption /\ Ops!TypeOK /\ RestoreInv /\ [Ops!Next]_opsVars =>
  RestoreInv'
<1>a. SUFFICES ASSUME Ops!OpsAssumption, Ops!TypeOK, RestoreInv, [Ops!Next]_opsVars
               PROVE  RestoreInv'
  OBVIOUS
<1>1. CASE UNCHANGED opsVars
  BY <1>1, <1>a DEF opsVars, RestoreInv, Settled, Ops!MayRestart
<1>2. CASE Ops!Begin \/ Ops!Launch("start") \/ Ops!Launch("restart") \/ Ops!Stop \/ Ops!Update \/
           Ops!Repair
             \/ (\E v \in Ops!Releases : Ops!SelectVersion(v)) \/ Ops!Crash
  <2>1. op'.kind # "restore"
    BY <1>a, <1>2, OtherSteps
  <2> QED BY <2>1 DEF RestoreInv
<1>3. CASE Ops!LockAges
  BY <1>a, <1>3 DEF Ops!LockAges, Ops!Untouched, RestoreInv, Settled, Ops!MayRestart
<1>4. CASE Ops!RestorerEnds
  BY <1>a, <1>4 DEF Ops!RestorerEnds, RestoreInv, Settled, Ops!MayRestart
<1>5. ASSUME NEW what, Ops!Reports(what) PROVE RestoreInv'
  <2>1. op'.kind = "none"
    BY <1>a, <1>5, RecordFields
  <2> QED BY <2>1 DEF RestoreInv
<1>6. CASE Ops!Restore
  <2>b. Ops!TypeOK /\ Ops!OpsAssumption
    BY <1>a
  <2>0. op.kind = "restore" => RestoreInv
    BY <1>a
  <2>1. CASE Ops!RestoreBegins
    <3>1. /\ op'.kind = "restore" /\ op'.at = "archive" /\ ~op'.commanded /\ ~op'.safe
          /\ ~op'.replaced /\ op'.whole = (data # "partial" /\ ~restorer) /\ Ops!Untouched
      BY <2>b, <2>1, RecordFields DEF Ops!RestoreBegins
    <3> QED BY <3>1 DEF RestoreInv, Settled, Before, Ops!Untouched
  <2>2. ASSUME NEW at \in {"fence", "done", "failed", "up again", "ready again"},
               op.kind = "restore",
               Ops!GoesTo(at), at = "up again" => Ops!MayRestart, at = "fence" => op.at \in Before,
               UNCHANGED <<data, restorer>>, op.at # "replacing"
        PROVE  RestoreInv'
    <3>1. /\ op'.kind = "restore" /\ op'.at = at /\ op'.whole = op.whole
          /\ op'.stopTried = op.stopTried /\ op'.stopped = op.stopped
          /\ op'.commanded = op.commanded /\ op'.replaced = op.replaced /\ op'.safe = op.safe
      BY <2>b, <2>2, RestoreMarks DEF Ops!GoesTo, Ops!Steps
    <3> QED BY <2>0, <2>2, <3>1 DEF RestoreInv, Settled, Before, Ops!MayRestart
  <2>3. CASE Ops!CheckArchive
    <3>1. CASE op' = [op EXCEPT !.at = "stop", !.stopTried = TRUE]
      <4>1. /\ op.kind = "restore" /\ op.at = "archive" /\ UNCHANGED <<data, restorer>>
            /\ op'.kind = "restore" /\ op'.at = "stop" /\ op'.whole = op.whole
            /\ op'.stopped = op.stopped /\ op'.commanded = op.commanded
            /\ op'.replaced = op.replaced /\ op'.safe = op.safe
        BY <2>b, <2>3, <3>1, RestoreMarks DEF Ops!CheckArchive, Ops!At, Ops!Untouched, Ops!Steps
      <4> QED BY <2>0, <4>1 DEF RestoreInv, Settled, Before
    <3> QED BY <1>5, <2>3, <3>1 DEF Ops!CheckArchive
  <2>4. CASE \/ Ops!Does(Ops!StopServices, "restore", "stop", "fence")
             \/ Ops!Does(Ops!Ready, "restore", "ready", "done")
             \/ Ops!At("restore", "done") /\ Ops!Untouched /\ Ops!Reports("ok")
    BY <1>5, <2>2, <2>4 DEF Ops!Does, Ops!At, Ops!StopServices, Ops!Halt, Ops!Ready, Before
  <2>5. CASE Ops!Fence
    <3>1. /\ op.kind = "restore" /\ op.at = "fence" /\ data' = data /\
                (restorer' = FALSE \/ restorer' = restorer)
      BY <2>5 DEF Ops!Fence, Ops!At, Ops!TakeDown, Ops!Halt
    <3>2. CASE op' = [op EXCEPT !.at = "replace", !.stopped = TRUE]
      <4>1. /\ op'.kind = "restore" /\ op'.at = "replace" /\ op'.whole = op.whole /\ op'.stopped
            /\ op'.commanded = op.commanded /\ op'.replaced = op.replaced /\ op'.safe = op.safe
        BY <2>b, <3>1, <3>2, RestoreMarks DEF Ops!Steps
      <4> QED BY <2>0, <3>1, <4>1 DEF RestoreInv, Settled, Before
    <3>3. CASE op' = [op EXCEPT !.at = "failed"]
      <4>1. /\ op'.kind = "restore" /\ op'.at = "failed" /\ op'.whole = op.whole
            /\ op'.stopped = op.stopped /\ op'.commanded = op.commanded
            /\ op'.replaced = op.replaced /\ op'.safe = op.safe
        BY <2>b, <3>1, <3>3, RestoreMarks DEF Ops!Steps
      <4> QED BY <2>0, <3>1, <4>1 DEF RestoreInv, Settled, Before
    <3> QED BY <2>5, <3>2, <3>3 DEF Ops!Fence
  <2>6. CASE Ops!Replace
    <3>1. /\ op.kind = "restore" /\ op.at = "replace" /\ data' = data
          /\ op'.kind = "restore" /\ op'.at = "replacing" /\ op'.whole = op.whole /\ op'.commanded
          /\ op'.stopped = op.stopped /\ op'.replaced = op.replaced /\ op'.safe = op.safe
      BY <2>b, <2>6, RestoreMarks DEF Ops!Replace, Ops!At, Ops!Steps
    <3> QED BY <2>0, <3>1 DEF RestoreInv, Settled, Before
  <2>7. CASE Ops!Replaced
    <3>1. op.kind = "restore" /\ op.at = "replacing"
      BY <2>7 DEF Ops!Replaced, Ops!At
    <3>2. CASE restorer' = FALSE /\ data' = "restored" /\
               op' = [op EXCEPT !.at = "up", !.replaced = TRUE]
      <4>1. op'.kind = "restore" /\ op'.at = "up" /\ op'.replaced
        BY <2>b, <3>1, <3>2, RestoreMarks DEF Ops!Steps
      <4> QED BY <3>2, <4>1 DEF RestoreInv, Settled, Before
    <3>3. CASE restorer' = FALSE /\ UNCHANGED data /\
               op' = [op EXCEPT !.at = "failed", !.safe = TRUE]
      <4>1. /\ op'.kind = "restore" /\ op'.at = "failed" /\ op'.whole = op.whole /\ op'.safe
            /\ op'.commanded = op.commanded /\ op'.stopped = op.stopped
        BY <2>b, <3>1, <3>3, RestoreMarks DEF Ops!Steps
      <4> QED BY <2>0, <3>1, <3>3, <4>1 DEF RestoreInv, Settled, Before
    <3>4. CASE op' = [op EXCEPT !.at = "failed"]
      <4>1. /\ op'.kind = "restore" /\ op'.at = "failed" /\ op'.commanded = op.commanded
            /\ op'.stopped = op.stopped /\ op'.replaced = op.replaced /\ op'.safe = op.safe
        BY <2>b, <3>1, <3>4, RestoreMarks DEF Ops!Steps
      <4> QED BY <2>0, <3>1, <4>1 DEF RestoreInv, Settled, Before
    <3> QED BY <2>7, <3>2, <3>3, <3>4 DEF Ops!Replaced
  <2>8. CASE Ops!UpAfterRestore
    <3>1. op.kind = "restore" /\ op.at = "up" /\ UNCHANGED <<data, restorer>>
      BY <2>8 DEF Ops!UpAfterRestore, Ops!At, Ops!BackUp, Ops!BringUp
    <3>2. CASE op' = [op EXCEPT !.at = "ready", !.stopped = FALSE] \/
               op' = [op EXCEPT !.at = "failed"]
      <4>1. /\ op'.kind = "restore" /\ op'.at \in {"ready", "failed"} /\ op'.whole = op.whole
            /\ op'.commanded = op.commanded /\ op'.replaced = op.replaced
        BY <2>b, <3>1, <3>2, RestoreMarks DEF Ops!Steps
      <4> QED BY <2>0, <3>1, <4>1 DEF RestoreInv, Settled, Before
    <3> QED BY <2>8, <3>2 DEF Ops!UpAfterRestore
  <2>9. CASE Ops!RestoreFailed \/ Ops!UpAgain \/ Ops!ReadyAgain
    BY <1>5, <2>2, <2>9 DEF Ops!RestoreFailed, Ops!UpAgain, Ops!ReadyAgain, Ops!At, Ops!Untouched,
       Ops!BackUp, Ops!BringUp, Ops!Ready
  <2> QED BY <1>6, <2>1, <2>3, <2>4, <2>5, <2>6, <2>7, <2>8, <2>9 DEF Ops!Restore
<1> QED BY <1>a, <1>1, <1>2, <1>3, <1>4, <1>6 DEF Ops!Next, Ops!Step

\* Services come up again at two points of a restore: its data was replaced, or
\* the backend vouches for it, or it was never touched.
LEMMA StartsOnWhole == Ops!OpsAssumption /\ Ops!TypeOK /\ RestoreInv /\ [Ops!Next]_opsVars =>
  Ops!StartsWholeData
<1>a. SUFFICES ASSUME Ops!OpsAssumption, Ops!TypeOK, RestoreInv, [Ops!Next]_opsVars,
                      op.kind = "restore", op.whole,
                    NEW s \in Services, app'[s] > app[s]
             PROVE  data # "partial" /\ ~restorer
  BY DEF Ops!StartsWholeData
<1>1. app[s] \in Nat
  BY <1>a DEF Ops!TypeOK, Ops!OpsAssumption
<1>2. ~(app' = app) /\ ~(app'[s] = 0)
  BY <1>a, <1>1
<1>3. ~Ops!Halt(Services, TRUE) /\ ~Ops!Halt(Services, FALSE)
  BY <1>2, <1>a DEF Ops!Halt, Ops!TypeOK
<1>4. Ops!UpAfterRestore \/ Ops!UpAgain
  <2>1. ~UNCHANGED opsVars /\ ~Ops!LockAges /\ ~Ops!RestorerEnds
    BY <1>2 DEF opsVars, Ops!LockAges, Ops!RestorerEnds, Ops!Untouched
  <2>2. Ops!Restore
    <3>1. ~Ops!Begin /\ ~(\E v \in Ops!Releases : Ops!SelectVersion(v)) /\ ~Ops!Crash
      BY <1>a, <1>2 DEF Ops!Begin, Ops!Starts, Ops!SelectVersion, Ops!Crash, Ops!Untouched
    <3>2. ~Ops!Launch("start") /\ ~Ops!Launch("restart") /\ ~Ops!Stop
      BY <1>a DEF Ops!Launch, Ops!Stop, Ops!Does, Ops!At
    <3>3. ~Ops!Update
      BY <1>a DEF Ops!Update, Ops!UpdateBegins, Ops!Starts, Ops!UpdateBackup, Ops!WriteVersion,
         Ops!WriteChannel, Ops!Pull, Ops!Reset,
         Ops!UpdateFailed, Ops!Offline, Ops!RolledBack, Ops!DrainBack, Ops!PullBack, Ops!UpBack,
           Ops!Does, Ops!At
    <3>4. ~Ops!Repair
      BY <1>a DEF Ops!Repair, Ops!RepairBegins, Ops!Starts, Ops!Does, Ops!At
    <3> QED BY <1>a, <2>1, <3>1, <3>2, <3>3, <3>4 DEF Ops!Next, Ops!Step
  <2> QED BY <1>2, <1>3, <2>2 DEF Ops!Restore, Ops!RestoreBegins, Ops!Starts, Ops!CheckArchive,
      Ops!Does, Ops!StopServices, Ops!Fence,
        Ops!TakeDown, Ops!Replace, Ops!Replaced, Ops!Ready, Ops!RestoreFailed, Ops!ReadyAgain,
          Ops!Untouched
<1>5. op.replaced \/ Ops!MayRestart
  BY <1>a, <1>4 DEF Ops!UpAfterRestore, Ops!UpAgain, Ops!At, RestoreInv
<1>6. Settled
  BY <1>a, <1>5 DEF Settled, Ops!MayRestart, RestoreInv
<1> QED BY <1>a, <1>6 DEF RestoreInv

\* Only a migration and a start of all services with their migration change the
\* schema, and both wait for the drain.
LEMMA MigratesDown ==
    Ops!OpsAssumption /\ Ops!TypeOK /\ OrderInv /\ [Ops!Next]_opsVars /\ op.kind # "repair" /\
      op'.kind # "repair"
        => Ops!MigratesDrained
<1>a. SUFFICES ASSUME Ops!OpsAssumption, Ops!TypeOK, OrderInv, [Ops!Next]_opsVars,
                      op.kind # "repair",
                    op'.kind # "repair", db' # db
             PROVE  app = Ops!AllDown
  BY DEF Ops!MigratesDrained
<1>0. PhaseInv /\ db' # db /\ op.kind # "repair"
  BY <1>a DEF OrderInv
<1>1. ~Ops!Untouched /\ ~UNCHANGED opsVars /\ ~Ops!LockAges /\ ~Ops!RestorerEnds /\ ~Ops!Crash
  BY <1>0 DEF Ops!Untouched, opsVars, Ops!LockAges, Ops!RestorerEnds, Ops!Crash
<1>2. \A v \in Ops!Releases : ~Ops!SelectVersion(v)
  BY <1>0 DEF Ops!SelectVersion
<1>3. \A kind, at, to : ~Ops!Starts(kind, at, to)
  BY <1>1 DEF Ops!Starts
<1>4. /\ \A S, ok \in BOOLEAN : ~Ops!Halt(S, ok)
      /\ \A ok \in BOOLEAN : ~Ops!TakeDown(ok) /\ ~Ops!StopServices(ok) /\ ~Ops!Ready(ok) /\
            ~Ops!BackUp(ok)
  BY <1>0 DEF Ops!Halt, Ops!TakeDown, Ops!StopServices, Ops!Ready, Ops!BackUp, Ops!BringUp
<1>5. \/ Ops!Launch("start") \/ Ops!Launch("restart") \/ Ops!Update
  <2>1. ~Ops!Restore
    BY <1>0, <1>1, <1>3, <1>4 DEF Ops!Restore, Ops!RestoreBegins, Ops!CheckArchive, Ops!Does,
       Ops!Fence, Ops!Replace, Ops!Replaced,
       Ops!UpAfterRestore, Ops!RestoreFailed, Ops!UpAgain, Ops!ReadyAgain
  <2>2. ~Ops!Begin /\ ~Ops!Stop
    BY <1>1, <1>3, <1>4 DEF Ops!Begin, Ops!Stop, Ops!Does
  <2>3. ~Ops!Repair
    BY <1>0, <1>3 DEF Ops!Repair, Ops!RepairBegins, Ops!Does, Ops!At
  <2> QED BY <1>a, <1>1, <1>2, <2>1, <2>2, <2>3 DEF Ops!Next, Ops!Step
<1>6. ASSUME NEW kind \in {"start", "restart"}, Ops!Launch(kind) PROVE app = Ops!AllDown
  <2>1. op.kind = kind /\ op.at \in {"migrate", "up"}
    BY <1>1, <1>4, <1>6 DEF Ops!Launch, Ops!Does, Ops!At
  <2> QED BY <1>0, <2>1 DEF PhaseInv, Drained, Launching
<1>7. CASE Ops!Update
  <2>1. op.kind = "update" /\ op.at \in {"migrate", "up", "up back"}
    <3>1. ~(\E v \in Ops!Releases, c \in Channels : Ops!UpdateBegins(v, c))
      BY <1>3 DEF Ops!UpdateBegins
    <3>2. ~Ops!UpdateBackup /\ ~Ops!Pull /\ ~Ops!Reset /\ ~Ops!UpdateFailed /\ ~Ops!RolledBack /\
          ~Ops!PullBack
      BY <1>1 DEF Ops!UpdateBackup, Ops!Pull, Ops!Reset, Ops!UpdateFailed, Ops!RolledBack,
         Ops!PullBack
    <3>3. \A at, pair, next : ~Ops!WriteVersion(at, pair, next) /\ ~Ops!WriteChannel(at, pair, next)
      BY <1>0 DEF Ops!WriteVersion, Ops!WriteChannel
    <3> QED BY <1>1, <1>4, <1>7, <3>1, <3>2, <3>3 DEF Ops!Update, Ops!Does, Ops!At, Ops!Offline,
        Ops!DrainBack, Ops!UpBack
  <2> QED BY <1>0, <2>1 DEF PhaseInv, Drained, Launching
<1> QED BY <1>5, <1>6, <1>7

-----------------------------------------------------------------------------
(* Automatic updates, on a host whose Launcher makes them.                 *)

Wakes == flow["wake"]
Asked == flow["ui"]

\* A flow that loads or runs holds the lock, and so does what the settings page
\* asked for while it is scheduled; only runs run; the first step after a death is the start.
FlowInv ==
    /\ auto.at = "sleep" /\ command.at = "idle"
    /\ \A f \in Updates!Flows : /\ flow[f].at \in {"load", "run"} => lock = f
                                /\ flow[f].at = "run" => flow[f].does = "run"
    /\ Asked.at \in Updates!Planning => lock = "ui"
    /\ Asked.at # "schedule" /\ Asked.key = 0
    /\ Wakes.does = "edit" => Wakes.at = "lock" /\ Asked.at = "idle"

\* What the flows do not do at once, unless the page crosses an unlocked schedule.
Working == {"load", "run", "schedule"} \cup Updates!Planning
Alone   == ~(Wakes.at \in Working /\ Asked.at \in Working)

\* Store and memory, and what is about to be saved, say what the last edit asked for,
\* but for the edit that is being saved and the memory of a Launcher that has not loaded.
Editing == Asked.at \in Updates!Planning /\ Asked.does = "edit"
EditInv ==
    /\ Editing => /\ mem.on = Asked.sets /\ store.on \in {wish, Asked.sets}
                  /\ Asked.at = "arm" => store.on = Asked.sets
    /\ ~Editing => store.on = wish /\ (Wakes.does = "run" => mem.on = wish)
    /\ \A f \in Updates!Flows :
          /\ flow[f].at = "write" => draft[f].on = mem.on
          /\ flow[f].at = "rename" => temp # {} /\ \A copy \in temp : copy.on = mem.on

\* The timer, and a wake that has not begun its attempt, are for a window that
\* comes after every window attempted.
Ahead(t) == t % 2 = 1 /\ \A w \in Updates!Windows : attempts[w] > 0 => Updates!Time(w) < t
AttemptInv ==
    /\ \A w \in Updates!Windows : /\ attempts[w] <= 1
                                  /\ attempts[w] > 0 => Updates!Time(w) <= now
    /\ timer # 0 => timer = mem.next /\ mem.on /\ mem.state # "blocked" /\ Ahead(timer)
    /\ Wakes.does = "run" /\ Wakes.at \in {"lock", "load"} =>
          /\ Wakes.key \in Updates!Windows /\ attempts[Wakes.key] = 0
          /\ Updates!Time(Wakes.key) <= now

\* While a flow runs or schedules there is no timer, and what it has planned is what the
\* timer needs when it is armed.
Scheduling == {"run", "schedule"} \cup Updates!Planning
PlanInv ==
    \A f \in Updates!Flows :
       /\ flow[f].at \in Scheduling => timer = 0
       /\ f = "wake" /\ flow[f].does = "edit" => timer = 0
       /\ flow[f].at = "refresh" => mem.on /\ mem.state = "blocked"
       /\ flow[f].at \in Updates!Planning \ {"refresh"} =>
             IF flow[f].arms THEN mem.on /\ mem.state # "blocked" /\ Ahead(mem.next)
             ELSE ~mem.on \/ mem.state = "blocked"

\* Unless a flow is on its way to schedule, the timer is set.
Pending  == Wakes.at # "idle" \/ Asked.at \in {"run"} \cup Updates!Planning
TimerInv == ~Pending /\ mem.on /\ mem.state # "blocked" => timer > 0

KeptInv     == ~Updates!Crossing /\ EditInv /\ AttemptInv /\ PlanInv /\ TimerInv
ScheduleInv == FlowInv /\ (~crossed => KeptInv)

\* The next window begins after now, and its timer is an odd time.
LEMMA NextWindow ==
    ASSUME Updates!UpdateAssumption, Updates!TypeOK
    PROVE  /\ Updates!NextDate \in 0 .. MaxTime + 2 /\ Updates!NextDate \in Nat
           /\ Updates!NextDate > now /\ Updates!NextDate % 2 = 1
<1>1. now \in 0 .. MaxTime /\ MaxTime \in Nat
  BY DEF Updates!UpdateAssumption, Updates!TypeOK
<1> QED BY <1>1 DEF Updates!NextDate

\* Where a flow goes: it is as it was but for its place and its timer, or it rests.
Spots == {"idle", "lock", "load", "run", "schedule"} \cup Updates!Planning
FlowGoes(f, at) ==
    /\ flow' \in [Updates!Flows -> Updates!Flow] /\ flow'[f].at = at
    /\ \/ /\ flow'[f].does = flow[f].does /\ flow'[f].key = flow[f].key
          /\ flow'[f].sets = flow[f].sets
       \/ at = "idle" /\ flow'[f].does = "run" /\ flow'[f].key = 0
    /\ \A g \in Updates!Flows \ {f} : flow'[g] = flow[g]

LEMMA FlowMoves ==
    ASSUME flow \in [Updates!Flows -> Updates!Flow], NEW f \in Updates!Flows,
           NEW at \in Spots, Updates!Moves(f, at)
    PROVE  FlowGoes(f, at) /\ flow'[f].does = flow[f].does /\ flow'[f].sets = flow[f].sets
           /\ flow'[f].key = flow[f].key /\ flow'[f].arms = flow[f].arms
<1>2. flow' = [flow EXCEPT ![f] = [flow[f] EXCEPT !.at = at]]
  BY DEF Updates!Moves
<1>3. [flow[f] EXCEPT !.at = at] \in Updates!Flow
  BY DEF Updates!Flow, Spots
<1>4. flow'[f] = [flow[f] EXCEPT !.at = at]
  BY <1>2
<1>5. flow[f] \in Updates!Flow
  OBVIOUS
<1>6. /\ flow'[f].at = at /\ flow'[f].does = flow[f].does /\ flow'[f].arms = flow[f].arms
      /\ flow'[f].key = flow[f].key /\ flow'[f].sets = flow[f].sets
  BY <1>4, <1>5 DEF Updates!Flow
<1>7. flow' \in [Updates!Flows -> Updates!Flow]
  BY <1>2, <1>3
<1>8. \A g \in Updates!Flows \ {f} : flow'[g] = flow[g]
  BY <1>2
<1> QED BY <1>6, <1>7, <1>8 DEF FlowGoes

LEMMA FlowRests ==
    ASSUME flow \in [Updates!Flows -> Updates!Flow], NEW f \in Updates!Flows, Updates!Rests(f)
    PROVE  FlowGoes(f, "idle") /\ flow'[f].does = "run"
<1>1. Updates!Resting \in Updates!Flow
  BY DEF Updates!Resting, Updates!Flow, Updates!Keys
<1>2. /\ flow' \in [Updates!Flows -> Updates!Flow] /\ flow'[f] = Updates!Resting
      /\ \A g \in Updates!Flows \ {f} : flow'[g] = flow[g]
  BY <1>1 DEF Updates!Rests
<1> QED BY <1>2 DEF FlowGoes, Updates!Resting

\* What scheduleNext leaves at its first await: no timer, the setting as it was, and a
\* next run after now for a flow that is to arm it.
LEMMA PlansDo ==
    ASSUME Updates!UpdateAssumption, Updates!TypeOK, NEW f \in Updates!Flows,
           NEW m \in Updates!Store, Updates!Plans(f, m)
    PROVE  /\ timer' = 0 /\ mem' \in Updates!Store /\ mem'.on = m.on
           /\ \E at \in {"refresh", "save"} : FlowGoes(f, at)
           /\ flow'[f].does = flow[f].does /\ flow'[f].sets = flow[f].sets
           /\ flow'[f].arms = m.on
           /\ flow'[f].at = "refresh" => mem'.on /\ mem'.state = "blocked"
           /\ flow'[f].at = "save" /\ m.on => mem'.state # "blocked" /\ mem'.next = Updates!NextDate
<1>0. flow \in [Updates!Flows -> Updates!Flow] /\ flow[f] \in Updates!Flow
  BY DEF Updates!TypeOK
<1>1. Updates!NextDate \in 0 .. MaxTime + 2 /\ 0 \in 0 .. MaxTime + 2
  BY NextWindow DEF Updates!UpdateAssumption
<1>2. /\ Updates!Planned(m) \in Updates!Store /\ Updates!Planned(m).on = m.on
      /\ m.on => Updates!Planned(m).next = Updates!NextDate
      /\ m.on /\ m.state # "blocked" => Updates!Planned(m).state # "blocked"
  BY <1>1 DEF Updates!Planned, Updates!Store, Updates!States
<1>3. PICK at \in {"refresh", "save"} :
        /\ at = IF m.on /\ m.state = "blocked" THEN "refresh" ELSE "save"
        /\ flow' = [flow EXCEPT ![f] = [flow[f] EXCEPT !.at = at, !.arms = m.on]]
  BY <1>0 DEF Updates!Plans
<1>4. m.on \in BOOLEAN
  BY DEF Updates!Store
<1>5. /\ [flow[f] EXCEPT !.at = at, !.arms = m.on] \in Updates!Flow
      /\ flow'[f] = [flow[f] EXCEPT !.at = at, !.arms = m.on]
  BY <1>0, <1>3, <1>4 DEF Updates!Flow, Updates!Planning
<1>6. /\ flow'[f].at = at /\ flow'[f].does = flow[f].does /\ flow'[f].key = flow[f].key
      /\ flow'[f].sets = flow[f].sets /\ flow'[f].arms = m.on
  BY <1>0, <1>5 DEF Updates!Flow
<1>7. flow' \in [Updates!Flows -> Updates!Flow] /\ \A g \in Updates!Flows \ {f} : flow'[g] = flow[g]
  BY <1>0, <1>3, <1>5
<1>8. FlowGoes(f, at)
  BY <1>6, <1>7 DEF FlowGoes
<1>9. timer' = 0 /\ mem' = IF m.on /\ m.state = "blocked" THEN m ELSE Updates!Planned(m)
  BY DEF Updates!Plans
<1> QED BY <1>2, <1>3, <1>6, <1>8, <1>9

\* What is loaded is a store, and whether updates are on is as the file says.
LEMMA LoadedStore ==
    ASSUME Updates!UpdateAssumption, Updates!TypeOK
    PROVE  Updates!Loaded \in Updates!Store /\ Updates!Loaded.on = store.on
<1>1. store \in Updates!Store
  BY DEF Updates!TypeOK
<1>2. 0 \in 0 .. MaxTime + 2
  BY DEF Updates!UpdateAssumption
<1> QED BY <1>1, <1>2 DEF Updates!Loaded, Updates!Store, Updates!States

\* The memory from which a failure, an edit, or an unblocked release is scheduled.
LEMMA NewMemory ==
    ASSUME Updates!UpdateAssumption, Updates!TypeOK
    PROVE  /\ \A s \in {"done", "scheduled"} : /\ [mem EXCEPT !.state = s] \in Updates!Store
                                               /\ [mem EXCEPT !.state = s].on = mem.on
           /\ \A b \in BOOLEAN, s \in {"scheduled", "idle"} :
                 /\ [Updates!Loaded EXCEPT !.on = b, !.state = s] \in Updates!Store
                 /\ [Updates!Loaded EXCEPT !.on = b, !.state = s].on = b
<1>1. mem \in Updates!Store
  BY DEF Updates!TypeOK
<1>2. Updates!Loaded \in Updates!Store
  BY LoadedStore
<1> QED BY <1>1, <1>2 DEF Updates!Store, Updates!States

\* The steps of the Launcher, without a daemon and commands.
AutoStep ==
    \/ /\ Wakes.does = "run"
       /\ \/ Updates!Wake
          \/ \E does \in {"run", "edit"}, sets \in BOOLEAN : Updates!Ask(does, sets)
          \/ \E f \in Updates!Flows : Updates!TakeLock(f)
    \/ \E f \in Updates!Flows :
          \/ Updates!LoadEdit(f) \/ Updates!LoadRun(f) \/ Updates!Run(f) \/ Updates!Schedule(f)
          \/ Updates!Refresh(f) \/ Updates!Serialise(f) \/ Updates!Write(f) \/ Updates!Rename(f)
          \/ Updates!Arm(f)
    \/ Updates!Crash \/ Updates!Boot \/ Updates!Other \/ Updates!Tick

LEMMA StepsOfAuto ==
    ASSUME Updates!TypeOK, FlowInv, Updates!Next
    PROVE  AutoStep
<1>1. ~Updates!Starting => Wakes.does = "run"
  <2>1. flow["wake"] \in Updates!Flow
    BY DEF Updates!TypeOK, Updates!Flows
  <2> QED BY <2>1 DEF Updates!Starting, FlowInv, Wakes, Updates!Flow
<1>2. ~Updates!Cli
  BY DEF FlowInv, Updates!Cli, Updates!DaemonReads, Updates!DaemonLocks, Updates!DaemonRuns,
     Updates!DaemonWrites, Updates!CommandBegins, Updates!CommandReads, Updates!CommandWrites
<1>3. Updates!Launcher \/ Updates!Other \/ Updates!Tick
  BY <1>2 DEF Updates!Next
<1> QED BY <1>1, <1>3 DEF Updates!Launcher, AutoStep

(* The types, in the parts that a step leaves alone or changes.            *)
Numbers == /\ now \in 0 .. MaxTime /\ edits \in 0 .. MaxEdits /\ crashes \in 0 .. MaxCrashes
           /\ timer \in 0 .. MaxTime + 2
Stores  == store \in Updates!Store /\ mem \in Updates!Store /\ wish \in BOOLEAN
Files   == draft \in [Updates!Flows -> Updates!Store] /\ temp \in SUBSET Updates!Store
Places  == /\ flow \in [Updates!Flows -> Updates!Flow]
           /\ lock \in {"", "wake", "ui", "daemon", "command", "other", "orphan"}
           /\ \A f \in Updates!Flows : lock = f => flow[f].at \in {"load", "run"} \cup Updates!Planning
Cli     == /\ auto \in [at : {"sleep", "lock", "run", "write"}, copy : Updates!Store]
           /\ command \in [at : {"idle", "read", "write"}, copy : Updates!Store, sets : BOOLEAN]
Counted == attempts \in [Updates!Windows -> Nat]

LEMMA TypeParts ==
    Updates!TypeOK <=> Numbers /\ Stores /\ Files /\ Places /\ Cli /\ Counted /\ crossed \in BOOLEAN
BY DEF Updates!TypeOK, Numbers, Stores, Files, Places, Cli, Counted

LEMMA TypePartsNext ==
    Numbers' /\ Stores' /\ Files' /\ Places' /\ Cli' /\ Counted' /\ crossed' \in BOOLEAN
       => Updates!TypeOK'
BY DEF Updates!TypeOK, Numbers, Stores, Files, Places, Cli, Counted

\* A flow that goes on has, keeps or gives back the lock as its place says.
LEMMA PlacesStep ==
    ASSUME Places, NEW f \in Updates!Flows, NEW at \in Spots, FlowGoes(f, at),
           \/ lock' = lock /\ (at \in {"load", "run"} \cup Updates!Planning \/ lock # f)
           \/ lock' = f /\ at \in {"load", "run"} \cup Updates!Planning
           \/ Updates!Frees(f)
    PROVE  Places'
<1>1. /\ flow' \in [Updates!Flows -> Updates!Flow] /\ flow'[f].at = at
      /\ \A g \in Updates!Flows \ {f} : flow'[g] = flow[g]
  BY DEF FlowGoes
<1>2. lock' = lock \/ lock' = f \/ lock' = ""
  BY DEF Updates!Frees
<1>3. lock' \in {"", "wake", "ui", "daemon", "command", "other", "orphan"}
  BY <1>2 DEF Places, Updates!Flows
<1>4. \A g \in Updates!Flows : lock' = g => flow'[g].at \in {"load", "run"} \cup Updates!Planning
  <2> SUFFICES ASSUME NEW g \in Updates!Flows, lock' = g
               PROVE  flow'[g].at \in {"load", "run"} \cup Updates!Planning
    OBVIOUS
  <2>1. CASE g = f
    BY <1>1, <2>1 DEF Updates!Frees, Updates!Flows
  <2>2. CASE g # f
    <3>1. lock = g
      BY <2>2 DEF Updates!Frees, Updates!Flows
    <3> QED BY <1>1, <2>2, <3>1 DEF Places
  <2> QED BY <2>1, <2>2
<1> QED BY <1>1, <1>3, <1>4 DEF Places

\* Every step keeps the types of the store, the memory, the flows and the lock.
LEMMA AutoTypeStep ==
    ASSUME Updates!UpdateAssumption, Updates!TypeOK, FlowInv, [Updates!Next]_autoVars
    PROVE  Updates!TypeOK'
<1>0. Numbers /\ Stores /\ Files /\ Places /\ Cli /\ Counted /\ crossed \in BOOLEAN
  BY TypeParts
<1>n. MaxTime \in Nat /\ MaxEdits \in Nat /\ MaxCrashes \in Nat
  BY DEF Updates!UpdateAssumption
<1>z. 0 \in 0 .. MaxTime + 2 /\ Updates!DefaultStore \in Updates!Store
  BY <1>n DEF Updates!DefaultStore, Updates!Store, Updates!States, Updates!Keys
<1>f. flow \in [Updates!Flows -> Updates!Flow]
  BY <1>0 DEF Places
<1>c. crossed' \in BOOLEAN
  <2>1. CASE UNCHANGED autoVars
    BY <1>0, <2>1 DEF autoVars
  <2>2. CASE Updates!Next
    BY <2>2 DEF Updates!Next
  <2> QED BY <2>1, <2>2
<1>g. ASSUME NEW f \in Updates!Flows, NEW m \in Updates!Store, Updates!Plans(f, m),
             lock' = lock \/ Updates!Frees(f),
             flow[f].at \notin {"load", "run"} \cup Updates!Planning
                 => (lock' = lock /\ lock # f) \/ Updates!Frees(f)
      PROVE  timer' \in 0 .. MaxTime + 2 /\ mem' \in Updates!Store /\ Places'
  <2>1. timer' = 0 /\ mem' \in Updates!Store /\ \E at \in {"refresh", "save"} : FlowGoes(f, at)
    BY <1>g, PlansDo
  <2>2. PICK at \in {"refresh", "save"} : FlowGoes(f, at)
    BY <2>1
  <2>3. at \in Spots /\ at \in Updates!Planning
    BY DEF Spots, Updates!Planning
  <2>4. Places'
    BY <1>0, <1>g, <2>2, <2>3, PlacesStep
  <2> QED BY <1>z, <2>1, <2>4
<1> SUFFICES Numbers' /\ Stores' /\ Files' /\ Places' /\ Cli' /\ Counted'
  BY <1>c, TypePartsNext
<1>2. CASE UNCHANGED autoVars
  BY <1>0, <1>2 DEF autoVars, Numbers, Stores, Files, Places, Cli, Counted
<1>3. ASSUME UNCHANGED <<auto, command>> PROVE Cli'
  BY <1>0, <1>3 DEF Cli
<1>s. ASSUME NEW f \in Updates!Flows, NEW at \in Spots, Updates!Moves(f, at) PROVE FlowGoes(f, at)
  BY <1>f, <1>s, FlowMoves
<1>r. ASSUME NEW f \in Updates!Flows, Updates!Rests(f) PROVE FlowGoes(f, "idle")
  BY <1>f, <1>r, FlowRests
<1>4. CASE Updates!Wake
  <2>1. /\ UNCHANGED <<store, wish, attempts, auto, command, now, edits, crashes, lock, draft, temp>>
        /\ timer # 0 /\ now >= timer /\ flow["wake"].at = "idle" /\ "wake" \in Updates!Flows
    BY <1>4 DEF Updates!Wake, Updates!World, Updates!Files, Updates!Flows
  <2>a. mem \in Updates!Store /\ mem.next \in 0 .. MaxTime + 2
    BY <1>0 DEF Stores, Updates!Store
  <2>b. lock # "wake"
    BY <1>0, <2>1 DEF Places, Updates!Planning
  <2>2. CASE timer' \in {0, mem.next} /\ UNCHANGED <<mem, flow>>
    <3>1. Places'
      BY <1>0, <2>1, <2>2 DEF Places
    <3> QED BY <1>0, <1>n, <1>z, <1>3, <2>1, <2>2, <2>a, <3>1 DEF Numbers, Stores, Files, Counted
  <2>3. CASE Updates!Plans("wake", mem)
    <3>1. timer' \in 0 .. MaxTime + 2 /\ mem' \in Updates!Store /\ Places'
      BY <1>g, <2>1, <2>3, <2>a, <2>b
    <3> QED BY <1>0, <1>3, <2>1, <3>1 DEF Numbers, Stores, Files, Counted
  <2>4. ASSUME NEW key, key = ((IF mem.next # 0 THEN mem.next ELSE Updates!NextDate) + 1) \div 2,
               (IF mem.next # 0 THEN mem.next ELSE Updates!NextDate) <= now, timer' = 0, mem' = mem,
               flow' = [flow EXCEPT !["wake"] = [Updates!Resting EXCEPT !.at = "lock", !.key = key]]
        PROVE  Numbers' /\ Stores' /\ Files' /\ Places' /\ Cli' /\ Counted'
    <3>1. now \in 0 .. MaxTime /\ Updates!NextDate > now /\ Updates!NextDate \in Nat
      BY <1>0, NextWindow DEF Numbers
    <3>2. key \in Updates!Keys
      <4>1. mem.next \in Nat /\ mem.next # 0 /\ mem.next <= MaxTime
        BY <1>n, <2>4, <2>a, <3>1
      <4>2. (mem.next + 1) \div 2 \in 1 .. (MaxTime + 1) \div 2
        BY <1>n, <4>1
      <4> QED BY <2>4, <4>1, <4>2 DEF Updates!Keys, Updates!Windows
    <3>3. [Updates!Resting EXCEPT !.at = "lock", !.key = key] \in Updates!Flow
      BY <3>2 DEF Updates!Resting, Updates!Flow
    <3>4. flow' \in [Updates!Flows -> Updates!Flow] /\ \A g \in Updates!Flows \ {"wake"} : flow'[g] = flow[g]
      BY <1>f, <2>1, <2>4, <3>3
    <3>5. Places'
      BY <1>0, <2>1, <2>b, <3>4 DEF Places
    <3> QED BY <1>0, <1>z, <1>3, <2>1, <2>4, <2>a, <3>5 DEF Numbers, Stores, Files, Counted
  <2>n. now \in Nat /\ (IF mem.next # 0 THEN mem.next ELSE Updates!NextDate) \in Nat
    <3>1. now \in 0 .. MaxTime /\ Updates!NextDate \in Nat
      BY <1>0, NextWindow DEF Numbers
    <3> QED BY <1>n, <2>a, <3>1
  <2>5. ~((IF mem.next # 0 THEN mem.next ELSE Updates!NextDate) > now)
          => (IF mem.next # 0 THEN mem.next ELSE Updates!NextDate) <= now
    BY <2>n
  <2> QED BY <1>4, <2>2, <2>3, <2>4, <2>5 DEF Updates!Wake
<1>5. ASSUME NEW does \in {"run", "edit"}, NEW sets \in BOOLEAN, Updates!Ask(does, sets)
      PROVE  Numbers' /\ Stores' /\ Files' /\ Places' /\ Cli' /\ Counted'
  <2>1. /\ UNCHANGED <<now, store, mem, timer, lock, wish, attempts, auto, command, crashes,
                       draft, temp>>
        /\ edits < MaxEdits /\ edits' = edits + 1 /\ flow["ui"].at = "idle"
        /\ "ui" \in Updates!Flows
    BY <1>5 DEF Updates!Ask, Updates!Files, Updates!Flows
  <2>2. [Updates!Resting EXCEPT !.at = "lock", !.does = does, !.sets = sets] \in Updates!Flow
    BY DEF Updates!Resting, Updates!Flow, Updates!Keys
  <2>3. flow' \in [Updates!Flows -> Updates!Flow] /\ \A g \in Updates!Flows \ {"ui"} : flow'[g] = flow[g]
    BY <1>f, <1>5, <2>2 DEF Updates!Ask
  <2>4. lock # "ui"
    BY <1>0, <2>1 DEF Places, Updates!Planning
  <2>5. Places'
    BY <1>0, <2>1, <2>3, <2>4 DEF Places
  <2> QED BY <1>0, <1>n, <1>3, <2>1, <2>5 DEF Numbers, Stores, Files, Counted
<1>6. ASSUME NEW f \in Updates!Flows, Updates!TakeLock(f)
      PROVE  Numbers' /\ Stores' /\ Files' /\ Places' /\ Cli' /\ Counted'
  <2>1. /\ UNCHANGED <<now, store, wish, attempts, auto, command, edits, crashes, draft, temp>>
        /\ lock # f
    BY <1>0, <1>6 DEF Updates!TakeLock, Updates!World, Updates!Files, Places, Updates!Planning
  <2>2. timer' \in 0 .. MaxTime + 2 /\ mem' \in Updates!Store /\ Places'
    <3>1. ASSUME Places', UNCHANGED <<mem, timer>>
          PROVE  timer' \in 0 .. MaxTime + 2 /\ mem' \in Updates!Store /\ Places'
      BY <1>0, <3>1 DEF Numbers, Stores
    <3>2. CASE lock' = lock /\ Updates!Plans(f, [mem EXCEPT !.state = "done"])
      BY <1>g, <2>1, <3>2, NewMemory
    <3>3. CASE lock = "" /\ lock' = f /\ Updates!Moves(f, "load") /\ UNCHANGED <<mem, timer>>
      <4>1. Places'
        BY <1>0, <1>s, <3>3, PlacesStep DEF Spots
      <4> QED BY <3>1, <3>3, <4>1
    <3>4. CASE f = "ui" /\ UNCHANGED lock /\ Updates!Rests(f) /\ UNCHANGED <<mem, timer>>
      <4>1. Places'
        BY <1>0, <1>r, <2>1, <3>4, PlacesStep DEF Spots
      <4> QED BY <3>1, <3>4, <4>1
    <3>5. CASE f # "ui" /\ UNCHANGED lock /\ Updates!Plans(f, [mem EXCEPT !.state = "done"])
      BY <3>2, <3>5
    <3> QED BY <1>6, <3>3, <3>4, <3>5 DEF Updates!TakeLock
  <2> QED BY <1>0, <1>3, <2>1, <2>2 DEF Numbers, Stores, Files, Counted
<1>7. ASSUME NEW f \in Updates!Flows, Updates!LoadEdit(f) \/ Updates!Schedule(f) \/ Updates!Refresh(f)
      PROVE  Numbers' /\ Stores' /\ Files' /\ Places' /\ Cli' /\ Counted'
  <2>1. /\ UNCHANGED <<now, store, lock, wish, attempts, auto, command, edits, crashes, draft, temp>>
        /\ mem \in Updates!Store /\ flow[f].sets \in BOOLEAN
    BY <1>0, <1>7 DEF Updates!LoadEdit, Updates!Schedule, Updates!Refresh, Updates!World,
       Updates!Files, Stores, Places, Updates!Flow
  <2>2. \/ \E m \in Updates!Store : Updates!Plans(f, m)
        \/ /\ Updates!Refresh(f) /\ mem' = [mem EXCEPT !.next = 0] /\ UNCHANGED timer
           /\ flow' = [flow EXCEPT ![f].at = "save", ![f].arms = FALSE]
    <3>1. CASE Updates!LoadEdit(f)
      BY <2>1, <3>1, NewMemory DEF Updates!LoadEdit
    <3>2. CASE Updates!Schedule(f)
      BY <2>1, <3>2 DEF Updates!Schedule
    <3>3. CASE Updates!Refresh(f)
      BY <2>1, <3>3, NewMemory DEF Updates!Refresh
    <3> QED BY <1>7, <3>1, <3>2, <3>3
  <2>a. flow[f].at \in {"load", "run"} \cup Updates!Planning \/ lock # f
    BY <1>0 DEF Places
  <2>3. CASE \E m \in Updates!Store : Updates!Plans(f, m)
    <3>1. timer' \in 0 .. MaxTime + 2 /\ mem' \in Updates!Store /\ Places'
      BY <1>g, <2>1, <2>3, <2>a
    <3> QED BY <1>0, <1>3, <2>1, <3>1 DEF Numbers, Stores, Files, Counted
  <2>4. CASE /\ Updates!Refresh(f) /\ mem' = [mem EXCEPT !.next = 0] /\ UNCHANGED timer
             /\ flow' = [flow EXCEPT ![f].at = "save", ![f].arms = FALSE]
    <3>1. mem' \in Updates!Store
      BY <1>z, <2>1, <2>4 DEF Updates!Store
    <3>2. flow' = [flow EXCEPT ![f] = [flow[f] EXCEPT !.at = "save", !.arms = FALSE]]
      BY <1>f, <2>4
    <3>3. [flow[f] EXCEPT !.at = "save", !.arms = FALSE] \in Updates!Flow
      BY <1>f DEF Updates!Flow, Updates!Planning
    <3>4. flow[f] \in Updates!Flow
      BY <1>f
    <3>5. /\ flow' \in [Updates!Flows -> Updates!Flow]
          /\ flow'[f] = [flow[f] EXCEPT !.at = "save", !.arms = FALSE]
          /\ \A g \in Updates!Flows \ {f} : flow'[g] = flow[g]
      BY <1>f, <3>2, <3>3
    <3>6. FlowGoes(f, "save")
      BY <3>4, <3>5 DEF FlowGoes, Updates!Flow
    <3>7. Places'
      BY <1>0, <2>1, <3>6, PlacesStep DEF Spots, Updates!Planning
    <3> QED BY <1>0, <1>3, <2>1, <2>4, <3>1, <3>7 DEF Numbers, Stores, Files, Counted
  <2> QED BY <2>2, <2>3, <2>4
<1>8. ASSUME NEW f \in Updates!Flows, Updates!LoadRun(f)
      PROVE  Numbers' /\ Stores' /\ Files' /\ Places' /\ Cli' /\ Counted'
  <2>1. /\ UNCHANGED <<now, wish, auto, command, edits, crashes, draft, temp>>
        /\ timer' = timer \/ timer' = 0
        /\ store' = store \/ store' = mem'
        /\ mem' = Updates!Loaded \/
              mem' = [Updates!Loaded EXCEPT !.state = "running", !.key = flow[f].key]
    BY <1>8 DEF Updates!LoadRun, Updates!World, Updates!Files
  <2>2. flow[f].key \in Updates!Keys
    BY <1>0 DEF Places, Updates!Flow
  <2>3. mem' \in Updates!Store
    BY <2>1, <2>2, LoadedStore DEF Updates!Store, Updates!States
  <2>4. Counted'
    BY <1>0, <1>8 DEF Updates!LoadRun, Counted
  <2>5. timer' \in 0 .. MaxTime + 2
    BY <1>0, <1>z, <2>1 DEF Numbers
  <2>6. Places'
    <3>1. CASE Updates!Rests(f) /\ Updates!Frees(f)
      BY <1>0, <1>r, <3>1, PlacesStep DEF Spots
    <3>2. CASE Updates!Moves(f, "run") /\ lock' = lock
      BY <1>0, <1>s, <3>2, PlacesStep DEF Spots
    <3> QED BY <1>8, <3>1, <3>2 DEF Updates!LoadRun
  <2>7. store' \in Updates!Store
    BY <1>0, <2>1, <2>3 DEF Stores
  <2> QED BY <1>0, <1>3, <2>1, <2>3, <2>4, <2>5, <2>6, <2>7 DEF Numbers, Stores, Files
<1>9. ASSUME NEW f \in Updates!Flows, Updates!Run(f)
      PROVE  Numbers' /\ Stores' /\ Files' /\ Places' /\ Cli' /\ Counted'
  <2>1. /\ UNCHANGED <<now, wish, attempts, auto, command, edits, crashes, draft, temp>>
        /\ flow[f].at = "run" /\ mem \in Updates!Store
    BY <1>0, <1>9 DEF Updates!Run, Updates!World, Updates!Files, Stores
  <2>2. CASE Updates!Plans(f, [mem EXCEPT !.state = "done"]) /\ UNCHANGED <<store, lock>>
    <3>1. timer' \in 0 .. MaxTime + 2 /\ mem' \in Updates!Store /\ Places'
      BY <1>g, <2>1, <2>2, NewMemory
    <3> QED BY <1>0, <1>3, <2>1, <2>2, <3>1 DEF Numbers, Stores, Files, Counted
  <2>3. CASE /\ mem' = [mem EXCEPT !.state = "blocked", !.next = 0]
             /\ store' = mem' /\ Updates!Frees(f) /\ Updates!Rests(f) /\ UNCHANGED timer
    <3>1. mem' \in Updates!Store
      BY <1>z, <2>1, <2>3 DEF Updates!Store, Updates!States
    <3>2. Places'
      BY <1>0, <1>r, <2>3, PlacesStep DEF Spots
    <3> QED BY <1>0, <1>3, <2>1, <2>3, <3>1, <3>2 DEF Numbers, Stores, Files, Counted
  <2> QED BY <1>9, <2>2, <2>3 DEF Updates!Run
<1>10. ASSUME NEW f \in Updates!Flows, Updates!Serialise(f) \/ Updates!Write(f)
       PROVE  Numbers' /\ Stores' /\ Files' /\ Places' /\ Cli' /\ Counted'
  <2>1. /\ UNCHANGED <<now, store, mem, timer, lock, wish, attempts, auto, command, edits, crashes>>
        /\ \E at \in {"write", "rename"} : Updates!Moves(f, at)
    BY <1>10 DEF Updates!Serialise, Updates!Write, Updates!World
  <2>2. Places'
    BY <1>0, <1>s, <2>1, PlacesStep DEF Spots, Updates!Planning
  <2>3. Files'
    <3>1. mem \in Updates!Store
      BY <1>0 DEF Stores
    <3> QED BY <1>0, <1>z, <1>10, <3>1 DEF Updates!Serialise, Updates!Write, Files
  <2> QED BY <1>0, <1>3, <2>1, <2>2, <2>3 DEF Numbers, Stores, Counted
<1>11. ASSUME NEW f \in Updates!Flows, Updates!Rename(f)
       PROVE  Numbers' /\ Stores' /\ Files' /\ Places' /\ Cli' /\ Counted'
  <2>1. /\ UNCHANGED <<now, wish, attempts, auto, command, edits, crashes, draft>>
        /\ flow[f].at = "rename"
    BY <1>11 DEF Updates!Rename, Updates!World
  <2>2. store' \in Updates!Store /\ temp' \in SUBSET Updates!Store
    BY <1>0, <1>11 DEF Updates!Rename, Stores, Files
  <2>3. CASE Updates!Moves(f, "arm") /\ UNCHANGED <<mem, timer, lock>>
    <3>1. Places'
      BY <1>0, <1>s, <2>3, PlacesStep DEF Spots, Updates!Planning
    <3> QED BY <1>0, <1>3, <2>1, <2>2, <2>3, <3>1 DEF Numbers, Stores, Files, Counted
  <2>4. CASE Updates!Frees(f) /\ Updates!Rests(f) /\ UNCHANGED <<mem, timer>>
    <3>1. Places'
      BY <1>0, <1>r, <2>4, PlacesStep DEF Spots
    <3> QED BY <1>0, <1>3, <2>1, <2>2, <2>4, <3>1 DEF Numbers, Stores, Files, Counted
  <2>5. CASE Updates!Frees(f) /\ Updates!Plans(f, [mem EXCEPT !.state = "done"])
    <3>1. timer' \in 0 .. MaxTime + 2 /\ mem' \in Updates!Store /\ Places'
      BY <1>g, <2>1, <2>5, NewMemory
    <3> QED BY <1>0, <1>3, <2>1, <2>2, <3>1 DEF Numbers, Stores, Files, Counted
  <2> QED BY <1>11, <2>3, <2>4, <2>5 DEF Updates!Rename
<1>12. ASSUME NEW f \in Updates!Flows, Updates!Arm(f)
       PROVE  Numbers' /\ Stores' /\ Files' /\ Places' /\ Cli' /\ Counted'
  <2>1. /\ UNCHANGED <<now, store, mem, attempts, auto, command, edits, crashes, draft, temp>>
        /\ Updates!Frees(f) /\ Updates!Rests(f)
    BY <1>12 DEF Updates!Arm, Updates!World, Updates!Files
  <2>2. Places'
    BY <1>0, <1>r, <2>1, PlacesStep DEF Spots
  <2>3. timer' \in 0 .. MaxTime + 2
    <3>1. mem.next \in 0 .. MaxTime + 2 /\ timer \in 0 .. MaxTime + 2
      BY <1>0 DEF Stores, Updates!Store, Numbers
    <3> QED BY <1>12, <1>z, <3>1 DEF Updates!Arm
  <2>4. wish' \in BOOLEAN
    <3>1. flow[f].sets \in BOOLEAN
      BY <1>0 DEF Places, Updates!Flow
    <3> QED BY <1>0, <1>12, <3>1 DEF Updates!Arm, Stores
  <2> QED BY <1>0, <1>3, <2>1, <2>2, <2>3, <2>4 DEF Numbers, Stores, Files, Counted
<1>13. CASE Updates!Crash
  <2>1. /\ UNCHANGED <<now, store, attempts, auto, command, edits, temp>>
        /\ timer' = 0 /\ mem' = Updates!DefaultStore /\ crashes < MaxCrashes
        /\ crashes' = crashes + 1
        /\ draft' = [f \in Updates!Flows |-> Updates!DefaultStore]
        /\ lock' = IF lock \in Updates!Flows THEN "orphan" ELSE lock
    BY <1>13 DEF Updates!Crash
  <2>2. \A f \in Updates!Flows :
           [Updates!Resting EXCEPT !.at = IF f = "wake" THEN "lock" ELSE "idle", !.does = "edit"]
              \in Updates!Flow
    BY DEF Updates!Resting, Updates!Flow, Updates!Keys
  <2>3. flow' \in [Updates!Flows -> Updates!Flow]
    BY <1>13, <2>2 DEF Updates!Crash
  <2>4. lock' \notin Updates!Flows /\
        lock' \in {"", "wake", "ui", "daemon", "command", "other", "orphan"}
    BY <1>0, <2>1 DEF Places, Updates!Flows
  <2>5. Places'
    BY <2>3, <2>4 DEF Places
  <2>6. wish' \in BOOLEAN
    BY <1>0, <1>13 DEF Updates!Crash, Stores, Updates!Store
  <2>7. Files'
    BY <1>0, <1>z, <2>1 DEF Files
  <2> QED BY <1>0, <1>n, <1>z, <1>3, <2>1, <2>5, <2>6, <2>7 DEF Numbers, Stores, Counted
<1>14. CASE Updates!Boot
  <2>1. /\ UNCHANGED <<now, store, timer, lock, wish, attempts, auto, command, edits, crashes,
                       draft, temp>>
        /\ lock = "" /\ mem' = Updates!Loaded
    BY <1>14 DEF Updates!Boot, Updates!World, Updates!Files
  <2>2. [Updates!Resting EXCEPT !.at = "schedule"] \in Updates!Flow
    BY DEF Updates!Resting, Updates!Flow, Updates!Keys
  <2>3. flow' \in [Updates!Flows -> Updates!Flow]
    BY <1>f, <1>14, <2>2 DEF Updates!Boot
  <2>4. Places'
    BY <2>1, <2>3 DEF Places, Updates!Flows
  <2> QED BY <1>0, <1>3, <2>1, <2>4, LoadedStore DEF Numbers, Stores, Files, Counted
<1>15. CASE Updates!Other
  <2>1. /\ UNCHANGED <<now, store, mem, timer, flow, wish, attempts, auto, command, edits, crashes,
                       draft, temp>>
        /\ lock' \in {"", "other"}
    BY <1>15 DEF Updates!Other, Updates!LauncherSame, Updates!Files
  <2>2. Places'
    BY <1>0, <2>1 DEF Places, Updates!Flows
  <2> QED BY <1>0, <1>3, <2>1, <2>2 DEF Numbers, Stores, Files, Counted
<1>16. CASE Updates!Tick
  <2>1. /\ UNCHANGED <<store, mem, timer, flow, lock, wish, attempts, auto, command, edits,
              crashes, draft, temp>>
        /\ now < MaxTime /\ now' = now + 1
    BY <1>16 DEF Updates!Tick, Updates!LauncherSame, Updates!Files
  <2>2. Numbers' /\ Stores' /\ Files' /\ Counted'
    BY <1>0, <1>n, <2>1 DEF Numbers, Stores, Files, Counted
  <2>3. Places'
    BY <1>0, <2>1 DEF Places
  <2> QED BY <1>3, <2>1, <2>2, <2>3
<1>17. CASE AutoStep
  BY <1>4, <1>5, <1>6, <1>7, <1>8, <1>9, <1>10, <1>11, <1>12, <1>13, <1>14, <1>15, <1>16, <1>17
     DEF AutoStep
<1> QED BY <1>2, <1>17, StepsOfAuto

\* How a step moves the two flows and the lock.
LEMMA FlowStep ==
    ASSUME Updates!UpdateAssumption, Updates!TypeOK, FlowInv, [Updates!Next]_autoVars
    PROVE  FlowInv'
<1>a. Updates!TypeOK /\ FlowInv
  OBVIOUS
<1>0. /\ flow \in [Updates!Flows -> Updates!Flow] /\ mem \in Updates!Store
      /\ "wake" \in Updates!Flows /\ "ui" \in Updates!Flows
      /\ \A f \in Updates!Flows : f = "wake" \/ f = "ui"
      /\ \A f \in Updates!Flows : lock = f => flow[f].at \in {"load", "run"} \cup Updates!Planning
  BY <1>a DEF Updates!TypeOK, Updates!Flows
<1>b. /\ auto.at = "sleep" /\ command.at = "idle" /\ Asked.key = 0
      /\ \A f \in Updates!Flows : /\ flow[f].at \in {"load", "run"} => lock = f
                                  /\ flow[f].at = "run" => flow[f].does = "run"
      /\ Asked.at \in Updates!Planning => lock = "ui"
      /\ Asked.at # "schedule"
      /\ Wakes.does = "edit" => Wakes.at = "lock" /\ Asked.at = "idle"
  BY <1>a DEF FlowInv
<1>1. CASE UNCHANGED autoVars
  BY <1>b, <1>1 DEF autoVars, FlowInv, Wakes, Asked
<1>4. ASSUME NEW f \in Updates!Flows, NEW at \in Spots, FlowGoes(f, at),
             Wakes.does = "run", UNCHANGED <<auto, command>>,
             at \in {"load", "run"} => lock' = f, at = "run" => flow[f].does = "run",
             at \in Updates!Planning /\ f = "ui" => lock' = "ui", at # "schedule",
             \/ lock' = lock
             \/ lock = ""
             \/ lock = f
      PROVE  FlowInv'
  <2>1. /\ flow'[f].at = at /\ (flow'[f].does = flow[f].does \/ flow'[f].does = "run")
        /\ (flow'[f].key = flow[f].key \/ flow'[f].key = 0)
        /\ \A g \in Updates!Flows \ {f} : flow'[g] = flow[g]
    BY <1>4 DEF FlowGoes
  <2>2. \A g \in Updates!Flows : /\ flow'[g].at \in {"load", "run"} => lock' = g
                                 /\ flow'[g].at = "run" => flow'[g].does = "run"
    <3> SUFFICES ASSUME NEW g \in Updates!Flows
                 PROVE  /\ flow'[g].at \in {"load", "run"} => lock' = g
                        /\ flow'[g].at = "run" => flow'[g].does = "run"
      OBVIOUS
    <3>1. CASE g = f
      BY <1>4, <2>1, <3>1
    <3>2. CASE g # f
      <4>1. flow'[g] = flow[g] /\ g # ""
        BY <1>0, <2>1, <3>2
      <4>2. flow[g].at \in {"load", "run"} => lock = g
        BY <1>b
      <4> QED BY <1>b, <1>4, <3>2, <4>1, <4>2
    <3> QED BY <3>1, <3>2
  <2>3. (Asked'.at \in Updates!Planning => lock' = "ui") /\ Asked'.at # "schedule"
    BY <1>0, <1>b, <1>4, <2>1 DEF Asked
  <2>4. Asked'.key = 0 /\ Wakes'.does = "run"
    BY <1>0, <1>b, <1>4, <2>1 DEF Asked, Wakes
  <2>5. Updates!Flows' = Updates!Flows /\ Updates!Planning' = Updates!Planning
    BY DEF Updates!Flows, Updates!Planning
  <2>6. auto'.at = "sleep" /\ command'.at = "idle"
    BY <1>b, <1>4
  <2> QED BY <2>2, <2>3, <2>4, <2>5, <2>6 DEF FlowInv
<1>g. ASSUME NEW f \in Updates!Flows, NEW m \in Updates!Store, Updates!Plans(f, m),
             Wakes.does = "run", UNCHANGED <<auto, command>>,
             f = "ui" => lock' = "ui", lock' = lock \/ lock = f
      PROVE  FlowInv'
  <2>1. PICK at \in {"refresh", "save"} : FlowGoes(f, at)
    BY <1>a, <1>g, PlansDo
  <2>2. at \in Spots /\ at \notin {"load", "run", "schedule"}
    BY DEF Spots, Updates!Planning
  <2> QED BY <1>4, <1>g, <2>1, <2>2
<1>s. ASSUME NEW f \in Updates!Flows, NEW at \in Spots, Updates!Moves(f, at) PROVE FlowGoes(f, at)
  BY <1>0, <1>s, FlowMoves
<1>r. ASSUME NEW f \in Updates!Flows, Updates!Rests(f), Wakes.does = "run",
             UNCHANGED <<auto, command>>, lock' = lock \/ lock = f
      PROVE  FlowInv'
  <2>1. FlowGoes(f, "idle") /\ "idle" \in Spots
    BY <1>0, <1>r, FlowRests DEF Spots
  <2>2. "idle" \notin Updates!Planning
    BY DEF Updates!Planning
  <2> QED BY <1>4, <1>r, <2>1, <2>2
<1>6. ASSUME NEW f \in Updates!Flows, flow[f].at \in Working
      PROVE  Wakes.does = "run"
  <2>1. flow["wake"].does \in {"run", "edit"}
    BY <1>0 DEF Updates!Flow
  <2> QED BY <1>0, <1>b, <1>6, <2>1 DEF Wakes, Asked, Working, Updates!Planning
<1>2. CASE Updates!Wake /\ Wakes.does = "run"
  <2>1. UNCHANGED <<lock, auto, command>> /\ flow["wake"].at = "idle"
    BY <1>0, <1>2 DEF Updates!Wake, Updates!World
  <2>2. CASE UNCHANGED flow
    BY <1>b, <2>1, <2>2 DEF FlowInv, Wakes, Asked
  <2>3. CASE Updates!Plans("wake", mem)
    BY <1>0, <1>2, <1>g, <2>1, <2>3
  <2>4. ASSUME NEW key, flow' = [flow EXCEPT !["wake"] = [Updates!Resting EXCEPT !.at = "lock", !.key = key]]
        PROVE  FlowInv'
    <3>1. /\ flow'["wake"] = [Updates!Resting EXCEPT !.at = "lock", !.key = key]
          /\ flow'["ui"] = flow["ui"]
      BY <1>0, <2>4
    <3>2. flow'["wake"].at = "lock" /\ flow'["wake"].does = "run"
      BY <3>1 DEF Updates!Resting
    <3>3. flow'["ui"] = flow["ui"]
      BY <3>1
    <3> QED BY <1>0, <1>b, <2>1, <3>2, <3>3 DEF FlowInv, Wakes, Asked
  <2> QED BY <1>2, <2>2, <2>3, <2>4 DEF Updates!Wake
<1>3. ASSUME NEW does \in {"run", "edit"}, NEW sets \in BOOLEAN, Updates!Ask(does, sets),
             Wakes.does = "run"
      PROVE  FlowInv'
  <2>1. /\ UNCHANGED <<lock, auto, command>> /\ flow'["wake"] = flow["wake"]
        /\ flow'["ui"].at = "lock" /\ flow'["ui"].key = 0
    BY <1>0, <1>3 DEF Updates!Ask, Updates!Resting
  <2> QED BY <1>0, <1>b, <1>3, <2>1 DEF FlowInv, Wakes, Asked, Updates!Planning
<1>5. ASSUME NEW f \in Updates!Flows, Updates!TakeLock(f), Wakes.does = "run" PROVE FlowInv'
  <2>1. UNCHANGED <<auto, command>>
    BY <1>5 DEF Updates!TakeLock, Updates!World
  <2>2. CASE lock = "" /\ lock' = f /\ Updates!Moves(f, "load")
    <3>1. FlowGoes(f, "load") /\ "load" \in Spots /\ "load" \notin Updates!Planning
      BY <1>s, <2>2 DEF Spots, Updates!Planning
    <3> QED BY <1>4, <1>5, <2>1, <2>2, <3>1
  <2>3. CASE f = "ui" /\ lock' = lock /\ Updates!Rests(f)
    BY <1>r, <1>5, <2>1, <2>3
  <2>4. CASE f # "ui" /\ lock' = lock /\ Updates!Plans(f, [mem EXCEPT !.state = "done"])
    BY <1>a, <1>g, <1>5, <2>1, <2>4, NewMemory
  <2> QED BY <1>5, <2>2, <2>3, <2>4 DEF Updates!TakeLock
<1>7. ASSUME NEW f \in Updates!Flows,
             Updates!LoadEdit(f) \/ Updates!Schedule(f) \/ Updates!Refresh(f) \/ Updates!Run(f)
      PROVE  FlowInv'
  <2>1. /\ UNCHANGED <<auto, command>> /\ flow[f].at \in Working
        /\ flow[f].sets \in BOOLEAN
    BY <1>0, <1>7 DEF Updates!LoadEdit, Updates!Schedule, Updates!Refresh, Updates!Run,
       Updates!World, Working, Updates!Planning, Updates!Flow
  <2>2. Wakes.does = "run" /\ (f = "ui" => lock = "ui")
    BY <1>0, <1>b, <1>6, <2>1 DEF Working, Asked
  <2>3. CASE lock' = lock /\ \E m \in Updates!Store : Updates!Plans(f, m)
    BY <1>g, <2>1, <2>2, <2>3
  <2>4. CASE Updates!Refresh(f) /\ flow' = [flow EXCEPT ![f].at = "save", ![f].arms = FALSE]
    <3>1. flow' = [flow EXCEPT ![f] = [flow[f] EXCEPT !.at = "save", !.arms = FALSE]]
      BY <1>0, <2>4
    <3>2. [flow[f] EXCEPT !.at = "save", !.arms = FALSE] \in Updates!Flow /\ flow[f] \in Updates!Flow
      BY <1>0 DEF Updates!Flow, Updates!Planning
    <3>3. /\ flow' \in [Updates!Flows -> Updates!Flow]
          /\ flow'[f] = [flow[f] EXCEPT !.at = "save", !.arms = FALSE]
          /\ \A g \in Updates!Flows \ {f} : flow'[g] = flow[g]
      BY <1>0, <3>1, <3>2
    <3>4. FlowGoes(f, "save") /\ "save" \in Spots
      BY <3>2, <3>3 DEF FlowGoes, Updates!Flow, Spots, Updates!Planning
    <3>5. lock' = lock
      BY <2>4 DEF Updates!Refresh
    <3> QED BY <1>4, <2>1, <2>2, <3>4, <3>5
  <2>5. CASE Updates!Frees(f) /\ Updates!Rests(f)
    BY <1>r, <2>1, <2>2, <2>5 DEF Updates!Frees
  <2>6. CASE Updates!LoadEdit(f)
    BY <1>a, <2>1, <2>3, <2>6, NewMemory DEF Updates!LoadEdit
  <2>7. CASE Updates!Schedule(f)
    BY <1>0, <2>3, <2>7 DEF Updates!Schedule
  <2>8. CASE Updates!Refresh(f)
    BY <1>a, <2>3, <2>4, <2>8, NewMemory DEF Updates!Refresh
  <2>9. CASE Updates!Run(f)
    BY <1>a, <2>3, <2>5, <2>9, NewMemory DEF Updates!Run
  <2> QED BY <1>7, <2>6, <2>7, <2>8, <2>9
<1>8. ASSUME NEW f \in Updates!Flows, Updates!LoadRun(f) PROVE FlowInv'
  <2>1. UNCHANGED <<auto, command>> /\ flow[f].at = "load" /\ flow[f].does = "run" /\ lock = f
    BY <1>b, <1>8 DEF Updates!LoadRun, Updates!World
  <2>2. Wakes.does = "run"
    BY <1>6, <2>1 DEF Working
  <2>3. CASE Updates!Frees(f) /\ Updates!Rests(f)
    BY <1>r, <2>1, <2>2, <2>3 DEF Updates!Frees
  <2>4. CASE Updates!Moves(f, "run") /\ lock' = lock
    <3>1. FlowGoes(f, "run") /\ "run" \in Spots /\ "run" \notin Updates!Planning
      BY <1>s, <2>4 DEF Spots, Updates!Planning
    <3> QED BY <1>4, <2>1, <2>2, <2>4, <3>1
  <2> QED BY <1>8, <2>3, <2>4 DEF Updates!LoadRun
<1>9. ASSUME NEW f \in Updates!Flows,
             Updates!Serialise(f) \/ Updates!Write(f) \/ Updates!Rename(f) \/ Updates!Arm(f)
      PROVE  FlowInv'
  <2>1. UNCHANGED <<auto, command>> /\ flow[f].at \in Updates!Planning
    BY <1>9 DEF Updates!Serialise, Updates!Write, Updates!Rename, Updates!Arm, Updates!World,
       Updates!Planning
  <2>2. Wakes.does = "run" /\ (f = "ui" => lock = "ui")
    BY <1>0, <1>b, <1>6, <2>1 DEF Working, Asked
  <2>3. ASSUME NEW at \in {"write", "rename", "arm"}, Updates!Moves(f, at), lock' = lock
        PROVE  FlowInv'
    <3>1. at \in Spots /\ FlowGoes(f, at) /\ at \notin {"load", "run", "schedule"}
      BY <1>s, <2>3 DEF Spots, Updates!Planning
    <3> QED BY <1>4, <2>1, <2>2, <2>3, <3>1
  <2>4. ASSUME Updates!Frees(f) PROVE lock' = lock \/ lock = f
    BY <2>4 DEF Updates!Frees
  <2>5. CASE Updates!Frees(f) /\ Updates!Rests(f)
    BY <1>r, <2>1, <2>2, <2>4, <2>5
  <2>6. CASE f = "wake" /\ Updates!Frees(f) /\ Updates!Plans(f, [mem EXCEPT !.state = "done"])
    BY <1>a, <1>0, <1>g, <2>1, <2>2, <2>4, <2>6, NewMemory
  <2>7. CASE Updates!Serialise(f) \/ Updates!Write(f)
    BY <2>3, <2>7 DEF Updates!Serialise, Updates!Write
  <2>8. CASE Updates!Rename(f)
    BY <2>3, <2>5, <2>6, <2>8 DEF Updates!Rename
  <2>9. CASE Updates!Arm(f)
    BY <2>5, <2>9 DEF Updates!Arm
  <2> QED BY <1>9, <2>7, <2>8, <2>9
<1>10. CASE Updates!Crash
  <2>1. /\ UNCHANGED <<auto, command>>
        /\ flow'["wake"].at = "lock" /\ flow'["ui"].at = "idle" /\ flow'["ui"].key = 0
    BY <1>0, <1>10 DEF Updates!Crash, Updates!Resting
  <2> QED BY <1>0, <1>b, <2>1 DEF FlowInv, Wakes, Asked, Updates!Planning
<1>11. CASE Updates!Boot
  <2>1. /\ UNCHANGED <<auto, command>> /\ flow'["ui"] = flow["ui"] /\ flow["ui"].at = "idle"
        /\ flow'["wake"].at = "schedule" /\ flow'["wake"].does = "run"
    BY <1>0, <1>b, <1>11 DEF Updates!Boot, Updates!Starting, Updates!Resting, Updates!World,
       Wakes, Asked
  <2> QED BY <1>0, <1>b, <2>1 DEF FlowInv, Wakes, Asked, Updates!Planning
<1>12. CASE Updates!Other
  <2>1. UNCHANGED <<flow, auto, command>> /\ lock \notin Updates!Flows
    BY <1>12 DEF Updates!Other, Updates!LauncherSame, Updates!Flows
  <2> QED BY <1>0, <1>b, <2>1 DEF FlowInv, Wakes, Asked
<1>13. CASE Updates!Tick
  <2>1. UNCHANGED <<flow, lock, auto, command>>
    BY <1>13 DEF Updates!Tick, Updates!LauncherSame
  <2> QED BY <1>b, <2>1 DEF FlowInv, Wakes, Asked
<1>14. CASE AutoStep
  BY <1>2, <1>3, <1>5, <1>7, <1>8, <1>9, <1>10, <1>11, <1>12, <1>13, <1>14 DEF AutoStep
<1> QED BY <1>1, <1>14, StepsOfAuto

\* Unless the page crosses an unlocked schedule one flow works at a time.
LEMMA OneWorks ==
    ASSUME FlowInv, ~Updates!Crossing
    PROVE  Alone
<1>1. /\ \A f \in Updates!Flows : flow[f].at \in {"load", "run"} => lock = f
      /\ Asked.at \in Updates!Planning => lock = "ui"
      /\ Asked.at # "schedule" /\ "wake" \in Updates!Flows /\ "ui" \in Updates!Flows
  BY DEF FlowInv, Updates!Flows
<1>2. Wakes.at \in {"schedule"} \cup Updates!Planning /\ lock # "wake" =>
         Asked.at \notin Updates!Planning \cup {"load", "run"}
  BY DEF Updates!Crossing, Wakes, Asked
<1> QED BY <1>1, <1>2 DEF Alone, Working, Wakes, Asked

\* The file and the memory keep saying what the last edit asked for.
LEMMA EditStep ==
    ASSUME Updates!UpdateAssumption, Updates!TypeOK, FlowInv, Alone, EditInv,
           [Updates!Next]_autoVars
    PROVE  EditInv'
<1>a. Updates!TypeOK /\ FlowInv
  OBVIOUS
<1>0. /\ flow \in [Updates!Flows -> Updates!Flow] /\ mem \in Updates!Store
      /\ draft \in [Updates!Flows -> Updates!Store]
      /\ "wake" \in Updates!Flows /\ "ui" \in Updates!Flows
      /\ \A f \in Updates!Flows : f = "wake" \/ f = "ui"
      /\ Updates!Flows' = Updates!Flows /\ Updates!Planning' = Updates!Planning
  BY <1>a DEF Updates!TypeOK, Updates!Flows, Updates!Planning
<1>b. /\ \A f \in Updates!Flows : flow[f].at = "run" => flow[f].does = "run"
      /\ Wakes.does = "edit" => Wakes.at = "lock" /\ Asked.at = "idle"
      /\ Asked.at # "schedule"
  BY <1>a DEF FlowInv
<1>c. /\ Editing => /\ mem.on = Asked.sets /\ store.on \in {wish, Asked.sets}
                    /\ Asked.at = "arm" => store.on = Asked.sets
      /\ ~Editing => store.on = wish /\ (Wakes.does = "run" => mem.on = wish)
  BY DEF EditInv
<1>d. \A f \in Updates!Flows :
          /\ flow[f].at = "write" => draft[f].on = mem.on
          /\ flow[f].at = "rename" => temp # {} /\ \A copy \in temp : copy.on = mem.on
  BY DEF EditInv
<1>e. ASSUME NEW f \in Updates!Flows, flow[f].at \in Working,
             NEW g \in Updates!Flows, g # f, flow[g].at \in Working
      PROVE  FALSE
  BY <1>0, <1>e DEF Alone, Wakes, Asked
<1>6. ASSUME NEW f \in Updates!Flows, flow[f].at \in Working
      PROVE  Wakes.does = "run"
  <2>1. flow["wake"].does \in {"run", "edit"}
    BY <1>0 DEF Updates!Flow
  <2> QED BY <1>0, <1>b, <1>6, <2>1 DEF Wakes, Asked, Working, Updates!Planning
\* A step of f that saves nothing and leaves the setting as it is.
<1>h. ASSUME NEW f \in Updates!Flows, NEW at \in Spots \ {"write", "rename", "arm"}, FlowGoes(f, at),
             UNCHANGED <<store, wish, draft, temp>>, mem'.on = mem.on, Wakes.does = "run",
             f = "ui" /\ at \in Updates!Planning =>
                /\ flow[f].at \in Updates!Planning \/ flow[f].does = "run"
                /\ flow'[f].does = flow[f].does /\ flow'[f].sets = flow[f].sets,
             f = "ui" /\ at \notin Updates!Planning => ~Editing
      PROVE  EditInv'
  <2>1. flow'[f].at = at /\ \A g \in Updates!Flows \ {f} : flow'[g] = flow[g]
    BY <1>h DEF FlowGoes
  <2>2. \A g \in Updates!Flows :
          /\ flow'[g].at = "write" => draft[g].on = mem.on
          /\ flow'[g].at = "rename" => temp # {} /\ \A copy \in temp : copy.on = mem.on
    BY <1>d, <1>h, <2>1
  <2>3. CASE f = "wake"
    <3>1. Asked' = Asked
      BY <1>0, <2>1, <2>3 DEF Asked
    <3>2. Editing' = Editing
      BY <1>0, <3>1 DEF Editing
    <3> QED BY <1>0, <1>c, <1>h, <2>2, <3>1, <3>2 DEF EditInv, Editing
  <2>4. CASE f = "ui" /\ at \in Updates!Planning
    <3>1. /\ Asked'.at = at /\ Asked'.does = Asked.does /\ Asked'.sets = Asked.sets
          /\ Asked.at \in Updates!Planning \/ Asked.does = "run"
      BY <1>h, <2>1, <2>4 DEF Asked
    <3>2. Editing' <=> Editing
      BY <1>0, <2>4, <3>1 DEF Editing
    <3>3. Asked'.at # "arm"
      BY <1>h, <3>1
    <3> QED BY <1>0, <1>c, <1>h, <2>2, <3>1, <3>2, <3>3 DEF EditInv
  <2>5. CASE f = "ui" /\ at \notin Updates!Planning
    <3>1. ~Editing' /\ ~Editing
      BY <1>0, <1>h, <2>1, <2>5 DEF Editing, Asked
    <3> QED BY <1>0, <1>c, <1>h, <2>2, <3>1 DEF EditInv
  <2> QED BY <1>0, <2>3, <2>4, <2>5
<1>g. ASSUME NEW f \in Updates!Flows, NEW m \in Updates!Store, Updates!Plans(f, m),
             UNCHANGED <<store, wish, draft, temp>>, m.on = mem.on, Wakes.does = "run",
             f = "ui" => flow[f].at \in Updates!Planning \/ flow[f].does = "run"
      PROVE  EditInv'
  <2>1. PICK at \in {"refresh", "save"} : FlowGoes(f, at)
    BY <1>a, <1>g, PlansDo
  <2>2. mem'.on = mem.on /\ flow'[f].does = flow[f].does /\ flow'[f].sets = flow[f].sets
    BY <1>a, <1>g, PlansDo
  <2>3. at \in Spots \ {"write", "rename", "arm"} /\ at \in Updates!Planning
    BY DEF Spots, Updates!Planning
  <2> QED BY <1>g, <1>h, <2>1, <2>2, <2>3
<1>s. ASSUME NEW f \in Updates!Flows, NEW at \in Spots, Updates!Moves(f, at)
      PROVE  /\ FlowGoes(f, at) /\ flow'[f].does = flow[f].does /\ flow'[f].sets = flow[f].sets
             /\ flow'[f].at = at /\ \A g \in Updates!Flows \ {f} : flow'[g] = flow[g]
  BY <1>0, <1>s, FlowMoves DEF FlowGoes
<1>r. ASSUME NEW f \in Updates!Flows, Updates!Rests(f)
      PROVE  /\ FlowGoes(f, "idle") /\ "idle" \in Spots \ {"write", "rename", "arm"}
             /\ "idle" \notin Updates!Planning
             /\ flow'[f].at = "idle" /\ flow'[f].does = "run"
             /\ \A g \in Updates!Flows \ {f} : flow'[g] = flow[g]
  BY <1>0, <1>r, FlowRests DEF FlowGoes, Spots, Updates!Planning
<1>1. CASE UNCHANGED <<mem, store, wish, flow, draft, temp>>
  BY <1>c, <1>d, <1>0, <1>1 DEF EditInv, Editing, Wakes, Asked
<1>2. CASE Updates!Wake /\ Wakes.does = "run"
  <2>1. UNCHANGED <<store, wish, draft, temp>>
    BY <1>2 DEF Updates!Wake, Updates!Files
  <2>2. CASE UNCHANGED <<mem, flow>>
    BY <1>1, <2>1, <2>2
  <2>3. CASE Updates!Plans("wake", mem)
    BY <1>0, <1>2, <1>g, <2>1, <2>3
  <2>4. ASSUME NEW key, mem' = mem,
               flow' = [flow EXCEPT !["wake"] = [Updates!Resting EXCEPT !.at = "lock", !.key = key]]
        PROVE  EditInv'
    <3>1. flow'["ui"] = flow["ui"] /\ flow'["wake"].at = "lock"
      BY <1>0, <2>4 DEF Updates!Resting
    <3>2. \A g \in Updates!Flows :
            /\ flow'[g].at = "write" => draft[g].on = mem.on
            /\ flow'[g].at = "rename" => temp # {} /\ \A copy \in temp : copy.on = mem.on
      BY <1>0, <1>d, <3>1
    <3>3. Asked' = Asked
      BY <3>1 DEF Asked
    <3> QED BY <1>0, <1>2, <1>c, <2>1, <2>4, <3>2, <3>3 DEF EditInv, Editing
  <2> QED BY <1>2, <2>2, <2>3, <2>4 DEF Updates!Wake
<1>3. ASSUME NEW does \in {"run", "edit"}, NEW sets \in BOOLEAN, Updates!Ask(does, sets),
             Wakes.does = "run"
      PROVE  EditInv'
  <2>1. /\ UNCHANGED <<mem, store, wish, draft, temp>>
        /\ flow'["ui"].at = "lock" /\ flow["ui"].at = "idle" /\ flow'["wake"] = flow["wake"]
    BY <1>0, <1>3 DEF Updates!Ask, Updates!Files, Updates!Resting
  <2>2. ~Editing /\ ~Editing'
    BY <1>0, <2>1 DEF Editing, Asked, Updates!Planning
  <2>3. \A g \in Updates!Flows :
          /\ flow'[g].at = "write" => draft[g].on = mem.on
          /\ flow'[g].at = "rename" => temp # {} /\ \A copy \in temp : copy.on = mem.on
    BY <1>0, <1>d, <2>1
  <2> QED BY <1>0, <1>c, <1>3, <2>1, <2>2, <2>3 DEF EditInv
<1>5. ASSUME NEW f \in Updates!Flows, Updates!TakeLock(f), Wakes.does = "run" PROVE EditInv'
  <2>1. UNCHANGED <<store, wish, draft, temp>> /\ flow[f].at = "lock"
    BY <1>5 DEF Updates!TakeLock, Updates!Files
  <2>2. f = "ui" => ~Editing
    BY <2>1 DEF Editing, Asked, Updates!Planning
  <2>3. CASE Updates!Moves(f, "load") /\ UNCHANGED <<mem, timer>>
    <3>1. FlowGoes(f, "load") /\ "load" \in Spots \ {"write", "rename", "arm"} /\ "load" \notin Updates!Planning
      BY <1>s, <2>3 DEF Spots, Updates!Planning
    <3> QED BY <1>h, <1>5, <2>1, <2>2, <2>3, <3>1
  <2>4. CASE f = "ui" /\ Updates!Rests(f) /\ UNCHANGED <<mem, timer>>
    BY <1>h, <1>r, <1>5, <2>1, <2>2, <2>4
  <2>5. CASE f # "ui" /\ Updates!Plans(f, [mem EXCEPT !.state = "done"])
    BY <1>a, <1>g, <1>5, <2>1, <2>5, NewMemory
  <2> QED BY <1>5, <2>3, <2>4, <2>5 DEF Updates!TakeLock
<1>7. ASSUME NEW f \in Updates!Flows, Updates!LoadEdit(f) PROVE EditInv'
  <2>1. /\ UNCHANGED <<store, wish, draft, temp>> /\ flow[f].at = "load" /\ flow[f].does = "edit"
        /\ flow[f].sets \in BOOLEAN /\ f = "ui"
    BY <1>0, <1>b, <1>7 DEF Updates!LoadEdit, Updates!Files, Wakes, Updates!Flow
  <2>2. PICK m \in Updates!Store : m.on = flow[f].sets /\ Updates!Plans(f, m)
    BY <1>a, <1>7, <2>1, NewMemory DEF Updates!LoadEdit
  <2>3. PICK at \in {"refresh", "save"} : FlowGoes(f, at)
    BY <1>a, <2>2, PlansDo
  <2>4. mem'.on = flow[f].sets /\ flow'[f].sets = flow[f].sets /\ flow'[f].does = "edit"
    BY <1>a, <2>1, <2>2, PlansDo
  <2>5. flow'[f].at = at /\ flow'["wake"] = flow["wake"]
    BY <1>0, <2>1, <2>3 DEF FlowGoes
  <2>6. Editing' /\ Asked'.at # "arm" /\ ~Editing
    BY <1>0, <2>1, <2>4, <2>5 DEF Editing, Asked, Updates!Planning
  <2>7. flow["wake"].at \notin {"write", "rename"}
    BY <1>0, <1>e, <2>1 DEF Working, Updates!Planning
  <2>8. \A g \in Updates!Flows : flow'[g].at \notin {"write", "rename"}
    BY <1>0, <2>1, <2>5, <2>7
  <2>9. store'.on = wish' /\ mem'.on = Asked'.sets
    BY <1>c, <2>1, <2>4, <2>6 DEF Asked
  <2> QED BY <1>0, <2>6, <2>8, <2>9 DEF EditInv
<1>8. ASSUME NEW f \in Updates!Flows, Updates!LoadRun(f) PROVE EditInv'
  <2>1. /\ UNCHANGED <<wish, draft, temp>> /\ flow[f].at = "load" /\ flow[f].does = "run"
        /\ Wakes.does = "run" /\ flow[f].at \in Working
    BY <1>6, <1>8 DEF Updates!LoadRun, Updates!Files, Working
  <2>2. Updates!Loaded \in Updates!Store /\ Updates!Loaded.on = store.on
    BY <1>a, LoadedStore
  <2>3. mem'.on = store.on /\ store'.on = store.on
    BY <1>8, <2>2 DEF Updates!LoadRun, Updates!Store
  <2>4. PICK at \in {"idle", "run"} : flow'[f].at = at /\ \A g \in Updates!Flows \ {f} : flow'[g] = flow[g]
    <3>1. CASE Updates!Rests(f)
      BY <1>r, <3>1
    <3>2. CASE Updates!Moves(f, "run")
      BY <1>s, <3>2 DEF Spots
    <3> QED BY <1>8, <3>1, <3>2 DEF Updates!LoadRun
  <2>5. \A g \in Updates!Flows : flow'[g].at \notin Updates!Planning
    <3>1. \A g \in Updates!Flows : g # f => flow[g].at \notin Working
      BY <1>e, <2>1
    <3> QED BY <2>4, <3>1 DEF Working, Updates!Planning
  <2>6. ~Editing' /\ ~Editing
    <3>1. flow["ui"].at \notin Updates!Planning
      <4>1. CASE f = "ui"
        BY <2>1, <4>1 DEF Updates!Planning
      <4>2. CASE f # "ui"
        BY <1>0, <1>e, <2>1, <4>2 DEF Working
      <4> QED BY <4>1, <4>2
    <3> QED BY <1>0, <2>5, <3>1 DEF Editing, Asked
  <2>7. \A g \in Updates!Flows : flow'[g].at \notin {"write", "rename"}
    BY <2>5 DEF Updates!Planning
  <2> QED BY <1>0, <1>c, <2>1, <2>3, <2>6, <2>7 DEF EditInv
<1>9. ASSUME NEW f \in Updates!Flows, Updates!Run(f) PROVE EditInv'
  <2>1. /\ UNCHANGED <<wish, draft, temp>> /\ flow[f].at = "run" /\ flow[f].does = "run"
        /\ Wakes.does = "run" /\ flow[f].at \in Working
    BY <1>b, <1>6, <1>9 DEF Updates!Run, Updates!Files, Working
  <2>2. CASE Updates!Plans(f, [mem EXCEPT !.state = "done"]) /\ UNCHANGED <<store, lock>>
    BY <1>a, <1>g, <2>1, <2>2, NewMemory
  <2>3. CASE mem' = [mem EXCEPT !.state = "blocked", !.next = 0] /\ store' = mem' /\ Updates!Rests(f)
    <3>1. \A g \in Updates!Flows : g # f => flow[g].at \notin Updates!Planning
      BY <1>e, <2>1 DEF Working
    <3>2. /\ flow'[f].at = "idle" /\ "idle" \notin Updates!Planning
          /\ \A g \in Updates!Flows \ {f} : flow'[g] = flow[g]
      BY <1>r, <2>3
    <3>3. \A g \in Updates!Flows : flow'[g].at \notin Updates!Planning
      BY <3>1, <3>2
    <3>4. ~Editing' /\ ~Editing
      <4>1. flow["ui"].at \notin Updates!Planning \/ flow["ui"].does = "run"
        BY <1>0, <2>1, <3>1
      <4> QED BY <1>0, <3>3, <4>1 DEF Editing, Asked
    <3>5. mem'.on = mem.on
      BY <1>0, <2>3 DEF Updates!Store
    <3>6. \A g \in Updates!Flows : flow'[g].at \notin {"write", "rename"}
      BY <3>3 DEF Updates!Planning
    <3> QED BY <1>0, <1>c, <2>1, <2>3, <3>4, <3>5, <3>6 DEF EditInv
  <2> QED BY <1>9, <2>2, <2>3 DEF Updates!Run
<1>10. ASSUME NEW f \in Updates!Flows, Updates!Schedule(f) \/ Updates!Refresh(f) PROVE EditInv'
  <2>1. /\ UNCHANGED <<store, wish, draft, temp>> /\ flow[f].at \in {"schedule", "refresh"}
        /\ flow[f].at \in Working /\ Wakes.does = "run"
    BY <1>6, <1>10 DEF Updates!Schedule, Updates!Refresh, Updates!Files, Working, Updates!Planning
  <2>2. f = "ui" => flow[f].at \in Updates!Planning
    BY <1>b, <2>1 DEF Asked, Updates!Planning
  <2>3. CASE \E m \in Updates!Store : m.on = mem.on /\ Updates!Plans(f, m)
    BY <1>g, <2>1, <2>2, <2>3
  <2>4. CASE /\ Updates!Refresh(f) /\ mem' = [mem EXCEPT !.next = 0]
             /\ flow' = [flow EXCEPT ![f].at = "save", ![f].arms = FALSE]
    <3>1. flow' = [flow EXCEPT ![f] = [flow[f] EXCEPT !.at = "save", !.arms = FALSE]]
      BY <1>0, <2>4
    <3>2. [flow[f] EXCEPT !.at = "save", !.arms = FALSE] \in Updates!Flow /\ flow[f] \in Updates!Flow
      BY <1>0 DEF Updates!Flow, Updates!Planning
    <3>3. /\ flow' \in [Updates!Flows -> Updates!Flow]
          /\ flow'[f] = [flow[f] EXCEPT !.at = "save", !.arms = FALSE]
          /\ \A g \in Updates!Flows \ {f} : flow'[g] = flow[g]
      BY <1>0, <3>1, <3>2
    <3>4. /\ FlowGoes(f, "save") /\ "save" \in Spots \ {"write", "rename", "arm"}
          /\ "save" \in Updates!Planning
          /\ flow'[f].does = flow[f].does /\ flow'[f].sets = flow[f].sets
      BY <3>2, <3>3 DEF FlowGoes, Updates!Flow, Spots, Updates!Planning
    <3>5. mem'.on = mem.on
      BY <1>0, <2>4 DEF Updates!Store
    <3> QED BY <1>h, <2>1, <2>2, <3>4, <3>5
  <2>5. CASE Updates!Schedule(f)
    BY <1>0, <2>3, <2>5 DEF Updates!Schedule
  <2>6. CASE Updates!Refresh(f)
    BY <1>a, <2>3, <2>4, <2>6, NewMemory DEF Updates!Refresh
  <2> QED BY <1>10, <2>5, <2>6
<1>11. ASSUME NEW f \in Updates!Flows, flow[f].at \in Updates!Planning,
              NEW at \in Updates!Planning, Updates!Moves(f, at),
              UNCHANGED <<mem, wish>>,
              at = "write" => draft'[f].on = mem.on,
              at = "rename" => temp' # {} /\ \A copy \in temp' : copy.on = mem.on,
              (store' = store /\ at # "arm") \/ store'.on = mem.on
       PROVE  EditInv'
  <2>1. /\ flow'[f].does = flow[f].does /\ flow'[f].sets = flow[f].sets /\ flow'[f].at = at
        /\ \A g \in Updates!Flows \ {f} : flow'[g] = flow[g]
    BY <1>s, <1>11 DEF Spots
  <2>2. \A g \in Updates!Flows : g # f => flow'[g].at \notin {"write", "rename"}
    BY <1>e, <1>11, <2>1 DEF Working, Updates!Planning
  <2>3. \A g \in Updates!Flows :
          /\ flow'[g].at = "write" => draft'[g].on = mem.on
          /\ flow'[g].at = "rename" => temp' # {} /\ \A copy \in temp' : copy.on = mem.on
    BY <1>11, <2>1, <2>2
  <2>4. Editing' <=> Editing
    BY <1>0, <1>11, <2>1 DEF Editing, Asked
  <2>5. Wakes.does = "run" /\ Asked'.sets = Asked.sets
    BY <1>0, <1>6, <1>11, <2>1 DEF Working, Asked
  <2>6. Editing' => Asked'.at = at
    <3>1. f # "ui" => flow["ui"].at \notin Working
      BY <1>0, <1>e, <1>11 DEF Working
    <3> QED BY <2>1, <2>4, <3>1 DEF Editing, Asked, Working
  <2>7. ~Editing' => store'.on = wish /\ mem.on = wish
    BY <1>c, <1>11, <2>4, <2>5
  <2>8. Editing' => /\ mem.on = Asked'.sets /\ store'.on \in {wish, Asked'.sets}
                    /\ Asked'.at = "arm" => store'.on = Asked'.sets
    BY <1>c, <1>11, <2>4, <2>5, <2>6
  <2> QED BY <1>0, <1>11, <2>3, <2>7, <2>8 DEF EditInv
<1>12. ASSUME NEW f \in Updates!Flows, Updates!Serialise(f) PROVE EditInv'
  <2>1. draft'[f].on = mem.on
    BY <1>0, <1>12 DEF Updates!Serialise
  <2> QED BY <1>11, <1>12, <2>1 DEF Updates!Serialise, Updates!Planning
<1>13. ASSUME NEW f \in Updates!Flows, Updates!Write(f) PROVE EditInv'
  <2>1. temp' # {} /\ \A copy \in temp' : copy.on = mem.on
    BY <1>d, <1>13 DEF Updates!Write
  <2> QED BY <1>11, <1>13, <2>1 DEF Updates!Write, Updates!Planning
<1>14. ASSUME NEW f \in Updates!Flows, Updates!Rename(f) PROVE EditInv'
  <2>1. flow[f].at = "rename" /\ temp # {} /\ \A copy \in temp : copy.on = mem.on
    BY <1>d, <1>14 DEF Updates!Rename
  <2>2. store'.on = mem.on /\ Updates!Moves(f, "arm") /\ UNCHANGED <<mem, wish>>
    BY <1>14, <2>1 DEF Updates!Rename
  <2> QED BY <1>11, <2>1, <2>2 DEF Updates!Planning
<1>15. ASSUME NEW f \in Updates!Flows, Updates!Arm(f) PROVE EditInv'
  <2>1. /\ UNCHANGED <<store, mem, draft, temp>> /\ Updates!Rests(f) /\ flow[f].at = "arm"
        /\ wish' = IF flow[f].does = "edit" THEN flow[f].sets ELSE wish
    BY <1>15 DEF Updates!Arm, Updates!Files
  <2>2. Wakes.does = "run" /\ flow[f].at \in Working /\ flow[f].at \in Updates!Planning
    BY <1>6, <2>1 DEF Working, Updates!Planning
  <2>3. /\ flow'[f].at = "idle" /\ "idle" \notin Updates!Planning
        /\ \A g \in Updates!Flows \ {f} : flow'[g] = flow[g]
    BY <1>r, <2>1
  <2>4. \A g \in Updates!Flows : flow'[g].at \notin Updates!Planning
    BY <1>e, <2>2, <2>3 DEF Working
  <2>5. ~Editing' /\ \A g \in Updates!Flows : flow'[g].at \notin {"write", "rename"}
    BY <1>0, <2>4 DEF Editing, Asked, Updates!Planning
  <2>6. store.on = wish' /\ mem.on = wish'
    <3>1. CASE f = "wake"
      <4>1. ~Editing
        BY <1>0, <1>e, <2>2, <3>1 DEF Editing, Asked, Working
      <4> QED BY <1>c, <2>1, <2>2, <3>1, <4>1 DEF Wakes
    <3>2. CASE f = "ui"
      <4>1. flow[f].does \in {"run", "edit"}
        BY <1>0 DEF Updates!Flow
      <4>2. Editing <=> flow[f].does = "edit"
        BY <2>2, <3>2 DEF Editing, Asked
      <4> QED BY <1>c, <2>1, <2>2, <3>2, <4>1, <4>2 DEF Asked
    <3> QED BY <1>0, <3>1, <3>2
  <2> QED BY <1>0, <2>1, <2>5, <2>6 DEF EditInv
<1>16. CASE Updates!Crash
  <2>1. /\ store' = store /\ flow'["wake"].does = "edit" /\ flow'["ui"].at = "idle"
        /\ flow'["wake"].at = "lock"
        /\ wish' = IF flow["ui"].does = "edit" /\ flow["ui"].at \in Updates!Planning
                   THEN store.on ELSE wish
    BY <1>0, <1>16 DEF Updates!Crash, Updates!Resting
  <2>2. ~Editing' /\ Wakes'.does # "run"
    BY <1>0, <2>1 DEF Editing, Asked, Wakes, Updates!Planning
  <2>3. store.on = wish'
    BY <1>c, <2>1 DEF Editing, Asked
  <2>4. \A g \in Updates!Flows : flow'[g].at \notin {"write", "rename"}
    BY <1>0, <2>1
  <2> QED BY <1>0, <2>1, <2>2, <2>3, <2>4 DEF EditInv
<1>17. CASE Updates!Boot
  <2>1. /\ UNCHANGED <<store, wish, draft, temp>> /\ flow'["ui"] = flow["ui"]
        /\ flow["ui"].at = "idle" /\ flow'["wake"].at = "schedule"
    BY <1>0, <1>b, <1>17 DEF Updates!Boot, Updates!Starting, Updates!Resting, Updates!Files, Wakes, Asked
  <2>2. mem'.on = store.on
    BY <1>a, <1>17, LoadedStore DEF Updates!Boot
  <2>3. ~Editing' /\ ~Editing /\ \A g \in Updates!Flows : flow'[g].at \notin {"write", "rename"}
    BY <1>0, <2>1 DEF Editing, Asked, Updates!Planning
  <2> QED BY <1>0, <1>c, <2>1, <2>2, <2>3 DEF EditInv
<1>18. CASE Updates!Other \/ Updates!Tick \/ UNCHANGED autoVars
  BY <1>1, <1>18 DEF Updates!Other, Updates!Tick, Updates!LauncherSame, Updates!Files, autoVars
<1>19. CASE AutoStep
  BY <1>2, <1>3, <1>5, <1>7, <1>8, <1>9, <1>10, <1>12, <1>13, <1>14, <1>15, <1>16, <1>17, <1>18,
     <1>19 DEF AutoStep
<1> QED BY <1>18, <1>19, StepsOfAuto

\* The timer stays ahead of every window that was attempted.
LEMMA AttemptStep ==
    ASSUME Updates!UpdateAssumption, Updates!TypeOK, FlowInv, Alone, EditInv, AttemptInv, PlanInv,
           [Updates!Next]_autoVars
    PROVE  AttemptInv'
<1>a. Updates!TypeOK /\ FlowInv
  OBVIOUS
<1>0. /\ flow \in [Updates!Flows -> Updates!Flow] /\ mem \in Updates!Store
      /\ "wake" \in Updates!Flows /\ "ui" \in Updates!Flows
      /\ \A f \in Updates!Flows : f = "wake" \/ f = "ui"
      /\ attempts \in [Updates!Windows -> Nat] /\ now \in Nat /\ timer \in Nat
      /\ Updates!Windows \subseteq Nat /\ 0 \notin Updates!Windows /\ Asked.key = 0
      /\ MaxTime \in Nat /\ now <= MaxTime
  <2>1. MaxTime \in Nat /\ now \in 0 .. MaxTime /\ timer \in 0 .. MaxTime + 2
    BY <1>a DEF Updates!TypeOK, Updates!UpdateAssumption
  <2>2. now \in Nat /\ timer \in Nat /\ now <= MaxTime
    BY <2>1
  <2>3. Updates!Windows \subseteq Nat /\ 0 \notin Updates!Windows
    BY <2>1 DEF Updates!Windows
  <2> QED BY <1>a, <2>1, <2>2, <2>3 DEF Updates!TypeOK, Updates!Flows, FlowInv
<1>c. /\ \A w \in Updates!Windows : attempts[w] <= 1 /\ (attempts[w] > 0 => Updates!Time(w) <= now)
      /\ timer # 0 => timer = mem.next /\ mem.on /\ mem.state # "blocked" /\ Ahead(timer)
      /\ Wakes.does = "run" /\ Wakes.at \in {"lock", "load"} =>
            /\ Wakes.key \in Updates!Windows /\ attempts[Wakes.key] = 0
            /\ Updates!Time(Wakes.key) <= now
  BY DEF AttemptInv
<1>p. \A f \in Updates!Flows :
         /\ flow[f].at \in Scheduling => timer = 0
         /\ f = "wake" /\ flow[f].does = "edit" => timer = 0
         /\ flow[f].at \in Updates!Planning \ {"refresh"} /\ flow[f].arms =>
               mem.on /\ mem.state # "blocked" /\ Ahead(mem.next)
  BY DEF PlanInv
\* A step that attempts nothing, and whose timer is for the next run of the memory.
<1>1. ASSUME UNCHANGED <<attempts, now>>,
             \/ timer' = 0
             \/ timer' = timer /\ mem' = mem
             \/ timer' = mem'.next /\ mem'.on /\ mem'.state # "blocked" /\ Ahead(timer'),
             \/ flow'["wake"] = flow["wake"]
             \/ flow'["wake"].at \notin {"lock", "load"} \/ flow'["wake"].does = "edit"
             \/ /\ flow["wake"].at = "lock" /\ flow'["wake"].does = flow["wake"].does
                /\ flow'["wake"].key = flow["wake"].key
      PROVE  AttemptInv'
  <2>1. timer' # 0 => timer' = mem'.next /\ mem'.on /\ mem'.state # "blocked" /\ Ahead(timer')
    BY <1>1, <1>c
  <2>2. Wakes'.does = "run" /\ Wakes'.at \in {"lock", "load"} =>
            /\ Wakes'.key \in Updates!Windows /\ attempts[Wakes'.key] = 0
            /\ Updates!Time(Wakes'.key) <= now
    BY <1>1, <1>c DEF Wakes
  <2>3. timer' # 0 => Ahead(timer)'
    BY <1>1, <2>1 DEF Ahead, Updates!Time, Updates!Windows
  <2> QED BY <1>1, <1>c, <2>1, <2>2, <2>3 DEF AttemptInv, Wakes, Updates!Time, Updates!Windows
\* A step that plans.
<1>g. ASSUME NEW f \in Updates!Flows, NEW m \in Updates!Store, Updates!Plans(f, m),
             UNCHANGED <<attempts, now>>
      PROVE  AttemptInv'
  <2>1. timer' = 0 /\ \E at \in {"refresh", "save"} : FlowGoes(f, at)
    BY <1>a, <1>g, PlansDo
  <2>2. flow'["wake"] = flow["wake"] \/ flow'["wake"].at \notin {"lock", "load"}
    BY <1>0, <2>1 DEF FlowGoes
  <2> QED BY <1>1, <1>g, <2>1, <2>2
<1>s. ASSUME NEW f \in Updates!Flows, NEW at \in Spots, Updates!Moves(f, at)
      PROVE  /\ flow'[f].at = at /\ flow'[f].does = flow[f].does /\ flow'[f].key = flow[f].key
             /\ \A g \in Updates!Flows \ {f} : flow'[g] = flow[g]
  BY <1>0, <1>s, FlowMoves DEF FlowGoes
<1>r. ASSUME NEW f \in Updates!Flows, Updates!Rests(f)
      PROVE  /\ flow'[f].at = "idle"
             /\ \A g \in Updates!Flows \ {f} : flow'[g] = flow[g]
             /\ flow'["wake"] = flow["wake"] \/ flow'["wake"].at \notin {"lock", "load"}
  BY <1>0, <1>r, FlowRests DEF FlowGoes
<1>2. CASE UNCHANGED autoVars
  BY <1>1, <1>2 DEF autoVars
<1>3. CASE Updates!Wake /\ Wakes.does = "run"
  <2>1. UNCHANGED <<attempts, now>> /\ timer # 0 /\ now >= timer
    BY <1>3 DEF Updates!Wake, Updates!World
  <2>2. mem.next = timer /\ Ahead(timer) /\ mem.next # 0 /\ ~(mem.next > now)
    BY <1>0, <1>c, <2>1
  <2>3. CASE timer' = 0 /\ UNCHANGED <<mem, flow>>
    BY <1>1, <2>1, <2>3
  <2>4. CASE Updates!Plans("wake", mem)
    BY <1>0, <1>g, <2>1, <2>4
  <2>5. CASE /\ timer' = 0 /\ UNCHANGED mem
             /\ flow' = [flow EXCEPT !["wake"] =
                           [Updates!Resting EXCEPT !.at = "lock", !.key = (timer + 1) \div 2]]
    <3>1. flow'["wake"].key = (timer + 1) \div 2
      BY <1>0, <2>5 DEF Updates!Resting
    <3>2. timer % 2 = 1 /\ timer <= MaxTime
      BY <1>0, <2>1, <2>2 DEF Ahead
    <3>3. /\ (timer + 1) \div 2 \in Updates!Windows
          /\ Updates!Time((timer + 1) \div 2) = timer
      BY <1>0, <2>1, <3>2 DEF Updates!Windows, Updates!Time
    <3>4. attempts[(timer + 1) \div 2] = 0
      <4>1. attempts[(timer + 1) \div 2] > 0 => timer < timer
        BY <2>2, <3>3 DEF Ahead
      <4> QED BY <1>0, <3>3, <4>1
    <3>5. Wakes'.key = (timer + 1) \div 2
      BY <3>1 DEF Wakes
    <3> QED BY <1>c, <2>1, <2>5, <3>3, <3>4, <3>5 DEF AttemptInv, Updates!Time, Updates!Windows
  <2> QED BY <1>3, <2>2, <2>3, <2>4, <2>5 DEF Updates!Wake
<1>5. ASSUME NEW does \in {"run", "edit"}, NEW sets \in BOOLEAN, Updates!Ask(does, sets)
      PROVE  AttemptInv'
  BY <1>0, <1>1, <1>5 DEF Updates!Ask
<1>6. ASSUME NEW f \in Updates!Flows, Updates!TakeLock(f) PROVE AttemptInv'
  <2>1. UNCHANGED <<attempts, now>> /\ flow[f].at = "lock"
    BY <1>6 DEF Updates!TakeLock
  <2>2. CASE Updates!Moves(f, "load") /\ UNCHANGED <<mem, timer>>
    <3>1. /\ flow'[f].does = flow[f].does /\ flow'[f].key = flow[f].key
          /\ \A g \in Updates!Flows \ {f} : flow'[g] = flow[g]
      BY <1>s, <2>2 DEF Spots
    <3> QED BY <1>0, <1>1, <2>1, <2>2, <3>1
  <2>3. CASE Updates!Rests(f) /\ UNCHANGED <<mem, timer>>
    BY <1>1, <1>r, <2>1, <2>3
  <2>4. CASE Updates!Plans(f, [mem EXCEPT !.state = "done"])
    BY <1>a, <1>g, <2>1, <2>4, NewMemory
  <2> QED BY <1>6, <2>2, <2>3, <2>4 DEF Updates!TakeLock
<1>7. ASSUME NEW f \in Updates!Flows,
             Updates!LoadEdit(f) \/ Updates!Schedule(f) \/ Updates!Refresh(f) \/ Updates!Run(f)
      PROVE  AttemptInv'
  <2>1. UNCHANGED <<attempts, now>> /\ flow[f].sets \in BOOLEAN
    BY <1>0, <1>7 DEF Updates!LoadEdit, Updates!Schedule, Updates!Refresh, Updates!Run, Updates!Flow
  <2>2. CASE \E m \in Updates!Store : Updates!Plans(f, m)
    BY <1>g, <2>1, <2>2
  <2>3. CASE /\ flow[f].at \in Scheduling /\ UNCHANGED timer
             /\ flow'["wake"] = flow["wake"] \/ flow'["wake"].at \notin {"lock", "load"}
    BY <1>1, <1>p, <2>1, <2>3
  <2>4. CASE Updates!LoadEdit(f)
    BY <1>a, <2>1, <2>2, <2>4, NewMemory DEF Updates!LoadEdit
  <2>5. CASE Updates!Schedule(f)
    BY <1>0, <2>2, <2>5 DEF Updates!Schedule
  <2>6. CASE Updates!Refresh(f)
    <3>1. CASE UNCHANGED timer /\ flow' = [flow EXCEPT ![f].at = "save", ![f].arms = FALSE]
      <4>1. flow[f].at \in Scheduling
        BY <2>6 DEF Updates!Refresh, Scheduling, Updates!Planning
      <4>2. flow' = [flow EXCEPT ![f] = [flow[f] EXCEPT !.at = "save", !.arms = FALSE]]
        BY <1>0, <3>1
      <4>3. flow[f] \in Updates!Flow
        BY <1>0
      <4>4. flow'[f].at = "save" /\ \A g \in Updates!Flows \ {f} : flow'[g] = flow[g]
        BY <1>0, <4>2, <4>3 DEF Updates!Flow
      <4> QED BY <1>0, <2>3, <3>1, <4>1, <4>4
    <3> QED BY <1>a, <2>2, <2>6, <3>1, NewMemory DEF Updates!Refresh
  <2>7. CASE Updates!Run(f)
    <3>1. CASE Updates!Rests(f) /\ UNCHANGED timer
      <4>1. flow[f].at \in Scheduling
        BY <2>7 DEF Updates!Run, Scheduling
      <4> QED BY <1>r, <2>3, <3>1, <4>1
    <3> QED BY <1>a, <2>2, <2>7, <3>1, NewMemory DEF Updates!Run
  <2> QED BY <1>7, <2>4, <2>5, <2>6, <2>7
<1>8. ASSUME NEW f \in Updates!Flows, Updates!LoadRun(f) PROVE AttemptInv'
  <2>1. now' = now /\ flow[f].at = "load" /\ flow[f].does = "run" /\ flow[f].at \in Working
    BY <1>8 DEF Updates!LoadRun, Working
  <2>2. CASE /\ f = "wake" /\ ~Updates!Loaded.on /\ Updates!Rests(f)
             /\ UNCHANGED <<timer, attempts>>
    <3>1. ~Editing /\ Wakes.does = "run"
      BY <2>1, <2>2 DEF Alone, Editing, Wakes, Asked, Working
    <3>2. ~mem.on
      BY <1>a, <2>2, <3>1, LoadedStore DEF EditInv
    <3>3. timer' = 0
      BY <1>c, <2>2, <3>2
    <3> QED BY <1>1, <1>r, <2>1, <2>2, <3>3
  <2>4. CASE /\ timer' = 0 /\ Updates!Moves(f, "run")
             /\ attempts' = [w \in Updates!Windows |-> IF w = flow[f].key THEN attempts[w] + 1 ELSE attempts[w]]
    <3>0. flow'[f].at = "run" /\ \A g \in Updates!Flows \ {f} : flow'[g] = flow[g]
      BY <1>s, <2>4 DEF Spots
    <3>1. CASE f = "ui"
      <4>1. attempts' = attempts
        BY <1>0, <2>4, <3>1 DEF Asked
      <4> QED BY <1>0, <1>1, <2>1, <2>4, <3>0, <3>1, <4>1
    <3>2. CASE f = "wake"
      <4>1. /\ flow["wake"].key \in Updates!Windows /\ attempts[flow["wake"].key] = 0
            /\ Updates!Time(flow["wake"].key) <= now
        BY <1>c, <2>1, <3>2 DEF Wakes
      <4>2. \A w \in Updates!Windows : attempts'[w] = IF w = flow["wake"].key THEN 1 ELSE attempts[w]
        BY <1>0, <2>4, <3>2, <4>1
      <4>3. \A w \in Updates!Windows : attempts'[w] <= 1 /\
            (attempts'[w] > 0 => Updates!Time(w) <= now)
        BY <1>0, <1>c, <4>1, <4>2
      <4>4. Wakes'.at \notin {"lock", "load"}
        BY <3>0, <3>2 DEF Wakes
      <4> QED BY <2>1, <2>4, <4>3, <4>4 DEF AttemptInv, Updates!Time, Updates!Windows
    <3> QED BY <1>0, <3>1, <3>2
  <2> QED BY <1>8, <2>2, <2>4 DEF Updates!LoadRun
<1>9. ASSUME NEW f \in Updates!Flows, Updates!Serialise(f) \/ Updates!Write(f) \/ Updates!Rename(f)
      PROVE  AttemptInv'
  <2>1. UNCHANGED <<attempts, now>>
    BY <1>9 DEF Updates!Serialise, Updates!Write, Updates!Rename
  <2>2. ASSUME NEW at \in {"write", "rename", "arm"}, Updates!Moves(f, at), UNCHANGED <<mem, timer>>
        PROVE  AttemptInv'
    <3>1. flow'[f].at = at /\ \A g \in Updates!Flows \ {f} : flow'[g] = flow[g]
      BY <1>s, <2>2 DEF Spots, Updates!Planning
    <3> QED BY <1>0, <1>1, <2>1, <2>2, <3>1
  <2>3. CASE Updates!Rests(f) /\ UNCHANGED <<mem, timer>>
    BY <1>1, <1>r, <2>1, <2>3
  <2>4. CASE Updates!Plans(f, [mem EXCEPT !.state = "done"])
    BY <1>a, <1>g, <2>1, <2>4, NewMemory
  <2> QED BY <1>9, <2>2, <2>3, <2>4 DEF Updates!Serialise, Updates!Write, Updates!Rename
<1>10. ASSUME NEW f \in Updates!Flows, Updates!Arm(f) PROVE AttemptInv'
  <2>1. /\ UNCHANGED <<attempts, now, mem>> /\ flow[f].at = "arm" /\ Updates!Rests(f)
        /\ timer' = IF ~flow[f].arms THEN timer
                    ELSE IF mem.on /\ mem.state # "blocked" THEN mem.next ELSE 0
    BY <1>10 DEF Updates!Arm
  <2>2. flow[f].at \in Updates!Planning \ {"refresh"}
    BY <2>1 DEF Updates!Planning
  <2>3. flow[f].arms => mem.on /\ mem.state # "blocked" /\ Ahead(mem.next)
    BY <1>p, <2>2
  <2>4. CASE ~flow[f].arms
    BY <1>1, <1>r, <2>1, <2>4
  <2>5. CASE flow[f].arms
    <3>1. /\ timer' = mem'.next /\ mem'.on /\ mem'.state # "blocked"
          /\ timer' = mem.next
      BY <2>1, <2>3, <2>5
    <3>2. Ahead(timer')
      BY <2>3, <2>5, <3>1
    <3> QED BY <1>1, <1>r, <2>1, <3>1, <3>2
  <2>6. flow[f].arms \in BOOLEAN
    BY <1>0 DEF Updates!Flow
  <2> QED BY <2>4, <2>5, <2>6
<1>11. CASE Updates!Crash
  <2>1. UNCHANGED <<attempts, now>> /\ timer' = 0 /\ flow'["wake"].does = "edit"
    BY <1>0, <1>11 DEF Updates!Crash, Updates!Resting
  <2> QED BY <1>1, <2>1
<1>12. CASE Updates!Boot
  <2>1. UNCHANGED <<attempts, now, timer>> /\ flow'["wake"].at = "schedule" /\ flow["wake"].does = "edit"
    BY <1>0, <1>12 DEF Updates!Boot, Updates!Starting, Updates!Resting
  <2>2. timer' = 0
    BY <1>0, <1>p, <2>1
  <2> QED BY <1>1, <2>1, <2>2
<1>13. CASE Updates!Other
  BY <1>1, <1>13 DEF Updates!Other, Updates!LauncherSame
<1>14. CASE Updates!Tick
  <2>1. UNCHANGED <<attempts, timer, mem, flow>> /\ now' = now + 1
    BY <1>14 DEF Updates!Tick, Updates!LauncherSame
  <2>2. /\ \A w \in Updates!Windows : Updates!Time(w) \in Int
        /\ \A w \in Updates!Windows : Updates!Time(w) <= now => Updates!Time(w) <= now'
    BY <1>0, <2>1 DEF Updates!Time
  <2>3. timer # 0 => Ahead(timer)'
    BY <1>c, <2>1 DEF Ahead, Updates!Time, Updates!Windows
  <2> QED BY <1>c, <2>1, <2>2, <2>3 DEF AttemptInv, Wakes, Updates!Time, Updates!Windows
<1>15. CASE AutoStep
  BY <1>3, <1>5, <1>6, <1>7, <1>8, <1>9, <1>10, <1>11, <1>12, <1>13, <1>14, <1>15 DEF AutoStep
<1> QED BY <1>2, <1>15, StepsOfAuto

\* A flow that schedules plans what the timer needs.
LEMMA PlanStep ==
    ASSUME Updates!UpdateAssumption, Updates!TypeOK, FlowInv, Alone, Alone', AttemptInv, PlanInv,
           [Updates!Next]_autoVars
    PROVE  PlanInv'
<1>a. Updates!TypeOK /\ FlowInv
  OBVIOUS
<1>0. /\ flow \in [Updates!Flows -> Updates!Flow] /\ mem \in Updates!Store
      /\ "wake" \in Updates!Flows /\ "ui" \in Updates!Flows
      /\ \A f \in Updates!Flows : f = "wake" \/ f = "ui"
      /\ Updates!Flows' = Updates!Flows /\ Updates!Planning' = Updates!Planning
      /\ Scheduling' = Scheduling /\ Working' = Working
      /\ now \in Nat
  <2>1. now \in 0 .. MaxTime /\ MaxTime \in Nat
    BY <1>a DEF Updates!TypeOK, Updates!UpdateAssumption
  <2>2. now \in Nat
    BY <2>1
  <2> QED BY <1>a, <2>2 DEF Updates!TypeOK, Updates!Flows, Updates!Planning, Scheduling, Working
<1>b. /\ \A f \in Updates!Flows : flow[f].at = "run" => flow[f].does = "run"
      /\ Wakes.does = "edit" => Wakes.at = "lock" /\ Asked.at = "idle"
  BY <1>a DEF FlowInv
<1>p. \A f \in Updates!Flows :
       /\ flow[f].at \in Scheduling => timer = 0
       /\ f = "wake" /\ flow[f].does = "edit" => timer = 0
       /\ flow[f].at = "refresh" => mem.on /\ mem.state = "blocked"
       /\ flow[f].at \in Updates!Planning \ {"refresh"} =>
             IF flow[f].arms THEN mem.on /\ mem.state # "blocked" /\ Ahead(mem.next)
             ELSE ~mem.on \/ mem.state = "blocked"
  BY DEF PlanInv
<1>e. ASSUME NEW f \in Updates!Flows, flow[f].at \in Working,
             NEW g \in Updates!Flows, g # f, flow[g].at \in Working
      PROVE  FALSE
  BY <1>0, <1>e DEF Alone, Wakes, Asked
<1>f. ASSUME NEW f \in Updates!Flows, flow'[f].at \in Working,
             NEW g \in Updates!Flows, g # f, flow'[g].at \in Working
      PROVE  FALSE
  BY <1>0, <1>f DEF Alone, Wakes, Asked
<1>6. ASSUME NEW f \in Updates!Flows, flow[f].at \in Working
      PROVE  Wakes.does = "run"
  <2>1. flow["wake"].does \in {"run", "edit"}
    BY <1>0 DEF Updates!Flow
  <2> QED BY <1>0, <1>b, <1>6, <2>1 DEF Wakes, Asked, Working, Updates!Planning
<1>w. Scheduling \subseteq Working /\ Updates!Planning \subseteq Scheduling
  BY DEF Scheduling, Working
\* When no flow is at work there is nothing to be said.
<1>u. ASSUME \A g \in Updates!Flows : flow'[g].at \notin Scheduling,
             flow'["wake"].does = "run" \/ timer' = 0
      PROVE  PlanInv'
  <2>1. "refresh" \in Updates!Planning
    BY DEF Updates!Planning
  <2> QED BY <1>0, <1>u, <1>w, <2>1 DEF PlanInv
\* A step of a flow that is at work before or after it.
<1>h. ASSUME NEW f \in Updates!Flows, NEW at \in Spots, FlowGoes(f, at), Wakes.does = "run",
             flow[f].at \in Working \/ at \in Working,
             at \in Scheduling => timer' = 0,
             at = "refresh" => mem'.on /\ mem'.state = "blocked",
             at \in Updates!Planning \ {"refresh"} =>
                IF flow'[f].arms THEN mem'.on /\ mem'.state # "blocked" /\ Ahead(mem.next)'
                ELSE ~mem'.on \/ mem'.state = "blocked"
      PROVE  PlanInv'
  <2>1. /\ flow'[f].at = at /\ \A g \in Updates!Flows \ {f} : flow'[g] = flow[g]
        /\ flow'[f].does = flow[f].does \/ flow'[f].does = "run"
    BY <1>h DEF FlowGoes
  <2>2. ASSUME NEW g \in Updates!Flows, g # f PROVE flow'[g].at \notin Working
    <3>1. flow'[g] = flow[g]
      BY <2>1, <2>2
    <3> QED BY <1>e, <1>f, <1>h, <2>1, <2>2, <3>1
  <2>3. flow'["wake"].does = "run"
    BY <1>0, <1>h, <2>1 DEF Wakes
  <2>4. \A g \in Updates!Flows :
       /\ flow'[g].at \in Scheduling => timer' = 0
       /\ g = "wake" /\ flow'[g].does = "edit" => timer' = 0
       /\ flow'[g].at = "refresh" => mem'.on /\ mem'.state = "blocked"
       /\ flow'[g].at \in Updates!Planning \ {"refresh"} =>
             IF flow'[g].arms THEN mem'.on /\ mem'.state # "blocked" /\ Ahead(mem.next)'
             ELSE ~mem'.on \/ mem'.state = "blocked"
    <3> SUFFICES ASSUME NEW g \in Updates!Flows
                 PROVE  /\ flow'[g].at \in Scheduling => timer' = 0
                        /\ g = "wake" /\ flow'[g].does = "edit" => timer' = 0
                        /\ flow'[g].at = "refresh" => mem'.on /\ mem'.state = "blocked"
                        /\ flow'[g].at \in Updates!Planning \ {"refresh"} =>
                              IF flow'[g].arms THEN mem'.on /\ mem'.state # "blocked" /\ Ahead(mem.next)'
                              ELSE ~mem'.on \/ mem'.state = "blocked"
      OBVIOUS
    <3>1. CASE g = f
      BY <1>h, <2>1, <2>3, <3>1
    <3>2. CASE g # f
      <4>1. flow'[g].at \notin Scheduling /\ flow'[g].at \notin Updates!Planning
        BY <1>w, <2>2, <3>2
      <4>2. flow'[g].at # "refresh"
        BY <4>1 DEF Updates!Planning
      <4> QED BY <2>3, <4>1, <4>2
    <3> QED BY <3>1, <3>2
  <2> QED BY <1>0, <2>4 DEF PlanInv
<1>g. ASSUME NEW f \in Updates!Flows, NEW m \in Updates!Store, Updates!Plans(f, m),
             UNCHANGED <<attempts, now>>, Wakes.does = "run"
      PROVE  PlanInv'
  <2>1. PICK at \in {"refresh", "save"} : FlowGoes(f, at)
    BY <1>a, <1>g, PlansDo
  <2>2. /\ timer' = 0 /\ mem'.on = m.on /\ flow'[f].arms = m.on
        /\ flow'[f].at = "refresh" => mem'.on /\ mem'.state = "blocked"
        /\ flow'[f].at = "save" /\ m.on => mem'.state # "blocked" /\ mem'.next = Updates!NextDate
    BY <1>a, <1>g, PlansDo
  <2>3. flow'[f].at = at /\ at \in Spots /\ at \in Working
    BY <2>1 DEF FlowGoes, Spots, Working, Updates!Planning
  <2>4. Updates!NextDate \in Nat /\ Updates!NextDate > now /\ Updates!NextDate % 2 = 1
    BY <1>a, NextWindow
  <2>5. mem'.next = Updates!NextDate => Ahead(mem.next)'
    <3>1. \A w \in Updates!Windows : Updates!Time(w) \in Int
      <4>1. Updates!Windows \subseteq Int
        BY DEF Updates!Windows
      <4> QED BY <4>1 DEF Updates!Time
    <3>2. \A w \in Updates!Windows : attempts[w] > 0 => Updates!Time(w) <= now
      BY DEF AttemptInv
    <3>3. \A w \in Updates!Windows : attempts[w] > 0 => Updates!Time(w) < Updates!NextDate
      BY <1>0, <2>4, <3>1, <3>2
    <3> QED BY <1>g, <2>4, <3>3 DEF Ahead, Updates!Time, Updates!Windows
  <2>6. at \in Updates!Planning \ {"refresh"} =>
                IF flow'[f].arms THEN mem'.on /\ mem'.state # "blocked" /\ Ahead(mem.next)'
                ELSE ~mem'.on \/ mem'.state = "blocked"
    BY <2>2, <2>3, <2>5
  <2> QED BY <1>g, <1>h, <2>1, <2>2, <2>3, <2>6
<1>s. ASSUME NEW f \in Updates!Flows, NEW at \in Spots, Updates!Moves(f, at)
      PROVE  FlowGoes(f, at) /\ flow'[f].at = at /\ flow'[f].arms = flow[f].arms
  BY <1>0, <1>s, FlowMoves DEF FlowGoes
<1>r. ASSUME NEW f \in Updates!Flows, Updates!Rests(f)
      PROVE  FlowGoes(f, "idle") /\ "idle" \in Spots /\ "idle" \notin Scheduling
  BY <1>0, <1>r, FlowRests DEF Spots, Scheduling, Updates!Planning
<1>i. ASSUME NEW f \in Updates!Flows, Updates!Rests(f), flow[f].at \in Working PROVE PlanInv'
  <2>1. "idle" \notin Updates!Planning /\ Wakes.does = "run"
    BY <1>6, <1>i DEF Updates!Planning
  <2> QED BY <1>h, <1>i, <1>r, <2>1
<1>1. CASE UNCHANGED <<flow, mem, timer, attempts>>
  BY <1>0, <1>p, <1>1 DEF PlanInv, Ahead, Updates!Time, Updates!Windows
<1>2. CASE Updates!Wake /\ Wakes.does = "run"
  <2>1. UNCHANGED <<attempts, now>> /\ timer # 0 /\ flow["wake"].at = "idle"
    BY <1>2 DEF Updates!Wake, Updates!World
  <2>2. \A g \in Updates!Flows : flow[g].at \notin Scheduling
    BY <1>p, <2>1
  <2>3. CASE UNCHANGED flow
    BY <1>2, <1>u, <2>2, <2>3 DEF Wakes
  <2>4. CASE Updates!Plans("wake", mem)
    BY <1>0, <1>2, <1>g, <2>1, <2>4
  <2>5. ASSUME NEW key, flow' = [flow EXCEPT !["wake"] = [Updates!Resting EXCEPT !.at = "lock", !.key = key]]
        PROVE  PlanInv'
    <3>1. flow'["wake"].at = "lock" /\ flow'["wake"].does = "run" /\ flow'["ui"] = flow["ui"]
      BY <1>0, <2>5 DEF Updates!Resting
    <3>2. "lock" \notin Scheduling
      BY DEF Scheduling, Updates!Planning
    <3> QED BY <1>0, <1>u, <2>2, <3>1, <3>2
  <2> QED BY <1>2, <2>3, <2>4, <2>5 DEF Updates!Wake
<1>3. ASSUME NEW does \in {"run", "edit"}, NEW sets \in BOOLEAN, Updates!Ask(does, sets)
      PROVE  PlanInv'
  <2>1. /\ UNCHANGED <<mem, timer, attempts>> /\ flow'["wake"] = flow["wake"]
        /\ flow'["ui"].at = "lock"
    BY <1>0, <1>3 DEF Updates!Ask, Updates!Resting
  <2>2. "lock" \notin Scheduling /\ "lock" # "refresh" /\ "lock" \notin Updates!Planning
    BY DEF Scheduling, Updates!Planning
  <2>3. \A g \in Updates!Flows : \/ flow'[g] = flow[g]
                                 \/ g # "wake" /\ flow'[g].at = "lock"
    BY <1>0, <2>1
  <2>4. \A t : Ahead(t) => t % 2 = 1 /\ \A w \in Updates!Windows : attempts'[w] > 0 => Updates!Time(w) < t
    BY <2>1 DEF Ahead
  <2> QED BY <1>0, <1>p, <2>1, <2>2, <2>3, <2>4 DEF PlanInv, Ahead, Updates!Time, Updates!Windows
<1>5. ASSUME NEW f \in Updates!Flows, Updates!TakeLock(f), Wakes.does = "run" PROVE PlanInv'
  <2>1. UNCHANGED <<attempts, now>> /\ flow[f].at = "lock"
    BY <1>5 DEF Updates!TakeLock
  <2>2. CASE Updates!Moves(f, "load") /\ UNCHANGED <<mem, timer>>
    <3>1. FlowGoes(f, "load") /\ "load" \in Spots /\ "load" \in Working /\ "load" \notin Scheduling
          /\ "load" \notin Updates!Planning
      BY <1>s, <2>2 DEF Spots, Working, Scheduling, Updates!Planning
    <3> QED BY <1>h, <1>5, <3>1
  <2>3. CASE f = "ui" /\ Updates!Rests(f) /\ UNCHANGED <<mem, timer>>
    <3>1. flow'["wake"] = flow["wake"] /\ flow'["ui"].at = "idle"
      BY <1>0, <1>r, <2>3 DEF FlowGoes
    <3>2. "idle" \notin Scheduling /\ "idle" # "refresh" /\ "idle" \notin Updates!Planning
      BY DEF Scheduling, Updates!Planning
    <3>3. \A g \in Updates!Flows : \/ flow'[g] = flow[g]
                                   \/ g # "wake" /\ flow'[g].at = "idle"
      BY <1>0, <3>1
    <3>4. \A t : Ahead(t) => t % 2 = 1 /\ \A w \in Updates!Windows : attempts'[w] > 0 => Updates!Time(w) < t
      BY <2>1 DEF Ahead
    <3> QED BY <1>0, <1>p, <2>1, <2>3, <3>2, <3>3, <3>4 DEF PlanInv, Ahead, Updates!Time, Updates!Windows
  <2>4. CASE Updates!Plans(f, [mem EXCEPT !.state = "done"])
    BY <1>a, <1>g, <1>5, <2>1, <2>4, NewMemory
  <2> QED BY <1>5, <2>2, <2>3, <2>4 DEF Updates!TakeLock
<1>7. ASSUME NEW f \in Updates!Flows,
             Updates!LoadEdit(f) \/ Updates!Schedule(f) \/ Updates!Refresh(f) \/ Updates!Run(f)
      PROVE  PlanInv'
  <2>1. /\ UNCHANGED <<attempts, now>> /\ flow[f].sets \in BOOLEAN /\ flow[f].at \in Working
        /\ flow[f] \in Updates!Flow
    BY <1>0, <1>7 DEF Updates!LoadEdit, Updates!Schedule, Updates!Refresh, Updates!Run, Updates!Flow,
       Working, Updates!Planning
  <2>0. Wakes.does = "run"
    BY <1>6, <2>1
  <2>2. CASE \E m \in Updates!Store : Updates!Plans(f, m)
    BY <1>g, <2>0, <2>1, <2>2
  <2>4. CASE Updates!LoadEdit(f)
    BY <1>a, <2>1, <2>2, <2>4, NewMemory DEF Updates!LoadEdit
  <2>5. CASE Updates!Schedule(f)
    BY <1>0, <2>2, <2>5 DEF Updates!Schedule
  <2>6. CASE Updates!Refresh(f)
    <3>1. CASE /\ mem' = [mem EXCEPT !.next = 0] /\ UNCHANGED timer
               /\ flow' = [flow EXCEPT ![f].at = "save", ![f].arms = FALSE]
      <4>1. flow[f].at \in Scheduling /\ flow[f].at = "refresh"
        BY <2>6 DEF Updates!Refresh, Scheduling, Updates!Planning
      <4>2. flow' = [flow EXCEPT ![f] = [flow[f] EXCEPT !.at = "save", !.arms = FALSE]]
        BY <1>0, <3>1
      <4>3. [flow[f] EXCEPT !.at = "save", !.arms = FALSE] \in Updates!Flow
        BY <2>1 DEF Updates!Flow, Updates!Planning
      <4>4. /\ flow' \in [Updates!Flows -> Updates!Flow]
            /\ flow'[f] = [flow[f] EXCEPT !.at = "save", !.arms = FALSE]
            /\ \A g \in Updates!Flows \ {f} : flow'[g] = flow[g]
        BY <1>0, <4>2, <4>3
      <4>5. /\ FlowGoes(f, "save") /\ "save" \in Spots /\ flow'[f].arms = FALSE
        BY <2>1, <4>4 DEF FlowGoes, Updates!Flow, Spots, Updates!Planning
      <4>6. mem'.state = "blocked" /\ timer' = 0
        BY <1>0, <1>p, <3>1, <4>1 DEF Updates!Store
      <4> QED BY <1>h, <2>0, <2>1, <4>5, <4>6
    <3> QED BY <1>a, <2>2, <2>6, <3>1, NewMemory DEF Updates!Refresh
  <2>7. CASE Updates!Run(f)
    <3>1. CASE Updates!Rests(f)
      BY <1>i, <2>1, <3>1
    <3> QED BY <1>a, <2>2, <2>7, <3>1, NewMemory DEF Updates!Run
  <2> QED BY <1>7, <2>4, <2>5, <2>6, <2>7
<1>8. ASSUME NEW f \in Updates!Flows, Updates!LoadRun(f) PROVE PlanInv'
  <2>1. flow[f].at \in Working /\ Wakes.does = "run"
    BY <1>6, <1>8 DEF Updates!LoadRun, Working
  <2>2. CASE Updates!Rests(f)
    BY <1>i, <2>1, <2>2
  <2>3. CASE Updates!Moves(f, "run") /\ timer' = 0
    <3>1. FlowGoes(f, "run") /\ "run" \in Spots /\ "run" \notin Updates!Planning
      BY <1>s, <2>3 DEF Spots, Updates!Planning
    <3> QED BY <1>h, <2>1, <2>3, <3>1
  <2> QED BY <1>8, <2>2, <2>3 DEF Updates!LoadRun
<1>9. ASSUME NEW f \in Updates!Flows, Updates!Serialise(f) \/ Updates!Write(f) \/ Updates!Rename(f)
      PROVE  PlanInv'
  <2>1. UNCHANGED <<attempts, now>> /\ flow[f].at \in Updates!Planning \ {"refresh"}
    BY <1>9 DEF Updates!Serialise, Updates!Write, Updates!Rename, Updates!Planning
  <2>0. flow[f].at \in Working /\ Wakes.does = "run" /\ flow[f].at \in Scheduling
    BY <1>6, <2>1 DEF Working, Scheduling
  <2>2. ASSUME NEW at \in {"write", "rename", "arm"}, Updates!Moves(f, at), UNCHANGED <<mem, timer>>
        PROVE  PlanInv'
    <3>1. /\ FlowGoes(f, at) /\ at \in Spots /\ at # "refresh" /\ flow'[f].arms = flow[f].arms
      BY <1>s, <2>2 DEF Spots, Updates!Planning
    <3>2. IF flow[f].arms THEN mem.on /\ mem.state # "blocked" /\ Ahead(mem.next)
             ELSE ~mem.on \/ mem.state = "blocked"
      BY <1>p, <2>1
    <3>3. Ahead(mem.next) => Ahead(mem.next)'
      BY <2>1, <2>2 DEF Ahead, Updates!Time, Updates!Windows
    <3>4. timer' = 0
      BY <1>p, <2>0, <2>2
    <3>5. IF flow'[f].arms THEN mem'.on /\ mem'.state # "blocked" /\ Ahead(mem.next)'
             ELSE ~mem'.on \/ mem'.state = "blocked"
      BY <2>2, <3>1, <3>2, <3>3
    <3> QED BY <1>h, <2>0, <3>1, <3>4, <3>5
  <2>3. CASE Updates!Rests(f)
    BY <1>i, <2>0, <2>3
  <2>4. CASE Updates!Plans(f, [mem EXCEPT !.state = "done"])
    BY <1>a, <1>g, <2>0, <2>1, <2>4, NewMemory
  <2> QED BY <1>9, <2>2, <2>3, <2>4 DEF Updates!Serialise, Updates!Write, Updates!Rename
<1>10. ASSUME NEW f \in Updates!Flows, Updates!Arm(f) PROVE PlanInv'
  <2>1. Updates!Rests(f) /\ flow[f].at \in Working
    BY <1>10 DEF Updates!Arm, Working, Updates!Planning
  <2> QED BY <1>i, <2>1
<1>11. CASE Updates!Crash
  <2>1. timer' = 0 /\ flow'["wake"].at = "lock" /\ flow'["ui"].at = "idle"
    BY <1>0, <1>11 DEF Updates!Crash, Updates!Resting
  <2>2. "lock" \notin Scheduling /\ "idle" \notin Scheduling
    BY DEF Scheduling, Updates!Planning
  <2> QED BY <1>0, <1>u, <2>1, <2>2
<1>12. CASE Updates!Boot
  <2>1. /\ UNCHANGED timer /\ flow["wake"].does = "edit"
        /\ flow' = [flow EXCEPT !["wake"] = [Updates!Resting EXCEPT !.at = "schedule"]]
    BY <1>12 DEF Updates!Boot, Updates!Starting
  <2>2. timer' = 0 /\ flow["ui"].at = "idle"
    BY <1>0, <1>b, <1>p, <2>1 DEF Wakes, Asked
  <2>3. /\ flow'["wake"].at = "schedule" /\ flow'["ui"].at = "idle"
    BY <1>0, <2>1, <2>2 DEF Updates!Resting
  <2>4. \A g \in Updates!Flows : flow'[g].at # "refresh" /\ flow'[g].at \notin Updates!Planning
    BY <1>0, <2>3 DEF Updates!Planning
  <2> QED BY <1>0, <2>2, <2>4 DEF PlanInv
<1>13. CASE Updates!Other \/ Updates!Tick \/ UNCHANGED autoVars
  BY <1>1, <1>13 DEF Updates!Other, Updates!Tick, Updates!LauncherSame, autoVars
<1>15. CASE AutoStep
  BY <1>2, <1>3, <1>5, <1>7, <1>8, <1>9, <1>10, <1>11, <1>12, <1>13, <1>15 DEF AutoStep
<1> QED BY <1>13, <1>15, StepsOfAuto

\* The timer is set, or a flow is on its way to set it.
LEMMA TimerStep ==
    ASSUME Updates!UpdateAssumption, Updates!TypeOK, FlowInv, EditInv, AttemptInv, PlanInv, TimerInv,
           [Updates!Next]_autoVars
    PROVE  TimerInv'
<1>a. Updates!TypeOK /\ FlowInv
  OBVIOUS
<1>0. /\ flow \in [Updates!Flows -> Updates!Flow] /\ mem \in Updates!Store /\ timer \in Nat
      /\ "wake" \in Updates!Flows /\ "ui" \in Updates!Flows
      /\ \A f \in Updates!Flows : f = "wake" \/ f = "ui"
      /\ Updates!Planning' = Updates!Planning
  <2>1. timer \in 0 .. MaxTime + 2 /\ MaxTime \in Nat
    BY <1>a DEF Updates!TypeOK, Updates!UpdateAssumption
  <2>2. timer \in Nat
    BY <2>1
  <2> QED BY <1>a, <2>2 DEF Updates!TypeOK, Updates!Flows, Updates!Planning
<1>1. ASSUME UNCHANGED <<mem, timer, flow>> PROVE TimerInv'
  BY <1>0, <1>1 DEF TimerInv, Pending, Wakes, Asked
<1>6. ASSUME NEW f \in Updates!Flows, flow'[f].at \in {"run"} \cup Updates!Planning PROVE TimerInv'
  <2>1. flow'[f].at # "idle"
    BY <1>6 DEF Updates!Planning
  <2> QED BY <1>0, <1>6, <2>1 DEF TimerInv, Pending, Wakes, Asked
<1>7. ASSUME ~mem'.on \/ mem'.state = "blocked" \/ timer' > 0 PROVE TimerInv'
  BY <1>7 DEF TimerInv
<1>g. ASSUME NEW f \in Updates!Flows, NEW m \in Updates!Store, Updates!Plans(f, m)
      PROVE  TimerInv'
  <2>1. \E at \in {"refresh", "save"} : FlowGoes(f, at)
    BY <1>a, <1>g, PlansDo
  <2>2. flow'[f].at \in Updates!Planning
    BY <2>1 DEF FlowGoes, Updates!Planning
  <2> QED BY <1>6, <2>2
<1>s. ASSUME NEW f \in Updates!Flows, NEW at \in Spots, Updates!Moves(f, at)
      PROVE  flow'[f].at = at /\ \A g \in Updates!Flows \ {f} : flow'[g] = flow[g]
  BY <1>0, <1>s, FlowMoves DEF FlowGoes
<1>2. CASE Updates!Wake /\ Wakes.does = "run"
  <2>1. timer # 0
    BY <1>2 DEF Updates!Wake
  <2>2. timer = mem.next
    BY <2>1 DEF AttemptInv
  <2>3. CASE mem' = mem /\ (~mem.on \/ mem.state = "blocked")
    BY <1>7, <2>3
  <2>4. CASE timer' = mem.next
    BY <1>0, <1>7, <2>1, <2>2, <2>4
  <2>5. CASE Updates!Plans("wake", mem)
    BY <1>0, <1>g, <2>5
  <2>6. ASSUME NEW key, flow' = [flow EXCEPT !["wake"] = [Updates!Resting EXCEPT !.at = "lock", !.key = key]]
        PROVE  TimerInv'
    <3>1. flow'["wake"].at = "lock"
      BY <1>0, <2>6 DEF Updates!Resting
    <3> QED BY <3>1 DEF TimerInv, Pending, Wakes
  <2> QED BY <1>2, <2>3, <2>4, <2>5, <2>6 DEF Updates!Wake
<1>3. ASSUME NEW does \in {"run", "edit"}, NEW sets \in BOOLEAN, Updates!Ask(does, sets)
      PROVE  TimerInv'
  <2>1. UNCHANGED <<mem, timer>> /\ flow'["wake"] = flow["wake"] /\ flow["ui"].at = "idle"
    BY <1>0, <1>3 DEF Updates!Ask
  <2> QED BY <2>1 DEF TimerInv, Pending, Wakes, Asked, Updates!Planning
<1>5. ASSUME NEW f \in Updates!Flows, Updates!TakeLock(f) PROVE TimerInv'
  <2>1. flow[f].at = "lock"
    BY <1>5 DEF Updates!TakeLock
  <2>2. ASSUME UNCHANGED <<mem, timer>>, flow'["wake"] = flow["wake"], f = "ui" PROVE TimerInv'
    BY <2>1, <2>2 DEF TimerInv, Pending, Wakes, Asked, Updates!Planning
  <2>3. CASE Updates!Moves(f, "load") /\ UNCHANGED <<mem, timer>>
    <3>1. flow'[f].at = "load" /\ \A g \in Updates!Flows \ {f} : flow'[g] = flow[g]
      BY <1>s, <2>3 DEF Spots
    <3>2. CASE f = "wake"
      BY <3>1, <3>2 DEF TimerInv, Pending, Wakes
    <3>3. CASE f = "ui"
      BY <1>0, <2>2, <2>3, <3>1, <3>3
    <3> QED BY <1>0, <3>2, <3>3
  <2>4. CASE f = "ui" /\ Updates!Rests(f) /\ UNCHANGED <<mem, timer>>
    <3>1. flow'["wake"] = flow["wake"]
      BY <1>0, <2>4, FlowRests DEF FlowGoes
    <3> QED BY <2>2, <2>4, <3>1
  <2>5. CASE Updates!Plans(f, [mem EXCEPT !.state = "done"])
    BY <1>a, <1>g, <2>5, NewMemory
  <2> QED BY <1>5, <2>3, <2>4, <2>5 DEF Updates!TakeLock
<1>8. ASSUME NEW f \in Updates!Flows,
             Updates!LoadEdit(f) \/ Updates!Schedule(f) \/ Updates!Refresh(f) \/ Updates!Run(f)
      PROVE  TimerInv'
  <2>1. flow[f].sets \in BOOLEAN /\ flow[f] \in Updates!Flow
    BY <1>0 DEF Updates!Flow
  <2>2. CASE Updates!LoadEdit(f)
    BY <1>a, <1>g, <2>1, <2>2, NewMemory DEF Updates!LoadEdit
  <2>3. CASE Updates!Schedule(f)
    BY <1>0, <1>g, <2>3 DEF Updates!Schedule
  <2>4. CASE Updates!Refresh(f)
    <3>1. CASE flow' = [flow EXCEPT ![f].at = "save", ![f].arms = FALSE]
      <4>1. flow' = [flow EXCEPT ![f] = [flow[f] EXCEPT !.at = "save", !.arms = FALSE]]
        BY <1>0, <3>1
      <4>2. flow'[f].at = "save"
        BY <1>0, <2>1, <4>1 DEF Updates!Flow
      <4>3. "save" \in Updates!Planning
        BY DEF Updates!Planning
      <4> QED BY <1>6, <4>2, <4>3
    <3> QED BY <1>a, <1>g, <2>4, <3>1, NewMemory DEF Updates!Refresh
  <2>5. CASE Updates!Run(f)
    <3>1. CASE mem' = [mem EXCEPT !.state = "blocked", !.next = 0]
      BY <1>0, <1>7, <3>1 DEF Updates!Store
    <3> QED BY <1>a, <1>g, <2>5, <3>1, NewMemory DEF Updates!Run
  <2> QED BY <1>8, <2>2, <2>3, <2>4, <2>5
<1>9. ASSUME NEW f \in Updates!Flows, Updates!LoadRun(f) PROVE TimerInv'
  <2>1. CASE mem' = Updates!Loaded /\ ~Updates!Loaded.on
    BY <1>7, <2>1
  <2>2. CASE Updates!Moves(f, "run")
    BY <1>6, <1>s, <2>2 DEF Spots
  <2> QED BY <1>9, <2>1, <2>2 DEF Updates!LoadRun
<1>10. ASSUME NEW f \in Updates!Flows, Updates!Serialise(f) \/ Updates!Write(f) \/ Updates!Rename(f)
       PROVE  TimerInv'
  <2>1. flow[f].at = "rename" => temp # {}
    BY DEF EditInv
  <2>2. \E at \in {"write", "rename", "arm"} : Updates!Moves(f, at)
    BY <1>10, <2>1 DEF Updates!Serialise, Updates!Write, Updates!Rename
  <2>3. flow'[f].at \in Updates!Planning
    BY <1>s, <2>2 DEF Spots, Updates!Planning
  <2> QED BY <1>6, <2>3
<1>11. ASSUME NEW f \in Updates!Flows, Updates!Arm(f) PROVE TimerInv'
  <2>1. /\ UNCHANGED mem /\ flow[f].at = "arm" /\ flow[f].arms \in BOOLEAN
        /\ timer' = IF ~flow[f].arms THEN timer
                    ELSE IF mem.on /\ mem.state # "blocked" THEN mem.next ELSE 0
    BY <1>0, <1>11 DEF Updates!Arm, Updates!Flow
  <2>2. flow[f].at \in Updates!Planning \ {"refresh"}
    BY <2>1 DEF Updates!Planning
  <2>3. IF flow[f].arms THEN mem.on /\ mem.state # "blocked" /\ Ahead(mem.next)
             ELSE ~mem.on \/ mem.state = "blocked"
    BY <2>2 DEF PlanInv
  <2>4. CASE ~flow[f].arms
    BY <1>7, <2>1, <2>3, <2>4
  <2>5. CASE flow[f].arms
    <3>1. timer' = mem.next /\ mem.next % 2 = 1
      BY <2>1, <2>3, <2>5 DEF Ahead
    <3>2. mem.next \in 0 .. MaxTime + 2 /\ MaxTime \in Nat
      BY <1>0 DEF Updates!Store, Updates!UpdateAssumption
    <3>3. timer' > 0
      BY <3>1, <3>2
    <3> QED BY <1>7, <3>3
  <2> QED BY <2>1, <2>4, <2>5
<1>12. CASE Updates!Crash
  <2>1. mem' = Updates!DefaultStore
    BY <1>12 DEF Updates!Crash
  <2> QED BY <1>7, <2>1 DEF Updates!DefaultStore
<1>13. CASE Updates!Boot
  <2>1. flow'["wake"].at = "schedule"
    BY <1>0, <1>13 DEF Updates!Boot, Updates!Resting
  <2> QED BY <2>1 DEF TimerInv, Pending, Wakes
<1>14. CASE Updates!Other \/ Updates!Tick \/ UNCHANGED autoVars
  BY <1>1, <1>14 DEF Updates!Other, Updates!Tick, Updates!LauncherSame, autoVars
<1>15. CASE AutoStep
  BY <1>2, <1>3, <1>5, <1>8, <1>9, <1>10, <1>11, <1>12, <1>13, <1>14, <1>15 DEF AutoStep
<1> QED BY <1>14, <1>15, StepsOfAuto

\* The invariant of the schedule is kept, together.
LEMMA ScheduleStep ==
    ASSUME Updates!UpdateAssumption, Updates!TypeOK, ScheduleInv, [Updates!Next]_autoVars
    PROVE  ScheduleInv'
<1>1. FlowInv /\ FlowInv'
  BY FlowStep DEF ScheduleInv
<1>2. ASSUME ~crossed' PROVE KeptInv'
  <2>1. ~crossed /\ ~Updates!Crossing'
    <3>1. ASSUME UNCHANGED autoVars PROVE ~crossed /\ ~Updates!Crossing'
      <4>1. ~crossed /\ ~Updates!Crossing
        BY <1>2, <3>1 DEF autoVars, ScheduleInv, KeptInv
      <4> QED BY <3>1, <4>1 DEF autoVars, Updates!Crossing, Updates!Planning
    <3>2. ASSUME Updates!Next PROVE ~crossed /\ ~Updates!Crossing'
      BY <1>2, <3>2 DEF Updates!Next
    <3> QED BY <3>1, <3>2
  <2>2. ~Updates!Crossing /\ EditInv /\ AttemptInv /\ PlanInv /\ TimerInv
    BY <2>1 DEF ScheduleInv, KeptInv
  <2>3. Alone
    BY <1>1, <2>2, OneWorks
  <2>4. Alone'
    <3>1. /\ \A f \in Updates!Flows : flow'[f].at \in {"load", "run"} => lock' = f
          /\ Asked'.at \in Updates!Planning => lock' = "ui"
          /\ Asked'.at # "schedule" /\ "wake" \in Updates!Flows /\ "ui" \in Updates!Flows
      BY <1>1 DEF FlowInv, Updates!Flows, Updates!Planning
    <3>2. Wakes'.at \in {"schedule"} \cup Updates!Planning /\ lock' # "wake" =>
             Asked'.at \notin Updates!Planning \cup {"load", "run"}
      BY <2>1 DEF Updates!Crossing, Wakes, Asked, Updates!Planning
    <3>3. Wakes' = flow'["wake"] /\ Asked' = flow'["ui"]
      BY DEF Wakes, Asked
    <3> QED BY <3>1, <3>2, <3>3 DEF Alone, Working, Updates!Planning
  <2>5. EditInv'
    BY <1>1, <2>2, <2>3, EditStep
  <2>6. AttemptInv'
    BY <1>1, <2>2, <2>3, AttemptStep
  <2>7. PlanInv'
    BY <1>1, <2>2, <2>3, <2>4, PlanStep
  <2>8. TimerInv'
    BY <1>1, <2>2, TimerStep
  <2> QED BY <2>1, <2>5, <2>6, <2>7, <2>8 DEF KeptInv
<1> QED BY <1>1, <1>2 DEF ScheduleInv

\* The Launcher has loaded the store an earlier session left.
LEMMA FirstSchedule == ASSUME Updates!UpdateAssumption, Updates!Init
                       PROVE  Updates!TypeOK /\ ScheduleInv
<1>1. now = 0 /\ MaxTime \in Nat /\ wish \in BOOLEAN
  BY DEF Updates!Init, Updates!UpdateAssumption
<1>2. Updates!NextRun(wish) \in {0, 1} /\ (wish => Updates!NextRun(wish) = 1)
      /\ (~wish => Updates!NextRun(wish) = 0)
  BY <1>1 DEF Updates!NextRun, Updates!NextDate
<1>3. /\ store.on = wish /\ store.next = Updates!NextRun(wish) /\ store.key = 0
      /\ store \in Updates!Store /\ store.state # "blocked"
  <2>1. /\ "idle" \in Updates!States /\ "scheduled" \in Updates!States /\ 0 \in Updates!Keys
        /\ Updates!NextRun(wish) \in 0 .. MaxTime + 2
    BY <1>1, <1>2 DEF Updates!States, Updates!Keys
  <2> QED BY <1>1, <2>1 DEF Updates!Init, Updates!Store
<1>4. /\ mem = store /\ timer = store.next /\ lock = "" /\ auto.at = "sleep" /\ command.at = "idle"
      /\ flow = [f \in Updates!Flows |-> Updates!Resting]
      /\ draft = [f \in Updates!Flows |-> Updates!DefaultStore] /\ temp = {} /\ crossed = FALSE
      /\ attempts = [w \in Updates!Windows |-> 0] /\ edits = 0 /\ crashes = 0
  BY DEF Updates!Init
<1>5. Updates!Resting \in Updates!Flow /\ Updates!DefaultStore \in Updates!Store
  BY <1>1 DEF Updates!Resting, Updates!Flow, Updates!Keys, Updates!DefaultStore, Updates!Store,
     Updates!States
<1>p. \A f \in Updates!Flows : flow[f].at = "idle" /\ flow[f].does = "run" /\ flow[f].key = 0
  BY <1>4 DEF Updates!Resting
<1>f. "wake" \in Updates!Flows /\ "ui" \in Updates!Flows
  BY DEF Updates!Flows
<1>6. Updates!TypeOK
  <2>0. timer \in {0, 1} /\ MaxEdits \in Nat /\ MaxCrashes \in Nat
    BY <1>2, <1>3, <1>4 DEF Updates!UpdateAssumption
  <2>1. Numbers /\ Stores /\ Counted
    <3>1. Numbers
      <4>1. timer \in 0 .. MaxTime + 2
        BY <1>1, <2>0
      <4>2. edits \in 0 .. MaxEdits /\ crashes \in 0 .. MaxCrashes
        <5>1. edits = 0 /\ crashes = 0
          BY <1>4
        <5> QED BY <2>0, <5>1
      <4>3. now \in 0 .. MaxTime
        BY <1>1
      <4> QED BY <4>1, <4>2, <4>3 DEF Numbers
    <3>2. Counted
      BY <1>4 DEF Counted
    <3> QED BY <1>1, <1>3, <1>4, <3>1, <3>2 DEF Stores
  <2>2. Places
    BY <1>4, <1>5 DEF Places, Updates!Flows
  <2>3. Cli
    BY <1>5 DEF Updates!Init, Cli
  <2>4. Files
    BY <1>4, <1>5 DEF Files
  <2> QED BY <1>4, <2>1, <2>2, <2>3, <2>4, TypeParts
<1>7. FlowInv
  BY <1>4, <1>p, <1>f DEF FlowInv, Wakes, Asked, Updates!Planning
<1>8. EditInv
  <2>1. ~Editing
    BY <1>p, <1>f DEF Editing, Asked, Updates!Planning
  <2> QED BY <1>3, <1>4, <1>p, <2>1 DEF EditInv
<1>9. AttemptInv
  <2>1. timer # 0 => timer = 1 /\ wish
    BY <1>1, <1>2, <1>3, <1>4
  <2>2. \A w \in Updates!Windows : attempts[w] = 0
    BY <1>4
  <2>3. timer # 0 => Ahead(timer)
    BY <2>1, <2>2 DEF Ahead
  <2>4. Wakes.at = "idle"
    BY <1>p, <1>f DEF Wakes
  <2>5. timer = mem.next /\ mem.on = wish /\ mem.state # "blocked"
    BY <1>3, <1>4
  <2>6. \A w \in Updates!Windows : attempts[w] <= 1 /\ ~(attempts[w] > 0)
    BY <2>2
  <2> QED BY <2>1, <2>3, <2>4, <2>5, <2>6 DEF AttemptInv
<1>10. PlanInv
  BY <1>p DEF PlanInv, Scheduling, Updates!Planning
<1>11. TimerInv
  <2>1. wish => timer = 1
    BY <1>2, <1>3, <1>4
  <2>2. mem.on = wish
    BY <1>3, <1>4
  <2> QED BY <2>1, <2>2 DEF TimerInv
<1>12. ~Updates!Crossing
  BY <1>p, <1>f DEF Updates!Crossing, Updates!Planning
<1> QED BY <1>6, <1>7, <1>8, <1>9, <1>10, <1>11, <1>12 DEF ScheduleInv, KeptInv

-----------------------------------------------------------------------------
(* The host: each part under its own invariant.  The operations know the    *)
(* order of the drain only where visitor addresses are not repaired.        *)

HostInv ==
    /\ LockInv
    /\ Ops!TypeOK /\ RestoreInv
    /\ part = "ops" => OrderInv /\ op.kind # "repair"
    /\ Updates!TypeOK /\ ScheduleInv

LEMMA HostFirst == HostInit => HostInv
<1> SUFFICES ASSUME HostInit PROVE HostInv
  OBVIOUS
<1>1. Init /\ Ops!Init /\ Updates!Init
  BY DEF HostInit
<1>2. LockInv
  BY <1>1, LockAssumption DEF Init, LockInv, TypeOK, OwnsFile
<1>3. Ops!TypeOK /\ OrderInv /\ RestoreInv
  BY <1>1, FirstStates, HostAssumption
<1>4. op.kind # "repair"
  BY <1>1 DEF Ops!Init, Ops!Idle
<1>5. Updates!TypeOK /\ ScheduleInv
  BY <1>1, FirstSchedule, HostAssumption
<1> QED BY <1>2, <1>3, <1>4, <1>5 DEF HostInv

\* In every step one part runs and the others rest.
LEMMA PartsStep ==
    ASSUME [HostNext]_allVars
    PROVE  /\ [Next]_vars /\ [Ops!Next]_opsVars /\ [Updates!Next]_autoVars
           /\ part' = part
           /\ part = "ops" => UNCHANGED opsVars \/ op'.kind # "repair"
BY DEF HostNext, allVars

LEMMA HostStep == HostInv /\ [HostNext]_allVars => HostInv'
<1> SUFFICES ASSUME HostInv, [HostNext]_allVars PROVE HostInv'
  OBVIOUS
<1>1. /\ [Next]_vars /\ [Ops!Next]_opsVars /\ [Updates!Next]_autoVars /\ part' = part
      /\ part = "ops" => UNCHANGED opsVars \/ op'.kind # "repair"
  BY PartsStep
<1>2. LockInv'
  BY <1>1, LockAssumption, LockTypeStep, OwnsStep DEF HostInv, LockInv
<1>3. Ops!TypeOK' /\ RestoreInv'
  BY <1>1, HostAssumption, OpsTypeStep, RestoreStep DEF HostInv
<1>4. ASSUME part' = "ops" PROVE OrderInv' /\ op'.kind # "repair"
  <2>1. OrderInv /\ op.kind # "repair" /\ Ops!TypeOK
    BY <1>1, <1>4 DEF HostInv
  <2>2. op'.kind # "repair"
    BY <1>1, <1>4, <2>1 DEF opsVars
  <2> QED BY <1>1, <2>1, <2>2, HostAssumption, OrderStep
<1>5. Updates!TypeOK' /\ ScheduleInv'
  <2>1. Updates!TypeOK'
    BY <1>1, HostAssumption, AutoTypeStep DEF HostInv, ScheduleInv
  <2>2. ScheduleInv'
    BY <1>1, HostAssumption, ScheduleStep DEF HostInv
  <2> QED BY <2>1, <2>2
<1> QED BY <1>2, <1>3, <1>4, <1>5 DEF HostInv

\* The invariant of the host, for every value of its constants.
THEOREM HostInvariance == HostSpec => []HostInv
<1>1. HostInv /\ [HostNext]_allVars => HostInv'
  BY HostStep
<1> QED BY <1>1, HostFirst, PTL DEF HostSpec

\* The types of lock, operations and schedule hold in every state: no step leaves
\* activeOperation set beside a free lock, or a flow at a place it cannot hold
\* the lock in.
THEOREM HostTypes == HostSpec => []TypesOK
<1>1. HostInv => TypesOK
  BY DEF HostInv, LockInv, TypesOK
<1> QED BY <1>1, HostInvariance, PTL

\* Whatever command fails, wherever the Launcher dies, no service of any set of
\* services runs a release older than a migration that may have begun, and what
\* an operation reports is so - as long as visitor addresses are not repaired.
THEOREM NoOldImage == HostSpec => []NoOldImageOnNewSchema
<1>1. HostInv => NoOldImageOnNewSchema
  BY DEF HostInv, OrderInv, NoOldImageOnNewSchema
<1> QED BY <1>1, HostInvariance, PTL

\* A migration begins only when every service is down, and a restore that began
\* on whole data starts the services on whole data, whichever step fails.
THEOREM InOrder == HostSpec => StepsInOrder
<1>1. HostInv /\ [HostNext]_allVars
        => [(part = "ops" => Ops!MigratesDrained) /\ Ops!StartsWholeData]_opsVars
  <2> SUFFICES ASSUME HostInv, [HostNext]_allVars, ~UNCHANGED opsVars
               PROVE  (part = "ops" => Ops!MigratesDrained) /\ Ops!StartsWholeData
    OBVIOUS
  <2>1. [Ops!Next]_opsVars /\ (part = "ops" => op'.kind # "repair")
    BY PartsStep
  <2>2. Ops!StartsWholeData
    BY <2>1, HostAssumption, StartsOnWhole DEF HostInv
  <2>3. part = "ops" => Ops!MigratesDrained
    BY <2>1, HostAssumption, MigratesDown DEF HostInv
  <2> QED BY <2>2, <2>3
<1> QED BY <1>1, HostInvariance, PTL DEF HostSpec, StepsInOrder

\* On a host whose Launcher updates it, until the settings page is at work while the
\* timer or the start schedules without the lock: an edit of the schedule that was accepted
\* is what the file says once nothing is going on, no maintenance window is
\* attempted twice, and updates that are on and not blocked have a timer, for
\* every number of windows, edits and deaths.
THEOREM ScheduleKept == HostSpec => []ScheduleIsKept
<1>1. HostInv => ScheduleIsKept
  <2> SUFFICES ASSUME HostInv, ~crossed PROVE ScheduleIsKept
    BY DEF ScheduleIsKept, Updates!EditsSurvive, Updates!OncePerWindow, Updates!TimerIsArmed
  <2>0. EditInv /\ AttemptInv /\ TimerInv
    BY DEF HostInv, ScheduleInv, KeptInv
  <2>1. Updates!EditsSurvive
    <3>1. Updates!Quiet => ~Editing
      BY DEF Updates!Quiet, Editing, Asked, Updates!Flows, Updates!Planning
    <3> QED BY <2>0, <3>1 DEF EditInv, Updates!EditsSurvive
  <2>2. Updates!OncePerWindow
    BY <2>0 DEF AttemptInv, Updates!OncePerWindow
  <2>3. Updates!TimerIsArmed
    BY <2>0 DEF TimerInv, Pending, Wakes, Asked, Updates!Planning, Updates!TimerIsArmed
  <2> QED BY <2>1, <2>2, <2>3 DEF ScheduleIsKept
<1> QED BY <1>1, HostInvariance, PTL
=============================================================================
