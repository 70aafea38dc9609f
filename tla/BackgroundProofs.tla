-------------------------- MODULE BackgroundProofs --------------------------
(***************************************************************************)
(* Proofs about the background work of the backend - the audit outbox,     *)
(* automations, backups and restores - each as a part of MCBackground, for *)
(* any sets of processes, events, jobs and requests, any number of slots   *)
(* and any bounds.  At the end the outbox of mails, for any number of      *)
(* senders and messages: types, the row lock, the lifetime of the          *)
(* recipient, and the ledger of messages.                                  *)
(***************************************************************************)
EXTENDS MCBackground, TLAPS

-----------------------------------------------------------------------------
(* The audit outbox.  Erasure rests on the fence: whoever has read it keeps *)
(* it locked until what depends on it has committed (FenceRead), so that    *)
(* under a fence nothing in the outbox names the account (Redacted), and    *)
(* what is written to the audit database then does not either (Erased).     *)

Writing(e) == writer[e].at \in {"inline", "written", "staging"}

\* Who holds which lock: the fence its reader or an erasure about to set it, the
\* account's row an erasure between its check and its first commit.
LocksInv ==
    /\ \A e \in Events : (lock["fence"] = e) <=> Writing(e)
    /\ \A x \in Erasers : /\ (lock["guard"] = x) <=> eraser[x] # "idle"
                          /\ (lock["fence"] = x) <=> eraser[x] = "fencing"
                          /\ (lock["user"] = x) <=> eraser[x] \in {"checked", "fencing"}

\* What a writer has read of the fence is still so.
FenceRead == \A e \in Events : Writing(e) => writer[e].fenced = fence

\* Nothing in the outbox names a fenced account; what is not there names nobody.
Redacted == \A e \in Events : fence \/ row[e].at = "none" => ~row[e].names

\* An erasure that has checked the account works on a deleted one, and after its
\* first commit on a fenced one.
ErasureInv ==
    \A x \in Erasers : /\ eraser[x] \in {"checked", "fencing", "between"} => deleted
                       /\ eraser[x] = "between" => fence

Erased == erased => fence /\ \A e \in Events : record[e] # "named"

\* Before the first deletion there is nothing to erase, and what a worker has
\* written is there.
FirstLife == deletes = 0 =>
    /\ ~deleted /\ ~owed /\ ~fence /\ \A x \in Erasers : eraser[x] = "idle"
    /\ \A e \in Events : row[e].at = "delivered" => record[e] # "none"
    /\ \A w \in Workers : worker[w].at = "written" => record[worker[w].of] # "none"

\* A worker that is at work has its event.
WorkerHasEvent == \A w \in Workers : worker[w].at # "idle" => worker[w].of \in Events

AuditInv == /\ TypeOK /\ LocksInv /\ FenceRead /\ Redacted /\ ErasureInv /\ Erased
            /\ FirstLife /\ WorkerHasEvent

-----------------------------------------------------------------------------
(* The types of the audit outbox                                           *)

LEMMA AuditTypeStep == AuditAssumption /\ AuditInv /\ [Next]_vars => TypeOK'
<1> SUFFICES ASSUME AuditAssumption, TypeOK, WorkerHasEvent, LocksInv, [Next]_vars PROVE TypeOK'
  BY DEF AuditInv
<1> USE DEF TypeOK, AuditAssumption, Account
<1>1. CASE UNCHANGED vars
  BY <1>1 DEF vars
<1>2. ASSUME NEW e \in Events, NEW how \in {"inline", "staging"}, Fence(e, how) PROVE TypeOK'
  <2>1. writer' \in [Events -> [at : {"idle", "inline", "written", "staging", "done"},
                                fenced : BOOLEAN]]
    BY <1>2 DEF Fence
  <2>2. /\ lock' \in [{"fence", "guard", "user"} -> Events \cup Erasers \cup {None}]
        /\ lock'["guard"] = lock["guard"]
    BY <1>2 DEF Fence
  <2> QED BY <1>2, <2>1, <2>2 DEF Fence
<1>3. ASSUME NEW e \in Events, WriteInline(e) PROVE TypeOK'
  BY <1>3 DEF WriteInline
<1>4. ASSUME NEW e \in Events, EndInline(e) PROVE TypeOK'
  BY <1>4 DEF EndInline, Unfenced
<1>5. ASSUME NEW e \in Events, NEW c \in BOOLEAN, Stage(e, c) PROVE TypeOK'
  BY <1>5 DEF Stage, Unfenced
<1>6. ASSUME NEW w \in Workers, NEW e \in Events, Lock(w, e) PROVE TypeOK'
  BY <1>6 DEF Lock
<1>7. ASSUME NEW w \in Workers, Deliver(w) PROVE TypeOK'
  <2>1. worker[w].of \in Events
    BY <1>7 DEF Deliver, WorkerHasEvent
  <2>2. record' \in [Events -> {"none", "named", "neutral"}]
    BY <1>7, <2>1 DEF Deliver
  <2> QED BY <1>7, <2>2 DEF Deliver
<1>8. ASSUME NEW w \in Workers, EndDeliver(w) PROVE TypeOK'
  BY <1>8 DEF EndDeliver, Resting
<1>9. ASSUME NEW x \in Erasers, Guard(x) PROVE TypeOK'
  BY <1>9 DEF Guard
<1>10. ASSUME NEW x \in Erasers, Check(x) PROVE TypeOK'
  <2>1. CASE deleted
    <3>1. /\ lock' \in [{"fence", "guard", "user"} -> Events \cup Erasers \cup {None}]
          /\ lock'["guard"] = lock["guard"]
      BY <1>10, <2>1 DEF Check
    <3> QED BY <1>10, <2>1, <3>1 DEF Check
  <2>2. CASE ~deleted
    <3>1. /\ lock' \in [{"fence", "guard", "user"} -> Events \cup Erasers \cup {None}]
          /\ lock'["guard"] = None
      BY <1>10, <2>2 DEF Check
    <3>2. lock["guard"] = x
      BY <1>10 DEF Check
    <3>3. eraser' = [eraser EXCEPT ![x] = "idle"]
      BY <1>10, <2>2 DEF Check
    <3>4. \A y \in Erasers : eraser'[y] = "idle"
      BY <3>2, <3>3
    <3>5. \A y \in Erasers : (lock'["guard"] = y) = (eraser'[y] # "idle")
      BY <3>1, <3>4
    <3> QED BY <1>10, <2>2, <3>1, <3>3, <3>5 DEF Check
  <2> QED BY <2>1, <2>2
<1>11. ASSUME NEW x \in Erasers, LockFence(x) PROVE TypeOK'
  BY <1>11 DEF LockFence
<1>12. ASSUME NEW x \in Erasers, Redact(x) PROVE TypeOK'
  BY <1>12 DEF Redact
<1>13. ASSUME NEW x \in Erasers, Delete(x) PROVE TypeOK'
  BY <1>13 DEF Delete
<1>14. CASE DeleteAccount
  BY <1>14 DEF DeleteAccount
<1>15. CASE RestoreAccount
  BY <1>15 DEF RestoreAccount
<1>16. CASE Crash
  <2>1. ASSUME NEW e \in Events, Unfenced(e), writer' = [writer EXCEPT ![e].at = "done"],
               UNCHANGED <<worker, eraser>>
        PROVE  TypeOK'
    BY <1>16, <2>1 DEF Crash, Unfenced
  <2>2. ASSUME NEW w \in Workers, worker' = [worker EXCEPT ![w] = Resting],
               UNCHANGED <<lock, writer, eraser>>
        PROVE  TypeOK'
    BY <1>16, <2>2 DEF Crash, Resting
  <2>3. ASSUME NEW x \in Erasers, eraser[x] # "idle", eraser' = [eraser EXCEPT ![x] = "idle"],
               lock' = [l \in DOMAIN lock |-> IF lock[l] = x THEN None ELSE lock[l]],
               UNCHANGED <<writer, worker>>
        PROVE  TypeOK'
    <3>1. \A y \in Erasers : (lock'["guard"] = y) = (eraser'[y] # "idle")
      <4>1. lock["guard"] = x
        BY <2>3
      <4>2. lock'["guard"] = None
        BY <2>3, <4>1
      <4>3. \A y \in Erasers : eraser'[y] = "idle"
        BY <2>3, <4>1
      <4> QED BY <4>2, <4>3
    <3>2. lock' \in [{"fence", "guard", "user"} -> Events \cup Erasers \cup {None}]
      BY <2>3
    <3> QED BY <1>16, <2>3, <3>1, <3>2 DEF Crash
  <2> QED BY <1>16, <2>1, <2>2, <2>3 DEF Crash
<1> QED BY <1>1, <1>2, <1>3, <1>4, <1>5, <1>6, <1>7, <1>8, <1>9, <1>10, <1>11, <1>12, <1>13,
           <1>14, <1>15, <1>16 DEF Next, Write, Erase

-----------------------------------------------------------------------------
(* The locks                                                               *)

LEMMA LocksStep == AuditAssumption /\ AuditInv /\ [Next]_vars => LocksInv'
<1> SUFFICES ASSUME AuditAssumption, TypeOK, LocksInv, [Next]_vars PROVE LocksInv'
  BY DEF AuditInv
<1> USE DEF TypeOK, AuditAssumption, LocksInv, Writing
<1>0. ASSUME UNCHANGED <<lock, writer, eraser>> PROVE LocksInv'
  BY <1>0
<1>1. CASE UNCHANGED vars
  BY <1>0, <1>1 DEF vars
<1>2. ASSUME NEW e \in Events, NEW how \in {"inline", "staging"}, Fence(e, how) PROVE LocksInv'
  <2>1. CASE writer' = [writer EXCEPT ![e].at = "done"] /\ UNCHANGED lock
    <3>1. \A f \in Events : Writing(f)' <=> Writing(f)
      BY <1>2, <2>1 DEF Fence
    <3> QED BY <1>2, <2>1, <3>1 DEF Fence
  <2>2. CASE /\ writer' = [writer EXCEPT ![e] = [at |-> how, fenced |-> fence]]
             /\ lock' = [lock EXCEPT !["fence"] = e]
    <3>1. \A f \in Events : Writing(f)' <=> (f = e \/ Writing(f))
      BY <2>2
    <3>2. (\A f \in Events : ~Writing(f)) /\ (\A x \in Erasers : eraser[x] # "fencing")
      BY <1>2 DEF Fence
    <3> QED BY <1>2, <2>2, <3>1, <3>2 DEF Fence
  <2> QED BY <1>2, <2>1, <2>2 DEF Fence
<1>3. ASSUME NEW e \in Events, WriteInline(e) PROVE LocksInv'
  BY <1>3 DEF WriteInline
<1>4. ASSUME NEW e \in Events, Writing(e), Unfenced(e), UNCHANGED eraser,
             writer' = [writer EXCEPT ![e].at = "done"]
      PROVE  LocksInv'
  <2>1. lock' = [lock EXCEPT !["fence"] = None]
    BY <1>4 DEF Unfenced
  <2>2. \A f \in Events : ~Writing(f)'
    BY <1>4
  <2>3. \A x \in Erasers : eraser[x] # "fencing"
    BY <1>4
  <2> QED BY <1>4, <2>1, <2>2, <2>3
<1>5. ASSUME NEW x \in Erasers, Guard(x) PROVE LocksInv'
  BY <1>5 DEF Guard
<1>6. ASSUME NEW x \in Erasers, Check(x) PROVE LocksInv'
  BY <1>6 DEF Check
<1>7. ASSUME NEW x \in Erasers, LockFence(x) PROVE LocksInv'
  BY <1>7 DEF LockFence
<1>8. ASSUME NEW x \in Erasers, Redact(x) PROVE LocksInv'
  BY <1>8 DEF Redact
<1>9. ASSUME NEW x \in Erasers, Delete(x) PROVE LocksInv'
  BY <1>9 DEF Delete
<1>10. ASSUME NEW x \in Erasers, eraser[x] # "idle", eraser' = [eraser EXCEPT ![x] = "idle"],
              lock' = [l \in DOMAIN lock |-> IF lock[l] = x THEN None ELSE lock[l]],
              UNCHANGED writer
       PROVE  LocksInv'
  BY <1>10
<1>11. CASE Crash
  BY <1>0, <1>4, <1>10, <1>11 DEF Crash
<1>12. ASSUME NEW e \in Events, EndInline(e) PROVE LocksInv'
  BY <1>4, <1>12 DEF EndInline
<1>13. ASSUME NEW e \in Events, NEW c \in BOOLEAN, Stage(e, c) PROVE LocksInv'
  BY <1>4, <1>13 DEF Stage
<1>14. ASSUME NEW w \in Workers, (\E e \in Events : Lock(w, e)) \/ Deliver(w) \/ EndDeliver(w)
       PROVE  LocksInv'
  BY <1>0, <1>14 DEF Lock, Deliver, EndDeliver
<1>15. CASE DeleteAccount \/ RestoreAccount
  BY <1>0, <1>15 DEF DeleteAccount, RestoreAccount
<1> QED BY <1>1, <1>2, <1>3, <1>5, <1>6, <1>7, <1>8, <1>9, <1>11, <1>12, <1>13, <1>14, <1>15
        DEF Next, Write, Erase

-----------------------------------------------------------------------------
(* The fence and what depends on it                                        *)

\* Nobody sets or lifts a fence that somebody has read.
LEMMA FenceReadStep == AuditAssumption /\ AuditInv /\ [Next]_vars => FenceRead'
<1> SUFFICES ASSUME AuditAssumption, TypeOK, LocksInv, FenceRead, [Next]_vars PROVE FenceRead'
  BY DEF AuditInv
<1> USE DEF TypeOK, AuditAssumption, FenceRead, Writing
<1>0. ASSUME UNCHANGED <<writer, fence>> PROVE FenceRead'
  BY <1>0
<1>1. CASE UNCHANGED vars
  BY <1>0, <1>1 DEF vars
<1>2. ASSUME NEW e \in Events, NEW how \in {"inline", "staging"}, Fence(e, how) PROVE FenceRead'
  <2>1. CASE writer' = [writer EXCEPT ![e].at = "done"]
    BY <1>2, <2>1 DEF Fence, Account
  <2>2. CASE writer' = [writer EXCEPT ![e] = [at |-> how, fenced |-> fence]]
    <3>1. writer'[e].fenced = fence /\ \A f \in Events : f # e => writer'[f] = writer[f]
      BY <2>2
    <3> QED BY <1>2, <3>1 DEF Fence, Account
  <2> QED BY <1>2, <2>1, <2>2 DEF Fence
<1>3. ASSUME NEW e \in Events, WriteInline(e) PROVE FenceRead'
  BY <1>3 DEF WriteInline, Account
<1>4. ASSUME NEW e \in Events, UNCHANGED fence, writer' = [writer EXCEPT ![e].at = "done"]
      PROVE  FenceRead'
  BY <1>4
<1>5. ASSUME NEW x \in Erasers, Redact(x) PROVE FenceRead'
  BY <1>5 DEF Redact, LocksInv
<1>6. CASE RestoreAccount
  <2>1. \A e \in Events : ~Writing(e)
    BY <1>6 DEF RestoreAccount, LocksInv
  <2> QED BY <1>6, <2>1 DEF RestoreAccount
<1>7. ASSUME NEW e \in Events, EndInline(e) PROVE FenceRead'
  BY <1>4, <1>7 DEF EndInline, Account
<1>8. ASSUME NEW e \in Events, NEW c \in BOOLEAN, Stage(e, c) PROVE FenceRead'
  BY <1>4, <1>8 DEF Stage, Account
<1>9. CASE Crash
  BY <1>0, <1>4, <1>9 DEF Crash, Account
<1>10. ASSUME NEW w \in Workers, (\E e \in Events : Lock(w, e)) \/ Deliver(w) \/ EndDeliver(w)
       PROVE  FenceRead'
  BY <1>0, <1>10 DEF Lock, Deliver, EndDeliver, Account
<1>11. ASSUME NEW x \in Erasers, Guard(x) \/ Check(x) \/ LockFence(x) \/ Delete(x) PROVE FenceRead'
  BY <1>0, <1>11 DEF Guard, Check, LockFence, Delete, Account
<1>12. CASE DeleteAccount
  BY <1>0, <1>12 DEF DeleteAccount
<1> QED BY <1>1, <1>2, <1>3, <1>5, <1>6, <1>7, <1>8, <1>9, <1>10, <1>11, <1>12
        DEF Next, Write, Erase

\* A row that is staged under a fence names nobody.
LEMMA RedactedStep == AuditAssumption /\ AuditInv /\ [Next]_vars => Redacted'
<1> SUFFICES ASSUME AuditAssumption, TypeOK, FenceRead, WorkerHasEvent, Redacted, [Next]_vars
             PROVE  Redacted'
  BY DEF AuditInv
<1> USE DEF TypeOK, AuditAssumption, Redacted
<1>0. ASSUME UNCHANGED <<row, fence>> PROVE Redacted'
  BY <1>0
<1>1. CASE UNCHANGED vars
  BY <1>0, <1>1 DEF vars
<1>2. ASSUME NEW e \in Events, NEW c \in BOOLEAN, Stage(e, c) PROVE Redacted'
  <2>1. fence' = fence /\ (writer[e].fenced = fence)
    BY <1>2 DEF Stage, Account, FenceRead, Writing
  <2>2. \A f \in Events : f # e => row'[f] = row[f]
    BY <1>2 DEF Stage
  <2>3. \/ row'[e] = row[e]
        \/ row'[e] = [at |-> "cancelled", names |-> FALSE]
        \/ row'[e] = [at |-> "pending", names |-> ~fence]
    BY <1>2, <2>1 DEF Stage
  <2>4. (fence \/ row'[e].at = "none") => ~row'[e].names
    BY <2>3
  <2> QED BY <2>1, <2>2, <2>4
<1>3. ASSUME NEW w \in Workers, EndDeliver(w) PROVE Redacted'
  BY <1>3 DEF EndDeliver, Account
<1>4. ASSUME NEW x \in Erasers, Redact(x) PROVE Redacted'
  <2>1. \A e \in Events :
           row'[e] = IF row[e].at = "none" THEN row[e]
                     ELSE [at |-> IF e \in ActorEvents THEN "cancelled" ELSE row[e].at,
                       names |-> FALSE]
    BY <1>4 DEF Redact
  <2>2. ASSUME NEW e \in Events PROVE ~row'[e].names
    <3>1. CASE row[e].at = "none"
      BY <2>1, <3>1
    <3>2. CASE row[e].at # "none"
      <4>1. row'[e] = [at |-> IF e \in ActorEvents THEN "cancelled" ELSE row[e].at, names |-> FALSE]
        BY <2>1, <3>2
      <4> QED BY <4>1
    <3> QED BY <3>1, <3>2
  <2> QED BY <2>2
<1>5. CASE RestoreAccount
  BY <1>5 DEF RestoreAccount
<1>6. ASSUME NEW e \in Events, (\E how \in {"inline", "staging"} : Fence(e, how))
                               \/ WriteInline(e) \/ EndInline(e)
      PROVE  Redacted'
  BY <1>0, <1>6 DEF Fence, WriteInline, EndInline, Account
<1>7. ASSUME NEW w \in Workers, (\E e \in Events : Lock(w, e)) \/ Deliver(w) PROVE Redacted'
  BY <1>0, <1>7 DEF Lock, Deliver, Account
<1>8. ASSUME NEW x \in Erasers, Guard(x) \/ Check(x) \/ LockFence(x) \/ Delete(x) PROVE Redacted'
  BY <1>0, <1>8 DEF Guard, Check, LockFence, Delete, Account
<1>9. CASE DeleteAccount \/ Crash
  BY <1>0, <1>9 DEF DeleteAccount, Crash, Account
<1> QED BY <1>1, <1>2, <1>3, <1>4, <1>5, <1>6, <1>7, <1>8, <1>9 DEF Next, Write, Erase

-----------------------------------------------------------------------------
(* The erasures                                                            *)

\* An account cannot be restored under an erasure that has found it deleted.
LEMMA ErasureStep == AuditAssumption /\ AuditInv /\ [Next]_vars => ErasureInv'
<1> SUFFICES ASSUME AuditAssumption, TypeOK, LocksInv, ErasureInv, [Next]_vars PROVE ErasureInv'
  BY DEF AuditInv
<1> USE DEF TypeOK, AuditAssumption, ErasureInv
<1>0. ASSUME UNCHANGED <<eraser, deleted, fence>> PROVE ErasureInv'
  BY <1>0
<1>1. CASE UNCHANGED vars
  BY <1>0, <1>1 DEF vars
<1>2. ASSUME NEW x \in Erasers, Guard(x) PROVE ErasureInv'
  BY <1>2 DEF Guard, Account
<1>3. ASSUME NEW x \in Erasers, Check(x) PROVE ErasureInv'
  BY <1>3 DEF Check
<1>4. ASSUME NEW x \in Erasers, LockFence(x) PROVE ErasureInv'
  BY <1>4 DEF LockFence, Account
<1>5. ASSUME NEW x \in Erasers, Redact(x) PROVE ErasureInv'
  BY <1>5 DEF Redact
<1>6. ASSUME NEW x \in Erasers, UNCHANGED <<deleted, fence>>,
             eraser' = [eraser EXCEPT ![x] = "idle"]
      PROVE  ErasureInv'
  BY <1>6
<1>7. CASE DeleteAccount
  BY <1>7 DEF DeleteAccount
<1>8. CASE RestoreAccount
  <2>1. \A x \in Erasers : eraser[x] = "idle"
    BY <1>8 DEF RestoreAccount, LocksInv
  <2> QED BY <1>8, <2>1 DEF RestoreAccount
<1>9. CASE Crash
  BY <1>0, <1>6, <1>9 DEF Crash, Account
<1>10. ASSUME NEW x \in Erasers, Delete(x) PROVE ErasureInv'
  BY <1>6, <1>10 DEF Delete
<1>11. ASSUME NEW e \in Events, Write(e) PROVE ErasureInv'
  BY <1>0, <1>11 DEF Write, Fence, WriteInline, EndInline, Stage, Account
<1>12. ASSUME NEW w \in Workers, (\E e \in Events : Lock(w, e)) \/ Deliver(w) \/ EndDeliver(w)
       PROVE  ErasureInv'
  BY <1>0, <1>12 DEF Lock, Deliver, EndDeliver, Account
<1> QED BY <1>1, <1>2, <1>3, <1>4, <1>5, <1>7, <1>8, <1>9, <1>10, <1>11, <1>12 DEF Next, Erase

\* What is written to the audit database after an erasure names nobody: its
\* writer has read the fence, or took it from a redacted row.
LEMMA ErasedStep == AuditAssumption /\ AuditInv /\ [Next]_vars => Erased'
<1> SUFFICES ASSUME AuditAssumption, TypeOK, FenceRead, Redacted, ErasureInv, WorkerHasEvent,
                    Erased,
                    [Next]_vars
             PROVE  Erased'
  BY DEF AuditInv
<1> USE DEF TypeOK, AuditAssumption, Erased
<1>0. ASSUME UNCHANGED <<record, fence, erased>> PROVE Erased'
  BY <1>0
<1>1. CASE UNCHANGED vars
  BY <1>0, <1>1 DEF vars
<1>2. ASSUME NEW e \in Events, WriteInline(e) PROVE Erased'
  <2>1. UNCHANGED <<fence, erased>> /\ writer[e].fenced = fence
    BY <1>2 DEF WriteInline, FenceRead, Writing, Account
  <2>2. \A f \in Events :
           record'[f] = IF f = e THEN IF fence THEN "neutral" ELSE "named" ELSE record[f]
    BY <1>2, <2>1 DEF WriteInline
  <2> QED BY <2>1, <2>2
<1>3. ASSUME NEW w \in Workers, Deliver(w) PROVE Erased'
  <2>1. UNCHANGED <<fence, erased>> /\ worker[w].of \in Events
    BY <1>3 DEF Deliver, WorkerHasEvent, Account
  <2>2. fence => ~row[worker[w].of].names
    BY <2>1 DEF Redacted
  <2>3. \/ record' = record
        \/ record' = [record EXCEPT ![worker[w].of] =
                         IF row[worker[w].of].names THEN "named" ELSE "neutral"]
    BY <1>3 DEF Deliver
  <2>4. \A f \in Events : fence /\ record[f] # "named" => record'[f] # "named"
    BY <2>1, <2>2, <2>3
  <2> QED BY <2>1, <2>4
<1>4. ASSUME NEW x \in Erasers, Delete(x) PROVE Erased'
  <2>1. fence'
    BY <1>4 DEF Delete, ErasureInv
  <2>2. \A e \in Events : record'[e] # "named"
    BY <1>4 DEF Delete
  <2> QED BY <2>1, <2>2
<1>5. ASSUME NEW x \in Erasers, Redact(x) PROVE Erased'
  BY <1>5 DEF Redact
<1>6. CASE RestoreAccount
  BY <1>6 DEF RestoreAccount
<1>7. ASSUME NEW e \in Events, (\E how \in {"inline", "staging"} : Fence(e, how))
                               \/ EndInline(e) \/ (\E c \in BOOLEAN : Stage(e, c))
      PROVE  Erased'
  BY <1>0, <1>7 DEF Fence, EndInline, Stage, Account
<1>8. ASSUME NEW w \in Workers, (\E e \in Events : Lock(w, e)) \/ EndDeliver(w) PROVE Erased'
  BY <1>0, <1>8 DEF Lock, EndDeliver, Account
<1>9. ASSUME NEW x \in Erasers, Guard(x) \/ Check(x) \/ LockFence(x) PROVE Erased'
  BY <1>0, <1>9 DEF Guard, Check, LockFence, Account
<1>10. CASE DeleteAccount \/ Crash
  BY <1>0, <1>10 DEF DeleteAccount, Crash, Account
<1> QED BY <1>1, <1>2, <1>3, <1>4, <1>5, <1>6, <1>7, <1>8, <1>9, <1>10 DEF Next, Write, Erase

-----------------------------------------------------------------------------
(* Delivery before the first deletion                                      *)

\* A worker's event is one of the events.
LEMMA WorkerHasEventStep == AuditAssumption /\ AuditInv /\ [Next]_vars => WorkerHasEvent'
<1> SUFFICES ASSUME AuditAssumption, TypeOK, WorkerHasEvent, [Next]_vars PROVE WorkerHasEvent'
  BY DEF AuditInv
<1> USE DEF TypeOK, AuditAssumption, WorkerHasEvent
<1>0. ASSUME UNCHANGED worker PROVE WorkerHasEvent'
  BY <1>0
<1>1. CASE UNCHANGED vars
  BY <1>0, <1>1 DEF vars
<1>2. ASSUME NEW w \in Workers, NEW e \in Events, Lock(w, e) PROVE WorkerHasEvent'
  BY <1>2 DEF Lock
<1>3. ASSUME NEW w \in Workers, Deliver(w) PROVE WorkerHasEvent'
  BY <1>3 DEF Deliver
<1>4. ASSUME NEW w \in Workers, worker' = [worker EXCEPT ![w] = Resting] PROVE WorkerHasEvent'
  BY <1>4 DEF Resting
<1>5. ASSUME NEW w \in Workers, EndDeliver(w) PROVE WorkerHasEvent'
  BY <1>4, <1>5 DEF EndDeliver
<1>6. CASE Crash
  BY <1>0, <1>4, <1>6 DEF Crash
<1>7. ASSUME NEW e \in Events, Write(e) PROVE WorkerHasEvent'
  BY <1>0, <1>7 DEF Write, Fence, WriteInline, EndInline, Stage
<1>8. ASSUME NEW x \in Erasers, Erase(x) PROVE WorkerHasEvent'
  BY <1>0, <1>8 DEF Erase, Guard, Check, LockFence, Redact, Delete
<1>9. CASE DeleteAccount \/ RestoreAccount
  BY <1>0, <1>9 DEF DeleteAccount, RestoreAccount
<1> QED BY <1>1, <1>2, <1>3, <1>5, <1>6, <1>7, <1>8, <1>9 DEF Next

\* Without a deletion nothing leaves the audit database, and a worker marks its
\* row delivered after the record is there.
LEMMA FirstLifeStep == AuditAssumption /\ AuditInv /\ [Next]_vars => FirstLife'
<1> SUFFICES ASSUME AuditAssumption, TypeOK, WorkerHasEvent, FirstLife, [Next]_vars, deletes' = 0
             PROVE  FirstLife'
  BY DEF AuditInv, FirstLife
<1> USE DEF TypeOK, AuditAssumption, FirstLife
<1>a. deletes = 0
  BY DEF Next, vars, Write, Erase, Fence, WriteInline, EndInline, Stage, Lock, Deliver, EndDeliver,
         Guard, Check, LockFence, Redact, Delete, DeleteAccount, RestoreAccount, Crash, Account
<1>0. ASSUME UNCHANGED <<deleted, owed, fence, eraser, worker, row, record>> PROVE FirstLife'
  BY <1>a, <1>0
<1>1. CASE UNCHANGED vars
  BY <1>0, <1>1 DEF vars
<1>2. ASSUME NEW e \in Events, WriteInline(e) PROVE FirstLife'
  <2>1. \A f \in Events : record[f] # "none" => record'[f] # "none"
    BY <1>2 DEF WriteInline
  <2> QED BY <1>a, <1>2, <2>1 DEF WriteInline, Account, WorkerHasEvent
<1>3. ASSUME NEW e \in Events, NEW c \in BOOLEAN, Stage(e, c) PROVE FirstLife'
  <2>1. \A f \in Events : row'[f].at = "delivered" => row[f].at = "delivered"
    BY <1>3 DEF Stage
  <2> QED BY <1>a, <1>3, <2>1 DEF Stage, Account
<1>4. ASSUME NEW w \in Workers, NEW e \in Events, Lock(w, e) PROVE FirstLife'
  BY <1>a, <1>4 DEF Lock, Account
<1>5. ASSUME NEW w \in Workers, Deliver(w) PROVE FirstLife'
  <2>1. worker[w].of \in Events
    BY <1>5 DEF Deliver, WorkerHasEvent
  <2>2. \A f \in Events : record[f] # "none" => record'[f] # "none"
    BY <1>5, <2>1 DEF Deliver
  <2>3. record'[worker[w].of] # "none"
    BY <1>5, <2>1 DEF Deliver
  <2>4. \A v \in Workers : worker'[v].at = "written" =>
           worker'[v].of = worker[v].of /\ (v = w \/ worker[v].at = "written")
    BY <1>5 DEF Deliver
  <2> QED BY <1>a, <1>5, <2>2, <2>3, <2>4 DEF Deliver, Account, WorkerHasEvent
<1>6. ASSUME NEW w \in Workers, EndDeliver(w) PROVE FirstLife'
  <2>1. worker[w].of \in Events /\ record[worker[w].of] # "none"
    BY <1>a, <1>6 DEF EndDeliver, WorkerHasEvent
  <2>2. \A f \in Events : row'[f].at = "delivered" => row[f].at = "delivered" \/ f = worker[w].of
    BY <1>6, <2>1 DEF EndDeliver
  <2>3. \A v \in Workers : worker'[v].at = "written" => worker'[v] = worker[v]
    BY <1>6 DEF EndDeliver, Resting
  <2> QED BY <1>a, <1>6, <2>1, <2>2, <2>3 DEF EndDeliver, Account
<1>7. CASE Crash
  <2>1. ASSUME NEW w \in Workers, worker' = [worker EXCEPT ![w] = Resting],
               UNCHANGED <<Account, row, record, eraser>>
        PROVE  FirstLife'
    <3>1. \A v \in Workers : worker'[v].at = "written" => worker'[v] = worker[v]
      BY <2>1 DEF Resting
    <3> QED BY <1>a, <2>1, <3>1 DEF Account
  <2>2. ASSUME NEW x \in Erasers, eraser[x] # "idle" PROVE FALSE
    BY <1>a, <2>2
  <2> QED BY <1>0, <1>7, <2>1, <2>2 DEF Crash, Account
<1>8. ASSUME NEW x \in Erasers, Erase(x) PROVE FALSE
  BY <1>a, <1>8 DEF Erase, Guard, Check, LockFence, Redact, Delete
<1>9. CASE DeleteAccount \/ RestoreAccount
  BY <1>a, <1>9 DEF DeleteAccount, RestoreAccount
<1>10. ASSUME NEW e \in Events, (\E how \in {"inline", "staging"} : Fence(e, how)) \/ EndInline(e)
       PROVE  FirstLife'
  BY <1>0, <1>10 DEF Fence, EndInline, Account
<1> QED BY <1>1, <1>2, <1>3, <1>4, <1>5, <1>6, <1>7, <1>8, <1>9, <1>10 DEF Next, Write

-----------------------------------------------------------------------------
(* The theorems                                                            *)

\* The invariant holds before anything has happened.
LEMMA AuditFirst == AuditAssumption /\ Init => AuditInv
<1> SUFFICES ASSUME AuditAssumption, Init PROVE AuditInv
  OBVIOUS
<1> USE DEF Init, AuditAssumption, Resting
<1>1. TypeOK
  <2>1. /\ lock \in [{"fence", "guard", "user"} -> Events \cup Erasers \cup {None}]
        /\ \A x \in Erasers : lock["guard"] # x /\ eraser[x] = "idle"
    OBVIOUS
  <2>2. /\ writer \in [Events -> [at : {"idle", "inline", "written", "staging", "done"},
                                 fenced : BOOLEAN]]
        /\ row \in [Events -> [at : {"none", "pending", "delivered", "cancelled"}, names : BOOLEAN]]
        /\ worker \in [Workers -> [at : {"idle", "locked", "written"}, of : Events \cup {None}]]
    OBVIOUS
  <2>3. record \in [Events -> {"none", "named", "neutral"}]
    OBVIOUS
  <2>4. \A x \in Erasers : (lock["guard"] = x) = (eraser[x] # "idle")
    BY <2>1
  <2>5. eraser \in [Erasers -> {"idle", "guarded", "checked", "fencing", "between"}]
    OBVIOUS
  <2>6. {deleted, fence, owed, erased} \subseteq BOOLEAN
    OBVIOUS
  <2>7. deletes \in 0 .. MaxDeletes /\ crashes \in 0 .. MaxCrashes
    OBVIOUS
  <2> HIDE DEF Init
  <2> QED BY <2>1, <2>2, <2>3, <2>4, <2>5, <2>6, <2>7 DEF TypeOK
<1>2. LocksInv
  BY DEF LocksInv, Writing
<1>3. FenceRead /\ Redacted /\ ErasureInv /\ Erased /\ WorkerHasEvent
  BY DEF FenceRead, Writing, Redacted, ErasureInv, Erased, WorkerHasEvent
<1>4. FirstLife
  BY DEF FirstLife
<1> QED BY <1>1, <1>2, <1>3, <1>4 DEF AuditInv

\* Every step of a writer, a worker, an erasure or the account keeps it.
LEMMA AuditStep == AuditAssumption /\ AuditInv /\ [Next]_vars => AuditInv'
BY AuditTypeStep, LocksStep, FenceReadStep, RedactedStep, ErasureStep, ErasedStep, FirstLifeStep,
   WorkerHasEventStep DEF AuditInv

\* Every variable stays in its domain, and the guard is its eraser's.
THEOREM AuditTypes == ASSUME AuditAssumption PROVE Spec => []TypeOK
<1>1. Init => AuditInv
  BY AuditFirst
<1>2. AuditInv /\ [Next]_vars => AuditInv'
  BY AuditStep
<1>3. AuditInv => TypeOK
  BY DEF AuditInv
<1> QED BY <1>1, <1>2, <1>3, PTL DEF Spec

\* An erased account is named again by neither database until it is restored, no
\* account is restored between the two commits of an erasure, and before the first
\* deletion what counts as delivered is in the audit database.
THEOREM ErasureIsHeld ==
    ASSUME AuditAssumption
    PROVE  Spec => []ErasureHolds
<1>1. Init => AuditInv
  BY AuditFirst
<1>2. AuditInv /\ [Next]_vars => AuditInv'
  BY AuditStep
<1>3. AuditInv => ErasureHolds
  BY DEF AuditInv, ErasureHolds, ErasedStaysErased, NoRestoreBetween, DeliveredIsRecorded, Erased,
    Redacted,
         ErasureInv, FirstLife
<1> QED BY <1>1, <1>2, <1>3, PTL DEF Spec

-----------------------------------------------------------------------------
(* Automations.                                                            *)

\* Without ageing claims, losses and failing neighbours there are steps less.
LEMMA PromptIsLate == ASSUME losses \in Nat, Prompt!Next PROVE Late!Next
<1>0. /\ Prompt!Slots = Late!Slots /\ Prompt!Counters = Late!Counters /\ Prompt!Users = Late!Users
      /\ Prompt!Waiting = Late!Waiting /\ Prompt!Free = Late!Free /\ Prompt!NoEdit = Late!NoEdit
      /\ Prompt!Seen = Late!Seen /\ Prompt!InUse = Late!InUse /\ Prompt!Between = Late!Between
  BY DEF Prompt!Slots, Late!Slots, Prompt!Counters, Late!Counters, Prompt!Users, Late!Users,
         Prompt!Waiting, Late!Waiting, Prompt!Free, Late!Free, Prompt!NoEdit, Late!NoEdit,
         Prompt!Nothing, Late!Nothing, Prompt!Seen, Late!Seen, Prompt!InUse, Late!InUse,
         Prompt!Between, Late!Between, Prompt!Takes, Late!Takes
<1>9. /\ Prompt!Counters' = Late!Counters' /\ Prompt!Users' = Late!Users'
      /\ Prompt!Planned <=> Late!Planned
  BY DEF Prompt!Counters, Late!Counters, Prompt!Users, Late!Users, Prompt!Planned, Late!Planned,
         Prompt!Slots, Late!Slots, Prompt!Taken, Late!Taken, Prompt!Takes, Late!Takes
<1>1. ASSUME NEW s \in Schedulers, Prompt!Pass(s) PROVE Late!Pass(s)
  <2>0. /\ Prompt!Ends(s) <=> Late!Ends(s)
        /\ Prompt!Released(s) <=> Late!Released(s)
    BY <1>0 DEF Prompt!Ends, Late!Ends, Prompt!Released, Late!Released
  <2>1. Prompt!Acquire(s) => Late!Acquire(s)
    BY <1>0, <1>9 DEF Prompt!Acquire, Late!Acquire
  <2>2. Prompt!Claim(s) => Late!Claim(s)
    BY <1>0, <1>9, <2>0 DEF Prompt!Claim, Late!Claim, Prompt!ClaimIf, Late!ClaimIf, Prompt!Due,
      Late!Due
  <2>3. ~Prompt!Reload(s)
    BY DEF Prompt!Reload
  <2>4. Prompt!Slotless(s) => Late!Slotless(s)
    BY <1>0, <1>9, <2>0 DEF Prompt!Slotless, Late!Slotless
  <2>5. Prompt!Fetch(s) => Late!Fetch(s)
    BY <1>0, <1>9, <2>0 DEF Prompt!Fetch, Late!Fetch
  <2>6. Prompt!Enqueue(s) => Late!Enqueue(s)
    BY <1>0, <1>9, <2>0 DEF Prompt!Enqueue, Late!Enqueue
  <2>7. Prompt!EnqueueFails(s) => Late!EnqueueFails(s)
    BY <1>0, <1>9, <2>0 DEF Prompt!EnqueueFails, Late!EnqueueFails
  <2>8. Prompt!Read(s) => Late!Read(s)
    BY <1>0, <1>9, <2>0 DEF Prompt!Read, Late!Read
  <2> QED BY <1>1, <2>1, <2>2, <2>3, <2>4, <2>5, <2>6, <2>7, <2>8 DEF Prompt!Pass, Late!Pass
<1>2. ASSUME NEW w \in Runners, Prompt!Work(w) PROVE Late!Work(w)
  <2>0. Prompt!Leaves(w) <=> Late!Leaves(w)
    BY <1>0 DEF Prompt!Leaves, Late!Leaves
  <2>1. \A n \in Prompt!Slots : Prompt!Begin(w, n) => Late!Begin(w, n)
    BY <1>0, <1>9 DEF Prompt!Begin, Late!Begin
  <2>2. Prompt!Execute(w) => Late!Execute(w)
    BY <1>0, <1>9 DEF Prompt!Execute, Late!Execute
  <2>3. Prompt!Look(w) => Late!Look(w)
    BY <1>0, <1>9, <2>0 DEF Prompt!Look, Late!Look
  <2>4. Prompt!Record(w) => Late!Record(w)
    BY <1>0, <1>9, <2>0 DEF Prompt!Record, Late!Record, Prompt!After, Late!After, Prompt!Saved,
      Late!Saved
  <2>5. Prompt!Release(w) => Late!Release(w)
    BY <1>0, <1>9, <2>0 DEF Prompt!Release, Late!Release
  <2> QED BY <1>0, <1>2, <2>1, <2>2, <2>3, <2>4, <2>5 DEF Prompt!Work, Late!Work
<1>3. /\ \A n \in 0 .. LastSlot : Prompt!Edit(n) => Late!Edit(n)
      /\ Prompt!Save => Late!Save
  BY <1>0, <1>9 DEF Prompt!Edit, Late!Edit, Prompt!Save, Late!Save, Prompt!Saved, Late!Saved
<1>4. \A n \in Prompt!Slots : /\ Prompt!JobExpires(n) => Late!JobExpires(n)
                              /\ Prompt!JobAbandoned(n) => Late!JobAbandoned(n)
  BY <1>0, <1>9 DEF Prompt!JobExpires, Late!JobExpires, Prompt!JobAbandoned, Late!JobAbandoned
<1>5. Prompt!Tick \/ Prompt!LockExpires => Late!Tick \/ Late!LockExpires
  BY <1>0, <1>9 DEF Prompt!Tick, Late!Tick, Prompt!LockExpires, Late!LockExpires
<1>6. Prompt!ClaimAges => Late!ClaimAges
  BY <1>0, <1>9 DEF Prompt!ClaimAges, Late!ClaimAges, Late!InUse
<1>7. losses \in Nat => ~Prompt!Crash
  BY DEF Prompt!Crash
<1> QED BY <1>0, <1>1, <1>2, <1>3, <1>4, <1>5, <1>6, <1>7 DEF Prompt!Next, Late!Next

\* What sessions read of the row and write to it are rows.
PlanRows == [slot : 0 .. LastSlot, claim : Late!Claims, active : BOOLEAN, old : BOOLEAN]

LEMMA SavedRows ==
    ASSUME Late!TypeOK
    PROVE  /\ Late!Seen \in Late!Columns
           /\ \A seen \in Late!Columns, n \in 0 .. LastSlot, a \in BOOLEAN :
                 Late!Saved(seen, n, a) \in PlanRows
<1>1. plan \in PlanRows /\ None \in Late!Claims
  BY DEF Late!TypeOK, PlanRows, Late!Claims
<1> QED BY <1>1 DEF PlanRows, Late!Seen, Late!Saved, Late!Columns

\* No step of schedulers, workers or users leaves the types.
LEMMA SlotTypeStep ==
    Late!SchedulerAssumption /\ Late!TypeOK /\ [Late!Next]_autoVars => Late!TypeOK'
<1>a. SUFFICES ASSUME Late!SchedulerAssumption, Late!TypeOK, [Late!Next]_autoVars
               PROVE  Late!TypeOK'
  OBVIOUS
<1> DEFINE Steps  == {"wait", "claim", "read", "claimed", "cleared"}
           Places == [Runners -> [at : {"idle", "begun", "ran", "record", "failed"},
                                  slot : 0 .. LastSlot, seen : Late!Columns]]
<1>0. /\ LastSlot \in Nat \ {0} /\ None \in Late!Claims /\ ~Late!NoEdit.saves
      /\ Late!Free \in [at : {"idle"}, slot : 0 .. LastSlot, seen : Late!Columns]
      /\ Late!NoEdit \in [saves : BOOLEAN, to : 0 .. LastSlot, seen : Late!Columns]
      /\ Late!Waiting \in [at : Steps, slot : 0 .. LastSlot, claim : Late!Claims]
  BY <1>a DEF Late!SchedulerAssumption, Late!Claims, Late!Columns, Late!Free, Late!NoEdit,
    Late!Waiting, Late!Nothing
<1>1. CASE UNCHANGED autoVars
  BY <1>a, <1>1 DEF autoVars, Late!TypeOK, Late!Slots, Late!Claims, Late!Columns
<1>2. ASSUME NEW s \in Schedulers, Late!Pass(s) PROVE Late!TypeOK'
  <2>0. /\ UNCHANGED <<clock, executor, ran, editor, again, edits, losses>>
        /\ failures' \in 0 .. MaxFailures
    BY <1>a, <1>2 DEF Late!Pass, Late!Acquire, Late!Claim, Late!ClaimIf, Late!Read, Late!Reload,
       Late!Slotless, Late!Fetch, Late!Enqueue, Late!EnqueueFails, Late!Counters, Late!Users,
       Late!SchedulerAssumption, Late!TypeOK
  <2>1. lead' \in Late!Claims
    BY <1>a, <1>0, <1>2 DEF Late!Pass, Late!Acquire, Late!Claim, Late!ClaimIf, Late!Read, Late!Reload,
       Late!Slotless, Late!Fetch, Late!Enqueue, Late!EnqueueFails, Late!Ends, Late!TypeOK, Late!Claims
  <2>2. plan' \in PlanRows
    <3>1. \/ plan' = plan \/ plan' = [plan EXCEPT !.claim = s, !.old = FALSE]
          \/ plan' = [plan EXCEPT !.claim = None, !.old = FALSE]
      BY <1>2 DEF Late!Pass, Late!Acquire, Late!Claim, Late!ClaimIf, Late!Read, Late!Reload,
         Late!Slotless, Late!Fetch, Late!Enqueue, Late!EnqueueFails, Late!Released
    <3> QED BY <1>a, <1>0, <3>1 DEF Late!TypeOK, PlanRows, Late!Claims
  <2>3. sched' \in [Schedulers -> [at : Steps, slot : 0 .. LastSlot, claim : Late!Claims]]
    <3>1. \/ \E x \in {"claim", "read", "cleared"} : sched' = [sched EXCEPT ![s].at = x]
          \/ sched' = [sched EXCEPT ![s] = Late!Waiting]
          \/ sched' = [sched EXCEPT ![s] = [at |-> "claimed", slot |-> plan.slot, claim |-> s]]
          \/ sched' = [sched EXCEPT ![s].slot = plan.slot, ![s].claim = plan.claim]
      BY <1>2 DEF Late!Pass, Late!Acquire, Late!Claim, Late!ClaimIf, Late!Read, Late!Reload,
         Late!Slotless, Late!Fetch, Late!Enqueue, Late!EnqueueFails, Late!Ends
    <3>2. plan.slot \in 0 .. LastSlot /\ plan.claim \in Late!Claims /\ s \in Late!Claims
      BY <1>a DEF Late!TypeOK, Late!Claims
    <3>3. sched \in [Schedulers -> [at : Steps, slot : 0 .. LastSlot, claim : Late!Claims]]
      BY <1>a DEF Late!TypeOK
    <3> QED BY <1>0, <3>1, <3>2, <3>3
  <2>4. run' \in [Late!Slots -> {"none", "queued", "started", "ended"}]
    BY <1>a, <1>2 DEF Late!Pass, Late!Acquire, Late!Claim, Late!ClaimIf, Late!Read, Late!Reload,
       Late!Slotless, Late!Fetch, Late!Enqueue, Late!EnqueueFails, Late!TypeOK
  <2>5. queued' = queued \/ queued' = [queued EXCEPT ![sched[s].slot] = @ + 1]
    BY <1>2 DEF Late!Pass, Late!Acquire, Late!Claim, Late!ClaimIf, Late!Read, Late!Reload,
       Late!Slotless, Late!Fetch, Late!Enqueue, Late!EnqueueFails
  <2>6. queued' \in [Late!Slots -> Nat]
    BY <1>a, <2>5 DEF Late!TypeOK
  <2> QED BY <1>a, <2>0, <2>1, <2>2, <2>3, <2>4, <2>6
    DEF Late!TypeOK, Late!Slots, PlanRows, Late!Claims, Late!Columns
<1>3. ASSUME NEW w \in Runners, NEW n \in Late!Slots, Late!Begin(w, n) PROVE Late!TypeOK'
  <2>1. /\ UNCHANGED <<clock, plan, lead, sched, ran, editor, again, edits, failures, losses>>
        /\ run' = run \/ run' = [run EXCEPT ![n] = "started"]
        /\ \/ executor' = executor
           \/ \E x \in {"begun", "failed"} :
                 executor' = [executor EXCEPT ![w].at = x, ![w].slot = n]
        /\ queued[n] > 0 /\ queued' = [queued EXCEPT ![n] = @ - 1]
    BY <1>3 DEF Late!Begin, Late!Counters, Late!Users
  <2>2. queued' \in [Late!Slots -> Nat]
    BY <1>a, <2>1 DEF Late!TypeOK
  <2>3. n \in 0 .. LastSlot
    BY <1>a DEF Late!Slots, Late!SchedulerAssumption
  <2>4. executor' \in Places
    BY <1>a, <2>1, <2>3 DEF Late!TypeOK
  <2> QED BY <1>a, <2>1, <2>2, <2>4 DEF Late!TypeOK, Late!Slots, Late!Claims, Late!Columns
<1>8. ASSUME NEW w \in Runners, Late!Execute(w) PROVE Late!TypeOK'
  <2>1. /\ UNCHANGED <<clock, plan, lead, sched, run, queued, editor, again, edits, losses>>
        /\ failures' \in 0 .. MaxFailures
        /\ \E to \in {"ran", "failed"} : executor' = [executor EXCEPT ![w].at = to]
        /\ ran' = ran \/ ran' = [ran EXCEPT ![executor[w].slot] = @ + 1]
    BY <1>a, <1>8 DEF Late!Execute, Late!TypeOK, Late!SchedulerAssumption, Late!Users
  <2>2. ran' \in [Late!Slots -> Nat]
    BY <1>a, <2>1 DEF Late!TypeOK
  <2>3. executor' \in Places
    BY <1>a, <2>1 DEF Late!TypeOK
  <2> QED BY <1>a, <2>1, <2>2, <2>3 DEF Late!TypeOK, Late!Slots, Late!Claims, Late!Columns
<1>9. ASSUME NEW w \in Runners, Late!Look(w) \/ Late!Record(w) \/ Late!Release(w)
      PROVE  Late!TypeOK'
  <2>1. /\ UNCHANGED <<clock, lead, sched, queued, ran, editor, edits, failures, losses>>
        /\ run' = run \/ run' = [run EXCEPT ![executor[w].slot] = "ended"]
        /\ \/ executor' = [executor EXCEPT ![w] = Late!Free]
           \/ executor' = [executor EXCEPT ![w].at = "record", ![w].seen = Late!Seen]
    BY <1>9 DEF Late!Look, Late!Record, Late!Release, Late!Leaves, Late!Counters, Late!Users
  <2>2. again' \in SUBSET Late!Slots
    BY <1>a, <1>9 DEF Late!Look, Late!Record, Late!Release, Late!Planned, Late!Users, Late!TypeOK
  <2>3. plan' \in PlanRows
    <3>1. CASE Late!Look(w) \/ Late!Release(w)
      <4>1. plan' = plan \/ plan' = [plan EXCEPT !.claim = None, !.old = FALSE]
        BY <3>1 DEF Late!Look, Late!Release
      <4> QED BY <1>a, <1>0, <4>1 DEF Late!TypeOK, PlanRows
    <3>2. CASE Late!Record(w)
      <4>1. executor[w].slot \in 0 .. LastSlot /\ executor[w].seen \in Late!Columns
        BY <1>a DEF Late!TypeOK
      <4>2. Late!After(executor[w].slot) \in 0 .. LastSlot
        BY <1>0, <4>1 DEF Late!After
      <4>3. (executor[w].seen.active /\ Late!After(executor[w].slot) # 0) \in BOOLEAN
        OBVIOUS
      <4> QED BY <1>a, <3>2, <4>1, <4>2, <4>3, SavedRows DEF Late!Record
    <3> QED BY <1>9, <3>1, <3>2
  <2>4. executor' \in Places
    <3>1. Late!Seen \in Late!Columns
      BY <1>a, SavedRows
    <3>2. executor \in Places
      BY <1>a DEF Late!TypeOK
    <3>3. Late!Free \in [at : {"idle"}, slot : 0 .. LastSlot, seen : Late!Columns]
      BY <1>0
    <3> QED BY <2>1, <3>1, <3>2, <3>3
  <2>5. run' \in [Late!Slots -> {"none", "queued", "started", "ended"}]
    BY <1>a, <2>1 DEF Late!TypeOK
  <2> QED BY <1>a, <2>1, <2>2, <2>3, <2>4, <2>5
    DEF Late!TypeOK, Late!Slots, PlanRows, Late!Claims, Late!Columns
<1>4. ASSUME NEW n \in 0 .. LastSlot, Late!Edit(n) PROVE Late!TypeOK'
  <2>1. editor' \in [saves : BOOLEAN, to : 0 .. LastSlot, seen : Late!Columns]
    BY <1>a, <1>4, SavedRows DEF Late!Edit
  <2> QED BY <1>a, <1>4, <2>1
    DEF Late!Edit, Late!TypeOK, Late!Slots, Late!Counters, Late!Claims, Late!Columns
<1>11. CASE Late!Save
  <2>1. editor.seen \in Late!Columns /\ editor.to \in 0 .. LastSlot
    BY <1>a DEF Late!TypeOK
  <2>2. plan' \in PlanRows
    BY <1>a, <1>11, <2>1, SavedRows DEF Late!Save
  <2>3. edits' \in 0 .. MaxEdits
    BY <1>a, <1>11 DEF Late!Save, Late!TypeOK, Late!SchedulerAssumption
  <2>4. again' \in SUBSET Late!Slots
    BY <1>a, <1>11 DEF Late!Save, Late!Planned, Late!TypeOK
  <2> QED BY <1>a, <1>0, <1>11, <2>2, <2>3, <2>4
    DEF Late!Save, Late!TypeOK, Late!Slots, PlanRows, Late!Claims, Late!Columns
<1>5. ASSUME NEW n \in Late!Slots, Late!JobExpires(n) \/ Late!JobAbandoned(n) PROVE Late!TypeOK'
  BY <1>a, <1>5 DEF Late!JobExpires, Late!JobAbandoned, Late!TypeOK, Late!Slots, Late!Counters,
    Late!Users, Late!Claims, Late!Columns
<1>6. CASE Late!LockExpires
  BY <1>a, <1>6 DEF Late!LockExpires, Late!TypeOK, Late!Slots, Late!Counters, Late!Users,
    Late!Claims, Late!Columns
<1>12. CASE Late!ClaimAges
  <2>1. losses' \in 0 .. MaxLosses
    BY <1>a, <1>12 DEF Late!ClaimAges, Late!TypeOK, Late!SchedulerAssumption
  <2> QED BY <1>a, <1>12, <2>1 DEF Late!ClaimAges, Late!TypeOK, Late!Slots, Late!Users,
    Late!Claims, Late!Columns
<1>10. CASE Late!Tick
  <2>1. clock' \in 0 .. LastSlot
    BY <1>a, <1>10 DEF Late!Tick, Late!TypeOK, Late!SchedulerAssumption
  <2> QED BY <1>a, <1>10, <2>1 DEF Late!Tick, Late!TypeOK, Late!Slots, Late!Counters, Late!Users,
    Late!Claims, Late!Columns
<1>7. CASE Late!Crash
  <2>1. /\ UNCHANGED <<clock, plan, ran, editor, again, edits, failures>>
        /\ lead' \in Late!Claims /\ losses' \in 0 .. MaxLosses
    BY <1>a, <1>0, <1>7 DEF Late!Crash, Late!TypeOK, Late!SchedulerAssumption, Late!Users
  <2>2. sched' \in [Schedulers -> [at : Steps, slot : 0 .. LastSlot, claim : Late!Claims]]
    BY <1>a, <1>0, <1>7 DEF Late!Crash, Late!TypeOK
  <2>3. executor' \in Places
    BY <1>a, <1>0, <1>7 DEF Late!Crash, Late!TypeOK
  <2>4. /\ run' \in [Late!Slots -> {"none", "queued", "started", "ended"}]
        /\ queued' \in [Late!Slots -> Nat]
    BY <1>a, <1>7 DEF Late!Crash, Late!TypeOK
  <2> QED BY <1>a, <2>1, <2>2, <2>3, <2>4
    DEF Late!TypeOK, Late!Slots, Late!Claims, Late!Columns
<1> QED BY <1>a, <1>1, <1>2, <1>3, <1>4, <1>5, <1>6, <1>7, <1>8, <1>9, <1>10, <1>11, <1>12
   DEF Late!Next, Late!Work

\* Who is to execute a slot is alone with it: one scheduler, one place in the queue,
\* or one worker.
AloneAt(m) ==
    /\ \A s, t \in Schedulers :
          Late!Takes(s) /\ Late!Takes(t) /\ sched[s].slot = m /\ sched[t].slot = m => s = t
    /\ queued[m] <= 1
    /\ \A v, w \in Runners : executor[v].slot = m /\ executor[w].slot = m => v = w
    /\ \A w \in Runners : executor[w].slot = m => queued[m] = 0
    /\ \A s \in Schedulers : Late!Takes(s) /\ sched[s].slot = m =>
          queued[m] = 0 /\ \A w \in Runners : executor[w].slot # m

\* A slot that was executed is left to the worker that has still to record it.
RanAt(m) ==
    /\ ran[m] <= 1
    /\ ran[m] > 0 =>
          /\ queued[m] = 0
          /\ \A s \in Schedulers : Late!Takes(s) => sched[s].slot # m
          /\ \A w \in Runners : executor[w].slot = m => executor[w].at \in {"ran", "record"}
          /\ plan.slot = m => \E w \in Runners : executor[w].slot = m

\* While the automation stands at a slot that is taken, it is claimed, and a scheduler
\* that has the claim is the one that took the slot.
HeldAt(m) ==
    plan.slot = m /\ Late!Taken(m) =>
        /\ plan.claim # None /\ ~plan.old
        /\ \A s \in Schedulers : plan.claim = s =>
              sched[s].at # "read" /\ (Late!Takes(s) => sched[s].slot = m)
        /\ \A s \in Schedulers : Late!Takes(s) /\ sched[s].slot = m => plan.claim = s

SlotAt(m) == AloneAt(m) /\ RanAt(m) /\ HeldAt(m)

\* A scheduler goes by its own claim, and has read by the time this is old.
OwnInv ==
    \A s \in Schedulers : /\ Late!Takes(s) => sched[s].claim = s
                          /\ sched[s].at = "read" /\ plan.claim = s => ~plan.old

\* What holds of every slot that was not planned once more.
SlotInv == OwnInv /\ \A m \in Late!Slots \ again : SlotAt(m)

\* A scheduler that leaves its slot, or its pass, leaves the rest as it is.
LEMMA DropStep ==
    ASSUME Late!TypeOK, SlotInv, NEW s \in Schedulers, NEW x,
           UNCHANGED <<plan, queued, executor, ran, again>>,
           sched' = [sched EXCEPT ![s] = x], x.at \in {"wait", "claim"}
    PROVE  SlotInv'
<1>1. \A t \in Schedulers : /\ Late!Takes(t)' => Late!Takes(t) /\ sched'[t] = sched[t]
                            /\ sched'[t].at = "read" => sched[t].at = "read" /\ sched'[t] = sched[t]
  BY DEF Late!TypeOK, Late!Takes
<1>2. OwnInv'
  BY <1>1 DEF SlotInv, OwnInv
<1>3. ASSUME NEW m \in Late!Slots \ again PROVE SlotAt(m)'
  <2>1. SlotAt(m)
    BY DEF SlotInv
  <2>2. Late!Taken(m)' => Late!Taken(m)
    BY <1>1 DEF Late!Taken
  <2>3. AloneAt(m)' /\ RanAt(m)'
    BY <1>1, <2>1 DEF SlotAt, AloneAt, RanAt
  <2>4. HeldAt(m)'
    BY <1>1, <2>1, <2>2 DEF SlotAt, HeldAt
  <2> QED BY <2>3, <2>4 DEF SlotAt
<1> QED BY <1>2, <1>3 DEF SlotInv

\* A scheduler passes on: it claims the automation at a slot that is not taken, takes
\* this slot, puts it into the queue, or leaves it.
LEMMA PassStep ==
    ASSUME Late!SchedulerAssumption, Late!TypeOK, SlotInv, NEW s \in Schedulers, Prompt!Pass(s)
    PROVE  SlotInv'
<1>0. UNCHANGED <<executor, ran, again>> /\ s # None
  BY DEF Prompt!Pass, Prompt!Acquire, Prompt!Claim, Prompt!ClaimIf, Prompt!Read, Prompt!Reload,
         Prompt!Slotless, Prompt!Fetch, Prompt!Enqueue, Prompt!EnqueueFails, Prompt!Counters,
         Prompt!Users, Late!SchedulerAssumption
<1>1. ASSUME UNCHANGED <<plan, queued>>, sched' = [sched EXCEPT ![s] = Prompt!Waiting]
      PROVE  SlotInv'
  BY <1>0, <1>1, DropStep DEF Prompt!Waiting
<1>2. CASE Prompt!Acquire(s)
  <2>1. /\ sched' = [sched EXCEPT ![s] = [sched[s] EXCEPT !.at = "claim"]]
        /\ UNCHANGED <<plan, queued>>
    BY <1>2 DEF Prompt!Acquire
  <2>2. [sched[s] EXCEPT !.at = "claim"].at = "claim"
    BY DEF Late!TypeOK
  <2> QED BY <1>0, <2>1, <2>2, DropStep
<1>3. CASE Prompt!Claim(s)
  <2>1. queued' = queued /\ sched[s].at = "claim"
    BY <1>3 DEF Prompt!Claim, Prompt!ClaimIf
  <2>2. CASE plan' = plan /\ sched' = [sched EXCEPT ![s] = Prompt!Waiting]
    BY <1>1, <2>1, <2>2
  <2>3. CASE /\ plan.claim = None \/ plan.old
             /\ plan' = [plan EXCEPT !.claim = s, !.old = FALSE]
             /\ sched' = [sched EXCEPT ![s].at = "read"]
    <3>1. /\ plan'.slot = plan.slot /\ ~plan'.old /\ plan'.claim = s
          /\ \A t \in Schedulers : /\ Late!Takes(t)' <=> Late!Takes(t)
                                   /\ Late!Takes(t) => sched'[t] = sched[t]
                                   /\ sched'[t].slot = sched[t].slot
      BY <2>1, <2>3 DEF Late!TypeOK, Late!Takes
    <3>2. OwnInv'
      BY <1>0, <3>1 DEF SlotInv, OwnInv
    <3>3. ASSUME NEW m \in Late!Slots \ again PROVE SlotAt(m)'
      <4>1. SlotAt(m)
        BY DEF SlotInv
      <4>2. Late!Taken(m)' <=> Late!Taken(m)
        BY <1>0, <2>1, <3>1 DEF Late!Taken
      <4>3. AloneAt(m)'
        BY <1>0, <2>1, <3>1, <4>1 DEF SlotAt, AloneAt
      <4>4. RanAt(m)'
        BY <1>0, <2>1, <3>1, <4>1 DEF SlotAt, RanAt
      <4>5. HeldAt(m)'
        BY <2>3, <3>1, <4>1, <4>2 DEF SlotAt, HeldAt
      <4> QED BY <4>3, <4>4, <4>5 DEF SlotAt
    <3> QED BY <1>0, <3>2, <3>3 DEF SlotInv
  <2> QED BY <1>3, <2>2, <2>3 DEF Prompt!Claim, Prompt!ClaimIf, Prompt!Ends
<1>4. CASE Prompt!Read(s)
  <2>1. UNCHANGED <<plan, queued>> /\ sched[s].at = "read"
    BY <1>4 DEF Prompt!Read
  <2>2. CASE sched' = [sched EXCEPT ![s] = Prompt!Waiting]
    BY <1>1, <2>1, <2>2
  <2>3. CASE /\ plan.claim = s
             /\ sched' = [sched EXCEPT ![s] = [at |-> "claimed", slot |-> plan.slot, claim |-> s]]
    <3>1. /\ Late!Takes(s)' /\ ~Late!Takes(s) /\ sched'[s].slot = plan.slot /\ sched'[s].claim = s
          /\ sched'[s].at # "read" /\ ~plan.old
          /\ \A t \in Schedulers \ {s} : sched'[t] = sched[t] /\ (Late!Takes(t)' <=> Late!Takes(t))
      BY <2>1, <2>3 DEF Late!TypeOK, Late!Takes, SlotInv, OwnInv
    <3>2. OwnInv'
      BY <2>1, <3>1 DEF SlotInv, OwnInv
    <3>3. ASSUME NEW m \in Late!Slots \ again, m # plan.slot PROVE SlotAt(m)'
      <4>1. SlotAt(m)
        BY DEF SlotInv
      <4>3. AloneAt(m)'
        BY <1>0, <2>1, <3>1, <3>3, <4>1 DEF SlotAt, AloneAt
      <4>4. RanAt(m)'
        BY <1>0, <2>1, <3>1, <3>3, <4>1 DEF SlotAt, RanAt
      <4>5. HeldAt(m)'
        BY <2>1, <3>3 DEF HeldAt
      <4> QED BY <4>3, <4>4, <4>5 DEF SlotAt
    <3>4. ASSUME plan.slot \in Late!Slots \ again PROVE SlotAt(plan.slot)'
      <4>1. SlotAt(plan.slot)
        BY <3>4 DEF SlotInv
      <4>2. ~Late!Taken(plan.slot)
        BY <2>1, <2>3, <4>1 DEF SlotAt, HeldAt
      <4>3. /\ \A t \in Schedulers : Late!Takes(t) => sched[t].slot # plan.slot
            /\ queued[plan.slot] = 0 /\ ran[plan.slot] = 0
            /\ \A w \in Runners : executor[w].slot # plan.slot
        BY <3>4, <4>2 DEF Late!Taken, Late!TypeOK
      <4>4. AloneAt(plan.slot)'
        BY <1>0, <2>1, <3>1, <4>3 DEF AloneAt
      <4>5. RanAt(plan.slot)'
        BY <1>0, <2>1, <4>3 DEF RanAt
      <4>6. HeldAt(plan.slot)'
        BY <1>0, <2>1, <2>3, <3>1, <4>3 DEF HeldAt
      <4> QED BY <4>4, <4>5, <4>6 DEF SlotAt
    <3> QED BY <1>0, <2>1, <3>2, <3>3, <3>4 DEF SlotInv
  <2> QED BY <1>4, <2>2, <2>3 DEF Prompt!Read, Prompt!Ends
<1>5. CASE Prompt!Slotless(s) \/ Prompt!EnqueueFails(s)
  <2>1. /\ Late!Takes(s) /\ queued' = queued /\ sched' = [sched EXCEPT ![s] = Prompt!Waiting]
        /\ Prompt!Released(s)
    BY <1>5 DEF Prompt!Slotless, Prompt!EnqueueFails, Prompt!Ends, Late!Takes
  <2>2. CASE plan' = plan
    BY <1>1, <2>1, <2>2
  <2>3. CASE plan.claim = s /\ plan' = [plan EXCEPT !.claim = None, !.old = FALSE]
    <3>1. /\ plan'.slot = plan.slot /\ plan'.claim = None
          /\ ~Late!Takes(s)' /\ sched'[s].at # "read"
          /\ \A t \in Schedulers \ {s} : sched'[t] = sched[t] /\ (Late!Takes(t)' <=> Late!Takes(t))
      BY <2>1, <2>3 DEF Late!TypeOK, Late!Takes, Prompt!Waiting
    <3>2. OwnInv'
      BY <3>1 DEF SlotInv, OwnInv, Late!SchedulerAssumption
    <3>3. ASSUME NEW m \in Late!Slots \ again PROVE SlotAt(m)'
      <4>1. SlotAt(m)
        BY DEF SlotInv
      <4>3. AloneAt(m)'
        BY <1>0, <2>1, <3>1, <4>1 DEF SlotAt, AloneAt
      <4>4. RanAt(m)'
        BY <1>0, <2>1, <3>1, <4>1 DEF SlotAt, RanAt
      <4>5. plan.slot = m => ~Late!Taken(m)'
        <5>1. plan.slot = m /\ Late!Taken(m) => sched[s].slot = m
          BY <2>1, <2>3, <4>1 DEF SlotAt, HeldAt
        <5>2. Late!Taken(m)' => Late!Taken(m)
          BY <1>0, <2>1, <3>1 DEF Late!Taken
        <5>3. sched[s].slot = m => /\ queued[m] = 0 /\ ran[m] = 0
                                   /\ \A w \in Runners : executor[w].slot # m
                                   /\ \A t \in Schedulers \ {s} : Late!Takes(t) => sched[t].slot # m
          <6>1. ran[m] \in Nat /\ (ran[m] > 0 => sched[s].slot # m)
            BY <2>1, <4>1 DEF SlotAt, RanAt, Late!TypeOK
          <6> QED BY <2>1, <4>1, <6>1 DEF SlotAt, AloneAt
        <5>4. sched[s].slot = m => ~Late!Taken(m)'
          BY <1>0, <2>1, <3>1, <5>3 DEF Late!Taken
        <5> QED BY <5>1, <5>2, <5>4
      <4>6. HeldAt(m)'
        BY <3>1, <4>5 DEF HeldAt
      <4> QED BY <4>3, <4>4, <4>6 DEF SlotAt
    <3> QED BY <1>0, <3>2, <3>3 DEF SlotInv
  <2>4. sched[s].claim = s
    BY <2>1 DEF SlotInv, OwnInv
  <2> QED BY <2>1, <2>2, <2>3, <2>4 DEF Prompt!Released
<1>6. CASE Prompt!Fetch(s)
  <2>1. UNCHANGED <<plan, queued>> /\ Late!Takes(s)
    BY <1>6 DEF Prompt!Fetch, Late!Takes
  <2>2. CASE sched' = [sched EXCEPT ![s] = Prompt!Waiting]
    BY <1>1, <2>1, <2>2
  <2>3. CASE sched' = [sched EXCEPT ![s].at = "cleared"]
    <3>1. \A t \in Schedulers : /\ Late!Takes(t)' <=> Late!Takes(t)
                                /\ sched'[t].slot = sched[t].slot /\ sched'[t].claim = sched[t].claim
                                /\ sched'[t].at = "read" => sched[t].at = "read"
      BY <2>1, <2>3 DEF Late!TypeOK, Late!Takes
    <3>2. OwnInv'
      BY <2>1, <3>1 DEF SlotInv, OwnInv
    <3>3. ASSUME NEW m \in Late!Slots \ again PROVE SlotAt(m)'
      <4>1. SlotAt(m)
        BY DEF SlotInv
      <4>2. Late!Taken(m)' <=> Late!Taken(m)
        BY <1>0, <2>1, <3>1 DEF Late!Taken
      <4>3. AloneAt(m)'
        BY <1>0, <2>1, <3>1, <4>1 DEF SlotAt, AloneAt
      <4>4. RanAt(m)'
        BY <1>0, <2>1, <3>1, <4>1 DEF SlotAt, RanAt
      <4>5. HeldAt(m)'
        BY <2>1, <3>1, <4>1, <4>2 DEF SlotAt, HeldAt
      <4> QED BY <4>3, <4>4, <4>5 DEF SlotAt
    <3> QED BY <1>0, <3>2, <3>3 DEF SlotInv
  <2> QED BY <1>6, <2>2, <2>3 DEF Prompt!Fetch, Prompt!Ends
<1>7. CASE Prompt!Enqueue(s)
  <2>1. /\ plan' = plan /\ Late!Takes(s) /\ queued' = [queued EXCEPT ![sched[s].slot] = @ + 1]
        /\ sched' = [sched EXCEPT ![s] = Prompt!Waiting]
    BY <1>7 DEF Prompt!Enqueue, Prompt!Ends, Late!Takes
  <2>2. /\ ~Late!Takes(s)' /\ sched'[s].at # "read"
        /\ \A t \in Schedulers \ {s} : sched'[t] = sched[t] /\ (Late!Takes(t)' <=> Late!Takes(t))
    BY <2>1 DEF Late!TypeOK, Late!Takes, Prompt!Waiting
  <2>3. OwnInv'
    BY <2>1, <2>2 DEF SlotInv, OwnInv
  <2>4. ASSUME NEW m \in Late!Slots \ again PROVE SlotAt(m)'
    <3>1. SlotAt(m) /\ queued[m] \in Nat /\ ran[m] \in Nat
      BY DEF SlotInv, Late!TypeOK
    <3>2. queued'[m] = IF m = sched[s].slot THEN queued[m] + 1 ELSE queued[m]
      BY <2>1 DEF Late!TypeOK
    <3>3. m = sched[s].slot => /\ queued[m] = 0 /\ ran[m] = 0 /\ queued'[m] = 1
                               /\ \A w \in Runners : executor[w].slot # m
                               /\ \A t \in Schedulers \ {s} : Late!Takes(t) => sched[t].slot # m
      <4>1. ran[m] > 0 => sched[s].slot # m
        BY <2>1, <3>1 DEF SlotAt, RanAt
      <4>2. m = sched[s].slot =>
               /\ queued[m] = 0 /\ \A w \in Runners : executor[w].slot # m
               /\ \A t \in Schedulers \ {s} : Late!Takes(t) => sched[t].slot # m
        BY <2>1, <3>1 DEF SlotAt, AloneAt
      <4> QED BY <3>1, <3>2, <4>1, <4>2
    <3>4. AloneAt(m)'
      <4>1. CASE m = sched[s].slot
        BY <1>0, <2>2, <3>3, <4>1 DEF AloneAt
      <4>2. CASE m # sched[s].slot
        BY <1>0, <2>2, <3>1, <3>2, <4>2 DEF SlotAt, AloneAt
      <4> QED BY <4>1, <4>2
    <3>5. RanAt(m)'
      <4>1. CASE m = sched[s].slot
        BY <1>0, <3>3, <4>1 DEF RanAt
      <4>2. CASE m # sched[s].slot
        BY <1>0, <2>1, <2>2, <3>1, <3>2, <4>2 DEF SlotAt, RanAt
      <4> QED BY <4>1, <4>2
    <3>6. Late!Taken(m)' => Late!Taken(m)
      BY <1>0, <2>1, <2>2, <3>2 DEF Late!Taken
    <3>7. HeldAt(m)'
      BY <2>1, <2>2, <3>1, <3>6 DEF SlotAt, HeldAt
    <3> QED BY <3>4, <3>5, <3>7 DEF SlotAt
  <2> QED BY <1>0, <2>3, <2>4 DEF SlotInv
<1>8. ~Prompt!Reload(s)
  BY DEF Prompt!Reload
<1> QED BY <1>2, <1>3, <1>4, <1>5, <1>6, <1>7, <1>8 DEF Prompt!Pass

\* A worker that is at work has its slot; what it is to record has been counted, and
\* it has read the automation at this slot.
Works(w) == executor[w].at # "idle"

CountInv ==
    \A w \in Runners :
        /\ Works(w) => executor[w].slot \in Late!Slots
        /\ executor[w].at \in {"ran", "record"} => ran[executor[w].slot] > 0
        /\ executor[w].at = "record" => executor[w].seen.slot = executor[w].slot

\* A row that was saved stands at a slot that is not taken, or at one that is now
\* planned once more.
LEMMA SaveStep ==
    ASSUME Late!TypeOK, SlotInv, Prompt!Planned, UNCHANGED <<sched, queued, ran>>,
           NEW seen, NEW n, NEW a, plan' = Prompt!Saved(seen, n, a),
           \A m \in Late!Slots \ again : AloneAt(m)' /\ (Late!Taken(m)' => Late!Taken(m)),
           \A m \in Late!Slots \ again : RanAt(m) =>
              (ran[m] > 0 => \A w \in Runners : executor'[w].slot = m =>
                                executor'[w].at \in {"ran", "record"})
    PROVE  SlotInv'
<1>1. OwnInv'
  BY DEF SlotInv, OwnInv, Prompt!Saved, Late!Takes
<1>2. ASSUME NEW m \in Late!Slots \ again' PROVE SlotAt(m)'
  <2>1. m \in Late!Slots \ again /\ SlotAt(m) /\ ran[m] \in Nat
    BY <1>2 DEF SlotInv, Prompt!Planned, Late!TypeOK
  <2>2. plan'.slot = m => ~Late!Taken(m)
    BY <1>2 DEF Prompt!Planned, Prompt!Taken, Late!Taken, Prompt!Takes, Late!Takes, Prompt!Slots,
      Late!Slots
  <2>3. HeldAt(m)'
    BY <2>1, <2>2 DEF HeldAt
  <2>4. RanAt(m)'
    <3>1. plan'.slot = m => ran[m] = 0
      BY <2>1, <2>2 DEF Late!Taken
    <3> QED BY <2>1, <3>1 DEF SlotAt, RanAt, Late!Takes
  <2> QED BY <2>1, <2>3, <2>4 DEF SlotAt
<1> QED BY <1>1, <1>2 DEF SlotInv

\* A worker takes a slot from the queue, executes it, records it, or gives it up.
LEMMA WorkStep ==
    ASSUME Late!SchedulerAssumption, Late!TypeOK, SlotInv, CountInv, NEW w \in Runners,
           Prompt!Work(w)
    PROVE  SlotInv'
<1>0. UNCHANGED <<sched>>
  BY DEF Prompt!Work, Prompt!Begin, Prompt!Execute, Prompt!Look, Prompt!Record, Prompt!Release
<1>f. 0 \notin Late!Slots /\ Prompt!Free.slot = 0
  BY DEF Late!Slots, Prompt!Free
<1>1. ASSUME NEW n \in Late!Slots, Prompt!Begin(w, n) PROVE SlotInv'
  <2>1. /\ UNCHANGED <<plan, ran, again>>
        /\ queued[n] > 0 /\ queued' = [queued EXCEPT ![n] = @ - 1]
    BY <1>1 DEF Prompt!Begin, Prompt!Users
  <2>2. OwnInv'
    BY <1>0, <2>1 DEF SlotInv, OwnInv, Late!Takes
  <2>3. ASSUME NEW m \in Late!Slots \ again PROVE SlotAt(m)'
    <3>1. SlotAt(m) /\ queued[m] \in Nat /\ ran[m] \in Nat
      BY DEF SlotInv, Late!TypeOK
    <3>2. queued'[m] = IF m = n THEN queued[m] - 1 ELSE queued[m]
      BY <2>1 DEF Late!TypeOK
    <3>3. m = n => /\ queued[m] = 1 /\ queued'[m] = 0 /\ ran[m] = 0
                   /\ \A s \in Schedulers : Late!Takes(s) => sched[s].slot # m
                   /\ \A v \in Runners : executor[v].slot # m
      <4>1. queued[m] > 0 => ran[m] = 0
        BY <3>1 DEF SlotAt, RanAt
      <4>2. m = n => queued[m] = 1 /\ queued'[m] = 0
        BY <2>1, <3>1, <3>2 DEF SlotAt, AloneAt
      <4>3. queued[m] > 0 => /\ \A s \in Schedulers : Late!Takes(s) => sched[s].slot # m
                             /\ \A v \in Runners : executor[v].slot # m
        BY <3>1 DEF SlotAt, AloneAt
      <4> QED BY <4>1, <4>2, <4>3
    <3>4. /\ \A v \in Runners \ {w} : executor'[v] = executor[v]
          /\ executor'[w].slot = n \/ executor'[w] = executor[w]
      BY <1>1 DEF Prompt!Begin, Late!TypeOK
    <3>5. AloneAt(m)'
      <4>1. CASE m = n
        BY <1>0, <3>3, <3>4, <4>1 DEF AloneAt, Late!Takes
      <4>2. CASE m # n
        BY <1>0, <3>1, <3>2, <3>4, <4>2 DEF SlotAt, AloneAt, Late!Takes
      <4> QED BY <4>1, <4>2
    <3>6. RanAt(m)'
      <4>1. CASE m = n
        BY <2>1, <3>3, <4>1 DEF RanAt
      <4>2. CASE m # n /\ ran[m] > 0
        <5>1. \A v \in Runners : executor'[v].slot = m => executor'[v] = executor[v]
          BY <3>4, <4>2
        <5>2. executor[w].slot # m
          <6>1. executor[w].at = "idle"
            BY <1>1 DEF Prompt!Begin
          <6> QED BY <3>1, <4>2, <6>1 DEF SlotAt, RanAt
        <5>3. plan.slot = m => \E v \in Runners \ {w} : executor[v].slot = m
          BY <3>1, <4>2, <5>2 DEF SlotAt, RanAt
        <5> QED BY <1>0, <2>1, <3>1, <3>2, <3>4, <4>2, <5>1, <5>3 DEF SlotAt, RanAt, Late!Takes
      <4>3. CASE ran[m] = 0
        BY <2>1, <4>3 DEF RanAt
      <4> QED BY <3>1, <4>1, <4>2, <4>3
    <3>7. Late!Taken(m)' => Late!Taken(m)
      BY <1>0, <2>1, <3>2, <3>3, <3>4 DEF Late!Taken, Late!Takes
    <3>8. HeldAt(m)'
      BY <1>0, <2>1, <3>1, <3>7 DEF SlotAt, HeldAt, Late!Takes
    <3> QED BY <3>5, <3>6, <3>8 DEF SlotAt
  <2> QED BY <2>1, <2>2, <2>3 DEF SlotInv
<1>2. CASE Prompt!Execute(w)
  <2>1. /\ UNCHANGED <<plan, queued, again>> /\ executor[w].at = "begun"
        /\ \A v \in Runners : /\ executor'[v].slot = executor[v].slot
                              /\ v # w => executor'[v] = executor[v]
    BY <1>2 DEF Prompt!Execute, Prompt!Users, Late!TypeOK
  <2>2. OwnInv'
    BY <1>0, <2>1 DEF SlotInv, OwnInv, Late!Takes
  <2>3. ASSUME NEW m \in Late!Slots \ again PROVE SlotAt(m)'
    <3>1. SlotAt(m) /\ ran[m] \in Nat
      BY DEF SlotInv, Late!TypeOK
    <3>2. m = executor[w].slot => /\ ran[m] = 0 /\ queued[m] = 0
                                  /\ \A s \in Schedulers : Late!Takes(s) => sched[s].slot # m
                                  /\ \A v \in Runners \ {w} : executor[v].slot # m
      <4>1. m = executor[w].slot => ran[m] = 0
        BY <2>1, <3>1 DEF SlotAt, RanAt
      <4> QED BY <3>1, <4>1 DEF SlotAt, AloneAt
    <3>3. AloneAt(m)'
      BY <1>0, <2>1, <3>1 DEF SlotAt, AloneAt, Late!Takes
    <3>4. RanAt(m)'
      <4>1. CASE m # executor[w].slot
        <5>1. ran'[m] = ran[m]
          BY <1>2, <4>1 DEF Prompt!Execute, Late!TypeOK
        <5> QED BY <1>0, <2>1, <3>1, <4>1, <5>1 DEF SlotAt, RanAt, Late!Takes
      <4>2. CASE m = executor[w].slot /\ ran' = ran
        BY <3>2, <4>2 DEF RanAt
      <4>3. CASE /\ m = executor[w].slot /\ ran' = [ran EXCEPT ![executor[w].slot] = @ + 1]
                 /\ executor' = [executor EXCEPT ![w].at = "ran"]
        <5>1. ran'[m] = 1 /\ executor'[w].at = "ran" /\ executor'[w].slot = m
          BY <2>1, <3>2, <4>3 DEF Late!TypeOK
        <5> QED BY <1>0, <2>1, <3>2, <5>1 DEF RanAt, Late!Takes
      <4> QED BY <1>2, <4>1, <4>2, <4>3 DEF Prompt!Execute
    <3>5. HeldAt(m)'
      <4>1. Late!Taken(m)' => Late!Taken(m)
        <5>1. CASE m = executor[w].slot
          BY <5>1 DEF Late!Taken
        <5>2. CASE m # executor[w].slot
          <6>1. ran'[m] = ran[m]
            BY <1>2, <5>2 DEF Prompt!Execute, Late!TypeOK
          <6> QED BY <1>0, <2>1, <6>1 DEF Late!Taken, Late!Takes
        <5> QED BY <5>1, <5>2
      <4> QED BY <1>0, <2>1, <3>1, <4>1 DEF SlotAt, HeldAt, Late!Takes
    <3> QED BY <3>3, <3>4, <3>5 DEF SlotAt
  <2> QED BY <2>1, <2>2, <2>3 DEF SlotInv
<1>3. CASE Prompt!Look(w)
  <2>1. UNCHANGED <<plan, queued, ran, again>> /\ executor[w].at = "ran"
    BY <1>3 DEF Prompt!Look, Prompt!Users
  <2>2. /\ \A v \in Runners \ {w} : executor'[v] = executor[v]
        /\ \/ executor'[w].slot = executor[w].slot /\ executor'[w].at = "record"
           \/ executor'[w].slot = 0 /\ plan.slot # executor[w].slot
    BY <1>3, <1>f DEF Prompt!Look, Prompt!Leaves, Late!TypeOK
  <2>3. OwnInv'
    BY <1>0, <2>1 DEF SlotInv, OwnInv, Late!Takes
  <2>4. ASSUME NEW m \in Late!Slots \ again PROVE SlotAt(m)'
    <3>1. SlotAt(m) /\ m # 0
      BY <1>f DEF SlotInv
    <3>2. AloneAt(m)'
      BY <1>0, <2>1, <2>2, <3>1 DEF SlotAt, AloneAt, Late!Takes
    <3>3. RanAt(m)'
      BY <1>0, <2>1, <2>2, <3>1 DEF SlotAt, RanAt, Late!Takes
    <3>4. Late!Taken(m)' => Late!Taken(m)
      BY <1>0, <2>1, <2>2, <3>1 DEF Late!Taken, Late!Takes
    <3>5. HeldAt(m)'
      BY <1>0, <2>1, <3>1, <3>4 DEF SlotAt, HeldAt, Late!Takes
    <3> QED BY <3>2, <3>3, <3>5 DEF SlotAt
  <2> QED BY <2>1, <2>3, <2>4 DEF SlotInv
<1>4. CASE Prompt!Record(w)
  <2>1. /\ UNCHANGED <<queued, ran>> /\ executor[w].at = "record" /\ Prompt!Planned
        /\ \A v \in Runners \ {w} : executor'[v] = executor[v]
        /\ executor'[w].slot = 0
    BY <1>4, <1>f DEF Prompt!Record, Prompt!Leaves, Late!TypeOK
  <2>2. ASSUME NEW m \in Late!Slots \ again
        PROVE  AloneAt(m)' /\ (Late!Taken(m)' => Late!Taken(m))
    <3>1. SlotAt(m) /\ m # 0
      BY <1>f DEF SlotInv
    <3>2. AloneAt(m)'
      BY <1>0, <2>1, <3>1 DEF SlotAt, AloneAt, Late!Takes
    <3>3. Late!Taken(m)' => Late!Taken(m)
      BY <1>0, <2>1, <3>1 DEF Late!Taken, Late!Takes
    <3> QED BY <3>2, <3>3
  <2>3. ASSUME NEW m \in Late!Slots \ again, RanAt(m), ran[m] > 0, NEW v \in Runners,
               executor'[v].slot = m
        PROVE  executor'[v].at \in {"ran", "record"}
    BY <1>f, <2>1, <2>3 DEF RanAt
  <2> QED BY <1>0, <1>4, <2>1, <2>2, <2>3, SaveStep DEF Prompt!Record
<1>5. CASE Prompt!Release(w)
  <2>1. /\ UNCHANGED <<queued, ran, again>> /\ executor[w].at = "failed"
        /\ \A v \in Runners \ {w} : executor'[v] = executor[v]
        /\ executor'[w].slot = 0 /\ plan'.slot = plan.slot
        /\ \/ plan' = plan
           \/ plan.slot = executor[w].slot /\ plan'.claim = None
        /\ plan.slot = executor[w].slot \/ plan' = plan
    BY <1>5, <1>f DEF Prompt!Release, Prompt!Leaves, Prompt!Users, Late!TypeOK
  <2>3. OwnInv'
    BY <1>0, <2>1 DEF SlotInv, OwnInv, Late!Takes, Late!SchedulerAssumption
  <2>4. ASSUME NEW m \in Late!Slots \ again PROVE SlotAt(m)'
    <3>1. SlotAt(m) /\ m # 0 /\ ran[m] \in Nat
      BY <1>f DEF SlotInv, Late!TypeOK
    <3>2. AloneAt(m)'
      BY <1>0, <2>1, <3>1 DEF SlotAt, AloneAt, Late!Takes
    <3>3. ran[m] > 0 => executor[w].slot # m
      BY <2>1, <3>1 DEF SlotAt, RanAt
    <3>4. RanAt(m)'
      BY <1>0, <2>1, <3>1, <3>3 DEF SlotAt, RanAt, Late!Takes
    <3>5. Late!Taken(m)' => Late!Taken(m)
      BY <1>0, <2>1, <3>1 DEF Late!Taken, Late!Takes
    <3>6. m = executor[w].slot => ~Late!Taken(m)'
      <4>1. m = executor[w].slot =>
               /\ ran[m] = 0 /\ queued[m] = 0
               /\ \A s \in Schedulers : Late!Takes(s) => sched[s].slot # m
               /\ \A v \in Runners \ {w} : executor[v].slot # m
        BY <3>1, <3>3 DEF SlotAt, AloneAt
      <4> QED BY <1>0, <2>1, <3>1, <4>1 DEF Late!Taken, Late!Takes
    <3>7. HeldAt(m)'
      BY <1>0, <2>1, <3>1, <3>5, <3>6 DEF SlotAt, HeldAt, Late!Takes
    <3> QED BY <3>2, <3>4, <3>7 DEF SlotAt
  <2> QED BY <2>1, <2>3, <2>4 DEF SlotInv
<1> QED BY <1>1, <1>2, <1>3, <1>4, <1>5 DEF Prompt!Work, Prompt!Slots, Late!Slots

\* Where claims do not age in use and nothing is lost, the invariant holds after
\* every step.
LEMMA SlotStep ==
    Late!SchedulerAssumption /\ Late!TypeOK /\ losses = 0 /\ SlotInv /\ CountInv
        /\ [Prompt!Next]_autoVars => SlotInv'
<1>a. SUFFICES ASSUME Late!SchedulerAssumption, Late!TypeOK, losses = 0, SlotInv, CountInv,
                      [Prompt!Next]_autoVars
               PROVE  SlotInv'
  OBVIOUS
<1>1. ASSUME UNCHANGED <<plan, sched, queued, executor, ran, again>> PROVE SlotInv'
  BY <1>a, <1>1 DEF SlotInv, OwnInv, SlotAt, AloneAt, RanAt, HeldAt, Late!Takes, Late!Taken
<1>2. CASE UNCHANGED autoVars
  BY <1>1, <1>2 DEF autoVars
<1>3. ASSUME NEW n \in 0 .. LastSlot, Prompt!Edit(n) PROVE SlotInv'
  BY <1>1, <1>3 DEF Prompt!Edit
<1>4. CASE Prompt!Save
  <2>1. UNCHANGED <<sched, queued, executor, ran>> /\ Prompt!Planned
    BY <1>4 DEF Prompt!Save
  <2>2. ASSUME NEW m \in Late!Slots \ again
        PROVE  AloneAt(m)' /\ (Late!Taken(m)' => Late!Taken(m))
    BY <1>a, <2>1 DEF SlotInv, SlotAt, AloneAt, Late!Takes, Late!Taken
  <2>3. ASSUME NEW m \in Late!Slots \ again, RanAt(m), ran[m] > 0, NEW v \in Runners,
               executor'[v].slot = m
        PROVE  executor'[v].at \in {"ran", "record"}
    BY <2>1, <2>3 DEF RanAt
  <2> QED BY <1>a, <1>4, <2>1, <2>2, <2>3, SaveStep DEF Prompt!Save
<1>5. CASE Prompt!ClaimAges
  <2>1. /\ UNCHANGED <<sched, queued, executor, ran, again>> /\ ~Prompt!InUse
        /\ plan' = [plan EXCEPT !.old = TRUE]
    BY <1>5 DEF Prompt!ClaimAges, Prompt!Users
  <2>2. plan'.slot = plan.slot /\ plan'.claim = plan.claim
    BY <1>a, <2>1 DEF Late!TypeOK
  <2>3. OwnInv'
    BY <1>a, <2>1, <2>2 DEF SlotInv, OwnInv, Late!Takes, Prompt!InUse, Prompt!Between
  <2>4. ASSUME NEW m \in Late!Slots \ again PROVE SlotAt(m)'
    <3>1. SlotAt(m) /\ m # 0 /\ ran[m] \in Nat /\ queued[m] \in Nat
      BY <1>a DEF SlotInv, Late!Slots, Late!TypeOK
    <3>2. AloneAt(m)' /\ RanAt(m)'
      BY <2>1, <2>2, <3>1 DEF SlotAt, AloneAt, RanAt, Late!Takes
    <3>3. plan.slot = m => ~Late!Taken(m)'
      <4>1. plan.slot = m => /\ queued[m] = 0
                             /\ \A s \in Schedulers : ~(Late!Takes(s) /\ sched[s].slot = m)
                             /\ \A w \in Runners : executor[w].slot # m
        BY <2>1, <3>1 DEF Prompt!InUse, Prompt!Takes, Late!Takes
      <4>2. plan.slot = m => ran[m] = 0
        BY <3>1, <4>1 DEF SlotAt, RanAt
      <4> QED BY <2>1, <4>1, <4>2 DEF Late!Taken, Late!Takes
    <3>4. HeldAt(m)'
      BY <2>2, <3>3 DEF HeldAt
    <3> QED BY <3>2, <3>4 DEF SlotAt
  <2> QED BY <2>1, <2>3, <2>4 DEF SlotInv
<1>6. ASSUME NEW n \in Prompt!Slots, Prompt!JobExpires(n) \/ Prompt!JobAbandoned(n) PROVE SlotInv'
  BY <1>1, <1>6 DEF Prompt!JobExpires, Prompt!JobAbandoned, Prompt!Users
<1>7. CASE Prompt!LockExpires \/ Prompt!Tick
  BY <1>1, <1>7 DEF Prompt!LockExpires, Prompt!Tick, Prompt!Users
<1>8. ~Prompt!Crash
  BY <1>a DEF Prompt!Crash
<1> QED BY <1>a, <1>2, <1>3, <1>4, <1>5, <1>6, <1>7, <1>8, PassStep, WorkStep DEF Prompt!Next

LEMMA CountStep ==
    Late!SchedulerAssumption /\ Late!TypeOK /\ CountInv /\ [Late!Next]_autoVars => CountInv'
<1>a. SUFFICES ASSUME Late!SchedulerAssumption, Late!TypeOK, CountInv, [Late!Next]_autoVars
               PROVE  CountInv'
  OBVIOUS
<1>1. ASSUME ran' = ran, \A w \in Runners : executor'[w] = executor[w] \/ executor'[w] = Late!Free
      PROVE  CountInv'
  BY <1>a, <1>1 DEF CountInv, Works, Late!Free, Late!Slots
<1>2. ASSUME NEW w \in Runners, Late!Execute(w) PROVE CountInv'
  <2>1. /\ executor[w].at = "begun" /\ executor[w].slot \in Late!Slots
        /\ \A v \in Runners : /\ executor'[v].slot = executor[v].slot
                              /\ v # w => executor'[v] = executor[v]
        /\ executor'[w].at \in {"ran", "failed"}
    BY <1>a, <1>2 DEF Late!Execute, Late!TypeOK, CountInv, Works
  <2>2. \A n \in Late!Slots : ran[n] > 0 => ran'[n] > 0
    <3>1. ran \in [Late!Slots -> Nat]
      BY <1>a DEF Late!TypeOK
    <3>2. CASE ran' = ran
      BY <3>2
    <3>3. CASE ran' = [ran EXCEPT ![executor[w].slot] = @ + 1]
      BY <3>1, <3>3
    <3> QED BY <1>2, <3>2, <3>3 DEF Late!Execute
  <2>3. executor'[w].at = "ran" => ran'[executor[w].slot] > 0
    <3>1. ran \in [Late!Slots -> Nat] /\ executor \in [Runners -> [at : {"idle", "begun", "ran",
             "record", "failed"}, slot : 0 .. LastSlot, seen : Late!Columns]]
      BY <1>a DEF Late!TypeOK
    <3>2. CASE executor' = [executor EXCEPT ![w].at = "failed"]
      BY <3>1, <3>2
    <3>3. CASE ran' = [ran EXCEPT ![executor[w].slot] = @ + 1]
      BY <2>1, <3>1, <3>3
    <3> QED BY <1>2, <3>2, <3>3 DEF Late!Execute
  <2> QED BY <1>a, <2>1, <2>2, <2>3 DEF CountInv, Works
<1>3. ASSUME NEW w \in Runners, NEW n \in Late!Slots, Late!Begin(w, n) PROVE CountInv'
  <2>1. /\ ran' = ran
        /\ \A v \in Runners : \/ executor'[v] = executor[v]
                              \/ executor'[v].at \in {"begun", "failed"} /\ executor'[v].slot = n
    BY <1>a, <1>3 DEF Late!Begin, Late!TypeOK
  <2> QED BY <1>a, <2>1 DEF CountInv, Works
<1>4. ASSUME NEW w \in Runners, Late!Look(w) PROVE CountInv'
  <2>1. CASE executor' = [executor EXCEPT ![w] = Late!Free] /\ ran' = ran
    BY <1>1, <1>a, <2>1 DEF Late!TypeOK
  <2>2. CASE /\ executor' = [executor EXCEPT ![w].at = "record", ![w].seen = Late!Seen]
             /\ executor[w].at = "ran" /\ plan.slot = executor[w].slot /\ ran' = ran
    <3>1. /\ executor'[w].at = "record" /\ executor'[w].slot = executor[w].slot
          /\ executor'[w].seen.slot = executor[w].slot
          /\ \A v \in Runners \ {w} : executor'[v] = executor[v]
      BY <1>a, <2>2 DEF Late!TypeOK, Late!Seen
    <3> QED BY <1>a, <2>2, <3>1 DEF CountInv, Works
  <2> QED BY <1>4, <2>1, <2>2 DEF Late!Look, Late!Leaves
<1>9. ASSUME NEW w \in Runners, Late!Record(w) \/ Late!Release(w) PROVE CountInv'
  <2>1. ran' = ran /\ executor' = [executor EXCEPT ![w] = Late!Free]
    BY <1>9 DEF Late!Record, Late!Release, Late!Leaves
  <2> QED BY <1>1, <1>a, <2>1 DEF Late!TypeOK
<1>5. CASE Late!Crash
  <2>1. ran' = ran /\
        (executor' = executor \/ \E w \in Runners : executor' = [executor EXCEPT ![w] = Late!Free])
    BY <1>5 DEF Late!Crash
  <2> QED BY <1>1, <1>a, <2>1 DEF Late!TypeOK
<1>6. ASSUME UNCHANGED <<ran, executor>> PROVE CountInv'
  BY <1>1, <1>6
<1>7. ASSUME NEW s \in Schedulers, Late!Pass(s) PROVE CountInv'
  BY <1>6, <1>7 DEF Late!Pass, Late!Acquire, Late!Claim, Late!ClaimIf, Late!Read, Late!Reload,
     Late!Slotless, Late!Fetch, Late!Enqueue, Late!EnqueueFails
<1>8. CASE \/ \E n \in 0 .. LastSlot : Late!Edit(n)
           \/ Late!Save
           \/ \E n \in Late!Slots : Late!JobExpires(n) \/ Late!JobAbandoned(n)
           \/ Late!Tick \/ Late!LockExpires \/ Late!ClaimAges \/ UNCHANGED autoVars
  BY <1>6, <1>8 DEF Late!Edit, Late!Save, Late!JobExpires, Late!JobAbandoned, Late!Tick,
     Late!LockExpires, Late!ClaimAges, autoVars
<1> QED BY <1>a, <1>2, <1>3, <1>4, <1>5, <1>7, <1>8, <1>9 DEF Late!Next, Late!Work

\* The automation leaves a slot that was executed, by its user's hand, or because an
\* execution writes over what was saved.
LEMMA LeavesExecuted ==
    ASSUME Late!TypeOK, CountInv, [Late!Next]_autoVars, plan'.slot # plan.slot, edits' = edits
    PROVE  \/ ran[plan.slot] > 0
           \/ \E w \in Runners : Late!Outdated(w) /\ executor'[w] = Late!Free
<1> DEFINE Left == \/ ran[plan.slot] > 0
                   \/ \E w \in Runners : Late!Outdated(w) /\ executor'[w] = Late!Free
<1>1. ASSUME NEW w \in Runners, Late!Record(w) PROVE Left
  <2>1. executor[w].at = "record" /\ executor'[w] = Late!Free
    BY <1>1 DEF Late!Record, Late!Leaves, Late!TypeOK
  <2>2. plan.slot = executor[w].seen.slot => ran[plan.slot] > 0
    BY <2>1 DEF CountInv
  <2> QED BY <2>1, <2>2 DEF Late!Outdated
<1>2. ASSUME NEW w \in Runners, NEW n \in Late!Slots,
             Late!Begin(w, n) \/ Late!Execute(w) \/ Late!Look(w) \/ Late!Release(w)
      PROVE  FALSE
  BY <1>2 DEF Late!Begin, Late!Execute, Late!Look, Late!Release, Late!TypeOK
<1>3. ASSUME NEW s \in Schedulers, Late!Pass(s) PROVE FALSE
  BY <1>3 DEF Late!Pass, Late!Acquire, Late!Claim, Late!ClaimIf, Late!Read, Late!Reload,
     Late!Slotless, Late!Fetch, Late!Enqueue, Late!EnqueueFails, Late!Released, Late!TypeOK
<1>4. ASSUME Late!Save \/ \E n \in 0 .. LastSlot : Late!Edit(n) PROVE FALSE
  BY <1>4 DEF Late!Edit, Late!Save, Late!TypeOK
<1>5. CASE \/ \E n \in Late!Slots : Late!JobExpires(n) \/ Late!JobAbandoned(n)
           \/ Late!Tick \/ Late!LockExpires \/ Late!ClaimAges \/ Late!Crash \/ UNCHANGED autoVars
  BY <1>5 DEF Late!JobExpires, Late!JobAbandoned, Late!Tick, Late!LockExpires,
     Late!ClaimAges, Late!Crash, Late!TypeOK, autoVars
<1>6. ASSUME NEW w \in Runners, Late!Execute(w) \/ Late!Look(w) \/ Late!Release(w) PROVE FALSE
  BY <1>6 DEF Late!Execute, Late!Look, Late!Release, Late!TypeOK
<1> QED BY <1>1, <1>2, <1>3, <1>4, <1>5, <1>6 DEF Late!Next, Late!Work

\* The first states.
LEMMA FirstSlots ==
    ASSUME Late!SchedulerAssumption, Late!Init
    PROVE  Late!TypeOK /\ SlotInv /\ CountInv /\ losses = 0
<1>1. LastSlot \in Nat \ {0} /\ MaxEdits \in Nat /\ MaxFailures \in Nat /\ MaxLosses \in Nat
  BY DEF Late!SchedulerAssumption
<1>2. Late!TypeOK
  BY <1>1 DEF Late!Init, Late!TypeOK, Late!Slots, Late!Waiting, Late!Free, Late!NoEdit,
    Late!Nothing, Late!Claims, Late!Columns
<1>3. CountInv
  BY DEF Late!Init, CountInv, Works, Late!Free
<1>4. /\ \A s \in Schedulers : ~Late!Takes(s) /\ sched[s].at # "read"
      /\ \A w \in Runners : executor[w].slot = 0
      /\ \A n \in Late!Slots : n # 0 /\ queued[n] = 0 /\ ran[n] = 0
  BY DEF Late!Init, Late!Takes, Late!Free, Late!Waiting, Late!Slots
<1>5. SlotInv
  BY <1>4 DEF SlotInv, OwnInv, SlotAt, AloneAt, RanAt, HeldAt, Late!Taken
<1> QED BY <1>2, <1>3, <1>5 DEF Late!Init

\* Where nothing gets lost, the count of losses stays.
LEMMA LossesStay ==
    ASSUME losses = 0, [Prompt!Next]_autoVars
    PROVE  losses' = losses
<1>a. ASSUME NEW s \in Schedulers, Prompt!Pass(s) PROVE losses' = losses
  BY <1>a DEF Prompt!Pass, Prompt!Acquire, Prompt!Claim, Prompt!ClaimIf, Prompt!Read, Prompt!Reload,
    Prompt!Slotless, Prompt!Fetch, Prompt!Enqueue, Prompt!EnqueueFails, Prompt!Counters, Prompt!Ends
<1>b. ASSUME NEW w \in Runners, Prompt!Work(w) PROVE losses' = losses
  BY <1>b DEF Prompt!Work, Prompt!Begin, Prompt!Execute, Prompt!Look, Prompt!Record, Prompt!Release,
    Prompt!Counters
<1>c. ASSUME Prompt!Save \/ \E n \in 0 .. LastSlot : Prompt!Edit(n) PROVE losses' = losses
  BY <1>c DEF Prompt!Edit, Prompt!Save, Prompt!Counters
<1>d. ASSUME NEW n \in Prompt!Slots, Prompt!JobExpires(n) \/ Prompt!JobAbandoned(n)
      PROVE  losses' = losses
  BY <1>d DEF Prompt!JobExpires, Prompt!JobAbandoned, Prompt!Counters
<1>e. CASE Prompt!Tick \/ Prompt!LockExpires \/ Prompt!ClaimAges
  BY <1>e DEF Prompt!Tick, Prompt!LockExpires, Prompt!ClaimAges, Prompt!Counters
<1>f. ~Prompt!Crash
  BY DEF Prompt!Crash
<1>g. CASE UNCHANGED autoVars
  BY <1>g DEF autoVars
<1> QED BY <1>a, <1>b, <1>c, <1>d, <1>e, <1>f, <1>g DEF Prompt!Next

-----------------------------------------------------------------------------
(* Backups and restores.                                                   *)

\* Without traffic nobody arrives; the other steps are the same.
LEMMA CalmSteps ==
    ASSUME Calm!Next
    PROVE  \/ \E j \in Busy!Jobs : \/ Busy!Work(j) \/ Busy!BackupFails(j)
                                   \/ Busy!RestoreFails(j) \/ Busy!Kill(j)
           \/ \E r \in Requests : Busy!Retry(r) \/ Busy!DeleteRow(r) \/ Busy!DeleteFile(r)
           \/ Busy!FreezeExpires \/ \E l \in DOMAIN held : Busy!LockExpires(l)
<1>1. ASSUME NEW j \in Calm!Jobs, Calm!Work(j) \/ Calm!BackupFails(j) \/ Calm!RestoreFails(j) \/
             Calm!Kill(j)
      PROVE  Busy!Work(j) \/ Busy!BackupFails(j) \/ Busy!RestoreFails(j) \/ Busy!Kill(j)
  <2> USE DEF Calm!At, Busy!At, Calm!Goto, Busy!Goto, Calm!End, Busy!End, Calm!Freed, Busy!Freed,
              Calm!Data, Busy!Data, Calm!Copying, Busy!Copying, Calm!Replacing, Busy!Replacing,
              Calm!Jobs, Busy!Jobs
  <2>1. /\ Calm!TakeRestore(j) => Busy!TakeRestore(j)
        /\ Calm!TakeBackup(j) => Busy!TakeBackup(j)
    BY DEF Calm!TakeRestore, Busy!TakeRestore, Calm!TakeBackup, Busy!TakeBackup
  <2>2. Calm!Freeze(j) => Busy!Freeze(j)
    BY DEF Calm!Freeze, Busy!Freeze, Calm!InFlight, Busy!InFlight
  <2>3. /\ Calm!Dump(j) => Busy!Dump(j)
        /\ Calm!Tar(j) => Busy!Tar(j)
        /\ Calm!Publish(j) => Busy!Publish(j)
        /\ Calm!Close(j) => Busy!Close(j)
        /\ Calm!Migrate(j) => Busy!Migrate(j)
    BY DEF Calm!Dump, Busy!Dump, Calm!Tar, Busy!Tar, Calm!Publish, Busy!Publish,
           Calm!Close, Busy!Close, Calm!Migrate, Busy!Migrate
  <2>4. Calm!Thaw(j) => Busy!Thaw(j)
    BY DEF Calm!Thaw, Busy!Thaw, Calm!Deleted, Busy!Deleted
  <2>5. /\ Calm!RestoreDb(j) => Busy!RestoreDb(j)
        /\ Calm!RestoreFiles(j) => Busy!RestoreFiles(j)
    BY DEF Calm!RestoreDb, Busy!RestoreDb, Calm!RestoreFiles, Busy!RestoreFiles, Calm!From,
      Busy!From
  <2>6. Calm!Open(j) => Busy!Open(j)
    BY DEF Calm!Open, Busy!Open
  <2>7. Calm!BackupFails(j) => Busy!BackupFails(j)
    BY DEF Calm!BackupFails, Busy!BackupFails
  <2>8. Calm!RestoreFails(j) => Busy!RestoreFails(j)
    BY DEF Calm!RestoreFails, Busy!RestoreFails
  <2>9. Calm!Kill(j) => Busy!Kill(j)
    BY DEF Calm!Kill, Busy!Kill
  <2> QED BY <1>1, <2>1, <2>2, <2>3, <2>4, <2>5, <2>6, <2>7, <2>8, <2>9 DEF Calm!Work, Busy!Work
<1>2. ASSUME NEW r \in Requests, Calm!Arrive(r) \/ Calm!Retry(r) \/ Calm!DeleteRow(r) \/
             Calm!DeleteFile(r)
      PROVE  Busy!Retry(r) \/ Busy!DeleteRow(r) \/ Busy!DeleteFile(r)
  BY <1>2 DEF Calm!Arrive, Calm!Retry, Calm!DeleteRow, Calm!DeleteFile,
     Busy!Retry, Busy!DeleteRow, Busy!DeleteFile
<1>3. Calm!FreezeExpires => Busy!FreezeExpires
  BY DEF Calm!FreezeExpires, Busy!FreezeExpires, Calm!Data, Busy!Data, Calm!Copying, Busy!Copying,
         Calm!Jobs, Busy!Jobs
<1>4. \A l \in DOMAIN held : Calm!LockExpires(l) => Busy!LockExpires(l)
  BY DEF Calm!LockExpires, Busy!LockExpires, Calm!Data, Busy!Data
<1> QED BY <1>1, <1>2, <1>3, <1>4 DEF Calm!Next, Calm!Jobs, Busy!Jobs

LEMMA CalmIsBusy == ASSUME Calm!Next PROVE Busy!Next
BY CalmSteps DEF Busy!Next

Records == SUBSET Requests
JobType == [at : Busy!Steps, rows : Records, stored : Records,
            back : BOOLEAN, keep : Records, late : BOOLEAN, out : Busy!Outcomes]

\* What a step makes of a job is a job.
LEMMA JobMoves ==
    ASSUME NEW j \in JobType
    PROVE  /\ \A s \in Busy!Steps : [j EXCEPT !.at = s] \in JobType
           /\ \A s \in Busy!Steps, o \in Busy!Outcomes : [j EXCEPT !.at = s, !.out = o] \in JobType
           /\ \A s \in Busy!Steps, b \in BOOLEAN : /\ [j EXCEPT !.at = s, !.late = b] \in JobType
                                                   /\ [j EXCEPT !.at = s, !.back = b] \in JobType
           /\ \A s \in Busy!Steps, S \in Records : /\ [j EXCEPT !.at = s, !.rows = S] \in JobType
                                                   /\ [j EXCEPT !.at = s, !.stored = S] \in JobType
                                                   /\ [j EXCEPT !.at = s, !.keep = S] \in JobType
           /\ \A b \in BOOLEAN : [j EXCEPT !.late = b] \in JobType
BY DEF JobType

\* Of each step on a job: that job goes on, others are told that they are late at most.
LEMMA JobSteps ==
    ASSUME job \in [Busy!Jobs -> JobType], rows \in Records, stored \in Records, NEW j \in Busy!Jobs
    PROVE  /\ \A s \in Busy!Steps : Busy!Goto(j, s) => job' \in [Busy!Jobs -> JobType]
           /\ \A o \in Busy!Outcomes : Busy!End(j, o) => job' \in [Busy!Jobs -> JobType]
           /\ Busy!Deleted(j) => job' \in [Busy!Jobs -> JobType]
<1>0. /\ job[j] \in JobType /\ "ended" \in Busy!Steps /\ "publish" \in Busy!Steps
      /\ \A k \in Busy!Jobs : job[k] \in JobType /\ [job[k] EXCEPT !.late = TRUE] \in JobType
  BY JobMoves DEF Busy!Steps
<1>1. ASSUME NEW s \in Busy!Steps, Busy!Goto(j, s) PROVE job' \in [Busy!Jobs -> JobType]
  <2>1. job' = [job EXCEPT ![j] = [job[j] EXCEPT !.at = s]]
    BY <1>1 DEF Busy!Goto
  <2>2. [job[j] EXCEPT !.at = s] \in JobType
    BY <1>0, JobMoves
  <2> QED BY <2>1, <2>2
<1>2. ASSUME NEW o \in Busy!Outcomes, Busy!End(j, o) PROVE job' \in [Busy!Jobs -> JobType]
  <2>1. job' = [job EXCEPT ![j] = [job[j] EXCEPT !.at = "ended", !.out = o]]
    BY <1>2 DEF Busy!End
  <2>2. [job[j] EXCEPT !.at = "ended", !.out = o] \in JobType
    BY <1>0, JobMoves
  <2> QED BY <2>1, <2>2
<1>3. ASSUME Busy!Deleted(j) PROVE job' \in [Busy!Jobs -> JobType]
  <2>1. \A s \in {"publish", "ended"} : [job[j] EXCEPT !.at = s] \in JobType
    BY <1>0, JobMoves
  <2> QED BY <1>0, <1>3, <2>1 DEF Busy!Deleted
<1> QED BY <1>1, <1>2, <1>3

\* Nor does a step leave the types.
LEMMA BackupTypeStep ==
    Busy!BackupAssumption /\ Busy!TypeOK /\ [Busy!Next]_backupVars => Busy!TypeOK'
<1>a. SUFFICES ASSUME Busy!BackupAssumption, Busy!TypeOK, [Busy!Next]_backupVars
               PROVE  Busy!TypeOK'
  OBVIOUS
<1>0. /\ job \in [Busy!Jobs -> JobType]
      /\ held \in [{"backup", "restore"} -> Busy!Jobs \cup {None}]
      /\ \A l \in {"backup", "restore"}, j \in Busy!Jobs :
            Busy!Freed(l, j) \in [{"backup", "restore"} -> Busy!Jobs \cup {None}]
      /\ rows \in Records /\ stored \in Records
  BY <1>a DEF Busy!TypeOK, JobType, Busy!Freed, Records
<1>1. ASSUME job' \in [Busy!Jobs -> JobType],
             held' \in [{"backup", "restore"} -> Busy!Jobs \cup {None}],
             freeze' \in {"none", "backup", "restore"}, fails' \in 0 .. MaxFails,
             rows' \subseteq Requests, stored' \subseteq Requests,
             request' \in [Requests -> {"idle", "admitted", "row", "done", "refused"}]
      PROVE  Busy!TypeOK'
  BY <1>1 DEF Busy!TypeOK, JobType, Records, Busy!Jobs, Busy!Steps, Busy!Outcomes
<1>2. /\ rows \subseteq Requests /\ stored \subseteq Requests /\ fails \in 0 .. MaxFails
      /\ request \in [Requests -> {"idle", "admitted", "row", "done", "refused"}]
      /\ freeze \in {"none", "backup", "restore"}
      /\ fails < MaxFails => fails + 1 \in 0 .. MaxFails
  BY <1>a DEF Busy!TypeOK, Busy!BackupAssumption
<1>3. ASSUME NEW j \in Busy!Jobs, Busy!TakeRestore(j) \/ Busy!TakeBackup(j) \/ Busy!Freeze(j)
                                  \/ Busy!Dump(j) \/ Busy!Tar(j)
      PROVE  Busy!TypeOK'
  <2>1. job' \in [Busy!Jobs -> JobType]
    <3>1. CASE Busy!TakeRestore(j)
      BY <1>0, <3>1, JobSteps DEF Busy!TakeRestore, Busy!Steps, Busy!Outcomes
    <3>2. CASE Busy!TakeBackup(j)
      BY <1>0, <3>2, JobSteps DEF Busy!TakeBackup, Busy!Steps, Busy!Outcomes
    <3>3. CASE Busy!Freeze(j)
      <4> DEFINE torn == Busy!InFlight \/ Busy!Replacing # {} \/ ~(rows \subseteq stored)
      <4>1. job' = [job EXCEPT ![j] = [job[j] EXCEPT !.at = "dump", !.late = torn]]
        BY <1>0, <3>3 DEF Busy!Freeze
      <4>2. [job[j] EXCEPT !.at = "dump", !.late = torn] \in JobType
        <5>1. torn \in BOOLEAN /\ job[j] \in JobType /\ "dump" \in Busy!Steps
          BY <1>0 DEF Busy!Steps
        <5> HIDE DEF torn
        <5> QED BY <5>1, JobMoves
      <4> QED BY <1>0, <4>1, <4>2
    <3>4. CASE Busy!Dump(j)
      <4>1. job' = [job EXCEPT ![j] = [job[j] EXCEPT !.at = "tar", !.rows = rows]]
        BY <1>0, <3>4 DEF Busy!Dump
      <4>2. [job[j] EXCEPT !.at = "tar", !.rows = rows] \in JobType
        BY <1>0, JobMoves DEF Busy!Steps
      <4> QED BY <1>0, <4>1, <4>2
    <3>5. CASE Busy!Tar(j)
      <4>1. job' = [job EXCEPT ![j] = [job[j] EXCEPT !.at = "thaw", !.stored = stored]]
        BY <1>0, <3>5 DEF Busy!Tar
      <4>2. [job[j] EXCEPT !.at = "thaw", !.stored = stored] \in JobType
        BY <1>0, JobMoves DEF Busy!Steps
      <4> QED BY <1>0, <4>1, <4>2
    <3> QED BY <1>3, <3>1, <3>2, <3>3, <3>4, <3>5
  <2>2. held' \in [{"backup", "restore"} -> Busy!Jobs \cup {None}]
    BY <1>0, <1>3 DEF Busy!TakeRestore, Busy!TakeBackup, Busy!Freeze, Busy!Dump, Busy!Tar
  <2> QED BY <1>1, <1>2, <1>3, <2>1, <2>2
        DEF Busy!TakeRestore, Busy!TakeBackup, Busy!Freeze, Busy!Dump, Busy!Tar, Busy!Data
<1>4. ASSUME NEW j \in Busy!Jobs, Busy!Thaw(j) \/ Busy!Publish(j) \/ Busy!Close(j) \/
             Busy!RestoreDb(j)
                                  \/ Busy!RestoreFiles(j) \/ Busy!Migrate(j) \/ Busy!Open(j)
      PROVE  Busy!TypeOK'
  <2>0. Busy!From(j).rows \subseteq Requests /\ Busy!From(j).stored \subseteq Requests
    BY <1>0 DEF Busy!From, JobType, Records
  <2>1. job' \in [Busy!Jobs -> JobType]
    <3>1. CASE Busy!Thaw(j)
      BY <1>0, <3>1, JobSteps DEF Busy!Thaw
    <3>2. CASE Busy!Publish(j) \/ Busy!Close(j) \/ Busy!Migrate(j)
      BY <1>0, <3>2, JobSteps DEF Busy!Publish, Busy!Close, Busy!Migrate, Busy!Steps, Busy!Outcomes
    <3>3. CASE Busy!RestoreDb(j)
      <4>1. [job[j] EXCEPT !.at = "files"] \in JobType
        BY <1>0, JobMoves DEF Busy!Steps
      <4>2. ASSUME NEW k \in Busy!Jobs
            PROVE  [job[k] EXCEPT !.late = @ \/ k \in Busy!Copying] \in JobType
        <5> DEFINE torn == job[k].late \/ k \in Busy!Copying
        <5>1. torn \in BOOLEAN /\ job[k] \in JobType
          BY <1>0
        <5>2. [job[k] EXCEPT !.late = torn] \in JobType
          <6> HIDE DEF torn
          <6> QED BY <5>1, JobMoves
        <5> QED BY <5>2
      <4> QED BY <3>3, <4>1, <4>2 DEF Busy!RestoreDb
    <3>4. CASE Busy!RestoreFiles(j)
      <4>1. job' = [job EXCEPT ![j] = [job[j] EXCEPT !.at = "migrate", !.keep = stored]]
        BY <1>0, <3>4 DEF Busy!RestoreFiles
      <4>2. [job[j] EXCEPT !.at = "migrate", !.keep = stored] \in JobType
        BY <1>0, JobMoves DEF Busy!Steps
      <4> QED BY <1>0, <4>1, <4>2
    <3>5. CASE Busy!Open(j)
      <4>1. \A o \in {"rolled back", "restored"} : [job[j] EXCEPT !.at = "ended",
            !.out = o] \in JobType
        BY <1>0, JobMoves DEF Busy!Steps, Busy!Outcomes
      <4>2. \A k \in Busy!Jobs : job[k] \in JobType /\ [job[k] EXCEPT !.late = TRUE] \in JobType
        BY <1>0, JobMoves
      <4> QED BY <3>5, <4>1, <4>2 DEF Busy!Open
    <3> QED BY <1>4, <3>1, <3>2, <3>3, <3>4, <3>5
  <2>2. held' \in [{"backup", "restore"} -> Busy!Jobs \cup {None}]
    BY <1>0, <1>4 DEF Busy!Thaw, Busy!Publish, Busy!Close, Busy!RestoreDb, Busy!RestoreFiles,
       Busy!Migrate, Busy!Open
  <2>3. freeze' \in {"none", "backup", "restore"} /\ UNCHANGED <<request, fails>>
    BY <1>2, <1>4 DEF Busy!Thaw, Busy!Publish, Busy!Close, Busy!RestoreDb, Busy!RestoreFiles,
       Busy!Migrate, Busy!Open, Busy!Deleted, Busy!Data
  <2>4. rows' \subseteq Requests /\ stored' \subseteq Requests
    BY <1>2, <1>4, <2>0 DEF Busy!Thaw, Busy!Publish, Busy!Close, Busy!RestoreDb, Busy!RestoreFiles,
       Busy!Migrate, Busy!Open, Busy!Data
  <2> QED BY <1>1, <1>2, <2>1, <2>2, <2>3, <2>4
<1>5. ASSUME NEW j \in Busy!Jobs, Busy!BackupFails(j) \/ Busy!RestoreFails(j) \/ Busy!Kill(j)
      PROVE  Busy!TypeOK'
  <2>1. job' \in [Busy!Jobs -> JobType]
    <3>1. CASE Busy!BackupFails(j)
      <4>1. \A o \in {"failed", "not started"} : [job[j] EXCEPT !.at = "ended",
            !.out = o] \in JobType
        BY <1>0, JobMoves DEF Busy!Steps, Busy!Outcomes
      <4>2. \A k \in Busy!Jobs : job[k] \in JobType /\ [job[k] EXCEPT !.late = TRUE] \in JobType
        BY <1>0, JobMoves
      <4> QED BY <3>1, <4>1, <4>2 DEF Busy!BackupFails
    <3>2. CASE Busy!RestoreFails(j)
      <4>1. /\ [job[j] EXCEPT !.at = "ended", !.out = "unsafe"] \in JobType
            /\ [job[j] EXCEPT !.at = "close", !.back = TRUE] \in JobType
        BY <1>0, JobMoves DEF Busy!Steps, Busy!Outcomes
      <4>2. \A k \in Busy!Jobs : job[k] \in JobType /\ [job[k] EXCEPT !.late = TRUE] \in JobType
        BY <1>0, JobMoves
      <4> QED BY <3>2, <4>1, <4>2 DEF Busy!RestoreFails
    <3>3. CASE Busy!Kill(j)
      BY <1>0, <3>3, JobSteps DEF Busy!Kill, Busy!Outcomes
    <3> QED BY <1>5, <3>1, <3>2, <3>3
  <2>2. held' \in [{"backup", "restore"} -> Busy!Jobs \cup {None}]
    BY <1>0, <1>5 DEF Busy!BackupFails, Busy!RestoreFails, Busy!Kill
  <2>3. /\ freeze' \in {"none", "backup", "restore"} /\ fails' \in 0 .. MaxFails
        /\ UNCHANGED <<rows, request>>
    BY <1>2, <1>5 DEF Busy!BackupFails, Busy!RestoreFails, Busy!Kill, Busy!Data
  <2>4. stored' \subseteq Requests
    <3>1. job[j].keep \subseteq Requests
      BY <1>0 DEF JobType, Records
    <3> QED BY <1>2, <1>5, <3>1 DEF Busy!BackupFails, Busy!RestoreFails, Busy!Kill, Busy!Data
  <2> QED BY <1>1, <1>2, <2>1, <2>2, <2>3, <2>4
<1>6. ASSUME NEW r \in Requests,
             Busy!Arrive(r) \/ Busy!Retry(r) \/ Busy!DeleteRow(r) \/ Busy!DeleteFile(r)
      PROVE  Busy!TypeOK'
  BY <1>0, <1>1, <1>2, <1>6 DEF Busy!Arrive, Busy!Retry, Busy!DeleteRow, Busy!DeleteFile
<1>7. CASE Busy!FreezeExpires
  <2>1. job' \in [Busy!Jobs -> JobType]
    BY <1>0, <1>7, JobMoves DEF Busy!FreezeExpires
  <2> QED BY <1>0, <1>1, <1>2, <1>7, <2>1 DEF Busy!FreezeExpires, Busy!Data
<1>8. ASSUME NEW l \in DOMAIN held, Busy!LockExpires(l) PROVE Busy!TypeOK'
  BY <1>0, <1>1, <1>2, <1>8 DEF Busy!LockExpires, Busy!Data
<1>9. CASE UNCHANGED backupVars
  BY <1>0, <1>1, <1>2, <1>9 DEF backupVars
<1> QED BY <1>a, <1>3, <1>4, <1>5, <1>6, <1>7, <1>8, <1>9 DEF Busy!Next, Busy!Work

\* A backup, and a restore before it has its own, replace nothing.
Replacers == \A b \in Backups : job[b].at \notin {"close", "db", "files", "migrate", "open"}

\* As long as a copy may be trusted, requests stay away, no restore is at work, and
\* what has been copied is what is there.
CopyInv ==
    \A j \in Busy!Jobs : ~job[j].late =>
        /\ job[j].at \in {"dump", "tar"} =>
              /\ freeze # "none" /\ rows \subseteq stored
              /\ \A r \in Requests : request[r] \notin {"admitted", "row"}
              /\ \A k \in Busy!Jobs : job[k].at \notin {"files", "migrate"}
        /\ job[j].at = "tar" => job[j].rows = rows
        /\ job[j].at \in {"thaw", "publish", "close", "db", "files", "migrate"} =>
              job[j].rows \subseteq job[j].stored

BackupInv == Replacers /\ CopyInv

\* The records of jobs.
LEMMA JobTyped ==
    ASSUME Busy!BackupAssumption, Busy!TypeOK
    PROVE  /\ job \in [Busy!Jobs -> JobType] /\ rows \in Records /\ stored \in Records
           /\ \A b \in Backups : b \in Busy!Jobs /\ b \notin Restores
           /\ \A b \in Restores : b \in Busy!Jobs /\ b \notin Backups
BY DEF Busy!TypeOK, Busy!BackupAssumption, JobType, Records, Busy!Jobs

LEMMA BackupStep ==
    Busy!BackupAssumption /\ Busy!TypeOK /\ BackupInv /\ [Busy!Next]_backupVars => BackupInv'
<1>a. SUFFICES ASSUME Busy!BackupAssumption, Busy!TypeOK, BackupInv, [Busy!Next]_backupVars
               PROVE  BackupInv'
  OBVIOUS
<1>0. /\ job \in [Busy!Jobs -> JobType] /\ Busy!Jobs = Backups \cup Restores
      /\ \A b \in Backups : b \in Busy!Jobs /\ b \notin Restores
      /\ \A b \in Restores : b \in Busy!Jobs /\ b \notin Backups
  BY <1>a, JobTyped DEF Busy!Jobs
<1>b. Replacers /\ CopyInv
  BY <1>a DEF BackupInv
\* One job goes from a step to another, with the data as they are.
<1>1. ASSUME NEW j \in Busy!Jobs, NEW to \in Busy!Steps, job'[j].at = to,
             \A k \in Busy!Jobs \ {j} : job'[k] = job[k],
             UNCHANGED <<rows, stored, request>>, freeze' = freeze \/ freeze' = "restore",
             to \notin {"dump", "tar", "files", "migrate"},
             to \in {"thaw", "publish", "close", "db"} /\ ~job'[j].late =>
                job'[j].rows \subseteq job'[j].stored,
             to \in {"close", "db", "open"} => j \in Restores
      PROVE  BackupInv'
  <2>1. Replacers'
    BY <1>0, <1>1, <1>b DEF Replacers
  <2>2. CopyInv'
    BY <1>0, <1>1, <1>b DEF CopyInv
  <2> QED BY <2>1, <2>2 DEF BackupInv
<1>2. ASSUME NEW j \in Busy!Jobs, Busy!TakeRestore(j) \/ Busy!TakeBackup(j) PROVE BackupInv'
  <2>1. \E to \in {"pre", "freeze", "ended"} :
          /\ job'[j].at = to /\ \A k \in Busy!Jobs \ {j} : job'[k] = job[k]
          /\ UNCHANGED <<rows, stored, request, freeze>>
    BY <1>0, <1>2 DEF Busy!TakeRestore, Busy!TakeBackup, Busy!Goto, Busy!End, Busy!Data, JobType
  <2> QED BY <1>1, <2>1 DEF Busy!Steps
<1>3. ASSUME NEW j \in Busy!Jobs, Busy!Publish(j) \/ Busy!Close(j) \/ Busy!Kill(j) PROVE BackupInv'
  <2>1. \E to \in {"ended", "close", "db"} :
          /\ job'[j].at = to /\ \A k \in Busy!Jobs \ {j} : job'[k] = job[k]
          /\ UNCHANGED <<rows, stored, request>>
          /\ freeze' = freeze \/ freeze' = "restore"
          /\ job'[j].late = job[j].late /\ job'[j].rows = job[j].rows /\
                job'[j].stored = job[j].stored
          /\ to = "close" => job[j].at = "publish" /\ j \notin Backups
          /\ to = "db" => job[j].at = "close"
    BY <1>0, <1>3 DEF Busy!Publish, Busy!Close, Busy!Kill, Busy!Goto, Busy!End, Busy!Data, Busy!At,
      JobType
  <2> QED BY <1>0, <1>1, <1>b, <2>1 DEF Busy!Steps, CopyInv, Replacers
<1>4. ASSUME NEW j \in Busy!Jobs, Busy!Freeze(j) PROVE BackupInv'
  <2>1. /\ job'[j].at = "dump" /\ job'[j].rows = job[j].rows /\ job'[j].stored = job[j].stored
        /\ \A k \in Busy!Jobs \ {j} : job'[k] = job[k]
        /\ UNCHANGED <<rows, stored, request>> /\ freeze' = "backup"
        /\ ~job'[j].late => ~Busy!InFlight /\ Busy!Replacing = {} /\ rows \subseteq stored
    BY <1>0, <1>4 DEF Busy!Freeze, Busy!Data, JobType
  <2>2. Replacers'
    BY <1>0, <1>b, <2>1 DEF Replacers
  <2>3. ~job'[j].late => /\ \A r \in Requests : request[r] \notin {"admitted", "row"}
                         /\ \A k \in Busy!Jobs : job[k].at \notin {"files", "migrate"}
    BY <1>0, <1>b, <2>1 DEF Busy!InFlight, Busy!Replacing, Replacers
  <2>4. CopyInv'
    BY <1>0, <1>b, <2>1, <2>3 DEF CopyInv
  <2> QED BY <2>2, <2>4 DEF BackupInv
<1>5. ASSUME NEW j \in Busy!Jobs, Busy!Dump(j) \/ Busy!Tar(j) PROVE BackupInv'
  <2>1. \/ job[j].at = "dump" /\ job'[j] = [job[j] EXCEPT !.at = "tar", !.rows = rows]
        \/ job[j].at = "tar" /\ job'[j] = [job[j] EXCEPT !.at = "thaw", !.stored = stored]
    BY <1>0, <1>5 DEF Busy!Dump, Busy!Tar, Busy!At
  <2>4. /\ \A k \in Busy!Jobs \ {j} : job'[k] = job[k]
        /\ UNCHANGED <<rows, stored, request, freeze>>
    BY <1>0, <1>5 DEF Busy!Dump, Busy!Tar, Busy!Data
  <2>5. /\ job'[j].late = job[j].late
        /\ \/ job[j].at = "dump" /\ job'[j].at = "tar" /\ job'[j].rows = rows
           \/ /\ job[j].at = "tar" /\ job'[j].at = "thaw"
              /\ job'[j].rows = job[j].rows /\ job'[j].stored = stored
    BY <1>0, <2>1 DEF JobType
  <2>2. Replacers'
    BY <1>0, <1>b, <2>4, <2>5 DEF Replacers
  <2>3. CopyInv'
    BY <1>0, <1>b, <2>4, <2>5 DEF CopyInv
  <2> QED BY <2>2, <2>3 DEF BackupInv
\* One job goes on, and whoever copies is told.
<1>6. ASSUME NEW j \in Busy!Jobs,
             job'[j].at \in {"publish", "ended", "files", "migrate", "close"},
             job'[j].at = "publish" => job[j].at = "thaw" /\ job'[j].late = job[j].late
                                       /\ job'[j].rows = job[j].rows /\
                                             job'[j].stored = job[j].stored,
             job'[j].at \in {"files", "migrate", "close"} => j \in Restores,
             job'[j].at \in {"close", "files", "migrate"} /\ ~job'[j].late =>
                job'[j].rows \subseteq job'[j].stored,
             \A k \in Busy!Jobs \ {j} : 
                /\ job'[k].at = job[k].at /\ job'[k].rows = job[k].rows /\
                      job'[k].stored = job[k].stored
                /\ job[k].late => job'[k].late
                /\ job[k].at \in {"dump", "tar"} => job'[k].late
      PROVE  BackupInv'
  <2>1. Replacers'
    BY <1>0, <1>6, <1>b DEF Replacers
  <2>2. CopyInv'
    BY <1>0, <1>6, <1>b DEF CopyInv
  <2> QED BY <2>1, <2>2 DEF BackupInv
\* Of every job that is not meant.
<1>7. ASSUME NEW j \in Busy!Jobs, NEW k \in Busy!Jobs \ {j},
             job'[k] = IF k \in Busy!Copying THEN [job[k] EXCEPT !.late = TRUE] ELSE job[k]
      PROVE  /\ job'[k].at = job[k].at /\ job'[k].rows = job[k].rows /\
                   job'[k].stored = job[k].stored
             /\ job[k].late => job'[k].late
             /\ job[k].at \in {"dump", "tar"} => job'[k].late
  BY <1>0, <1>7 DEF JobType, Busy!Copying
<1>8. ASSUME NEW j \in Busy!Jobs, Busy!Thaw(j) PROVE BackupInv'
  <2>1. /\ job[j].at = "thaw" /\ job'[j] = [job[j] EXCEPT !.at = "publish"]
        /\ \A k \in Busy!Jobs \ {j} :
              job'[k] = IF k \in Busy!Copying THEN [job[k] EXCEPT !.late = TRUE] ELSE job[k]
    BY <1>0, <1>8 DEF Busy!Thaw, Busy!Deleted, Busy!At
  <2>2. job'[j].at = "publish" /\ job'[j].late = job[j].late /\ job'[j].rows = job[j].rows
        /\ job'[j].stored = job[j].stored
    BY <1>0, <2>1 DEF JobType
  <2> QED BY <1>6, <1>7, <2>1, <2>2
<1>9. ASSUME NEW j \in Busy!Jobs, Busy!Open(j) PROVE BackupInv'
  <2>1. /\ \E o \in Busy!Outcomes : job'[j] = [job[j] EXCEPT !.at = "ended", !.out = o]
        /\ \A k \in Busy!Jobs \ {j} :
              job'[k] = IF k \in Busy!Copying THEN [job[k] EXCEPT !.late = TRUE] ELSE job[k]
    BY <1>0, <1>9 DEF Busy!Open, Busy!Outcomes
  <2>2. job'[j].at = "ended"
    BY <1>0, <2>1 DEF JobType
  <2> QED BY <1>6, <1>7, <2>1, <2>2
<1>10. ASSUME NEW j \in Busy!Jobs, Busy!BackupFails(j) PROVE BackupInv'
  <2>1. \E o \in Busy!Outcomes : job'[j] = [job[j] EXCEPT !.at = "ended", !.out = o]
    BY <1>0, <1>10 DEF Busy!BackupFails, Busy!Outcomes
  <2>2. job'[j].at = "ended"
    BY <1>0, <2>1 DEF JobType
  <2>3. CASE job[j].at = "publish"
    <3>1. /\ \A k \in Busy!Jobs \ {j} : job'[k] = job[k]
          /\ UNCHANGED <<rows, stored, request, freeze>>
      BY <1>0, <1>10, <2>3 DEF Busy!BackupFails, Busy!At, Busy!Data
    <3> QED BY <1>1, <2>2, <3>1 DEF Busy!Steps
  <2>4. CASE job[j].at # "publish"
    <3>1. \A k \in Busy!Jobs \ {j} :
              job'[k] = IF k \in Busy!Copying THEN [job[k] EXCEPT !.late = TRUE] ELSE job[k]
      BY <1>0, <1>10, <2>4 DEF Busy!BackupFails, Busy!At
    <3> QED BY <1>6, <1>7, <2>2, <3>1
  <2> QED BY <2>3, <2>4
<1>11. ASSUME NEW j \in Busy!Jobs, Busy!RestoreFails(j) PROVE BackupInv'
  <2>1. /\ j \in Restores /\ job[j].at \in {"db", "files", "migrate"}
        /\ \/ job'[j] = [job[j] EXCEPT !.at = "ended", !.out = "unsafe"]
           \/ job'[j] = [job[j] EXCEPT !.at = "close", !.back = TRUE]
        /\ \A k \in Busy!Jobs \ {j} :
              job'[k] = IF k \in Busy!Copying THEN [job[k] EXCEPT !.late = TRUE] ELSE job[k]
    BY <1>0, <1>11 DEF Busy!RestoreFails, Busy!Replacing
  <2>2. /\ job'[j].at \in {"ended", "close"} /\ job'[j].late = job[j].late
        /\ job'[j].rows = job[j].rows /\ job'[j].stored = job[j].stored
    BY <1>0, <2>1 DEF JobType
  <2>3. ~job[j].late => job[j].rows \subseteq job[j].stored
    BY <1>b, <2>1 DEF CopyInv
  <2> QED BY <1>6, <1>7, <2>1, <2>2, <2>3
<1>12. ASSUME NEW j \in Busy!Jobs, Busy!RestoreDb(j) PROVE BackupInv'
  <2>1. /\ job[j].at = "db" /\ job'[j] = [job[j] EXCEPT !.at = "files"]
        /\ \A k \in Busy!Jobs \ {j} : job'[k] = [job[k] EXCEPT !.late = @ \/ k \in Busy!Copying]
    BY <1>0, <1>12 DEF Busy!RestoreDb, Busy!At
  <2>2. /\ job'[j].at = "files" /\ job'[j].late = job[j].late
        /\ job'[j].rows = job[j].rows /\ job'[j].stored = job[j].stored
    BY <1>0, <2>1 DEF JobType
  <2>3. j \in Restores /\ (~job[j].late => job[j].rows \subseteq job[j].stored)
    BY <1>0, <1>b, <2>1 DEF CopyInv, Replacers
  <2>4. ASSUME NEW k \in Busy!Jobs \ {j}
        PROVE  /\ job'[k].at = job[k].at /\ job'[k].rows = job[k].rows /\
                     job'[k].stored = job[k].stored
               /\ job[k].late => job'[k].late
               /\ job[k].at \in {"dump", "tar"} => job'[k].late
    <3>1. job'[k] = [job[k] EXCEPT !.late = job[k].late \/ k \in Busy!Copying]
      BY <1>0, <2>1, <2>4
    <3>2. job[k].at \in {"dump", "tar"} => k \in Busy!Copying
      BY DEF Busy!Copying
    <3> QED BY <1>0, <3>1, <3>2 DEF JobType
  <2> QED BY <1>6, <2>1, <2>2, <2>3, <2>4
<1>13. ASSUME NEW j \in Busy!Jobs, Busy!RestoreFiles(j) PROVE BackupInv'
  <2>1. /\ job[j].at = "files" /\
              job' = [job EXCEPT ![j] = [job[j] EXCEPT !.at = "migrate", !.keep = stored]]
    BY <1>0, <1>13 DEF Busy!RestoreFiles, Busy!At
  <2>2. /\ job'[j].at = "migrate" /\ job'[j].late = job[j].late
        /\ job'[j].rows = job[j].rows /\ job'[j].stored = job[j].stored
        /\ \A k \in Busy!Jobs \ {j} : job'[k] = job[k]
    BY <1>0, <2>1 DEF JobType
  <2>3. j \in Restores /\ (~job[j].late => job[j].rows \subseteq job[j].stored)
    BY <1>0, <1>b, <2>1 DEF CopyInv, Replacers
  <2>4. \A k \in Busy!Jobs : job[k].at \in {"dump", "tar"} => job[k].late
    BY <1>b, <2>1 DEF CopyInv
  <2> QED BY <1>6, <2>2, <2>3, <2>4
<1>14. ASSUME NEW j \in Busy!Jobs, Busy!Migrate(j) PROVE BackupInv'
  <2>1. /\ job[j].at = "migrate" /\ job'[j].at = "open"
        /\ \A k \in Busy!Jobs \ {j} : job'[k] = job[k]
        /\ UNCHANGED <<rows, stored, request, freeze>>
    BY <1>0, <1>14 DEF Busy!Migrate, Busy!At, Busy!Goto, Busy!Data, JobType
  <2>2. j \in Restores
    BY <1>0, <1>b, <2>1 DEF Replacers
  <2> QED BY <1>1, <2>1, <2>2 DEF Busy!Steps
\* Requests are let in and delete only where no copy may be trusted.
<1>15. ASSUME NEW r \in Requests,
              Busy!Arrive(r) \/ Busy!Retry(r) \/ Busy!DeleteRow(r) \/ Busy!DeleteFile(r)
       PROVE  BackupInv'
  <2>1. job' = job /\ freeze' = freeze
    BY <1>15 DEF Busy!Arrive, Busy!Retry, Busy!DeleteRow, Busy!DeleteFile
  <2>2. CASE freeze # "none" /\ \A q \in Requests : request[q] \notin {"admitted", "row"}
    <3>1. /\ UNCHANGED <<rows, stored>>
          /\ \A q \in Requests : request'[q] \notin {"admitted", "row"}
      BY <1>a, <1>15, <2>2 DEF Busy!Arrive, Busy!Retry, Busy!DeleteRow, Busy!DeleteFile, Busy!TypeOK
    <3> QED BY <1>b, <2>1, <3>1 DEF BackupInv, CopyInv, Replacers
  <2>3. CASE ~(freeze # "none" /\ \A q \in Requests : request[q] \notin {"admitted", "row"})
    <3>1. \A j \in Busy!Jobs : ~job[j].late => job[j].at \notin {"dump", "tar"}
      BY <1>b, <2>3 DEF CopyInv
    <3> QED BY <1>b, <2>1, <3>1 DEF BackupInv, CopyInv, Replacers
  <2> QED BY <2>2, <2>3
<1>16. CASE Busy!FreezeExpires
  <2>1. \A k \in Busy!Jobs :
            job'[k] = IF k \in Busy!Copying THEN [job[k] EXCEPT !.late = TRUE] ELSE job[k]
    BY <1>0, <1>16 DEF Busy!FreezeExpires
  <2>2. \A k \in Busy!Jobs :
             /\ job'[k].at = job[k].at /\ job'[k].rows = job[k].rows /\
                   job'[k].stored = job[k].stored
             /\ job[k].late => job'[k].late
             /\ job[k].at \in {"dump", "tar"} => job'[k].late
    BY <1>0, <2>1 DEF JobType, Busy!Copying
  <2> QED BY <1>0, <1>b, <2>2 DEF BackupInv, CopyInv, Replacers
<1>17. ASSUME UNCHANGED <<job, rows, stored, request, freeze>> PROVE BackupInv'
  BY <1>b, <1>17 DEF BackupInv, CopyInv, Replacers
<1>18. CASE UNCHANGED backupVars \/ \E l \in DOMAIN held : Busy!LockExpires(l)
  BY <1>17, <1>18 DEF backupVars, Busy!LockExpires, Busy!Data
<1> QED BY <1>a, <1>2, <1>3, <1>4, <1>5, <1>8, <1>9, <1>10, <1>11, <1>12, <1>13, <1>14, <1>15,
  <1>16, <1>18
    DEF Busy!Next, Busy!Work

\* Of the only restore, when nobody else writes: until it replaces the database, and
\* after it has replaced the files, rows and files are of one state; and so are the
\* two in the archive that it made to go back to.
WholeInv ==
    /\ \A r \in Requests : request[r] \in {"idle", "refused"}
    /\ \A j \in Restores :
         /\ job[j].at \in {"queued", "pre", "freeze", "dump", "tar", "thaw", "publish"} =>
               rows = stored /\ ~job[j].back
         /\ job[j].at = "tar" => job[j].rows = rows
         /\ job[j].at \in {"thaw", "publish", "close", "db", "files", "migrate"} =>
               job[j].rows = job[j].stored
         /\ job[j].at \in {"close", "db"} /\ ~job[j].back => rows = stored
         /\ job[j].at = "files" => rows = Busy!From(j).rows
         /\ job[j].at \in {"migrate", "open"} => rows = stored
         /\ job[j].at = "ended" /\ job[j].out \in {"not started", "restored", "rolled back"} =>
               rows = stored

LEMMA WholeStep ==
    ASSUME NEW r, Restores = {r}
    PROVE  Busy!BackupAssumption /\ Busy!TypeOK /\ Replacers /\ WholeInv /\ [Calm!Next]_backupVars
               => WholeInv'
<1>a. SUFFICES ASSUME Busy!BackupAssumption, Busy!TypeOK, Replacers, WholeInv,
                      [Calm!Next]_backupVars
               PROVE  WholeInv'
  OBVIOUS
<1>0. /\ job \in [Busy!Jobs -> JobType] /\ r \in Busy!Jobs /\ r \notin Backups
      /\ \A j \in Busy!Jobs : j # r => j \in Backups
      /\ rows \in Records /\ stored \in Records
  BY <1>a, JobTyped DEF Busy!Jobs
<1>b. WholeInv
  BY <1>a
\* Requests rest, and other jobs write nothing.
<1>1. ASSUME job'[r] = job[r] \/ job'[r] = [job[r] EXCEPT !.late = TRUE],
             UNCHANGED <<rows, stored>>, \A q \in Requests : request'[q] \in {"idle", "refused"}
      PROVE  WholeInv'
  <2>1. /\ job'[r].at = job[r].at /\ job'[r].rows = job[r].rows /\ job'[r].stored = job[r].stored
        /\ job'[r].back = job[r].back /\ job'[r].out = job[r].out
    BY <1>0, <1>1 DEF JobType
  <2> QED BY <1>b, <1>1, <2>1 DEF WholeInv, Busy!From
<1>2. ASSUME NEW j \in Busy!Jobs, j # r,
             Busy!Work(j) \/ Busy!BackupFails(j) \/ Busy!RestoreFails(j) \/ Busy!Kill(j)
      PROVE  WholeInv'
  <2>1. j \notin Restores /\ job[j].at \notin {"close", "db", "files", "migrate", "open"}
    BY <1>a, <1>0, <1>2 DEF Replacers
  <2>2. ~Busy!TakeRestore(j) /\ ~Busy!RestoreFails(j)
    BY <2>1 DEF Busy!TakeRestore, Busy!RestoreFails, Busy!Replacing
  <2>3. ~Busy!Close(j) /\ ~Busy!RestoreDb(j) /\ ~Busy!RestoreFiles(j) /\ ~Busy!Migrate(j) /\
        ~Busy!Open(j)
    BY <2>1 DEF Busy!Close, Busy!RestoreDb, Busy!RestoreFiles, Busy!Migrate, Busy!Open, Busy!At
  <2>4. UNCHANGED <<rows, stored, request>>
    BY <1>2, <2>2, <2>3 DEF Busy!Work, Busy!TakeBackup, Busy!Freeze, Busy!Dump, Busy!Tar, Busy!Thaw,
       Busy!Publish, Busy!BackupFails, Busy!Kill, Busy!Data
  <2>5. job'[r] = job[r] \/ job'[r] = [job[r] EXCEPT !.late = TRUE]
    <3>1. CASE Busy!Thaw(j)
      BY <1>0, <1>2, <3>1 DEF Busy!Thaw, Busy!Deleted
    <3>2. CASE Busy!BackupFails(j)
      BY <1>0, <1>2, <3>2 DEF Busy!BackupFails
    <3>3. CASE Busy!TakeBackup(j) \/ Busy!Freeze(j) \/ Busy!Dump(j) \/ Busy!Tar(j) \/
               Busy!Publish(j)
               \/ Busy!Kill(j)
      BY <1>0, <1>2, <3>3 DEF Busy!TakeBackup, Busy!Freeze, Busy!Dump, Busy!Tar, Busy!Publish,
         Busy!Kill, Busy!Goto, Busy!End
    <3> QED BY <1>2, <2>2, <2>3, <3>1, <3>2, <3>3 DEF Busy!Work
  <2> QED BY <1>1, <1>b, <2>4, <2>5 DEF WholeInv
\* The restore itself.
<1>3. ASSUME Busy!Work(r) \/ Busy!BackupFails(r) \/ Busy!RestoreFails(r) \/ Busy!Kill(r)
      PROVE  WholeInv'
  <2>0. /\ job[r] \in JobType /\ r \in Restores /\ job[r].back \in BOOLEAN
        /\ job' \in [Busy!Jobs -> JobType] => job'[r] \in JobType
    BY <1>0 DEF JobType
  <2>1. request' = request /\ \A q \in Requests : request[q] \in {"idle", "refused"}
    BY <1>3, <1>b DEF WholeInv, Busy!Work, Busy!TakeRestore, Busy!TakeBackup, Busy!Freeze,
      Busy!Dump,
       Busy!Tar, Busy!Thaw, Busy!Publish, Busy!Close, Busy!RestoreDb, Busy!RestoreFiles,
         Busy!Migrate,
       Busy!Open, Busy!BackupFails, Busy!RestoreFails, Busy!Kill, Busy!Data
  <2>2. CASE Busy!TakeRestore(r) \/ Busy!TakeBackup(r)
    <3>1. /\ job[r].at \in {"queued", "pre"} /\ UNCHANGED <<rows, stored>>
          /\ \/ \E to \in {"pre", "freeze"} : job'[r] = [job[r] EXCEPT !.at = to]
             \/ job'[r] = [job[r] EXCEPT !.at = "ended", !.out = "not started"]
      BY <1>0, <2>2 DEF Busy!TakeRestore, Busy!TakeBackup, Busy!Goto, Busy!End, Busy!At, Busy!Data
    <3>2. /\ job'[r].at \in {"pre", "freeze", "ended"} /\ job'[r].back = job[r].back
      BY <2>0, <3>1 DEF JobType
    <3> QED BY <1>b, <2>1, <3>1, <3>2 DEF WholeInv
  <2>3. CASE Busy!Freeze(r) \/ Busy!Dump(r) \/ Busy!Tar(r)
    <3>1. UNCHANGED <<rows, stored>>
      BY <2>3 DEF Busy!Freeze, Busy!Dump, Busy!Tar, Busy!Data
    <3>2. /\ job'[r].back = job[r].back
          /\ \/ job[r].at = "freeze" /\ job'[r].at = "dump"
             \/ job[r].at = "dump" /\ job'[r].at = "tar" /\ job'[r].rows = rows
             \/ job[r].at = "tar" /\ job'[r].at = "thaw" /\ job'[r].rows = job[r].rows /\
                   job'[r].stored = stored
      <4>1. CASE Busy!Freeze(r)
        BY <1>0, <2>0, <4>1 DEF Busy!Freeze, Busy!At, JobType
      <4>2. CASE Busy!Dump(r)
        BY <1>0, <2>0, <4>2 DEF Busy!Dump, Busy!At, JobType
      <4>3. CASE Busy!Tar(r)
        BY <1>0, <2>0, <4>3 DEF Busy!Tar, Busy!At, JobType
      <4> QED BY <2>3, <4>1, <4>2, <4>3
    <3> QED BY <1>b, <2>1, <3>1, <3>2 DEF WholeInv
  <2>4. CASE Busy!Thaw(r) \/ Busy!Publish(r) \/ Busy!Close(r) \/ Busy!Migrate(r)
    <3>1. UNCHANGED <<rows, stored>>
      BY <2>4 DEF Busy!Thaw, Busy!Publish, Busy!Close, Busy!Migrate, Busy!Data
    <3>2. \E to \in {"publish", "close", "db", "open"} :
             /\ job'[r] = [job[r] EXCEPT !.at = to]
             /\ <<job[r].at, to>> \in {<<"thaw", "publish">>, <<"publish", "close">>,
                   <<"close", "db">>,
                                       <<"migrate", "open">>}
      BY <1>0, <2>4 DEF Busy!Thaw, Busy!Publish, Busy!Close, Busy!Migrate, Busy!Deleted, Busy!Goto,
        Busy!At
    <3>3. /\ job'[r].back = job[r].back /\ job'[r].rows = job[r].rows /\
                job'[r].stored = job[r].stored
          /\ \/ job[r].at = "thaw" /\ job'[r].at = "publish"
             \/ job[r].at = "publish" /\ job'[r].at = "close"
             \/ job[r].at = "close" /\ job'[r].at = "db"
             \/ job[r].at = "migrate" /\ job'[r].at = "open"
      BY <2>0, <3>2 DEF JobType
    <3> QED BY <1>b, <2>1, <3>1, <3>3 DEF WholeInv
  <2>5. CASE Busy!RestoreDb(r)
    <3>1. /\ job[r].at = "db" /\ job'[r] = [job[r] EXCEPT !.at = "files"]
          /\ rows' = Busy!From(r).rows /\ stored' = stored
      BY <1>0, <2>5 DEF Busy!RestoreDb, Busy!At
    <3>2. /\ job'[r].at = "files" /\ job'[r].rows = job[r].rows /\ job'[r].stored = job[r].stored
          /\ job'[r].back = job[r].back
      BY <2>0, <3>1 DEF JobType
    <3>3. Busy!From(r)'.rows = Busy!From(r).rows
      BY <3>2 DEF Busy!From
    <3> QED BY <1>b, <2>1, <3>1, <3>2, <3>3 DEF WholeInv
  <2>6. CASE Busy!RestoreFiles(r)
    <3>1. /\ job[r].at = "files" /\ job'[r] = [job[r] EXCEPT !.at = "migrate", !.keep = stored]
          /\ rows' = rows /\ stored' = Busy!From(r).stored
      BY <1>0, <2>6 DEF Busy!RestoreFiles, Busy!At
    <3>2. /\ job'[r].at = "migrate" /\ job'[r].rows = job[r].rows /\ job'[r].stored = job[r].stored
          /\ job'[r].back = job[r].back
      BY <2>0, <3>1 DEF JobType
    <3>3. rows' = stored' /\ job[r].rows = job[r].stored
      BY <1>b, <2>0, <3>1 DEF WholeInv, Busy!From
    <3> QED BY <1>b, <2>1, <3>2, <3>3 DEF WholeInv
  <2>7. CASE Busy!Open(r)
    <3>1. /\ job[r].at = "open" /\ UNCHANGED <<rows, stored>>
          /\ \E o \in {"rolled back", "restored"} : job'[r] = [job[r] EXCEPT !.at = "ended",
                !.out = o]
      BY <1>0, <2>7 DEF Busy!Open, Busy!At, Busy!Data
    <3>2. job'[r].at = "ended"
      BY <2>0, <3>1 DEF JobType
    <3> QED BY <1>b, <2>1, <3>1, <3>2 DEF WholeInv
  <2>8. CASE Busy!BackupFails(r)
    <3>1. /\ job[r].at \in {"dump", "tar", "publish"} /\ UNCHANGED <<rows, stored>>
          /\ job'[r] = [job[r] EXCEPT !.at = "ended", !.out = "not started"]
      BY <1>0, <2>8 DEF Busy!BackupFails, Busy!Data
    <3>2. job'[r].at = "ended"
      BY <2>0, <3>1 DEF JobType
    <3> QED BY <1>b, <2>1, <3>1, <3>2 DEF WholeInv
  <2>9. CASE Busy!RestoreFails(r)
    <3>1. /\ job[r].at \in {"db", "files", "migrate"}
          /\ \/ job'[r] = [job[r] EXCEPT !.at = "ended", !.out = "unsafe"]
             \/ job'[r] = [job[r] EXCEPT !.at = "close", !.back = TRUE]
      BY <1>0, <2>9 DEF Busy!RestoreFails, Busy!Replacing
    <3>2. \/ job'[r].at = "ended" /\ job'[r].out = "unsafe"
          \/ /\ job'[r].at = "close" /\ job'[r].back
             /\ job'[r].rows = job[r].rows /\ job'[r].stored = job[r].stored
      BY <2>0, <3>1 DEF JobType
    <3> QED BY <1>b, <2>1, <3>1, <3>2 DEF WholeInv
  <2>10. CASE Busy!Kill(r)
    <3>1. job'[r].at = "ended" /\ job'[r].out = "unsafe"
      BY <1>0, <2>0, <2>10 DEF Busy!Kill, Busy!End, JobType
    <3> QED BY <1>b, <2>1, <3>1 DEF WholeInv
  <2> QED BY <1>3, <2>2, <2>3, <2>4, <2>5, <2>6, <2>7, <2>8, <2>9, <2>10 DEF Busy!Work
<1>4. ASSUME NEW q \in Requests, Busy!Retry(q) \/ Busy!DeleteRow(q) \/ Busy!DeleteFile(q)
      PROVE  WholeInv'
  <2>1. /\ UNCHANGED <<job, rows, stored>> /\ request' = [request EXCEPT ![q] = "idle"]
    BY <1>4, <1>b DEF WholeInv, Busy!Retry, Busy!DeleteRow, Busy!DeleteFile
  <2>2. \A p \in Requests : request'[p] \in {"idle", "refused"}
    BY <1>a, <1>b, <2>1 DEF WholeInv, Busy!TypeOK
  <2> QED BY <1>1, <2>1, <2>2
<1>5. CASE Busy!FreezeExpires
  <2>1. /\ UNCHANGED <<rows, stored, request>>
        /\ job'[r] = job[r] \/ job'[r] = [job[r] EXCEPT !.late = TRUE]
    BY <1>0, <1>5 DEF Busy!FreezeExpires, Busy!Data
  <2> QED BY <1>1, <1>b, <2>1 DEF WholeInv
<1>6. CASE UNCHANGED backupVars \/ \E l \in DOMAIN held : Busy!LockExpires(l)
  <2>1. UNCHANGED <<job, rows, stored, request>>
    BY <1>6 DEF backupVars, Busy!LockExpires, Busy!Data
  <2> QED BY <1>1, <1>b, <2>1 DEF WholeInv
<1> QED BY <1>a, <1>2, <1>3, <1>4, <1>5, <1>6, CalmSteps

\* The first states.
LEMMA FirstBackups ==
    ASSUME Busy!BackupAssumption, Busy!Init
    PROVE  Busy!TypeOK /\ BackupInv /\ WholeInv
<1>1. /\ \A j \in Busy!Jobs : job[j].at = "queued" /\ ~job[j].back
      /\ rows = stored /\ \A q \in Requests : request[q] = "idle"
  BY DEF Busy!Init
<1>2. Busy!TypeOK
  BY DEF Busy!Init, Busy!TypeOK, Busy!BackupAssumption, Busy!Steps, Busy!Outcomes
<1>3. BackupInv
  BY <1>1 DEF BackupInv, Replacers, CopyInv, Busy!Jobs
<1>4. WholeInv
  BY <1>1 DEF WholeInv, Busy!Jobs
<1> QED BY <1>2, <1>3, <1>4

-----------------------------------------------------------------------------
(* The parts together.  In every step one of them runs and the others rest. *)

BackgroundInv ==
    /\ Late!TypeOK /\ CountInv
    /\ part = "prompt" => losses = 0 /\ SlotInv
    /\ Busy!TypeOK /\ BackupInv
    /\ AuditInv

LEMMA PartsStep ==
    ASSUME [BackgroundNext]_allVars
    PROVE  /\ part' = part /\ [Next]_vars
           /\ [Prompt!Next]_autoVars \/ [Late!Next]_autoVars
           /\ part = "prompt" => [Prompt!Next]_autoVars
           /\ [Busy!Next]_backupVars \/ [Calm!Next]_backupVars
           /\ part = "calm" => [Calm!Next]_backupVars
BY DEF BackgroundNext, allVars

LEMMA BackgroundFirst == BackgroundInit => BackgroundInv
BY FirstSlots, FirstBackups, AuditFirst, BackgroundAssumption DEF BackgroundInit, BackgroundInv

LEMMA BackgroundStep == BackgroundInv /\ [BackgroundNext]_allVars => BackgroundInv'
<1>a. SUFFICES ASSUME BackgroundInv, [BackgroundNext]_allVars PROVE BackgroundInv'
  OBVIOUS
<1>0. /\ Late!SchedulerAssumption /\ Busy!BackupAssumption /\ AuditAssumption
      /\ Late!TypeOK /\ CountInv /\ Busy!TypeOK /\ BackupInv /\ AuditInv
      /\ part = "prompt" => losses = 0 /\ SlotInv
  BY <1>a, BackgroundAssumption DEF BackgroundInv
<1>1. [Late!Next]_autoVars /\ [Busy!Next]_backupVars
  <2>1. losses \in Nat
    BY <1>0 DEF Late!TypeOK, Late!SchedulerAssumption
  <2> QED BY <1>a, <2>1, PartsStep, PromptIsLate, CalmIsBusy
<1>2. Late!TypeOK' /\ CountInv'
  BY <1>0, <1>1, SlotTypeStep, CountStep
<1>3. Busy!TypeOK' /\ BackupInv'
  BY <1>0, <1>1, BackupTypeStep, BackupStep
<1>4. AuditInv'
  BY <1>a, <1>0, PartsStep, AuditStep
<1>5. ASSUME part' = "prompt" PROVE losses' = 0 /\ SlotInv'
  <2>1. part = "prompt" /\ [Prompt!Next]_autoVars
    BY <1>a, <1>5, PartsStep
  <2>2. losses' = losses
    BY <1>0, <2>1, LossesStay
  <2> QED BY <1>0, <2>1, <2>2, SlotStep
<1> QED BY <1>2, <1>3, <1>4, <1>5 DEF BackgroundInv

\* The invariant of the background work, for every value of its constants.
THEOREM BackgroundInvariance == BackgroundSpec => []BackgroundInv
BY BackgroundFirst, BackgroundStep, PTL DEF BackgroundSpec

\* The types hold in every state of every part.
THEOREM BackgroundTypes == BackgroundSpec => []TypesOK
<1>1. BackgroundInv => TypesOK
  <2> SUFFICES ASSUME BackgroundInv PROVE TypesOK
    OBVIOUS
  <2>1. TypeOK /\ Late!TypeOK /\ Busy!TypeOK
    BY DEF BackgroundInv, AuditInv
  <2>2. Calm!TypeOK
    BY <2>1 DEF Busy!TypeOK, Calm!TypeOK, Busy!Jobs, Calm!Jobs, Busy!Steps, Calm!Steps,
           Busy!Outcomes, Calm!Outcomes
  <2>3. part = "prompt" => Prompt!TypeOK
    BY <2>1 DEF BackgroundInv, Late!TypeOK, Prompt!TypeOK, Late!Slots, Prompt!Slots,
           Late!Claims, Prompt!Claims, Late!Columns, Prompt!Columns
  <2> QED BY <2>1, <2>2, <2>3 DEF TypesOK
<1> QED BY <1>1, BackgroundInvariance, PTL

\* Where claims do not outlive their timeout and nothing is lost, a slot is executed
\* once, whatever schedulers overlap, whoever edits the schedule and whatever fails,
\* unless it is planned once more while it is under way or after it ran; and in every
\* case a due slot is left only executed, by its user's hand, or because an execution
\* writes over what the user saved.
THEOREM SlotsRunOnce == BackgroundSpec => EachSlotOnce
<1>1. BackgroundInv /\ BackgroundInv' /\ [BackgroundNext]_allVars
        => [part = "prompt" => Prompt!RunsOnce']_allVars
  <2>1. BackgroundInv' /\ part' = "prompt" => Prompt!RunsOnce'
    BY DEF BackgroundInv, SlotInv, SlotAt, RanAt, Prompt!RunsOnce, Prompt!Slots, Late!Slots
  <2>2. [BackgroundNext]_allVars => part' = part
    BY PartsStep
  <2> QED BY <2>1, <2>2
<1>2. BackgroundInv /\ [BackgroundNext]_allVars
        => [Late!Leaving =>
              \/ ran[plan.slot] > 0
              \/ \E w \in Runners : Late!Outdated(w) /\ executor'[w] = Late!Free]_(Late!vars)
  <2> SUFFICES ASSUME BackgroundInv, [BackgroundNext]_allVars, Late!Leaving
               PROVE  \/ ran[plan.slot] > 0
                      \/ \E w \in Runners : Late!Outdated(w) /\ executor'[w] = Late!Free
    OBVIOUS
  <2>1. Late!TypeOK /\ CountInv /\ losses \in Nat
    BY BackgroundAssumption DEF BackgroundInv, Late!TypeOK, Late!SchedulerAssumption
  <2>2. [Late!Next]_autoVars
    BY <2>1, PartsStep, PromptIsLate
  <2> QED BY <2>1, <2>2, LeavesExecuted DEF Late!Leaving
<1> QED BY <1>1, <1>2, BackgroundInvariance, PTL DEF BackgroundSpec, EachSlotOnce,
  Late!NoSlotSkipped

\* However many backups, restores and requests there are: an archive has the file of
\* every row unless one of the mishaps that the code records fell into its copy.
THEOREM ArchivesAreWhole == BackgroundSpec => [](part = "busy" => Busy!TornNeedsMishap)
<1>1. BackgroundInv => (part = "busy" => Busy!TornNeedsMishap)
  BY DEF BackgroundInv, BackupInv, CopyInv, Busy!TornNeedsMishap
<1> QED BY <1>1, BackgroundInvariance, PTL

\* With one restore, any number of backups and failures, and nobody else writing, rows
\* and files belong together when the restore ends in a state recorded as safe.  (With
\* two restores they need not.)
THEOREM BackupsAreWhole ==
    ASSUME NEW CONSTANT r, Restores = {r}
    PROVE  BackgroundSpec => []BackupsHold
<1>1. BackgroundInit => (part = "calm" => WholeInv)
  BY FirstBackups, BackgroundAssumption DEF BackgroundInit
<1>2. BackgroundInv /\ (part = "calm" => WholeInv) /\ [BackgroundNext]_allVars
        => (part = "calm" => WholeInv)'
  BY PartsStep, WholeStep, BackgroundAssumption DEF BackgroundInv, BackupInv
<1>3. (part = "calm" => WholeInv) => (part = "calm" => Calm!SafeMeansWhole)
  BY DEF WholeInv, Calm!SafeMeansWhole, Calm!At
<1>4. BackgroundInv => (part = "busy" => Busy!TornNeedsMishap)
  BY DEF BackgroundInv, BackupInv, CopyInv, Busy!TornNeedsMishap
<1> QED BY <1>1, <1>2, <1>3, <1>4, BackgroundInvariance, PTL DEF BackgroundSpec, BackupsHold

-----------------------------------------------------------------------------
(* The outbox of mails.                                                     *)

\* A process has a turn from the renewal to the outcome, and between two claims
\* it has neither picked ids nor rows left.
TurnInv ==
    \A s \in Senders :
        /\ at[s] \in Mail!Conversing \cup {"renewed", "internal"} <=> turn[s] # NoMessage
        /\ at[s] \notin {"claimed"} => picked[s] = {}
        /\ at[s] \in {"idle", "claimed", "down"} => left[s] = {}
        /\ turn[s] \notin left[s]

\* Still to be sent in this attempt by the process that leased the row.
Unsent(s, m) ==
    \/ m \in picked[s] \cup left[s]
    \/ turn[s] = m /\ at[s] \in {"renewed", "locked", "valid"}

BudgetInv ==
    \A m \in Messages :
        /\ mail[m].status = "absent" => accepted[m] = 0
        /\ mail[m].status \in Mail!Open =>
             accepted[m] <= mail[m].attempts /\ mail[m].attempts <= MaxAttempts[m]
        /\ mail[m].status \in Mail!Queued => mail[m].attempts < MaxAttempts[m]
        /\ \A s \in Senders :
             Mail!HeldBy(m, s) /\ Unsent(s, m) => accepted[m] < mail[m].attempts

-----------------------------------------------------------------------------
(* Types.                                                                  *)

LEMMA ClosedType ==
    ASSUME NEW r \in Mail!Mail, NEW ending \in Mail!Terminal
    PROVE  Mail!Closed(r, ending) \in Mail!Mail
BY DEF Mail!Closed, Mail!Mail

LEMMA LeasedType ==
    ASSUME NEW r \in Mail!Mail, NEW s \in Senders PROVE Mail!LeasedMail(r, s) \in Mail!Mail
<1> DEFINE n == r.attempts + 1
           q == [r EXCEPT !.status = "processing", !.lease = "live", !.owner = s]
<1>1. n \in Nat
  BY DEF Mail!Mail
<1>2. q \in Mail!Mail
  BY DEF Mail!Mail, Mail!Open
<1>3. Mail!LeasedMail(r, s) = [q EXCEPT !.attempts = n]
  BY DEF Mail!LeasedMail, Mail!Mail
<1> HIDE DEF n, q
<1>4. [q EXCEPT !.attempts = n] \in Mail!Mail
  BY <1>1, <1>2 DEF Mail!Mail
<1>5. QED
  BY <1>3, <1>4

LEMMA TouchedType ==
    ASSUME NEW r \in Mail!Mail
    PROVE  /\ [r EXCEPT !.due = TRUE] \in Mail!Mail
           /\ \A l \in {"live", "lapsed"} : [r EXCEPT !.lease = l] \in Mail!Mail
BY DEF Mail!Mail

LEMMA PostedType ==
    ASSUME NEW due \in BOOLEAN
    PROVE  [Mail!NoMail EXCEPT !.status = "pending", !.body = TRUE, !.due = due] \in Mail!Mail
BY DEF Mail!NoMail, Mail!Mail, Mail!Open, Mail!Queued

LEMMA RemovedType == Mail!Removed \in Mail!Mail
BY DEF Mail!Removed, Mail!NoMail, Mail!Mail

LEMMA MailTypeNext ==
    ASSUME Mail!OutboxAssumption
    PROVE  Mail!TypeOK /\ [Mail!Next]_Mail!vars => Mail!TypeOK'
<1> SUFFICES ASSUME Mail!TypeOK, [Mail!Next]_Mail!vars PROVE Mail!TypeOK'
  OBVIOUS
<1> USE DEF Mail!OutboxAssumption, Mail!TypeOK
<1>1. ASSUME NEW m \in Messages, Mail!MessageStep(m) PROVE Mail!TypeOK'
  <2>1. CASE Mail!EnqueueEmail(m)
    <3>1. PICK due \in BOOLEAN :
             mail' = [mail EXCEPT ![m] = [Mail!NoMail EXCEPT !.status = "pending",
                                                            !.body = TRUE, !.due = due]]
      BY <2>1 DEF Mail!EnqueueEmail
    <3> DEFINE q == [Mail!NoMail EXCEPT !.status = "pending", !.body = TRUE, !.due = due]
    <3>2. q \in Mail!Mail
      BY PostedType
    <3>3. mail' = [mail EXCEPT ![m] = q]
      BY <3>1
    <3> HIDE DEF q
    <3>4. mail' \in [Messages -> Mail!Mail]
      BY <3>2, <3>3
    <3>5. QED
      BY <2>1, <3>4 DEF Mail!EnqueueEmail, Mail!senderVars
  <2>2. CASE Mail!LeaseLapses(m)
    BY <2>2, TouchedType DEF Mail!LeaseLapses, Mail!senderVars
  <2>3. CASE Mail!BecomesDue(m)
    BY <2>3, TouchedType DEF Mail!BecomesDue, Mail!senderVars
  <2>4. CASE Mail!DeadlinePasses(m)
    BY <2>4 DEF Mail!DeadlinePasses, Mail!senderVars
  <2>5. CASE Mail!Supersede(m)
    BY <2>5 DEF Mail!Supersede, Mail!senderVars
  <2>6. QED
    BY <1>1, <2>1, <2>2, <2>3, <2>4, <2>5 DEF Mail!MessageStep
<1>2. ASSUME NEW s \in Senders, Mail!SenderStep(s) PROVE Mail!TypeOK'
  <2>1. CASE Mail!Claim(s)
    <3> DEFINE swept == {m \in Messages : Mail!Exhausted(m)}
               found == {m \in Messages \ swept : Mail!Claimable(m)}
    <3>1. PICK ids \in SUBSET found :
             /\ mail' = [m \in Messages |->
                           IF m \in swept THEN Mail!Closed(mail[m], "dead")
                           ELSE IF m \in ids THEN Mail!LeasedMail(mail[m], s) ELSE mail[m]]
             /\ picked' = [picked EXCEPT ![s] = ids]
             /\ at' = [at EXCEPT ![s] = IF ids = {} THEN "idle" ELSE "claimed"]
      BY <2>1, Zenon DEF Mail!Claim
    <3>2. "dead" \in Mail!Terminal
      BY DEF Mail!Terminal
    <3>3. mail' \in [Messages -> Mail!Mail]
      BY <3>1, <3>2, ClosedType, LeasedType
    <3>4. QED
      BY <2>1, <3>1, <3>3 DEF Mail!Claim, Mail!SenderState
  <2>2. CASE Mail!ReadClaimed(s)
    BY <2>2 DEF Mail!ReadClaimed, Mail!tableVars, Mail!SenderState
  <2>3. CASE Mail!RenewLease(s)
    <3>1. PICK m \in left[s] :
             \/ /\ mail' = [mail EXCEPT ![m].lease = "live"]
                /\ at' = [at EXCEPT ![s] = "renewed"]
                /\ turn' = [turn EXCEPT ![s] = m]
                /\ left' = [left EXCEPT ![s] = @ \ {m}]
                /\ UNCHANGED picked
             \/ /\ at' = [at EXCEPT ![s] = "batch"]
                /\ left' = [left EXCEPT ![s] = @ \ {m}]
                /\ UNCHANGED <<mail, picked, turn>>
             \/ Mail!Abandon(s) /\ UNCHANGED mail
      BY <2>3 DEF Mail!RenewLease
    <3>2. mail' \in [Messages -> Mail!Mail]
      <4>1. m \in Messages
        OBVIOUS
      <4>2. [mail[m] EXCEPT !.lease = "live"] \in Mail!Mail
        BY <4>1, TouchedType
      <4>3. QED
        BY <3>1, <4>1, <4>2 DEF Mail!Abandon
    <3>3. QED
      BY <2>3, <3>1, <3>2 DEF Mail!RenewLease, Mail!Abandon, Mail!SenderState
  <2>4. CASE Mail!LockForDelivery(s)
    BY <2>4 DEF Mail!LockForDelivery, Mail!NextRow, Mail!Abandon, Mail!tableVars, Mail!SenderState
  <2>5. CASE Mail!Validate(s)
    BY <2>5, ClosedType DEF Mail!Validate, Mail!NextRow, Mail!SenderState, Mail!Terminal
  <2>6. CASE Mail!ProviderAccepts(s)
    <3>1. \A n \in Nat : n + 1 \in Nat
      OBVIOUS
    <3>2. accepted' \in [Messages -> Nat]
      BY <2>6, <3>1 DEF Mail!ProviderAccepts
    <3>3. QED
      BY <2>6, <3>2 DEF Mail!ProviderAccepts, Mail!tableVars, Mail!SenderState
  <2>7. CASE Mail!ProviderRefuses(s)
    BY <2>7 DEF Mail!ProviderRefuses, Mail!tableVars, Mail!SenderState
  <2>8. CASE Mail!MarkSent(s)
    BY <2>8, ClosedType DEF Mail!MarkSent, Mail!NextRow, Mail!SenderState, Mail!Terminal
  <2>9. CASE Mail!MarkFailed(s)
    <3>1. \A r \in Mail!Mail, m \in Messages :
             Mail!FailedMail(r, MaxAttempts[m], at[s] = "refused", m \in overdue) \in Mail!Mail
      BY DEF Mail!FailedMail, Mail!Closed, Mail!Mail, Mail!Terminal, Mail!Open, Mail!Queued
    <3>2. mail' \in [Messages -> Mail!Mail]
      <4>1. CASE turn[s] \in Messages
        <5>1. PICK q \in Mail!Mail :
                 q = Mail!FailedMail(mail[turn[s]], MaxAttempts[turn[s]], at[s] = "refused",
                                     turn[s] \in overdue)
          BY <3>1, <4>1
        <5>2. mail' = [mail EXCEPT ![turn[s]] = q]
          BY <2>9, <5>1 DEF Mail!MarkFailed
        <5>3. QED
          BY <5>2
      <4>2. CASE turn[s] \notin Messages
        BY <2>9, <4>2 DEF Mail!MarkFailed
      <4>3. QED
        BY <4>1, <4>2
    <3>3. QED
      BY <2>9, <3>2 DEF Mail!MarkFailed, Mail!NextRow, Mail!SenderState
  <2>10. CASE Mail!MarkInternal(s)
    <3>1. \A r \in Mail!Mail, m \in Messages :
             Mail!FailedMail(r, MaxAttempts[m], TRUE, m \in overdue) \in Mail!Mail
      BY DEF Mail!FailedMail, Mail!Closed, Mail!Mail, Mail!Terminal, Mail!Open, Mail!Queued
    <3>2. mail' \in [Messages -> Mail!Mail]
      BY <2>10, <3>1 DEF Mail!MarkInternal
    <3>3. QED
      BY <2>10, <3>2 DEF Mail!MarkInternal, Mail!NextRow, Mail!SenderState
  <2>11. CASE Mail!BatchEnds(s)
    BY <2>11 DEF Mail!BatchEnds, Mail!tableVars, Mail!SenderState
  <2>12. QED
    BY <1>2, <2>1, <2>2, <2>3, <2>4, <2>5, <2>6, <2>7, <2>8, <2>9, <2>10, <2>11 DEF Mail!SenderStep
<1>3. ASSUME NEW s \in Senders, Mail!DatabaseError(s) PROVE Mail!TypeOK'
  BY <1>3, ClosedType DEF Mail!DatabaseError, Mail!Abandon, Mail!SenderState, Mail!Terminal
<1>4. ASSUME NEW s \in Senders, Mail!Crash(s) PROVE Mail!TypeOK'
  BY <1>4 DEF Mail!Crash, Mail!tableVars, Mail!SenderState
<1>5. CASE Mail!CancelUserEmail
  BY <1>5, ClosedType DEF Mail!CancelUserEmail, Mail!CloseRows, Mail!senderVars, Mail!Terminal
<1>6. CASE Mail!EraseUserEmail
  BY <1>6, RemovedType DEF Mail!EraseUserEmail, Mail!RemoveRows, Mail!senderVars
<1>7. CASE Mail!ExpireSelect
  BY <1>7 DEF Mail!ExpireSelect, Mail!tableVars, Mail!senderVars
<1>8. CASE Mail!ExpireUpdate
  BY <1>8, ClosedType DEF Mail!ExpireUpdate, Mail!CloseRows, Mail!senderVars, Mail!Terminal
<1>9. CASE Mail!PurgeTerminal
  BY <1>9, RemovedType DEF Mail!PurgeTerminal, Mail!RemoveRows, Mail!senderVars
<1>10. CASE UNCHANGED Mail!vars
  BY <1>10 DEF Mail!vars, Mail!tableVars, Mail!senderVars
<1>11. QED
  BY <1>1, <1>2, <1>3, <1>4, <1>5, <1>6, <1>7, <1>8, <1>9, <1>10 DEF Mail!Next

LEMMA MailTypeInit ==
    ASSUME Mail!OutboxAssumption
    PROVE  Mail!Init => Mail!TypeOK
BY DEF Mail!Init, Mail!TypeOK, Mail!NoMail, Mail!Mail, Mail!SenderState

\* Every reachable state of the outbox is well typed.
THEOREM MailTypeCorrect ==
    ASSUME Mail!OutboxAssumption
    PROVE  Mail!Spec => []Mail!TypeOK
BY MailTypeInit, MailTypeNext, PTL DEF Mail!Spec

-----------------------------------------------------------------------------
(* The turn of a process.                                                  *)

LEMMA TurnNext ==
    ASSUME Mail!OutboxAssumption
    PROVE  Mail!TypeOK /\ TurnInv /\ [Mail!Next]_Mail!vars => TurnInv'
<1> SUFFICES ASSUME Mail!TypeOK, TurnInv, [Mail!Next]_Mail!vars PROVE TurnInv'
  OBVIOUS
<1> USE DEF Mail!OutboxAssumption, TurnInv, Mail!TypeOK, Mail!Conversing
<1>0. ASSUME UNCHANGED Mail!senderVars PROVE TurnInv'
  BY <1>0 DEF Mail!senderVars
<1>1. ASSUME NEW m \in Messages, Mail!MessageStep(m) PROVE TurnInv'
  BY <1>1, <1>0 DEF Mail!MessageStep, Mail!EnqueueEmail, Mail!LeaseLapses, Mail!BecomesDue,
     Mail!DeadlinePasses, Mail!Supersede
<1>2. ASSUME NEW s \in Senders, Mail!SenderStep(s) PROVE TurnInv'
  <2>1. CASE Mail!Claim(s)
    BY <2>1 DEF Mail!Claim
  <2>2. CASE Mail!ReadClaimed(s)
    BY <2>2 DEF Mail!ReadClaimed
  <2>3. CASE Mail!RenewLease(s)
    BY <2>3 DEF Mail!RenewLease, Mail!Abandon
  <2>4. CASE Mail!LockForDelivery(s)
    BY <2>4 DEF Mail!LockForDelivery, Mail!NextRow, Mail!Abandon
  <2>5. CASE Mail!Validate(s)
    BY <2>5 DEF Mail!Validate, Mail!NextRow
  <2>6. CASE Mail!ProviderAccepts(s)
    BY <2>6 DEF Mail!ProviderAccepts
  <2>7. CASE Mail!ProviderRefuses(s)
    BY <2>7 DEF Mail!ProviderRefuses
  <2>8. CASE Mail!MarkSent(s)
    BY <2>8 DEF Mail!MarkSent, Mail!NextRow
  <2>9. CASE Mail!MarkFailed(s)
    BY <2>9 DEF Mail!MarkFailed, Mail!NextRow
  <2>10. CASE Mail!MarkInternal(s)
    BY <2>10 DEF Mail!MarkInternal, Mail!NextRow
  <2>11. CASE Mail!BatchEnds(s)
    BY <2>11 DEF Mail!BatchEnds
  <2>12. QED
    BY <1>2, <2>1, <2>2, <2>3, <2>4, <2>5, <2>6, <2>7, <2>8, <2>9, <2>10, <2>11 DEF Mail!SenderStep
<1>3. ASSUME NEW s \in Senders, Mail!DatabaseError(s) PROVE TurnInv'
  BY <1>3 DEF Mail!DatabaseError, Mail!Abandon
<1>4. ASSUME NEW s \in Senders, Mail!Crash(s) PROVE TurnInv'
  BY <1>4 DEF Mail!Crash
<1>5. CASE \/ Mail!CancelUserEmail \/ Mail!EraseUserEmail \/ Mail!ExpireSelect
           \/ Mail!ExpireUpdate \/ Mail!PurgeTerminal
  BY <1>5, <1>0 DEF Mail!CancelUserEmail, Mail!EraseUserEmail, Mail!ExpireSelect,
     Mail!ExpireUpdate, Mail!PurgeTerminal
<1>6. CASE UNCHANGED Mail!vars
  BY <1>6, <1>0 DEF Mail!vars
<1>7. QED
  BY <1>1, <1>2, <1>3, <1>4, <1>5, <1>6 DEF Mail!Next

-----------------------------------------------------------------------------
(* The row lock.                                                           *)

LEMMA HeldByOne ==
    Mail!HeldWhileConversing => Mail!OneConversation
BY DEF Mail!HeldWhileConversing, Mail!OneConversation, Mail!HeldBy

\* Unless it is in a conversation that just began, a process keeps what it holds.
LEMMA HeldNext ==
    ASSUME Mail!OutboxAssumption
    PROVE  Mail!TypeOK /\ TurnInv /\ Mail!HeldWhileConversing /\ [Mail!Next]_Mail!vars
           => Mail!HeldWhileConversing'
<1> SUFFICES ASSUME Mail!TypeOK, TurnInv, Mail!HeldWhileConversing, [Mail!Next]_Mail!vars,
                    NEW p \in Senders, at'[p] \in Mail!Conversing
             PROVE  Mail!HeldBy(turn[p], p)'
  BY DEF Mail!HeldWhileConversing
<1> USE DEF Mail!OutboxAssumption, Mail!TypeOK
\* The row of a conversation is written by nobody else.
<1> DEFINE MailKept == \/ mail'[turn[p]] = mail[turn[p]]
                       \/ \E l \in {"live", "lapsed"} :
                             mail'[turn[p]] = [mail[turn[p]] EXCEPT !.lease = l]
           Safe == at[p] \in Mail!Conversing /\ turn'[p] = turn[p] /\ MailKept
<1>2. at[p] \in Mail!Conversing => turn[p] \in Messages /\ Mail!LockHeld(turn[p])
  BY DEF TurnInv, Mail!LockHeld
<1>0. ASSUME Safe PROVE Mail!HeldBy(turn[p], p)'
  <2>1. mail[turn[p]] \in Mail!Mail /\ Mail!HeldBy(turn[p], p)
    BY <1>0, <1>2 DEF Mail!HeldWhileConversing
  <2>2. QED
    BY <1>0, <2>1 DEF Mail!HeldBy, Mail!Mail
<1>1. ASSUME UNCHANGED <<at, turn>>, at[p] \in Mail!Conversing => MailKept
      PROVE  Safe
  BY <1>1
<1> HIDE DEF Safe
<1>3. ASSUME NEW m \in Messages, Mail!MessageStep(m) PROVE Safe
  <2>1. UNCHANGED <<at, turn>>
    BY <1>3 DEF Mail!MessageStep, Mail!EnqueueEmail, Mail!LeaseLapses, Mail!BecomesDue,
       Mail!DeadlinePasses, Mail!Supersede, Mail!senderVars
  <2>2. at[p] \in Mail!Conversing => mail[turn[p]].status = "processing"
    BY DEF Mail!HeldWhileConversing, Mail!HeldBy
  <2>3. CASE Mail!EnqueueEmail(m)
    BY <2>1, <2>2, <2>3, <1>1, <1>2 DEF Mail!EnqueueEmail
  <2>4. CASE Mail!LeaseLapses(m)
    BY <2>1, <2>4, <1>1, <1>2 DEF Mail!LeaseLapses
  <2>5. CASE Mail!BecomesDue(m)
    BY <2>1, <2>2, <2>5, <1>1, <1>2 DEF Mail!BecomesDue, Mail!Queued
  <2>6. CASE Mail!DeadlinePasses(m) \/ Mail!Supersede(m)
    BY <2>1, <2>6, <1>1 DEF Mail!DeadlinePasses, Mail!Supersede
  <2>7. QED
    BY <1>3, <2>3, <2>4, <2>5, <2>6 DEF Mail!MessageStep
<1>4. ASSUME NEW s \in Senders, Mail!SenderStep(s) PROVE Mail!HeldBy(turn[p], p)'
  <2>1. at[s] \in Mail!Conversing /\ at[p] \in Mail!Conversing /\ s # p => turn[s] # turn[p]
    BY HeldByOne DEF Mail!OneConversation
  <2>2. s # p => at'[p] = at[p] /\ turn'[p] = turn[p]
    <3>1. CASE \/ Mail!Claim(s) \/ Mail!ReadClaimed(s) \/ Mail!RenewLease(s)
               \/ Mail!LockForDelivery(s)
               \/ Mail!Validate(s) \/ Mail!BatchEnds(s)
      BY <3>1 DEF Mail!Claim, Mail!ReadClaimed, Mail!RenewLease, Mail!LockForDelivery,
         Mail!Validate, Mail!BatchEnds, Mail!NextRow, Mail!Abandon
    <3>2. CASE ~(\/ Mail!Claim(s) \/ Mail!ReadClaimed(s) \/ Mail!RenewLease(s)
                 \/ Mail!LockForDelivery(s)
                 \/ Mail!Validate(s) \/ Mail!BatchEnds(s))
      BY <1>4, <3>2 DEF Mail!SenderStep, Mail!ProviderAccepts, Mail!ProviderRefuses,
         Mail!MarkSent, Mail!MarkFailed, Mail!MarkInternal, Mail!DatabaseError, Mail!Crash,
         Mail!NextRow, Mail!Abandon
    <3>3. QED
      BY <3>1, <3>2
  <2>3. ASSUME s # p, MailKept PROVE Mail!HeldBy(turn[p], p)'
    BY <2>2, <2>3, <1>0 DEF Safe
  <2> HIDE DEF MailKept
  <2>4. ASSUME mail' = mail PROVE MailKept
    BY <2>4 DEF MailKept
  <2>5. CASE Mail!Claim(s)
    <3>1. s = p => at'[p] \in {"idle", "claimed"}
      BY <2>5 DEF Mail!Claim
    <3>2. s # p => MailKept
      BY <2>5, <2>2, <1>2 DEF Mail!Claim, Mail!Writable, Mail!Claimable, MailKept
    <3>3. QED
      BY <2>3, <3>1, <3>2 DEF Mail!Conversing
  <2>6. CASE Mail!ReadClaimed(s) \/ Mail!BatchEnds(s)
    <3>1. s # p
      BY <2>6 DEF Mail!ReadClaimed, Mail!BatchEnds, Mail!Conversing
    <3>2. QED
      BY <2>6, <2>3, <2>4, <3>1 DEF Mail!ReadClaimed, Mail!BatchEnds, Mail!tableVars
  <2>7. CASE Mail!RenewLease(s)
    <3>1. s # p
      BY <2>7 DEF Mail!RenewLease, Mail!Abandon, Mail!Conversing
    <3>2. PICK m \in left[s] : mail' = mail \/ mail' = [mail EXCEPT ![m].lease = "live"]
      BY <2>7 DEF Mail!RenewLease
    <3>3. MailKept
      BY <3>1, <3>2, <2>2, <1>2 DEF MailKept
    <3>4. QED
      BY <2>3, <3>1, <3>3
  <2>8. CASE Mail!LockForDelivery(s)
    <3>1. CASE s = p
      BY <2>8, <3>1 DEF Mail!LockForDelivery, Mail!NextRow, Mail!Abandon, Mail!Conversing,
         Mail!tableVars, Mail!HeldBy
    <3>2. CASE s # p
      BY <2>8, <2>3, <2>4, <3>2 DEF Mail!LockForDelivery, Mail!tableVars
    <3>3. QED
      BY <3>1, <3>2
  <2>9. CASE Mail!Validate(s)
    <3>1. CASE s = p
      BY <2>9, <3>1 DEF Mail!Validate, Mail!NextRow, Mail!Conversing, Mail!HeldBy,
         Mail!HeldWhileConversing
    <3>2. CASE s # p
      BY <2>9, <2>1, <2>2, <2>3, <3>2, <1>2 DEF Mail!Validate, MailKept, Mail!Conversing
    <3>3. QED
      BY <3>1, <3>2
  <2>10. CASE Mail!ProviderAccepts(s) \/ Mail!ProviderRefuses(s)
    <3>1. CASE s = p
      BY <2>10, <3>1 DEF Mail!ProviderAccepts, Mail!ProviderRefuses, Mail!Conversing, Mail!HeldBy,
         Mail!HeldWhileConversing, Mail!tableVars
    <3>2. CASE s # p
      BY <2>10, <2>3, <2>4, <3>2 DEF Mail!ProviderAccepts, Mail!ProviderRefuses, Mail!tableVars
    <3>3. QED
      BY <3>1, <3>2
  <2>11. CASE Mail!MarkSent(s) \/ Mail!MarkFailed(s)
    <3>1. s # p
      BY <2>11 DEF Mail!MarkSent, Mail!MarkFailed, Mail!NextRow, Mail!Conversing
    <3>2. at[s] \in Mail!Conversing /\ (mail'[turn[p]] = mail[turn[p]] \/ turn[s] = turn[p])
      BY <2>11, <2>2, <3>1, <1>2 DEF Mail!MarkSent, Mail!MarkFailed, Mail!Conversing
    <3>3. QED
      BY <2>1, <2>2, <2>3, <3>1, <3>2 DEF MailKept
  <2>12. CASE Mail!MarkInternal(s)
    <3>1. s # p
      BY <2>12 DEF Mail!MarkInternal, Mail!NextRow, Mail!Conversing
    <3>2. MailKept
      BY <2>12, <2>2, <3>1, <1>2 DEF Mail!MarkInternal, Mail!Writable, MailKept
    <3>3. QED
      BY <2>3, <3>1, <3>2
  <2>13. QED
    BY <1>4, <2>5, <2>6, <2>7, <2>8, <2>9, <2>10, <2>11, <2>12 DEF Mail!SenderStep
<1>5. ASSUME NEW s \in Senders, Mail!DatabaseError(s) PROVE Mail!HeldBy(turn[p], p)'
  <2>1. s # p
    BY <1>5 DEF Mail!DatabaseError, Mail!Abandon, Mail!Conversing
  <2>2. at'[p] = at[p] /\ turn'[p] = turn[p]
    BY <1>5, <2>1 DEF Mail!DatabaseError, Mail!Abandon
  <2>3. mail'[turn[p]] = mail[turn[p]] \/ (at[s] = "accepted" /\ turn[s] = turn[p])
    BY <1>5, <2>1, <2>2, <1>2 DEF Mail!DatabaseError
  <2>4. mail'[turn[p]] = mail[turn[p]]
    BY <2>1, <2>2, <2>3, HeldByOne DEF Mail!OneConversation, Mail!Conversing
  <2>5. QED
    BY <1>0, <2>2, <2>4 DEF Safe
<1>6. ASSUME NEW s \in Senders, Mail!Crash(s) PROVE Mail!HeldBy(turn[p], p)'
  BY <1>6, <1>0 DEF Mail!Crash, Mail!tableVars, Mail!Conversing, Safe
<1>7. CASE Mail!CancelUserEmail
  BY <1>7, <1>0, <1>1, <1>2 DEF Mail!CancelUserEmail, Mail!CloseRows, Mail!Writable, Mail!senderVars
<1>8. CASE Mail!EraseUserEmail
  BY <1>8, <1>0, <1>1, <1>2 DEF Mail!EraseUserEmail, Mail!RemoveRows, Mail!Writable, Mail!senderVars
<1>9. CASE Mail!ExpireUpdate
  BY <1>9, <1>0, <1>1, <1>2 DEF Mail!ExpireUpdate, Mail!CloseRows, Mail!Writable, Mail!senderVars
<1>10. CASE Mail!PurgeTerminal
  BY <1>10, <1>0, <1>1, <1>2 DEF Mail!PurgeTerminal, Mail!RemoveRows, Mail!Terminal,
     Mail!senderVars, Mail!HeldWhileConversing, Mail!HeldBy
<1>11. CASE Mail!ExpireSelect \/ UNCHANGED Mail!vars
  BY <1>11, <1>0, <1>1 DEF Mail!ExpireSelect, Mail!tableVars, Mail!senderVars, Mail!vars
<1>12. QED
  BY <1>3, <1>0, <1>4, <1>5, <1>6, <1>7, <1>8, <1>9, <1>10, <1>11 DEF Mail!Next

\* At most one process talks to the provider about a message, and the row stays
\* leased to it until the outcome is recorded.
THEOREM ConversationsHeld ==
    ASSUME Mail!OutboxAssumption
    PROVE  Mail!Spec => [](Mail!HeldWhileConversing /\ Mail!OneConversation)
<1>1. Mail!Init => Mail!TypeOK /\ TurnInv /\ Mail!HeldWhileConversing
  BY MailTypeInit DEF Mail!OutboxAssumption, Mail!Init, TurnInv, Mail!HeldWhileConversing,
     Mail!Conversing
<1>2. Mail!TypeOK /\ TurnInv /\ Mail!HeldWhileConversing /\ [Mail!Next]_Mail!vars
        => (Mail!TypeOK /\ TurnInv /\ Mail!HeldWhileConversing)'
  BY MailTypeNext, TurnNext, HeldNext
<1>3. QED
  BY <1>1, <1>2, HeldByOne, PTL DEF Mail!Spec

-----------------------------------------------------------------------------
(* What one step may do to one row and to its count of deliveries.         *)

ExpiryInv == \A m \in expiry : mail[m].status # "absent"

MailKept(m) ==
    /\ mail'[m].status = mail[m].status /\ mail'[m].body = mail[m].body
    /\ mail'[m].attempts = mail[m].attempts /\ mail'[m].owner = mail[m].owner

Posted(m) ==
    /\ mail[m].status = "absent" /\ mail'[m].status = "pending"
    /\ mail'[m].body /\ mail'[m].attempts = 0

Leased(m) ==
    /\ mail[m].status \in Mail!Open /\ mail[m].attempts < MaxAttempts[m]
    /\ mail'[m].status = "processing" /\ mail'[m].body = mail[m].body
    /\ mail'[m].attempts = mail[m].attempts + 1

Ended(m) ==
    /\ mail[m].status \in Mail!Open \cup Mail!Terminal
    /\ mail'[m].status \in Mail!Terminal \/ mail'[m].status = "removed"
    /\ ~mail'[m].body

Requeued(m) ==
    /\ mail[m].status = "processing" /\ mail[m].attempts < MaxAttempts[m]
    /\ mail'[m].status = "retry" /\ mail'[m].body = mail[m].body
    /\ mail'[m].attempts = mail[m].attempts

Delivered(m) ==
    /\ mail' = mail /\ accepted' = [accepted EXCEPT ![m] = @ + 1]
    /\ \E s \in Senders :
         /\ Mail!HeldBy(m, s) /\ turn[s] = m /\ at[s] = "valid"
         /\ turn'[s] = m /\ at'[s] \in {"accepted", "refused"}

Undelivered(m) == accepted'[m] = accepted[m]

Move(m) ==
    \/ (MailKept(m) \/ Posted(m) \/ Leased(m) \/ Ended(m) \/ Requeued(m)) /\ Undelivered(m)
    \/ Delivered(m)

LEMMA ClosedEnds ==
    ASSUME NEW r \in Mail!Mail, NEW ending \in Mail!Terminal
    PROVE  Mail!Closed(r, ending).status = ending /\ ~Mail!Closed(r, ending).body
BY DEF Mail!Closed, Mail!Mail

Requeue(r) == [r EXCEPT !.status = "retry", !.due = FALSE,
                        !.lease = "none", !.owner = NoSender]

LEMMA RequeueKeeps ==
    ASSUME NEW r \in Mail!Mail
    PROVE  /\ Requeue(r).status = "retry" /\ Requeue(r).body = r.body
           /\ Requeue(r).attempts = r.attempts
BY DEF Requeue, Mail!Mail

LEMMA RowMoves ==
    ASSUME Mail!OutboxAssumption
    PROVE  Mail!TypeOK /\ Mail!HeldWhileConversing /\ ExpiryInv /\ [Mail!Next]_Mail!vars
           => \A m \in Messages : Move(m)
<1> SUFFICES ASSUME Mail!TypeOK, Mail!HeldWhileConversing, ExpiryInv, [Mail!Next]_Mail!vars,
                    NEW m \in Messages
             PROVE  Move(m)
  OBVIOUS
<1> USE DEF Mail!OutboxAssumption, Mail!TypeOK
<1> DEFINE r == mail[m]
           q == mail'[m]
<1>0. r \in Mail!Mail
  OBVIOUS
<1>1. ASSUME q = r, Undelivered(m) PROVE Move(m)
  BY <1>1 DEF Move, MailKept
<1>2. ASSUME NEW i \in Messages, Mail!MessageStep(i) PROVE Move(m)
  <2>1. CASE Mail!EnqueueEmail(i)
    BY <2>1, <1>0, <1>1 DEF Mail!EnqueueEmail, Mail!NoMail, Move, Posted, Undelivered
  <2>2. CASE Mail!LeaseLapses(i)
    BY <2>2, <1>0, <1>1 DEF Mail!LeaseLapses, Move, MailKept, Mail!Mail, Undelivered
  <2>3. CASE Mail!BecomesDue(i)
    BY <2>3, <1>0, <1>1 DEF Mail!BecomesDue, Move, MailKept, Mail!Mail, Undelivered
  <2>4. CASE Mail!DeadlinePasses(i) \/ Mail!Supersede(i)
    BY <2>4, <1>1 DEF Mail!DeadlinePasses, Mail!Supersede, Undelivered
  <2>5. QED
    BY <1>2, <2>1, <2>2, <2>3, <2>4 DEF Mail!MessageStep
<1>3. ASSUME NEW s \in Senders, Mail!SenderStep(s) PROVE Move(m)
  <2>1. CASE Mail!Claim(s)
    <3> DEFINE swept == {i \in Messages : Mail!Exhausted(i)}
               found == {i \in Messages \ swept : Mail!Claimable(i)}
    <3>1. PICK ids \in SUBSET found :
             mail' = [i \in Messages |->
                           IF i \in swept THEN Mail!Closed(mail[i], "dead")
                           ELSE IF i \in ids THEN Mail!LeasedMail(mail[i], s) ELSE mail[i]]
      BY <2>1, Zenon DEF Mail!Claim
    <3>2. Undelivered(m)
      BY <2>1 DEF Mail!Claim, Undelivered
    <3>3. CASE m \in swept
      <4>1. q = Mail!Closed(r, "dead") /\ r.status \in Mail!Open
        BY <3>1, <3>3 DEF Mail!Exhausted, Mail!Lapsed, Mail!Open
      <4>2. QED
        BY <4>1, <1>0, <3>2, ClosedEnds DEF Move, Ended, Mail!Terminal
    <3>4. CASE m \in ids \ swept
      <4>1. q = Mail!LeasedMail(r, s) /\ Mail!Claimable(m)
        BY <3>1, <3>4
      <4>2. QED
        BY <4>1, <1>0, <3>2 DEF Move, Leased, Mail!LeasedMail, Mail!Claimable, Mail!Lapsed,
           Mail!Open, Mail!Queued, Mail!Mail
    <3>5. CASE m \notin ids \cup swept
      BY <3>1, <3>2, <3>5, <1>1
    <3>6. QED
      BY <3>3, <3>4, <3>5
  <2>2. CASE \/ Mail!ReadClaimed(s) \/ Mail!BatchEnds(s) \/ Mail!LockForDelivery(s)
             \/ Mail!ProviderRefuses(s)
    BY <2>2, <1>1 DEF Mail!ReadClaimed, Mail!BatchEnds, Mail!LockForDelivery,
       Mail!ProviderRefuses, Mail!tableVars, Undelivered
  <2>3. CASE Mail!RenewLease(s)
    <3>1. PICK i \in left[s] : mail' = mail \/ mail' = [mail EXCEPT ![i].lease = "live"]
      BY <2>3 DEF Mail!RenewLease
    <3>2. QED
      BY <2>3, <3>1, <1>0, <1>1 DEF Mail!RenewLease, Move, MailKept, Mail!Mail, Undelivered
  <2>4. CASE Mail!Validate(s) \/ Mail!MarkSent(s)
    <3>1. Mail!HeldBy(turn[s], s) /\ Undelivered(m)
      BY <2>4 DEF Mail!Validate, Mail!MarkSent, Mail!HeldWhileConversing, Mail!Conversing,
         Undelivered
    <3>2. q = r \/ (turn[s] = m /\ \E ending \in Mail!Terminal : q = Mail!Closed(r, ending))
      BY <2>4 DEF Mail!Validate, Mail!MarkSent, Mail!Terminal
    <3>3. QED
      BY <3>1, <3>2, <1>0, <1>1, ClosedEnds DEF Move, Ended, Mail!HeldBy, Mail!Open
  <2>5. CASE Mail!ProviderAccepts(s)
    <3>1. Mail!HeldBy(turn[s], s) /\ mail' = mail
      BY <2>5 DEF Mail!ProviderAccepts, Mail!HeldWhileConversing, Mail!Conversing, Mail!tableVars
    <3>2. CASE turn[s] = m
      BY <2>5, <3>1, <3>2 DEF Mail!ProviderAccepts, Move, Delivered
    <3>3. CASE turn[s] # m
      BY <2>5, <3>1, <3>3, <1>1 DEF Mail!ProviderAccepts, Undelivered
    <3>4. QED
      BY <3>2, <3>3
  <2>6. CASE Mail!MarkFailed(s) \/ Mail!MarkInternal(s)
    <3>1. Undelivered(m)
      BY <2>6 DEF Mail!MarkFailed, Mail!MarkInternal, Undelivered
    <3>2. CASE Mail!MarkFailed(s)
      <4>1. /\ Mail!HeldBy(turn[s], s)
            /\ \/ q = r
               \/ /\ turn[s] = m
                  /\ q = Mail!FailedMail(r, MaxAttempts[m], at[s] = "refused", m \in overdue)
        BY <3>2 DEF Mail!MarkFailed, Mail!HeldWhileConversing, Mail!Conversing
      <4>2. \/ q = r
            \/ /\ r.status = "processing" /\ turn[s] = m
               /\ \/ q = Mail!Closed(r, "dead")
                  \/ r.attempts < MaxAttempts[m] /\ q = Requeue(r)
        BY <4>1, <1>0 DEF Mail!FailedMail, Requeue, Mail!Mail, Mail!HeldBy
      <4>3. QED
        BY <4>2, <1>0, <1>1, <3>1, ClosedEnds, RequeueKeeps
           DEF Ended, Requeued, Mail!Open, Mail!Terminal, Move
    <3>3. CASE Mail!MarkInternal(s)
      <4>1. \/ q = r
            \/ /\ turn[s] = m /\ Mail!HeldBy(m, s)
               /\ q = Mail!FailedMail(r, MaxAttempts[m], TRUE, m \in overdue)
        BY <3>3 DEF Mail!MarkInternal
      <4>2. \/ q = r
            \/ /\ r.status = "processing" /\ turn[s] = m
               /\ \/ q = Mail!Closed(r, "dead")
                  \/ r.attempts < MaxAttempts[m] /\ q = Requeue(r)
        BY <4>1, <1>0 DEF Mail!FailedMail, Requeue, Mail!Mail, Mail!HeldBy
      <4>3. QED
        BY <4>2, <1>0, <1>1, <3>1, ClosedEnds, RequeueKeeps
           DEF Ended, Requeued, Mail!Open, Mail!Terminal, Move
    <3>4. QED
      BY <2>6, <3>2, <3>3
  <2>7. QED
    BY <1>3, <2>1, <2>2, <2>3, <2>4, <2>5, <2>6 DEF Mail!SenderStep
<1>4. ASSUME NEW s \in Senders, Mail!DatabaseError(s) PROVE Move(m)
  <2>1. Undelivered(m)
    BY <1>4 DEF Mail!DatabaseError, Undelivered
  <2>2. q = r \/ (turn[s] = m /\ Mail!HeldBy(m, s) /\ q = Mail!Closed(r, "sent"))
    BY <1>4 DEF Mail!DatabaseError, Mail!HeldWhileConversing, Mail!Conversing
  <2>3. QED
    BY <2>1, <2>2, <1>0, <1>1, ClosedEnds DEF Move, Ended, Mail!HeldBy, Mail!Open, Mail!Terminal
<1>5. ASSUME NEW s \in Senders, Mail!Crash(s) PROVE Move(m)
  BY <1>5, <1>1 DEF Mail!Crash, Mail!tableVars, Undelivered
<1>6. CASE Mail!CancelUserEmail \/ Mail!ExpireUpdate
  <2>1. Undelivered(m)
    BY <1>6 DEF Mail!CancelUserEmail, Mail!ExpireUpdate, Undelivered
  <2>2. q = r \/ (r.status \in Mail!Open \cup Mail!Terminal /\ q = Mail!Closed(r, "cancelled"))
    BY <1>6, <1>0 DEF Mail!CancelUserEmail, Mail!ExpireUpdate, Mail!CloseRows, ExpiryInv, Mail!Mail
  <2>3. QED
    BY <2>1, <2>2, <1>0, <1>1, ClosedEnds DEF Move, Ended, Mail!Terminal
<1>7. CASE Mail!EraseUserEmail \/ Mail!PurgeTerminal
  <2>1. Undelivered(m)
    BY <1>7 DEF Mail!EraseUserEmail, Mail!PurgeTerminal, Undelivered
  <2>2. q = r \/ (r.status \in Mail!Open \cup Mail!Terminal /\ q = Mail!Removed)
    BY <1>7 DEF Mail!EraseUserEmail, Mail!PurgeTerminal, Mail!RemoveRows
  <2>3. QED
    BY <2>1, <2>2, <1>1 DEF Move, Ended, Mail!Removed, Mail!NoMail
<1>8. CASE Mail!ExpireSelect \/ UNCHANGED Mail!vars
  BY <1>8, <1>1 DEF Mail!ExpireSelect, Mail!tableVars, Mail!vars, Undelivered
<1>9. QED
  BY <1>2, <1>3, <1>4, <1>5, <1>6, <1>7, <1>8 DEF Mail!Next

-----------------------------------------------------------------------------
(* The recipient, and the ids maintenance has selected.                    *)

LEMMA ExpiryNext ==
    ASSUME Mail!OutboxAssumption
    PROVE  Mail!TypeOK /\ Mail!HeldWhileConversing /\ ExpiryInv /\ [Mail!Next]_Mail!vars
           => ExpiryInv'
<1> SUFFICES ASSUME Mail!TypeOK, Mail!HeldWhileConversing, ExpiryInv, [Mail!Next]_Mail!vars,
                    NEW m \in expiry'
             PROVE  mail'[m].status # "absent"
  BY DEF ExpiryInv
<1>1. m \in Messages /\ Move(m)
  BY MailTypeNext, RowMoves DEF Mail!TypeOK
<1>2. m \in expiry \/ (m \in overdue /\ mail[m].status \in Mail!Open)
  BY DEF Mail!Next, Mail!MessageStep, Mail!EnqueueEmail, Mail!LeaseLapses, Mail!BecomesDue,
     Mail!DeadlinePasses, Mail!Supersede, Mail!SenderStep, Mail!Claim, Mail!ReadClaimed,
     Mail!RenewLease, Mail!LockForDelivery, Mail!Validate, Mail!ProviderAccepts,
     Mail!ProviderRefuses, Mail!MarkSent, Mail!MarkFailed, Mail!MarkInternal, Mail!BatchEnds,
     Mail!DatabaseError, Mail!Crash, Mail!CancelUserEmail, Mail!EraseUserEmail,
     Mail!ExpireSelect, Mail!ExpireUpdate, Mail!PurgeTerminal, Mail!vars
<1>3. mail[m].status # "absent"
  BY <1>2 DEF ExpiryInv, Mail!Open, Mail!Queued
<1>4. QED
  BY <1>1, <1>3
     DEF Move, MailKept, Posted, Leased, Ended, Requeued, Delivered, Mail!Terminal

LEMMA RedactedNext ==
    ASSUME Mail!OutboxAssumption
    PROVE  /\ Mail!TypeOK /\ Mail!HeldWhileConversing /\ ExpiryInv
           /\ Mail!RedactedWhenClosed /\ [Mail!Next]_Mail!vars
           => Mail!RedactedWhenClosed'
<1> SUFFICES ASSUME Mail!TypeOK, Mail!HeldWhileConversing, ExpiryInv, Mail!RedactedWhenClosed,
                    [Mail!Next]_Mail!vars,
                    NEW m \in Messages
             PROVE  mail'[m].body <=> mail'[m].status \in Mail!Open
  BY DEF Mail!RedactedWhenClosed
<1>1. Move(m) /\ (mail[m].body <=> mail[m].status \in Mail!Open)
  BY RowMoves DEF Mail!RedactedWhenClosed
<1>2. QED
  BY <1>1 DEF Move, MailKept, Posted, Leased, Ended, Requeued, Delivered, Mail!Terminal,
     Mail!Open, Mail!Queued

LockInv == Mail!TypeOK /\ TurnInv /\ Mail!HeldWhileConversing /\ ExpiryInv

LEMMA LockInit ==
    ASSUME Mail!OutboxAssumption
    PROVE  Mail!Init => LockInv
BY MailTypeInit DEF Mail!OutboxAssumption, LockInv, Mail!Init, TurnInv,
   Mail!HeldWhileConversing, Mail!Conversing, ExpiryInv

LEMMA LockNext ==
    ASSUME Mail!OutboxAssumption
    PROVE  LockInv /\ [Mail!Next]_Mail!vars => LockInv'
BY MailTypeNext, TurnNext, HeldNext, ExpiryNext DEF LockInv

\* Recipient and payload exist exactly as long as the message may still be sent.
THEOREM MailRedacted ==
    ASSUME Mail!OutboxAssumption
    PROVE  Mail!Spec => []Mail!RedactedWhenClosed
<1>1. Mail!Init => Mail!RedactedWhenClosed
  BY DEF Mail!Init, Mail!RedactedWhenClosed, Mail!NoMail, Mail!Open, Mail!Queued
<1>2. LockInv /\ Mail!RedactedWhenClosed /\ [Mail!Next]_Mail!vars => Mail!RedactedWhenClosed'
  BY RedactedNext DEF LockInv
<1>3. QED
  BY LockInit, LockNext, <1>1, <1>2, PTL DEF Mail!Spec

-----------------------------------------------------------------------------
(* The budget of deliveries.                                               *)

\* A process owes a delivery only for a row it has just leased.
LEMMA UnsentMoves ==
    ASSUME Mail!OutboxAssumption, LockInv, [Mail!Next]_Mail!vars, NEW s \in Senders,
           NEW m \in Messages, Unsent(s, m)'
    PROVE  Unsent(s, m) \/ Leased(m)
<1> USE DEF Mail!OutboxAssumption, LockInv, Mail!TypeOK, TurnInv, Unsent
<1>0. ASSUME UNCHANGED Mail!senderVars PROVE Unsent(s, m)
  BY <1>0 DEF Mail!senderVars
<1>1. ASSUME NEW i \in Messages, Mail!MessageStep(i) PROVE Unsent(s, m)
  BY <1>1, <1>0 DEF Mail!MessageStep, Mail!EnqueueEmail, Mail!LeaseLapses, Mail!BecomesDue,
     Mail!DeadlinePasses, Mail!Supersede
<1>2. ASSUME NEW p \in Senders, Mail!SenderStep(p) PROVE Unsent(s, m) \/ Leased(m)
  <2>1. CASE Mail!Claim(p)
    <3>1. CASE Unsent(s, m)
      BY <3>1
    <3>2. CASE ~Unsent(s, m)
      <4> DEFINE swept == {i \in Messages : Mail!Exhausted(i)}
                 found == {i \in Messages \ swept : Mail!Claimable(i)}
      <4>1. PICK ids \in SUBSET found :
               /\ mail' = [i \in Messages |->
                             IF i \in swept THEN Mail!Closed(mail[i], "dead")
                             ELSE IF i \in ids THEN Mail!LeasedMail(mail[i], p) ELSE mail[i]]
               /\ picked' = [picked EXCEPT ![p] = ids]
        BY <2>1, Zenon DEF Mail!Claim
      <4>2. m \in picked'[s]
        BY <2>1, <3>2 DEF Mail!Claim
      <4>3. m \in ids
        BY <3>2, <4>1, <4>2
      <4>4. Mail!Claimable(m) /\ mail'[m] = Mail!LeasedMail(mail[m], p)
        BY <4>1, <4>3
      <4>5. mail[m] \in Mail!Mail
        OBVIOUS
      <4>6. QED
        BY <4>4, <4>5 DEF Leased, Mail!LeasedMail, Mail!Claimable, Mail!Lapsed, Mail!Open,
           Mail!Queued, Mail!Mail
    <3>3. QED
      BY <3>1, <3>2
  <2>2. CASE Mail!ReadClaimed(p)
    BY <2>2 DEF Mail!ReadClaimed
  <2>3. CASE Mail!RenewLease(p)
    BY <2>3 DEF Mail!RenewLease, Mail!Abandon
  <2>4. CASE Mail!LockForDelivery(p)
    BY <2>4 DEF Mail!LockForDelivery, Mail!NextRow, Mail!Abandon
  <2>5. CASE Mail!Validate(p)
    BY <2>5 DEF Mail!Validate, Mail!NextRow
  <2>6. CASE Mail!ProviderAccepts(p) \/ Mail!ProviderRefuses(p)
    BY <2>6 DEF Mail!ProviderAccepts, Mail!ProviderRefuses
  <2>7. CASE Mail!MarkSent(p) \/ Mail!MarkFailed(p) \/ Mail!MarkInternal(p)
    BY <2>7 DEF Mail!MarkSent, Mail!MarkFailed, Mail!MarkInternal, Mail!NextRow
  <2>8. CASE Mail!BatchEnds(p)
    BY <2>8 DEF Mail!BatchEnds
  <2>9. QED
    BY <1>2, <2>1, <2>2, <2>3, <2>4, <2>5, <2>6, <2>7, <2>8 DEF Mail!SenderStep
<1>3. ASSUME NEW p \in Senders, Mail!DatabaseError(p) PROVE Unsent(s, m)
  BY <1>3 DEF Mail!DatabaseError, Mail!Abandon
<1>4. ASSUME NEW p \in Senders, Mail!Crash(p) PROVE Unsent(s, m)
  BY <1>4 DEF Mail!Crash
<1>5. CASE \/ Mail!CancelUserEmail \/ Mail!EraseUserEmail \/ Mail!ExpireSelect
           \/ Mail!ExpireUpdate \/ Mail!PurgeTerminal
  BY <1>5, <1>0 DEF Mail!CancelUserEmail, Mail!EraseUserEmail, Mail!ExpireSelect,
     Mail!ExpireUpdate, Mail!PurgeTerminal
<1>6. CASE UNCHANGED Mail!vars
  BY <1>6, <1>0 DEF Mail!vars
<1>7. QED
  BY <1>1, <1>2, <1>3, <1>4, <1>5, <1>6 DEF Mail!Next

LEMMA BudgetNext ==
    ASSUME Mail!OutboxAssumption
    PROVE  LockInv /\ BudgetInv /\ [Mail!Next]_Mail!vars => BudgetInv'
<1> SUFFICES ASSUME LockInv, BudgetInv, [Mail!Next]_Mail!vars, NEW m \in Messages
             PROVE  /\ mail'[m].status = "absent" => accepted'[m] = 0
                    /\ mail'[m].status \in Mail!Open =>
                         /\ accepted'[m] <= mail'[m].attempts
                         /\ mail'[m].attempts <= MaxAttempts[m]
                    /\ mail'[m].status \in Mail!Queued => mail'[m].attempts < MaxAttempts[m]
                    /\ \A s \in Senders : Mail!HeldBy(m, s)' /\ Unsent(s, m)'
                         => accepted'[m] < mail'[m].attempts
  BY DEF BudgetInv
<1> USE DEF Mail!OutboxAssumption, BudgetInv
<1>1. Move(m) /\ mail[m] \in Mail!Mail /\ accepted[m] \in Nat /\ MaxAttempts[m] \in Nat \ {0}
  BY RowMoves DEF LockInv, Mail!TypeOK
<1>2. \A s \in Senders : Unsent(s, m)' => Unsent(s, m) \/ Leased(m)
  BY UnsentMoves
<1>3. CASE MailKept(m) /\ Undelivered(m)
  BY <1>1, <1>2, <1>3 DEF MailKept, Undelivered, Mail!HeldBy, Leased, Mail!Mail
<1>4. CASE Posted(m) /\ Undelivered(m)
  BY <1>1, <1>4 DEF Posted, Undelivered, Mail!HeldBy, Mail!Open, Mail!Queued
<1>5. CASE Leased(m) /\ Undelivered(m)
  BY <1>1, <1>5 DEF Leased, Undelivered, Mail!Open, Mail!Queued, Mail!Mail
<1>6. CASE Ended(m) /\ Undelivered(m)
  BY <1>1, <1>6 DEF Ended, Undelivered, Mail!HeldBy, Mail!Open, Mail!Queued, Mail!Terminal
<1>7. CASE Requeued(m) /\ Undelivered(m)
  BY <1>1, <1>7 DEF Requeued, Undelivered, Mail!HeldBy, Mail!Open, Mail!Queued, Mail!Mail
<1>8. CASE Delivered(m)
  <2>1. PICK s \in Senders : /\ Mail!HeldBy(m, s) /\ turn[s] = m /\ at[s] = "valid"
                             /\ turn'[s] = m /\ at'[s] \in {"accepted", "refused"}
    BY <1>8 DEF Delivered
  <2>2. accepted[m] < mail[m].attempts
    BY <2>1 DEF Unsent
  <2>3. mail' = mail /\ accepted'[m] = accepted[m] + 1
    BY <1>8 DEF Delivered, LockInv, Mail!TypeOK
  <2>4. ~Unsent(s, m)'
    BY <2>1, TurnNext DEF LockInv, TurnInv, Unsent
  <2>5. \A p \in Senders : Mail!HeldBy(m, p)' => p = s
    BY <2>1, <2>3 DEF Mail!HeldBy
  <2>6. mail[m].status = "processing"
    BY <2>1 DEF Mail!HeldBy
  <2>7. QED
    BY <1>1, <2>2, <2>3, <2>4, <2>5, <2>6 DEF Mail!Mail, Mail!Open, Mail!Queued
<1>9. QED
  BY <1>1, <1>3, <1>4, <1>5, <1>6, <1>7, <1>8 DEF Move

-----------------------------------------------------------------------------
(* The outbox implements MailLedger.                                       *)

LedgerEntry(m) == [state |-> Mail!MailState(mail[m].status), delivered |-> accepted[m]]

LEMMA LedgerStep ==
    ASSUME Mail!OutboxAssumption, LockInv, BudgetInv, [Mail!Next]_Mail!vars, NEW m \in Messages
    PROVE  /\ Mail!Ledger!EntryStep(m, LedgerEntry(m), LedgerEntry(m)')
           /\ LedgerEntry(m)' \in Mail!Ledger!Entry
<1> USE DEF Mail!OutboxAssumption
<1>1. /\ Move(m) /\ mail[m] \in Mail!Mail /\ accepted[m] \in Nat
      /\ mail'[m] \in Mail!Mail /\ accepted'[m] \in Nat
  BY RowMoves, MailTypeNext DEF LockInv, Mail!TypeOK
<1>2. LedgerEntry(m)' \in Mail!Ledger!Entry
  BY <1>1 DEF LedgerEntry, Mail!Ledger!Entry, Mail!MailState, Mail!Mail, Mail!Open, Mail!Queued,
     Mail!Terminal
<1>3. Mail!Ledger!EntryStep(m, LedgerEntry(m), LedgerEntry(m)')
  <2> USE DEF LedgerEntry, Mail!Ledger!EntryStep, Mail!Ledger!At
  <2>1. CASE MailKept(m) /\ Undelivered(m)
    BY <2>1 DEF MailKept, Undelivered
  <2>2. CASE Posted(m) /\ Undelivered(m)
    BY <1>1, <2>2 DEF Posted, Undelivered, Mail!Ledger!Post, Mail!MailState, Mail!Open,
       Mail!Queued, Mail!Terminal, BudgetInv
  <2>3. CASE Leased(m) /\ Undelivered(m)
    BY <2>3 DEF Leased, Undelivered, Mail!MailState, Mail!Open, Mail!Queued, Mail!Terminal
  <2>4. CASE Ended(m) /\ Undelivered(m)
    BY <2>4 DEF Ended, Undelivered, Mail!Ledger!Close, Mail!Ledger!Remove, Mail!MailState,
       Mail!Open, Mail!Queued, Mail!Terminal
  <2>5. CASE Requeued(m) /\ Undelivered(m)
    BY <2>5 DEF Requeued, Undelivered, Mail!MailState, Mail!Open, Mail!Queued, Mail!Terminal
  <2>6. CASE Delivered(m)
    <3>1. PICK s \in Senders : Mail!HeldBy(m, s) /\ turn[s] = m /\ at[s] = "valid"
      BY <2>6 DEF Delivered
    <3>2. accepted[m] < mail[m].attempts /\ mail[m].status = "processing"
      BY <3>1 DEF BudgetInv, Unsent, Mail!HeldBy
    <3>3. mail[m].attempts <= MaxAttempts[m] /\ mail[m].attempts \in Nat
      BY <1>1, <3>2 DEF BudgetInv, Mail!Open, Mail!Mail
    <3>4. mail' = mail /\ accepted'[m] = accepted[m] + 1
      BY <2>6 DEF Delivered, LockInv, Mail!TypeOK
    <3>5. accepted[m] < MaxAttempts[m]
      BY <1>1, <3>2, <3>3
    <3>6. QED
      BY <3>2, <3>4, <3>5 DEF Mail!Ledger!Deliver, Mail!MailState, Mail!Open, Mail!Queued,
         Mail!Terminal
  <2>7. QED
    BY <1>1, <2>1, <2>2, <2>3, <2>4, <2>5, <2>6 DEF Move
<1>4. QED
  BY <1>2, <1>3

\* A message is handed to the provider at most max_attempts times and only while it
\* is open, whatever processes, leases, faults and requests do.
THEOREM OutboxKeepsLedger ==
    ASSUME Mail!OutboxAssumption
    PROVE  Mail!Spec => Mail!KeepsLedger
<1>1. Mail!Init => BudgetInv /\ Mail!Ledger!Init
  BY DEF Mail!Init, BudgetInv, Mail!NoMail, Mail!Open, Mail!Queued, Mail!HeldBy,
     Mail!Ledger!Init, Mail!Ledger!At, Mail!MailState, Mail!Terminal
<1>2. LockInv /\ BudgetInv /\ [Mail!Next]_Mail!vars => Mail!Ledger!Next
  <2> SUFFICES ASSUME LockInv, BudgetInv, [Mail!Next]_Mail!vars PROVE Mail!Ledger!Next
    OBVIOUS
  <2>1. \A m \in Messages : /\ Mail!Ledger!EntryStep(m, LedgerEntry(m), LedgerEntry(m)')
                            /\ LedgerEntry(m)' \in Mail!Ledger!Entry
    BY LedgerStep
  <2>2. QED
    BY <2>1 DEF Mail!Ledger!Next, LedgerEntry
<1>3. QED
  BY LockInit, LockNext, BudgetNext, <1>1, <1>2, PTL DEF Mail!Spec, Mail!KeepsLedger,
     Mail!Ledger!Spec

-----------------------------------------------------------------------------
(* Whatever part runs, the outbox of mails runs or rests.                   *)

LEMMA MailRuns == BackgroundSpec => Mail!Spec
<1>1. BackgroundInit => Mail!Init
  BY DEF BackgroundInit
<1>2. [BackgroundNext]_allVars => [Mail!Next]_Mail!vars
  BY DEF BackgroundNext, allVars, mailVars, Mail!vars, Mail!tableVars, Mail!senderVars
<1> QED BY <1>1, <1>2, PTL DEF BackgroundSpec, Mail!Spec

\* A mail is never in two conversations with the provider at once, although leases lapse
\* during them and other processes claim and sweep (lock_email_for_delivery, FOR UPDATE).
THEOREM MailsTalkOnce == BackgroundSpec => []OneConversation
<1>1. Mail!Spec => [](Mail!HeldWhileConversing /\ Mail!OneConversation)
  BY BackgroundAssumption, ConversationsHeld
<1> QED BY <1>1, MailRuns, PTL DEF OneConversation

\* The outbox implements the ledger of MailLedger: a mail is handed over max_attempts
\* times at most, and never again once it was sent, cancelled, expired, given up or erased.
THEOREM MailsKeepLedger == BackgroundSpec => KeepsLedger
<1>1. Mail!Spec => Mail!KeepsLedger
  BY BackgroundAssumption, OutboxKeepsLedger
<1> QED BY <1>1, MailRuns, PTL DEF KeepsLedger
=============================================================================
