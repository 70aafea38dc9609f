------------------------------ MODULE JobLedger ------------------------------
(***************************************************************************)
(* What the durable queue promises about each job, without processes,      *)
(* leases, statements or snapshots.  A job is offered, taken at most       *)
(* MaxAttempts times, perhaps withdrawn, closed with one outcome, removed.  *)
(***************************************************************************)
EXTENDS Naturals

CONSTANTS Jobs, MaxAttempts

VARIABLE entry

Entry == [state     : {"absent", "offered", "taken", "succeeded", "failed",
                       "cancelled", "removed"},
          taken     : Nat,        \* how often it was taken
          withdrawn : BOOLEAN]    \* its cancellation was accepted

At(s, n, w) == [state |-> s, taken |-> n, withdrawn |-> w]

Unborn  == At("absent", 0, FALSE)
Removed == At("removed", 0, FALSE)

Init == entry = [j \in Jobs |-> Unborn]

-----------------------------------------------------------------------------
(* What may happen to the entry e; f is the entry afterwards.               *)

Offer(e, f) == e.state = "absent" /\ f = At("offered", e.taken, e.withdrawn)

\* Also from "taken": the process that had the job is gone.
Take(e, f, max) ==
    /\ e.state \in {"offered", "taken"} /\ ~e.withdrawn /\ e.taken < max
    /\ f = At("taken", e.taken + 1, e.withdrawn)

GiveBack(e, f, max) ==
    /\ e.state = "taken" /\ ~e.withdrawn /\ e.taken < max
    /\ f = At("offered", e.taken, e.withdrawn)

Succeed(e, f) ==
    e.state = "taken" /\ ~e.withdrawn /\ f = At("succeeded", e.taken, e.withdrawn)

\* Fails, or is given up as cancelled by its taker.
GiveUp(e, f) ==
    /\ e.state = "taken"
    /\ \E s \in {"failed", "cancelled"} : f = At(s, e.taken, e.withdrawn)

\* A job nobody has is cancelled at once; else its taker is told.
Withdraw(e, f) ==
    \/ /\ e.state \in {"offered", "taken"}
       /\ f = At("cancelled", e.taken, TRUE)
    \/ /\ e.state = "taken"
       /\ f = At("taken", e.taken, TRUE)

Remove(e, f) == e.state \in {"succeeded", "failed", "cancelled"} /\ f = Removed

EntryStep(j, e, f) ==
    \/ f = e
    \/ Offer(e, f)
    \/ Take(e, f, MaxAttempts[j])
    \/ GiveBack(e, f, MaxAttempts[j])
    \/ Succeed(e, f)
    \/ GiveUp(e, f)
    \/ Withdraw(e, f)
    \/ Remove(e, f)

\* One statement may move several jobs, each in its own way.
Next ==
    /\ entry' \in [Jobs -> Entry]
    /\ \A j \in Jobs : EntryStep(j, entry[j], entry'[j])

Spec == Init /\ [][Next]_entry
=============================================================================
