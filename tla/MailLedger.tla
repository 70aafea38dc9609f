----------------------------- MODULE MailLedger -----------------------------
(***************************************************************************)
(* What the email outbox promises about each message, without processes,   *)
(* leases, locks or statements.  A message is posted, handed to the mail    *)
(* provider at most MaxAttempts times while it is open, closed for good by  *)
(* any outcome, and removed.                                               *)
(***************************************************************************)
EXTENDS Naturals

CONSTANTS Messages, MaxAttempts

VARIABLE entry

Entry == [state : {"absent", "open", "closed", "removed"}, delivered : Nat]

At(s, n) == [state |-> s, delivered |-> n]

Init == entry = [m \in Messages |-> At("absent", 0)]

Post(e, f)  == e.state = "absent" /\ f = At("open", 0)

\* Mail is delivered at least once or not at all: there is no exactly-once.
Deliver(e, f, max) ==
    e.state = "open" /\ e.delivered < max /\ f = At("open", e.delivered + 1)

Close(e, f)  == e.state = "open" /\ f = At("closed", e.delivered)
Remove(e, f) == e.state \in {"open", "closed"} /\ f = At("removed", e.delivered)

EntryStep(m, e, f) ==
    \/ f = e
    \/ Post(e, f)
    \/ Deliver(e, f, MaxAttempts[m])
    \/ Close(e, f)
    \/ Remove(e, f)

\* One statement may close or remove several messages.
Next ==
    /\ entry' \in [Messages -> Entry]
    /\ \A m \in Messages : EntryStep(m, entry[m], entry'[m])

Spec == Init /\ [][Next]_entry
=============================================================================
