------------------------------ MODULE StreamHub ------------------------------
(***************************************************************************)
(* The in-memory stream hub (_InMemoryStreamHub, chats/streaming.py): the   *)
(* lines a generation publishes, the bounded buffer that retains them, the  *)
(* subscribers that follow it with a cursor, and the reaper that removes a  *)
(* finished generation once nobody follows it.                             *)
(*                                                                         *)
(* Threads meet at one lock.  Every section under the lock is one action;   *)
(* between two of them a thread may be preempted, wait, yield to its        *)
(* consumer or be dropped by it.  A Subscriber is one call of subscribe() or*)
(* subscribe_async(): a client that reconnects is another Subscriber.       *)
(***************************************************************************)
EXTENDS Integers, Sequences, FiniteSets

CONSTANTS
    Generations, NoGeneration,
    Chats, NoChat,      \* a new chat has no id when its stream is reserved
    Subscribers,
    Async,              \* calls of subscribe_async
    Closing,            \* those whose event loop may be closed under them
    MaxLines,           \* the limit on retained lines
    MaxSeq,             \* bound: lines of one generation
    MaxLives            \* bound: how often an id is started after removal

ASSUME HubAssumption ==
    /\ NoGeneration \notin Generations /\ NoChat \notin Chats
    /\ IsFiniteSet(Subscribers)
    /\ Async \subseteq Subscribers /\ Closing \subseteq Async
    /\ MaxLines \in Nat \ {0} /\ MaxSeq \in Nat /\ MaxLives \in Nat

VARIABLES
    gens,       \* _gens, with how often each id was started
    byChat,     \* _by_chat
    heap,       \* _cleanup_deadlines: an id and the life the deadline is of
    listed,     \* async_subscribers of each generation
    at,         \* where each subscriber is
    of,         \* the generation it follows
    from,       \* the sequence number it asked to start after
    cursor,     \* its cursor
    event,      \* asyncio.Event of an async one; a sync one was notified
    posted,     \* call_soon_threadsafe(event.set) has not run yet
    seen,       \* history: sequence numbers it was handed
    ended       \* history: why it stopped

hubVars  == <<gens, byChat, heap, listed>>
wakeVars == <<event, posted>>
subVars  == <<at, of, from, cursor, seen, ended>>
vars == <<hubVars, wakeVars, subVars>>

Gen == [present   : BOOLEAN,
        chat      : Chats \cup {NoChat},
        seq       : Nat,
        buffer    : Seq(Nat),           \* the sequence numbers retained
        active    : BOOLEAN,
        count     : Nat,                \* subscriber_count
        deadline  : {"none", "ahead", "passed"},
        scheduled : BOOLEAN,
        life      : Nat]

NoGen(life) == [present |-> FALSE, chat |-> NoChat, seq |-> 0, buffer |-> <<>>,
                active |-> FALSE, count |-> 0, deadline |-> "none",
                scheduled |-> FALSE, life |-> life]

NewGen(chat, life) == [NoGen(life) EXCEPT !.present = TRUE, !.active = TRUE,
                                          !.chat = chat]

\* "look": about to take the lock; "yield": its consumer has the turn; "leave":
\* about to run the finally clause; "gone": its event loop was closed.
SubscriberState == {"new", "look", "wait", "yield", "leave", "over", "gone"}

TypeOK ==
    /\ gens \in [Generations -> Gen]
    /\ byChat \in [Chats -> Generations \cup {NoGeneration}]
    /\ heap \subseteq Generations \X Nat
    /\ listed \in [Generations -> SUBSET Async]
    /\ at \in [Subscribers -> SubscriberState]
    /\ of \in [Subscribers -> Generations \cup {NoGeneration}]
    /\ from \in [Subscribers -> Nat]
    /\ cursor \in [Subscribers -> Nat]
    /\ event \in [Subscribers -> BOOLEAN]
    /\ posted \in [Subscribers -> BOOLEAN]
    /\ seen \in [Subscribers -> SUBSET Nat]
    /\ ended \in [Subscribers -> {"no", "end", "gap", "lost", "left"}]

Init ==
    /\ gens = [g \in Generations |-> NoGen(0)]
    /\ byChat = [c \in Chats |-> NoGeneration]
    /\ heap = {}
    /\ listed = [g \in Generations |-> {}]
    /\ at = [s \in Subscribers |-> "new"]
    /\ of = [s \in Subscribers |-> NoGeneration]
    /\ from = [s \in Subscribers |-> 0]
    /\ cursor = [s \in Subscribers |-> 0]
    /\ event = [s \in Subscribers |-> FALSE]
    /\ posted = [s \in Subscribers |-> FALSE]
    /\ seen = [s \in Subscribers |-> {}]
    /\ ended = [s \in Subscribers |-> "no"]

-----------------------------------------------------------------------------
(* Parts of the sections under the lock.                                   *)

Stale(g) == {s \in listed[g] : at[s] = "gone"}

\* Faulty variant: threads that wait on the condition are forgotten.
NotifyTasksOnly(g) ==
    /\ posted' = [s \in Subscribers |-> posted[s] \/ s \in listed[g] \ Stale(g)]
    /\ listed' = [listed EXCEPT ![g] = @ \ Stale(g)]
    /\ UNCHANGED event

\* condition.notify_all() and _notify_async_subscribers_unlocked: waiting threads
\* wake, events are posted to their loops, closed loops are dropped.
Notify(g) ==
    /\ event' = [s \in Subscribers |->
                   event[s] \/ (s \notin Async /\ at[s] = "wait" /\ of[s] = g)]
    /\ posted' = [s \in Subscribers |-> posted[s] \/ s \in listed[g] \ Stale(g)]
    /\ listed' = [listed EXCEPT ![g] = @ \ Stale(g)]

Minus(n, k) == IF n >= k THEN n - k ELSE 0

NotifiedGen(r, g) == [r EXCEPT !.count = Minus(@, Cardinality(Stale(g)))]

\* Faulty variant: removal leaves the chat pointing at the stream.
ForgetNothing(g) == UNCHANGED byChat

Forget(g) == byChat' = [c \in Chats |-> IF c = gens[g].chat /\ byChat[c] = g
                                        THEN NoGeneration ELSE byChat[c]]

\* Faulty variant: followers of a finished stream are not looked at.
IdleFinished(r) == ~r.active

Idle(r) == ~r.active /\ r.count = 0

\* _schedule_cleanup_unlocked for the finished stream r.
ReclaimsNow(r) == r.deadline = "passed" /\ r.count = 0

ScheduledGen(r) == [r EXCEPT !.deadline = IF @ = "none" THEN "ahead" ELSE @,
                             !.scheduled = TRUE]

ScheduleCleanup(r, g) ==
    IF ReclaimsNow(r)
    THEN gens' = [gens EXCEPT ![g] = NoGen(r.life)] /\ UNCHANGED heap
    ELSE /\ gens' = [gens EXCEPT ![g] = ScheduledGen(r)]
         /\ heap' = IF r.scheduled THEN heap ELSE heap \cup {<<g, r.life>>}

-----------------------------------------------------------------------------
(* The producer.                                                           *)

\* start: a second call gives its chat to a stream reserved without one.
Start(g, chat) ==
    /\ IF gens[g].present
       THEN /\ chat # NoChat /\ gens[g].chat = NoChat
            /\ gens' = [gens EXCEPT ![g].chat = chat]
       ELSE /\ gens[g].life < MaxLives
            /\ gens' = [gens EXCEPT ![g] = NewGen(chat, @.life + 1)]
    /\ byChat' = [c \in Chats |-> IF c = chat THEN g ELSE byChat[c]]
    /\ UNCHANGED <<heap, listed, wakeVars, subVars>>

\* What publishing leaves in the buffer: at most MaxLines lines, perhaps fewer
\* because of their bytes, always the newest.
Trimmed(buffer, seq, kept) ==
    LET all == Append(buffer, seq)
    IN  SubSeq(all, Len(all) - kept + 1, Len(all))

Published(r, kept) ==
    [r EXCEPT !.seq = @ + 1, !.buffer = Trimmed(@, r.seq + 1, kept)]

PublishLine(g) ==
    /\ gens[g].present /\ gens[g].active /\ gens[g].seq < MaxSeq
    /\ \E kept \in 1 .. MaxLines :
         /\ kept <= Len(gens[g].buffer) + 1
         /\ gens' = [gens EXCEPT ![g] = Published(NotifiedGen(@, g), kept)]
    /\ Notify(g)
    /\ UNCHANGED <<byChat, heap, subVars>>

Finished(r) == [r EXCEPT !.active = FALSE]

MarkDone(g) ==
    LET r == Finished(NotifiedGen(gens[g], g))
    IN  /\ gens[g].present
        /\ IF r.count = 0
           THEN ScheduleCleanup(r, g)
           ELSE gens' = [gens EXCEPT ![g] = r] /\ UNCHANGED heap
        /\ Notify(g)
        /\ Forget(g)
        /\ UNCHANGED subVars

-----------------------------------------------------------------------------
(* A subscriber.                                                           *)

\* The first section of subscribe; a missing stream ends the call at once.
Subscribe(s) ==
    /\ at[s] = "new"
    /\ \E g \in Generations, n \in 0 .. MaxSeq :
         /\ gens[g].present
         /\ gens' = [gens EXCEPT ![g].count = @ + 1]
         /\ listed' = IF s \in Async THEN [listed EXCEPT ![g] = @ \cup {s}] ELSE listed
         /\ of' = [of EXCEPT ![s] = g]
         /\ from' = [from EXCEPT ![s] = n]
         /\ cursor' = [cursor EXCEPT ![s] = n]
    /\ at' = [at EXCEPT ![s] = "look"]
    /\ UNCHANGED <<byChat, heap, wakeVars, seen, ended>>

Leaves(s, why) ==
    /\ at' = [at EXCEPT ![s] = "leave"]
    /\ ended' = [ended EXCEPT ![s] = why]

\* Faulty variant: lines that were dropped are skipped.
GapIgnored(buffer, c) == FALSE

Gap(buffer, c) == buffer # <<>> /\ c < buffer[1] - 1

\* Faulty variant: off by one.
UnreadShort(buffer, c) == buffer # <<>> /\ c + 1 < buffer[Len(buffer)]

Unread(buffer, c) == buffer # <<>> /\ c < buffer[Len(buffer)]

NextLine(buffer, c) == buffer[Minus(c + 1, buffer[1]) + 1]

\* The section of the loop, and what it leads to: the stream is gone, has a gap,
\* has a line to yield, or has none, so that one waits or is done.
Look(s) ==
    LET g    == gens[of[s]]
        gap  == Gap(g.buffer, cursor[s])
        line == Unread(g.buffer, cursor[s])
        next == NextLine(g.buffer, cursor[s])
    IN  /\ at[s] = "look"
        /\ \/ ~g.present /\ Leaves(s, "lost") /\ UNCHANGED <<cursor, seen, event>>
           \/ g.present /\ gap /\ Leaves(s, "gap") /\ UNCHANGED <<cursor, seen, event>>
           \/ /\ g.present /\ ~gap /\ line
              /\ cursor' = [cursor EXCEPT ![s] = next]
              /\ seen' = [seen EXCEPT ![s] = @ \cup {next}]
              /\ at' = [at EXCEPT ![s] = "yield"]
              /\ UNCHANGED <<ended, event>>
           \/ /\ g.present /\ ~gap /\ ~line /\ g.active
              /\ at' = [at EXCEPT ![s] = "wait"]
              /\ event' = [event EXCEPT ![s] = FALSE]
              /\ UNCHANGED <<ended, cursor, seen>>
           \/ /\ g.present /\ ~gap /\ ~line /\ ~g.active
              /\ Leaves(s, "end")
              /\ UNCHANGED <<cursor, seen, event>>
    /\ UNCHANGED <<hubVars, posted, of, from>>

\* The consumer asks for the next line, or drops the generator.
Resume(s) ==
    /\ at[s] = "yield"
    /\ at' = [at EXCEPT ![s] = "look"]
    /\ UNCHANGED <<hubVars, wakeVars, of, from, cursor, seen, ended>>

\* A generator is closed where it yields; a task is cancelled where it waits, too.
Disconnect(s) ==
    /\ at[s] = "yield" \/ (at[s] = "wait" /\ s \in Async)
    /\ Leaves(s, "left")
    /\ UNCHANGED <<hubVars, wakeVars, of, from, cursor, seen>>

Wake(s) ==
    /\ at[s] = "wait" /\ event[s]
    /\ at' = [at EXCEPT ![s] = "look"]
    /\ UNCHANGED <<hubVars, wakeVars, of, from, cursor, seen, ended>>

\* The wait times out: a ping is yielded.
Heartbeat(s) ==
    /\ at[s] = "wait" /\ ~event[s]
    /\ at' = [at EXCEPT ![s] = "yield"]
    /\ UNCHANGED <<hubVars, wakeVars, of, from, cursor, seen, ended>>

Unfollowed(r) == [r EXCEPT !.count = Minus(@, 1)]

\* Faulty variant: the last follower does not ask for the cleanup.
LeaveQuietly(s) ==
    LET g == of[s]
        mine == gens[g].present /\ (s \in Async => s \in listed[g])
    IN  /\ at[s] = "leave"
        /\ at' = [at EXCEPT ![s] = "over"]
        /\ listed' = [listed EXCEPT ![g] = @ \ {s}]
        /\ gens' = IF mine THEN [gens EXCEPT ![g] = Unfollowed(@)] ELSE gens
        /\ UNCHANGED <<heap, byChat, wakeVars, of, from, cursor, seen, ended>>

\* The finally clause.
Leave(s) ==
    LET g == of[s]
        mine == gens[g].present /\ (s \in Async => s \in listed[g])
        r == IF mine THEN Unfollowed(gens[g]) ELSE gens[g]
    IN  /\ at[s] = "leave"
        /\ at' = [at EXCEPT ![s] = "over"]
        /\ listed' = [listed EXCEPT ![g] = @ \ {s}]
        /\ IF r.present /\ Idle(r)
           THEN /\ ScheduleCleanup(r, g)
                /\ IF ReclaimsNow(r) THEN Forget(g) ELSE UNCHANGED byChat
           ELSE /\ gens' = [gens EXCEPT ![g] = r]
                /\ UNCHANGED <<heap, byChat>>
        /\ UNCHANGED <<wakeVars, of, from, cursor, seen, ended>>

\* The event loop of an async subscriber runs what was posted to it.
RunPosted(s) ==
    /\ posted[s] /\ at[s] # "gone"
    /\ posted' = [posted EXCEPT ![s] = FALSE]
    /\ event' = [event EXCEPT ![s] = TRUE]
    /\ UNCHANGED <<hubVars, subVars>>

\* The event loop is closed: its coroutines never run again.
LoopCloses(s) ==
    /\ s \in Closing /\ at[s] \in {"wait", "yield"}
    /\ at' = [at EXCEPT ![s] = "gone"]
    /\ UNCHANGED <<hubVars, wakeVars, of, from, cursor, seen, ended>>

-----------------------------------------------------------------------------
(* The reaper.                                                             *)

DeadlinePasses(g) ==
    /\ gens[g].deadline = "ahead"
    /\ gens' = [gens EXCEPT ![g].deadline = "passed"]
    /\ UNCHANGED <<byChat, heap, listed, wakeVars, subVars>>

\* One turn of _cleanup_completed_generations.  An entry whose stream is gone, or
\* was started again with no deadline or a later one, is dropped.
Reap(g, life) ==
    LET mine == gens[g].present /\ gens[g].life = life /\ gens[g].deadline # "none"
        r == [gens[g] EXCEPT !.scheduled = FALSE]
    IN  /\ <<g, life>> \in heap
        /\ mine => gens[g].deadline = "passed"
        /\ heap' = heap \ {<<g, life>>}
        /\ IF mine /\ Idle(r)
           THEN gens' = [gens EXCEPT ![g] = NoGen(r.life)] /\ Forget(g)
           ELSE /\ gens' = IF mine THEN [gens EXCEPT ![g] = r] ELSE gens
                /\ UNCHANGED byChat
        /\ UNCHANGED <<listed, wakeVars, subVars>>

-----------------------------------------------------------------------------
GenerationStep(g) ==
    \/ \E chat \in Chats \cup {NoChat} : Start(g, chat)
    \/ PublishLine(g) \/ MarkDone(g) \/ DeadlinePasses(g)
    \/ \E life \in 1 .. MaxLives : Reap(g, life)

SubscriberStep(s) ==
    \/ Subscribe(s) \/ Look(s) \/ Resume(s) \/ Disconnect(s) \/ Wake(s)
    \/ Heartbeat(s) \/ Leave(s) \/ RunPosted(s) \/ LoopCloses(s)

Next ==
    \/ \E g \in Generations : GenerationStep(g)
    \/ \E s \in Subscribers : SubscriberStep(s)

Spec == Init /\ [][Next]_vars

\* Threads, loops and the reaper keep running and time passes.  No heartbeat is
\* assumed, no producer has to finish, no consumer has to disconnect.
Fairness ==
    /\ \A g \in Generations :
         /\ WF_vars(DeadlinePasses(g))
         /\ \A life \in 1 .. MaxLives : WF_vars(Reap(g, life))
    /\ \A s \in Subscribers :
         /\ WF_vars(Look(s)) /\ WF_vars(Resume(s)) /\ WF_vars(Wake(s))
         /\ WF_vars(Leave(s)) /\ WF_vars(RunPosted(s))

FairSpec == Spec /\ Fairness

-----------------------------------------------------------------------------
(* Properties.                                                             *)

\* A subscriber is handed every line after the one it named, in order, without a
\* hole, whatever the buffer dropped in the meantime.
ContiguousLines == \A s \in Subscribers : seen[s] = (from[s] + 1) .. cursor[s]

\* A subscriber whose stream ends normally has been handed all of it.
EndsComplete ==
    [][\A s \in Subscribers :
         ended[s] # "end" /\ ended'[s] = "end"
             => (from[s] + 1) .. gens[of[s]].seq \subseteq seen[s]]_vars

\* A stream is not removed under a subscriber, however deadlines, late joins and
\* disconnects interleave.
FollowedStreamStays == \A s \in Subscribers : ended[s] # "lost"

\* A subscriber that waits although there are lines to read or the stream is over
\* has been, or is about to be, woken: no wakeup is lost.
WokenForNews ==
    \A s \in Subscribers :
        LET g == gens[of[s]]
        IN  at[s] = "wait" /\ (cursor[s] < g.seq \/ ~g.active) => event[s] \/ posted[s]

\* A finished stream nobody follows is on the reaper's list.
ReclaimScheduled ==
    \A g \in Generations :
        gens[g].present /\ ~gens[g].active /\ gens[g].count = 0
            => <<g, gens[g].life>> \in heap /\ gens[g].deadline # "none"

\* A chat never points at a stream that was removed or belongs to another chat.
ChatNamesItsStream ==
    \A c \in Chats : byChat[c] # NoGeneration
        => gens[byChat[c]].present /\ gens[byChat[c]].chat = c

\* Once the producer is done, whoever follows the stream gets to its end, without
\* any help from the heartbeat, and leaves.
FollowersFinish ==
    \A s \in Subscribers :
        at[s] \in {"look", "wait", "yield"} /\ ~gens[of[s]].active
            ~> at[s] \in {"over", "gone"}

\* The memory of a finished stream is given back, after the last subscriber left.
FinishedReclaimed ==
    \A g \in Generations :
        gens[g].present /\ ~gens[g].active ~> ~gens[g].present
=============================================================================
