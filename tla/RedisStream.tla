----------------------------- MODULE RedisStream ------------------------------
(***************************************************************************)
(* One generation's stream in Redis (StreamHub, chats/streaming.py): the   *)
(* scripts that append a line and mark the end, subscribers that read with *)
(* XREAD, and the hub of the own process each call falls back to when it   *)
(* fails.  The scripts are atomic; a reader's calls are one action each.   *)
(***************************************************************************)
EXTENDS Naturals, Sequences, FiniteSets

CONSTANTS
    Async, Threads,     \* calls of subscribe_async and of subscribe
    Webs,               \* the processes that may serve the subscribers
    MaxLines,           \* the limit on retained lines
    MaxPublished,       \* bound: lines of the generation
    MaxFails            \* bound: calls to Redis that fail

Followers == Async \cup Threads
Processes   == {"worker", "web"}     \* the generation runs in the first

StreamAssumption ==
    /\ Async \cap Threads = {} /\ Webs \subseteq Processes
    /\ MaxLines \in Nat \ {0} /\ MaxPublished \in Nat /\ MaxFails \in Nat

VARIABLES
    web,        \* the process that serves the subscribers
    status,     \* the status field of the stream's meta key
    seq,        \* its seq field
    events,     \* the events retained: the sequence number of each and its line
    signal,     \* the signal stream has its terminal entry
    local,      \* the stream in each process's own hub
    published,  \* lines the generation has published so far
    sub,        \* each subscriber: where it is, and what it has read
    handed,     \* history: the sequence numbers and lines it was handed, in order
    fails

hubVars == <<status, seq, events, signal, local, published>>
vars    == <<web, hubVars, sub, handed, fails>>

Event == [seq : Nat \ {0}, line : 1 .. MaxPublished]

Sub == [at     : {"new", "status", "read", "recheck", "local", "over"},
        from   : 0 .. MaxPublished,     \* from_seq
        cursor : Nat,
        last   : Nat,                   \* last_id: the number of the last event read
        woken  : BOOLEAN,               \* last_signal_id is the terminal entry
        done   : BOOLEAN,               \* terminal_seen, or the thread's status is final
        ended  : {"no", "drained", "polled", "gap", "local", "missing"}]

Fresh == [at |-> "new", from |-> 0, cursor |-> 0, last |-> 0,
          woken |-> FALSE, done |-> FALSE, ended |-> "no"]

Hub == [status : {"none", "active", "done"}, lines : Seq(1 .. MaxPublished)]

TypeOK ==
    /\ web \in Webs /\ status \in {"none", "active", "done"} /\ signal \in BOOLEAN
    /\ seq \in 0 .. MaxPublished /\ events \in Seq(Event) /\ Len(events) <= MaxLines
    /\ local \in [Processes -> Hub]
    /\ published \in 0 .. MaxPublished
    /\ sub \in [Followers -> Sub] /\ handed \in [Followers -> Seq(Event)]
    /\ fails \in 0 .. MaxFails

Init ==
    /\ web \in Webs
    /\ status = "none" /\ seq = 0 /\ events = <<>> /\ signal = FALSE
    /\ local = [p \in Processes |-> [status |-> "none", lines |-> <<>>]]
    /\ published = 0 /\ fails = 0
    /\ sub = [s \in Followers |-> Fresh] /\ handed = [s \in Followers |-> <<>>]

Works == UNCHANGED fails
Fails == fails < MaxFails /\ fails' = fails + 1

-----------------------------------------------------------------------------
(* The producer                                                            *)

LocalStart(p) == local' = IF local[p].status # "none" THEN local
                          ELSE [local EXCEPT ![p].status = "active"]

\* A stream that is there is left alone.  A later call of the same start may
\* fail when the stream is already there.
Start(p) ==
    /\ status = "none" \/ local[p].status = "none"
    /\ published = 0
    /\ \/ Works /\ status' = (IF status = "none" THEN "active" ELSE status) /\ UNCHANGED local
       \/ Fails /\ LocalStart(p) /\ UNCHANGED status
       \/ Fails /\ LocalStart(p) /\ status = "none" /\ status' = "active"
    /\ UNCHANGED <<web, seq, events, signal, published, sub, handed>>

\* Faulty variant: the limit is not passed on.
TrimmedNever(all, kept) == all

Trimmed(all, kept) == SubSeq(all, Len(all) - kept + 1, Len(all))

\* Faulty variant: the number is reserved by a call of its own, before the append.
AppendReserved(line) ==
    /\ seq' = seq + 1
    /\ \/ UNCHANGED events
       \/ Len(events) < MaxLines /\ events' = Append(events, [seq |-> seq + 1, line |-> line])

\* _REDIS_APPEND_AND_TRIM_SCRIPT: the newest lines stay, by number and by bytes.
AppendLine(line) ==
    /\ seq' = seq + 1
    /\ \E kept \in 1 .. MaxLines :
         /\ kept <= Len(events) + 1
         /\ events' = Trimmed(Append(events, [seq |-> seq + 1, line |-> line]), kept)

\* The own hub drops a line of a stream that it does not know or that is over.
LocalPublish(line) ==
    local' = IF local["worker"].status # "active" THEN local
             ELSE [local EXCEPT !["worker"].lines = Append(@, line)]

\* publish_line: a call that fails before or after the script was run is made
\* again in the own hub.
Publish ==
    LET line == published + 1 IN
    /\ published < MaxPublished
    /\ status # "none" \/ local["worker"].status # "none"
    /\ published' = line
    /\ \/ /\ Works /\ status = "active" /\ AppendLine(line) /\ UNCHANGED local
       \/ Works /\ status # "active" /\ UNCHANGED <<seq, events, local>>
       \/ Fails /\ LocalPublish(line) /\ UNCHANGED <<seq, events>>
       \/ Fails /\ status = "active" /\ AppendLine(line) /\ LocalPublish(line)
    /\ UNCHANGED <<web, status, signal, sub, handed>>

LocalDone(p) == local' = IF local[p].status # "active" THEN local
                         ELSE [local EXCEPT ![p].status = "done"]

\* Faulty variant: only the status is written, nobody is woken.
TerminalQuiet == status' = "done" /\ UNCHANGED signal

\* _REDIS_MARK_DONE_SCRIPT
Terminal == status' = "done" /\ signal' = TRUE

\* mark_done of the producer or of a cancellation.
MarkDone(p) ==
    /\ status # "none" \/ local[p].status # "none"
    /\ \/ Works /\ Terminal /\ UNCHANGED local
       \/ Fails /\ LocalDone(p) /\ UNCHANGED <<status, signal>>
       \/ Fails /\ LocalDone(p) /\ Terminal
    /\ UNCHANGED <<web, seq, events, published, sub, handed>>

-----------------------------------------------------------------------------
(* A subscriber                                                            *)

Ends(s, why) == sub' = [sub EXCEPT ![s].at = "over", ![s].ended = why]

Opens(s, at) == \E n \in 0 .. published :
    sub' = [sub EXCEPT ![s] = [Fresh EXCEPT !.at = at, !.from = n, !.cursor = n]]

\* A thread whose stream is not in Redis ends; a task tries the own hub.
Subscribe(s) ==
    /\ sub[s].at = "new"
    /\ \/ Works /\ status # "none" /\ Opens(s, "status")
       \/ Works /\ status = "none" /\ Opens(s, IF s \in Async THEN "local" ELSE "over")
       \/ Fails /\ Opens(s, "local")
    /\ UNCHANGED <<web, hubVars, handed>>

\* A task looks once before its loop: a status it could not read is none.  A
\* thread looks in every turn: a status it could not read is final.
ReadStatus(s) ==
    /\ sub[s].at = "status"
    /\ \E d \in {<<status # "active", 0>>, <<s \in Threads, 1>>} :
         /\ IF d[2] = 0 THEN Works ELSE Fails
         /\ sub' = [sub EXCEPT ![s].at = "read", ![s].done = d[1]]
    /\ UNCHANGED <<web, hubVars, handed>>

\* The events after a number: entries come in the order of their numbers.
Later(es, n) ==
    LET first == CHOOSE i \in 1 .. Len(es) + 1 :
                     /\ \A j \in 1 .. i - 1 : es[j].seq <= n
                     /\ i <= Len(es) => es[i].seq > n
    IN  SubSeq(es, first, Len(es))

Unread(s) == Later(events, sub[s].last)
News(s)   == s \in Async /\ signal /\ ~sub[s].woken

Turn(s) == IF s \in Async THEN "read" ELSE "status"

\* Faulty variant: events that were dropped are skipped.
GapIgnored(c, batch) == FALSE

\* The batch jumps over events that were dropped.
Gap(c, batch) == \E i \in 1 .. Len(batch) :
    /\ batch[i].seq > c + 1
    /\ \A j \in 1 .. i - 1 : batch[j].seq <= c

\* The events a client is handed are those after its cursor.
Handover(c, batch) == Later(batch, c)

\* An XREAD that brings events, the terminal entry or both.
ReadBatch(s) ==
    /\ sub[s].at = "read" /\ Works
    /\ \E k \in 0 .. Len(Unread(s)) :
         LET batch == SubSeq(Unread(s), 1, k)
             c     == sub[s].cursor
             new   == Handover(c, batch)
         IN  /\ k > 0 \/ News(s)
             /\ k = 0 => Unread(s) = <<>>
             /\ IF Gap(c, batch)
                THEN Ends(s, "gap") /\ UNCHANGED handed
                ELSE /\ handed' = [handed EXCEPT ![s] = @ \o new]
                     /\ sub' = [sub EXCEPT
                          ![s].last   = IF k > 0 THEN batch[k].seq ELSE @,
                          ![s].cursor = IF new = <<>> THEN @ ELSE new[Len(new)].seq,
                          ![s].woken  = @ \/ News(s),
                          ![s].done   = @ \/ News(s),
                          ![s].at     = Turn(s)]
    /\ UNCHANGED <<web, hubVars>>

\* Faulty variant: the status is looked up after the read that found nothing.
ReadNothingFirst(s) ==
    /\ sub[s].at = "read" /\ Works /\ Unread(s) = <<>> /\ ~News(s)
    /\ sub' = [sub EXCEPT ![s].at = "recheck"]
    /\ UNCHANGED <<web, hubVars, handed>>

\* An XREAD that brings nothing: it was not to wait, its wait was over, or it
\* failed.
ReadNothing(s) ==
    /\ sub[s].at = "read"
    /\ \/ Works /\ Unread(s) = <<>> /\ ~News(s)
       \/ Fails
    /\ IF sub[s].done THEN Ends(s, "drained")
       ELSE sub' = [sub EXCEPT ![s].at = IF s \in Async THEN "recheck" ELSE "status"]
    /\ UNCHANGED <<web, hubVars, handed>>

\* A task that heard nothing asks for the status.
Recheck(s) ==
    /\ sub[s].at = "recheck"
    /\ \/ Works /\ status # "active" /\ Ends(s, "polled")
       \/ /\ \/ Works /\ status = "active"
             \/ Fails
          /\ sub' = [sub EXCEPT ![s].at = "read"]
    /\ UNCHANGED <<web, hubVars, handed>>

\* The own hub hands over its lines after the cursor, numbered by itself.
FollowLocal(s) ==
    LET h == local[web]
        n == sub[s].cursor + 1
    IN  /\ sub[s].at = "local" /\ Works
        /\ IF n <= Len(h.lines)
           THEN /\ handed' = [handed EXCEPT ![s] = Append(@, [seq |-> n, line |-> h.lines[n]])]
                /\ sub' = [sub EXCEPT ![s].cursor = n]
           ELSE /\ h.status # "active" /\ UNCHANGED handed
                /\ Ends(s, IF h.status = "none" THEN "missing" ELSE "local")
        /\ UNCHANGED <<web, hubVars>>

-----------------------------------------------------------------------------
SubscriberStep(s) == \/ Subscribe(s) \/ ReadStatus(s) \/ ReadBatch(s) \/ ReadNothing(s)
                     \/ Recheck(s) \/ FollowLocal(s)

Next == \/ \E p \in {"worker", web} : Start(p) \/ MarkDone(p)
        \/ Publish
        \/ \E s \in Followers : SubscriberStep(s)

Spec == Init /\ [][Next]_vars

\* Calls of a subscriber return.  No heartbeat of a task is assumed: an XREAD
\* that finds nothing need not time out until the end is known.
Fairness == \A s \in Followers :
    /\ WF_vars(ReadStatus(s) \/ ReadBatch(s) \/ Recheck(s))
    /\ WF_vars(ReadNothing(s) /\ (s \in Threads \/ sub[s].done))

FairSpec == Spec /\ Fairness

-----------------------------------------------------------------------------
(* Properties                                                              *)

\* Whatever fails, trims or joins late, a client is handed the lines after the
\* number it asked for, each once, without a hole and in the order in which
\* they were published.
HandedInOrder == \A s \in Followers : \A i \in 1 .. Len(handed[s]) :
    /\ handed[s][i].seq = sub[s].from + i
    /\ i > 1 => handed[s][i - 1].line < handed[s][i].line

\* A client is told of a gap only when a line after its cursor was dropped by
\* the retention: numbering and append are one step ("Readers therefore never
\* observe a false gap").
NoFalseGap == \A s \in Followers : sub[s].ended = "gap" =>
    events # <<>> /\ events[1].seq > sub[s].cursor + 1

Complete(s) == seq <= sub[s].cursor

Drained(s) == sub[s].ended \in {"drained", "polled"}

\* While Redis answers, a thread that ends, and a task that ends because it saw
\* the end and then drained the stream, has been handed every line of it.
EndsComplete == \A s \in Followers :
    Drained(s) /\ (s \in Async => sub[s].done) /\ fails = 0 => Complete(s)

\* The same of every task whose stream ended, however it learnt of the end.
FollowersDrain == \A s \in Async : Drained(s) /\ fails = 0 => Complete(s)

Reading(s) == sub[s].at \in {"status", "read", "recheck"}

\* Once the end is recorded, every follower of Redis ends: the signal stream
\* wakes a task that waits, with no heartbeat to rely on.
FollowersFinish == \A s \in Followers :
    (status = "done" /\ Reading(s)) ~> ~Reading(s)
=============================================================================
