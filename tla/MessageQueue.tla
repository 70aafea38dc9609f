---------------------------- MODULE MessageQueue ----------------------------
(***************************************************************************)
(* The chat page's queue of messages (messageQueue.js) and the senders     *)
(* that drain it (sending/send.js): one page, its queue, the readers of    *)
(* the responses, and the generations they belong to on the server.  An    *)
(* action is what the page runs between two awaits; a microtask runs       *)
(* before any other event (Quiet).                                         *)
(*                                                                         *)
(* Messages are numbered as they are typed.  Reader r of a new request     *)
(* names its generation r; a reader that attaches to a running generation  *)
(* takes that generation's name.  A chat is a number: Blank for a page     *)
(* without one, g for the chat generation g created, the rest existed.     *)
(***************************************************************************)
EXTENDS Naturals, Sequences, SequencesExt, FiniteSets

CONSTANTS MaxMessages,  \* messages the user types
          MaxReaders,   \* requests the page makes
          Existing,     \* chats there already are
          Plans,        \* what a run may be: [start, mishaps]
          Budget        \* how many mishaps and commands of the user

QueueAssumption ==
    /\ MaxMessages \in Nat \ {0} /\ MaxReaders \in Nat \ {0} /\ Budget \in Nat
    /\ Existing \subseteq Nat /\ \A c \in Existing : c > MaxReaders
    /\ \A p \in Plans : p.start \in {0} \cup Existing

Blank == 0
None == 0
Gens == 1..MaxReaders
Messages == 1..MaxMessages
Chats == {Blank} \cup Gens \cup Existing

VARIABLES
    plan,       \* what the page shows first, and what may happen besides sending:
                \* some of command, stop, open, new, fail, refuse, lost and drop
    typed,      \* how many messages were typed
    home,       \* home[m]: the chat m was typed in, Blank if it starts one
    items,      \* the queue: [msg, chat, origin]
    paused,     \* messageQueue.isPaused
    dispatch,   \* activeQueueDispatch: [by, accepted], or NoDispatch
    handoff,    \* queueHandoffScheduled: a microtask is waiting
    page,       \* [chat, own, busy, loading, probing]
    transport,  \* the reader of activeChatGenerationTransport
    drafting,   \* interruptedDraftDispatchInFlight
    reader,     \* the requests made, in order
    server,     \* server[g]: what the server knows of generation g
    asking,     \* generations with a request to cancel under way
    thrown,     \* messages the user removed from the queue
    broken,     \* a turn was stopped or failed before queued messages
    spent       \* mishaps and commands so far

queue == <<items, paused, dispatch, handoff>>
world == <<server, asking>>
history == <<thrown, broken>>
vars == <<typed, home, queue, page, transport, drafting, reader, world, history, spent>>

NoDispatch == [by |-> None, accepted |-> FALSE]
Queue == [items : Seq([msg : Messages, chat : Chats, origin : Gens \cup {None}]),
          paused : BOOLEAN,
          dispatch : [by : Gens \cup {None}, accepted : BOOLEAN],
          handoff : BOOLEAN]

TypeOK ==
    /\ plan \in Plans
    /\ typed \in 0..MaxMessages
    /\ home \in [Messages -> Chats]
    /\ [items |-> items, paused |-> paused, dispatch |-> dispatch, handoff |-> handoff] \in Queue
    /\ page \in [chat : Chats, own : Gens \cup {None}, busy : BOOLEAN,
                 loading : BOOLEAN, probing : BOOLEAN]
    /\ transport \in Gens \cup {None}
    /\ drafting \in BOOLEAN
    /\ Len(reader) \in 0..MaxReaders
    /\ \A r \in 1..Len(reader) : reader[r] \in
         [gen : 1..r, msg : Messages \cup {None}, by : {"queue", "user", "attach"}, chat : Chats,
          at : {"asked", "reading", "ended", "settling", "settled"},
          accepted : BOOLEAN, notified : BOOLEAN, cancelled : BOOLEAN,
          status : {"interrupted", "error", "finished"}]
    /\ server \in [Gens -> [state : {"absent", "running", "stopping", "ok", "failed", "stopped"},
                            chat : Chats]]
    /\ asking \in SUBSET Gens
    /\ thrown \in SUBSET Messages /\ broken \in BOOLEAN
    /\ spent \in 0..Budget
    /\ paused => items # <<>>

Init ==
    /\ plan \in Plans
    /\ typed = 0 /\ home = [m \in Messages |-> Blank]
    /\ items = <<>> /\ paused = FALSE /\ dispatch = NoDispatch /\ handoff = FALSE
    /\ page = [chat |-> plan.start, own |-> None, busy |-> FALSE, loading |-> FALSE, probing |-> FALSE]
    /\ transport = None /\ drafting = FALSE /\ reader = <<>>
    /\ server = [g \in Gens |-> [state |-> "absent", chat |-> Blank]]
    /\ asking = {} /\ thrown = {} /\ broken = FALSE /\ spent = 0

Mishaps == plan.mishaps
May(k) == k \in Mishaps /\ spent < Budget /\ spent' = spent + 1

\* No microtask is waiting: any other event may run.  A reader that was cut
\* off while it read ends in one.
Urgent(r) == \/ reader[r].at = "settling"
             \/ reader[r].cancelled /\ reader[r].at \in {"reading", "ended"}
Quiet == ~handoff /\ \A r \in 1..Len(reader) : ~Urgent(r)

(***************************************************************************)
(* The queue as a value, so that one handler may change it twice.          *)
(***************************************************************************)
Q == [items |-> items, paused |-> paused, dispatch |-> dispatch, handoff |-> handoff]

\* Every change redraws the queue, and an empty one is not paused.
Redrawn(q) == [q EXCEPT !.paused = @ /\ q.items # <<>>]
Halt(q) == Redrawn([q EXCEPT !.paused = TRUE])
Released(q) == Redrawn([q EXCEPT !.dispatch = NoDispatch])

\* Faulty: the accepted item stays in the queue.
WithoutNothing(q, m) == q

Without(q, m) == Redrawn([q EXCEPT !.items = RemoveFirstMatch(@, LAMBDA i : i.msg = m)])
Scheduled(q) == [q EXCEPT !.handoff = @ \/ q.items # <<>>]

\* Items queued in a chat's first turn learn its name when that turn ends.
Promoted(q, g) ==
    IF page.chat = Blank THEN q
    ELSE [q EXCEPT !.items = [k \in DOMAIN @ |->
             IF @[k].chat = Blank /\ @[k].origin = g THEN [@[k] EXCEPT !.chat = page.chat]
             ELSE @[k]]]

Waits(q, g) == q.dispatch.accepted /\ reader[q.dispatch.by].gen = g

\* Faulty: a queue behind a failed turn goes on.
TerminalGoesOn(q, g, status) ==
    IF q.dispatch # NoDispatch /\ ~Waits(q, g) THEN q
    ELSE Scheduled(IF q.dispatch = NoDispatch THEN Promoted(q, g) ELSE Released(q))

\* A generation has ended: the queue moves on, or stops.
Terminal(q, g, status) ==
    LET free == IF q.dispatch = NoDispatch THEN Promoted(q, g) ELSE Released(q)
    IN  IF q.dispatch # NoDispatch /\ ~Waits(q, g) THEN q
        ELSE IF status = "finished" THEN Scheduled(free)
        ELSE IF free.items # <<>> THEN Halt(free) ELSE free

SetQueue(q) ==
    /\ items' = q.items /\ paused' = q.paused
    /\ dispatch' = q.dispatch /\ handoff' = q.handoff

\* What the user is owed: once a turn was stopped or failed before messages
\* that wait, nothing leaves the queue until the user says so.
Breaks == broken' = (broken \/ items # <<>>) /\ UNCHANGED thrown
Holds == broken' = (broken /\ items' # <<>>) /\ UNCHANGED thrown

\* A request begins: its reader owns the page and the transport.
Begin(rd, by, msg, g) ==
    /\ Len(rd) < MaxReaders
    /\ reader' = Append(rd, [gen |-> g, msg |-> msg, by |-> by, chat |-> page.chat,
                                 at |-> "asked", accepted |-> FALSE, notified |-> FALSE,
                                 cancelled |-> FALSE, status |-> "interrupted"])
    /\ page' = [page EXCEPT !.own = g, !.busy = TRUE, !.probing = @ /\ by # "attach"]
    /\ transport' = Len(rd) + 1

\* Faulty: the item leaves the queue when it is sent, before it is accepted.
ProcessNextShift(rd, q, force, draft) ==
    LET idle == reader' = rd /\ UNCHANGED <<page, transport>>
        blocked == \/ q.dispatch # NoDispatch \/ (q.paused /\ ~force)
                   \/ page.busy \/ draft \/ q.items = <<>>
    IN  \/ blocked /\ SetQueue(q) /\ idle
        \/ /\ ~blocked
           /\ Begin(rd, "queue", q.items[1].msg, Len(rd) + 1)
           /\ SetQueue([Without(q, q.items[1].msg) EXCEPT
                            !.dispatch = [by |-> Len(rd) + 1, accepted |-> FALSE]])

\* The next message of queue q goes out, unless something holds it back.
ProcessNext(rd, q, force, draft) ==
    LET idle == reader' = rd /\ UNCHANGED <<page, transport>>
        blocked == \/ q.dispatch # NoDispatch \/ (q.paused /\ ~force)
                   \/ page.busy \/ draft \/ q.items = <<>>
    IN  \/ blocked /\ SetQueue(q) /\ idle
        \/ ~blocked /\ q.items[1].chat # page.chat /\ SetQueue(Halt(q)) /\ idle
        \/ /\ ~blocked /\ q.items[1].chat = page.chat
           /\ Begin(rd, "queue", q.items[1].msg, Len(rd) + 1)
           /\ SetQueue([q EXCEPT !.dispatch = [by |-> Len(rd) + 1, accepted |-> FALSE]])

(***************************************************************************)
(* The user                                                                *)
(***************************************************************************)
Item == [msg |-> typed + 1, chat |-> page.chat, origin |-> page.own]

\* The chat a message belongs to when it is typed now.
Here == IF page.chat # Blank THEN page.chat
        ELSE IF page.busy /\ page.own # None THEN page.own ELSE Blank

\* The user sends what the composer holds: it is queued behind a response
\* that is being written or a message that waits, and sent otherwise.
Submit ==
    /\ Quiet /\ typed < MaxMessages
    /\ ~(page.loading /\ page.own = None)
    /\ typed' = typed + 1
    /\ home' = [home EXCEPT ![typed + 1] = Here]
    /\ \/ /\ page.busy
          /\ SetQueue([Q EXCEPT !.items = Append(@, Item)])
          /\ UNCHANGED <<page, transport, reader, drafting>>
       \/ /\ ~page.busy /\ items # <<>>
          /\ ProcessNext(reader, [Q EXCEPT !.items = Append(@, Item)], FALSE, drafting)
          /\ UNCHANGED drafting
       \/ /\ ~page.busy /\ items = <<>>
          /\ Begin(reader, "user", typed + 1, Len(reader) + 1)
          /\ drafting' = TRUE
          /\ UNCHANGED queue
    /\ Holds /\ UNCHANGED <<world, spent>>

Resume ==
    /\ Quiet /\ May("command") /\ paused
    /\ broken' = FALSE /\ UNCHANGED thrown
    /\ ProcessNext(reader, [Q EXCEPT !.paused = FALSE], FALSE, drafting)
    /\ UNCHANGED <<typed, home, drafting, world>>

SendNext ==
    /\ Quiet /\ May("command") /\ items # <<>>
    /\ broken' = FALSE /\ UNCHANGED thrown
    /\ ProcessNext(reader, Q, TRUE, drafting)
    /\ UNCHANGED <<typed, home, drafting, world>>

\* Pausing, removing an item, and dragging the first item to the end.
Arrange ==
    /\ Quiet /\ May("command") /\ items # <<>>
    /\ \/ ~paused /\ SetQueue(Halt(Q)) /\ Holds
       \/ \E k \in DOMAIN items : /\ SetQueue(Without(Q, items[k].msg))
                                 /\ thrown' = thrown \cup {items[k].msg}
                                 /\ broken' = (broken /\ items' # <<>>)
       \/ Len(items) > 1 /\ SetQueue([Q EXCEPT !.items = Append(Tail(@), Head(@))]) /\ Holds
    /\ UNCHANGED <<typed, home, page, transport, drafting, reader, world>>

\* Stop: the request to cancel goes out and the page's reader is cut off.
Stop ==
    /\ Quiet /\ May("stop") /\ page.busy /\ transport # None
    /\ reader' = [reader EXCEPT ![transport].cancelled = TRUE]
    /\ asking' = asking \cup {reader[transport].gen}
    /\ page' = [page EXCEPT !.busy = FALSE]
    /\ Breaks /\ UNCHANGED <<typed, home, queue, transport, drafting, server>>

\* The user opens a chat.  A page without a chat does not let go of the
\* generation it owns.
Open(c) ==
    /\ Quiet /\ May("open") /\ c # page.chat
    /\ page' = IF page.chat = Blank
               THEN [page EXCEPT !.chat = c, !.loading = TRUE, !.probing = FALSE]
               ELSE [chat |-> c, own |-> None, busy |-> FALSE, loading |-> TRUE, probing |-> FALSE]
    /\ UNCHANGED <<typed, home, queue, transport, drafting, reader, world, history>>

NewChat ==
    /\ Quiet /\ May("new")
    /\ page' = [chat |-> Blank, own |-> None, busy |-> FALSE, loading |-> FALSE, probing |-> FALSE]
    /\ UNCHANGED <<typed, home, queue, transport, drafting, reader, world, history>>

(***************************************************************************)
(* Loading a chat and taking up its generation                             *)
(***************************************************************************)
Loaded ==
    /\ Quiet /\ page.loading
    /\ page' = [page EXCEPT !.loading = FALSE, !.probing = TRUE]
    /\ UNCHANGED <<typed, home, queue, transport, drafting, reader, world, history, spent>>

RunningIn(c) == {g \in Gens : server[g].state \in {"running", "stopping"} /\ server[g].chat = c}

Probe ==
    /\ Quiet /\ page.probing
    /\ \/ \E g \in RunningIn(page.chat) : Begin(reader, "attach", None, g)
       \/ /\ RunningIn(page.chat) = {} 
          /\ page' = [page EXCEPT !.probing = FALSE]
          /\ UNCHANGED <<reader, transport>>
    /\ UNCHANGED <<typed, home, queue, drafting, world, history, spent>>

(***************************************************************************)
(* The server                                                              *)
(***************************************************************************)
Accept(r) ==
    /\ reader[r].at = "asked" /\ reader[r].by # "attach"
    /\ server[r].state = "absent"
    /\ server' = [server EXCEPT ![r] = [state |-> "running",
           chat |-> IF reader[r].chat = Blank THEN r ELSE reader[r].chat]]
    /\ UNCHANGED <<typed, home, queue, page, transport, drafting, reader, asking, history, spent>>

Finish(g) ==
    /\ \/ /\ server[g].state = "running"
          /\ server' = [server EXCEPT ![g].state = "ok"] /\ UNCHANGED spent
       \/ /\ server[g].state = "running" /\ May("fail")
          /\ server' = [server EXCEPT ![g].state = "failed"]
       \/ /\ server[g].state = "stopping"
          /\ server' = [server EXCEPT ![g].state = "stopped"] /\ UNCHANGED spent
    /\ UNCHANGED <<typed, home, queue, page, transport, drafting, reader, asking, history>>

\* The request to cancel is answered: the page tells the queue.
Acknowledged(g) ==
    /\ Quiet /\ g \in asking /\ server[g].state # "absent"
    /\ asking' = asking \ {g}
    /\ server' = [server EXCEPT ![g].state = IF @ = "running" THEN "stopping" ELSE @]
    /\ SetQueue(Terminal(Q, g, "cancelled"))
    /\ Holds /\ UNCHANGED <<typed, home, page, transport, drafting, reader, spent>>

\* The server never heard of the generation: the retries give up.
Unheard(g) ==
    /\ Quiet /\ g \in asking /\ server[g].state = "absent"
    /\ asking' = asking \ {g}
    /\ UNCHANGED <<typed, home, queue, page, transport, drafting, reader, server, history, spent>>

(***************************************************************************)
(* A reader                                                                *)
(***************************************************************************)
Let_go(p) == [p EXCEPT !.own = None, !.busy = FALSE]
Owns(r) == page.own = reader[r].gen
Free(r) == IF transport # None /\ reader[transport].gen = reader[r].gen THEN None ELSE transport
Settling(r) == [reader EXCEPT ![r].at = "settling", ![r].notified = TRUE]

\* The request is answered: the queue drops the item it was waiting for.
Answered(r) ==
    /\ Quiet /\ reader[r].at = "asked" /\ ~reader[r].cancelled
    /\ server[reader[r].gen].state # "absent"
    /\ reader' = [reader EXCEPT ![r].at = "reading", ![r].accepted = TRUE]
    /\ SetQueue(IF dispatch.by = r
                THEN Without([Q EXCEPT !.dispatch.accepted = TRUE], reader[r].msg) ELSE Q)
    /\ Holds /\ UNCHANGED <<typed, home, page, transport, drafting, world, spent>>

\* The request is refused: the page lets go of whatever generation it owns.
Refused(r) ==
    /\ Quiet /\ reader[r].at = "asked" /\ ~reader[r].cancelled /\ May("refuse")
    /\ reader[r].by = "attach" \/ server[r].state = "absent"
    /\ page' = Let_go(page) /\ transport' = Free(r) /\ reader' = Settling(r)
    /\ SetQueue(IF reader[r].by = "queue" THEN Q ELSE Terminal(Q, reader[r].gen, "error"))
    /\ Breaks /\ UNCHANGED <<typed, home, drafting, world>>

\* No answer comes: it was lost, or the request was stopped.  Only a reader
\* that attaches looks whether the page is still its own.
Cut(r) ==
    /\ Quiet /\ reader[r].at = "asked"
    /\ IF reader[r].cancelled THEN UNCHANGED spent ELSE May("lost")
    /\ reader' = Settling(r)
    /\ IF reader[r].by = "attach" /\ ~Owns(r) THEN UNCHANGED <<queue, page, transport>>
       ELSE /\ page' = Let_go(page) /\ transport' = Free(r)
            /\ SetQueue(IF reader[r].cancelled \/ reader[r].by = "queue" THEN Q
                        ELSE Terminal(Q, reader[r].gen, "error"))
    /\ IF reader[r].cancelled THEN Holds ELSE Breaks
    /\ UNCHANGED <<typed, home, drafting, world>>

Reads(r) == Quiet /\ reader[r].at = "reading" /\ ~reader[r].cancelled

\* The first turn of a new chat learns the chat's name; the page follows.
Named(r) ==
    /\ Reads(r) /\ Owns(r) /\ reader[r].chat = Blank
    /\ reader' = [reader EXCEPT ![r].chat = server[reader[r].gen].chat]
    /\ page' = [page EXCEPT !.chat = server[reader[r].gen].chat]
    /\ UNCHANGED <<typed, home, queue, transport, drafting, world, history, spent>>

\* The event that ends the response; a new chat's name is the first event.
Done(r) ==
    /\ Reads(r) /\ Owns(r) /\ reader[r].chat # Blank
    /\ server[reader[r].gen].state = "ok"
    /\ reader' = [reader EXCEPT ![r].at = "ended", ![r].status = "finished", ![r].notified = TRUE]
    /\ page' = [page EXCEPT !.busy = FALSE]
    /\ SetQueue(Terminal(Q, reader[r].gen, "finished"))
    /\ Holds /\ UNCHANGED <<typed, home, transport, drafting, world, spent>>

Errored(r) ==
    /\ Reads(r) /\ Owns(r) /\ reader[r].chat # Blank
    /\ server[reader[r].gen].state = "failed"
    /\ reader' = [reader EXCEPT ![r].at = "ended", ![r].status = "error"]
    /\ Breaks /\ UNCHANGED <<typed, home, queue, page, transport, drafting, world, spent>>

\* The stream closes while its reader owns the page.
Closed(r) ==
    /\ ~handoff /\ reader[r].at \in {"reading", "ended"} /\ Owns(r)
    /\ \/ /\ \/ reader[r].cancelled
             \/ Quiet /\ reader[r].at = "ended"
             \/ Quiet /\ server[reader[r].gen].state = "stopped"
          /\ UNCHANGED spent
       \/ Reads(r) /\ May("drop")
    /\ page' = Let_go(page) /\ transport' = Free(r) /\ reader' = Settling(r)
    /\ SetQueue(IF reader[r].notified THEN Q ELSE Terminal(Q, reader[r].gen, reader[r].status))
    /\ IF spent' = spent THEN Holds ELSE Breaks
    /\ UNCHANGED <<typed, home, drafting, world>>

\* A reader that no longer owns the page stops at its next event.
Stale(r) ==
    /\ ~handoff /\ reader[r].at \in {"reading", "ended"} /\ ~Owns(r)
    /\ Quiet \/ reader[r].cancelled
    /\ transport' = Free(r) /\ reader' = Settling(r)
    /\ UNCHANGED <<typed, home, queue, page, drafting, world, history, spent>>

(***************************************************************************)
(* The microtasks                                                          *)
(***************************************************************************)
Handoff ==
    /\ handoff
    /\ ProcessNext(reader, [Q EXCEPT !.handoff = FALSE], FALSE, drafting)
    /\ Holds /\ UNCHANGED <<typed, home, drafting, world, spent>>

\* Faulty: an item that was not accepted keeps the queue waiting for it.
SettleKeeps(r) ==
    /\ ~handoff /\ reader[r].at = "settling"
    /\ reader' = [reader EXCEPT ![r].at = "settled"]
    /\ drafting' = (drafting /\ reader[r].by # "user")
    /\ UNCHANGED <<typed, home, queue, page, transport, world, spent>> /\ Holds

\* The sender's promise settles and whoever awaited it goes on: the queue
\* keeps an item that was not accepted, the composer hands on to the queue.
Settle(r) ==
    /\ ~handoff /\ reader[r].at = "settling"
    /\ LET settled == [reader EXCEPT ![r].at = "settled"]
       IN  \/ /\ reader[r].by = "queue"
              /\ SetQueue(IF dispatch = [by |-> r, accepted |-> FALSE] THEN Halt(Released(Q)) ELSE Q)
              /\ reader' = settled /\ UNCHANGED <<page, transport, drafting>>
           \/ /\ reader[r].by = "user"
              /\ drafting' = FALSE /\ ProcessNext(settled, Q, FALSE, FALSE)
           \/ /\ reader[r].by = "attach"
              /\ reader' = settled /\ UNCHANGED <<queue, page, transport, drafting>>
    /\ Holds /\ UNCHANGED <<typed, home, world, spent>>

Reader(r) == \/ Answered(r) \/ Refused(r) \/ Cut(r) \/ Named(r) \/ Done(r)
             \/ Errored(r) \/ Closed(r) \/ Stale(r) \/ Settle(r)

Next ==
    \/ Submit \/ Resume \/ SendNext \/ Arrange \/ Stop \/ NewChat
    \/ (\E c \in Existing \cup Gens :
           (c \in Existing \/ \E g \in Gens : server[g].chat = c) /\ Open(c))
    \/ Loaded \/ Probe \/ Handoff
    \/ \E g \in Gens : Finish(g) \/ Acknowledged(g) \/ Unheard(g)
    \/ \E r \in 1..Len(reader) : Accept(r) \/ Reader(r)

Spec == Init /\ [][Next /\ UNCHANGED plan]_<<vars, plan>>

(***************************************************************************)
(* The event loop runs what is ready, the network answers, a generation    *)
(* ends.  Nothing obliges the user.                                        *)
(***************************************************************************)
ReaderOf(r) == r <= Len(reader) /\ Reader(r)
AcceptOf(r) == r <= Len(reader) /\ Accept(r)
Fairness ==
    /\ WF_vars(Handoff) /\ WF_vars(Loaded) /\ WF_vars(Probe)
    /\ \A r \in Gens : /\ WF_vars(ReaderOf(r)) /\ WF_vars(AcceptOf(r)) /\ WF_vars(Finish(r))
                       /\ WF_vars(Acknowledged(r)) /\ WF_vars(Unheard(r))

FairSpec == Spec /\ Fairness

(***************************************************************************)
(* Properties                                                              *)
(***************************************************************************)
Sent(r) == server[r].state # "absent"
RequestsOf(m) == {r \in 1..Len(reader) : reader[r].msg = m}
Waiting(m) == \E k \in DOMAIN items : items[k].msg = m

\* A message reaches the server at most once: an item that failed is sent
\* again only if the server never took it.
NeverTwice == \A m \in Messages : Cardinality({r \in RequestsOf(m) : Sent(r)}) <= 1

\* An item reaches the chat it was typed in, whatever the user opened since.
StaysInItsChat == \A r \in 1..Len(reader) :
    LET h == home[reader[r].msg]
    IN  reader[r].by = "queue" /\ Sent(r) /\ (h \in Existing \/ (h # Blank /\ Sent(h)))
            => server[r].chat = h

\* The queue starts no turn in a chat where another is still running.
NoOverlap == \A r \in 1..Len(reader) :
    reader[r].by = "queue" /\ Sent(r) => Cardinality(RunningIn(server[r].chat)) <= 1

\* Of the queue's accepted turns only one runs that was not yet stopped.
OneQueuedTurn ==
    Cardinality({r \in 1..Len(reader) : /\ reader[r].by = "queue" /\ reader[r].accepted
                                        /\ server[r].state = "running"}) <= 1

\* A typed message is in the queue, on its way, sent, removed by the user, or
\* was refused to the user who sent it.
NothingDropped == \A m \in 1..typed :
    \/ Waiting(m) \/ m \in thrown
    \/ \E r \in RequestsOf(m) : reader[r].by = "user" \/ Sent(r)

\* After a stop, an error or an interruption nothing leaves the queue before
\* the user resumes it.
LeavesUnbroken == dispatch'.by # dispatch.by /\ dispatch'.by # None => ~broken'
BreakHolds == [][LeavesUnbroken]_vars

\* Every dispatch ends, so that the queue can go on.
DispatchEnds == (dispatch # NoDispatch) ~> (dispatch = NoDispatch)

\* A message does not wait for ever in a queue that is not paused.
QueueMoves == \A m \in Messages : Waiting(m) ~> (~Waiting(m) \/ paused)
=============================================================================
