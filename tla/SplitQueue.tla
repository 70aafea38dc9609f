----------------------------- MODULE SplitQueue -----------------------------
(***************************************************************************)
(* The queue of messages on a split screen (messageQueue.js and            *)
(* splitScreen/): one turn goes to one panel or to both, each panel has a  *)
(* request and a stream of its own, and a queued message stays until every *)
(* panel it was meant for has taken it.                                    *)
(*                                                                         *)
(* A turn is a call of split.send; its generation in panel s is <<t, s>>.  *)
(* An action is what the page runs between two awaits.                     *)
(***************************************************************************)
EXTENDS Naturals, Sequences, SequencesExt, FiniteSets

CONSTANTS MaxMessages,  \* messages the user types
          MaxTurns,     \* calls of split.send
          Plans,        \* what a run may be: [targets, mishaps]
          Budget        \* how many mishaps and commands of the user

Sides == {"left", "right"}

SplitAssumption ==
    /\ MaxMessages \in Nat \ {0} /\ MaxTurns \in Nat \ {0} /\ Budget \in Nat
    /\ \A p \in Plans : p.targets \subseteq ((SUBSET Sides) \ {{}})

Turns == 1..MaxTurns
Messages == 1..MaxMessages
None == 0

VARIABLES
    plan,       \* the send targets the user picks from, and what may happen besides
                \* sending: some of command, stop, replace, fail, refuse, lost and drop
    typed,      \* how many messages were typed
    wanted,     \* wanted[m]: the panels m was typed for, and the chats in them
    items,      \* the queue: [msg, target, chats]
    paused,     \* messageQueue.isPaused
    dispatch,   \* activeQueueDispatch: [turn, gens, accepted]
    handoff,    \* queueHandoffScheduled
    target,     \* splitScreenInternalState.sendTarget
    panel,      \* panel[s]: [turn, stop, chat, loading, replacing]
    composing,  \* SplitComposerDispatchInProgress
    turn,       \* the turns begun: [msg, by, chats, at, failed]
    server,     \* server[t][s]: the generation <<t, s>>
    thrown,     \* messages the user removed from the queue
    broken,     \* a turn was stopped or failed before queued messages
    spent       \* mishaps and commands so far

queue == <<items, paused, dispatch, handoff>>
view == <<target, panel, composing, turn>>
history == <<thrown, broken>>
vars == <<typed, wanted, queue, view, server, history, spent>>

NoDispatch == [turn |-> None, gens |-> {}, accepted |-> {}]
Stages == {"none", "asked", "reading", "ended", "settled"}
Chats == [Sides -> {0, 1}]

TypeOK ==
    /\ plan \in Plans
    /\ typed \in 0..MaxMessages
    /\ wanted \in [Messages -> [to : SUBSET Sides, chats : Chats]]
    /\ items \in Seq([msg : Messages, target : (SUBSET Sides) \ {{}}, chats : Chats])
    /\ paused \in BOOLEAN /\ handoff \in BOOLEAN /\ composing \in BOOLEAN
    /\ dispatch \in [turn : Turns \cup {None}, gens : SUBSET Sides, accepted : SUBSET Sides]
    /\ target \in (SUBSET Sides) \ {{}}
    /\ panel \in [Sides -> [turn : Turns \cup {None}, stop : BOOLEAN, chat : {0, 1},
                            loading : BOOLEAN, replacing : Turns \cup {None}]]
    /\ Len(turn) \in 0..MaxTurns
    /\ \A t \in DOMAIN turn :
         turn[t] \in [msg : Messages, by : {"user", "queue"}, chats : Chats,
                      at : [Sides -> Stages], failed : SUBSET Sides, open : BOOLEAN]
    /\ server \in [Turns -> [Sides -> {"absent", "running", "ok", "failed"}]]
    /\ thrown \in SUBSET Messages /\ broken \in BOOLEAN
    /\ spent \in 0..Budget
    /\ dispatch.gens \subseteq dispatch.accepted
    /\ paused => items # <<>>

Targets == plan.targets
Mishaps == plan.mishaps

Init ==
    /\ plan \in Plans
    /\ typed = 0 /\ wanted = [m \in Messages |-> [to |-> {}, chats |-> [s \in Sides |-> 0]]]
    /\ items = <<>> /\ paused = FALSE /\ dispatch = NoDispatch /\ handoff = FALSE
    /\ target \in Targets
    /\ panel = [s \in Sides |-> [turn |-> None, stop |-> FALSE, chat |-> 0,
                                 loading |-> FALSE, replacing |-> None]]
    /\ composing = FALSE /\ turn = <<>>
    /\ server = [t \in Turns |-> [s \in Sides |-> "absent"]]
    /\ thrown = {} /\ broken = FALSE /\ spent = 0

May(k) == k \in Mishaps /\ spent < Budget /\ spent' = spent + 1

Owns(t, s) == panel[s].turn = t

\* Microtasks run before any other event: split.send returns after its last
\* panel, and a panel that was stopped ends its request or stream.
Settled(t) == turn[t].open /\ \A s \in Sides : turn[t].at[s] \in {"none", "settled"}
Cut(t, s) == turn[t].at[s] \in {"asked", "reading"} /\ Owns(t, s) /\ panel[s].stop
Quiet == /\ ~handoff
         /\ \A t \in DOMAIN turn : ~Settled(t) /\ \A s \in Sides : ~Cut(t, s)

(***************************************************************************)
(* The queue as a value                                                    *)
(***************************************************************************)
Q == [items |-> items, paused |-> paused, dispatch |-> dispatch, handoff |-> handoff]

\* Faulty: an emptied queue stays paused.
SetQueueAsIs(q) ==
    /\ items' = q.items /\ paused' = q.paused
    /\ dispatch' = q.dispatch /\ handoff' = q.handoff

SetQueue(q) ==
    /\ items' = q.items /\ paused' = (q.paused /\ q.items # <<>>)
    /\ dispatch' = q.dispatch /\ handoff' = q.handoff

Halt(q) == [q EXCEPT !.paused = q.items # <<>>]
Released(q) == [q EXCEPT !.dispatch = NoDispatch]
Without(q, m) == [q EXCEPT !.items = RemoveFirstMatch(@, LAMBDA i : i.msg = m)]
Scheduled(q) == [q EXCEPT !.handoff = @ \/ q.items # <<>>]

\* The panels a dispatched turn is for.
Meant(t) == {s \in Sides : turn[t].at[s] # "none"}
Complete(q) == q.dispatch.accepted = Meant(q.dispatch.turn)

\* After a turn that one of two panels took, only the other gets it again.
Narrowed(q) ==
    LET d == q.dispatch
        lacking == Meant(d.turn) \ d.accepted
    IN  IF d.accepted = {} \/ lacking = {} THEN q
        ELSE [q EXCEPT !.items = [k \in DOMAIN @ |->
                 IF @[k].msg = turn[d.turn].msg THEN [@[k] EXCEPT !.target = lacking] ELSE @[k]]]

\* A panel's generation has ended.
Terminal(q, t, s, status) ==
    LET d == q.dispatch
        rest == [q EXCEPT !.dispatch.gens = @ \ {s}]
        goes == IF status = "finished" THEN Scheduled(Released(q)) ELSE Halt(Released(q))
    IN  IF d = NoDispatch THEN goes
        ELSE IF d.turn # t \/ s \notin d.gens THEN q
        ELSE IF rest.dispatch.gens # {} \/ (~Complete(q) /\ turn[d.turn].open) THEN rest
        ELSE IF Complete(q) THEN goes ELSE Halt(Released(Narrowed(q)))

\* Turns that fail or are stopped break the chain of the queued messages, unless
\* the queue waits for another turn.
Breaks(failing) ==
    /\ broken' = (broken \/ (items # <<>> /\ dispatch.turn \in failing \cup {None}))
    /\ UNCHANGED thrown
Holds == broken' = (broken /\ items' # <<>>) /\ UNCHANGED thrown

(***************************************************************************)
(* A turn                                                                  *)
(***************************************************************************)
\* Faulty: a panel is marked busy when its request is answered.
BusyLate(s) == panel[s].turn # None /\ turn[panel[s].turn].at[s] = "reading"

Busy(s) == panel[s].turn # None
Now == [s \in Sides |-> panel[s].chat]

\* split.send: refused while a target loads or another turn asks, and begun
\* in all of its panels at once otherwise.
Refuses(sides) == composing \/ \E s \in sides : Busy(s) \/ panel[s].loading
Begin(sides, by, m) ==
    /\ Len(turn) < MaxTurns
    /\ turn' = Append(turn, [msg |-> m, by |-> by, chats |-> Now, failed |-> {}, open |-> TRUE,
                             at |-> [s \in Sides |-> IF s \in sides THEN "asked" ELSE "none"]])
    /\ panel' = [s \in Sides |-> IF s \in sides
                     THEN [panel[s] EXCEPT !.turn = Len(turn) + 1, !.stop = FALSE] ELSE panel[s]]
    /\ composing' = TRUE

\* The next message goes out, unless something holds it back.
ProcessNext(q, force) ==
    LET idle == UNCHANGED <<panel, composing, turn>>
        held == \/ q.dispatch # NoDispatch \/ (q.paused /\ ~force)
                \/ \E s \in Sides : Busy(s)
                \/ q.items = <<>>
        next == q.items[1]
    IN  \/ held /\ SetQueue(q) /\ idle
        \/ ~held /\ (next.chats # Now \/ Refuses(next.target)) /\ SetQueue(Halt(q)) /\ idle
        \/ /\ ~held /\ next.chats = Now /\ ~Refuses(next.target)
           /\ Begin(next.target, "queue", next.msg)
           /\ SetQueue([q EXCEPT !.dispatch =
                           [turn |-> Len(turn) + 1, gens |-> {}, accepted |-> {}]])

(***************************************************************************)
(* The user                                                                *)
(***************************************************************************)
Item == [msg |-> typed + 1, target |-> target, chats |-> Now]
Generating == composing \/ \E s \in target : Busy(s)

Submit ==
    /\ Quiet /\ typed < MaxMessages
    /\ typed' = typed + 1 /\ wanted' = [wanted EXCEPT ![typed + 1] = [to |-> target, chats |-> Now]]
    /\ \/ /\ Generating
          /\ SetQueue([Q EXCEPT !.items = Append(@, Item)])
          /\ UNCHANGED <<panel, composing, turn>>
       \/ ~Generating /\ items # <<>> /\ ProcessNext([Q EXCEPT !.items = Append(@, Item)], FALSE)
       \/ /\ ~Generating /\ items = <<>> /\ ~Refuses(target)
          /\ Begin(target, "user", typed + 1)
          /\ UNCHANGED queue
    /\ Holds /\ UNCHANGED <<target, server, spent>>

SetTarget(sides) ==
    /\ Quiet /\ sides # target /\ typed < MaxMessages
    /\ target' = sides
    /\ UNCHANGED <<typed, wanted, queue, panel, composing, turn, server, history, spent>>

Resume ==
    /\ Quiet /\ May("command") /\ paused
    /\ broken' = FALSE /\ UNCHANGED thrown
    /\ ProcessNext([Q EXCEPT !.paused = FALSE], FALSE)
    /\ UNCHANGED <<typed, wanted, target, server>>

SendNext ==
    /\ Quiet /\ May("command") /\ items # <<>>
    /\ broken' = FALSE /\ UNCHANGED thrown
    /\ ProcessNext(Q, TRUE)
    /\ UNCHANGED <<typed, wanted, target, server>>

\* Pausing, and removing an item, the one being sent included.
Arrange ==
    /\ Quiet /\ May("command") /\ items # <<>>
    /\ \/ ~paused /\ SetQueue(Halt(Q)) /\ Holds
       \/ \E k \in DOMAIN items : /\ SetQueue(Without(Q, items[k].msg))
                                 /\ thrown' = thrown \cup {items[k].msg}
                                 /\ broken' = (broken /\ items' # <<>>)
    /\ UNCHANGED <<typed, wanted, view, server>>

\* Stop cancels the responses of the panels that are targeted.
Stop ==
    /\ Quiet /\ May("stop") /\ \E s \in target : Busy(s)
    /\ panel' = [s \in Sides |-> IF s \in target /\ Busy(s)
                                 THEN [panel[s] EXCEPT !.stop = TRUE] ELSE panel[s]]
    /\ Breaks({panel[s].turn : s \in target})
    /\ UNCHANGED <<typed, wanted, queue, target, composing, turn, server>>

\* Whoever occupies the panel has ended.
Vacated(s) == [panel EXCEPT ![s].turn = None, ![s].stop = FALSE]

\* Another chat is put into a panel: its response is stopped first, and the
\* panel is cleared when the server has confirmed that.
Replace(s) ==
    /\ Quiet /\ May("replace") /\ ~panel[s].loading /\ panel[s].replacing = None
    /\ \/ /\ Busy(s) /\ Breaks({panel[s].turn})
          /\ panel' = [panel EXCEPT ![s].stop = TRUE, ![s].replacing = panel[s].turn]
       \/ /\ ~Busy(s) /\ UNCHANGED history
          /\ panel' = [panel EXCEPT ![s].chat = 1 - @, ![s].loading = TRUE]
    /\ UNCHANGED <<typed, wanted, queue, target, composing, turn, server>>

\* By then the panel may have another turn: it goes as well.
Replaced(s) ==
    /\ Quiet /\ panel[s].replacing # None /\ server[panel[s].replacing][s] # "absent"
    /\ SetQueue(IF Busy(s) THEN Terminal(Q, panel[s].turn, s, "interrupted") ELSE Q)
    /\ panel' = [Vacated(s) EXCEPT ![s].replacing = None, ![s].chat = 1 - @, ![s].loading = TRUE]
    /\ Holds /\ UNCHANGED <<typed, wanted, target, composing, turn, server, spent>>

\* The server never heard of the generation: the panel keeps its chat.
NotReplaced(s) ==
    /\ Quiet /\ panel[s].replacing # None /\ server[panel[s].replacing][s] = "absent"
    /\ panel' = [panel EXCEPT ![s].replacing = None]
    /\ UNCHANGED <<typed, wanted, queue, target, composing, turn, server, history, spent>>

\* A panel that loads a chat in which a generation runs also follows that
\* generation; it belongs to no turn here and is left out.
Loaded(s) ==
    /\ Quiet /\ panel[s].loading
    /\ panel' = [panel EXCEPT ![s].loading = FALSE]
    /\ UNCHANGED <<typed, wanted, queue, target, composing, turn, server, history, spent>>

(***************************************************************************)
(* The server                                                              *)
(***************************************************************************)
Accept(t, s) ==
    /\ turn[t].at[s] = "asked" /\ server[t][s] = "absent"
    /\ server' = [server EXCEPT ![t][s] = "running"]
    /\ UNCHANGED <<typed, wanted, queue, view, history, spent>>

Finish(t, s) ==
    /\ server[t][s] = "running"
    /\ \/ server' = [server EXCEPT ![t][s] = "ok"] /\ UNCHANGED spent
       \/ May("fail") /\ server' = [server EXCEPT ![t][s] = "failed"]
    /\ UNCHANGED <<typed, wanted, queue, view, history>>

(***************************************************************************)
(* A panel's request and stream                                            *)
(***************************************************************************)
Asked(t) == {s \in Sides : turn[t].at[s] = "asked"}

\* The composer is free once every panel has answered.
Freed(t, s) == composing /\ Asked(t) # {s}

\* A panel has taken the message; when all have, the item leaves the queue.
Answered(t, s) ==
    /\ Quiet /\ turn[t].at[s] = "asked" /\ server[t][s] # "absent"
    /\ turn' = [turn EXCEPT ![t].at[s] = "reading"]
    /\ composing' = Freed(t, s)
    /\ LET taken == [Q EXCEPT !.dispatch.gens = @ \cup {s}, !.dispatch.accepted = @ \cup {s}]
       IN  SetQueue(IF dispatch.turn # t THEN Q
                    ELSE IF Complete(taken) THEN Without(taken, turn[t].msg) ELSE taken)
    /\ Holds /\ UNCHANGED <<typed, wanted, target, panel, server, spent>>

\* The panel's part of the turn is over: the panel is free and the queue
\* hears of it, unless a newer turn has the panel.
Over(t, s, stage, status) ==
    /\ turn' = [turn EXCEPT ![t].at[s] = stage,
                            ![t].failed = IF status = "failed" THEN @ \cup {s} ELSE @]
    /\ panel' = IF Owns(t, s) THEN Vacated(s) ELSE panel
    /\ SetQueue(IF Owns(t, s) THEN Terminal(Q, t, s, status) ELSE Q)
    /\ composing' = IF turn[t].at[s] = "asked" THEN Freed(t, s) ELSE composing
    /\ target' = IF status # "failed" THEN target
                 ELSE IF turn[t].failed \ {s} = {} THEN {s} ELSE Sides

\* The request is refused, gets no answer whether or not the server took it, or
\* was stopped before its answer.
Refused(t, s) ==
    /\ turn[t].at[s] = "asked"
    /\ \/ /\ Quiet
          /\ (server[t][s] = "absent" /\ May("refuse")) \/ May("lost")
          /\ Over(t, s, "settled", "failed") /\ Breaks({t})
       \/ /\ ~handoff /\ Cut(t, s) /\ UNCHANGED spent
          /\ Over(t, s, "settled", "interrupted") /\ Holds
    /\ UNCHANGED <<typed, wanted, server>>

\* The done event, and later the end of the stream.
Done(t, s) ==
    /\ Quiet /\ turn[t].at[s] = "reading" /\ Owns(t, s)
    /\ server[t][s] = "ok"
    /\ Over(t, s, "ended", "finished")
    /\ Holds /\ UNCHANGED <<typed, wanted, server, spent>>

\* The stream ends: after its done event, with an error or before its end,
\* because it was stopped, or because a newer turn has the panel.
Ended(t, s) ==
    /\ \/ /\ Quiet /\ turn[t].at[s] = "ended" /\ UNCHANGED spent
          /\ Over(t, s, "settled", "finished") /\ Holds
       \/ /\ Quiet /\ turn[t].at[s] = "reading" /\ Owns(t, s)
          /\ (server[t][s] = "failed" /\ UNCHANGED spent) \/ May("drop")
          /\ Over(t, s, "settled", "failed") /\ Breaks({t})
       \/ /\ turn[t].at[s] = "reading" /\ ((~handoff /\ Cut(t, s)) \/ (Quiet /\ ~Owns(t, s)))
          /\ UNCHANGED spent /\ Over(t, s, "settled", "interrupted") /\ Holds
    /\ UNCHANGED <<typed, wanted, server>>

(***************************************************************************)
(* The microtasks                                                          *)
(***************************************************************************)
Handoff ==
    /\ handoff
    /\ ProcessNext([Q EXCEPT !.handoff = FALSE], FALSE)
    /\ Holds /\ UNCHANGED <<typed, wanted, target, server, spent>>

\* split.send returns: a queued turn that not every panel took keeps its item.
Settle(t) ==
    /\ ~handoff /\ Settled(t)
    /\ turn' = [turn EXCEPT ![t].open = FALSE] /\ composing' = FALSE
    /\ \/ dispatch.turn # t /\ SetQueue(Q)
       \/ /\ dispatch.turn = t /\ dispatch.accepted = {}
          /\ SetQueue(Halt(Released(Q)))
       \/ /\ dispatch.turn = t /\ dispatch.accepted # {}
          /\ SetQueue(IF dispatch.gens # {} THEN Q
                      ELSE IF Complete(Q) THEN Scheduled(Released(Q))
                      ELSE Halt(Released(Narrowed(Q))))
    /\ Holds /\ UNCHANGED <<typed, wanted, target, panel, server, spent>>

Request(t, s) == Answered(t, s) \/ Refused(t, s) \/ Done(t, s) \/ Ended(t, s)

Next ==
    \/ Submit \/ Resume \/ SendNext \/ Arrange \/ Stop \/ Handoff
    \/ \E sides \in Targets : SetTarget(sides)
    \/ \E s \in Sides : Replace(s) \/ Replaced(s) \/ NotReplaced(s) \/ Loaded(s)
    \/ \E t \in DOMAIN turn :
         Settle(t) \/ \E s \in Sides : Accept(t, s) \/ Finish(t, s) \/ Request(t, s)

Spec == Init /\ [][Next /\ UNCHANGED plan]_<<vars, plan>>

(***************************************************************************)
(* The network answers and the event loop runs what is ready.              *)
(***************************************************************************)
RequestOf(t, s) == t <= Len(turn) /\ Request(t, s)
AcceptOf(t, s) == t <= Len(turn) /\ Accept(t, s)
SettleOf(t) == t <= Len(turn) /\ Settle(t)
Fairness ==
    /\ WF_vars(Handoff)
    /\ \A t \in Turns : WF_vars(SettleOf(t))
    /\ \A s \in Sides : /\ WF_vars(Replaced(s)) /\ WF_vars(NotReplaced(s))
                        /\ WF_vars(Loaded(s))
                        /\ \A t \in Turns : /\ WF_vars(RequestOf(t, s))
                                            /\ WF_vars(AcceptOf(t, s))
                                            /\ WF_vars(Finish(t, s))

FairSpec == Spec /\ Fairness

(***************************************************************************)
(* Properties                                                              *)
(***************************************************************************)
Waiting(m) == \E k \in DOMAIN items : items[k].msg = m
TakenBy(m) == {x \in (DOMAIN turn) \X Sides :
                  turn[x[1]].msg = m /\ turn[x[1]].at[x[2]] # "none" /\ server[x[1]][x[2]] # "absent"}

\* No panel gets a message twice, however often the rest of it is retried; not so
\* where answers are lost, turns stopped or chats replaced.
OncePerPanel == \A m \in Messages, s \in Sides :
    Cardinality({x \in TakenBy(m) : x[2] = s}) <= 1

\* A message that waits and is not under way waits for exactly the panels
\* that have not taken it, under the same conditions.
RetryIsExact == \A k \in DOMAIN items :
    LET i == items[k]
    IN  (dispatch.turn = None \/ turn[dispatch.turn].msg # i.msg)
            => i.target = wanted[i.msg].to \ {x[2] : x \in TakenBy(i.msg)}

\* A queued message leaves the queue only when every panel it was typed for
\* has taken it, or when the user removes it.
NothingDropped == \A m \in 1..typed :
    \/ Waiting(m) \/ m \in thrown
    \/ \E t \in DOMAIN turn : turn[t].msg = m /\ turn[t].by = "user"
    \/ wanted[m].to = {x[2] : x \in TakenBy(m)}

\* A queued message reaches the chats that were in the panels when it was
\* typed.
StaysInItsChats == \A t \in DOMAIN turn : turn[t].by = "queue" =>
    \A s \in Sides : turn[t].chats[s] = wanted[turn[t].msg].chats[s]

\* The queue asks no panel anything before that panel's older turns are over.
TurnsDoNotMix == \A t, u \in DOMAIN turn, s \in Sides :
    t < u /\ turn[u].by = "queue" /\ turn[u].at[s] = "asked"
        => turn[t].at[s] \notin {"asked", "reading"}

\* After a panel's failure or a stop nothing leaves the queue before the user
\* resumes it.
LeavesUnbroken == dispatch'.turn # dispatch.turn /\ dispatch'.turn # None => ~broken'
BreakHolds == [][LeavesUnbroken]_vars

\* Every dispatch ends, whichever panel fails.
DispatchEnds == (dispatch # NoDispatch) ~> (dispatch = NoDispatch)
=============================================================================
