---------------------------- MODULE ProviderStream ----------------------------
(***************************************************************************)
(* How a generation is cancelled while it waits for its provider            *)
(* (chats/streaming.py): the flags and the process-local handles of         *)
(* CancelRegistry, the monitor that carries a flag of Redis to them, and    *)
(* interruptible_provider_stream, whose producer thread owns the blocking   *)
(* read while the generation takes items from a bounded queue.  One         *)
(* generation reads several provider streams, one after the other.          *)
(*                                                                         *)
(* The request to cancel arrives in the generation's process ("inline"), in *)
(* another one ("remote"), or in another one while a durable worker runs    *)
(* the generation ("external"), whose handler acts on the request as well.  *)
(***************************************************************************)
EXTENDS Naturals, Sequences, FiniteSets

CONSTANTS
    Modes,          \* the deployments checked
    MaxStreams,     \* bound: provider streams of the generation
    MaxItems,       \* bound: items of one stream
    QueueMax        \* the size of the queue

CancelAssumption ==
    /\ Modes \subseteq {"inline", "remote", "external"}
    /\ MaxStreams \in Nat /\ MaxItems \in Nat /\ QueueMax \in Nat \ {0}

Streams == 1 .. MaxStreams
Callers == {"user", "monitor", "handler", "generator"}

VARIABLES
    mode,
    flag,           \* the flag of the process that runs the generation
    redis,          \* the flag in Redis
    event,          \* the event of the local handles is set
    hook,           \* the stream whose close callback is registered, 0 for none
    wanted,         \* cancel_requested of the worker job's row
    caller,         \* who is in which step of cancel, of the monitor or of clear
    snap,           \* the callback it took from the handles
    consumer,       \* where the generation is, in which stream, with what item
    producer,       \* where each stream's producer thread is
    queue,          \* its queue
    sent,           \* items it has read
    stopped,        \* streams whose producer was told to stop
    closed,         \* streams whose provider resource was closed
    outcome,        \* how the generation ended
    interpreted,    \* history: items interpreted
    misled          \* history: a cancellation was taken for something else

flagVars   == <<flag, redis, event, hook, wanted>>
callVars   == <<caller, snap>>
streamVars == <<producer, queue, sent>>
endVars    == <<outcome, interpreted, misled>>
vars == <<mode, flagVars, callVars, consumer, streamVars, stopped, closed, endVars>>

\* "cut": the read ended because the resource was closed under it.
Kind == {"item", "error", "done", "cut"}

TypeOK ==
    /\ mode \in Modes
    /\ flag \in BOOLEAN /\ redis \in BOOLEAN /\ event \in BOOLEAN /\ wanted \in BOOLEAN
    /\ hook \in 0 .. MaxStreams
    /\ caller \in [Callers -> {"idle", "read", "flag", "event", "close", "redis", "durable",
                               "clear flag", "clear handles", "clear redis", "done"}]
    /\ snap \in [Callers -> 0 .. MaxStreams]
    /\ consumer \in [at : {"between", "check", "start", "peek", "take", "after",
                           "given", "leave", "over"},
                     stream : 0 .. MaxStreams, held : Kind \cup {"nothing", "wakeup"}]
    /\ producer \in [Streams -> Kind \cup {"none", "next", "gone"}]
    /\ queue \in [Streams -> Seq(Kind)] /\ \A n \in Streams : Len(queue[n]) <= QueueMax
    /\ sent \in [Streams -> 0 .. MaxItems]
    /\ stopped \subseteq Streams /\ closed \subseteq Streams
    /\ outcome \in {"none", "partial", "complete", "failed", "dropped"}
    /\ interpreted \in 0 .. MaxStreams * MaxItems /\ misled \in BOOLEAN

Init ==
    /\ mode \in Modes
    /\ flag = FALSE /\ redis = FALSE /\ event = FALSE /\ hook = 0 /\ wanted = FALSE
    /\ caller = [c \in Callers |-> "idle"] /\ snap = [c \in Callers |-> 0]
    /\ consumer = [at |-> "between", stream |-> 0, held |-> "nothing"]
    /\ producer = [n \in Streams |-> "none"] /\ queue = [n \in Streams |-> <<>>]
    /\ sent = [n \in Streams |-> 0] /\ stopped = {} /\ closed = {}
    /\ outcome = "none" /\ interpreted = 0 /\ misled = FALSE

\* Faulty variants: only the shared flag is looked at, or only the local one.
CancelledShared == redis
CancelledLocal  == flag

\* is_cancelled
Cancelled == flag \/ redis

-----------------------------------------------------------------------------
(* cancel, the monitor and clear                                           *)

To(c, at) == caller' = [caller EXCEPT ![c] = at]

rest == <<mode, consumer, streamVars, stopped, endVars>>

\* cancel in another process reaches this one by Redis only.
UserCancels ==
    /\ caller["user"] = "idle"
    /\ To("user", IF mode = "inline" THEN "flag" ELSE "redis")
    /\ UNCHANGED <<flagVars, snap, closed, rest>>

\* The handler asks for its row's cancellation at every line it is given.
HandlerCancels ==
    /\ mode = "external" /\ caller["handler"] = "idle" /\ wanted
    /\ To("handler", "flag")
    /\ UNCHANGED <<flagVars, snap, closed, rest>>

\* A turn of the monitor: the generations with handles, then their flags.
MonitorLooks ==
    /\ caller["monitor"] = "idle" /\ hook # 0
    /\ To("monitor", "read")
    /\ UNCHANGED <<flagVars, snap, closed, rest>>

\* Faulty variant: the monitor sets the flag and leaves the handles alone.
MonitorFlags ==
    /\ caller["monitor"] = "read" /\ To("monitor", "idle") /\ flag' = (flag \/ redis)
    /\ UNCHANGED <<redis, event, hook, wanted, snap, closed, rest>>

MonitorReads ==
    /\ caller["monitor"] = "read"
    /\ To("monitor", IF redis THEN "flag" ELSE "idle")
    /\ UNCHANGED <<flagVars, snap, closed, rest>>

SetFlag(c) ==
    /\ caller[c] = "flag" /\ flag' = TRUE /\ To(c, "event")
    /\ UNCHANGED <<redis, event, hook, wanted, snap, closed, rest>>

SetEvent(c) ==
    /\ caller[c] = "event" /\ event' = TRUE /\ snap' = [snap EXCEPT ![c] = hook]
    /\ To(c, "close")
    /\ UNCHANGED <<flag, redis, hook, wanted, closed, rest>>

Close(c) ==
    /\ caller[c] = "close" /\ closed' = closed \cup ({snap[c]} \ {0})
    /\ snap' = [snap EXCEPT ![c] = 0]
    /\ To(c, IF c = "monitor" THEN "idle" ELSE "redis")
    /\ UNCHANGED <<flagVars, rest>>

SetRedis(c) ==
    /\ caller[c] = "redis" /\ redis' = TRUE
    /\ To(c, CASE c = "handler" -> "clear flag"
               [] c = "user" /\ mode = "external" -> "durable"
               [] OTHER -> "done")
    /\ UNCHANGED <<flag, event, hook, wanted, snap, closed, rest>>

\* cancel_queued_generation of a job that is processed
SetDurable ==
    /\ caller["user"] = "durable" /\ wanted' = TRUE /\ To("user", "done")
    /\ UNCHANGED <<flag, redis, event, hook, snap, closed, rest>>

\* clear, of the handler and of the generation when it ends
Clear(c) ==
    /\ \/ /\ caller[c] = "clear flag" /\ flag' = FALSE /\ To(c, "clear handles")
          /\ UNCHANGED <<redis, event, hook>>
       \/ /\ caller[c] = "clear handles" /\ event' = FALSE /\ hook' = 0 /\ To(c, "clear redis")
          /\ UNCHANGED <<flag, redis>>
       \/ /\ caller[c] = "clear redis" /\ redis' = FALSE /\ To(c, "done")
          /\ UNCHANGED <<flag, event, hook>>
    /\ UNCHANGED <<wanted, snap, closed, rest>>

CallerStep(c) == SetFlag(c) \/ SetEvent(c) \/ Close(c) \/ SetRedis(c) \/ Clear(c)

-----------------------------------------------------------------------------
(* A stream's producer thread                                              *)

ProducerTo(n, at) == producer' = [producer EXCEPT ![n] = at]

others == <<mode, flagVars, callVars, consumer, stopped, closed, endVars>>

\* The provider sends an item, fails or ends; it may as well never do so.
ProviderSends(n) ==
    /\ producer[n] = "next" /\ n \notin closed
    /\ \/ sent[n] < MaxItems /\ sent' = [sent EXCEPT ![n] = @ + 1] /\ ProducerTo(n, "item")
       \/ ProducerTo(n, "error") /\ UNCHANGED sent
       \/ ProducerTo(n, "done") /\ UNCHANGED sent
    /\ UNCHANGED <<queue, others>>

\* Closing the resource ends the read, with an exception or as if exhausted.
ReadIsCut(n) ==
    /\ producer[n] = "next" /\ n \in closed /\ ProducerTo(n, "cut")
    /\ UNCHANGED <<queue, sent, others>>

\* Faulty variants: a queue without a limit; one who waits for room for ever.
OfferUnbounded(n) ==
    /\ producer[n] \in Kind
    /\ queue' = [queue EXCEPT ![n] = Append(@, producer[n])]
    /\ ProducerTo(n, IF producer[n] = "item" THEN "next" ELSE "gone")
    /\ UNCHANGED <<sent, others>>

OfferForever(n) ==
    /\ producer[n] \in Kind /\ Len(queue[n]) < QueueMax
    /\ queue' = [queue EXCEPT ![n] = Append(@, producer[n])]
    /\ ProducerTo(n, IF producer[n] = "item" THEN "next" ELSE "gone")
    /\ UNCHANGED <<sent, others>>

\* _offer: it waits while the queue is full, until it is told to stop.
Offer(n) ==
    /\ producer[n] \in Kind
    /\ \/ n \in stopped /\ UNCHANGED queue /\ ProducerTo(n, "gone")
       \/ /\ n \notin stopped /\ Len(queue[n]) < QueueMax
          /\ queue' = [queue EXCEPT ![n] = Append(@, producer[n])]
          /\ ProducerTo(n, IF producer[n] = "item" THEN "next" ELSE "gone")
    /\ UNCHANGED <<sent, others>>

-----------------------------------------------------------------------------
(* The generation                                                          *)

n0 == consumer.stream

At(at)      == consumer' = [consumer EXCEPT !.at = at, !.held = "nothing"]
Hands(item) == consumer' = [consumer EXCEPT !.at = "given", !.held = item]

calm == <<mode, caller, snap, flag, redis, wanted>>

\* The next stream: its handle is registered.
Begin ==
    /\ consumer.at = "between" /\ n0 < MaxStreams
    /\ hook' = n0 + 1
    /\ consumer' = [consumer EXCEPT !.at = "check", !.stream = n0 + 1]
    /\ UNCHANGED <<calm, event, streamVars, stopped, closed, endVars>>

\* register_handle of a generation that is cancelled already closes it.
Check ==
    /\ consumer.at = "check" /\ At("start")
    /\ IF Cancelled THEN event' = TRUE /\ closed' = closed \cup {n0}
       ELSE UNCHANGED <<event, closed>>
    /\ UNCHANGED <<calm, hook, streamVars, stopped, endVars>>

StartProducer ==
    /\ consumer.at = "start"
    /\ IF Cancelled THEN Hands("wakeup") /\ UNCHANGED producer
       ELSE At("peek") /\ ProducerTo(n0, "next")
    /\ UNCHANGED <<calm, event, hook, queue, sent, stopped, closed, endVars>>

Peek ==
    /\ consumer.at = "peek"
    /\ IF event THEN Hands("wakeup") ELSE At("take")
    /\ UNCHANGED <<calm, event, hook, streamVars, stopped, closed, endVars>>

Take ==
    /\ consumer.at = "take"
    /\ IF queue[n0] = <<>> THEN At("peek") /\ UNCHANGED queue
       ELSE /\ consumer' = [consumer EXCEPT !.at = "after", !.held = Head(queue[n0])]
            /\ queue' = [queue EXCEPT ![n0] = Tail(@)]
    /\ UNCHANGED <<calm, event, hook, producer, sent, stopped, closed, endVars>>

Ends(how) == outcome' = how /\ At("leave") /\ UNCHANGED interpreted

\* The event is looked at again once something was taken.
After ==
    /\ consumer.at = "after"
    /\ \/ event /\ Hands("wakeup") /\ UNCHANGED endVars
       \/ ~event /\ consumer.held = "item" /\ Hands("item") /\ UNCHANGED endVars
       \/ /\ ~event /\ consumer.held \in {"error", "cut"}
          /\ IF Cancelled THEN Hands("wakeup") /\ UNCHANGED endVars
             ELSE Ends("failed") /\ misled' = (misled \/ consumer.held = "cut")
       \/ /\ ~event /\ consumer.held \in {"done", "cut"}
          /\ At("leave") /\ misled' = (misled \/ consumer.held = "cut")
          /\ UNCHANGED <<outcome, interpreted>>
    /\ UNCHANGED <<calm, event, hook, streamVars, stopped, closed>>

\* The adapter of a provider: the flag first, then the item.  A line that it
\* yields to a handler which has gone closes the generation.
Interpret ==
    /\ consumer.at = "given"
    /\ IF Cancelled THEN Ends("partial") /\ UNCHANGED misled
       ELSE IF consumer.held = "wakeup" THEN Ends("failed") /\ misled' = TRUE
       ELSE /\ interpreted' = interpreted + 1 /\ UNCHANGED misled
            /\ \/ At("peek") /\ UNCHANGED outcome
               \/ caller["handler"] = "done" /\ At("leave") /\ outcome' = "dropped"
    /\ UNCHANGED <<calm, event, hook, streamVars, stopped, closed>>

\* The finally clause; a handle that was cleared is not there any more.  The
\* generation clears its flags when it ends.
Leave ==
    /\ consumer.at = "leave"
    /\ stopped' = stopped \cup {n0} /\ closed' = closed \cup {n0}
    /\ hook' = 0 /\ event' = (event /\ hook = 0)
    /\ IF outcome = "none" THEN At("between") /\ UNCHANGED caller
       ELSE At("over") /\ To("generator", "clear flag")
    /\ UNCHANGED <<mode, snap, flag, redis, wanted, streamVars, endVars>>

Complete ==
    /\ consumer.at = "between" /\ n0 > 0
    /\ outcome' = "complete" /\ At("over") /\ To("generator", "clear flag")
    /\ UNCHANGED <<mode, snap, flagVars, streamVars, stopped, closed, interpreted, misled>>

ConsumerStep == \/ Begin \/ Check \/ StartProducer \/ Peek \/ Take \/ After
                \/ Interpret \/ Leave \/ Complete

-----------------------------------------------------------------------------
Next ==
    \/ UserCancels \/ HandlerCancels \/ MonitorLooks \/ MonitorReads \/ SetDurable
    \/ \E c \in Callers : CallerStep(c)
    \/ \E n \in Streams : ProviderSends(n) \/ ReadIsCut(n) \/ Offer(n)
    \/ ConsumerStep

Spec == Init /\ [][Next]_vars

\* Threads run and a closed resource ends the read; nothing is assumed of the
\* provider, which may stall for ever.
Fairness ==
    /\ \A c \in Callers : WF_vars(CallerStep(c))
    /\ WF_vars(SetDurable) /\ WF_vars(MonitorLooks \/ MonitorReads)
    /\ \A n \in Streams : WF_vars(ReadIsCut(n) \/ Offer(n))
    /\ WF_vars(ConsumerStep)

FairSpec == Spec /\ Fairness

-----------------------------------------------------------------------------
(* Properties                                                              *)

\* A cancellation is taken for what it is: no provider interprets the wake-up
\* value, and the closing of the connection is neither a failure of the provider
\* nor the end of its answer, unless the worker's handler cleared the flags.
CancelHolds ==
    misled => caller["handler"] \in {"clear handles", "clear redis", "done"}

\* The same whatever the handler does ("every integrated provider checks
\* cancel_registry before interpreting its stream item").
WakeupIsSafe == ~misled

\* Once a cancellation has returned, no item is interpreted while its flags
\* stand, whichever process was asked.
NothingAfterCancel ==
    [][caller["user"] = "done" /\ caller["handler"] # "done" => UNCHANGED interpreted]_vars

\* A generation that is cancelled ends, though its provider never sends again.
CancelEnds ==
    caller["user"] = "done" ~> consumer.at = "over" \/ caller["handler"] = "done"

\* A stream that was left keeps no thread.
ProducersLeave == \A n \in Streams :
    n \in stopped ~> producer[n] \in {"none", "gone"}
=============================================================================
