------------------------------- MODULE MCChat --------------------------------
(* Chat streaming for TLC: the hub in memory (one stream with all its lines, *)
(* followed by a thread and a task whose loop may close, or two streams of   *)
(* one line in two chats, followed by a task), the hub in Redis (followed by *)
(* a task or a thread), and the provider streams of a generation.  One part  *)
(* runs, the others rest.                                                    *)
EXTENDS StreamHub

CONSTANTS g1, g2, c1, c2, t1, a1,              \* in the bounds of the hub in memory
          MaxPublished, MaxFails,              \* of RedisStream
          MaxStreams, MaxItems, QueueMax,      \* of ProviderStream
          Parts                                \* the parts a run is about

VARIABLES
    part,                                                   \* the part that runs
    web, status, seq, events, signal, local, published, sub, handed, fails,
    mode, flag, redis, stop, hook, wanted, caller, snap, consumer, producer, queue,
    sent, stopped, closed, outcome, interpreted, misled

redisVars    == <<web, status, seq, events, signal, local, published, sub, handed, fails>>
providerVars == <<mode, flag, redis, stop, hook, wanted, caller, snap, consumer, producer,
                  queue, sent, stopped, closed, outcome, interpreted, misled>>
allVars      == <<part, vars, redisVars, providerVars>>

\* Bounds of the hub in memory.
OneStream  == gens[g2] = NoGen(0) /\ gens[g1].chat # c2
TwoStreams == /\ at[t1] = "new" /\ at[a1] # "gone"
              /\ gens[g1].seq <= 1 /\ gens[g2].seq <= 1 /\ gens[g2].life <= 1

Redis == INSTANCE RedisStream WITH
             Threads <- Subscribers \ Async, Webs <- {"worker", "web"}

\* A follower changes nothing that another one reads.
OneFollower == \E s \in Subscribers : \A u \in Subscribers \ {s} : sub[u].at = "new"

Provider == INSTANCE ProviderStream WITH
                Modes <- {"inline", "remote", "external"}, event <- stop

ASSUME ChatAssumption == Redis!StreamAssumption /\ Provider!CancelAssumption

ChatInit ==
    /\ part \in Parts
    /\ Init
    /\ Redis!Init /\ (part # "redis" => web = "web")
    /\ Provider!Init /\ (part # "provider" => mode = "inline")

ChatNext ==
    \/ /\ part = "memory" /\ Next /\ (OneStream' \/ TwoStreams')
       /\ UNCHANGED <<part, redisVars, providerVars>>
    \/ part = "redis" /\ Redis!Next /\ OneFollower' /\ UNCHANGED <<part, vars, providerVars>>
    \/ part = "provider" /\ Provider!Next /\ UNCHANGED <<part, vars, redisVars>>

ChatSpec == ChatInit /\ [][ChatNext]_allVars

-----------------------------------------------------------------------------
\* Clients of Redis get the lines they asked for, in order, are told of a gap only
\* if there is one, and of the end only when they have everything.
RedisLinesHold ==
    part = "redis" => Redis!TypeOK /\ Redis!HandedInOrder /\ Redis!NoFalseGap /\ Redis!EndsComplete

\* Of a task whose stream ended, however it learnt of the end.
FollowersDrain == Redis!FollowersDrain

\* A cancellation is taken for what it is, and nothing is interpreted after it.
CancelHolds == /\ [](part = "provider" => Provider!TypeOK /\ Provider!CancelHolds)
               /\ Provider!NothingAfterCancel
=============================================================================
