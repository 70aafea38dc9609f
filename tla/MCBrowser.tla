------------------------------ MODULE MCBrowser ------------------------------
(* The web client for TLC: the refresh of its tabs, the session cache        *)
(* behind their requests, the queue of a chat page and of a split screen,   *)
(* and the stream a page follows.  One part runs, the others rest.          *)
EXTENDS Naturals, SessionCache, TLC

CONSTANTS ta, tb, NoTab, Orphan, s1, s2, k1, k2, k3, c1, c2, o1, o2,
          g1, t1, a1, NoGeneration, NoChat,
          Parts     \* the parts a run is about

VARIABLES
    part,                                                   \* the part that runs
    auth, grace, jar, tab, holder, msg, trips, lost,
    typed, home, items, paused, dispatch, handoff, page, transport, drafting, reader,
    server, asking, thrown, broken, spent,
    written, wanted, waiting, halted, sending, soon, target, panel, composing, turn,
    backend, removed, failed, used,
    gens, byChat, heap, listed, at, of, from, cursor, event, posted, seen, ended

tokenVars  == <<auth, grace, jar, tab, holder, msg, trips, lost>>
queueVars  == <<typed, home, items, paused, dispatch, handoff, page, transport, drafting, reader,
                server, asking, thrown, broken, spent>>
splitVars  == <<written, wanted, waiting, halted, sending, soon, target, panel, composing, turn,
                backend, removed, failed, used>>
streamVars == <<gens, byChat, heap, listed, at, of, from, cursor, event, posted, seen, ended>>
allVars    == <<part, tokenVars, vars, queueVars, splitVars, streamVars>>

\* The token each session starts with.
TwoSessions == s1 :> k1 @@ s2 :> k2

Symmetry == Permutations({ta, tb}) \cup Permutations({c1, c2}) \cup Permutations({o1, o2})

-----------------------------------------------------------------------------
\* Race: no Web Locks, a prompt server.  Held: Web Locks, nothing is lost.
\* Loose: lock waits time out and replies are lost.  Locks: a page that waits
\* for its turn, requests that get lost.
Race == INSTANCE TokenRefresh WITH
            Slots <- {1, 2}, Tabs <- {ta, tb}, WebLocks <- FALSE, LockTimeouts <- FALSE,
            Prompt <- TRUE, MaxAttempts <- 3, Requests <- {"call", "switch"},
            MaxGen <- 3, MaxTrips <- 2, row <- auth, MaxLost <- 0

Held == INSTANCE TokenRefresh WITH
            Slots <- {1, 2}, Tabs <- {ta, tb}, WebLocks <- TRUE, LockTimeouts <- FALSE,
            Prompt <- FALSE, MaxAttempts <- 2, Requests <- {"call", "switch", "logout"},
            MaxGen <- 9, MaxTrips <- 2, row <- auth, MaxLost <- 0

Loose == INSTANCE TokenRefresh WITH
             Slots <- {1, 2}, Tabs <- {ta, tb}, WebLocks <- TRUE, LockTimeouts <- TRUE,
             Prompt <- FALSE, MaxAttempts <- 2,
             Requests <- {"call", "switch", "remove", "logout"},
             MaxGen <- 3, MaxTrips <- 1, row <- auth, MaxLost <- 1

Locks == INSTANCE TokenRefresh WITH
             Slots <- {1}, Tabs <- {ta, tb}, WebLocks <- TRUE, LockTimeouts <- FALSE,
             Prompt <- FALSE, MaxAttempts <- 2, Requests <- {"call", "logout"},
             MaxGen <- 9, MaxTrips <- 1, row <- auth, MaxLost <- 1

\* A new chat whose turns fail, are refused, dropped or lost, and a split screen whose
\* turns may be stopped as well.
ChainPlan == [start |-> 0, mishaps |-> {"fail", "refuse", "lost", "drop"}]
SomePlan == [targets |-> {{"left"}, {"left", "right"}},
             mishaps |-> {"fail", "refuse", "stop", "lost", "drop"}]

Chain == INSTANCE MessageQueue WITH
             MaxMessages <- 3, MaxReaders <- 6, Existing <- {7}, Budget <- 2,
             Plans <- {ChainPlan}, plan <- ChainPlan

Some == INSTANCE SplitQueue WITH
            MaxMessages <- 2, MaxTurns <- 4, Budget <- 2, Plans <- {SomePlan}, plan <- SomePlan,
            typed <- written, items <- waiting, paused <- halted, dispatch <- sending,
            handoff <- soon, server <- backend, thrown <- removed, broken <- failed,
            spent <- used

Stream == INSTANCE StreamHub WITH
              Generations <- {g1}, Chats <- {}, Subscribers <- {t1, a1}, Async <- {a1},
              Closing <- {}, MaxLines <- 1, MaxSeq <- 1, MaxLives <- 1

ASSUME CacheAssumed == CacheAssumption
ASSUME RefreshAssumed == /\ Race!RefreshAssumption /\ Held!RefreshAssumption
                         /\ Loose!RefreshAssumption /\ Locks!RefreshAssumption
ASSUME QueuesAssumed == Chain!QueueAssumption /\ Some!SplitAssumption

-----------------------------------------------------------------------------
BrowserInit ==
    /\ part \in Parts
    /\ CASE part = "race" -> Race!Init [] part = "held" -> Held!Init
         [] part = "locks" -> Locks!Init [] OTHER -> Loose!Init
    /\ Init /\ (part # "cache" => key = {})
    /\ Chain!Init
    /\ Some!Init /\ (part # "some" => target = {"left"})
    /\ Stream!Init

BrowserNext ==
    \/ /\ \/ part = "race" /\ Race!Next
          \/ part = "held" /\ Held!Next
          \/ part = "loose" /\ Loose!Next
          \/ part = "locks" /\ Locks!Next
       /\ UNCHANGED <<part, vars, queueVars, splitVars, streamVars>>
    \/ /\ part = "cache" /\ Next
       /\ UNCHANGED <<part, tokenVars, queueVars, splitVars, streamVars>>
    \/ /\ part = "chain" /\ Chain!Next
       /\ UNCHANGED <<part, tokenVars, vars, splitVars, streamVars>>
    \/ /\ part = "some" /\ Some!Next
       /\ UNCHANGED <<part, tokenVars, vars, queueVars, streamVars>>
    \/ /\ part = "stream" /\ Stream!Next
       /\ UNCHANGED <<part, tokenVars, vars, queueVars, splitVars>>

BrowserSpec == BrowserInit /\ [][BrowserNext]_allVars

\* The pages of a resting part do not load.
TokenFairness ==
    \A t \in {ta, tb} : /\ WF_tokenVars(Locks!ServerStep(t))
                        /\ WF_tokenVars(part = "locks" /\ Locks!PageStep(t))
                        /\ SF_tokenVars(part = "locks" /\ Locks!LockGranted(t))

FairBrowserSpec ==
    BrowserSpec /\ TokenFairness /\ Chain!Fairness /\ Some!Fairness /\ Stream!Fairness

-----------------------------------------------------------------------------
TypesOK ==
    /\ part = "race" => Race!TypeOK
    /\ part = "held" => Held!TypeOK
    /\ part = "loose" => Loose!TypeOK
    /\ TypeOK

\* Races between tabs cost no session, and with Web Locks there are none.
NoSessionLost == /\ part = "race" => Race!NoSessionLost
                 /\ part = "held" => Held!LockedRefreshIsCurrent

JarNeverGoesBack == Loose!JarNeverGoesBack

\* Every page gets a session or ends on the login page, followers get to the end of a
\* finished stream, and its memory is given back.
PagesEnd == /\ part = "locks" => Locks!PagesSettle
            /\ Stream!FollowersFinish /\ Stream!FinishedReclaimed

\* A queued message never keeps the queue of its page waiting for ever, and none
\* waits in a queue that is not paused.
DispatchesEnd == Chain!DispatchEnds /\ Chain!QueueMoves /\ Some!DispatchEnds
=============================================================================
