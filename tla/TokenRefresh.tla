---------------------------- MODULE TokenRefresh ----------------------------
(***************************************************************************)
(* The browser's session: tabs that share one cookie jar, the refresh flow  *)
(* of frontend/js/common/auth.js, and the server that rotates refresh      *)
(* tokens (auth/token.py, auth/models.py, auth/account_slots.py).          *)
(*                                                                         *)
(* A browser remembers one account per slot.  The tokens of the session in *)
(* slot k are its generations 1, 2, ...: the session row names the current *)
(* one, all the earlier ones are its consumed history, and an access token *)
(* belongs to the generation it was issued with.  A request carries the jar*)
(* as it was when it was sent, and a reply changes the jar when it arrives.*)
(***************************************************************************)
EXTENDS Integers

CONSTANTS
    Slots,          \* account slots in use, numbered from 1
    Tabs, NoTab,
    Orphan,         \* where the request of a tab that gave up goes on
    WebLocks,       \* the browser has navigator.locks
    LockTimeouts,   \* a refresh may wait longer than the lock timeout
    Prompt,         \* requests are served and answered within the grace
    MaxAttempts,    \* AUTH_REFRESH_RACE_MAX_ATTEMPTS
    Requests,       \* which of "call", "switch", "remove", "logout" users make
    MaxGen,         \* bound: generations of one session
    MaxTrips,       \* bound: what users do, reloads included
    MaxLost         \* bound: requests given up or whose reply is lost

RefreshAssumption ==
    /\ Slots \subseteq Nat \ {0} /\ 1 \in Slots
    /\ NoTab \notin Tabs /\ Orphan \notin Tabs
    /\ WebLocks \in BOOLEAN /\ LockTimeouts \in BOOLEAN /\ Prompt \in BOOLEAN
    /\ MaxAttempts \in Nat \ {0} /\ MaxGen \in Nat
    /\ MaxTrips \in Nat /\ MaxLost \in Nat
    /\ Requests \subseteq {"call", "switch", "remove", "logout"}

VARIABLES
    row,        \* the current generation of each session, 0 without a row
    grace,      \* the generations consumed within REFRESH_TOKEN_RACE_GRACE
    jar,        \* the cookies of the browser
    tab,
    holder,     \* the tab that holds the lock 'omlorix-auth-refresh'
    msg,        \* the request of each tab, and the orphan
    trips, lost \* counters of the bounds

vars == <<row, grace, jar, tab, holder, msg, trips, lost>>

Keep == -1
NoAccess == <<0, 0>>
Access == {NoAccess} \cup Slots \X (Nat \ {0})
Jar == [tok : [Slots -> Nat], active : Slots \cup {0}, access : Access]

\* The Set-Cookie headers of a reply: what they leave alone is Keep.
Reply == [status : {0, 200, 401, 404, 409},
          tok    : [Slots -> Nat \cup {Keep}],
          active : Slots \cup {0, Keep},
          access : Access \cup {<<Keep, Keep>>}]

Answering(status) == [status |-> status, tok |-> [k \in Slots |-> Keep],
                      active |-> Keep, access |-> <<Keep, Keep>>]
Pending == Answering(0)

Kinds == {"refresh", "call", "switch", "remove", "logout"}
Msg == [kind : Kinds \cup {"none"}, slot : Slots \cup {0}, jar : Jar, reply : Reply]
NoJar == [tok |-> [k \in Slots |-> 0], active |-> 0, access |-> NoAccess]
NoMsg == [kind |-> "none", slot |-> 0, jar |-> NoJar, reply |-> Pending]

\* "load": the page just loaded; "lock": waiting for the lock; "send" and
\* "pause": before the first and before the next attempt of a refresh; "out":
\* the login page, without a session.  `why` is who asked for the refresh and
\* `mine` is activeAccountSlot.
Tab == [page : {"app", "login"},
        pc   : {"load", "lock", "send", "pause", "ready", "out"} \cup Kinds,
        why  : {"load", "call", "leave"},
        attempt : 0 .. MaxAttempts,
        retried : BOOLEAN,
        mine : Slots \cup {0}]

TypeOK ==
    /\ row \in [Slots -> Nat] /\ grace \in [Slots -> SUBSET Nat]
    /\ jar \in Jar
    /\ tab \in [Tabs -> Tab] /\ holder \in Tabs \cup {NoTab}
    /\ msg \in [Tabs \cup {Orphan} -> Msg]
    /\ trips \in 0 .. MaxTrips /\ lost \in 0 .. MaxLost

Loading(page) == [page |-> page, pc |-> "load", why |-> "load", attempt |-> 0,
                  retried |-> FALSE, mine |-> 0]

\* Every slot is signed in, the first one is active, and the pages load.
Init ==
    /\ row = [k \in Slots |-> 1] /\ grace = [k \in Slots |-> {}]
    /\ jar = [tok |-> row, active |-> 1, access |-> NoAccess]
    /\ tab = [t \in Tabs |-> Loading("app")] /\ holder = NoTab
    /\ msg = [c \in Tabs \cup {Orphan} |-> NoMsg]
    /\ trips = 0 /\ lost = 0

-----------------------------------------------------------------------------
(* The server                                                              *)

Current(j, k) == j.tok[k] # 0 /\ row[k] = j.tok[k]

\* list_browser_accounts with a response clears the cookies of the slots whose
\* token it cannot resolve.
Stale(j) == {k \in Slots : j.tok[k] # 0 /\ ~Current(j, k)}
Known(j) == {k \in Slots : Current(j, k)}

\* The slots get_active_refresh_token may return: the active one when its
\* cookie decodes, otherwise the one used last among those that resolve.
Selected(j) == IF j.active # 0 /\ j.tok[j.active] # 0 THEN {j.active} ELSE Known(j)
FellBack(j) == ~(j.active # 0 /\ j.tok[j.active] # 0)

ClearSlots(r, ks) == [r EXCEPT !.tok = [k \in Slots |-> IF k \in ks THEN 0 ELSE @[k]]]

ClearSelected(j, k) ==
    LET cleared == ClearSlots(Answering(401), {k})
    IN  IF j.active = k
        THEN [cleared EXCEPT !.active = 0, !.access = NoAccess] ELSE cleared

ClearAll == [ClearSlots(Answering(401), Slots) EXCEPT !.active = 0, !.access = NoAccess]

Received(c, kind) == msg[c].kind = kind /\ msg[c].reply = Pending

\* Nobody waits for the reply to an orphan.
Answer(c, r) == msg' = [msg EXCEPT ![c] = IF c = Orphan THEN NoMsg
                                          ELSE [@ EXCEPT !.reply = r]]

\* Faulty variants: a token consumed a moment ago still rotates, or counts as
\* reused like any other.
ResolutionLenient(k, g) == IF row[k] = 0 THEN "unknown"
                           ELSE IF g \in grace[k] \cup {row[k]} THEN "current" ELSE "reused"
ResolutionStrict(k, g) == IF row[k] = 0 THEN "unknown"
                          ELSE IF row[k] = g THEN "current" ELSE "reused"

Resolution(k, g) == IF row[k] = 0 THEN "unknown"
                    ELSE IF row[k] = g THEN "current"
                    ELSE IF g \in grace[k] THEN "race" ELSE "reused"

Issued(j, k) ==
    LET g == row[k] + 1
        r == ClearSlots(Answering(200), IF FellBack(j) THEN Stale(j) ELSE {})
    IN  [r EXCEPT !.tok[k] = g, !.active = k, !.access = <<k, g>>]

RefreshOf(c, k) ==
    LET j == msg[c].jar
        g == j.tok[k]
    IN  CASE Resolution(k, g) = "current" ->
                 /\ row[k] < MaxGen
                 /\ row' = [row EXCEPT ![k] = @ + 1]
                 /\ grace' = [grace EXCEPT ![k] = @ \cup {g}]
                 /\ Answer(c, Issued(j, k))
          [] Resolution(k, g) = "race" ->
                 Answer(c, Answering(409)) /\ UNCHANGED <<row, grace>>
          [] Resolution(k, g) = "reused" ->
                 /\ row' = [row EXCEPT ![k] = 0]
                 /\ grace' = [grace EXCEPT ![k] = {}]
                 /\ Answer(c, ClearSelected(j, k))
          [] OTHER -> Answer(c, ClearSelected(j, k)) /\ UNCHANGED <<row, grace>>

ServerRefresh(c) ==
    /\ Received(c, "refresh")
    /\ LET j == msg[c].jar IN
       \/ \E k \in Selected(j) : RefreshOf(c, k)
       \/ Selected(j) = {} /\ Answer(c, ClearAll) /\ UNCHANGED <<row, grace>>
    /\ UNCHANGED <<jar, tab, holder, trips, lost>>

\* Five seconds after the rotation a consumed token counts as reused.
GraceEnds(k, g) ==
    /\ g \in grace[k]
    /\ Prompt => /\ jar.tok[k] # g
                 /\ \A c \in Tabs \cup {Orphan} : msg[c].jar.tok[k] # g
    /\ grace' = [grace EXCEPT ![k] = @ \ {g}]
    /\ UNCHANGED <<row, jar, tab, holder, msg, trips, lost>>

\* An access token is that of the current generation, and may have expired.
Accepted(j) == j.access # NoAccess /\ row[j.access[1]] = j.access[2]

ServerCall(c) ==
    /\ Received(c, "call")
    /\ \/ Accepted(msg[c].jar) /\ Answer(c, Answering(200))
       \/ Answer(c, Answering(401))
    /\ UNCHANGED <<row, grace, jar, tab, holder, trips, lost>>

ServerSwitch(c) ==
    /\ Received(c, "switch")
    /\ LET k == msg[c].slot IN
       Answer(c, IF Current(msg[c].jar, k)
                 THEN [Answering(200) EXCEPT !.active = k, !.access = NoAccess]
                 ELSE Answering(404))
    /\ UNCHANGED <<row, grace, jar, tab, holder, trips, lost>>

Deleted(k) == /\ row' = [row EXCEPT ![k] = 0]
              /\ grace' = [grace EXCEPT ![k] = {}]

Remaining(j) == {k \in Slots : j.tok[k] # 0 /\ row'[k] = j.tok[k]}
SignedOut(j) == ClearSlots(Answering(200), {k \in Slots : j.tok[k] # 0} \ Remaining(j))

\* The next account becomes active, or none is left.
Fallbacks(ks) == IF ks = {} THEN {0} ELSE ks

\* By the access token; when that is refused, by the refresh token.
ServerLogout(c) ==
    /\ Received(c, "logout")
    /\ LET j == msg[c].jar
           SignOut(k) ==
               /\ Deleted(k)
               /\ \E next \in Fallbacks(Remaining(j)) :
                      Answer(c, [SignedOut(j) EXCEPT !.active = next, !.access = NoAccess])
       IN  \/ Accepted(j) /\ SignOut(j.access[1])
           \/ \E k \in Selected(j) : Current(j, k) /\ SignOut(k)
           \/ /\ \A k \in Selected(j) : ~Current(j, k)
              /\ Answer(c, Answering(401)) /\ UNCHANGED <<row, grace>>
    /\ UNCHANGED <<jar, tab, holder, trips, lost>>

\* delete_authentication finds the row by the token of the cookie.
ServerRemove(c) ==
    /\ Received(c, "remove")
    /\ LET j == msg[c].jar
           k == msg[c].slot
           kept == Known(j) \ {k}
           cleared == ClearSlots(Answering(200), Stale(j) \cup {k})
       IN  \/ /\ j.tok[k] = 0 /\ Answer(c, Answering(404))
              /\ UNCHANGED <<row, grace>>
           \/ /\ j.tok[k] # 0
              /\ IF Current(j, k) THEN Deleted(k) ELSE UNCHANGED <<row, grace>>
              /\ IF j.active \in {0, k}
                 THEN \E next \in Fallbacks(kept) :
                          Answer(c, [cleared EXCEPT !.active = next, !.access = NoAccess])
                 ELSE Answer(c, cleared)
    /\ UNCHANGED <<jar, tab, holder, trips, lost>>

-----------------------------------------------------------------------------
(* A tab                                                                   *)

Send(t, kind, slot) ==
    msg' = [msg EXCEPT ![t] = [NoMsg EXCEPT !.kind = kind, !.slot = slot, !.jar = jar]]

Asking(s, why) == [s EXCEPT !.pc = IF WebLocks THEN "lock" ELSE "send",
                            !.why = why, !.attempt = 1]

\* runInitialAuthBootstrap, on the login page as well.
Bootstrap(t) ==
    /\ tab[t].pc = "load"
    /\ tab' = [tab EXCEPT ![t] = Asking(@, "load")]
    /\ UNCHANGED <<row, grace, jar, holder, msg, trips, lost>>

LockGranted(t) ==
    /\ tab[t].pc = "lock" /\ holder = NoTab
    /\ holder' = t
    /\ tab' = [tab EXCEPT ![t].pc = "send"]
    /\ UNCHANGED <<row, grace, jar, msg, trips, lost>>

\* AUTH_REFRESH_LOCK_TIMEOUT_MS: the refresh goes on without the lock.
LockTimesOut(t) ==
    /\ LockTimeouts /\ tab[t].pc = "lock" /\ holder # NoTab
    /\ tab' = [tab EXCEPT ![t].pc = "send"]
    /\ UNCHANGED <<row, grace, jar, holder, msg, trips, lost>>

SendRefresh(t) ==
    /\ tab[t].pc = "send"
    /\ tab' = [tab EXCEPT ![t].pc = "refresh"]
    /\ Send(t, "refresh", 0)
    /\ UNCHANGED <<row, grace, jar, holder, trips, lost>>

\* The wait of waitForAuthRefreshRetry is over.
RetryRefresh(t) ==
    /\ tab[t].pc = "pause"
    /\ tab' = [tab EXCEPT ![t].pc = "send", ![t].attempt = @ + 1]
    /\ UNCHANGED <<row, grace, jar, holder, msg, trips, lost>>

\* What follows a refresh, by who asked for it: a page that loads becomes
\* ready, the login page of a signed-in browser goes to the application, a
\* call is sent again, and a page that left its account goes where it can.
AfterRefresh(s, ok) ==
    CASE ~ok -> IF s.page = "login" THEN [s EXCEPT !.pc = "out"] ELSE Loading("login")
      [] ok /\ s.why = "call" -> [s EXCEPT !.pc = "call", !.retried = TRUE]
      [] ok /\ s.why # "call" -> IF s.why = "load" /\ s.page = "app"
                                 THEN [s EXCEPT !.pc = "ready"] ELSE Loading("app")

\* Faulty variant: only a refresh that reads a reply gives the lock back.
ReleaseOnReply(t) == holder' = IF holder = t /\ msg[t].reply # Pending THEN NoTab ELSE holder

\* The lock is free again, and whoever timed out never had it.
Release(t) == holder' = IF holder = t THEN NoTab ELSE holder

Applied(j, r) ==
    [tok    |-> [k \in Slots |-> IF r.tok[k] = Keep THEN j.tok[k] ELSE r.tok[k]],
     active |-> IF r.active = Keep THEN j.active ELSE r.active,
     access |-> IF r.access = <<Keep, Keep>> THEN j.access ELSE r.access]

Arrived(t, kind) ==
    /\ tab[t].pc = kind /\ msg[t].kind = kind /\ msg[t].reply # Pending
    /\ jar' = Applied(jar, msg[t].reply)

\* Faulty variant: one try too many.
TriesAgainLate(t) == msg[t].reply.status = 409 /\ tab[t].attempt <= MaxAttempts

TriesAgain(t) == msg[t].reply.status = 409 /\ tab[t].attempt < MaxAttempts

\* The cookies are in the jar before the script sees the reply, and the lock
\* is held until the script is done with it.
RefreshReply(t) ==
    LET r == msg[t].reply
        seen == IF r.status = 200 THEN [tab[t] EXCEPT !.mine = r.active] ELSE tab[t]
    IN
    /\ Arrived(t, "refresh")
    /\ IF TriesAgain(t)
       THEN /\ tab' = [tab EXCEPT ![t].pc = "pause"]
            /\ msg' = [msg EXCEPT ![t] = NoMsg] /\ UNCHANGED holder
       ELSE LET next == AfterRefresh(seen, r.status = 200) IN
            /\ tab' = [tab EXCEPT ![t] = next]
            /\ Release(t)
            /\ IF next.pc = "call" THEN msg' = [msg EXCEPT ![t] =
                      [NoMsg EXCEPT !.kind = "call", !.jar = Applied(jar, r)]]
               ELSE msg' = [msg EXCEPT ![t] = NoMsg]
    /\ UNCHANGED <<row, grace, trips, lost>>

\* authedFetch: the first 401 asks for a refresh, a second one is returned.
CallReply(t) ==
    /\ Arrived(t, "call")
    /\ tab' = [tab EXCEPT ![t] =
          IF msg[t].reply.status = 401 /\ ~@.retried THEN Asking(@, "call")
          ELSE [@ EXCEPT !.pc = "ready", !.retried = FALSE]]
    /\ msg' = [msg EXCEPT ![t] = NoMsg]
    /\ UNCHANGED <<row, grace, holder, trips, lost>>

SwitchReply(t) ==
    /\ Arrived(t, "switch")
    /\ tab' = [tab EXCEPT ![t] = IF msg[t].reply.status = 200 THEN Loading("app")
                                 ELSE [@ EXCEPT !.pc = "ready"]]
    /\ msg' = [msg EXCEPT ![t] = NoMsg]
    /\ UNCHANGED <<row, grace, holder, trips, lost>>

\* After a logout the page refreshes the account that is active now.
LogoutReply(t) ==
    /\ Arrived(t, "logout")
    /\ tab' = [tab EXCEPT ![t] = IF msg[t].reply.status = 200 THEN Asking(@, "leave")
                                 ELSE Loading("login")]
    /\ msg' = [msg EXCEPT ![t] = NoMsg]
    /\ UNCHANGED <<row, grace, holder, trips, lost>>

\* Only the page that removed its own account leaves it.
RemoveReply(t) ==
    /\ Arrived(t, "remove")
    /\ tab' = [tab EXCEPT ![t] =
          IF msg[t].reply.status = 200 /\ msg[t].slot = @.mine THEN Asking(@, "leave")
          ELSE [@ EXCEPT !.pc = "ready"]]
    /\ msg' = [msg EXCEPT ![t] = NoMsg]
    /\ UNCHANGED <<row, grace, holder, trips, lost>>

-----------------------------------------------------------------------------
(* What users do, and what fails                                           *)

UserAsks(t, kind, slot) ==
    /\ tab[t].pc = "ready" /\ trips < MaxTrips /\ kind \in Requests
    /\ tab' = [tab EXCEPT ![t].pc = kind]
    /\ Send(t, kind, slot)
    /\ trips' = trips + 1
    /\ UNCHANGED <<row, grace, jar, holder, lost>>

\* A request that was given up may still reach the server; its reply is lost.
GiveUp(t) ==
    /\ lost < MaxLost /\ msg[Orphan] = NoMsg
    /\ msg' = [msg EXCEPT ![t] = NoMsg,
                          ![Orphan] = IF msg[t].reply = Pending THEN msg[t] ELSE NoMsg]
    /\ lost' = lost + 1

\* AUTH_REFRESH_REQUEST_TIMEOUT_MS, or a network error.
RequestFails(t) ==
    /\ tab[t].pc \in Kinds /\ GiveUp(t)
    /\ tab' = [tab EXCEPT ![t] =
          CASE @.pc = "refresh" -> AfterRefresh(@, FALSE)
            [] @.pc = "logout"  -> Loading("login")
            [] OTHER            -> [@ EXCEPT !.pc = "ready", !.retried = FALSE]]
    /\ Release(t)
    /\ UNCHANGED <<row, grace, jar, trips>>

\* A page that is left gives its request up and its lock back.
Reload(t) ==
    /\ trips < MaxTrips /\ tab[t].pc # "load"
    /\ IF msg[t] = NoMsg THEN UNCHANGED <<msg, lost>> ELSE GiveUp(t)
    /\ tab' = [tab EXCEPT ![t] = Loading(@.page)]
    /\ Release(t)
    /\ trips' = trips + 1
    /\ UNCHANGED <<row, grace, jar>>

-----------------------------------------------------------------------------
ServerStep(c) == ServerRefresh(c) \/ ServerCall(c) \/ ServerSwitch(c)
                 \/ ServerLogout(c) \/ ServerRemove(c)

ReplyArrives(t) == RefreshReply(t) \/ CallReply(t) \/ SwitchReply(t)
                   \/ LogoutReply(t) \/ RemoveReply(t)

PageStep(t) == Bootstrap(t) \/ SendRefresh(t) \/ RetryRefresh(t) \/ ReplyArrives(t)

LockStep(t) == LockGranted(t) \/ LockTimesOut(t)

UserStep(t) == \/ Reload(t)
               \/ \E kind \in {"call", "logout"} : UserAsks(t, kind, 0)
               \/ \E k \in Slots, kind \in {"switch", "remove"} : UserAsks(t, kind, k)

Next ==
    \/ \E c \in Tabs \cup {Orphan} : ServerStep(c)
    \/ \E k \in Slots : \E g \in grace[k] : GraceEnds(k, g)
    \/ \E t \in Tabs : PageStep(t) \/ LockStep(t) \/ UserStep(t) \/ RequestFails(t)

Spec == Init /\ [][Next]_vars

\* The server answers, scripts and their timers run, and a lock that is free
\* now and again is granted.  Users, failures and the grace owe nothing.
Fairness ==
    /\ \A t \in Tabs : WF_vars(ServerStep(t)) /\ WF_vars(PageStep(t))
    /\ \A t \in Tabs : SF_vars(LockGranted(t))

FairSpec == Spec /\ Fairness

-----------------------------------------------------------------------------
(* Properties                                                              *)

\* The refresh cookie of a slot never goes back to an earlier token: replies
\* may arrive in any order, but a token is issued only to a request that
\* carried the one before it (resolve_refresh_token_for_rotation).
JarNeverGoesBack ==
    [][\A k \in Slots : jar'.tok[k] # 0 => jar'.tok[k] >= jar.tok[k]]_vars

\* With Web Locks, when no lock wait times out and no reply is lost, a refresh
\* never carries a consumed token: an honest browser never meets the race
\* answer, and never looks like a thief (refreshToken, auth.js).
LockedRefreshIsCurrent ==
    \A t \in Tabs : Received(t, "refresh") =>
        \A k \in Selected(msg[t].jar) : row[k] \in {0, msg[t].jar.tok[k]}

\* While nobody signs out, no reply is lost and the server is prompt, no race
\* between tabs costs a session, locks or no locks: the server keeps its row,
\* and its current token is in the jar or in a reply on its way there.
NoSessionLost ==
    \A k \in Slots :
        /\ row[k] # 0
        /\ \/ jar.tok[k] = row[k]
           \/ \E t \in Tabs : msg[t].reply.tok[k] = row[k]

\* Every page that waits for a session ends up with one, or signed out.
Busy(t) == tab[t].pc \notin {"ready", "out"}
PagesSettle == \A t \in Tabs : Busy(t) ~> ~Busy(t)

\* Comment of fetchRefreshWithRaceRetry: after a race the next attempt uses
\* the newly rotated token.  A reply may take longer than the wait.
RetryUsesRotatedToken ==
    \A t \in Tabs : tab[t].pc = "refresh" /\ tab[t].attempt = 2
        /\ Received(t, "refresh") => ~\E k \in Selected(msg[t].jar) :
               row[k] # 0 /\ msg[t].jar.tok[k] < row[k]

\* The documentation of account switching: Logout ends the active account's
\* current session.
LogoutEndsSession ==
    [][\A t \in Tabs : LogoutReply(t) =>
          LET k == msg[t].jar.active IN k # 0 => row[k] = 0]_vars

\* ... without removing other remembered slots.
LogoutKeepsOthers ==
    [][\A t \in Tabs : LogoutReply(t) =>
          \A k \in Slots : row[k] # 0 /\ jar.tok[k] = row[k] => jar'.tok[k] = row[k]]_vars
=============================================================================
