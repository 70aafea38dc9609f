---------------------------- MODULE BrowserProofs ----------------------------
(***************************************************************************)
(* Proofs about the web client of MCBrowser.  First the session cache, for *)
(* any numbers of tokens, sessions, requests and changes.  The inductive   *)
(* invariant relates each request to the table alone: a token that was gone*)
(* when the request began never comes back, because only tokens that were  *)
(* never given out are written, and one that is said to have been there all*)
(* the time is there now.  The cache does not occur in it: whatever it     *)
(* holds decides nothing.  Then the tabs, from what TokenRefreshProofs     *)
(* proves for any slots, tabs and bounds.                                  *)
(***************************************************************************)
EXTENDS MCBrowser, TLAPS

\* What a request that has begun knows of its token's row.
Presence == \A c \in Checks : check[c].at # "new" =>
    /\ check[c].token \in issued
    /\ check[c].late => check[c].token \notin Stored
    /\ check[c].kept => check[c].token \in Stored

IInv == /\ TypeOK /\ Stored \subseteq issued
        /\ Presence /\ RevokedStaysOut /\ LiveIsAccepted

\* A row that is emptied takes one token from the table and leaves the others.
LEMMA EmptiedRow ==
    ASSUME TypeOK, NoToken \notin Tokens, NEW s \in Sessions,
           row' = [row EXCEPT ![s] = NoToken]
    PROVE  Stored' \subseteq Stored /\ Stored \ {row[s]} \subseteq Stored'
  BY DEF TypeOK, Stored

\* A rotated row exchanges its token for the new one.
LEMMA RotatedRow ==
    ASSUME TypeOK, NoToken \notin Tokens, NEW s \in Sessions, NEW t \in Tokens,
           row' = [row EXCEPT ![s] = t]
    PROVE  Stored' \subseteq Stored \cup {t} /\ Stored \ {row[s]} \subseteq Stored'
  BY DEF TypeOK, Stored

\* The table after a change: tokens in `gone` may be missing, tokens outside
\* `issued` may be new, and every request's history knows what is gone.
Changed(gone) == /\ Touched(gone)
                 /\ Stored \ gone \subseteq Stored'
                 /\ Stored' \cap issued \subseteq Stored

\* A change of the table that the histories know of keeps what the requests know.
LEMMA ChangeKeeps ==
    ASSUME IInv, NEW gone, Changed(gone), issued \subseteq issued'
    PROVE  Presence' /\ RevokedStaysOut' /\ LiveIsAccepted'
<1>1. \A c \in Checks : /\ check'[c].at = check[c].at /\ check'[c].token = check[c].token
                        /\ check'[c].late = check[c].late
                        /\ check'[c].kept = (check[c].kept /\ check[c].token \notin gone)
  BY DEF IInv, TypeOK, Check, Changed, Touched
<1>2. ASSUME NEW c \in Checks, check[c].at # "new"
      PROVE  /\ check[c].token \in issued'
             /\ check[c].late => check[c].token \notin Stored'
             /\ check[c].kept /\ check[c].token \notin gone => check[c].token \in Stored'
  BY <1>2 DEF IInv, Presence, Changed
<1>3. Presence'
  BY <1>1, <1>2 DEF Presence
<1>4. RevokedStaysOut' /\ LiveIsAccepted'
  BY <1>1 DEF IInv, RevokedStaysOut, LiveIsAccepted
<1> QED BY <1>3, <1>4

\* A request that moves by what the table says of its token keeps what it knows.
LEMMA MoveKeeps ==
    ASSUME IInv, NEW c \in Checks,
           NEW p \in {"cache", "row", "fill", "last", "accepted", "refused"},
           check[c].at # "new", GoesTo(c, p), UNCHANGED <<row, issued>>,
           p = "accepted" => check[c].token \in Stored,
           p = "refused" => check[c].token \notin Stored
    PROVE  Presence' /\ RevokedStaysOut' /\ LiveIsAccepted'
<1>1. Stored' = Stored
  BY DEF Stored
<1>2. \A d \in Checks : /\ check'[d].token = check[d].token /\ check'[d].late = check[d].late
                        /\ check'[d].kept = check[d].kept
                        /\ check'[d].at = IF d = c THEN p ELSE check[d].at
  BY DEF IInv, TypeOK, Check, GoesTo
<1>3. Presence'
  BY <1>1, <1>2 DEF IInv, Presence
<1>4. check[c].token \in Stored => ~check[c].late
  BY DEF IInv, Presence
<1>5. check[c].token \notin Stored => ~check[c].kept
  BY DEF IInv, Presence
<1>6. RevokedStaysOut' /\ LiveIsAccepted'
  BY <1>2, <1>4, <1>5 DEF IInv, RevokedStaysOut, LiveIsAccepted
<1> QED BY <1>3, <1>6

\* A step of a request keeps the invariant.
LEMMA CheckStepKeeps ==
    ASSUME CacheAssumption, IInv, NEW c \in Checks, CheckStep(c)
    PROVE  Presence' /\ RevokedStaysOut' /\ LiveIsAccepted' /\ Stored' \subseteq issued'
<1>1. Stored' = Stored /\ issued' = issued
  BY DEF CheckStep, Begin, LookInCache, LookInTable, FillCache, LastLook, Stored
<1>2. Stored' \subseteq issued'
  BY <1>1 DEF IInv
<1>3. ASSUME NEW t \in Tokens, Begin(c, t)
      PROVE  Presence' /\ RevokedStaysOut' /\ LiveIsAccepted'
  <2>1. \A d \in Checks : d # c => check'[d] = check[d]
    BY <1>3 DEF Begin, IInv, TypeOK
  <2>2. /\ check'[c].at = "cache" /\ check'[c].token = t
        /\ check'[c].late = (t \notin Stored) /\ check'[c].kept = (t \in Stored)
    BY <1>3 DEF Begin, IInv, TypeOK
  <2>3. t \in issued
    BY <1>3 DEF Begin
  <2>4. Presence'
    <3> SUFFICES ASSUME NEW d \in Checks, check'[d].at # "new"
                 PROVE  /\ check'[d].token \in issued'
                        /\ check'[d].late => check'[d].token \notin Stored'
                        /\ check'[d].kept => check'[d].token \in Stored'
      BY DEF Presence
    <3>1. CASE d = c
      BY <1>1, <2>2, <2>3, <3>1
    <3>2. CASE d # c
      BY <1>1, <2>1, <3>2 DEF IInv, Presence
    <3> QED BY <3>1, <3>2
  <2>5. RevokedStaysOut' /\ LiveIsAccepted'
    BY <2>1, <2>2 DEF IInv, RevokedStaysOut, LiveIsAccepted
  <2> QED BY <2>4, <2>5
<1>4. CASE LookInCache(c)
  <2>1. GoesTo(c, "last") \/ GoesTo(c, "row")
    BY <1>4 DEF LookInCache
  <2>2. check[c].at # "new" /\ UNCHANGED <<row, issued>>
    BY <1>4 DEF LookInCache
  <2> QED BY <1>2, <2>1, <2>2, MoveKeeps
<1>5. CASE LookInTable(c)
  <2>1. IF check[c].token \in Stored THEN GoesTo(c, "fill") ELSE GoesTo(c, "refused")
    BY <1>5 DEF LookInTable
  <2>2. check[c].at # "new" /\ UNCHANGED <<row, issued>>
    BY <1>5 DEF LookInTable
  <2> QED BY <1>2, <2>1, <2>2, MoveKeeps
<1>6. CASE FillCache(c)
  <2>1. GoesTo(c, "last")
    BY <1>6 DEF FillCache
  <2>2. check[c].at # "new" /\ UNCHANGED <<row, issued>>
    BY <1>6 DEF FillCache
  <2> QED BY <1>2, <2>1, <2>2, MoveKeeps
<1>7. CASE LastLook(c)
  <2>1. IF check[c].token \in Stored THEN GoesTo(c, "accepted") ELSE GoesTo(c, "refused")
    BY <1>7 DEF LastLook
  <2>2. check[c].at # "new" /\ UNCHANGED <<row, issued>>
    BY <1>7 DEF LastLook
  <2> QED BY <1>2, <2>1, <2>2, MoveKeeps
<1> QED BY <1>2, <1>3, <1>4, <1>5, <1>6, <1>7 DEF CheckStep

\* A step of a change keeps the invariant: what it takes from the table the
\* histories learn, and what it adds was never given out.
LEMMA ChangeStepKeeps ==
    ASSUME CacheAssumption, IInv, NEW o \in Changes, ChangeStep(o)
    PROVE  Presence' /\ RevokedStaysOut' /\ LiveIsAccepted' /\ Stored' \subseteq issued'
<1> USE DEF CacheAssumption
<1>1. ASSUME UNCHANGED <<row, check, issued>>
      PROVE  Presence' /\ RevokedStaysOut' /\ LiveIsAccepted' /\ Stored' \subseteq issued'
  BY <1>1 DEF IInv, Presence, RevokedStaysOut, LiveIsAccepted, Stored
<1>2. CASE DeleteSession(o)
  <2>1. PICK s \in change[o].of :
           LET hit == change[o].byId \/ row[s] \in change[o].drop
           IN  /\ row' = IF hit THEN [row EXCEPT ![s] = NoToken] ELSE row
               /\ Touched(IF hit THEN {row[s]} ELSE {})
    BY <1>2 DEF DeleteSession
  <2>2. s \in Sessions /\ issued' = issued
    BY <1>2 DEF DeleteSession, IInv, TypeOK, Change
  <2>3. CASE change[o].byId \/ row[s] \in change[o].drop
    <3>1. Stored' \subseteq Stored /\ Stored \ {row[s]} \subseteq Stored'
      BY <2>1, <2>2, <2>3, EmptiedRow DEF IInv
    <3>2. Changed({row[s]})
      BY <2>1, <2>3, <3>1 DEF Changed
    <3> QED BY <2>2, <3>1, <3>2, ChangeKeeps DEF IInv
  <2>4. CASE ~(change[o].byId \/ row[s] \in change[o].drop)
    <3>1. Stored' = Stored
      BY <2>1, <2>4 DEF Stored
    <3>2. Changed({})
      BY <2>1, <2>4, <3>1 DEF Changed
    <3> QED BY <2>2, <3>1, <3>2, ChangeKeeps DEF IInv
  <2> QED BY <2>3, <2>4
<1>3. CASE RevokeUser(o)
  <2>1. Stored' = {} /\ issued' = issued
    BY <1>3 DEF RevokeUser, Stored
  <2>2. Changed(Stored)
    BY <1>3, <2>1 DEF RevokeUser, Changed
  <2> QED BY <2>1, <2>2, ChangeKeeps DEF IInv
<1>4. ASSUME NEW s \in Sessions, NEW t \in Tokens, Rotate(o, s, t)
      PROVE  Presence' /\ RevokedStaysOut' /\ LiveIsAccepted' /\ Stored' \subseteq issued'
  <2>1. Stored' \subseteq Stored \cup {t} /\ Stored \ {row[s]} \subseteq Stored'
    BY <1>4, RotatedRow DEF Rotate, IInv
  <2>2. t \notin issued /\ issued' = issued \cup {t}
    BY <1>4 DEF Rotate
  <2>3. Changed({row[s]})
    BY <1>4, <2>1, <2>2 DEF Rotate, Changed
  <2> QED BY <2>1, <2>2, <2>3, ChangeKeeps DEF IInv
<1>5. ASSUME NEW s \in Sessions, NEW byId \in BOOLEAN, SelectSession(o, s, byId)
      PROVE  Presence' /\ RevokedStaysOut' /\ LiveIsAccepted' /\ Stored' \subseteq issued'
  BY <1>1, <1>5 DEF SelectSession
<1>6. CASE ReadMembers(o)
  BY <1>1, <1>6 DEF ReadMembers
<1>7. CASE ChangeCache(o)
  BY <1>1, <1>7 DEF ChangeCache
<1> QED BY <1>2, <1>3, <1>4, <1>5, <1>6, <1>7 DEF ChangeStep

\* What a change may become.
LEMMA ChangeMoves ==
    ASSUME NEW ch \in Change, NEW d \in SUBSET Tokens, NEW a \in SUBSET Tokens,
           NEW f \in SUBSET Sessions, NEW b \in BOOLEAN
    PROVE  /\ [ch EXCEPT !.at = "selected", !.drop = d, !.of = f, !.byId = b] \in Change
           /\ [ch EXCEPT !.at = "members", !.all = TRUE] \in Change
           /\ [ch EXCEPT !.at = "delete", !.drop = d] \in Change
           /\ [ch EXCEPT !.at = "delete", !.drop = d, !.add = a] \in Change
<1>1. [ch EXCEPT !.at = "selected", !.drop = d, !.of = f, !.byId = b] \in Change
  BY DEF Change
<1>2. [ch EXCEPT !.at = "members", !.all = TRUE] \in Change
  BY DEF Change
<1>3. [ch EXCEPT !.at = "delete", !.drop = d] \in Change
  BY DEF Change
<1>4. [ch EXCEPT !.at = "delete", !.drop = d, !.add = a] \in Change
  BY DEF Change
<1> QED BY <1>1, <1>2, <1>3, <1>4

\* The types hold in every state.
LEMMA TypeStep == CacheAssumption /\ IInv /\ [Next]_vars => TypeOK'
<1> SUFFICES ASSUME CacheAssumption, TypeOK, Presence, [Next]_vars PROVE TypeOK'
  BY DEF IInv
<1> USE DEF TypeOK, Check, Change, CacheAssumption
<1>1. CASE UNCHANGED vars
  BY <1>1 DEF vars
<1>2. ASSUME NEW c \in Checks, NEW t \in Tokens, Begin(c, t) PROVE TypeOK'
  BY <1>2 DEF Begin
<1>3. ASSUME NEW c \in Checks, LookInCache(c) PROVE TypeOK'
  BY <1>3 DEF LookInCache, GoesTo
<1>4. ASSUME NEW c \in Checks, LookInTable(c) PROVE TypeOK'
  BY <1>4 DEF LookInTable, GoesTo
<1>5. ASSUME NEW c \in Checks, FillCache(c) PROVE TypeOK'
  <2>1. check[c].token \in Tokens
    BY <1>5 DEF FillCache, Presence
  <2> QED BY <1>5, <2>1 DEF FillCache, GoesTo
<1>6. ASSUME NEW c \in Checks, LastLook(c) PROVE TypeOK'
  BY <1>6 DEF LastLook, GoesTo
<1>7. ASSUME NEW gone, Touched(gone) PROVE check' \in [Checks -> Check]
  BY <1>7 DEF Touched
<1>8. ASSUME NEW o \in Changes, NEW s \in Sessions, NEW byId \in BOOLEAN,
             SelectSession(o, s, byId)
      PROVE  TypeOK'
  <2>1. row[s] \in Tokens
    BY <1>8 DEF SelectSession
  <2>2. change[o] \in Change
    OBVIOUS
  <2>3. [change[o] EXCEPT !.at = "selected", !.drop = {row[s]}, !.of = {s}, !.byId = byId]
            \in Change
    <3> HIDE DEF Change
    <3>1. {row[s]} \in SUBSET Tokens /\ {s} \in SUBSET Sessions
      BY <2>1
    <3> QED BY <2>2, <3>1, ChangeMoves
  <2>4. change' \in [Changes -> Change]
    BY <1>8, <2>3 DEF SelectSession
  <2> QED BY <1>8, <2>4 DEF SelectSession
<1>9. ASSUME NEW o \in Changes, DeleteSession(o) PROVE TypeOK'
  <2>1. row' \in [Sessions -> Tokens \cup {NoToken}]
    BY <1>9 DEF DeleteSession
  <2>2. check' \in [Checks -> Check]
    BY <1>7, <1>9 DEF DeleteSession
  <2> QED BY <1>9, <2>1, <2>2 DEF DeleteSession
<1>10. ASSUME NEW o \in Changes, RevokeUser(o) PROVE TypeOK'
  <2>1. check' \in [Checks -> Check]
    BY <1>7, <1>10 DEF RevokeUser
  <2>2. [change[o] EXCEPT !.at = "members", !.all = TRUE] \in Change
    <3> HIDE DEF Change
    <3>1. change[o] \in Change
      OBVIOUS
    <3> QED BY <3>1, ChangeMoves
  <2>3. change' \in [Changes -> Change]
    BY <1>10, <2>2 DEF RevokeUser
  <2>4. row' \in [Sessions -> Tokens \cup {NoToken}]
    BY <1>10 DEF RevokeUser
  <2> QED BY <1>10, <2>1, <2>3, <2>4 DEF RevokeUser
<1>11. ASSUME NEW o \in Changes, ReadMembers(o) PROVE TypeOK'
  <2>1. [change[o] EXCEPT !.at = "delete", !.drop = index] \in Change
    <3> HIDE DEF Change
    <3>1. change[o] \in Change /\ index \in SUBSET Tokens
      OBVIOUS
    <3> QED BY <3>1, ChangeMoves
  <2>2. change' \in [Changes -> Change]
    BY <1>11, <2>1 DEF ReadMembers
  <2> QED BY <1>11, <2>2 DEF ReadMembers
<1>12. ASSUME NEW o \in Changes, NEW s \in Sessions, NEW t \in Tokens, Rotate(o, s, t)
       PROVE  TypeOK'
  <2>1. check' \in [Checks -> Check]
    BY <1>7, <1>12 DEF Rotate
  <2>2. row[s] \in Tokens
    BY <1>12 DEF Rotate
  <2>3. [change[o] EXCEPT !.at = "delete", !.drop = {row[s]}, !.add = {t}] \in Change
    <3> HIDE DEF Change
    <3>1. change[o] \in Change /\ {row[s]} \in SUBSET Tokens /\ {t} \in SUBSET Tokens
      BY <2>2
    <3> QED BY <3>1, ChangeMoves
  <2>4. change' \in [Changes -> Change]
    BY <1>12, <2>3 DEF Rotate
  <2> QED BY <1>12, <2>1, <2>4 DEF Rotate
<1>13. ASSUME NEW o \in Changes, ChangeCache(o) PROVE TypeOK'
  BY <1>13 DEF ChangeCache
<1>14. ASSUME NEW t \in key, KeyExpires(t) PROVE TypeOK'
  BY <1>14 DEF KeyExpires
<1> QED BY <1>1, <1>2, <1>3, <1>4, <1>5, <1>6, <1>8, <1>9, <1>10, <1>11, <1>12, <1>13, <1>14
        DEF Next, CheckStep, ChangeStep

LEMMA InvStep == CacheAssumption /\ IInv /\ [Next]_vars => IInv'
<1> SUFFICES ASSUME CacheAssumption, IInv, [Next]_vars PROVE IInv'
  OBVIOUS
<1>1. TypeOK'
  BY TypeStep
<1>2. Presence' /\ RevokedStaysOut' /\ LiveIsAccepted' /\ Stored' \subseteq issued'
  <2>1. ASSUME UNCHANGED <<row, check, issued>>
        PROVE  Presence' /\ RevokedStaysOut' /\ LiveIsAccepted' /\ Stored' \subseteq issued'
    BY <2>1 DEF IInv, Presence, RevokedStaysOut, LiveIsAccepted, Stored
  <2>2. CASE UNCHANGED vars
    BY <2>1, <2>2 DEF vars
  <2>3. ASSUME NEW t \in key, KeyExpires(t)
        PROVE  Presence' /\ RevokedStaysOut' /\ LiveIsAccepted' /\ Stored' \subseteq issued'
    BY <2>1, <2>3 DEF KeyExpires
  <2> QED BY <2>2, <2>3, CheckStepKeeps, ChangeStepKeeps DEF Next
<1> QED BY <1>1, <1>2 DEF IInv

LEMMA InvInit == CacheAssumption /\ Init => IInv
<1> SUFFICES ASSUME CacheAssumption, Init PROVE IInv
  OBVIOUS
<1> USE DEF CacheAssumption, Init
<1>1. Stored \subseteq Tokens
  BY DEF Stored
<1>2. TypeOK
  BY <1>1 DEF TypeOK, Check, Change
<1>3. Presence /\ RevokedStaysOut /\ LiveIsAccepted
  BY DEF Presence, RevokedStaysOut, LiveIsAccepted
<1> QED BY <1>2, <1>3 DEF IInv

-----------------------------------------------------------------------------
\* The types of table, cache, requests and changes hold in every state.
THEOREM CacheTypes == ASSUME CacheAssumption PROVE Spec => []TypeOK
<1>1. IInv => TypeOK
  BY DEF IInv
<1>2. Init => IInv
  BY InvInit
<1>3. IInv /\ [Next]_vars => IInv'
  BY InvStep
<1> QED BY <1>1, <1>2, <1>3, PTL DEF Spec

\* A request that begins after its token was revoked or rotated away is refused,
\* whatever the cache holds, and one whose row is there all the time is not.
THEOREM RevokedIsRefused ==
    ASSUME CacheAssumption PROVE Spec => []VerdictsHold
<1>1. IInv => VerdictsHold
  BY DEF IInv, VerdictsHold
<1>2. Init => IInv
  BY InvInit
<1>3. IInv /\ [Next]_vars => IInv'
  BY InvStep
<1> QED BY <1>1, <1>2, <1>3, PTL DEF Spec

-----------------------------------------------------------------------------
(* The tabs of MCBrowser.  What TokenRefreshProofs proves for any slots,    *)
(* tabs and bounds is taken for the three variants that lose nothing.      *)

RaceProofs == INSTANCE TokenRefreshProofs WITH
            Slots <- {1, 2}, Tabs <- {ta, tb}, WebLocks <- FALSE, LockTimeouts <- FALSE,
            Prompt <- TRUE, MaxAttempts <- 3, Requests <- {"call", "switch"},
            MaxGen <- 3, MaxTrips <- 2, row <- auth, MaxLost <- 0

HeldProofs == INSTANCE TokenRefreshProofs WITH
            Slots <- {1, 2}, Tabs <- {ta, tb}, WebLocks <- TRUE, LockTimeouts <- FALSE,
            Prompt <- FALSE, MaxAttempts <- 2, Requests <- {"call", "switch", "logout"},
            MaxGen <- 9, MaxTrips <- 2, row <- auth, MaxLost <- 0

LooseProofs == INSTANCE TokenRefreshProofs WITH
             Slots <- {1, 2}, Tabs <- {ta, tb}, WebLocks <- TRUE, LockTimeouts <- TRUE,
             Prompt <- FALSE, MaxAttempts <- 2,
             Requests <- {"call", "switch", "remove", "logout"},
             MaxGen <- 3, MaxTrips <- 1, row <- auth, MaxLost <- 1

\* The module of the proofs has the initial states and the steps of Race.
LEMMA RaceStarts == Race!Init => RaceProofs!Init
  BY DEF
         Race!Init, Race!Loading, Race!NoMsg, Race!NoJar, Race!Pending, Race!Answering,
         Race!NoAccess, Race!Keep, RaceProofs!Init, RaceProofs!Loading, RaceProofs!NoMsg,
         RaceProofs!NoJar, RaceProofs!Pending, RaceProofs!Answering, RaceProofs!NoAccess,
         RaceProofs!Keep

LEMMA RaceSteps == Race!Next => RaceProofs!Next
  BY DEF
         Race!Keep, Race!NoAccess, Race!Answering, Race!Pending, Race!Kinds, Race!NoJar,
         Race!NoMsg, Race!Loading, Race!Current, Race!Stale, Race!Known, Race!Selected,
         Race!FellBack, Race!ClearSlots, Race!ClearSelected, Race!ClearAll, Race!Received,
         Race!Answer, Race!Resolution, Race!Issued, Race!RefreshOf, Race!ServerRefresh,
         Race!GraceEnds, Race!Accepted, Race!ServerCall, Race!ServerSwitch, Race!Deleted,
         Race!Remaining, Race!SignedOut, Race!Fallbacks, Race!ServerLogout, Race!ServerRemove,
         Race!Send, Race!Asking, Race!Bootstrap, Race!LockGranted, Race!LockTimesOut,
         Race!SendRefresh, Race!RetryRefresh, Race!AfterRefresh, Race!Release, Race!Applied,
         Race!Arrived, Race!TriesAgain, Race!RefreshReply, Race!CallReply, Race!SwitchReply,
         Race!LogoutReply, Race!RemoveReply, Race!UserAsks, Race!GiveUp, Race!RequestFails,
         Race!Reload, Race!ServerStep, Race!ReplyArrives, Race!PageStep, Race!LockStep,
         Race!UserStep, Race!Next, RaceProofs!Keep, RaceProofs!NoAccess, RaceProofs!Answering,
         RaceProofs!Pending, RaceProofs!Kinds, RaceProofs!NoJar, RaceProofs!NoMsg,
         RaceProofs!Loading, RaceProofs!Current, RaceProofs!Stale, RaceProofs!Known,
         RaceProofs!Selected, RaceProofs!FellBack, RaceProofs!ClearSlots,
         RaceProofs!ClearSelected, RaceProofs!ClearAll, RaceProofs!Received, RaceProofs!Answer,
         RaceProofs!Resolution, RaceProofs!Issued, RaceProofs!RefreshOf, RaceProofs!ServerRefresh,
         RaceProofs!GraceEnds, RaceProofs!Accepted, RaceProofs!ServerCall,
         RaceProofs!ServerSwitch, RaceProofs!Deleted, RaceProofs!Remaining, RaceProofs!SignedOut,
         RaceProofs!Fallbacks, RaceProofs!ServerLogout, RaceProofs!ServerRemove, RaceProofs!Send,
         RaceProofs!Asking, RaceProofs!Bootstrap, RaceProofs!LockGranted, RaceProofs!LockTimesOut,
         RaceProofs!SendRefresh, RaceProofs!RetryRefresh, RaceProofs!AfterRefresh,
         RaceProofs!Release, RaceProofs!Applied, RaceProofs!Arrived, RaceProofs!TriesAgain,
         RaceProofs!RefreshReply, RaceProofs!CallReply, RaceProofs!SwitchReply,
         RaceProofs!LogoutReply, RaceProofs!RemoveReply, RaceProofs!UserAsks, RaceProofs!GiveUp,
         RaceProofs!RequestFails, RaceProofs!Reload, RaceProofs!ServerStep,
         RaceProofs!ReplyArrives, RaceProofs!PageStep, RaceProofs!LockStep, RaceProofs!UserStep,
         RaceProofs!Next

LEMMA RaceAssumed == RaceProofs!RefreshAssumption
  BY RefreshAssumed DEF Race!RefreshAssumption, RaceProofs!RefreshAssumption

\* The module of the proofs has the initial states and the steps of Held.
LEMMA HeldStarts == Held!Init => HeldProofs!Init
  BY DEF
         Held!Init, Held!Loading, Held!NoMsg, Held!NoJar, Held!Pending, Held!Answering,
         Held!NoAccess, Held!Keep, HeldProofs!Init, HeldProofs!Loading, HeldProofs!NoMsg,
         HeldProofs!NoJar, HeldProofs!Pending, HeldProofs!Answering, HeldProofs!NoAccess,
         HeldProofs!Keep

LEMMA HeldSteps == Held!Next => HeldProofs!Next
  BY DEF
         Held!Keep, Held!NoAccess, Held!Answering, Held!Pending, Held!Kinds, Held!NoJar,
         Held!NoMsg, Held!Loading, Held!Current, Held!Stale, Held!Known, Held!Selected,
         Held!FellBack, Held!ClearSlots, Held!ClearSelected, Held!ClearAll, Held!Received,
         Held!Answer, Held!Resolution, Held!Issued, Held!RefreshOf, Held!ServerRefresh,
         Held!GraceEnds, Held!Accepted, Held!ServerCall, Held!ServerSwitch, Held!Deleted,
         Held!Remaining, Held!SignedOut, Held!Fallbacks, Held!ServerLogout, Held!ServerRemove,
         Held!Send, Held!Asking, Held!Bootstrap, Held!LockGranted, Held!LockTimesOut,
         Held!SendRefresh, Held!RetryRefresh, Held!AfterRefresh, Held!Release, Held!Applied,
         Held!Arrived, Held!TriesAgain, Held!RefreshReply, Held!CallReply, Held!SwitchReply,
         Held!LogoutReply, Held!RemoveReply, Held!UserAsks, Held!GiveUp, Held!RequestFails,
         Held!Reload, Held!ServerStep, Held!ReplyArrives, Held!PageStep, Held!LockStep,
         Held!UserStep, Held!Next, HeldProofs!Keep, HeldProofs!NoAccess, HeldProofs!Answering,
         HeldProofs!Pending, HeldProofs!Kinds, HeldProofs!NoJar, HeldProofs!NoMsg,
         HeldProofs!Loading, HeldProofs!Current, HeldProofs!Stale, HeldProofs!Known,
         HeldProofs!Selected, HeldProofs!FellBack, HeldProofs!ClearSlots,
         HeldProofs!ClearSelected, HeldProofs!ClearAll, HeldProofs!Received, HeldProofs!Answer,
         HeldProofs!Resolution, HeldProofs!Issued, HeldProofs!RefreshOf, HeldProofs!ServerRefresh,
         HeldProofs!GraceEnds, HeldProofs!Accepted, HeldProofs!ServerCall,
         HeldProofs!ServerSwitch, HeldProofs!Deleted, HeldProofs!Remaining, HeldProofs!SignedOut,
         HeldProofs!Fallbacks, HeldProofs!ServerLogout, HeldProofs!ServerRemove, HeldProofs!Send,
         HeldProofs!Asking, HeldProofs!Bootstrap, HeldProofs!LockGranted, HeldProofs!LockTimesOut,
         HeldProofs!SendRefresh, HeldProofs!RetryRefresh, HeldProofs!AfterRefresh,
         HeldProofs!Release, HeldProofs!Applied, HeldProofs!Arrived, HeldProofs!TriesAgain,
         HeldProofs!RefreshReply, HeldProofs!CallReply, HeldProofs!SwitchReply,
         HeldProofs!LogoutReply, HeldProofs!RemoveReply, HeldProofs!UserAsks, HeldProofs!GiveUp,
         HeldProofs!RequestFails, HeldProofs!Reload, HeldProofs!ServerStep,
         HeldProofs!ReplyArrives, HeldProofs!PageStep, HeldProofs!LockStep, HeldProofs!UserStep,
         HeldProofs!Next

LEMMA HeldAssumed == HeldProofs!RefreshAssumption
  BY RefreshAssumed DEF Held!RefreshAssumption, HeldProofs!RefreshAssumption

\* The module of the proofs has the initial states and the steps of Loose.
LEMMA LooseStarts == Loose!Init => LooseProofs!Init
  BY DEF
         Loose!Init, Loose!Loading, Loose!NoMsg, Loose!NoJar, Loose!Pending, Loose!Answering,
         Loose!NoAccess, Loose!Keep, LooseProofs!Init, LooseProofs!Loading, LooseProofs!NoMsg,
         LooseProofs!NoJar, LooseProofs!Pending, LooseProofs!Answering, LooseProofs!NoAccess,
         LooseProofs!Keep

LEMMA LooseSteps == Loose!Next => LooseProofs!Next
  BY DEF
         Loose!Keep, Loose!NoAccess, Loose!Answering, Loose!Pending, Loose!Kinds, Loose!NoJar,
         Loose!NoMsg, Loose!Loading, Loose!Current, Loose!Stale, Loose!Known, Loose!Selected,
         Loose!FellBack, Loose!ClearSlots, Loose!ClearSelected, Loose!ClearAll, Loose!Received,
         Loose!Answer, Loose!Resolution, Loose!Issued, Loose!RefreshOf, Loose!ServerRefresh,
         Loose!GraceEnds, Loose!Accepted, Loose!ServerCall, Loose!ServerSwitch, Loose!Deleted,
         Loose!Remaining, Loose!SignedOut, Loose!Fallbacks, Loose!ServerLogout,
         Loose!ServerRemove, Loose!Send, Loose!Asking, Loose!Bootstrap, Loose!LockGranted,
         Loose!LockTimesOut, Loose!SendRefresh, Loose!RetryRefresh, Loose!AfterRefresh,
         Loose!Release, Loose!Applied, Loose!Arrived, Loose!TriesAgain, Loose!RefreshReply,
         Loose!CallReply, Loose!SwitchReply, Loose!LogoutReply, Loose!RemoveReply, Loose!UserAsks,
         Loose!GiveUp, Loose!RequestFails, Loose!Reload, Loose!ServerStep, Loose!ReplyArrives,
         Loose!PageStep, Loose!LockStep, Loose!UserStep, Loose!Next, LooseProofs!Keep,
         LooseProofs!NoAccess, LooseProofs!Answering, LooseProofs!Pending, LooseProofs!Kinds,
         LooseProofs!NoJar, LooseProofs!NoMsg, LooseProofs!Loading, LooseProofs!Current,
         LooseProofs!Stale, LooseProofs!Known, LooseProofs!Selected, LooseProofs!FellBack,
         LooseProofs!ClearSlots, LooseProofs!ClearSelected, LooseProofs!ClearAll,
         LooseProofs!Received, LooseProofs!Answer, LooseProofs!Resolution, LooseProofs!Issued,
         LooseProofs!RefreshOf, LooseProofs!ServerRefresh, LooseProofs!GraceEnds,
         LooseProofs!Accepted, LooseProofs!ServerCall, LooseProofs!ServerSwitch,
         LooseProofs!Deleted, LooseProofs!Remaining, LooseProofs!SignedOut, LooseProofs!Fallbacks,
         LooseProofs!ServerLogout, LooseProofs!ServerRemove, LooseProofs!Send, LooseProofs!Asking,
         LooseProofs!Bootstrap, LooseProofs!LockGranted, LooseProofs!LockTimesOut,
         LooseProofs!SendRefresh, LooseProofs!RetryRefresh, LooseProofs!AfterRefresh,
         LooseProofs!Release, LooseProofs!Applied, LooseProofs!Arrived, LooseProofs!TriesAgain,
         LooseProofs!RefreshReply, LooseProofs!CallReply, LooseProofs!SwitchReply,
         LooseProofs!LogoutReply, LooseProofs!RemoveReply, LooseProofs!UserAsks,
         LooseProofs!GiveUp, LooseProofs!RequestFails, LooseProofs!Reload, LooseProofs!ServerStep,
         LooseProofs!ReplyArrives, LooseProofs!PageStep, LooseProofs!LockStep,
         LooseProofs!UserStep, LooseProofs!Next

LEMMA LooseAssumed == LooseProofs!RefreshAssumption
  BY RefreshAssumed DEF Loose!RefreshAssumption, LooseProofs!RefreshAssumption

\* It gives the variables the same types.
LEMMA RaceTyped == RaceProofs!TypeOK => Race!TypeOK
  BY DEF
         RaceProofs!TypeOK, RaceProofs!Tab, RaceProofs!Msg, RaceProofs!Kinds,
         RaceProofs!Reply, RaceProofs!Jar, RaceProofs!Access, RaceProofs!NoAccess,
         RaceProofs!Keep, Race!TypeOK, Race!Tab, Race!Msg, Race!Kinds, Race!Reply,
         Race!Jar, Race!Access, Race!NoAccess, Race!Keep

LEMMA HeldTyped == HeldProofs!TypeOK => Held!TypeOK
  BY DEF
         HeldProofs!TypeOK, HeldProofs!Tab, HeldProofs!Msg, HeldProofs!Kinds,
         HeldProofs!Reply, HeldProofs!Jar, HeldProofs!Access, HeldProofs!NoAccess,
         HeldProofs!Keep, Held!TypeOK, Held!Tab, Held!Msg, Held!Kinds, Held!Reply,
         Held!Jar, Held!Access, Held!NoAccess, Held!Keep

LEMMA LooseTyped == LooseProofs!TypeOK => Loose!TypeOK
  BY DEF
         LooseProofs!TypeOK, LooseProofs!Tab, LooseProofs!Msg, LooseProofs!Kinds,
         LooseProofs!Reply, LooseProofs!Jar, LooseProofs!Access, LooseProofs!NoAccess,
         LooseProofs!Keep, Loose!TypeOK, Loose!Tab, Loose!Msg, Loose!Kinds,
         Loose!Reply, Loose!Jar, Loose!Access, Loose!NoAccess, Loose!Keep

\* Part "race" goes on running, and is a run of RaceProofs.
LEMMA RaceRuns == [BrowserNext]_allVars /\ part = "race"
                  => (part = "race")' /\ [RaceProofs!Next]_RaceProofs!vars
<1>a. SUFFICES ASSUME [BrowserNext]_allVars, part = "race"
               PROVE  (part = "race")' /\ [RaceProofs!Next]_RaceProofs!vars
  OBVIOUS
<1>1. part' = part /\ ([Race!Next]_RaceProofs!vars)
  BY <1>a DEF BrowserNext, allVars, tokenVars, RaceProofs!vars
<1> QED BY <1>1, <1>a, RaceSteps

\* Part "held" goes on running, and is a run of HeldProofs.
LEMMA HeldRuns == [BrowserNext]_allVars /\ part = "held"
                  => (part = "held")' /\ [HeldProofs!Next]_HeldProofs!vars
<1>a. SUFFICES ASSUME [BrowserNext]_allVars, part = "held"
               PROVE  (part = "held")' /\ [HeldProofs!Next]_HeldProofs!vars
  OBVIOUS
<1>1. part' = part /\ ([Held!Next]_HeldProofs!vars)
  BY <1>a DEF BrowserNext, allVars, tokenVars, HeldProofs!vars
<1> QED BY <1>1, <1>a, HeldSteps

\* Any other part with two slots is one of LooseProofs, whose tabs mostly rest.
LEMMA LooseRuns == [BrowserNext]_allVars /\ part \notin {"race", "held", "locks"}
                  => (part \notin {"race", "held", "locks"})' /\ [LooseProofs!Next]_LooseProofs!vars
<1>a. SUFFICES ASSUME [BrowserNext]_allVars, part \notin {"race", "held", "locks"}
               PROVE  /\ (part \notin {"race", "held", "locks"})'
                      /\ [LooseProofs!Next]_LooseProofs!vars
  OBVIOUS
<1>1. part' = part /\ [Loose!Next]_LooseProofs!vars
  BY <1>a DEF BrowserNext, allVars, tokenVars, LooseProofs!vars
<1> QED BY <1>1, <1>a, LooseSteps

\* Whatever part runs, requests are answered by what the table says.
THEOREM BrowserVerdicts == BrowserSpec => []VerdictsHold
<1>1. BrowserInit => Init
  BY DEF BrowserInit
<1>2. [BrowserNext]_allVars => [Next]_vars
  BY DEF BrowserNext, allVars
<1>3. BrowserSpec => Spec
  BY <1>1, <1>2, PTL DEF BrowserSpec, Spec
<1>4. Spec => []VerdictsHold
  BY RevokedIsRefused, CacheAssumed
<1> QED BY <1>3, <1>4, PTL

\* The tabs of every part have their types, and so has the session cache.
THEOREM BrowserTypes == BrowserSpec => []TypesOK
<1>1. /\ RaceProofs!Spec => []RaceProofs!TypeOK
      /\ HeldProofs!Spec => []HeldProofs!TypeOK
      /\ LooseProofs!Spec => []LooseProofs!TypeOK
  BY RaceAssumed, RaceProofs!RefreshTypes, HeldAssumed, HeldProofs!RefreshTypes,
     LooseAssumed, LooseProofs!RefreshTypes
<1>2. BrowserSpec => []TypeOK
  <2>1. BrowserInit => Init
    BY DEF BrowserInit
  <2>2. [BrowserNext]_allVars => [Next]_vars
    BY DEF BrowserNext, allVars
  <2>3. Spec => []TypeOK
    BY CacheTypes, CacheAssumed
  <2> QED BY <2>1, <2>2, <2>3, PTL DEF BrowserSpec, Spec
<1>3. BrowserInit => \/ part = "race" /\ RaceProofs!Init
                     \/ part = "held" /\ HeldProofs!Init
                     \/ part = "locks"
                     \/ part \notin {"race", "held", "locks"} /\ LooseProofs!Init
  BY RaceStarts, HeldStarts, LooseStarts DEF BrowserInit
<1>4. part = "locks" /\ [BrowserNext]_allVars => (part = "locks")'
  BY DEF BrowserNext, allVars
<1>5. /\ part = "race" /\ Race!TypeOK /\ TypeOK => TypesOK
      /\ part = "held" /\ Held!TypeOK /\ TypeOK => TypesOK
      /\ part = "locks" /\ TypeOK => TypesOK
      /\ part \notin {"race", "held", "locks"} /\ Loose!TypeOK /\ TypeOK => TypesOK
  BY DEF TypesOK
<1> QED BY <1>1, <1>2, <1>3, <1>4, <1>5, RaceRuns, HeldRuns, LooseRuns, RaceTyped, HeldTyped,
           LooseTyped, PTL
        DEF BrowserSpec, RaceProofs!Spec, HeldProofs!Spec, LooseProofs!Spec

\* Whatever part with both slots runs, no cookie goes back to an earlier token.
THEOREM BrowserKeepsJar == ASSUME "locks" \notin Parts PROVE BrowserSpec => JarNeverGoesBack
<1>1. RaceProofs!Spec => JarNeverGoesBack
  <2>1. RaceProofs!Spec => RaceProofs!JarNeverGoesBack
    BY RaceAssumed, RaceProofs!JarKept
  <2> QED BY <2>1, PTL DEF JarNeverGoesBack, Loose!JarNeverGoesBack,
                           RaceProofs!JarNeverGoesBack, Loose!vars, RaceProofs!vars
<1>2. HeldProofs!Spec => JarNeverGoesBack
  <2>1. HeldProofs!Spec => HeldProofs!JarNeverGoesBack
    BY HeldAssumed, HeldProofs!JarKept
  <2> QED BY <2>1, PTL DEF JarNeverGoesBack, Loose!JarNeverGoesBack,
                           HeldProofs!JarNeverGoesBack, Loose!vars, HeldProofs!vars
<1>3. LooseProofs!Spec => JarNeverGoesBack
  <2>1. LooseProofs!Spec => LooseProofs!JarNeverGoesBack
    BY LooseAssumed, LooseProofs!JarKept
  <2> QED BY <2>1, PTL DEF JarNeverGoesBack, Loose!JarNeverGoesBack,
                           LooseProofs!JarNeverGoesBack, Loose!vars, LooseProofs!vars
<1>4. BrowserInit => \/ part = "race" /\ RaceProofs!Init
                     \/ part = "held" /\ HeldProofs!Init
                     \/ part \notin {"race", "held", "locks"} /\ LooseProofs!Init
  BY RaceStarts, HeldStarts, LooseStarts DEF BrowserInit
<1> QED BY <1>1, <1>2, <1>3, <1>4, RaceRuns, HeldRuns, LooseRuns, PTL
        DEF BrowserSpec, RaceProofs!Spec, HeldProofs!Spec, LooseProofs!Spec

\* Races between tabs cost no session, and with Web Locks there are none.
THEOREM BrowserKeepsSessions == BrowserSpec => []NoSessionLost
<1>1. RaceProofs!Spec => []RaceProofs!NoSessionLost
  <2>1. {"call", "switch"} \subseteq {"call", "switch"}
    OBVIOUS
  <2> QED BY <2>1, RaceAssumed, RaceProofs!NoSessionIsLost
<1>2. HeldProofs!Spec => []HeldProofs!LockedRefreshIsCurrent
  BY HeldAssumed, HeldProofs!LockedRefreshes
<1>3. RaceProofs!NoSessionLost => Race!NoSessionLost
  BY DEF RaceProofs!NoSessionLost, Race!NoSessionLost
<1>4. HeldProofs!LockedRefreshIsCurrent => Held!LockedRefreshIsCurrent
  BY DEF HeldProofs!LockedRefreshIsCurrent, Held!LockedRefreshIsCurrent,
         HeldProofs!Received, Held!Received, HeldProofs!Selected, Held!Selected,
         HeldProofs!Known, Held!Known, HeldProofs!Current, Held!Current,
         HeldProofs!Pending, Held!Pending, HeldProofs!Answering, Held!Answering,
         HeldProofs!Keep, Held!Keep
<1>5. BrowserInit => \/ part = "race" /\ RaceProofs!Init
                     \/ part = "held" /\ HeldProofs!Init
                     \/ part \notin {"race", "held"}
  BY RaceStarts, HeldStarts DEF BrowserInit
<1>6. part \notin {"race", "held"} /\ [BrowserNext]_allVars => (part \notin {"race", "held"})'
  BY DEF BrowserNext, allVars
<1>7. /\ part = "race" /\ Race!NoSessionLost => NoSessionLost
      /\ part = "held" /\ Held!LockedRefreshIsCurrent => NoSessionLost
      /\ part \notin {"race", "held"} => NoSessionLost
  BY DEF NoSessionLost
<1> QED BY <1>1, <1>2, <1>3, <1>4, <1>5, <1>6, <1>7, RaceRuns, HeldRuns, PTL
        DEF BrowserSpec, RaceProofs!Spec, HeldProofs!Spec
=============================================================================
